----------------------------- MODULE ConfigFile -----------------------------
(***************************************************************************)
(* The parser of the configuration file: Config, ServerBlock and           *)
(* LocationBlock (src/src/Config.cpp, ServerBlock.cpp, LocationBlock.cpp), *)
(* three constructors that read lines from one stream in turn, each with   *)
(* its own stack of braces and its own error_flag.                         *)
(*                                                                         *)
(* A line is the sequence of its words (split).  What a word means to the  *)
(* C library and to the file system are constants.                         *)
(***************************************************************************)
EXTENDS Integers, Sequences, FiniteSets, TLC

CONSTANTS
  Files,         \* the configuration files
  Number,        \* Number[w]: what atoi makes of word w
  Numeric,       \* the words that are digits only
  Ip,            \* Ip[w]: the address of a word of four numbers up to 255
  Urls,          \* the words that begin with / or #
  Readable,      \* the files access() can read
  Executable,    \* the files access() can execute
  Directories,   \* the paths opendir() can open
  Contents       \* Contents[f]: the lines of a status or mime file, split

Level == {"config", "server", "location"}
Blanks == <<" ">>       \* a line of blanks: not empty, but it has no word
Opening == "{"
Closing == "}"

ASSUME ConfigAssumption ==
  Files \subseteq Seq(Seq(STRING)) /\ {Opening, Closing} \cap Urls = {}

(* The directives that take one value.                                     *)
Single ==
  [config   |-> {"program_name", "http_version", "status_path", "mime_path",
                 "timeout", "cgi_version", "default_error_page"},
   server   |-> {"client_body_size", "listen", "port", "server_name"},
   location |-> {"root_dir", "directory_listing", "index", "cgi_extension",
                 "cgi_path", "redirection"}]

(* error_flag: 255; 15 or 31; 63 or 127.                                   *)
Mandatory ==
  [config   |-> Single.config \cup {"server"},
   server   |-> (Single.server \ {"server_name"}) \cup {"location"},
   location |-> (Single.location \ {"redirection"}) \cup {"allowed_method"}]

VARIABLES
  file,          \* the file being read
  next,          \* its next line
  level,         \* the constructor that reads it
  depth,         \* depth[l]: size of the stack brace of level l
  block,         \* block[l]: the object under construction at level l
  net,           \* auxiliary: braces opened minus closed in the lines read
  status_messages, mime_types,
  outcome        \* "parsing", "accepted", "refused" (FAIL), "crashed"

cvars == <<file, next, level, depth, block, net, status_messages, mime_types,
           outcome>>
-----------------------------------------------------------------------------
(* An object: its directives so far and the blocks in it; first and last   *)
(* are its lines (auxiliary).                                              *)
NewBlock(l, url, line) ==
  [url |-> url, first |-> line, last |-> line, seen |-> {},
   value |-> [d \in Single[l] |-> ""], allowed_method |-> {}, blocks |-> <<>>]

Count(line, n, word) == Cardinality({i \in 1..n : line[i] = word})
Braces(line, n) == Count(line, n, Opening) - Count(line, n, Closing)

(* checkBracePair: no "}" of the line finds the stack empty.               *)
BracesFit(line, d) == \A n \in 1..Len(line) : d + Braces(line, n) >= 0

Opens(l, line) ==
  \/ l = "config" /\ Len(line) = 2 /\ line[1] = "server"
  \/ l = "server" /\ Len(line) = 3 /\ line[1] = "location"

(* allowed_method takes any number of values.                              *)
Directive(l) == Single[l] \cup (IF l = "location" THEN {"allowed_method"} ELSE {})

Gives(l, line, d) ==
  /\ d \in Directive(l) /\ line # <<>> /\ line[1] = d
  /\ d = "allowed_method" \/ Len(line) = 2

Child(l)  == IF l = "config" THEN "server" ELSE "location"
Parent(l) == IF l = "location" THEN "server" ELSE "config"

(* A map filled line by line, from <<key, line, value>>: the later wins.   *)
LaterWins(S) ==
  [k \in {x[1] : x \in S} |->
     (CHOOSE x \in S : x[1] = k /\ \A y \in S : y[1] = k => y[2] <= x[2])[3]]

(* parseStatusFile: a message with a colon in it is left out.              *)
ParseStatusFile(path) ==
  LET f == Contents[path]
  IN  LaterWins({<<f[i][1], i, f[i][2]>> : i \in {j \in 1..Len(f) : Len(f[j]) = 2}})

(* parseMimeFile: a type and its extensions.                               *)
ParseMimeFile(path) ==
  LET f == Contents[path]
  IN  LaterWins(UNION {{<<f[i][j], i, f[i][1]>> : j \in 2..Len(f[i])} :
                       i \in 1..Len(f)})
-----------------------------------------------------------------------------
ConfigSemantics(b) ==
  /\ b.value["http_version"] = "HTTP/1.1"
  /\ b.value["cgi_version"] = "CGI/1.1"
  /\ b.value["default_error_page"] \in Readable
  /\ Number[b.value["timeout"]] \in 1..99

ServerSemantics(b) ==
  /\ Number[b.value["client_body_size"]] \in 1..10485760
  /\ b.value["listen"] \in DOMAIN Ip
  /\ b.value["port"] \in Numeric
  /\ Number[b.value["port"]] \in 0..65535

LocationSemantics(b) ==
  /\ b.url \in Urls
  /\ b.value["root_dir"] \in Directories
  /\ b.allowed_method \subseteq {"GET", "POST", "DELETE"}
  /\ b.value["directory_listing"] \in {"on", "off"}
  /\ b.value["cgi_path"] \in Executable

CheckSemantics(l, b) ==
  /\ l = "config"   => ConfigSemantics(b)
  /\ l = "server"   => ServerSemantics(b)
  /\ l = "location" => LocationSemantics(b)

(* The end of a constructor: every directive given, every brace closed.    *)
Completes(l, b) ==
  Mandatory[l] \subseteq b.seen /\ depth[l] = 0 /\ CheckSemantics(l, b)

Init ==
  /\ file \in Files /\ next = 1 /\ level = "config" /\ net = 0
  /\ depth = [l \in Level |-> 0]
  /\ block = [l \in Level |-> NewBlock(l, "", 0)]
  /\ status_messages = <<>> /\ mime_types = <<>>
  /\ outcome = "parsing"

Parsing == outcome = "parsing"
Ends(result) ==
  /\ outcome' = result
  /\ UNCHANGED <<file, next, level, depth, block, net, status_messages, mime_types>>

(* Mutant: the constructor of a block looks only at its braces. *)
BlockEndsByBrace == level # "config" /\ depth[level] = 0

(* while (!file.eof() && !brace.empty()) of a block.                       *)
BlockEnds == level # "config" /\ (depth[level] = 0 \/ next > Len(file))

Refused(line) ==
  \/ ~BracesFit(line, depth[level])
  \/ Opens(level, line) /\ line[Len(line)] # Opening
  \/ Gives(level, line, "timeout") /\ line[2] \notin Numeric
  \/ \E d \in {"status_path", "mime_path"} :
       Gives(level, line, d) /\ line[2] \notin Readable

Line == file[next]
CanRead == Parsing /\ ~BlockEnds /\ next <= Len(file)

RefuseLine == CanRead /\ Refused(Line) /\ Ends("refused")

(* tmp_vec[0] of an empty vector.                                          *)
ReadBlanks == CanRead /\ Line = Blanks /\ Ends("crashed")

(* A line is taken; its braces count for the level that reads it.          *)
Takes ==
  /\ CanRead /\ Line # Blanks /\ ~Refused(Line)
  /\ next' = next + 1
  /\ net' = net + Braces(Line, Len(Line))
  /\ UNCHANGED <<file, outcome>>

Counted == [depth EXCEPT ![level] = @ + Braces(Line, Len(Line))]

(* The constructor of the block starts, with a brace of its own.           *)
OpenBlock ==
  LET l == Child(level) IN
  /\ Takes
  /\ Opens(level, Line)
  /\ level' = l
  /\ depth' = [Counted EXCEPT ![l] = 1]
  /\ block' = [block EXCEPT ![l] =
                 NewBlock(l, IF l = "location" THEN Line[2] ELSE "", next)]
  /\ UNCHANGED <<status_messages, mime_types>>

(* Mutant: the first value of a directive is kept. *)
GivenOnce(b, line, d) ==
  IF d = "allowed_method"
    THEN [b EXCEPT !.seen = @ \cup {d},
                   !.allowed_method = @ \cup {line[i] : i \in 2..Len(line)}]
    ELSE IF d \in b.seen THEN b
    ELSE [b EXCEPT !.seen = @ \cup {d}, !.value[d] = line[2]]

Given(b, line, d) ==
  IF d = "allowed_method"
    THEN [b EXCEPT !.seen = @ \cup {d},
                   !.allowed_method = @ \cup {line[i] : i \in 2..Len(line)}]
    ELSE [b EXCEPT !.seen = @ \cup {d}, !.value[d] = line[2]]

GiveDirective ==
  /\ Takes
  /\ \E d \in Directive(level) :
       /\ Gives(level, Line, d)
       /\ block' = [block EXCEPT ![level] = Given(@, Line, d)]
       /\ status_messages' = IF d = "status_path"
                               THEN ParseStatusFile(Line[2]) @@ status_messages
                               ELSE status_messages
       /\ mime_types' = IF d = "mime_path"
                          THEN ParseMimeFile(Line[2]) @@ mime_types
                          ELSE mime_types
  /\ depth' = Counted
  /\ UNCHANGED level

(* An empty line, an unknown directive, a wrong number of words: only the  *)
(* braces count.                                                           *)
SkipLine ==
  /\ Takes
  /\ ~Opens(level, Line)
  /\ \A d \in Directive(level) : ~Gives(level, Line, d)
  /\ depth' = Counted
  /\ UNCHANGED <<level, block, status_messages, mime_types>>

(* Mutant: the parent does not pop the brace of the opening line. *)
CloseBlockKeepsBrace ==
  LET up == Parent(level)  b == [block[level] EXCEPT !.last = next - 1] IN
  /\ Parsing /\ BlockEnds /\ Completes(level, b)
  /\ level' = up
  /\ block' = [block EXCEPT ![up].blocks = Append(@, b),
                            ![up].seen = @ \cup {level}]
  /\ UNCHANGED <<file, next, depth, net, status_messages, mime_types, outcome>>

(* The constructor returns: push_back and brace.pop() in its caller.       *)
CloseBlock ==
  LET up == Parent(level)  b == [block[level] EXCEPT !.last = next - 1] IN
  /\ Parsing /\ BlockEnds /\ Completes(level, b)
  /\ level' = up
  /\ depth' = [depth EXCEPT ![up] = @ - 1]
  /\ block' = [block EXCEPT ![up].blocks = Append(@, b),
                            ![up].seen = @ \cup {level}]
  /\ UNCHANGED <<file, next, net, status_messages, mime_types, outcome>>

RefuseBlock ==
  Parsing /\ BlockEnds /\ ~Completes(level, block[level]) /\ Ends("refused")

EndOfFile ==
  /\ Parsing /\ level = "config" /\ next > Len(file)
  /\ Ends(IF Completes("config", block["config"]) THEN "accepted" ELSE "refused")

ParseStep == \/ RefuseLine \/ ReadBlanks \/ OpenBlock \/ GiveDirective
             \/ SkipLine \/ CloseBlock \/ RefuseBlock \/ EndOfFile
-----------------------------------------------------------------------------
TypeOK ==
  /\ file \in Seq(Seq(STRING)) /\ next \in 1..(Len(file) + 1)
  /\ level \in Level
  /\ depth \in [Level -> Nat]
  /\ net \in Int
  /\ outcome \in {"parsing", "accepted", "refused", "crashed"}

(* The blocks around a level. *)
Around == [config |-> 0, server |-> 1, location |-> 2]

(* The three stacks together are the nesting of the file: each open block  *)
(* counts its opening brace twice, in the stack of its parent and in its   *)
(* own (brace.push("{") and brace.pop() of the constructors).              *)
NestingAgrees ==
  /\ net = depth["config"] + depth["server"] + depth["location"]
           - Around[level]
  /\ level = "config" => depth["server"] = 0
  /\ level # "location" => depth["location"] = 0
  /\ outcome = "accepted" => net = 0

(* Lines of b that are not in a block of b. *)
Own(b) == {i \in (b.first + 1)..b.last :
             \A k \in 1..Len(b.blocks) :
               i \notin (b.blocks[k].first + 1)..b.blocks[k].last}

(* The braces of the first i lines of file f, opened minus closed.         *)
Places(f, word, i) ==
  UNION {{n} \X {k \in 1..Len(f[n]) : f[n][k] = word} : n \in 1..i}
NetAt(f, i) ==
  Cardinality(Places(f, Opening, i)) - Cardinality(Places(f, Closing, i))

Giving(f, l, lines, d) == {i \in lines : Gives(l, f[i], d)}
LastOf(S) == CHOOSE i \in S : \A j \in S : i >= j

(* What b should be, by its lines in f alone.                              *)
Written(f, l, b) ==
  /\ \A d \in Single[l] :
       LET giving == Giving(f, l, Own(b), d)
       IN  b.value[d] = IF giving = {} THEN "" ELSE f[LastOf(giving)][2]
  /\ \A d \in Mandatory[l] \ Level : Giving(f, l, Own(b), d) # {}
  /\ b.allowed_method = UNION {{f[i][k] : k \in 2..Len(f[i])} :
                                 i \in Giving(f, l, Own(b), "allowed_method")}
  /\ {i \in Own(b) : Opens(l, f[i])} = {b.blocks[k].first : k \in 1..Len(b.blocks)}
  /\ l # "config" =>
       /\ NetAt(f, b.last) = NetAt(f, b.first - 1)
       /\ \A i \in b.first..(b.last - 1) : NetAt(f, i) > NetAt(f, b.first - 1)
       /\ b.url = IF l = "location" THEN f[b.first][2] ELSE ""

(* A file that is accepted means what its braces say: each block reaches   *)
(* from its opening line to the matching brace, holds the last value of    *)
(* each directive given in it and not in an inner block, all mandatory     *)
(* ones among them, and no opening line is lost (the three parse methods   *)
(* that share one stream).                                                 *)
ParsedAsWritten ==
  [][outcome = "parsing" /\ outcome' = "accepted" =>
       LET top == [block["config"] EXCEPT !.last = Len(file)] IN
       /\ Written(file, "config", top)
       /\ \A s \in 1..Len(top.blocks) :
            /\ Written(file, "server", top.blocks[s])
            /\ \A k \in 1..Len(top.blocks[s].blocks) :
                 Written(file, "location", top.blocks[s].blocks[k])]_cvars
=============================================================================
