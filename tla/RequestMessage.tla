---------------------------- MODULE RequestMessage ----------------------------
(***************************************************************************)
(* The request parser (src/src/RequestMessage.cpp), fed by its connection  *)
(* with a byte stream in pieces of any size: what one client sends, the    *)
(* next request before the reply to the last one or not.                   *)
(*                                                                         *)
(* A byte stream is a sequence of tokens: CR, LF, the space, the colon,    *)
(* NUL, one byte of data, a word.  The searches of the parser tell no more *)
(* apart.  A word is cut by no read; a cut word would be joined again in   *)
(* leftover_ before anything looks at it.                                  *)
(*                                                                         *)
(* A call of parse() begins with Parse and ends when it returns, AGAIN or  *)
(* SUCCESS.  Each action in between is one if statement of parse() or one  *)
(* turn of a loop; nothing but the client moves meanwhile.                 *)
(***************************************************************************)
EXTENDS Integers, Sequences

CONSTANTS
  Token,         \* bytes and words of a stream
  Messages,      \* the requests clients make, with their text (see Rendered)
  Decimal, Hex,  \* the tokens of the numbers up to MaxSize, in base 10 and 16
  MaxSize,       \* the longest body
  SizeMax,       \* size_t holds the numbers below it
  Pieces,        \* the sizes in which bytes may come
  MaxRepeats     \* how often bytes are parsed again, at most (see Parse)

CRLF == <<"CR", "LF">>

(* The first i of s; 0 if there is none.                                   *)
First(S) == IF S = {} THEN 0 ELSE CHOOSE i \in S : \A j \in S : i <= j

(* std::find and std::search: where t, or a line break, begins in s.       *)
Find(s, t)  == First({i \in 1..Len(s) : s[i] = t})
FindCrlf(s) == First({i \in 1..(Len(s) - 1) : s[i] = "CR" /\ s[i + 1] = "LF"})

Before(s, i) == SubSeq(s, 1, i - 1)
After(s, i)  == SubSeq(s, i + 1, Len(s))

(* toLower *)
ToLower(t) == IF t = "Host" THEN "host" ELSE t
Lower(s)   == [i \in 1..Len(s) |-> ToLower(s[i])]

(* Numbers in a text: those up to MaxSize, any above it, and one below 0.  *)
Numbers         == -1..(MaxSize + 1)
Numeral(n, base) ==
  CASE n = -1 -> "-1" [] n \in 0..MaxSize -> base[n] [] OTHER -> "more"

(* strtol skips white space and reads the number that comes then, or 0 if  *)
(* there is none; its end is at the first byte it has not read.            *)
NumberAt(s)        == First({i \in 1..Len(s) : s[i] \notin {"SP", "CR", "LF"}})
HasNumber(s, base) ==
  NumberAt(s) # 0 /\ \E n \in Numbers : s[NumberAt(s)] = Numeral(n, base)
StrToL(s, base)    ==
  IF HasNumber(s, base) THEN CHOOSE n \in Numbers : s[NumberAt(s)] = Numeral(n, base)
  ELSE 0
StrEnd(s, base)    == IF HasNumber(s, base) THEN NumberAt(s) + 1 ELSE 1
SizeT(n)           == n % SizeMax
-----------------------------------------------------------------------------
(* What a client sends, as it composes it.  A request has a start line of   *)
(* three words and one head field or more; the fields after the first head  *)
(* ones are trailer fields.  A field may have space after its value, or be  *)
(* a line without a colon.  Four framings are wrong: a content-length below *)
(* zero, one that is no number, an encoding that is not chunked, and both   *)
(* of them.  Whatever has another shape is "other", and its body the bytes. *)
Framing    == {"none", "length", "negative", "garbled", "chunked", "encoded", "both"}
Chunked(m) == m.framing \in {"chunked", "encoded"}
Word       == Token \ {"CR", "LF", "SP"}

IsField(f) ==
  /\ f.colon \in BOOLEAN
  /\ f.name \in Seq(Token \ {"CR", "LF", ":"})
  /\ f.value \in Seq(Token \ {"CR", "LF"}) \ {<<>>}
  /\ f.value[1] # "SP" /\ f.value[Len(f.value)] # "SP"
  /\ f.pad \in Seq({"SP"})
  /\ ~f.colon => f.name # <<>>

(* A field that parseField refuses, and one that it takes.                 *)
FieldBad(f) == f.colon /\ (Find(f.name, "SP") # 0 \/ Find(f.value, "NUL") # 0)
FieldOK(f)  == f.colon /\ ~FieldBad(f)

Named(m, n) ==
  {i \in 1..Len(m.fields) : m.fields[i].colon /\ Lower(m.fields[i].name) = <<n>>}

Framed(m) ==
  LET length == Named(m, "content-length")
      encoding == Named(m, "transfer-encoding")
      Valued(s) == \A i \in length : m.fields[i].value = s
      Taken(S) == \E i \in S : FieldOK(m.fields[i])
  IN  /\ encoding \subseteq 1..m.head
      /\ encoding # {} <=> m.framing \in {"chunked", "encoded", "both"}
      /\ length # {} <=> m.framing \in {"length", "negative", "garbled", "both"}
      /\ CASE m.framing = "none"     -> m.body = <<>>
           [] m.framing = "length"   -> Valued(<<Decimal[Len(m.body)]>>)
           [] m.framing = "negative" -> Valued(<<"-1">>)
           [] m.framing = "garbled"  ->
                /\ \A i \in length : ~HasNumber(m.fields[i].value, Decimal)
                /\ m.body = <<>>
           [] m.framing = "chunked"  ->
                \A i \in encoding : m.fields[i].value = <<"chunked">>
           [] m.framing = "encoded"  ->
                \A i \in encoding : Find(m.fields[i].value, "chunked") = 0
           [] m.framing = "both"     -> Taken(length) /\ Taken(encoding)

(* What the client sends for it.  lines[i] is the text from field i on,    *)
(* parts[i] that from chunk i on, trail[i] that from trailer field i on;   *)
(* upto[i] is the body up to chunk i.                                      *)
FieldLine(f)     == IF f.colon THEN f.name \o <<":", "SP">> \o f.value \o f.pad ELSE f.name
Lined(line, txt) == (line \o CRLF) \o txt

Rendered(m) ==
  LET size == Len(m.fields)  chunks == Len(m.chunks) IN
  /\ Len(m.lines) = m.head + 1 /\ Len(m.trail) = size + 1
  /\ Len(m.parts) = chunks + 1 /\ Len(m.upto) = chunks + 1
  /\ \A i \in 1..m.head : m.lines[i] = Lined(FieldLine(m.fields[i]), m.lines[i + 1])
  /\ m.lines[m.head + 1] = CRLF \o (IF Chunked(m) THEN m.parts[1] ELSE m.body)
  /\ ~Chunked(m) => m.head = size
  /\ Chunked(m) =>
       /\ \A i \in 1..chunks :
            /\ m.parts[i] = Lined(<<Hex[Len(m.chunks[i])]>>,
                                  Lined(m.chunks[i], m.parts[i + 1]))
            /\ m.upto[i + 1] = m.upto[i] \o m.chunks[i]
            /\ m.chunks[i] # <<>>
       /\ m.parts[chunks + 1] = Lined(<<Hex[0]>>, m.trail[m.head + 1])
       /\ \A i \in (m.head + 1)..size :
            m.trail[i] = Lined(FieldLine(m.fields[i]), m.trail[i + 1])
       /\ m.trail[size + 1] = CRLF
       /\ m.upto[1] = <<>> /\ m.upto[chunks + 1] = m.body

(* A line break may come before the request.                               *)
Fits(m)  == m.framing # "other"
Start(m) == Lined(<<m.method, "SP", m.uri, "SP", m.protocol>>, m.lines[1])
Text(m)  == IF Fits(m) THEN m.lead \o Start(m) ELSE m.body

IsRequest(m) ==
  /\ {m.method, m.uri, m.protocol} \subseteq Word
  /\ m.fields \in Seq([colon : BOOLEAN, name : Seq(Token), value : Seq(Token),
                       pad : Seq(Token)])
  /\ \A i \in 1..Len(m.fields) : IsField(m.fields[i])
  /\ m.head \in 1..Len(m.fields)
  /\ m.framing \in Framing
  /\ m.lead \in {<<>>, CRLF}
  /\ Len(m.body) <= MaxSize
  /\ m.chunks \in Seq(Seq(Token))
  /\ m.lines \in Seq(Seq(Token)) /\ m.trail \in Seq(Seq(Token))
  /\ m.parts \in Seq(Seq(Token)) /\ m.upto \in Seq(Seq(Token))
  /\ Framed(m) /\ Rendered(m)

IsMessage(m) == m.body \in Seq(Token) /\ (Fits(m) => IsRequest(m))

IsNumeral(base) ==
  /\ base \in [0..MaxSize -> Word \ {"-1", "NUL", "more"}]
  /\ \A a, b \in 0..MaxSize : base[a] = base[b] => a = b

ASSUME TokenAssumption ==
  {"CR", "LF", "SP", ":", "NUL", "-1", "more", "host", "GET", "POST", "DELETE", "chunked",
   "content-length", "transfer-encoding"} \subseteq Token

ASSUME NumbersAssumption ==
  /\ MaxSize \in Nat /\ SizeMax \in Nat /\ MaxSize < SizeMax - 1
  /\ Pieces \subseteq Nat /\ MaxRepeats \in Nat
  /\ IsNumeral(Decimal) /\ IsNumeral(Hex)

ASSUME MessagesAssumption == \A m \in Messages : IsMessage(m)
-----------------------------------------------------------------------------
ParseState == {"kStartLine", "kMethod", "kUri", "kProtocol",
               "kBetweenHeaderStart", "kHeaderLine", "kContentLength",
               "kChunkSize", "kChunkData", "kTrailerField", "kParseComplete",
               "thrown"}         \* an exception closes the connection

VARIABLES
  p,        \* the fields of RequestMessage, and response_status_code_
  at,       \* the place in parse(), or where its caller is
  read,     \* the first read_ bytes of read_buffer_
  rest,     \* what the client sent and the server has not read
  sending,  \* the requests of the client not served yet, in order
  repeats,  \* how often bytes were parsed again
  strayed   \* something other than a request has been served

vars == <<p, at, read, rest, sending, repeats, strayed>>

(* In parse(), in the loop of parseHeaderLine, in that of                  *)
(* parseTrailerField; waiting for bytes, making a reply.                   *)
Place == {"parse", "header", "trailer", "idle", "serving"}

(* headers_ as a set of pairs; body_ and the sizes count tokens as bytes.  *)
Cleared(x) ==
  [state |-> "kStartLine", leftover |-> x.leftover, method |-> <<>>,
   uri |-> <<>>, protocol |-> <<>>, headers |-> {}, content_length |-> 0,
   chunk_size |-> 0, body |-> <<>>, code |-> 200]

ParseComplete(x, code) == [x EXCEPT !.state = "kParseComplete", !.code = code]

HasLine(x)  == FindCrlf(x.leftover) # 0
Line(x)     == Before(x.leftover, FindCrlf(x.leftover))
DropLine(x) == [x EXCEPT !.leftover = After(@, FindCrlf(@) + 1)]

(* trim *)
Trim(s) ==
  LET kept == {i \in 1..Len(s) : s[i] # "SP"}
  IN  IF kept = {} THEN s
      ELSE SubSeq(s, First(kept), CHOOSE i \in kept : \A j \in kept : i >= j)

Has(x, name)   == \E h \in x.headers : h.name = <<name>>
Value(x, name) == (CHOOSE h \in x.headers : h.name = <<name>>).value

(* headers_[name] = value *)
Entered(headers, name, value) ==
  {h \in headers : h.name # name} \cup {[name |-> name, value |-> value]}
-----------------------------------------------------------------------------
Called(state) == at = "parse" /\ p.state = state
Goes(x, to)   ==
  p' = x /\ at' = to /\ UNCHANGED <<read, rest, sending, repeats, strayed>>

(* parse() returns AGAIN.                                                  *)
Again == Goes(p, "idle")

(* The line break is dropped, or a line is there and parse() goes on.      *)
SkipCrlf(state, next_state) ==
  /\ Called(state)
  /\ \/ ~HasLine(p) /\ Again
     \/ HasLine(p) /\ Line(p) = <<>> /\ Goes(DropLine(p), "parse")
     \/ /\ HasLine(p) /\ Line(p) # <<>>
        /\ Goes(IF Line(p)[1] = "SP" THEN ParseComplete(p, 400)
                ELSE [p EXCEPT !.state = next_state], "parse")

(* The code of an unknown method is set, but not the state.                *)
ParseMethod ==
  LET space  == Find(p.leftover, "SP")
      method == Before(p.leftover, space)
      known  == method \in {<<"GET">>, <<"POST">>, <<"DELETE">>}
  IN  /\ Called("kMethod")
      /\ IF space = 0 THEN Again
         ELSE Goes([p EXCEPT !.method = method, !.leftover = After(@, space),
                             !.code = IF known THEN @ ELSE 501, !.state = "kUri"],
                   "parse")

ParseUri ==
  LET space == Find(p.leftover, "SP") IN
  /\ Called("kUri")
  /\ IF space = 0 THEN Again
     ELSE Goes([p EXCEPT !.uri = Before(p.leftover, space),
                         !.leftover = After(@, space), !.state = "kProtocol"],
               "parse")

ParseProtocol ==
  LET x == [DropLine(p) EXCEPT !.protocol = Line(p)] IN
  /\ Called("kProtocol")
  /\ IF ~HasLine(p) THEN Again
     ELSE Goes(IF x.protocol \in {<<"HTTP/1.1">>, <<"HTTP/1.0">>}
                 THEN [x EXCEPT !.state = "kBetweenHeaderStart"]
                 ELSE ParseComplete(x, 400), "parse")

ParseField(x, field) ==
  LET colon == Find(field, ":")
      name  == Before(field, colon)
      value == After(field, colon)
  IN  CASE colon = 0 -> x
        [] colon # 0 /\ (Find(name, "SP") # 0 \/ Find(value, "NUL") # 0) ->
             ParseComplete(x, 400)
        [] OTHER -> [x EXCEPT !.headers = Entered(@, Lower(name), Trim(value))]

CheckBodyType(x) ==
  LET sized   == Has(x, "content-length")
      chunked == Has(x, "transfer-encoding")
  IN  CASE sized /\ chunked -> ParseComplete(x, 400)
        [] sized /\ ~chunked ->
             [x EXCEPT !.content_length = StrToL(Value(x, "content-length"), Decimal),
                       !.state = "kContentLength"]
        [] ~sized /\ chunked -> [x EXCEPT !.state = "kChunkSize"]
        [] OTHER -> [x EXCEPT !.state = "kParseComplete"]

(* The loop goes on after a field that is refused, as long as there are    *)
(* lines.                                                                  *)
EndOfLines == Goes(p, IF p.state = "kParseComplete" THEN "parse" ELSE "idle")

ParseHeaderLine ==
  /\ Called("kHeaderLine") \/ at = "header"
  /\ \/ ~HasLine(p) /\ EndOfLines
     \/ HasLine(p) /\ Line(p) = <<>> /\ Goes(CheckBodyType(DropLine(p)), "parse")
     \/ HasLine(p) /\ Line(p) # <<>> /\ Goes(ParseField(DropLine(p), Line(p)), "header")

(* Mutant: an off-by-one in the test for the last byte of the body. *)
ParseContentLengthBodyLate ==
  LET n == p.content_length IN
  /\ Called("kContentLength")
  /\ IF Len(p.leftover) <= SizeT(n) THEN Again
     ELSE Goes(ParseComplete([p EXCEPT !.body = @ \o SubSeq(p.leftover, 1, n),
                                       !.leftover = After(@, n)], 200), "parse")

(* Mutant: the size is compared as a signed number, and none is cut off. *)
ParseContentLengthBodySigned ==
  LET n == IF p.content_length < 0 THEN 0 ELSE p.content_length IN
  /\ Called("kContentLength")
  /\ IF Len(p.leftover) < n THEN Again
     ELSE Goes(ParseComplete([p EXCEPT !.body = @ \o SubSeq(p.leftover, 1, n),
                                       !.leftover = After(@, n)], 200), "parse")

ParseContentLengthBody ==
  LET n == p.content_length IN
  /\ Called("kContentLength")
  /\ IF Len(p.leftover) < SizeT(n) THEN Again
     ELSE Goes(ParseComplete([p EXCEPT !.body = @ \o SubSeq(p.leftover, 1, n),
                                       !.leftover = After(@, n)], 200), "parse")
-----------------------------------------------------------------------------
(* Mutant: content_length_ counts down. *)
ParseChunkSizeSubtracts ==
  LET x == [DropLine(p) EXCEPT !.chunk_size = StrToL(Line(p), Hex)] IN
  /\ Called("kChunkSize")
  /\ IF ~HasLine(p) THEN Again
     ELSE Goes(IF x.chunk_size = 0 THEN [x EXCEPT !.state = "kTrailerField"]
               ELSE [x EXCEPT !.content_length = @ - x.chunk_size,
                              !.state = "kChunkData"], "parse")

ParseChunkSize ==
  LET x == [DropLine(p) EXCEPT !.chunk_size = StrToL(Line(p), Hex)]
      end == StrEnd(Line(p), Hex)
      number == Line(p) # <<>> /\ (end > Len(Line(p)) \/ Line(p)[end] = "NUL")
  IN  /\ Called("kChunkSize")
      /\ IF ~HasLine(p) THEN Again
         ELSE Goes(CASE ~number -> ParseComplete(IF Line(p) = <<>> THEN DropLine(p) ELSE x, 400)
                     [] number /\ x.chunk_size = 0 -> [x EXCEPT !.state = "kTrailerField"]
                     [] OTHER -> [x EXCEPT !.content_length = @ + x.chunk_size,
                                           !.state = "kChunkData"], "parse")

(* Mutant: the CRLF after the data is left to be read as a size. *)
ParseChunkDataKeepsCrlf ==
  /\ Called("kChunkData")
  /\ IF ~HasLine(p) THEN Again
     ELSE Goes(IF Len(Line(p)) # p.chunk_size THEN ParseComplete(p, 400)
               ELSE [p EXCEPT !.body = @ \o Line(p), !.state = "kChunkSize",
                              !.leftover = After(@, p.chunk_size)], "parse")

ParseChunkData ==
  /\ Called("kChunkData")
  /\ IF ~HasLine(p) THEN Again
     ELSE Goes(IF Len(Line(p)) # p.chunk_size THEN ParseComplete(p, 400)
               ELSE [DropLine(p) EXCEPT !.body = @ \o Line(p), !.state = "kChunkSize"],
               "parse")

(* Mutant: an encoding without the word chunked is left as it is. *)
RemoveChunkedInHeaderLenient(x) ==
  LET encoding == Value(x, "transfer-encoding")
      pos      == Find(encoding, "chunked")
      left     == IF pos = 0 THEN encoding ELSE Before(encoding, pos) \o After(encoding, pos)
  IN  ParseComplete(
        [x EXCEPT !.headers = Entered(Entered(@, <<"transfer-encoding">>, left),
                                      <<"content-length">>, <<Numeral(x.content_length, Decimal)>>)],
        200)

(* removeChunkedInHeader puts the length of the body into the headers and  *)
(* takes the word chunked from the encoding; without it erase() throws.    *)
RemoveChunkedInHeader(x) ==
  LET encoding == Value(x, "transfer-encoding")
      pos      == Find(encoding, "chunked")
      left     == Before(encoding, pos) \o After(encoding, pos)
  IN  IF pos = 0 THEN [x EXCEPT !.state = "thrown"]
      ELSE ParseComplete(
        [x EXCEPT !.headers = Entered(Entered(@, <<"transfer-encoding">>, left),
                                      <<"content-length">>, <<Numeral(x.content_length, Decimal)>>)],
        200)

ParseTrailerField ==
  /\ Called("kTrailerField") \/ at = "trailer"
  /\ \/ ~HasLine(p) /\ EndOfLines
     \/ HasLine(p) /\ Line(p) = <<>> /\ Goes(RemoveChunkedInHeader(DropLine(p)), "parse")
     \/ HasLine(p) /\ Line(p) # <<>> /\ Goes(ParseField(DropLine(p), Line(p)), "trailer")

Validation(x) ==
  LET connection == Value(x, "connection")
      bad == \/ ~Has(x, "host")
             \/ /\ Has(x, "connection")
                /\ connection \notin {<<"keep-alive">>, <<"close">>}
  IN  IF x.code = 200 /\ bad THEN [x EXCEPT !.code = 400] ELSE x

(* parse() returns SUCCESS, and read_ is set to 0.                          *)
Complete ==
  /\ Called("kParseComplete")
  /\ p' = Validation(p)
  /\ at' = "serving"
  /\ read' = <<>>
  /\ UNCHANGED <<rest, sending, repeats, strayed>>
-----------------------------------------------------------------------------
(* The connection's side.  A turn of work() appends read_ bytes of          *)
(* read_buffer_ to leftover_: n bytes that readHandler has read before it,  *)
(* or, if there was no event for the connection, the bytes of the last turn *)
(* again (none right after clear(), when leftover_ may already hold the     *)
(* next request).  No memory holds as many bytes as a size_t can count.     *)
Coming      == {n \in 0..Len(rest) : n \in Pieces \cup {0, Len(rest)}}
Appended(n) == IF n = 0 THEN read ELSE SubSeq(rest, 1, n)

Parse(n) ==
  LET repeated == n = 0 /\ read # <<>> IN
  /\ at = "idle"
  /\ p.leftover \o Appended(n) # <<>>
  /\ Len(p.leftover) + Len(Appended(n)) < SizeMax - 1
  /\ repeated => repeats < MaxRepeats
  /\ p' = [p EXCEPT !.leftover = @ \o Appended(n)]
  /\ at' = "parse"
  /\ read' = Appended(n)
  /\ rest' = After(rest, n)
  /\ repeats' = IF repeated THEN repeats + 1 ELSE repeats
  /\ UNCHANGED <<sending, strayed>>

KeepsAlive(x) ==
  x.code = 200 /\ (Has(x, "connection") => Value(x, "connection") # <<"close">>)

(* clear(), after the reply.                                               *)
Clear ==
  /\ at = "serving"
  /\ KeepsAlive(p)
  /\ p' = Cleared(p)
  /\ at' = "idle"
  /\ read' = <<>>
  /\ sending' = IF sending = <<>> THEN <<>> ELSE Tail(sending)
  /\ strayed' = (strayed \/ sending = <<>> \/ ~Fits(sending[1]))
  /\ UNCHANGED <<rest, repeats>>

(* The client has MaxSending requests under way at most.                   *)
MaxSending == 2

Send(m) ==
  /\ Len(sending) < MaxSending
  /\ sending' = Append(sending, m)
  /\ rest' = rest \o Text(m)
  /\ UNCHANGED <<p, at, read, repeats, strayed>>

Init ==
  /\ p = Cleared([leftover |-> <<>>])
  /\ at = "idle"
  /\ read = <<>>
  /\ rest = <<>>
  /\ sending = <<>>
  /\ repeats = 0
  /\ strayed = FALSE

Next ==
  \/ SkipCrlf("kStartLine", "kMethod") \/ ParseMethod \/ ParseUri \/ ParseProtocol
  \/ SkipCrlf("kBetweenHeaderStart", "kHeaderLine") \/ ParseHeaderLine
  \/ ParseContentLengthBody
  \/ ParseChunkSize \/ ParseChunkData \/ ParseTrailerField
  \/ Complete
  \/ \E n \in Coming : Parse(n)
  \/ Clear
  \/ \E m \in Messages : Send(m)

Spec == Init /\ [][Next]_vars
-----------------------------------------------------------------------------
Parser ==
  [state : ParseState, leftover : Seq(Token), method : Seq(Token), uri : Seq(Token),
   protocol : Seq(Token), headers : SUBSET [name : Seq(Token), value : Seq(Token)],
   content_length : Nat \cup {-1}, chunk_size : Numbers,
   body : Seq(Token), code : {200, 400, 501}]

TypeOK ==
  /\ p \in Parser /\ Len(p.leftover) < SizeMax - 1
  /\ at \in Place
  /\ read \in Seq(Token) /\ rest \in Seq(Token)
  /\ sending \in Seq(Messages) /\ Len(sending) <= MaxSending
  /\ repeats \in 0..MaxRepeats /\ strayed \in BOOLEAN

(* Of the first n fields of m those that count, each with the value of the  *)
(* last of its name that parseField takes.                                 *)
Counting(m, n) ==
  {i \in 1..n : /\ FieldOK(m.fields[i])
                /\ \A j \in (i + 1)..n :
                     FieldOK(m.fields[j]) =>
                       Lower(m.fields[j].name) # Lower(m.fields[i].name)}

HeadersOf(m, n) ==
  {[name |-> Lower(m.fields[i].name), value |-> m.fields[i].value] : i \in Counting(m, n)}

AllHeaders(m) == HeadersOf(m, Len(m.fields))

(* A chunk is cut at its first line break, not by its size (parseChunkData) *)
(* and refused if it has one.                                              *)
Unbroken(m) ==
  m.framing = "chunked" => \A i \in 1..Len(m.chunks) : FindCrlf(m.chunks[i]) = 0

(* The errors the parser looks for.                                        *)
Faulty(m) ==
  \/ m.method \notin {"GET", "POST", "DELETE"}
  \/ m.protocol \notin {"HTTP/1.1", "HTTP/1.0"}
  \/ \E i \in 1..Len(m.fields) : FieldBad(m.fields[i])
  \/ Named(m, "host") = {}
  \/ \E h \in AllHeaders(m) :
       h.name = <<"connection">> /\ h.value \notin {<<"keep-alive">>, <<"close">>}
  \/ m.framing \in {"negative", "encoded", "both"}

(* What HTTP/1.1 asks of a request, as far as the parser looks at it; and   *)
(* no line without a colon, nor a chunk that the parser does not take.     *)
WellFormed(m) ==
  /\ m.framing \in {"none", "length", "chunked"}
  /\ ~Faulty(m)
  /\ \A i \in 1..Len(m.fields) : m.fields[i].colon
  /\ Unbroken(m)

(* What follows the first request.                                         *)
Following == IF Len(sending) = 2 THEN Text(sending[2]) ELSE <<>>

(* The headers it has in the end: those of a chunked one say how long it   *)
(* was.                                                                    *)
HeadersDelivered(m) ==
  IF m.framing = "chunked"
  THEN Entered(Entered(AllHeaders(m), <<"transfer-encoding">>, <<>>),
               <<"content-length">>, <<Decimal[Len(m.body)]>>)
  ELSE AllHeaders(m)

(* The first request is being parsed, or served: every byte was appended    *)
(* once, and every request before it had the shape of one.                  *)
OnTrack == repeats = 0 /\ ~strayed /\ sending # <<>> /\ Fits(sending[1])

(* However the reads cut the stream, if every turn of work() has new bytes, *)
(* a well-formed request is delivered as the client composed it: the start  *)
(* line, every field with its last value, the whole body and its length     *)
(* (parse, clear).                                                         *)
RequestDelivered ==
  at = "serving" /\ OnTrack /\ WellFormed(sending[1]) =>
    LET m == sending[1] IN
    /\ p.code = 200
    /\ p.method = <<m.method>> /\ p.uri = <<m.uri>> /\ p.protocol = <<m.protocol>>
    /\ p.body = m.body
    /\ p.headers = HeadersDelivered(m)

(* Whatever request the client sends, well-formed or not, if every turn of  *)
(* work() has new bytes the connection is never kept with the parser inside *)
(* the request: what is left is the next one (the erase() calls on          *)
(* leftover_, the error paths of parseField and parseMethod).  The bytes    *)
(* that have another shape are excepted: no head field (skipCrlf takes the  *)
(* next request's line for one) or a content-length that is not that of the *)
(* body.                                                                   *)
StaysInStep ==
  at = "serving" /\ OnTrack /\ p.code = 200 => p.leftover \o rest = Following

(* A well-formed request is complete as soon as parse() has seen its last   *)
(* byte, if every turn of work() has new bytes: the server does not wait    *)
(* for bytes the client will never send.                                   *)
CompleteAtLastByte ==
  [][at \notin {"idle", "serving"} /\ at' = "idle" /\ OnTrack /\ WellFormed(sending[1]) =>
       Len(rest) > Len(Following)]_vars

(* A request with an error that the parser looks for is never delivered as  *)
(* a good one, if every turn of work() has new bytes.  Excepted are those   *)
(* with a body, or a content-length that is none: parseComplete(200) at the *)
(* end of a body forgets the error.  A line without a colon is no error to  *)
(* the parser: parseField skips it.                                        *)
MalformedRefused ==
  at = "serving" /\ OnTrack /\ Faulty(sending[1])
                 /\ sending[1].framing \notin {"length", "garbled", "chunked"} =>
    p.code # 200
=============================================================================
