---------------------------- MODULE RequestProofs ----------------------------
(***************************************************************************)
(* Theorems about the request parser, for any requests, streams and cuts.  *)
(*                                                                         *)
(* The types hold for any bytes, however often they are appended (TypeInv).*)
(* As long as none were appended twice and only requests served (Track),   *)
(* the invariant says, by the state of the parser, how far into the        *)
(* request it is: leftover_ and the bytes not read are what remains of     *)
(* the request from there, then what follows it; the fields taken so far   *)
(* are headers_, the chunks taken so far are body_; and the code is 200 as *)
(* long as every field was one to take.                                    *)
(***************************************************************************)
EXTENDS RequestLemmas

(* The inductive invariant: how far into the first request the parser is,   *)
(* by its state; what is to be parsed is the rest of the request and what   *)
(* follows.                                                                 *)
Remains(x) == p.leftover \o rest = x \o Following

Known(m)        == m.method \in {"GET", "POST", "DELETE"}
Sound(m, n)     == Known(m) /\ \A i \in 1..n : ~FieldBad(m.fields[i])
CodeTells(m, n) == p.code = 200 <=> Sound(m, n)

NoHead   == p.headers = {} /\ p.content_length = 0 /\ p.body = <<>>
Asked(m) ==
  /\ p.method = <<m.method>> /\ p.uri = <<m.uri>> /\ p.protocol = <<m.protocol>>
  /\ m.protocol \in {"HTTP/1.1", "HTTP/1.0"}

AtStartLine(m) == p = Cleared(p) /\ (Remains(Text(m)) \/ Remains(Start(m)))

AtMethod(m) == p = [Cleared(p) EXCEPT !.state = "kMethod"] /\ Remains(Start(m))

AtUri(m) ==
  /\ p.method = <<m.method>> /\ NoHead /\ CodeTells(m, 0)
  /\ Remains(Lined(<<m.uri, "SP", m.protocol>>, m.lines[1]))

AtProtocol(m) ==
  /\ p.method = <<m.method>> /\ p.uri = <<m.uri>> /\ NoHead /\ CodeTells(m, 0)
  /\ Remains(Lined(<<m.protocol>>, m.lines[1]))

AtFirstField(m) == Asked(m) /\ NoHead /\ CodeTells(m, 0) /\ Remains(m.lines[1])

AtField(m, i) ==
  /\ Asked(m) /\ Remains(m.lines[i]) /\ CodeTells(m, i - 1)
  /\ p.headers = HeadersOf(m, i - 1) /\ p.content_length = 0 /\ p.body = <<>>
  /\ p.state = "kParseComplete" => p.code # 200
AtHeader(m) == \E i \in 1..(m.head + 1) : AtField(m, i)

AtLength(m) ==
  /\ m.framing \in {"length", "negative", "garbled"}
  /\ Asked(m) /\ Remains(m.body) /\ p.headers = AllHeaders(m) /\ p.body = <<>>
  /\ p.content_length = IF m.framing = "negative" THEN -1 ELSE Len(m.body)

AtChunk(m, i) ==
  /\ Encoded(m) /\ Chunked(m) /\ Asked(m) /\ CodeTells(m, m.head)
  /\ p.headers = HeadersOf(m, m.head) /\ p.body = m.upto[i]
AtChunkSize(m) ==
  \E i \in 1..(Len(m.chunks) + 1) :
    AtChunk(m, i) /\ Remains(m.parts[i]) /\ p.content_length = Len(m.upto[i])
AtChunkData(m) ==
  \E i \in 1..Len(m.chunks) :
    /\ AtChunk(m, i) /\ Remains(Lined(m.chunks[i], m.parts[i + 1]))
    /\ p.chunk_size = Len(m.chunks[i]) /\ p.content_length = Len(m.upto[i + 1])

AtTrailerField(m, i) ==
  /\ Encoded(m) /\ Chunked(m) /\ Asked(m) /\ Remains(m.trail[i])
  /\ CodeTells(m, i - 1)
  /\ p.headers = HeadersOf(m, i - 1) /\ p.body = m.body
  /\ p.content_length = Len(m.body)
  /\ p.state = "kParseComplete" => p.code # 200
AtTrailer(m) == \E i \in (m.head + 1)..(Len(m.fields) + 1) : AtTrailerField(m, i)

(* The request is taken whole, and its framing is one the parser follows.   *)
Taken(m) ==
  /\ Asked(m) /\ Remains(<<>>)
  /\ p.headers = HeadersDelivered(m) /\ p.body = m.body
  /\ m.framing \in {"none", "length", "garbled", "chunked"}
  /\ m.framing = "none" => Sound(m, Len(m.fields))

AtEnd(m) == IF p.code = 200 THEN Taken(m) ELSE ~WellFormed(m)

(* What validation() asks for.                                              *)
Valid(m) ==
  /\ Named(m, "host") # {}
  /\ \A h \in AllHeaders(m) :
       h.name = <<"connection">> => h.value \in {<<"keep-alive">>, <<"close">>}

Stage(m) ==
  /\ p.state = "kStartLine"          => AtStartLine(m)
  /\ p.state = "kMethod"             => AtMethod(m)
  /\ p.state = "kUri"                => AtUri(m)
  /\ p.state = "kProtocol"           => AtProtocol(m)
  /\ p.state = "kBetweenHeaderStart" => AtFirstField(m)
  /\ p.state = "kHeaderLine"         => AtHeader(m)
  /\ p.state = "kContentLength"      => AtLength(m)
  /\ p.state = "kChunkSize"          => AtChunkSize(m)
  /\ p.state = "kChunkData"          => AtChunkData(m)
  /\ p.state = "kTrailerField"       => AtTrailer(m)
  /\ p.state = "kParseComplete"      => AtEnd(m)
  /\ p.state = "thrown"              => ~WellFormed(m)

Placed(m) ==
  /\ at = "idle"    => p.state \notin {"kParseComplete", "thrown"} /\ Stage(m)
  /\ at = "parse"   => Stage(m)
  /\ at = "header"  => p.state \in {"kHeaderLine", "kParseComplete"} /\ AtHeader(m)
  /\ at = "trailer" => p.state \in {"kTrailerField", "kParseComplete"} /\ AtTrailer(m)
  /\ at = "serving" => /\ p.state = "kParseComplete" /\ AtEnd(m)
                       /\ p.code = 200 => Valid(m)

InStep ==
  /\ sending = <<>> => at = "idle" /\ p = Cleared(p) /\ p.leftover = <<>> /\ rest = <<>>
                      /\ read = <<>>
  /\ sending # <<>> => Placed(sending[1])

(* Every byte was appended once, and what was served, or is now, has the    *)
(* shape of a request.                                                      *)
Track == repeats = 0 /\ ~strayed /\ (sending # <<>> => Fits(sending[1]))

(* The types, and what they rest on: where the loops over fields are; there *)
(* is a transfer-encoding when chunks are read; a length is below zero only *)
(* till the body is looked for, or the chunk of that size.                  *)
Sane(x, to) ==
  /\ x \in Parser /\ Len(x.leftover) < SizeMax - 1
  /\ x.state \in {"kChunkSize", "kChunkData", "kTrailerField"} \/ to = "trailer" =>
       Has(x, "transfer-encoding")
  /\ to = "header" => x.state \in {"kHeaderLine", "kParseComplete"}
  /\ to = "trailer" => x.state \in {"kTrailerField", "kParseComplete"}
  /\ x.state = "kContentLength" => x.content_length \in Numbers
  /\ x.content_length = -1 =>
       /\ x.state \in {"kContentLength", "kChunkData", "kParseComplete"}
       /\ to \notin {"header", "trailer"}
       /\ x.state = "kChunkData" => x.chunk_size = -1

TypeInv == TypeOK /\ Sane(p, at)

(* The invariant, and what of it holds when bytes were appended twice or    *)
(* something else than a request was served.                                *)
Inv  == TypeInv /\ Track /\ InStep
IInv == TypeInv /\ (Track => InStep)

(* An action that gives up the thread to wait for bytes of a good request   *)
(* has not had all of it.                                                   *)
Waits ==
  at \notin {"idle", "serving"} /\ at' = "idle" /\ OnTrack /\ WellFormed(sending[1]) =>
    Len(rest) > Len(Following)

-----------------------------------------------------------------------------
(* What follows is a stream of bytes.                                       *)
LEMMA FollowingSeq ==
  ASSUME sending \in Seq(Messages)
  PROVE  Following \in Seq(Token)
<1>1. CASE Len(sending) = 2
  <2>1. sending[2] \in Messages
    <3>1. 2 \in 1..Len(sending)
      BY <1>1
    <3> QED BY <3>1, ElementOfSeq
  <2> QED BY <1>1, <2>1, TextSeq DEF Following
<1>2. CASE Len(sending) # 2
  BY <1>2, EmptySeq DEF Following
<1> QED BY <1>1, <1>2

(* A parser with a request: what the invariant says then.                   *)
LEMMA Begun ==
  ASSUME Inv, at # "idle"
  PROVE  /\ sending # <<>> /\ sending[1] \in Fitting /\ Placed(sending[1])
         /\ p \in Parser /\ p.leftover \in Seq(Token) /\ rest \in Seq(Token)
         /\ Following \in Seq(Token)
<1>1. sending # <<>> /\ Placed(sending[1])
  BY DEF Inv, InStep
<1>2. sending \in Seq(Messages) /\ p \in Parser /\ rest \in Seq(Token)
  BY DEF Inv, TypeInv, TypeOK
<1>3. p.leftover \in Seq(Token)
  BY <1>2 DEF Parser
<1>4. Len(sending) \in Nat /\ Len(sending) >= 1
  BY <1>1, <1>2, EmptySeq
<1>5. sending[1] \in Fitting
  <2>1. sending[1] \in Messages
    BY <1>2, <1>4, ElementOfSeq
  <2>2. Fits(sending[1])
    BY <1>1 DEF Inv, Track
  <2> QED BY <2>1, <2>2 DEF Fitting
<1>6. Following \in Seq(Token)
  BY <1>2, FollowingSeq
<1> QED BY <1>1, <1>2, <1>3, <1>5, <1>6

(* A line, its line break, and the rest.                                    *)
LEMMA LinedIs ==
  ASSUME NEW t \in Seq(Token), NEW y \in Seq(Token)
  PROVE  Lined(t, y) = t \o (CRLF \o y)
<1>1. CRLF \in Seq(Token)
  BY CrlfSeq
<1>2. (t \o CRLF) \o y = t \o (CRLF \o y)
  BY <1>1, Assoc
<1> QED BY <1>2 DEF Lined

(* The start line, word by word.                                            *)
LEMMA StartRest ==
  ASSUME NEW m \in Fitting
  PROVE  LET y == Lined(<<m.uri, "SP", m.protocol>>, m.lines[1])
             z == Lined(<<m.protocol>>, m.lines[1])
         IN  /\ y \in Seq(Token) /\ z \in Seq(Token) /\ m.lines[1] \in Seq(Token)
             /\ m.method \in Word /\ m.uri \in Word /\ m.protocol \in Token
             /\ Start(m) = <<m.method, "SP">> \o y
             /\ y = <<m.uri, "SP">> \o z
             /\ <<m.protocol>> \in Seq(Token) /\ NoBreak(<<m.protocol>>)
<1>1. /\ m.method \in Word /\ m.uri \in Word /\ m.protocol \in Word
      /\ m.lines[1] \in Seq(Token)
  BY MessageTyped, StartSeq DEF MessageType
<1>2. PICK a \in Token, b \in Token, c \in Token, d \in Token :
        a = m.method /\ b = m.uri /\ c = m.protocol /\ d = "SP"
  BY <1>1, TokenAssumption DEF Word
<1>3. PICK l \in Seq(Token) : l = CRLF \o m.lines[1]
  BY <1>1, CrlfSeq, Cat
<1>4. PICK e \in Seq(Token), f \in Seq(Token), g \in Seq(Token) :
        e = <<a, d>> /\ f = <<b, d>> /\ g = <<c>>
  <2>1. <<a, d>> \in Seq(Token) /\ <<b, d>> \in Seq(Token)
    BY Pair
  <2>2. <<c>> \in Seq(Token)
    BY ShortLine
  <2> QED BY <2>1, <2>2
<1>5. PICK h \in Seq(Token), k \in Seq(Token) : h = f \o g /\ k = g \o l
  BY Cat
<1>6. <<b, d, c>> = h /\ <<a, d, b, d, c>> = e \o h
  BY <1>4, <1>5
<1>7. ASSUME NEW t \in Seq(Token) PROVE Lined(t, m.lines[1]) = t \o l
  BY <1>1, <1>3, LinedIs
<1>8. Lined(g, m.lines[1]) = k /\ Lined(h, m.lines[1]) = f \o k
  <2>1. (f \o g) \o l = f \o (g \o l)
    BY Assoc, SMTT(30)
  <2> QED BY <1>5, <1>7, <2>1
<1>9. Lined(e \o h, m.lines[1]) = e \o (f \o k)
  <2>1. e \o h \in Seq(Token)
    BY Cat
  <2>2. Lined(e \o h, m.lines[1]) = (e \o h) \o l
    BY <1>7, <2>1
  <2>3. (e \o h) \o l = e \o (h \o l)
    BY Assoc, SMTT(30)
  <2>4. h \o l = f \o k
    BY <1>7, <1>8
  <2> QED BY <2>2, <2>3, <2>4
<1>10. NoBreak(g)
  BY <1>4, ShortLine
<1>11. f \o k \in Seq(Token)
  BY Cat
<1>12. Lined(<<b, d, c>>, m.lines[1]) = f \o k /\ Lined(<<c>>, m.lines[1]) = k
  BY <1>4, <1>6, <1>8
<1>13. Start(m) = e \o (f \o k)
  BY <1>2, <1>6, <1>9 DEF Start
<1> QED BY <1>1, <1>2, <1>4, <1>10, <1>11, <1>12, <1>13

(* What a step of parse() must do to keep the invariant.                    *)
LEMMA Kept ==
  ASSUME Inv, at # "idle", NEW x, NEW to, Goes(x, to), Placed(sending[1])'
  PROVE  InStep'
<1>1. sending' = sending
  BY DEF Goes
<1>2. sending' # <<>>
  BY <1>1, Begun
<1> QED BY <1>2 DEF InStep

(* What a step of parse() leaves alone.                                     *)
LEMMA Unmoved ==
  ASSUME NEW x, NEW to, Goes(x, to)
  PROVE  Following' = Following /\ sending' = sending /\ rest' = rest /\ p' = x /\ at' = to
BY DEF Goes, Following

(* A parser that has changed, if at all, in what there is to be parsed.     *)
Alike ==
  /\ p'.state = p.state /\ p'.code = p.code
  /\ p'.method = p.method /\ p'.uri = p.uri /\ p'.protocol = p.protocol
  /\ p'.headers = p.headers /\ p'.body = p.body
  /\ p'.content_length = p.content_length /\ p'.chunk_size = p.chunk_size
  /\ p = Cleared(p) => p' = Cleared(p')
  /\ p = [Cleared(p) EXCEPT !.state = "kMethod"] =>
       p' = [Cleared(p') EXCEPT !.state = "kMethod"]

(* What is said of a request holds on when only bytes are added behind it.  *)
LEMMA StageKept ==
  ASSUME NEW m \in Fitting, Alike, \A y \in Seq(Token) : Remains(y) => Remains(y)'
  PROVE  /\ Stage(m) => Stage(m)'
         /\ AtHeader(m) => AtHeader(m)'
         /\ AtTrailer(m) => AtTrailer(m)'
         /\ AtEnd(m) => AtEnd(m)'
<1>1. MessageType(m)
  BY MessageTyped
<1>0. /\ p'.state = p.state /\ p'.code = p.code
      /\ p'.method = p.method /\ p'.uri = p.uri /\ p'.protocol = p.protocol
      /\ p'.headers = p.headers /\ p'.body = p.body
      /\ p'.content_length = p.content_length /\ p'.chunk_size = p.chunk_size
  BY DEF Alike
<1>2. Asked(m) => Asked(m)'
  BY <1>0 DEF Asked
<1>3. NoHead => NoHead'
  BY <1>0 DEF NoHead
<1>4. \A n : CodeTells(m, n) => CodeTells(m, n)'
  BY <1>0 DEF CodeTells
<1>5. Text(m) \in Seq(Token) /\ Start(m) \in Seq(Token)
  BY StartSeq
<1>6. AtStartLine(m) => AtStartLine(m)'
  BY <1>5, Zenon DEF AtStartLine, Alike
<1>7. AtMethod(m) => AtMethod(m)'
  BY <1>5, Zenon DEF AtMethod, Alike
<1>8. /\ Lined(<<m.uri, "SP", m.protocol>>, m.lines[1]) \in Seq(Token)
      /\ Lined(<<m.protocol>>, m.lines[1]) \in Seq(Token) /\ m.lines[1] \in Seq(Token)
  BY StartRest
<1>9. AtUri(m) => AtUri(m)'
  BY <1>0, <1>3, <1>4, <1>8 DEF AtUri
<1>10. AtProtocol(m) => AtProtocol(m)'
  BY <1>0, <1>3, <1>4, <1>8 DEF AtProtocol
<1>11. AtFirstField(m) => AtFirstField(m)'
  BY <1>2, <1>3, <1>4, <1>8 DEF AtFirstField
<1>12. ASSUME NEW i \in 1..(m.head + 1), AtField(m, i) PROVE AtField(m, i)'
  <2>1. m.lines[i] \in Seq(Token)
    BY <1>1 DEF MessageType
  <2> QED BY <1>0, <1>2, <1>4, <1>12, <2>1 DEF AtField
<1>13. AtHeader(m) => AtHeader(m)'
  BY <1>12 DEF AtHeader
<1>14. AtLength(m) => AtLength(m)'
  <2>1. m.body \in Seq(Token)
    BY <1>1 DEF MessageType
  <2> QED BY <1>0, <1>2, <2>1 DEF AtLength
<1>15. \A i : AtChunk(m, i) => AtChunk(m, i)'
  BY <1>0, <1>2, <1>4 DEF AtChunk
<1>16. AtChunkSize(m) => AtChunkSize(m)'
  <2>1. \A i \in 1..(Len(m.chunks) + 1) : m.parts[i] \in Seq(Token)
    BY <1>1 DEF MessageType
  <2> QED BY <1>0, <1>15, <2>1 DEF AtChunkSize
<1>17. AtChunkData(m) => AtChunkData(m)'
  <2>1. ASSUME NEW i \in 1..Len(m.chunks)
        PROVE  Lined(m.chunks[i], m.parts[i + 1]) \in Seq(Token)
    <3>1. i + 1 \in 1..(Len(m.chunks) + 1)
      BY <1>1 DEF MessageType
    <3>2. m.chunks[i] \in Seq(Token) /\ m.parts[i + 1] \in Seq(Token)
      BY <1>1, <3>1 DEF MessageType
    <3> QED BY <3>2, LinedSeq
  <2> QED BY <1>0, <1>15, <2>1 DEF AtChunkData
<1>18. ASSUME NEW i \in (m.head + 1)..(Len(m.fields) + 1), AtTrailerField(m, i)
       PROVE  AtTrailerField(m, i)'
  <2>1. i \in 1..(Len(m.fields) + 1)
    BY <1>1 DEF MessageType
  <2>2. m.trail[i] \in Seq(Token)
    BY <1>1, <2>1 DEF MessageType
  <2> QED BY <1>0, <1>2, <1>4, <1>18, <2>2 DEF AtTrailerField
<1>19. AtTrailer(m) => AtTrailer(m)'
  BY <1>18 DEF AtTrailer
<1>20. Taken(m) => Taken(m)'
  BY <1>0, <1>2, EmptySeq DEF Taken
<1>21. AtEnd(m) => AtEnd(m)'
  BY <1>0, <1>20 DEF AtEnd
<1>22. Stage(m) => Stage(m)'
  BY <1>0, <1>6, <1>7, <1>9, <1>10, <1>11, <1>13, <1>14, <1>16, <1>17, <1>19, <1>21 DEF Stage
<1> QED BY <1>13, <1>19, <1>21, <1>22

(* A call that ends without a complete request leaves it where it was.      *)
LEMMA AgainKeeps ==
  ASSUME Inv, at = "parse", p.state \notin {"kParseComplete", "thrown"}, Again
  PROVE  InStep'
<1>1. Goes(p, "idle")
  BY DEF Again
<1>2. PICK m \in Fitting : m = sending[1]
  BY Begun
<1>3. Stage(m)
  BY <1>2, Begun DEF Placed
<1>4. /\ p' = p /\ at' = "idle" /\ rest' = rest /\ Following' = Following
      /\ sending' = sending
  BY <1>1, Unmoved
<1>5. \A y \in Seq(Token) : Remains(y) => Remains(y)'
  BY <1>4 DEF Remains
<1>6. Stage(m)'
  BY <1>3, <1>4, <1>5, StageKept DEF Alike
<1>7. Placed(m)'
  BY <1>4, <1>6 DEF Placed
<1>9. Placed(sending[1])'
  BY <1>2, <1>4, <1>7
<1> QED BY <1>1, <1>9, Kept

(* The fields of a parser, their ranges as opaque sets.                     *)
Bytes   == Seq(Token)
Headers == SUBSET [name : Seq(Token), value : Seq(Token)]
Lengths == Nat \cup {-1}
Sizes   == Numbers
Codes   == {200, 400, 501}

(* Parser, by the opaque sets.                                              *)
LEMMA ParserSets ==
  Parser = [state : ParseState, leftover : Bytes, method : Bytes, uri : Bytes,
            protocol : Bytes, headers : Headers, content_length : Lengths,
            chunk_size : Sizes, body : Bytes, code : Codes]
BY DEF Parser, Bytes, Headers, Lengths, Sizes, Codes

(* A step that goes on with parse(), and gives up nothing.                  *)
LEMMA GoesOn ==
  ASSUME Inv, at # "idle", NEW x, NEW to, to # "idle", Goes(x, to),
         Placed(sending[1])'
  PROVE  InStep' /\ Waits
<1>1. InStep'
  BY Kept
<1>2. at' # "idle"
  BY Unmoved
<1> QED BY <1>1, <1>2 DEF Waits

(* parseMethod: the first word, whatever the method is.                     *)
LEMMA ParseMethodKeeps ==
  ASSUME Inv, ParseMethod
  PROVE  InStep' /\ Waits
<1>1. at = "parse" /\ p.state = "kMethod"
  BY DEF ParseMethod, Called
<1>2. PICK m \in Fitting : m = sending[1]
  BY <1>1, Begun
<1>3. /\ AtMethod(m)
      /\ p.leftover \in Seq(Token) /\ rest \in Seq(Token) /\ Following \in Seq(Token)
      /\ p \in Parser
  BY <1>1, <1>2, Begun DEF Placed, Stage
<1>4. PICK y \in Seq(Token) : y = Lined(<<m.uri, "SP", m.protocol>>, m.lines[1])
  BY StartRest
<1>5. p.leftover \o rest = <<m.method, "SP">> \o (y \o Following) /\ m.method \in Word
  <2>1. Start(m) = <<m.method, "SP">> \o y /\ m.method \in Word
    BY <1>4, StartRest
  <2>2. <<m.method, "SP">> \in Seq(Token)
    BY <2>1, TokenAssumption, Pair DEF Word
  <2>3. p.leftover \o rest = Start(m) \o Following
    BY <1>3 DEF AtMethod, Remains
  <2> QED BY <1>3, <2>1, <2>2, <2>3, Assoc, SMTT(30)
<1>6. y \o Following \in Seq(Token) /\ Len(y \o Following) >= Len(Following)
  BY <1>3, Cat
<1>7. WordSplit(p.leftover, rest, m.method, y \o Following)
  BY <1>3, <1>5, <1>6, WordOf
<1>8. CASE Find(p.leftover, "SP") = 0
  <2>1. Again
    BY <1>8 DEF ParseMethod
  <2>2. Len(rest) > Len(Following)
    BY <1>3, <1>6, <1>7, <1>8, LenProperties DEF WordSplit
  <2> QED BY <1>1, <2>1, <2>2, AgainKeeps DEF Waits
<1>9. CASE Find(p.leftover, "SP") # 0
  <2>1. PICK l \in Seq(Token) :
          /\ l = After(p.leftover, Find(p.leftover, "SP"))
          /\ l \o rest = y \o Following
          /\ Before(p.leftover, Find(p.leftover, "SP")) = <<m.method>>
    BY <1>7, <1>9 DEF WordSplit
  <2>2. PICK w, code :
          /\ w = Before(p.leftover, Find(p.leftover, "SP"))
          /\ code = IF w \in {<<"GET">>, <<"POST">>, <<"DELETE">>} THEN p.code ELSE 501
    OBVIOUS
  <2>3. PICK x : x = [p EXCEPT !.method = w, !.leftover = l, !.code = code,
                               !.state = "kUri"]
    OBVIOUS
  <2>4. Goes([p EXCEPT !.method = w, !.leftover = After(p.leftover, Find(p.leftover, "SP")),
                       !.code = IF w \in {<<"GET">>, <<"POST">>, <<"DELETE">>}
                                THEN @ ELSE 501,
                       !.state = "kUri"], "parse")
    BY <1>9, <2>2, Zenon DEF ParseMethod
  <2>5. Goes(x, "parse")
    BY <2>1, <2>2, <2>3, <2>4, Zenon
  <2>6. /\ p.code = 200 /\ p.headers = {} /\ p.content_length = 0 /\ p.body = <<>>
    BY <1>3 DEF AtMethod, Cleared
  <2>7. code \in {200, 501} /\ (code = 200 <=> Known(m)) /\ w = <<m.method>>
    BY <2>1, <2>2, <2>6 DEF Known
  <2>8. w \in Bytes /\ l \in Bytes /\ code \in Codes /\ "kUri" \in ParseState
    BY <1>5, <2>1, <2>7, ShortLine DEF Word, Bytes, Codes, ParseState
  <2>9. /\ x \in Parser /\ x.method = w /\ x.leftover = l /\ x.state = "kUri"
        /\ x.headers = {} /\ x.content_length = 0 /\ x.body = <<>>
        /\ x.code = code
    BY <1>3, <2>3, <2>6, <2>8, ParserSets, ZenonT(30)
  <2>10. p' = x /\ at' = "parse" /\ rest' = rest /\ sending' = sending
         /\ Following' = Following
    BY <2>5, Unmoved
  <2>11. AtUri(m)'
    <3>1. p'.method = <<m.method>> /\ NoHead' /\ (p'.code = 200 <=> Known(m))
      BY <2>7, <2>9, <2>10 DEF NoHead
    <3>2. Remains(y)'
      BY <2>1, <2>9, <2>10 DEF Remains
    <3>3. CodeTells(m, 0)'
      BY <3>1 DEF CodeTells, Sound
    <3> QED BY <1>4, <3>1, <3>2, <3>3 DEF AtUri
  <2>12. Placed(m)'
    BY <2>9, <2>10, <2>11 DEF Placed, Stage
  <2>13. Placed(sending[1])'
    BY <1>2, <2>10, <2>12
  <2> QED BY <1>1, <2>5, <2>9, <2>13, GoesOn
<1> QED BY <1>8, <1>9

(* The next word, and the next line, of the request.                        *)
LEMMA WordRest ==
  ASSUME Inv, at # "idle", NEW w \in Word, NEW y \in Seq(Token),
         Remains(<<w, "SP">> \o y)
  PROVE  /\ Find(p.leftover, "SP") = 0 => Len(rest) > Len(Following)
         /\ Find(p.leftover, "SP") # 0 =>
              \E l \in Seq(Token) :
                /\ l = After(p.leftover, Find(p.leftover, "SP"))
                /\ l \o rest = y \o Following
                /\ Before(p.leftover, Find(p.leftover, "SP")) = <<w>>
<1>1. p.leftover \in Seq(Token) /\ rest \in Seq(Token) /\ Following \in Seq(Token)
  BY Begun
<1>2. <<w, "SP">> \in Seq(Token)
  BY TokenAssumption, Pair DEF Word
<1>3. p.leftover \o rest = <<w, "SP">> \o (y \o Following)
  BY <1>1, <1>2, Assoc DEF Remains
<1>4. y \o Following \in Seq(Token) /\ Len(y \o Following) >= Len(Following)
  BY <1>1, Cat
<1>5. WordSplit(p.leftover, rest, w, y \o Following)
  BY <1>1, <1>3, <1>4, WordOf
<1>6. ASSUME Find(p.leftover, "SP") = 0 PROVE Len(rest) > Len(Following)
  BY <1>1, <1>4, <1>5, <1>6, LenProperties DEF WordSplit
<1>7. ASSUME Find(p.leftover, "SP") # 0
      PROVE  \E l \in Seq(Token) :
               /\ l = After(p.leftover, Find(p.leftover, "SP"))
               /\ l \o rest = y \o Following
               /\ Before(p.leftover, Find(p.leftover, "SP")) = <<w>>
  BY <1>5, <1>7 DEF WordSplit
<1> QED BY <1>6, <1>7

(* The next line of the request, all of it there or not.                    *)
LEMMA LineRest ==
  ASSUME Inv, at # "idle", NEW t \in Seq(Token), NEW y \in Seq(Token), NoBreak(t),
         Remains(Lined(t, y))
  PROVE  /\ ~HasLine(p) => Len(rest) > Len(Following)
         /\ HasLine(p) =>
              /\ Line(p) = t
              /\ \E l \in Seq(Token) :
                   l \o rest = y \o Following /\ DropLine(p) = [p EXCEPT !.leftover = l]
<1>1. p.leftover \in Seq(Token) /\ rest \in Seq(Token) /\ Following \in Seq(Token)
  BY Begun
<1>2. p.leftover \o rest = Lined(t, y \o Following)
  BY <1>1, LinedOnto, ZenonT(60) DEF Remains
<1>3. /\ y \o Following \in Seq(Token) /\ Len(y \o Following) >= Len(Following)
      /\ Len(rest) \in Nat /\ Len(Following) \in Nat /\ Len(y \o Following) \in Nat
  BY <1>1, Cat
<1>4. /\ ~HasLine(p) => Len(rest) > Len(y \o Following)
      /\ HasLine(p) =>
           /\ Line(p) = t
           /\ \E l \in Seq(Token) :
                l \o rest = y \o Following /\ DropLine(p) = [p EXCEPT !.leftover = l]
  BY <1>1, <1>2, <1>3, OneLine, ZenonT(30)
<1>5. ~HasLine(p) => Len(rest) > Len(Following)
  BY <1>3, <1>4
<1> QED BY <1>4, <1>5, Zenon

(* A call that waits, and has reason to.                                    *)
LEMMA AgainWaits ==
  ASSUME Inv, at = "parse", p.state \notin {"kParseComplete", "thrown"}, Again,
         WellFormed(sending[1]) => Len(rest) > Len(Following)
  PROVE  InStep' /\ Waits
BY AgainKeeps DEF Waits

(* A step to a new state of the parser within the request.                  *)
LEMMA StageOn ==
  ASSUME Inv, at # "idle", NEW x, Goes(x, "parse"), Stage(sending[1])'
  PROVE  InStep' /\ Waits
<1>1. at' = "parse"
  BY Unmoved
<1>2. Placed(sending[1])'
  BY <1>1 DEF Placed
<1> QED BY <1>2, GoesOn

(* parseUri: the second word.                                               *)
LEMMA ParseUriKeeps ==
  ASSUME Inv, ParseUri
  PROVE  InStep' /\ Waits
<1>1. at = "parse" /\ p.state = "kUri"
  BY DEF ParseUri, Called
<1>2. PICK m \in Fitting : m = sending[1] /\ AtUri(m)
  BY <1>1, Begun DEF Placed, Stage
<1>3. p \in Parser
  BY <1>1, Begun
<1>4. PICK z \in Seq(Token) :
        /\ z = Lined(<<m.protocol>>, m.lines[1]) /\ m.uri \in Word
        /\ Lined(<<m.uri, "SP", m.protocol>>, m.lines[1]) = <<m.uri, "SP">> \o z
  BY StartRest
<1>5. Remains(<<m.uri, "SP">> \o z)
  BY <1>2, <1>4 DEF AtUri
<1>6. CASE Find(p.leftover, "SP") = 0
  <2>1. Again
    BY <1>6 DEF ParseUri
  <2>2. Len(rest) > Len(Following)
    BY <1>1, <1>4, <1>5, <1>6, WordRest
  <2> QED BY <1>1, <2>1, <2>2, AgainWaits
<1>7. CASE Find(p.leftover, "SP") # 0
  <2>1. PICK l \in Seq(Token) :
          /\ l = After(p.leftover, Find(p.leftover, "SP"))
          /\ l \o rest = z \o Following
          /\ Before(p.leftover, Find(p.leftover, "SP")) = <<m.uri>>
    BY <1>1, <1>4, <1>5, <1>7, WordRest
  <2>2. PICK w : w = Before(p.leftover, Find(p.leftover, "SP"))
    OBVIOUS
  <2>3. PICK x : x = [p EXCEPT !.uri = w, !.leftover = l, !.state = "kProtocol"]
    OBVIOUS
  <2>4. Goes([p EXCEPT !.uri = w, !.leftover = After(p.leftover, Find(p.leftover, "SP")),
                       !.state = "kProtocol"], "parse")
    BY <1>7, <2>2, Zenon DEF ParseUri
  <2>5. Goes(x, "parse")
    BY <2>1, <2>3, <2>4, Zenon
  <2>6. w \in Bytes /\ l \in Bytes /\ "kProtocol" \in ParseState /\ w = <<m.uri>>
    BY <1>4, <2>1, <2>2, ShortLine DEF Word, Bytes, ParseState
  <2>7. /\ x \in Parser /\ x.method = p.method /\ x.uri = w /\ x.leftover = l
        /\ x.state = "kProtocol" /\ x.code = p.code
        /\ x.headers = p.headers /\ x.content_length = p.content_length /\ x.body = p.body
    BY <1>3, <2>3, <2>6, ParserSets
  <2>8. p' = x /\ rest' = rest /\ sending' = sending /\ Following' = Following
    BY <2>5, Unmoved
  <2>9. AtProtocol(m)'
    <3>1. p'.method = <<m.method>> /\ p'.uri = <<m.uri>> /\ NoHead' /\ CodeTells(m, 0)'
      BY <1>2, <2>6, <2>7, <2>8 DEF AtUri, NoHead, CodeTells
    <3>2. Remains(z)'
      BY <2>1, <2>7, <2>8 DEF Remains
    <3> QED BY <1>4, <3>1, <3>2 DEF AtProtocol
  <2>10. Stage(m)'
    BY <2>7, <2>8, <2>9 DEF Stage
  <2>11. Stage(sending[1])'
    BY <1>2, <2>8, <2>10
  <2> QED BY <1>1, <2>5, <2>7, <2>11, StageOn
<1> QED BY <1>6, <1>7

(* parseComplete(code).                                                     *)
LEMMA Completed ==
  ASSUME NEW u \in Parser, NEW code \in Codes, NEW x, x = ParseComplete(u, code)
  PROVE  /\ x \in Parser /\ x.state = "kParseComplete" /\ x.code = code
         /\ x.leftover = u.leftover /\ x.method = u.method /\ x.uri = u.uri
         /\ x.protocol = u.protocol /\ x.headers = u.headers /\ x.body = u.body
         /\ x.content_length = u.content_length
<1>1. PICK s : s = "kParseComplete"
  OBVIOUS
<1>2. s \in ParseState
  BY <1>1 DEF ParseState
<1>3. x = [u EXCEPT !.state = s, !.code = code]
  BY <1>1 DEF ParseComplete
<1> QED BY <1>1, <1>2, <1>3, ParserSets

(* Nothing that follows an error makes a request well formed.               *)
LEMMA Refused ==
  ASSUME Inv, at # "idle", NEW x, x.state = "kParseComplete", x.code # 200,
         Goes(x, "parse"), ~WellFormed(sending[1])
  PROVE  InStep' /\ Waits
<1>1. PICK m \in Fitting : m = sending[1]
  BY Begun
<1>2. p' = x /\ sending' = sending
  BY Unmoved
<1>3. Stage(m)'
  BY <1>1, <1>2 DEF Stage, AtEnd
<1>4. Stage(sending[1])'
  BY <1>1, <1>2, <1>3
<1> QED BY <1>4, StageOn

(* parseProtocol: the rest of the start line; an unknown protocol is an     *)
(* error.                                                                   *)
LEMMA ParseProtocolKeeps ==
  ASSUME Inv, ParseProtocol
  PROVE  InStep' /\ Waits
<1>1. at = "parse" /\ p.state = "kProtocol"
  BY DEF ParseProtocol, Called
<1>2. PICK m \in Fitting : m = sending[1] /\ AtProtocol(m)
  BY <1>1, Begun DEF Placed, Stage
<1>3. p \in Parser
  BY <1>1, Begun
<1>4. PICK t \in Seq(Token), y \in Seq(Token) :
        t = <<m.protocol>> /\ y = m.lines[1] /\ NoBreak(t)
  BY StartRest
<1>5. Remains(Lined(t, y))
  BY <1>2, <1>4 DEF AtProtocol
<1>6. CASE ~HasLine(p)
  <2>1. Again
    BY <1>6 DEF ParseProtocol
  <2>2. Len(rest) > Len(Following)
    BY <1>1, <1>4, <1>5, <1>6, LineRest
  <2> QED BY <1>1, <2>1, <2>2, AgainWaits
<1>7. CASE HasLine(p)
  <2>1. Line(p) = t /\ \E l \in Seq(Token) :
          l \o rest = y \o Following /\ DropLine(p) = [p EXCEPT !.leftover = l]
    BY <1>1, <1>4, <1>5, <1>7, LineRest
  <2>2. PICK l \in Seq(Token) :
          l \o rest = y \o Following /\ DropLine(p) = [p EXCEPT !.leftover = l]
    BY <2>1
  <2>3. PICK u : u = [[p EXCEPT !.leftover = l] EXCEPT !.protocol = t]
    OBVIOUS
  <2>4. Goes(IF u.protocol \in {<<"HTTP/1.1">>, <<"HTTP/1.0">>}
               THEN [u EXCEPT !.state = "kBetweenHeaderStart"]
               ELSE ParseComplete(u, 400), "parse")
    BY <1>7, <2>1, <2>2, <2>3, Zenon DEF ParseProtocol
  <2>5. l \in Bytes /\ t \in Bytes
    BY DEF Bytes
  <2>6. /\ u \in Parser /\ u.protocol = t /\ u.leftover = l /\ u.method = p.method
        /\ u.uri = p.uri /\ u.code = p.code
        /\ u.headers = p.headers /\ u.content_length = p.content_length /\ u.body = p.body
    BY <1>3, <2>3, <2>5, ParserSets
  <2>7. CASE t \in {<<"HTTP/1.1">>, <<"HTTP/1.0">>}
    <3>1. PICK x : x = [u EXCEPT !.state = "kBetweenHeaderStart"]
      OBVIOUS
    <3>2. Goes(x, "parse")
      BY <2>4, <2>6, <2>7, <3>1, Zenon
    <3>3. "kBetweenHeaderStart" \in ParseState
      BY DEF ParseState
    <3>4. /\ x \in Parser /\ x.protocol = t /\ x.leftover = l /\ x.method = p.method
          /\ x.uri = p.uri /\ x.code = p.code /\ x.state = "kBetweenHeaderStart"
          /\ x.headers = p.headers /\ x.content_length = p.content_length
          /\ x.body = p.body
      BY <2>6, <3>1, <3>3, ParserSets
    <3>5. p' = x /\ rest' = rest /\ sending' = sending /\ Following' = Following
      BY <3>2, Unmoved
    <3>6. m.protocol \in {"HTTP/1.1", "HTTP/1.0"}
      BY <1>4, <2>7
    <3>7. NoHead' /\ CodeTells(m, 0)'
      BY <1>2, <3>4, <3>5 DEF AtProtocol, NoHead, CodeTells
    <3>8. Asked(m)'
      BY <1>2, <1>4, <3>4, <3>5, <3>6 DEF AtProtocol, Asked
    <3>9. Remains(y)'
      BY <2>2, <3>4, <3>5 DEF Remains
    <3>10. Stage(m)'
      BY <1>4, <3>4, <3>5, <3>7, <3>8, <3>9 DEF Stage, AtFirstField
    <3>11. Stage(sending[1])'
      BY <1>2, <3>5, <3>10
    <3> QED BY <1>1, <3>2, <3>4, <3>11, StageOn
  <2>8. CASE t \notin {<<"HTTP/1.1">>, <<"HTTP/1.0">>}
    <3>1. PICK x : x = ParseComplete(u, 400)
      OBVIOUS
    <3>2. Goes(x, "parse")
      BY <2>4, <2>6, <2>8, <3>1, Zenon
    <3>3. x \in Parser /\ x.state = "kParseComplete" /\ x.code = 400
      BY <2>6, <3>1, Completed DEF Codes
    <3>4. ~WellFormed(sending[1])
      BY <1>2, <1>4, <2>8 DEF WellFormed, Faulty
    <3> QED BY <1>1, <3>2, <3>3, <3>4, Refused
  <2> QED BY <2>7, <2>8
<1> QED BY <1>6, <1>7

(* A parser as clear() leaves it, whatever there is to be parsed.           *)
LEMMA ClearedMoves ==
  ASSUME NEW q, q = Cleared(q), NEW l, NEW x, x = [q EXCEPT !.leftover = l]
  PROVE  x = Cleared(x)
<1>1. PICK o, e : o = q.leftover /\ e = <<>>
  OBVIOUS
<1>2. q = [state |-> "kStartLine", leftover |-> o, method |-> e, uri |-> e,
           protocol |-> e, headers |-> {}, content_length |-> 0, chunk_size |-> 0,
           body |-> e, code |-> 200]
  BY <1>1, Zenon DEF Cleared
<1>3. x = [state |-> "kStartLine", leftover |-> l, method |-> e, uri |-> e,
           protocol |-> e, headers |-> {}, content_length |-> 0, chunk_size |-> 0,
           body |-> e, code |-> 200]
  BY <1>2
<1>4. x.leftover = l
  BY <1>3
<1> QED BY <1>1, <1>3, <1>4, Zenon DEF Cleared

(* skipCRLF before the start line: the line break that may come first, then *)
(* the line itself.                                                         *)
LEMMA SkipLeadKeeps ==
  ASSUME Inv, SkipCrlf("kStartLine", "kMethod")
  PROVE  InStep' /\ Waits
<1>1. at = "parse" /\ p.state = "kStartLine"
  BY DEF SkipCrlf, Called
<1>2. PICK m \in Fitting : m = sending[1] /\ AtStartLine(m)
  BY <1>1, Begun DEF Placed, Stage
<1>3. p \in Parser /\ rest \in Seq(Token)
  BY <1>1, Begun
<1>4. p = Cleared(p)
  BY <1>2 DEF AtStartLine
<1>5. PICK t \in Seq(Token), y \in Seq(Token) :
        /\ NoBreak(t) /\ Remains(Lined(t, y))
        /\ t # <<>> => t = StartLine(m) /\ y = m.lines[1] /\ t[1] # "SP"
        /\ t = <<>> => y = Start(m)
  <2>1. CASE Remains(Start(m))
    BY <2>1, StartSeq
  <2>2. CASE Remains(Lined(<<>>, Start(m)))
    <3>1. <<>> \in Seq(Token) /\ NoBreak(<<>>) /\ Start(m) \in Seq(Token)
      BY StartSeq, EmptyLine
    <3> QED BY <2>2, <3>1
  <2> QED BY <1>2, <2>1, <2>2, StartSeq DEF AtStartLine
<1>6. CASE ~HasLine(p)
  <2>1. Again
    BY <1>6 DEF SkipCrlf
  <2>2. Len(rest) > Len(Following)
    BY <1>1, <1>5, <1>6, LineRest
  <2> QED BY <1>1, <2>1, <2>2, AgainWaits
<1>7. CASE HasLine(p)
  <2>1. Line(p) = t /\ \E l \in Seq(Token) :
          l \o rest = y \o Following /\ DropLine(p) = [p EXCEPT !.leftover = l]
    BY <1>1, <1>5, <1>7, LineRest
  <2>2. CASE t = <<>>
    <3>1. PICK l \in Seq(Token) :
            l \o rest = y \o Following /\ DropLine(p) = [p EXCEPT !.leftover = l]
      BY <2>1
    <3>2. PICK x : x = [p EXCEPT !.leftover = l]
      OBVIOUS
    <3>3. Goes(x, "parse")
      BY <1>7, <2>1, <2>2, <3>1, <3>2, Zenon DEF SkipCrlf
    <3>4. l \in Bytes
      BY DEF Bytes
    <3>5. x \in Parser /\ x.leftover = l /\ x.state = "kStartLine"
      BY <1>1, <1>3, <3>2, <3>4, ParserSets
    <3>6. p' = x /\ rest' = rest /\ sending' = sending /\ Following' = Following
      BY <3>3, Unmoved
    <3>7. x = Cleared(x)
      BY <1>4, <3>2, ClearedMoves
    <3>8. Remains(y)'
      BY <3>1, <3>5, <3>6 DEF Remains
    <3>9. AtStartLine(m)'
      BY <1>5, <2>2, <3>6, <3>7, <3>8 DEF AtStartLine
    <3>10. Stage(m)'
      BY <3>5, <3>6, <3>9 DEF Stage
    <3>11. Stage(sending[1])'
      BY <1>2, <3>6, <3>10
    <3> QED BY <1>1, <3>3, <3>5, <3>11, StageOn
  <2>3. CASE t # <<>>
    <3>1. Line(p) # <<>> /\ Line(p)[1] # "SP"
      BY <1>5, <2>1, <2>3
    <3>2. PICK x : x = [p EXCEPT !.state = "kMethod"]
      OBVIOUS
    <3>3. Goes(x, "parse")
      BY <1>7, <3>1, <3>2, Zenon DEF SkipCrlf
    <3>4. "kMethod" \in ParseState
      BY DEF ParseState
    <3>5. x \in Parser /\ x.leftover = p.leftover /\ x.state = "kMethod"
      BY <1>3, <3>2, <3>4, ParserSets
    <3>6. p' = x /\ rest' = rest /\ sending' = sending /\ Following' = Following
      BY <3>3, Unmoved
    <3>7. x = [Cleared(x) EXCEPT !.state = "kMethod"]
      BY <1>4, <3>2 DEF Cleared
    <3>8. Remains(Start(m))'
      <4>1. Lined(t, y) = Start(m)
        BY <1>5, <2>3, StartSeq
      <4> QED BY <1>5, <3>5, <3>6, <4>1 DEF Remains
    <3>9. AtMethod(m)'
      BY <3>6, <3>7, <3>8 DEF AtMethod
    <3>10. Stage(m)'
      BY <3>5, <3>6, <3>9 DEF Stage
    <3>11. Stage(sending[1])'
      BY <1>2, <3>6, <3>10
    <3> QED BY <1>1, <3>3, <3>5, <3>11, StageOn
  <2> QED BY <2>2, <2>3
<1> QED BY <1>6, <1>7

(* The lines of the fields.                                                 *)
LEMMA FieldRest ==
  ASSUME NEW m \in Fitting, NEW i \in 1..m.head
  PROVE  /\ m.lines[i] = Lined(FieldLine(m.fields[i]), m.lines[i + 1])
         /\ m.lines[i + 1] \in Seq(Token) /\ FieldType(m.fields[i])
         /\ i \in 1..Len(m.fields) /\ i + 1 \in 1..(m.head + 1)
<1>1. MessageType(m) /\ Rendered(m)
  BY MessageTyped
<1>2. m.lines[i] = Lined(FieldLine(m.fields[i]), m.lines[i + 1])
  BY <1>1 DEF Rendered
<1>3. Len(m.fields) \in Nat /\ m.head \in 1..Len(m.fields)
  BY <1>1 DEF MessageType
<1>4. i \in 1..Len(m.fields) /\ i + 1 \in 1..(m.head + 1)
  BY <1>3
<1>5. m.lines[i + 1] \in Seq(Token) /\ FieldType(m.fields[i])
  BY <1>1, <1>4 DEF MessageType
<1> QED BY <1>2, <1>4, <1>5

(* skipCRLF after the start line: no line break there, as a request has     *)
(* fields; a first field with space before it is an error.                  *)
LEMMA SkipBetweenKeeps ==
  ASSUME Inv, SkipCrlf("kBetweenHeaderStart", "kHeaderLine")
  PROVE  InStep' /\ Waits
<1>1. at = "parse" /\ p.state = "kBetweenHeaderStart"
  BY DEF SkipCrlf, Called
<1>2. PICK m \in Fitting : m = sending[1] /\ AtFirstField(m)
  BY <1>1, Begun DEF Placed, Stage
<1>3. p \in Parser /\ rest \in Seq(Token)
  BY <1>1, Begun
<1>4. m.head \in 1..Len(m.fields) /\ Len(m.fields) \in Nat
  BY MessageTyped DEF MessageType
<1>5. PICK i : i = 1
  OBVIOUS
<1>6. i \in 1..m.head /\ i \in 1..(m.head + 1)
  BY <1>4, <1>5
<1>7. /\ m.lines[i] = Lined(FieldLine(m.fields[i]), m.lines[i + 1])
      /\ m.lines[i + 1] \in Seq(Token) /\ FieldType(m.fields[i])
      /\ i \in 1..Len(m.fields)
  BY <1>6, FieldRest
<1>8. PICK t \in Seq(Token), y \in Seq(Token) :
        /\ m.lines[i] = Lined(t, y) /\ NoBreak(t) /\ t # <<>>
        /\ t[1] = "SP" => Find(m.fields[i].name, "SP") # 0
  <2>1. /\ FieldLine(m.fields[i]) \in Seq(Token) /\ FieldLine(m.fields[i]) # <<>>
        /\ NoBreak(FieldLine(m.fields[i]))
        /\ FieldLine(m.fields[i])[1] = "SP" => Find(m.fields[i].name, "SP") # 0
    BY <1>7, FieldLineSeq
  <2> QED BY <1>7, <2>1
<1>9. Remains(Lined(t, y))
  BY <1>2, <1>5, <1>8 DEF AtFirstField
<1>10. CASE ~HasLine(p)
  <2>1. Again
    BY <1>10 DEF SkipCrlf
  <2>2. Len(rest) > Len(Following)
    BY <1>1, <1>8, <1>9, <1>10, LineRest
  <2> QED BY <1>1, <2>1, <2>2, AgainWaits
<1>11. CASE HasLine(p)
  <2>1. Line(p) = t
    BY <1>1, <1>8, <1>9, <1>11, LineRest
  <2>2. CASE t[1] = "SP"
    <3>1. PICK x : x = ParseComplete(p, 400)
      OBVIOUS
    <3>2. Goes(x, "parse")
      BY <1>8, <1>11, <2>1, <2>2, <3>1, Zenon DEF SkipCrlf
    <3>3. x \in Parser /\ x.state = "kParseComplete" /\ x.code = 400
      BY <1>3, <3>1, Completed DEF Codes
    <3>4. ~m.fields[i].colon \/ FieldBad(m.fields[i])
      BY <1>8, <2>2 DEF FieldBad
    <3>5. ~WellFormed(sending[1])
      BY <1>2, <1>7, <3>4 DEF WellFormed, Faulty
    <3> QED BY <1>1, <3>2, <3>3, <3>5, Refused
  <2>3. CASE t[1] # "SP"
    <3>1. PICK x : x = [p EXCEPT !.state = "kHeaderLine"]
      OBVIOUS
    <3>2. Goes(x, "parse")
      BY <1>8, <1>11, <2>1, <2>3, <3>1, Zenon DEF SkipCrlf
    <3>3. "kHeaderLine" \in ParseState
      BY DEF ParseState
    <3>4. /\ x \in Parser /\ x.leftover = p.leftover /\ x.state = "kHeaderLine"
          /\ x.method = p.method /\ x.uri = p.uri /\ x.protocol = p.protocol
          /\ x.headers = p.headers /\ x.content_length = p.content_length
          /\ x.body = p.body /\ x.code = p.code
      BY <1>3, <3>1, <3>3, ParserSets
    <3>5. p' = x /\ rest' = rest /\ sending' = sending /\ Following' = Following
      BY <3>2, Unmoved
    <3>6. Asked(m)' /\ NoHead' /\ CodeTells(m, 0)'
      BY <1>2, <3>4, <3>5 DEF AtFirstField, Asked, NoHead, CodeTells
    <3>7. Remains(m.lines[i])'
      BY <1>8, <1>9, <3>4, <3>5 DEF Remains
    <3>8. i - 1 = 0
      BY <1>5
    <3>9. AtField(m, i)'
      BY <3>4, <3>5, <3>6, <3>7, <3>8, NoHeaders DEF AtField, NoHead
    <3>10. AtHeader(m)'
      BY <1>6, <3>9 DEF AtHeader
    <3>11. Stage(m)'
      BY <3>4, <3>5, <3>10 DEF Stage
    <3>12. Stage(sending[1])'
      BY <1>2, <3>5, <3>11
    <3> QED BY <1>1, <3>2, <3>4, <3>12, StageOn
  <2> QED BY <2>2, <2>3
<1> QED BY <1>10, <1>11

(* What parseField makes of the next field of a request.                    *)
LEMMA FieldTaken ==
  ASSUME NEW m \in Fitting, NEW i \in 1..Len(m.fields), NEW u \in Parser,
         u.headers = HeadersOf(m, i - 1), NEW x,
         x = ParseField(u, FieldLine(m.fields[i]))
  PROVE  /\ x \in Parser /\ x.leftover = u.leftover
         /\ x.method = u.method /\ x.uri = u.uri /\ x.protocol = u.protocol
         /\ x.body = u.body /\ x.content_length = u.content_length
         /\ x.headers = HeadersOf(m, i)
         /\ x.state \in {u.state, "kParseComplete"}
         /\ x.code = 200 <=> u.code = 200 /\ ~FieldBad(m.fields[i])
         /\ x.state = "kParseComplete" =>
              u.state = "kParseComplete" \/ FieldBad(m.fields[i])
<1>1. MessageType(m)
  BY MessageTyped
<1>2. PICK n \in Nat : n = i - 1 /\ n + 1 = i
  BY <1>1 DEF MessageType
<1>3. PICK f : f = m.fields[i] /\ f = m.fields[n + 1]
  BY <1>2
<1>4. FieldType(f)
  BY <1>1, <1>3 DEF MessageType
<1>5. PICK g, colon : g = FieldLine(f) /\ colon = Find(g, ":")
  OBVIOUS
<1>6. f.colon =>
        /\ colon # 0 /\ Before(g, colon) = f.name
        /\ Find(After(g, colon), "NUL") = 0 <=> Find(f.value, "NUL") = 0
        /\ Trim(After(g, colon)) = f.value
  <2>1. f.colon => FieldRead(g, f)
    BY <1>4, <1>5, FieldLineRead
  <2> QED BY <1>5, <2>1 DEF FieldRead
<1>7. CASE FieldOK(f)
  <2>1. Find(f.name, "SP") = 0 /\ Find(After(g, colon), "NUL") = 0 /\ f.colon
    BY <1>6, <1>7 DEF FieldOK, FieldBad
  <2>2. x = [u EXCEPT !.headers = Entered(u.headers, Lower(f.name), f.value)]
    BY <1>3, <1>5, <1>6, <2>1, ZenonT(30) DEF ParseField
  <2>3. HeadersOf(m, n + 1) = Entered(HeadersOf(m, n), Lower(f.name), f.value)
    BY <1>3, <1>7, HeadersEntered
  <2>4. x = [u EXCEPT !.headers = HeadersOf(m, i)]
    BY <1>2, <2>2, <2>3, Zenon
  <2>5. HeadersOf(m, i) \in Headers
    <3>1. i \in 0..Len(m.fields)
      BY <1>2
    <3>2. HeadersOf(m, i) \subseteq HeaderType
      BY <3>1, HeadersTyped
    <3> QED BY <3>2 DEF Headers, HeaderType
  <2>6. ~FieldBad(m.fields[i])
    BY <1>3, <1>7 DEF FieldOK
  <2> QED BY <2>4, <2>5, <2>6, ParserSets
<1>8. CASE FieldBad(f)
  <2>1. Find(f.name, "SP") # 0 \/ Find(After(g, colon), "NUL") # 0
    BY <1>6, <1>8 DEF FieldBad
  <2>2. x = ParseComplete(u, 400)
    <3>1. colon # 0 /\ Before(g, colon) = f.name
      BY <1>6, <1>8 DEF FieldBad
    <3> QED BY <1>3, <1>5, <2>1, <3>1, ZenonT(80) DEF ParseField
  <2>3. /\ x \in Parser /\ x.leftover = u.leftover
        /\ x.method = u.method /\ x.uri = u.uri /\ x.protocol = u.protocol
        /\ x.body = u.body /\ x.content_length = u.content_length
        /\ x.headers = u.headers /\ x.state = "kParseComplete" /\ x.code = 400
    BY <2>2, Completed DEF Codes
  <2>4. HeadersOf(m, i) = HeadersOf(m, i - 1)
    BY <1>2, <1>3, <1>8, HeadersSkip DEF FieldOK
  <2> QED BY <1>3, <1>8, <2>3, <2>4
<1>9. CASE ~f.colon
  <2>1. colon = 0
    BY <1>4, <1>5, <1>9, ColonlessRead
  <2>2. x = u
    BY <1>3, <1>5, <2>1, ZenonT(30) DEF ParseField
  <2>3. HeadersOf(m, i) = HeadersOf(m, i - 1)
    BY <1>2, <1>3, <1>9, HeadersSkip DEF FieldOK
  <2> QED BY <1>3, <1>9, <2>2, <2>3 DEF FieldBad
<1>10. FieldOK(f) \/ FieldBad(f) \/ ~f.colon
  BY <1>4 DEF FieldOK, FieldType
<1> QED BY <1>7, <1>8, <1>9, <1>10

(* The code after one more field.                                           *)
LEMMA SoundNext ==
  ASSUME NEW m, NEW i \in Nat \ {0}
  PROVE  Sound(m, i) <=> Sound(m, i - 1) /\ ~FieldBad(m.fields[i])
<1>1. \A j : j \in 1..i <=> j \in 1..(i - 1) \/ j = i
  OBVIOUS
<1> QED BY <1>1 DEF Sound

(* A request with an error in the fields that were read is malformed.       *)
LEMMA NotSound ==
  ASSUME NEW m \in Fitting, NEW n \in 0..Len(m.fields), ~Sound(m, n)
  PROVE  ~WellFormed(m)
<1>1. Len(m.fields) \in Nat
  BY MessageTyped DEF MessageType
<1>2. \A j \in 1..n : j \in 1..Len(m.fields)
  BY <1>1
<1> QED BY <1>2 DEF Sound, Known, WellFormed, Faulty

(* The lines are used up: parse() goes on only after an error.              *)
LEMMA LinesEnd ==
  ASSUME Inv, at \in {"parse", "header", "trailer"}, EndOfLines,
         NEW m \in Fitting, m = sending[1],
         NEW n \in 0..Len(m.fields), CodeTells(m, n), Len(rest) > Len(Following),
         p.state = "kParseComplete" => p.code # 200,
         p.state # "kParseComplete" => p.state # "thrown" /\ Stage(m)
  PROVE  InStep' /\ Waits
<1>1. p \in Parser
  BY Begun
<1>2. CASE p.state = "kParseComplete"
  <2>1. Goes(p, "parse")
    BY <1>2 DEF EndOfLines
  <2>2. ~WellFormed(m)
    BY <1>2, NotSound DEF CodeTells
  <2> QED BY <1>1, <1>2, <2>1, <2>2, Refused
<1>3. CASE p.state # "kParseComplete"
  <2>1. Goes(p, "idle")
    BY <1>3 DEF EndOfLines
  <2>2. p' = p /\ at' = "idle" /\ rest' = rest /\ sending' = sending /\ Following' = Following
    BY <2>1, Unmoved
  <2>3. \A y \in Seq(Token) : Remains(y) => Remains(y)'
    BY <2>2 DEF Remains
  <2>4. Stage(m)'
    BY <1>3, <2>2, <2>3, StageKept DEF Alike
  <2>5. Placed(m)'
    BY <1>3, <2>2, <2>4 DEF Placed
  <2>6. Placed(sending[1])'
    BY <2>2, <2>5
  <2>7. InStep'
    BY <1>1, <2>1, <2>6, Kept
  <2> QED BY <2>7 DEF Waits
<1> QED BY <1>2, <1>3

(* The end of the head, and what follows it.                                *)
LEMMA HeadRest ==
  ASSUME NEW m \in Fitting
  PROVE  /\ m.head + 1 \in 1..(Len(m.fields) + 1) /\ m.head + 1 - 1 = m.head
         /\ m.head \in 0..Len(m.fields) /\ m.head \in Nat
         /\ \E z \in Seq(Token) :
              /\ z = IF Chunked(m) THEN m.parts[1] ELSE m.body
              /\ m.lines[m.head + 1] = Lined(<<>>, z)
<1>1. MessageType(m) /\ Rendered(m)
  BY MessageTyped
<1>2. Len(m.fields) \in Nat /\ m.head \in 1..Len(m.fields) /\ Len(m.chunks) \in Nat
  BY <1>1 DEF MessageType
<1>3. PICK k : k = 1
  OBVIOUS
<1>4. k \in 1..(Len(m.chunks) + 1)
  BY <1>2, <1>3
<1>5. m.parts[k] \in Seq(Token) /\ m.body \in Seq(Token)
  BY <1>1, <1>4 DEF MessageType
<1>6. PICK z \in Seq(Token) : z = IF Chunked(m) THEN m.parts[1] ELSE m.body
  BY <1>3, <1>5
<1>7. m.lines[m.head + 1] = CRLF \o z
  BY <1>1, <1>6 DEF Rendered
<1>8. CRLF \o z = Lined(<<>>, z)
  BY EmptyLine
<1>9. /\ m.head + 1 \in 1..(Len(m.fields) + 1) /\ m.head + 1 - 1 = m.head
      /\ m.head \in 0..Len(m.fields) /\ m.head \in Nat
  BY <1>2
<1>10. m.lines[m.head + 1] = Lined(<<>>, z)
  BY <1>7, <1>8, Zenon
<1> QED BY <1>6, <1>9, <1>10, Zenon

(* Nothing comes before the first chunk.                                    *)
LEMMA BodyBegins ==
  ASSUME NEW m, Rendered(m), Chunked(m)
  PROVE  m.upto[1] = <<>>
  BY SMTT(30) DEF Rendered

(* checkBodyType, after the empty line.                                     *)
LEMMA BodyTypeKeeps ==
  ASSUME Inv, at \in {"parse", "header"}, NEW m \in Fitting, m = sending[1],
         NEW z \in Seq(Token), z = IF Chunked(m) THEN m.parts[1] ELSE m.body,
         NEW l \in Seq(Token), l \o rest = z \o Following,
         AtField(m, m.head + 1),
         NEW u, u = [p EXCEPT !.leftover = l], Goes(CheckBodyType(u), "parse")
  PROVE  InStep' /\ Waits
<1>1. /\ Asked(m) /\ CodeTells(m, m.head) /\ p.headers = HeadersOf(m, m.head)
      /\ p.content_length = 0 /\ p.body = <<>>
  BY HeadRest DEF AtField
<1>2. p \in Parser
  BY Begun
<1>3. l \in Bytes
  BY DEF Bytes
<1>4. /\ u \in Parser /\ u.leftover = l
      /\ u.method = p.method /\ u.uri = p.uri /\ u.protocol = p.protocol
      /\ u.body = p.body /\ u.content_length = p.content_length
      /\ u.headers = p.headers /\ u.code = p.code
  BY <1>2, <1>3, ParserSets
<1>5. u.headers = HeadersOf(m, m.head)
  BY <1>1, <1>4
<1>6. /\ Has(u, "content-length") <=> Sized(m)
      /\ Sized(m) => m.framing \in {"length", "negative", "garbled", "both"}
      /\ m.framing \in {"length", "negative", "both"} => Sized(m)
      /\ Has(u, "content-length") /\ m.framing # "both" =>
           StrToL(Value(u, "content-length"), Decimal) =
             IF m.framing = "negative" THEN -1 ELSE Len(m.body)
  BY <1>5, LengthHeader
<1>7. /\ Has(u, "transfer-encoding") <=> Encoded(m)
      /\ Encoded(m) => Chunked(m) \/ m.framing = "both"
      /\ m.framing \in {"chunked", "both"} => Encoded(m)
  <2>1. m.head \in m.head..Len(m.fields)
    BY MessageTyped DEF MessageType
  <2> QED BY <1>5, <2>1, EncodingHeader
<1>8. p' = CheckBodyType(u) /\ rest' = rest /\ sending' = sending /\ Following' = Following
  BY Unmoved
<1>9. MessageType(m) /\ Rendered(m) /\ Framed(m) /\ m.framing \in Framing
  BY MessageTyped
<1>10. Len(m.body) \in 0..MaxSize /\ Len(m.fields) \in Nat /\ m.head \in 1..Len(m.fields)
  BY <1>9 DEF MessageType
<1>14. CASE Has(u, "content-length") /\ Has(u, "transfer-encoding")
  <2>1. PICK x : x = ParseComplete(u, 400)
    OBVIOUS
  <2>2. CheckBodyType(u) = x
    BY <1>14, <2>1, Zenon DEF CheckBodyType
  <2>3. x.state = "kParseComplete" /\ x.code = 400
    BY <1>4, <2>1, Completed DEF Codes
  <2>4. m.framing = "both"
    BY <1>6, <1>7, <1>14 DEF Chunked
  <2>5. ~WellFormed(sending[1])
    BY <2>4 DEF WellFormed
  <2> QED BY <2>2, <2>3, <2>5, Refused
<1>11. CASE Has(u, "content-length") /\ ~Has(u, "transfer-encoding")
  <2>1. m.framing \in {"length", "negative", "garbled"} /\ ~Chunked(m)
    BY <1>6, <1>7, <1>11 DEF Chunked
  <2>2. PICK n : n = StrToL(Value(u, "content-length"), Decimal)
    OBVIOUS
  <2>3. n = IF m.framing = "negative" THEN -1 ELSE Len(m.body)
    BY <1>6, <1>11, <2>1, <2>2
  <2>4. PICK x : x = [u EXCEPT !.content_length = n, !.state = "kContentLength"]
    OBVIOUS
  <2>5. CheckBodyType(u) = x
    BY <1>11, <2>1, <2>2, <2>4, Zenon DEF CheckBodyType
  <2>6. n \in Lengths /\ "kContentLength" \in ParseState
    BY <1>10, <2>3, NumbersAssumption DEF Lengths, ParseState
  <2>7. /\ x \in Parser /\ x.leftover = l /\ x.state = "kContentLength"
        /\ x.method = p.method /\ x.uri = p.uri /\ x.protocol = p.protocol
        /\ x.body = p.body /\ x.content_length = n
        /\ x.headers = p.headers /\ x.code = p.code
    BY <1>4, <2>4, <2>6, ParserSets
  <2>8. Asked(m)' /\ Remains(m.body)'
    BY <1>1, <1>8, <2>1, <2>5, <2>7 DEF Asked, Remains
  <2>9. p'.headers = AllHeaders(m) /\ p'.body = <<>> /\ p'.content_length = n
    BY <1>1, <1>8, <2>1, <2>5, <2>7, HeadIsAll DEF AllHeaders
  <2>10. AtLength(m)'
    BY <2>1, <2>3, <2>8, <2>9 DEF AtLength
  <2>11. Stage(m)'
    BY <1>8, <2>5, <2>7, <2>10 DEF Stage
  <2>12. Stage(sending[1])'
    BY <1>8, <2>11
  <2>13. Goes(x, "parse")
    BY <2>5
  <2> QED BY <2>7, <2>12, <2>13, StageOn
<1>12. CASE ~Has(u, "content-length") /\ Has(u, "transfer-encoding")
  <2>1. Encoded(m) /\ Chunked(m)
    BY <1>6, <1>7, <1>12
  <2>2. PICK x : x = [u EXCEPT !.state = "kChunkSize"]
    OBVIOUS
  <2>3. CheckBodyType(u) = x
    BY <1>12, <2>2, Zenon DEF CheckBodyType
  <2>4. "kChunkSize" \in ParseState
    BY DEF ParseState
  <2>5. /\ x \in Parser /\ x.leftover = l /\ x.state = "kChunkSize"
        /\ x.method = p.method /\ x.uri = p.uri /\ x.protocol = p.protocol
        /\ x.body = p.body /\ x.content_length = p.content_length
        /\ x.headers = p.headers /\ x.code = p.code
    BY <1>4, <2>2, <2>4, ParserSets
  <2>6. PICK k : k = 1
    OBVIOUS
  <2>7. k \in 1..(Len(m.chunks) + 1) /\ m.upto[k] = <<>> /\ z = m.parts[k]
    <3>4. Len(m.chunks) \in Nat
      BY <1>9, Zenon DEF MessageType
    <3>1. m.upto[1] = <<>>
      BY <1>9, <2>1, BodyBegins, Zenon
    <3>2. k \in 1..(Len(m.chunks) + 1)
      BY <2>6, <3>4, SMT
    <3>3. z = m.parts[1]
      BY <2>1
    <3> QED BY <2>6, <3>1, <3>2, <3>3, Zenon
  <2>8. Asked(m)' /\ Remains(m.parts[k])' /\ CodeTells(m, m.head)'
    BY <1>1, <1>8, <2>3, <2>5, <2>7, ZenonT(30) DEF Asked, Remains, CodeTells
  <2>9. AtChunk(m, k)'
    BY <1>1, <1>8, <2>1, <2>3, <2>5, <2>7, <2>8 DEF AtChunk
  <2>10. p'.content_length = Len(m.upto[k])
    <3>1. p'.content_length = 0
      BY <1>1, <1>8, <2>3, <2>5
    <3> QED BY <2>7, <3>1, EmptySeq
  <2>11. AtChunkSize(m)'
    BY <2>7, <2>8, <2>9, <2>10 DEF AtChunkSize
  <2>12. Stage(m)'
    BY <1>8, <2>3, <2>5, <2>11 DEF Stage
  <2>13. Stage(sending[1])'
    BY <1>8, <2>12
  <2>14. Goes(x, "parse")
    BY <2>3
  <2> QED BY <2>5, <2>13, <2>14, StageOn
<1>13. CASE ~Has(u, "content-length") /\ ~Has(u, "transfer-encoding")
  <2>1. PICK x : x = [u EXCEPT !.state = "kParseComplete"]
    OBVIOUS
  <2>2. CheckBodyType(u) = x
    BY <1>13, <2>1, Zenon DEF CheckBodyType
  <2>3. "kParseComplete" \in ParseState
    BY DEF ParseState
  <2>4. /\ x \in Parser /\ x.leftover = l /\ x.state = "kParseComplete"
        /\ x.method = p.method /\ x.uri = p.uri /\ x.protocol = p.protocol
        /\ x.body = p.body /\ x.content_length = p.content_length
        /\ x.headers = p.headers /\ x.code = p.code
    BY <1>4, <2>1, <2>3, ParserSets
  <2>5. Goes(x, "parse")
    BY <2>2
  <2>6. CASE p.code # 200
    <3>1. ~WellFormed(m)
      BY <1>1, <2>6, HeadRest, NotSound DEF CodeTells
    <3> QED BY <2>4, <2>5, <2>6, <3>1, Refused
  <2>7. CASE p.code = 200
    <3>1. Sound(m, m.head)
      BY <1>1, <2>7 DEF CodeTells
    <3>2. m.framing = "none"
      <4>1. m.framing \in {"none", "garbled", "encoded"}
        BY <1>6, <1>7, <1>9, <1>13 DEF Framing
      <4>3. ASSUME m.framing = "garbled" PROVE FALSE
        <5>1. Named(m, "content-length") # {}
          BY <1>9, <4>3 DEF Framed
        <5>2. PICK i : i \in Named(m, "content-length")
          BY <5>1
        <5>3. i \in 1..m.head /\ m.fields[i].colon
          BY <4>3, <5>2, FieldOf, HeadIsAll DEF Chunked
        <5>4. FieldOK(m.fields[i])
          BY <3>1, <5>3 DEF Sound, FieldOK
        <5>5. Sized(m)
          BY <5>2, <5>4 DEF Sized
        <5> QED BY <1>6, <1>13, <5>5
      <4>2. ASSUME m.framing = "encoded" PROVE FALSE
        <5>1. Named(m, "transfer-encoding") # {}
          BY <1>9, <4>2 DEF Framed
        <5>2. PICK i : i \in Named(m, "transfer-encoding")
          BY <5>1
        <5>3. i \in 1..m.head /\ m.fields[i].colon
          BY <5>2, EncodingField, FieldOf
        <5>4. FieldOK(m.fields[i])
          BY <3>1, <5>3 DEF Sound, FieldOK
        <5>5. Encoded(m)
          BY <5>2, <5>4 DEF Encoded
        <5> QED BY <1>7, <1>13, <5>5
      <4> QED BY <4>1, <4>2, <4>3
    <3>3. ~Chunked(m) /\ m.body = <<>>
      BY <1>9, <3>2 DEF Chunked, Framed
    <3>4. m.head = Len(m.fields) /\ z = <<>>
      BY <3>3, HeadIsAll
    <3>5. HeadersDelivered(m) = HeadersOf(m, m.head) /\ Sound(m, Len(m.fields))
      BY <3>1, <3>2, <3>4 DEF HeadersDelivered, AllHeaders
    <3>6. Asked(m)' /\ Remains(<<>>)'
      BY <1>1, <1>8, <2>2, <2>4, <3>4 DEF Asked, Remains
    <3>7. p'.headers = HeadersDelivered(m) /\ p'.body = m.body
      BY <1>1, <1>8, <2>2, <2>4, <3>3, <3>5
    <3>8. Taken(m)'
      BY <3>2, <3>5, <3>6, <3>7 DEF Taken
    <3>9. p'.code = 200
      BY <1>8, <2>2, <2>4, <2>7
    <3>10. Stage(m)'
      BY <1>8, <2>2, <2>4, <3>8, <3>9 DEF Stage, AtEnd
    <3>11. Stage(sending[1])'
      BY <1>8, <3>10
    <3> QED BY <2>4, <2>5, <3>11, StageOn
  <2> QED BY <2>6, <2>7
<1> QED BY <1>11, <1>12, <1>13, <1>14

(* parseHeaderLine: a line of the head, or its end.                         *)
LEMMA ParseHeaderLineKeeps ==
  ASSUME Inv, ParseHeaderLine
  PROVE  InStep' /\ Waits
<1>1. at \in {"parse", "header"} /\ (at = "parse" => p.state = "kHeaderLine")
  BY DEF ParseHeaderLine, Called
<1>2. PICK m \in Fitting : m = sending[1]
  BY <1>1, Begun
<1>3. p \in Parser /\ rest \in Seq(Token)
  BY <1>1, Begun
<1>4. /\ p.state \in {"kHeaderLine", "kParseComplete"} /\ AtHeader(m)
      /\ p.state # "kParseComplete" => p.state # "thrown" /\ Stage(m)
  <2>1. Placed(m)
    BY <1>1, <1>2, Begun
  <2>2. CASE at = "parse"
    BY <1>1, <2>1, <2>2 DEF Placed, Stage
  <2>3. CASE at = "header"
    BY <2>1, <2>3 DEF Placed, Stage
  <2> QED BY <1>1, <2>2, <2>3
<1>5. PICK i \in 1..(m.head + 1) : AtField(m, i)
  BY <1>4 DEF AtHeader
<1>6. /\ Asked(m) /\ Remains(m.lines[i]) /\ CodeTells(m, i - 1)
      /\ p.headers = HeadersOf(m, i - 1) /\ p.content_length = 0 /\ p.body = <<>>
      /\ p.state = "kParseComplete" => p.code # 200
  BY <1>5 DEF AtField
<1>7. m.head \in 1..Len(m.fields) /\ Len(m.fields) \in Nat
  BY MessageTyped DEF MessageType
<1>8. i - 1 \in 0..Len(m.fields) /\ (i \in 1..m.head \/ i = m.head + 1)
  BY <1>7
<1>9. PICK t \in Seq(Token), y \in Seq(Token) :
        /\ m.lines[i] = Lined(t, y) /\ NoBreak(t)
        /\ i \in 1..m.head =>
             t # <<>> /\ t = FieldLine(m.fields[i]) /\ y = m.lines[i + 1]
        /\ i = m.head + 1 =>
             t = <<>> /\ y = IF Chunked(m) THEN m.parts[1] ELSE m.body
  <2>1. CASE i \in 1..m.head
    <3>1. /\ m.lines[i] = Lined(FieldLine(m.fields[i]), m.lines[i + 1])
          /\ m.lines[i + 1] \in Seq(Token) /\ FieldType(m.fields[i])
      BY <2>1, FieldRest
    <3>2. /\ FieldLine(m.fields[i]) \in Seq(Token) /\ FieldLine(m.fields[i]) # <<>>
          /\ NoBreak(FieldLine(m.fields[i]))
      BY <3>1, FieldLineSeq
    <3>3. i # m.head + 1
      BY <1>7, <2>1
    <3> QED BY <3>1, <3>2, <3>3
  <2>2. CASE i = m.head + 1
    <3>1. PICK z \in Seq(Token) :
            /\ z = IF Chunked(m) THEN m.parts[1] ELSE m.body
            /\ m.lines[m.head + 1] = Lined(<<>>, z)
      BY HeadRest
    <3>2. <<>> \in Seq(Token) /\ NoBreak(<<>>)
      BY EmptyLine
    <3>3. i \notin 1..m.head
      BY <1>7, <2>2
    <3> QED BY <2>2, <3>1, <3>2, <3>3
  <2> QED BY <1>8, <2>1, <2>2
<1>10. Remains(Lined(t, y)) /\ at # "idle"
  BY <1>1, <1>6, <1>9
<1>11. CASE ~HasLine(p)
  <2>1. EndOfLines
    BY <1>11 DEF ParseHeaderLine
  <2>2. Len(rest) > Len(Following)
    BY <1>9, <1>10, <1>11, LineRest
  <2> QED BY <1>1, <1>2, <1>4, <1>6, <1>8, <2>1, <2>2, LinesEnd
<1>12. CASE HasLine(p)
  <2>1. Line(p) = t /\ \E l \in Seq(Token) :
          l \o rest = y \o Following /\ DropLine(p) = [p EXCEPT !.leftover = l]
    BY <1>9, <1>10, <1>12, LineRest
  <2>2. PICK l \in Seq(Token) :
          l \o rest = y \o Following /\ DropLine(p) = [p EXCEPT !.leftover = l]
    BY <2>1
  <2>3. PICK u : u = [p EXCEPT !.leftover = l]
    OBVIOUS
  <2>4. CASE i = m.head + 1
    <3>1. Goes(CheckBodyType(u), "parse")
      BY <1>9, <1>12, <2>1, <2>2, <2>3, <2>4, Zenon DEF ParseHeaderLine
    <3>2. AtField(m, m.head + 1)
      BY <1>5, <2>4
    <3>3. y = IF Chunked(m) THEN m.parts[1] ELSE m.body
      BY <1>9, <2>4
    <3> QED BY <1>1, <1>2, <2>2, <2>3, <3>1, <3>2, <3>3, BodyTypeKeeps
  <2>5. CASE i \in 1..m.head
    <3>1. i \in 1..Len(m.fields) /\ i + 1 \in 1..(m.head + 1) /\ i \in Nat \ {0}
      BY <1>7, <2>5
    <3>2. PICK x : x = ParseField(u, FieldLine(m.fields[i]))
      OBVIOUS
    <3>3. Goes(x, "header")
      BY <1>9, <1>12, <2>1, <2>2, <2>3, <2>5, <3>2, Zenon DEF ParseHeaderLine
    <3>4. l \in Bytes
      BY DEF Bytes
    <3>5. /\ u \in Parser /\ u.leftover = l /\ u.state = p.state
          /\ u.method = p.method /\ u.uri = p.uri /\ u.protocol = p.protocol
          /\ u.body = p.body /\ u.content_length = p.content_length
          /\ u.headers = p.headers /\ u.code = p.code
      BY <1>3, <2>3, <3>4, ParserSets
    <3>6. u.headers = HeadersOf(m, i - 1)
      BY <1>6, <3>5
    <3>7. /\ x \in Parser /\ x.leftover = u.leftover
          /\ x.method = u.method /\ x.uri = u.uri /\ x.protocol = u.protocol
          /\ x.body = u.body /\ x.content_length = u.content_length
          /\ x.headers = HeadersOf(m, i)
          /\ x.state \in {u.state, "kParseComplete"}
          /\ x.code = 200 <=> u.code = 200 /\ ~FieldBad(m.fields[i])
          /\ x.state = "kParseComplete" =>
               u.state = "kParseComplete" \/ FieldBad(m.fields[i])
      BY <3>1, <3>2, <3>5, <3>6, FieldTaken
    <3>8. /\ p' = x /\ at' = "header" /\ rest' = rest /\ sending' = sending
          /\ Following' = Following
      BY <3>3, Unmoved
    <3>9. PICK k : k = i + 1 /\ k - 1 = i
      BY <3>1
    <3>10. Asked(m)'
      BY <1>6, <3>5, <3>7, <3>8 DEF Asked
    <3>11. Remains(m.lines[k])'
      BY <1>9, <2>2, <2>5, <3>5, <3>7, <3>8, <3>9 DEF Remains
    <3>12. CodeTells(m, i)'
      BY <1>6, <3>1, <3>5, <3>7, <3>8, SoundNext DEF CodeTells
    <3>13. p'.state = "kParseComplete" => p'.code # 200
      BY <1>6, <3>5, <3>7, <3>8
    <3>14. p'.headers = HeadersOf(m, i) /\ p'.content_length = 0 /\ p'.body = <<>>
      BY <1>6, <3>5, <3>7, <3>8
    <3>15. AtField(m, k)'
      BY <3>9, <3>10, <3>11, <3>12, <3>13, <3>14 DEF AtField
    <3>16. AtHeader(m)'
      BY <3>1, <3>9, <3>15 DEF AtHeader
    <3>17. Placed(m)'
      BY <1>4, <3>5, <3>7, <3>8, <3>16 DEF Placed
    <3>18. Placed(sending[1])'
      BY <1>2, <3>8, <3>17
    <3> QED BY <1>10, <3>3, <3>7, <3>18, GoesOn
  <2> QED BY <1>8, <2>4, <2>5
<1> QED BY <1>11, <1>12

(* parseContentLengthBody: the body is all of it, and a negative length is  *)
(* waited for in vain.                                                      *)
LEMMA ParseContentLengthBodyKeeps ==
  ASSUME Inv, ParseContentLengthBody
  PROVE  InStep' /\ Waits
<1>1. at = "parse" /\ p.state = "kContentLength"
  BY DEF ParseContentLengthBody, Called
<1>2. PICK m \in Fitting : m = sending[1] /\ AtLength(m)
  BY <1>1, Begun DEF Placed, Stage
<1>3. p \in Parser /\ p.leftover \in Seq(Token) /\ rest \in Seq(Token) /\ Following \in Seq(Token)
  BY <1>1, Begun
<1>4. /\ m.framing \in {"length", "negative", "garbled"}
      /\ Asked(m) /\ p.leftover \o rest = m.body \o Following
      /\ p.headers = AllHeaders(m) /\ p.body = <<>>
      /\ p.content_length = IF m.framing = "negative" THEN -1 ELSE Len(m.body)
  BY <1>2 DEF AtLength, Remains
<1>5. PICK b \in Seq(Token), l \in Seq(Token) : b = m.body /\ l = p.leftover
  BY <1>3, MessageTyped DEF MessageType
<1>6. /\ Len(l) + Len(rest) = Len(b) + Len(Following)
      /\ Len(l) \in Nat /\ Len(rest) \in Nat /\ Len(b) \in Nat /\ Len(Following) \in Nat
  BY <1>3, <1>4, <1>5, Prefix, LenProperties
<1>7. Len(l) < SizeMax - 1 /\ SizeMax \in Nat /\ Len(b) < SizeMax
  <2>1. Len(m.body) \in 0..MaxSize
    BY MessageTyped DEF MessageType
  <2> QED BY <1>5, <1>6, <2>1, NumbersAssumption DEF Inv, TypeInv, TypeOK
<1>8. PICK n : n = p.content_length
  OBVIOUS
<1>9. CASE Len(l) < SizeT(n)
  <2>1. Again
    BY <1>5, <1>8, <1>9 DEF ParseContentLengthBody
  <2>2. WellFormed(m) => Len(rest) > Len(Following)
    <3>1. CASE m.framing # "negative"
      <4>1. n = Len(b)
        BY <1>4, <1>5, <1>8, <3>1
      <4>2. n \in Nat /\ n < SizeMax
        BY <1>6, <1>7, <4>1
      <4>3. SizeT(n) = n
        BY <1>7, <4>2 DEF SizeT
      <4> QED BY <1>6, <1>9, <4>1, <4>3
    <3>2. CASE m.framing = "negative"
      BY <3>2 DEF WellFormed
    <3> QED BY <1>4, <3>1, <3>2
  <2> QED BY <1>1, <1>2, <2>1, <2>2, AgainWaits
<1>10. CASE ~(Len(l) < SizeT(n))
  <2>1. m.framing \in {"length", "garbled"}
    <3>1. ASSUME m.framing = "negative" PROVE FALSE
      <4>1. n = -1
        BY <1>4, <1>8, <3>1
      <4>2. SizeT(n) = SizeMax - 1
        BY <1>6, <1>7, <4>1 DEF SizeT
      <4> QED BY <1>6, <1>7, <1>10, <4>2
    <3> QED BY <1>4, <3>1
  <2>2. n = Len(b) /\ n \in Nat /\ Len(l) >= Len(b)
    <3>1. n = Len(b)
      BY <1>4, <1>5, <1>8, <2>1
    <3>2. n \in Nat /\ n < SizeMax
      BY <1>6, <1>7, <3>1
    <3>3. SizeT(n) = n
      BY <1>7, <3>2 DEF SizeT
    <3> QED BY <1>6, <1>10, <3>1, <3>3
  <2>3. PICK r \in Seq(Token), s \in Seq(Token) :
          /\ r = After(l, n) /\ s = SubSeq(l, 1, n)
          /\ r \o rest = Following /\ s = b
    <3>1. l \o rest = b \o Following
      BY <1>4, <1>5
    <3>2. /\ SubSeq(l, Len(b) + 1, Len(l)) \in Seq(Token)
          /\ SubSeq(l, Len(b) + 1, Len(l)) \o rest = Following
          /\ SubSeq(l, 1, Len(b)) = b
      BY <1>3, <2>2, <3>1, TakeOff
    <3> QED BY <2>2, <3>2 DEF After
  <2>4. PICK y : y = p.body \o s
    OBVIOUS
  <2>5. y = b /\ y \in Bytes /\ r \in Bytes /\ 200 \in Codes
    <3>1. y = b
      BY <1>4, <2>3, <2>4, ConcatEmptySeq
    <3> QED BY <3>1 DEF Bytes, Codes
  <2>6. PICK u : u = [p EXCEPT !.body = y, !.leftover = r]
    OBVIOUS
  <2>7. PICK x : x = ParseComplete(u, 200)
    OBVIOUS
  <2>8. Goes(ParseComplete([p EXCEPT !.body = @ \o s, !.leftover = After(@, n)], 200), "parse")
    BY <1>5, <1>8, <1>10, <2>3, Zenon DEF ParseContentLengthBody
  <2>9. Goes(x, "parse")
    BY <1>5, <2>3, <2>4, <2>6, <2>7, <2>8, Zenon
  <2>10. /\ u \in Parser /\ u.leftover = r /\ u.body = y
         /\ u.method = p.method /\ u.uri = p.uri /\ u.protocol = p.protocol
         /\ u.headers = p.headers
    BY <1>3, <2>5, <2>6, ParserSets
  <2>11. /\ x \in Parser /\ x.leftover = r /\ x.body = y
         /\ x.method = p.method /\ x.uri = p.uri /\ x.protocol = p.protocol
         /\ x.headers = p.headers /\ x.state = "kParseComplete" /\ x.code = 200
    BY <2>5, <2>7, <2>10, Completed
  <2>12. p' = x /\ rest' = rest /\ sending' = sending /\ Following' = Following
    BY <2>9, Unmoved
  <2>13. Asked(m)'
    BY <1>4, <2>11, <2>12 DEF Asked
  <2>14. Remains(<<>>)'
    <3>1. <<>> \o Following = Following
      BY <1>3, ConcatEmptySeq
    <3> QED BY <2>3, <2>11, <2>12, <3>1 DEF Remains
  <2>15. p'.headers = HeadersDelivered(m) /\ p'.body = m.body
    BY <1>4, <1>5, <2>1, <2>5, <2>11, <2>12 DEF HeadersDelivered
  <2>16. Taken(m)'
    BY <2>1, <2>13, <2>14, <2>15 DEF Taken
  <2>17. Stage(m)'
    BY <2>11, <2>12, <2>16 DEF Stage, AtEnd
  <2>18. Stage(sending[1])'
    BY <1>2, <2>12, <2>17
  <2> QED BY <1>1, <2>9, <2>11, <2>18, StageOn
<1> QED BY <1>9, <1>10

(* The chunk sizes.                                                         *)
LEMMA ParseChunkSizeKeeps ==
  ASSUME Inv, ParseChunkSize
  PROVE  InStep' /\ Waits
<1>1. at = "parse" /\ p.state = "kChunkSize"
  BY DEF ParseChunkSize, Called
<1>2. PICK m \in Fitting : m = sending[1] /\ AtChunkSize(m)
  BY <1>1, Begun DEF Placed, Stage
<1>3. p \in Parser
  BY <1>1, Begun
<1>4. PICK i \in 1..(Len(m.chunks) + 1) :
        AtChunk(m, i) /\ Remains(m.parts[i]) /\ p.content_length = Len(m.upto[i])
  BY <1>2 DEF AtChunkSize
<1>5. /\ Encoded(m) /\ Chunked(m) /\ Asked(m) /\ CodeTells(m, m.head)
      /\ p.headers = HeadersOf(m, m.head) /\ p.body = m.upto[i]
  BY <1>4 DEF AtChunk
<1>6. Chunked(m)
  BY <1>5
<1>7. MessageType(m) /\ Rendered(m)
  BY MessageTyped
<1>8. Len(m.chunks) \in Nat /\ m.head \in 1..Len(m.fields) /\ Len(m.fields) \in Nat
  BY <1>7 DEF MessageType
<1>9. PICK n \in 0..MaxSize, y \in Seq(Token) :
        /\ m.parts[i] = Lined(<<Hex[n]>>, y)
        /\ i \in 1..Len(m.chunks) =>
             /\ n = Len(m.chunks[i]) /\ n # 0
             /\ y = Lined(m.chunks[i], m.parts[i + 1])
             /\ Len(m.upto[i + 1]) = Len(m.upto[i]) + n
             /\ i + 1 \in 1..(Len(m.chunks) + 1)
        /\ i = Len(m.chunks) + 1 => n = 0 /\ y = m.trail[m.head + 1]
  <2>1. CASE i \in 1..Len(m.chunks)
    <3>1. /\ m.chunks[i] \in Seq(Token) /\ Len(m.chunks[i]) \in 1..MaxSize
          /\ m.parts[i] = Lined(<<Hex[Len(m.chunks[i])]>>, Lined(m.chunks[i], m.parts[i + 1]))
          /\ m.parts[i + 1] \in Seq(Token)
          /\ Len(m.upto[i + 1]) = Len(m.upto[i]) + Len(m.chunks[i])
          /\ i + 1 \in 1..(Len(m.chunks) + 1)
      BY <1>6, <2>1, ChunkFacts
    <3>2. PICK n \in 1..MaxSize, y \in Seq(Token) :
            n = Len(m.chunks[i]) /\ y = Lined(m.chunks[i], m.parts[i + 1])
      BY <3>1, LinedSeq
    <3>3. n \in 0..MaxSize /\ n # 0 /\ i # Len(m.chunks) + 1
      BY <1>8, <2>1, <3>2, NumbersAssumption
    <3> QED BY <3>1, <3>2, <3>3
  <2>2. CASE i = Len(m.chunks) + 1
    <3>1. m.parts[Len(m.chunks) + 1] = Lined(<<Hex[0]>>, m.trail[m.head + 1])
      BY <1>6, <1>7 DEF Rendered
    <3>2. PICK n, k : n = 0 /\ k = m.head + 1
      OBVIOUS
    <3>3. n \in 0..MaxSize /\ k \in 1..(Len(m.fields) + 1) /\ i \notin 1..Len(m.chunks)
      BY <1>8, <2>2, <3>2, NumbersAssumption
    <3>4. m.trail[k] \in Seq(Token)
      BY <1>7, <3>3 DEF MessageType
    <3> QED BY <2>2, <3>1, <3>2, <3>3, <3>4
  <2> QED BY <1>8, <2>1, <2>2
<1>10. /\ StrToL(<<Hex[n]>>, Hex) = n /\ StrEnd(<<Hex[n]>>, Hex) = 2
       /\ Hex[n] \in Token
  BY NumberRead, NumbersAssumption
<1>11. PICK t \in Seq(Token) :
         t = <<Hex[n]>> /\ NoBreak(t) /\ t # <<>> /\ Len(t) = 1
  BY <1>10, ShortLine
<1>12. Remains(Lined(t, y))
  BY <1>4, <1>9, <1>11
<1>13. CASE ~HasLine(p)
  <2>1. Again
    BY <1>13 DEF ParseChunkSize
  <2>2. Len(rest) > Len(Following)
    BY <1>1, <1>11, <1>12, <1>13, LineRest
  <2> QED BY <1>1, <2>1, <2>2, AgainWaits
<1>14. CASE HasLine(p)
  <2>1. Line(p) = t /\ \E l \in Seq(Token) :
          l \o rest = y \o Following /\ DropLine(p) = [p EXCEPT !.leftover = l]
    BY <1>1, <1>11, <1>12, <1>14, LineRest
  <2>2. PICK l \in Seq(Token) :
          l \o rest = y \o Following /\ DropLine(p) = [p EXCEPT !.leftover = l]
    BY <2>1
  <2>3. PICK u : u = [[p EXCEPT !.leftover = l] EXCEPT !.chunk_size = n]
    OBVIOUS
  <2>4. l \in Bytes /\ n \in Sizes
    BY NumbersAssumption DEF Bytes, Sizes, Numbers
  <2>5. /\ u \in Parser /\ u.leftover = l /\ u.chunk_size = n
        /\ u.method = p.method /\ u.uri = p.uri /\ u.protocol = p.protocol
        /\ u.body = p.body /\ u.content_length = p.content_length
        /\ u.headers = p.headers /\ u.code = p.code
    BY <1>3, <2>3, <2>4, ParserSets
  <2>6. u = [DropLine(p) EXCEPT !.chunk_size = StrToL(Line(p), Hex)]
    BY <1>10, <1>11, <2>1, <2>2, <2>3, Zenon
  <2>11. PICK number :
           number = (/\ Line(p) # <<>>
                     /\ \/ StrEnd(Line(p), Hex) > Len(Line(p))
                        \/ Line(p)[StrEnd(Line(p), Hex)] = "NUL")
    OBVIOUS
  <2>7. number
    BY <1>10, <1>11, <2>1, <2>11
  <2>8. Goes(CASE ~number -> ParseComplete(IF Line(p) = <<>> THEN DropLine(p) ELSE u, 400)
               [] number /\ u.chunk_size = 0 -> [u EXCEPT !.state = "kTrailerField"]
               [] OTHER -> [u EXCEPT !.content_length = @ + u.chunk_size,
                                     !.state = "kChunkData"], "parse")
    BY <1>14, <2>6, <2>11, Zenon DEF ParseChunkSize
  <2>9. CASE i \in 1..Len(m.chunks)
    <3>1. n # 0 /\ y = Lined(m.chunks[i], m.parts[i + 1]) /\ n = Len(m.chunks[i])
          /\ Len(m.upto[i + 1]) = Len(m.upto[i]) + n
          /\ i + 1 \in 1..(Len(m.chunks) + 1)
      BY <1>9, <2>9
    <3>2. PICK c : c = u.content_length + n
      OBVIOUS
    <3>3. c = Len(m.upto[i + 1]) /\ c \in Lengths /\ "kChunkData" \in ParseState
      <4>1. c = Len(m.upto[i + 1])
        BY <1>4, <2>5, <3>1, <3>2
      <4>2. PICK k \in 1..(Len(m.chunks) + 1) : k = i + 1
        BY <3>1
      <4>3. Len(m.upto[k]) \in 0..MaxSize
        BY <1>6, UptoGrows
      <4> QED BY <4>1, <4>2, <4>3 DEF Lengths, ParseState
    <3>4. PICK x : x = [u EXCEPT !.content_length = c, !.state = "kChunkData"]
      OBVIOUS
    <3>5. Goes([u EXCEPT !.content_length = u.content_length + u.chunk_size,
                         !.state = "kChunkData"], "parse")
      BY <2>5, <2>7, <2>8, <3>1, Zenon
    <3>6. Goes(x, "parse")
      BY <2>5, <3>2, <3>4, <3>5, Zenon
    <3>7. /\ x \in Parser /\ x.leftover = l /\ x.chunk_size = n
          /\ x.method = p.method /\ x.uri = p.uri /\ x.protocol = p.protocol
          /\ x.body = p.body /\ x.content_length = c /\ x.state = "kChunkData"
          /\ x.headers = p.headers /\ x.code = p.code
      BY <2>5, <3>3, <3>4, ParserSets
    <3>8. p' = x /\ rest' = rest /\ sending' = sending /\ Following' = Following
      BY <3>6, Unmoved
    <3>9. Asked(m)' /\ CodeTells(m, m.head)'
      BY <1>5, <3>7, <3>8 DEF Asked, CodeTells
    <3>10. AtChunk(m, i)'
      BY <1>5, <3>7, <3>8, <3>9 DEF AtChunk
    <3>11. Remains(Lined(m.chunks[i], m.parts[i + 1]))'
      BY <2>2, <3>1, <3>7, <3>8 DEF Remains
    <3>12. AtChunkData(m)'
      BY <2>9, <3>1, <3>3, <3>7, <3>8, <3>10, <3>11 DEF AtChunkData
    <3>13. Stage(m)'
      BY <3>7, <3>8, <3>12 DEF Stage
    <3>14. Stage(sending[1])'
      BY <1>2, <3>8, <3>13
    <3> QED BY <1>1, <3>6, <3>7, <3>14, StageOn
  <2>10. CASE i = Len(m.chunks) + 1
    <3>1. n = 0 /\ y = m.trail[m.head + 1]
      BY <1>9, <2>10
    <3>2. PICK x : x = [u EXCEPT !.state = "kTrailerField"]
      OBVIOUS
    <3>3. Goes(x, "parse")
      BY <2>5, <2>7, <2>8, <3>1, <3>2, Zenon
    <3>4. "kTrailerField" \in ParseState
      BY DEF ParseState
    <3>5. /\ x \in Parser /\ x.leftover = l
          /\ x.method = p.method /\ x.uri = p.uri /\ x.protocol = p.protocol
          /\ x.body = p.body /\ x.content_length = p.content_length
          /\ x.state = "kTrailerField" /\ x.headers = p.headers /\ x.code = p.code
      BY <2>5, <3>2, <3>4, ParserSets
    <3>6. p' = x /\ rest' = rest /\ sending' = sending /\ Following' = Following
      BY <3>3, Unmoved
    <3>7. PICK k : k = m.head + 1
      OBVIOUS
    <3>8. k \in (m.head + 1)..(Len(m.fields) + 1) /\ k - 1 = m.head
      BY <1>8, <3>7, SMTT(30)
    <3>9. m.upto[i] = m.body
      BY <1>6, <1>7, <2>10 DEF Rendered
    <3>10. Asked(m)' /\ CodeTells(m, m.head)' /\ Remains(m.trail[k])'
      BY <1>5, <2>2, <3>1, <3>5, <3>6, <3>7 DEF Asked, CodeTells, Remains
    <3>11. /\ p'.headers = HeadersOf(m, m.head) /\ p'.body = m.body
           /\ p'.content_length = Len(m.body) /\ p'.state # "kParseComplete"
      BY <1>4, <1>5, <3>5, <3>6, <3>9
    <3>12. AtTrailerField(m, k)'
      BY <1>5, <3>8, <3>10, <3>11 DEF AtTrailerField
    <3>13. AtTrailer(m)'
      BY <3>8, <3>12 DEF AtTrailer
    <3>14. Stage(m)'
      BY <3>5, <3>6, <3>13 DEF Stage
    <3>15. Stage(sending[1])'
      BY <1>2, <3>6, <3>14
    <3> QED BY <1>1, <3>3, <3>5, <3>15, StageOn
  <2> QED BY <1>8, <2>9, <2>10
<1> QED BY <1>13, <1>14

(* The data of a chunk, and the line break after it.                        *)
LEMMA ParseChunkDataKeeps ==
  ASSUME Inv, ParseChunkData
  PROVE  InStep' /\ Waits
<1>1. at = "parse" /\ p.state = "kChunkData"
  BY DEF ParseChunkData, Called
<1>2. PICK m \in Fitting : m = sending[1] /\ AtChunkData(m)
  BY <1>1, Begun DEF Placed, Stage
<1>3. p \in Parser
  BY <1>1, Begun
<1>4. PICK i \in 1..Len(m.chunks) :
        /\ AtChunk(m, i) /\ Remains(Lined(m.chunks[i], m.parts[i + 1]))
        /\ p.chunk_size = Len(m.chunks[i]) /\ p.content_length = Len(m.upto[i + 1])
  BY <1>2 DEF AtChunkData
<1>5. /\ Encoded(m) /\ Chunked(m) /\ Asked(m) /\ CodeTells(m, m.head)
      /\ p.headers = HeadersOf(m, m.head) /\ p.body = m.upto[i]
  BY <1>4 DEF AtChunk
<1>6. Chunked(m)
  BY <1>5
<1>7. PICK t \in Seq(Token), y \in Seq(Token), o \in Seq(Token), k \in 1..(Len(m.chunks) + 1) :
        /\ t = m.chunks[i] /\ y = m.parts[i + 1] /\ k = i + 1
        /\ o = m.upto[i] /\ m.upto[k] = o \o t
  <2>1. /\ m.chunks[i] \in Seq(Token)
        /\ m.parts[i + 1] \in Seq(Token) /\ m.upto[i] \in Seq(Token)
        /\ m.upto[i + 1] = m.upto[i] \o m.chunks[i]
        /\ i + 1 \in 1..(Len(m.chunks) + 1)
    BY <1>6, ChunkFacts
  <2>2. PICK k \in 1..(Len(m.chunks) + 1) : k = i + 1
    BY <2>1
  <2> QED BY <2>1, <2>2
<1>8. Remains(Lined(t, y))
  BY <1>4, <1>7
<1>9. NoBreak(t) \/ FindCrlf(t) # 0
  BY Whole
<1>10. CASE ~HasLine(p) /\ NoBreak(t)
  <2>1. Again
    BY <1>10 DEF ParseChunkData
  <2>2. Len(rest) > Len(Following)
    BY <1>1, <1>8, <1>10, LineRest
  <2> QED BY <1>1, <2>1, <2>2, AgainWaits
<1>11. CASE HasLine(p) /\ NoBreak(t)
  <2>1. Line(p) = t /\ \E l \in Seq(Token) :
          l \o rest = y \o Following /\ DropLine(p) = [p EXCEPT !.leftover = l]
    BY <1>1, <1>8, <1>11, LineRest
  <2>2. PICK l \in Seq(Token) :
          l \o rest = y \o Following /\ DropLine(p) = [p EXCEPT !.leftover = l]
    BY <2>1
  <2>3. PICK b \in Seq(Token) : b = p.body \o t
    BY <1>5, <1>7, Cat
  <2>4. PICK u : u = [p EXCEPT !.leftover = l]
    OBVIOUS
  <2>5. PICK x : x = [u EXCEPT !.body = b, !.state = "kChunkSize"]
    OBVIOUS
  <2>6. l \in Bytes /\ b \in Bytes /\ "kChunkSize" \in ParseState
    BY DEF Bytes, ParseState
  <2>7. u \in Parser /\ u.body = p.body
    BY <1>3, <2>4, <2>6, ParserSets
  <2>8. Goes([DropLine(p) EXCEPT !.body = @ \o Line(p), !.state = "kChunkSize"], "parse")
    <3>1. Len(Line(p)) = p.chunk_size
      BY <1>4, <1>7, <2>1
    <3> QED BY <1>11, <3>1, Zenon DEF ParseChunkData
  <2>9. Goes(x, "parse")
    <3>1. DropLine(p) = u /\ DropLine(p).body \o Line(p) = b
      BY <2>1, <2>2, <2>3, <2>4, <2>7
    <3> QED BY <2>5, <2>8, <3>1, Zenon
  <2>10. /\ x \in Parser /\ x.leftover = l /\ x.body = b
         /\ x.method = p.method /\ x.uri = p.uri /\ x.protocol = p.protocol
         /\ x.content_length = p.content_length /\ x.state = "kChunkSize"
         /\ x.headers = p.headers /\ x.code = p.code
    BY <1>3, <2>4, <2>5, <2>6, ParserSets
  <2>11. p' = x /\ rest' = rest /\ sending' = sending /\ Following' = Following
    BY <2>9, Unmoved
  <2>12. Asked(m)' /\ CodeTells(m, m.head)' /\ Remains(m.parts[k])'
    BY <1>5, <1>7, <2>2, <2>10, <2>11 DEF Asked, CodeTells, Remains
  <2>13. p'.body = m.upto[k] /\ p'.content_length = Len(m.upto[k])
    BY <1>4, <1>5, <1>7, <2>3, <2>10, <2>11
  <2>14. AtChunk(m, k)'
    BY <1>5, <2>10, <2>11, <2>12, <2>13 DEF AtChunk
  <2>15. AtChunkSize(m)'
    BY <2>12, <2>13, <2>14 DEF AtChunkSize
  <2>16. Stage(m)'
    BY <2>10, <2>11, <2>15 DEF Stage
  <2>17. Stage(sending[1])'
    BY <1>2, <2>11, <2>16
  <2> QED BY <1>1, <2>9, <2>10, <2>17, StageOn
<1>12. CASE FindCrlf(t) # 0
  <2>1. ~WellFormed(m)
    BY <1>6, <1>7, <1>12 DEF WellFormed, Unbroken, Chunked
  <2>2. CASE ~HasLine(p)
    <3>1. Again
      BY <2>2 DEF ParseChunkData
    <3> QED BY <1>1, <1>2, <2>1, <3>1, AgainWaits
  <2>3. CASE HasLine(p)
    <3>1. PICK z \in Seq(Token) : p.leftover \o rest = t \o z
      <4>1. Following \in Seq(Token)
        BY <1>1, Begun
      <4>2. PICK w \in Seq(Token) : w = y \o Following
        BY <4>1, Cat
      <4>3. p.leftover \o rest = Lined(t, w)
        BY <1>8, <4>1, <4>2, LinedOnto, ZenonT(60) DEF Remains
      <4>4. PICK z \in Seq(Token) : Lined(t, w) = t \o z
        BY LinedParts
      <4> QED BY <4>3, <4>4, Zenon
    <3>2. Len(Line(p)) # p.chunk_size
      <4>1. p.leftover \in Seq(Token) /\ rest \in Seq(Token)
        BY <1>1, Begun
      <4>2. Len(Before(p.leftover, FindCrlf(p.leftover))) # Len(t)
        BY <1>12, <2>3, <3>1, <4>1, Broken DEF HasLine
      <4> QED BY <1>4, <1>7, <4>2 DEF Line
    <3>3. PICK x : x = ParseComplete(p, 400)
      OBVIOUS
    <3>4. Goes(x, "parse")
      BY <2>3, <3>2, <3>3, Zenon DEF ParseChunkData
    <3>5. x \in Parser /\ x.state = "kParseComplete" /\ x.code # 200
      <4>1. 400 \in Codes /\ 400 # 200
        BY DEF Codes
      <4> QED BY <1>3, <3>3, <4>1, Completed
    <3> QED BY <1>1, <1>2, <2>1, <3>4, <3>5, Refused
  <2> QED BY <2>2, <2>3
<1> QED BY <1>9, <1>10, <1>11, <1>12

(* The lines of the trailer fields, and the end of the request.             *)
LEMMA TrailRest ==
  ASSUME NEW m \in Fitting, Chunked(m), NEW i \in (m.head + 1)..(Len(m.fields) + 1)
  PROVE  /\ i \in Nat \ {0} /\ i - 1 \in m.head..Len(m.fields) /\ i - 1 \in 0..Len(m.fields)
         /\ i \in 1..Len(m.fields) \/ i = Len(m.fields) + 1
         /\ i \in 1..Len(m.fields) => i + 1 \in (m.head + 1)..(Len(m.fields) + 1)
         /\ \E t \in Seq(Token), y \in Seq(Token) :
              /\ m.trail[i] = Lined(t, y) /\ NoBreak(t)
              /\ i \in 1..Len(m.fields) =>
                   t # <<>> /\ t = FieldLine(m.fields[i]) /\ y = m.trail[i + 1]
              /\ i = Len(m.fields) + 1 => t = <<>> /\ y = <<>>
<1>1. MessageType(m) /\ Rendered(m)
  BY MessageTyped
<1>2. Len(m.fields) \in Nat /\ m.head \in 1..Len(m.fields)
  BY <1>1 DEF MessageType
<1>3. /\ i \in Nat \ {0} /\ i - 1 \in m.head..Len(m.fields) /\ i - 1 \in 0..Len(m.fields)
      /\ i \in 1..Len(m.fields) \/ i = Len(m.fields) + 1
      /\ i \in 1..Len(m.fields) => i + 1 \in (m.head + 1)..(Len(m.fields) + 1)
  BY <1>2
<1>4. CASE i \in 1..Len(m.fields)
  <2>1. i \in (m.head + 1)..Len(m.fields) /\ i + 1 \in 1..(Len(m.fields) + 1)
        /\ i # Len(m.fields) + 1
    BY <1>2, <1>4
  <2>2. m.trail[i] = Lined(FieldLine(m.fields[i]), m.trail[i + 1])
    BY <1>1, <2>1 DEF Rendered
  <2>3. m.trail[i + 1] \in Seq(Token) /\ FieldType(m.fields[i])
    BY <1>1, <1>4, <2>1 DEF MessageType
  <2>4. /\ FieldLine(m.fields[i]) \in Seq(Token) /\ FieldLine(m.fields[i]) # <<>>
        /\ NoBreak(FieldLine(m.fields[i]))
    BY <2>3, FieldLineSeq
  <2> QED BY <1>3, <2>1, <2>2, <2>3, <2>4
<1>5. CASE i = Len(m.fields) + 1
  <2>1. m.trail[i] = CRLF
    BY <1>1, <1>5 DEF Rendered
  <2>2. <<>> \in Seq(Token) /\ NoBreak(<<>>) /\ CRLF \o <<>> = Lined(<<>>, <<>>)
    BY EmptySeq, EmptyLine
  <2>3. CRLF \o <<>> = CRLF
    BY CrlfSeq, ConcatEmptySeq
  <2>4. i \notin 1..Len(m.fields)
    BY <1>2, <1>5
  <2> QED BY <1>3, <1>5, <2>1, <2>2, <2>3, <2>4
<1> QED BY <1>3, <1>4, <1>5

(* headers_[name] = value keeps the type of headers_.                       *)
LEMMA EnteredTyped ==
  ASSUME NEW h \in Headers, NEW name \in Bytes, NEW value \in Bytes
  PROVE  Entered(h, name, value) \in Headers
BY DEF Entered, Headers, Bytes

(* removeChunkedInHeader, at the end of a chunked request.                  *)
LEMMA RemoveChunkedKeeps ==
  ASSUME Inv, at # "idle", NEW m \in Fitting, m = sending[1], Chunked(m),
         NEW l \in Seq(Token), l \o rest = Following,
         AtTrailerField(m, Len(m.fields) + 1),
         NEW u, u = [p EXCEPT !.leftover = l], Goes(RemoveChunkedInHeader(u), "parse")
  PROVE  InStep' /\ Waits
<1>1. MessageType(m) /\ Rendered(m) /\ m.framing \in Framing
  BY MessageTyped
<1>2. /\ Len(m.fields) \in Nat /\ m.head \in 1..Len(m.fields)
      /\ Len(m.body) \in 0..MaxSize
  BY <1>1 DEF MessageType
<1>3. /\ Encoded(m) /\ Asked(m) /\ p.headers = AllHeaders(m) /\ p.body = m.body
      /\ p.content_length = Len(m.body)
  <2>1. Len(m.fields) + 1 - 1 = Len(m.fields)
    BY <1>2
  <2> QED BY <2>1 DEF AtTrailerField, AllHeaders
<1>4. p \in Parser /\ Following \in Seq(Token)
  BY Begun
<1>5. l \in Bytes
  BY DEF Bytes
<1>6. /\ u \in Parser /\ u.leftover = l
      /\ u.method = p.method /\ u.uri = p.uri /\ u.protocol = p.protocol
      /\ u.body = p.body /\ u.content_length = p.content_length
      /\ u.headers = p.headers
  BY <1>4, <1>5, ParserSets
<1>7. PICK encoding, pos :
        encoding = Value(u, "transfer-encoding") /\ pos = Find(encoding, "chunked")
  OBVIOUS
<1>8. /\ m.framing = "chunked" => encoding = <<"chunked">>
      /\ m.framing = "encoded" => pos = 0
  <2>1. Len(m.fields) \in m.head..Len(m.fields)
    BY <1>2
  <2>2. u.headers = HeadersOf(m, Len(m.fields))
    BY <1>3, <1>6 DEF AllHeaders
  <2> QED BY <1>3, <1>7, <2>1, <2>2, EncodingHeader
<1>9. CASE m.framing = "encoded"
  <2>1. PICK x : x = [u EXCEPT !.state = "thrown"]
    OBVIOUS
  <2>2. Goes(x, "parse")
    BY <1>7, <1>8, <1>9, <2>1, Zenon DEF RemoveChunkedInHeader
  <2>3. "thrown" \in ParseState
    BY DEF ParseState
  <2>4. x \in Parser /\ x.state = "thrown"
    BY <1>6, <2>1, <2>3, ParserSets
  <2>5. p' = x /\ sending' = sending
    BY <2>2, Unmoved
  <2>6. ~WellFormed(m)
    BY <1>9 DEF WellFormed
  <2>7. Stage(m)'
    BY <2>4, <2>5, <2>6 DEF Stage
  <2>8. Stage(sending[1])'
    BY <2>5, <2>7
  <2> QED BY <2>2, <2>4, <2>8, StageOn
<1>10. CASE m.framing = "chunked"
  <2>1. PICK left : left = Before(encoding, pos) \o After(encoding, pos)
    OBVIOUS
  <2>2. pos = 1 /\ left = <<>>
    BY <1>7, <1>8, <1>10, <2>1, NothingLeft
  <2>3. PICK n : n = u.content_length
    OBVIOUS
  <2>4. PICK h : h = Entered(Entered(u.headers, <<"transfer-encoding">>, left),
                             <<"content-length">>, <<Numeral(n, Decimal)>>)
    OBVIOUS
  <2>19. n = Len(m.body) /\ Numeral(n, Decimal) = Decimal[n] /\ Decimal[n] \in Token
    <3>1. n = Len(m.body) /\ n \in 0..MaxSize
      BY <1>2, <1>3, <1>6, <2>3
    <3> QED BY <3>1, NumberRead, NumbersAssumption
  <2>5. h = HeadersDelivered(m)
    BY <1>3, <1>6, <1>10, <2>2, <2>4, <2>19 DEF HeadersDelivered
  <2>6. h \in Headers /\ 200 \in Codes
    <3>3. PICK a \in Token, b \in Token, c \in Token :
            a = "transfer-encoding" /\ b = "content-length" /\ c = Decimal[n]
      BY <2>19, TokenAssumption
    <3>4. /\ <<"transfer-encoding">> \in Bytes /\ <<"content-length">> \in Bytes
          /\ <<Decimal[n]>> \in Bytes /\ left \in Bytes
      BY <2>2, <3>3, ShortLine, EmptySeq DEF Bytes
    <3>5. u.headers \in Headers
      BY <1>6, ParserSets
    <3>6. Entered(u.headers, <<"transfer-encoding">>, left) \in Headers
      BY <3>4, <3>5, EnteredTyped
    <3> QED BY <2>4, <2>19, <3>4, <3>6, EnteredTyped DEF Codes
  <2>7. PICK w : w = [u EXCEPT !.headers = h]
    OBVIOUS
  <2>8. PICK x : x = ParseComplete(w, 200)
    OBVIOUS
  <2>9. Goes(ParseComplete([u EXCEPT !.headers =
                              Entered(Entered(@, <<"transfer-encoding">>, left),
                                      <<"content-length">>, <<Numeral(n, Decimal)>>)],
                          200), "parse")
    <3>1. pos # 0
      BY <2>2
    <3> QED BY <1>7, <2>1, <2>3, <3>1, Zenon DEF RemoveChunkedInHeader
  <2>10. Goes(x, "parse")
    BY <2>4, <2>7, <2>8, <2>9, Zenon
  <2>11. /\ w \in Parser /\ w.leftover = l /\ w.headers = h
         /\ w.method = p.method /\ w.uri = p.uri /\ w.protocol = p.protocol
         /\ w.body = p.body
    BY <1>6, <2>6, <2>7, ParserSets
  <2>12. /\ x \in Parser /\ x.leftover = l /\ x.headers = h
         /\ x.method = p.method /\ x.uri = p.uri /\ x.protocol = p.protocol
         /\ x.body = p.body /\ x.state = "kParseComplete" /\ x.code = 200
    BY <2>6, <2>8, <2>11, Completed
  <2>13. p' = x /\ rest' = rest /\ sending' = sending /\ Following' = Following
    BY <2>10, Unmoved
  <2>14. Asked(m)'
    BY <1>3, <2>12, <2>13 DEF Asked
  <2>15. Remains(<<>>)'
    <3>1. <<>> \o Following = Following
      BY <1>4, ConcatEmptySeq
    <3> QED BY <2>12, <2>13, <3>1 DEF Remains
  <2>16. Taken(m)'
    BY <1>3, <1>10, <2>5, <2>12, <2>13, <2>14, <2>15 DEF Taken
  <2>17. Stage(m)'
    BY <2>12, <2>13, <2>16 DEF Stage, AtEnd
  <2>18. Stage(sending[1])'
    BY <2>13, <2>17
  <2> QED BY <2>10, <2>12, <2>18, StageOn
<1>11. m.framing \in {"chunked", "encoded"}
  BY DEF Chunked
<1> QED BY <1>9, <1>10, <1>11

(* parseTrailerField: a line after the chunks, or the end.                  *)
LEMMA ParseTrailerFieldKeeps ==
  ASSUME Inv, ParseTrailerField
  PROVE  InStep' /\ Waits
<1>1. at \in {"parse", "trailer"} /\ (at = "parse" => p.state = "kTrailerField")
  BY DEF ParseTrailerField, Called
<1>2. PICK m \in Fitting : m = sending[1]
  BY <1>1, Begun
<1>3. p \in Parser /\ rest \in Seq(Token) /\ Following \in Seq(Token)
  BY <1>1, Begun
<1>4. /\ p.state \in {"kTrailerField", "kParseComplete"} /\ AtTrailer(m)
      /\ p.state # "kParseComplete" => p.state # "thrown" /\ Stage(m)
  <2>1. Placed(m)
    BY <1>1, <1>2, Begun
  <2>2. CASE at = "parse"
    BY <1>1, <2>1, <2>2 DEF Placed, Stage
  <2>3. CASE at = "trailer"
    BY <2>1, <2>3 DEF Placed, Stage
  <2> QED BY <1>1, <2>2, <2>3
<1>5. PICK i \in (m.head + 1)..(Len(m.fields) + 1) : AtTrailerField(m, i)
  BY <1>4 DEF AtTrailer
<1>6. /\ Encoded(m) /\ Chunked(m) /\ Asked(m) /\ Remains(m.trail[i])
      /\ CodeTells(m, i - 1)
      /\ p.headers = HeadersOf(m, i - 1) /\ p.body = m.body
      /\ p.content_length = Len(m.body)
      /\ p.state = "kParseComplete" => p.code # 200
  BY <1>5 DEF AtTrailerField
<1>7. Chunked(m)
  BY <1>6
<1>8. /\ i \in Nat \ {0} /\ i - 1 \in 0..Len(m.fields)
      /\ i \in 1..Len(m.fields) \/ i = Len(m.fields) + 1
      /\ i \in 1..Len(m.fields) => i + 1 \in (m.head + 1)..(Len(m.fields) + 1)
  BY <1>7, TrailRest
<1>9. PICK t \in Seq(Token), y \in Seq(Token) :
        /\ m.trail[i] = Lined(t, y) /\ NoBreak(t)
        /\ i \in 1..Len(m.fields) =>
             t # <<>> /\ t = FieldLine(m.fields[i]) /\ y = m.trail[i + 1]
        /\ i = Len(m.fields) + 1 => t = <<>> /\ y = <<>>
  BY <1>7, TrailRest
<1>10. Remains(Lined(t, y)) /\ at # "idle"
  BY <1>1, <1>6, <1>9
<1>11. CASE ~HasLine(p)
  <2>1. EndOfLines
    BY <1>11 DEF ParseTrailerField
  <2>2. Len(rest) > Len(Following)
    BY <1>9, <1>10, <1>11, LineRest
  <2> QED BY <1>1, <1>2, <1>4, <1>6, <1>8, <2>1, <2>2, LinesEnd
<1>12. CASE HasLine(p)
  <2>1. Line(p) = t /\ \E l \in Seq(Token) :
          l \o rest = y \o Following /\ DropLine(p) = [p EXCEPT !.leftover = l]
    BY <1>9, <1>10, <1>12, LineRest
  <2>2. PICK l \in Seq(Token) :
          l \o rest = y \o Following /\ DropLine(p) = [p EXCEPT !.leftover = l]
    BY <2>1
  <2>3. PICK u : u = [p EXCEPT !.leftover = l]
    OBVIOUS
  <2>4. CASE i = Len(m.fields) + 1
    <3>1. Goes(RemoveChunkedInHeader(u), "parse")
      BY <1>9, <1>12, <2>1, <2>2, <2>3, <2>4, Zenon DEF ParseTrailerField
    <3>2. AtTrailerField(m, Len(m.fields) + 1)
      BY <1>5, <2>4
    <3>3. l \o rest = Following
      BY <1>3, <1>9, <2>2, <2>4, ConcatEmptySeq
    <3> QED BY <1>2, <1>7, <1>10, <2>3, <3>1, <3>2, <3>3, RemoveChunkedKeeps
  <2>5. CASE i \in 1..Len(m.fields)
    <3>1. PICK k \in (m.head + 1)..(Len(m.fields) + 1) : k = i + 1 /\ k - 1 = i
      BY <1>8, <2>5
    <3>2. PICK x : x = ParseField(u, FieldLine(m.fields[i]))
      OBVIOUS
    <3>3. Goes(x, "trailer")
      BY <1>9, <1>12, <2>1, <2>2, <2>3, <2>5, <3>2, Zenon DEF ParseTrailerField
    <3>4. l \in Bytes
      BY DEF Bytes
    <3>5. /\ u \in Parser /\ u.leftover = l /\ u.state = p.state
          /\ u.method = p.method /\ u.uri = p.uri /\ u.protocol = p.protocol
          /\ u.body = p.body /\ u.content_length = p.content_length
          /\ u.headers = p.headers /\ u.code = p.code
      BY <1>3, <2>3, <3>4, ParserSets
    <3>6. u.headers = HeadersOf(m, i - 1)
      BY <1>6, <3>5
    <3>7. /\ x \in Parser /\ x.leftover = u.leftover
          /\ x.method = u.method /\ x.uri = u.uri /\ x.protocol = u.protocol
          /\ x.body = u.body /\ x.content_length = u.content_length
          /\ x.headers = HeadersOf(m, i)
          /\ x.state \in {u.state, "kParseComplete"}
          /\ x.code = 200 <=> u.code = 200 /\ ~FieldBad(m.fields[i])
          /\ x.state = "kParseComplete" =>
               u.state = "kParseComplete" \/ FieldBad(m.fields[i])
      BY <2>5, <3>2, <3>5, <3>6, FieldTaken
    <3>8. /\ p' = x /\ at' = "trailer" /\ rest' = rest /\ sending' = sending
          /\ Following' = Following
      BY <3>3, Unmoved
    <3>9. Asked(m)'
      BY <1>6, <3>5, <3>7, <3>8 DEF Asked
    <3>10. Remains(m.trail[k])'
      BY <1>9, <2>2, <2>5, <3>1, <3>5, <3>7, <3>8 DEF Remains
    <3>11. CodeTells(m, i)'
      BY <1>6, <1>8, <3>5, <3>7, <3>8, SoundNext DEF CodeTells
    <3>12. p'.state = "kParseComplete" => p'.code # 200
      BY <1>6, <3>5, <3>7, <3>8
    <3>13. /\ p'.headers = HeadersOf(m, i) /\ p'.body = m.body
           /\ p'.content_length = Len(m.body)
      BY <1>6, <3>5, <3>7, <3>8
    <3>14. AtTrailerField(m, k)'
      BY <1>6, <3>1, <3>9, <3>10, <3>11, <3>12, <3>13 DEF AtTrailerField
    <3>15. AtTrailer(m)'
      BY <3>1, <3>14 DEF AtTrailer
    <3>16. Placed(m)'
      BY <1>4, <3>5, <3>7, <3>8, <3>15 DEF Placed
    <3>17. Placed(sending[1])'
      BY <1>2, <3>8, <3>16
    <3> QED BY <1>10, <3>3, <3>7, <3>17, GoesOn
  <2> QED BY <1>8, <2>4, <2>5
<1> QED BY <1>11, <1>12

-----------------------------------------------------------------------------
(* Where First looks.                                                       *)
LEMMA FirstIn ==
  ASSUME NEW S, S \subseteq Nat \ {0}, First(S) # 0
  PROVE  First(S) \in S
<1>1. S # {}
  BY FirstNone
<1>2. \E i \in S : \A j \in S : i <= j
  BY <1>1, Least
<1> QED BY <1>1, <1>2 DEF First

(* What std::find and std::search return: a place in the text, or 0.        *)
LEMMA FindIn ==
  ASSUME NEW s \in Bytes, NEW t
  PROVE  /\ Find(s, t) # 0 => Find(s, t) \in 1..Len(s)
         /\ FindCrlf(s) # 0 => FindCrlf(s) \in 1..Len(s) /\ FindCrlf(s) + 1 \in 1..Len(s)
<1>1. Len(s) \in Nat
  BY LenProperties DEF Bytes
<1>2. ASSUME Find(s, t) # 0 PROVE Find(s, t) \in 1..Len(s)
  <2>1. {i \in 1..Len(s) : s[i] = t} \subseteq Nat \ {0}
    OBVIOUS
  <2> QED BY <1>2, <2>1, FirstIn DEF Find
<1>3. ASSUME FindCrlf(s) # 0
      PROVE  FindCrlf(s) \in 1..Len(s) /\ FindCrlf(s) + 1 \in 1..Len(s)
  <2>1. {i \in 1..(Len(s) - 1) : s[i] = "CR" /\ s[i + 1] = "LF"} \subseteq Nat \ {0}
    BY <1>1
  <2>2. FindCrlf(s) \in 1..(Len(s) - 1)
    BY <1>3, <2>1, FirstIn DEF FindCrlf
  <2> QED BY <1>1, <2>2
<1> QED BY <1>2, <1>3

(* A text is cut in two; no part is longer than it.                         *)
LEMMA CutTyped ==
  ASSUME NEW s \in Bytes, NEW i \in 0..Len(s)
  PROVE  /\ After(s, i) \in Bytes /\ Len(After(s, i)) \in Nat
         /\ Len(After(s, i)) <= Len(s)
         /\ SubSeq(s, 1, i) \in Bytes /\ Len(SubSeq(s, 1, i)) = i
         /\ i # 0 => Before(s, i) \in Bytes
<1>1. Len(s) \in Nat /\ i \in Nat /\ i <= Len(s)
  BY LenProperties DEF Bytes
<1>2. After(s, i) \in Bytes /\ Len(After(s, i)) = Len(s) - i
  BY <1>1, SubSeqProperties DEF After, Bytes
<1>3. SubSeq(s, 1, i) \in Bytes /\ Len(SubSeq(s, 1, i)) = i
  BY <1>1, SubSeqProperties DEF Bytes
<1>4. i # 0 => Before(s, i) \in Bytes
  BY <1>1, SubSeqProperties DEF Before, Bytes
<1> QED BY <1>1, <1>2, <1>3, <1>4

(* The line of a parser that has one, and the parser without it.            *)
LEMMA LineTyped ==
  ASSUME NEW x \in Parser, HasLine(x)
  PROVE  /\ Line(x) \in Bytes /\ Len(x.leftover) \in Nat
         /\ \E l \in Bytes : /\ DropLine(x) = [x EXCEPT !.leftover = l]
                             /\ Len(l) \in Nat /\ Len(l) <= Len(x.leftover)
<1>1. x.leftover \in Bytes
  BY ParserSets
<1>2. PICK i : i = FindCrlf(x.leftover)
  OBVIOUS
<1>3. i \in 1..Len(x.leftover) /\ i + 1 \in 1..Len(x.leftover) /\ Len(x.leftover) \in Nat
  BY <1>1, <1>2, FindIn, LenProperties DEF HasLine, Bytes
<1>4. Line(x) \in Bytes
  <2>1. i \in 0..Len(x.leftover) /\ i # 0
    BY <1>3
  <2> QED BY <1>1, <1>2, <2>1, CutTyped DEF Line
<1>5. PICK l \in Bytes : /\ l = After(x.leftover, i + 1)
                         /\ Len(l) \in Nat /\ Len(l) <= Len(x.leftover)
  <2>1. i + 1 \in 0..Len(x.leftover)
    BY <1>3
  <2> QED BY <1>1, <2>1, CutTyped
<1>6. DropLine(x) = [x EXCEPT !.leftover = l]
  BY <1>2, <1>5 DEF DropLine
<1> QED BY <1>3, <1>4, <1>5, <1>6

(* trim returns a text.                                                     *)
LEMMA TrimTyped ==
  ASSUME NEW s \in Bytes
  PROVE  Trim(s) \in Bytes
<1> DEFINE kept == {i \in 1..Len(s) : s[i] # "SP"}
           last == CHOOSE i \in kept : \A j \in kept : i >= j
<1>1. Len(s) \in Nat
  BY LenProperties DEF Bytes
<1>2. CASE kept = {}
  BY <1>2 DEF Trim
<1>3. CASE kept # {}
  <2>1. First(kept) \in 1..Len(s)
    <3>1. kept \subseteq Nat \ {0}
      BY <1>1
    <3>2. First(kept) # 0
      BY <1>3, <3>1, FirstNone
    <3> QED BY <3>1, <3>2, FirstIn
  <2>2. last \in 1..Len(s)
    <3> DEFINE back == {Len(s) - i : i \in kept}
    <3>1. back \subseteq Nat /\ back # {}
      BY <1>1, <1>3
    <3>2. PICK b \in back : \A c \in back : b <= c
      BY <3>1, Least
    <3>3. PICK i \in kept : b = Len(s) - i
      BY <3>2
    <3>4. ASSUME NEW j \in kept PROVE i >= j
      <4>1. Len(s) - j \in back /\ i \in Nat /\ j \in Nat
        BY <1>1
      <4>2. Len(s) - i <= Len(s) - j
        BY <3>2, <3>3, <4>1
      <4> QED BY <1>1, <4>1, <4>2
    <3>5. last \in kept
      BY <3>3, <3>4
    <3> QED BY <3>5
  <2>3. SubSeq(s, First(kept), last) \in Bytes
    <3>1. PICK a \in 1..Len(s), b \in 1..Len(s) : a = First(kept) /\ b = last
      BY <2>1, <2>2
    <3>2. SubSeq(s, a, b) \in Bytes
      BY <1>1, SubSeqProperties DEF Bytes
    <3> QED BY <3>1, <3>2
  <2>4. Trim(s) = SubSeq(s, First(kept), last)
    BY <1>3 DEF Trim
  <2> QED BY <2>3, <2>4
<1> QED BY <1>2, <1>3

(* A header that is there has a value.                                      *)
LEMMA ValueTyped ==
  ASSUME NEW x \in Parser, NEW t, Has(x, t)
  PROVE  Value(x, t) \in Bytes
<1>1. x.headers \in Headers
  BY ParserSets
<1>2. PICK h : h \in x.headers /\ h = CHOOSE g \in x.headers : g.name = <<t>>
  BY DEF Has
<1>3. h.value \in Bytes
  BY <1>1, <1>2 DEF Headers, Bytes
<1> QED BY <1>2, <1>3 DEF Value

(* A header that is there stays when another is entered.                    *)
LEMMA HasEntered ==
  ASSUME NEW x, NEW y, NEW t, Has(x, t), NEW name, NEW value,
         y.headers = Entered(x.headers, name, value)
  PROVE  Has(y, t)
<1>1. PICK h \in x.headers : h.name = <<t>>
  BY DEF Has
<1>2. CASE name = <<t>>
  <2>1. PICK g : g = [name |-> name, value |-> value]
    OBVIOUS
  <2>2. g \in y.headers /\ g.name = <<t>>
    BY <1>2, <2>1 DEF Entered
  <2> QED BY <2>2 DEF Has
<1>3. CASE name # <<t>>
  BY <1>1, <1>3 DEF Has, Entered
<1> QED BY <1>2, <1>3

(* strtol returns a number.                                                 *)
LEMMA StrToLTyped ==
  ASSUME NEW s, NEW base
  PROVE  StrToL(s, base) \in Numbers
<1>1. CASE HasNumber(s, base)
  <2>1. \E n \in Numbers : s[NumberAt(s)] = Numeral(n, base)
    BY <1>1 DEF HasNumber
  <2> QED BY <1>1, <2>1 DEF StrToL
<1>2. CASE ~HasNumber(s, base)
  BY <1>2, NumbersAssumption DEF StrToL, Numbers
<1> QED BY <1>1, <1>2

(* A field changes no more than the headers, the state and the code.        *)
LEMMA ParseFieldTyped ==
  ASSUME NEW x \in Parser, NEW s \in Bytes
  PROVE  LET y == ParseField(x, s) IN
         /\ y \in Parser /\ y.leftover = x.leftover
         /\ y.content_length = x.content_length
         /\ y.state \in {x.state, "kParseComplete"}
         /\ \A t : Has(x, t) => Has(y, t)
<1> DEFINE colon == Find(s, ":")
           name  == Before(s, colon)
           value == After(s, colon)
<1>1. CASE colon = 0
  BY <1>1 DEF ParseField
<1>2. CASE colon # 0 /\ (Find(name, "SP") # 0 \/ Find(value, "NUL") # 0)
  <2>1. PICK y : y = ParseComplete(x, 400)
    OBVIOUS
  <2>2. /\ y \in Parser /\ y.leftover = x.leftover
        /\ y.content_length = x.content_length
        /\ y.state = "kParseComplete" /\ y.headers = x.headers
    <3>1. 400 \in Codes
      BY DEF Codes
    <3> QED BY <2>1, <3>1, Completed
  <2>3. \A t : Has(x, t) => Has(y, t)
    BY <2>2 DEF Has
  <2>4. ParseField(x, s) = y
    BY <1>2, <2>1 DEF ParseField
  <2> QED BY <2>2, <2>3, <2>4
<1>3. CASE colon # 0 /\ ~(Find(name, "SP") # 0 \/ Find(value, "NUL") # 0)
  <2>1. colon \in 1..Len(s) /\ colon \in 0..Len(s)
    BY <1>3, FindIn
  <2>2. PICK n \in Bytes, v \in Bytes : n = Lower(name) /\ v = Trim(value)
    <3>1. name \in Bytes /\ value \in Bytes
      BY <1>3, <2>1, CutTyped
    <3>2. Lower(name) \in Bytes
      BY <3>1, LowerSeq DEF Bytes
    <3> QED BY <3>1, <3>2, TrimTyped
  <2>3. PICK h \in Headers : h = Entered(x.headers, n, v)
    <3>1. x.headers \in Headers
      BY ParserSets
    <3> QED BY <3>1, EnteredTyped
  <2>4. PICK y : y = [x EXCEPT !.headers = h]
    OBVIOUS
  <2>5. ParseField(x, s) = y
    BY <1>3, <2>2, <2>3, <2>4 DEF ParseField
  <2>6. /\ y \in Parser /\ y.leftover = x.leftover
        /\ y.content_length = x.content_length /\ y.state = x.state
        /\ y.headers = Entered(x.headers, n, v)
    BY <2>3, <2>4, ParserSets
  <2>7. \A t : Has(x, t) => Has(y, t)
    BY <2>6, HasEntered
  <2> QED BY <2>5, <2>6, <2>7
<1> QED BY <1>1, <1>2, <1>3

(* A parser in none of the states of a body, and the place after it.        *)
LEMMA SaneIf ==
  ASSUME NEW x \in Parser, Len(x.leftover) < SizeMax - 1, NEW to, to # "trailer",
         x.state \notin {"kContentLength", "kChunkSize", "kChunkData", "kTrailerField"},
         to = "header" => x.state \in {"kHeaderLine", "kParseComplete"},
         x.content_length = -1 => x.state = "kParseComplete" /\ to # "header"
  PROVE  Sane(x, to)
BY DEF Sane

(* What the types need of a step of parse().                                *)
LEMMA GoesTyped ==
  ASSUME TypeInv, NEW x, NEW to \in Place, Goes(x, to), Sane(x, to)
  PROVE  TypeInv'
<1>1. /\ p' = x /\ at' = to /\ read' = read /\ rest' = rest /\ sending' = sending
      /\ repeats' = repeats /\ strayed' = strayed
  BY DEF Goes
<1>2. x \in Parser /\ Len(x.leftover) < SizeMax - 1
  BY DEF Sane
<1>3. TypeOK'
  BY <1>1, <1>2 DEF TypeInv, TypeOK
<1>4. Sane(p, at)'
  BY <1>1
<1> QED BY <1>3, <1>4 DEF TypeInv

(* A call that waits, or leaves a loop, changes nothing of the parser.      *)
LEMMA PlaceTyped ==
  ASSUME TypeInv, NEW to \in {"parse", "idle"}, Goes(p, to)
  PROVE  TypeInv'
<1>1. Sane(p, at)
  BY DEF TypeInv
<1>2. Sane(p, to)
  BY <1>1 DEF Sane
<1>3. to \in Place
  BY DEF Place
<1> QED BY <1>2, <1>3, GoesTyped

(* A parser, and what it has to parse.                                      *)
LEMMA ParserTyped ==
  ASSUME TypeInv
  PROVE  /\ p \in Parser /\ p.leftover \in Bytes /\ Len(p.leftover) \in Nat
         /\ Len(p.leftover) < SizeMax - 1 /\ SizeMax \in Nat
         /\ p.content_length \in Lengths
<1>1. p \in Parser /\ Len(p.leftover) < SizeMax - 1
  BY DEF TypeInv, TypeOK
<1>2. p.leftover \in Bytes /\ p.content_length \in Lengths
  BY <1>1, ParserSets
<1> QED BY <1>1, <1>2, LenProperties, NumbersAssumption DEF Bytes

(* The line of the parser, and the parser without it.                       *)
LEMMA DropTyped ==
  ASSUME TypeInv, HasLine(p)
  PROVE  /\ Line(p) \in Bytes
         /\ LET u == DropLine(p) IN
            /\ u \in Parser /\ Len(u.leftover) < SizeMax - 1
            /\ u.state = p.state /\ u.headers = p.headers
            /\ u.content_length = p.content_length /\ u.chunk_size = p.chunk_size
<1>1. PICK l \in Bytes : /\ DropLine(p) = [p EXCEPT !.leftover = l]
                         /\ Len(l) \in Nat /\ Len(l) <= Len(p.leftover)
  BY ParserTyped, LineTyped
<1>2. PICK u : u = DropLine(p)
  OBVIOUS
<1>3. /\ u \in Parser /\ u.leftover = l
      /\ u.state = p.state /\ u.headers = p.headers
      /\ u.content_length = p.content_length /\ u.chunk_size = p.chunk_size
  BY <1>1, <1>2, ParserTyped, ParserSets
<1>4. Len(u.leftover) < SizeMax - 1
  BY <1>1, <1>3, ParserTyped
<1> QED BY <1>2, <1>3, <1>4, ParserTyped, LineTyped

(* skipCRLF.                                                                *)
LEMMA SkipTyped ==
  ASSUME TypeInv, NEW state \in {"kStartLine", "kBetweenHeaderStart"},
         NEW next \in {"kMethod", "kHeaderLine"}, SkipCrlf(state, next)
  PROVE  TypeInv'
<1>1. p.state = state /\ p.content_length # -1
  BY DEF SkipCrlf, Called, TypeInv, Sane
<1>2. p \in Parser /\ Len(p.leftover) < SizeMax - 1
  BY ParserTyped
<1>3. CASE Again
  BY <1>3, PlaceTyped DEF Again
<1>4. CASE HasLine(p) /\ Goes(DropLine(p), "parse")
  <2>1. PICK u : u = DropLine(p)
    OBVIOUS
  <2>2. /\ u \in Parser /\ Len(u.leftover) < SizeMax - 1
        /\ u.state = p.state /\ u.content_length = p.content_length
    BY <1>4, <2>1, DropTyped
  <2>3. Sane(u, "parse")
    BY <1>1, <2>2, SaneIf
  <2> QED BY <1>4, <2>1, <2>3, GoesTyped DEF Place
<1>5. CASE Goes(ParseComplete(p, 400), "parse")
  <2>1. PICK x : x = ParseComplete(p, 400)
    OBVIOUS
  <2>2. 400 \in Codes
    BY DEF Codes
  <2>3. /\ x \in Parser /\ x.leftover = p.leftover /\ x.state = "kParseComplete"
    BY <1>2, <2>1, <2>2, Completed
  <2>4. Sane(x, "parse")
    BY <1>2, <2>3, SaneIf
  <2> QED BY <1>5, <2>1, <2>4, GoesTyped DEF Place
<1>6. CASE Goes([p EXCEPT !.state = next], "parse")
  <2>1. PICK x : x = [p EXCEPT !.state = next]
    OBVIOUS
  <2>2. next \in ParseState
    BY DEF ParseState
  <2>3. /\ x \in Parser /\ x.leftover = p.leftover /\ x.state = next
        /\ x.content_length = p.content_length
    BY <1>2, <2>1, <2>2, ParserSets
  <2>4. Sane(x, "parse")
    BY <1>1, <1>2, <2>3, SaneIf
  <2> QED BY <1>6, <2>1, <2>4, GoesTyped DEF Place
<1> QED BY <1>3, <1>4, <1>5, <1>6, Zenon DEF SkipCrlf

(* parseMethod and parseUri: up to the first space.                         *)
LEMMA WordTyped ==
  ASSUME NEW s \in Bytes, NEW i, i = Find(s, "SP"), i # 0
  PROVE  /\ Before(s, i) \in Bytes
         /\ \E l \in Bytes : l = After(s, i) /\ Len(l) \in Nat /\ Len(l) <= Len(s)
<1>1. i \in 1..Len(s)
  BY FindIn
<1>2. i \in 0..Len(s)
  BY <1>1
<1> QED BY <1>1, <1>2, CutTyped

LEMMA ParseMethodTyped ==
  ASSUME TypeInv, ParseMethod
  PROVE  TypeInv'
<1>1. p.state = "kMethod" /\ p.content_length # -1
  BY DEF ParseMethod, Called, TypeInv, Sane
<1>2. p \in Parser /\ p.leftover \in Bytes /\ Len(p.leftover) < SizeMax - 1
      /\ Len(p.leftover) \in Nat /\ SizeMax \in Nat
  BY ParserTyped
<1>3. PICK i : i = Find(p.leftover, "SP")
  OBVIOUS
<1>4. CASE i = 0
  BY <1>3, <1>4, PlaceTyped DEF ParseMethod, Again
<1>5. CASE i # 0
  <2>1. PICK w \in Bytes, l \in Bytes :
          /\ w = Before(p.leftover, i) /\ l = After(p.leftover, i)
          /\ Len(l) \in Nat /\ Len(l) <= Len(p.leftover)
    BY <1>2, <1>3, <1>5, WordTyped
  <2>2. PICK code \in Codes :
          code = IF w \in {<<"GET">>, <<"POST">>, <<"DELETE">>} THEN p.code ELSE 501
    <3>1. p.code \in Codes /\ 501 \in Codes
      <4>1. p.code \in Codes
        BY <1>2, ParserSets
      <4> QED BY <4>1 DEF Codes
    <3> QED BY <3>1
  <2>3. PICK x : x = [p EXCEPT !.method = w, !.leftover = l, !.code = code,
                               !.state = "kUri"]
    OBVIOUS
  <2>4. Goes([p EXCEPT !.method = w, !.leftover = After(p.leftover, i),
                       !.code = IF w \in {<<"GET">>, <<"POST">>, <<"DELETE">>}
                                THEN @ ELSE 501,
                       !.state = "kUri"], "parse")
    BY <1>3, <1>5, <2>1, Zenon DEF ParseMethod
  <2>5. Goes(x, "parse")
    BY <2>1, <2>2, <2>3, <2>4, Zenon
  <2>6. "kUri" \in ParseState
    BY DEF ParseState
  <2>7. /\ x \in Parser /\ x.leftover = l /\ x.state = "kUri"
        /\ x.content_length = p.content_length
    BY <1>2, <2>3, <2>6, ParserSets
  <2>8. Sane(x, "parse")
    BY <1>1, <1>2, <2>1, <2>7, SaneIf
  <2> QED BY <2>5, <2>8, GoesTyped DEF Place
<1> QED BY <1>4, <1>5

LEMMA ParseUriTyped ==
  ASSUME TypeInv, ParseUri
  PROVE  TypeInv'
<1>1. p.state = "kUri" /\ p.content_length # -1
  BY DEF ParseUri, Called, TypeInv, Sane
<1>2. p \in Parser /\ p.leftover \in Bytes /\ Len(p.leftover) < SizeMax - 1
      /\ Len(p.leftover) \in Nat /\ SizeMax \in Nat
  BY ParserTyped
<1>3. PICK i : i = Find(p.leftover, "SP")
  OBVIOUS
<1>4. CASE i = 0
  BY <1>3, <1>4, PlaceTyped DEF ParseUri, Again
<1>5. CASE i # 0
  <2>1. PICK w \in Bytes, l \in Bytes :
          /\ w = Before(p.leftover, i) /\ l = After(p.leftover, i)
          /\ Len(l) \in Nat /\ Len(l) <= Len(p.leftover)
    BY <1>2, <1>3, <1>5, WordTyped
  <2>2. PICK x : x = [p EXCEPT !.uri = w, !.leftover = l, !.state = "kProtocol"]
    OBVIOUS
  <2>3. Goes([p EXCEPT !.uri = w, !.leftover = After(p.leftover, i),
                       !.state = "kProtocol"], "parse")
    BY <1>3, <1>5, <2>1, Zenon DEF ParseUri
  <2>4. Goes(x, "parse")
    BY <2>1, <2>2, <2>3, Zenon
  <2>5. "kProtocol" \in ParseState
    BY DEF ParseState
  <2>6. /\ x \in Parser /\ x.leftover = l /\ x.state = "kProtocol"
        /\ x.content_length = p.content_length
    BY <1>2, <2>2, <2>5, ParserSets
  <2>7. Sane(x, "parse")
    BY <1>1, <1>2, <2>1, <2>6, SaneIf
  <2> QED BY <2>4, <2>7, GoesTyped DEF Place
<1> QED BY <1>4, <1>5

(* parseProtocol.                                                           *)
LEMMA ParseProtocolTyped ==
  ASSUME TypeInv, ParseProtocol
  PROVE  TypeInv'
<1>1. p.state = "kProtocol" /\ p.content_length # -1
  BY DEF ParseProtocol, Called, TypeInv, Sane
<1>2. CASE ~HasLine(p)
  BY <1>2, PlaceTyped DEF ParseProtocol, Again
<1>3. CASE HasLine(p)
  <2>1. PICK w \in Bytes, u \in Parser :
          /\ w = Line(p) /\ u = DropLine(p) /\ Len(u.leftover) < SizeMax - 1
          /\ u.content_length = p.content_length
    BY <1>3, DropTyped
  <2>2. PICK x : x = [u EXCEPT !.protocol = w]
    OBVIOUS
  <2>3. /\ x \in Parser /\ x.leftover = u.leftover
        /\ x.content_length = p.content_length
    BY <2>1, <2>2, ParserSets
  <2>4. PICK b : b = ParseComplete(x, 400)
    OBVIOUS
  <2>5. PICK g : g = [x EXCEPT !.state = "kBetweenHeaderStart"]
    OBVIOUS
  <2>6. Goes(g, "parse") \/ Goes(b, "parse")
    BY <1>3, <2>1, <2>2, <2>4, <2>5, Zenon DEF ParseProtocol
  <2>7. Sane(b, "parse")
    <3>1. 400 \in Codes
      BY DEF Codes
    <3>2. b \in Parser /\ b.leftover = x.leftover /\ b.state = "kParseComplete"
      BY <2>3, <2>4, <3>1, Completed
    <3> QED BY <2>1, <2>3, <3>2, SaneIf
  <2>8. Sane(g, "parse")
    <3>1. "kBetweenHeaderStart" \in ParseState
      BY DEF ParseState
    <3>2. /\ g \in Parser /\ g.leftover = x.leftover
          /\ g.state = "kBetweenHeaderStart" /\ g.content_length = x.content_length
      BY <2>3, <2>5, <3>1, ParserSets
    <3> QED BY <1>1, <2>1, <2>3, <3>2, SaneIf
  <2> QED BY <2>6, <2>7, <2>8, GoesTyped DEF Place
<1> QED BY <1>2, <1>3

(* checkBodyType.                                                           *)
LEMMA CheckBodyTypeTyped ==
  ASSUME NEW u \in Parser, Len(u.leftover) < SizeMax - 1, u.content_length # -1
  PROVE  Sane(CheckBodyType(u), "parse")
<1>1. PICK sized, chunked :
        sized = Has(u, "content-length") /\ chunked = Has(u, "transfer-encoding")
  OBVIOUS
<1>2. CASE sized /\ chunked
  <2>1. PICK x : x = ParseComplete(u, 400)
    OBVIOUS
  <2>2. 400 \in Codes
    BY DEF Codes
  <2>3. x \in Parser /\ x.leftover = u.leftover /\ x.state = "kParseComplete"
    BY <2>1, <2>2, Completed
  <2>4. Sane(x, "parse")
    BY <2>3, SaneIf
  <2> QED BY <1>1, <1>2, <2>1, <2>4 DEF CheckBodyType
<1>3. CASE sized /\ ~chunked
  <2>1. PICK n \in Numbers : n = StrToL(Value(u, "content-length"), Decimal)
    BY StrToLTyped
  <2>2. PICK x : x = [u EXCEPT !.content_length = n, !.state = "kContentLength"]
    OBVIOUS
  <2>3. "kContentLength" \in ParseState /\ n \in Lengths
    BY NumbersAssumption DEF ParseState, Lengths, Numbers
  <2>4. /\ x \in Parser /\ x.leftover = u.leftover /\ x.state = "kContentLength"
        /\ x.content_length = n
    BY <2>2, <2>3, ParserSets
  <2>5. Sane(x, "parse")
    BY <2>4 DEF Sane
  <2> QED BY <1>1, <1>3, <2>1, <2>2, <2>5 DEF CheckBodyType
<1>4. CASE ~sized /\ chunked
  <2>1. PICK x : x = [u EXCEPT !.state = "kChunkSize"]
    OBVIOUS
  <2>2. "kChunkSize" \in ParseState
    BY DEF ParseState
  <2>3. /\ x \in Parser /\ x.leftover = u.leftover /\ x.state = "kChunkSize"
        /\ x.content_length = u.content_length /\ x.headers = u.headers
    BY <2>1, <2>2, ParserSets
  <2>4. Has(x, "transfer-encoding")
    BY <1>1, <1>4, <2>3 DEF Has
  <2>5. Sane(x, "parse")
    BY <2>3, <2>4 DEF Sane
  <2> QED BY <1>1, <1>4, <2>1, <2>5 DEF CheckBodyType
<1>5. CASE ~sized /\ ~chunked
  <2>1. PICK x : x = [u EXCEPT !.state = "kParseComplete"]
    OBVIOUS
  <2>2. "kParseComplete" \in ParseState
    BY DEF ParseState
  <2>3. x \in Parser /\ x.leftover = u.leftover /\ x.state = "kParseComplete"
    BY <2>1, <2>2, ParserSets
  <2>4. Sane(x, "parse")
    BY <2>3, SaneIf
  <2> QED BY <1>1, <1>5, <2>1, <2>4 DEF CheckBodyType
<1> QED BY <1>1, <1>2, <1>3, <1>4, <1>5

(* A loop over fields ends where no line is left.                           *)
LEMMA EndOfLinesTyped ==
  ASSUME TypeInv, EndOfLines
  PROVE  TypeInv'
<1>1. PICK to \in {"parse", "idle"} : Goes(p, to)
  BY DEF EndOfLines
<1> QED BY <1>1, PlaceTyped

(* parseHeaderLine.                                                         *)
LEMMA ParseHeaderLineTyped ==
  ASSUME TypeInv, ParseHeaderLine
  PROVE  TypeInv'
<1>1. p.content_length # -1
  BY DEF ParseHeaderLine, Called, TypeInv, Sane
<1>2. CASE EndOfLines
  BY <1>2, EndOfLinesTyped
<1>3. ASSUME HasLine(p) PROVE
        /\ Line(p) \in Bytes /\ DropLine(p) \in Parser
        /\ Len(DropLine(p).leftover) < SizeMax - 1 /\ DropLine(p).content_length # -1
  BY <1>1, <1>3, DropTyped
<1>4. CASE HasLine(p) /\ Goes(CheckBodyType(DropLine(p)), "parse")
  <2>1. Sane(CheckBodyType(DropLine(p)), "parse")
    BY <1>3, <1>4, CheckBodyTypeTyped
  <2> QED BY <1>4, <2>1, GoesTyped DEF Place
<1>5. CASE HasLine(p) /\ Goes(ParseField(DropLine(p), Line(p)), "header")
                      /\ (p.state = "kHeaderLine" \/ at = "header")
  <2>1. PICK u, x : u = DropLine(p) /\ x = ParseField(u, Line(p))
    OBVIOUS
  <2>2. /\ x \in Parser /\ x.leftover = u.leftover
        /\ x.content_length = u.content_length
        /\ x.state \in {u.state, "kParseComplete"}
    BY <1>3, <1>5, <2>1, ParseFieldTyped
  <2>3. u.state = p.state /\ p.state \in {"kHeaderLine", "kParseComplete"}
    BY <1>5, <2>1, DropTyped DEF TypeInv, Sane
  <2>4. Sane(x, "header")
    BY <1>3, <1>5, <2>1, <2>2, <2>3, SaneIf
  <2> QED BY <1>5, <2>1, <2>4, GoesTyped DEF Place
<1> QED BY <1>2, <1>4, <1>5 DEF ParseHeaderLine, Called

(* parseContentLengthBody: the memory holds less than a size_t can count,   *)
(* so the wait for a body below zero never ends.                            *)
LEMMA ParseContentLengthBodyTyped ==
  ASSUME TypeInv, ParseContentLengthBody
  PROVE  TypeInv'
<1>1. p.state = "kContentLength" /\ p.content_length \in Numbers
  BY DEF ParseContentLengthBody, Called, TypeInv, Sane
<1>2. p \in Parser /\ p.leftover \in Bytes /\ Len(p.leftover) < SizeMax - 1
      /\ Len(p.leftover) \in Nat /\ SizeMax \in Nat /\ p.body \in Bytes
  BY ParserTyped, ParserSets
<1>3. PICK n : n = p.content_length
  OBVIOUS
<1>4. CASE Len(p.leftover) < SizeT(n)
  BY <1>3, <1>4, PlaceTyped DEF ParseContentLengthBody, Again
<1>5. CASE ~(Len(p.leftover) < SizeT(n))
  <2>1. n \in Nat /\ n <= Len(p.leftover)
    <3>1. CASE n = -1
      <4>1. SizeT(n) = SizeMax - 1
        BY <1>2, <3>1 DEF SizeT
      <4> QED BY <1>2, <1>5, <4>1
    <3>2. CASE n # -1
      <4>1. n \in Nat /\ n < SizeMax
        BY <1>1, <1>3, <3>2, NumbersAssumption DEF Numbers
      <4>2. SizeT(n) = n
        BY <1>2, <4>1 DEF SizeT
      <4> QED BY <1>2, <1>5, <4>1, <4>2
    <3> QED BY <3>1, <3>2
  <2>2. PICK l \in Bytes, b \in Bytes :
          /\ l = After(p.leftover, n) /\ b = p.body \o SubSeq(p.leftover, 1, n)
          /\ Len(l) \in Nat /\ Len(l) <= Len(p.leftover)
    <3>1. n \in 0..Len(p.leftover)
      BY <1>2, <2>1
    <3>2. PICK c \in Bytes : c = SubSeq(p.leftover, 1, n)
      BY <1>2, <3>1, CutTyped
    <3>3. p.body \o c \in Bytes
      BY <1>2, Cat DEF Bytes
    <3> QED BY <1>2, <3>1, <3>2, <3>3, CutTyped
  <2>3. PICK u : u = [p EXCEPT !.body = b, !.leftover = l]
    OBVIOUS
  <2>4. PICK x : x = ParseComplete(u, 200)
    OBVIOUS
  <2>5. Goes(ParseComplete([p EXCEPT !.body = @ \o SubSeq(p.leftover, 1, n),
                                     !.leftover = After(@, n)], 200), "parse")
    BY <1>3, <1>5, Zenon DEF ParseContentLengthBody
  <2>6. Goes(x, "parse")
    BY <2>2, <2>3, <2>4, <2>5, Zenon
  <2>7. u \in Parser /\ u.leftover = l
    BY <1>2, <2>3, ParserSets
  <2>8. 200 \in Codes
    BY DEF Codes
  <2>9. x \in Parser /\ x.leftover = l /\ x.state = "kParseComplete"
    BY <2>4, <2>7, <2>8, Completed
  <2>10. Len(x.leftover) < SizeMax - 1
    <3>1. Len(l) < SizeMax - 1
      BY <1>2, <2>2
    <3> QED BY <2>9, <3>1
  <2>11. Sane(x, "parse")
    BY <2>9, <2>10, SaneIf
  <2> QED BY <2>6, <2>11, GoesTyped DEF Place
<1> QED BY <1>4, <1>5

(* parseChunkSize.                                                          *)
LEMMA ParseChunkSizeTyped ==
  ASSUME TypeInv, ParseChunkSize
  PROVE  TypeInv'
<1>1. p.state = "kChunkSize" /\ p.content_length # -1 /\ Has(p, "transfer-encoding")
  BY DEF ParseChunkSize, Called, TypeInv, Sane
<1>2. CASE ~HasLine(p)
  BY <1>2, PlaceTyped DEF ParseChunkSize, Again
<1>3. CASE HasLine(p)
  <2>1. PICK u \in Parser, n \in Numbers :
          /\ u = DropLine(p) /\ n = StrToL(Line(p), Hex)
          /\ Len(u.leftover) < SizeMax - 1 /\ u.headers = p.headers
          /\ u.content_length = p.content_length
    BY <1>3, DropTyped, StrToLTyped
  <2>2. PICK x : x = [u EXCEPT !.chunk_size = n]
    OBVIOUS
  <2>3. n \in Sizes
    BY DEF Sizes
  <2>4. /\ x \in Parser /\ x.leftover = u.leftover /\ x.headers = p.headers
        /\ x.content_length = p.content_length /\ x.chunk_size = n
    BY <2>1, <2>2, <2>3, ParserSets
  <2>5. PICK number : number = /\ Line(p) # <<>>
                               /\ \/ StrEnd(Line(p), Hex) > Len(Line(p))
                                  \/ Line(p)[StrEnd(Line(p), Hex)] = "NUL"
    OBVIOUS
  <2>6. Goes(CASE ~number -> ParseComplete(IF Line(p) = <<>> THEN u ELSE x, 400)
               [] number /\ x.chunk_size = 0 -> [x EXCEPT !.state = "kTrailerField"]
               [] OTHER -> [x EXCEPT !.content_length = @ + x.chunk_size,
                                     !.state = "kChunkData"], "parse")
    BY <1>3, <2>1, <2>2, <2>5, Zenon DEF ParseChunkSize
  <2>7. CASE ~number
    <3>1. PICK v \in Parser : /\ v = IF Line(p) = <<>> THEN u ELSE x
                              /\ v.leftover = u.leftover
      BY <2>1, <2>4
    <3>2. PICK y : y = ParseComplete(v, 400)
      OBVIOUS
    <3>3. Goes(y, "parse")
      BY <2>6, <2>7, <3>1, <3>2
    <3>4. 400 \in Codes
      BY DEF Codes
    <3>5. y \in Parser /\ y.leftover = v.leftover /\ y.state = "kParseComplete"
      BY <3>1, <3>2, <3>4, Completed
    <3>6. Sane(y, "parse")
      BY <2>1, <3>1, <3>5, SaneIf
    <3> QED BY <3>3, <3>6, GoesTyped DEF Place
  <2>8. CASE number /\ n = 0
    <3>1. PICK y : y = [x EXCEPT !.state = "kTrailerField"]
      OBVIOUS
    <3>2. Goes(y, "parse")
      BY <2>4, <2>6, <2>8, <3>1
    <3>3. "kTrailerField" \in ParseState
      BY DEF ParseState
    <3>4. /\ y \in Parser /\ y.leftover = x.leftover /\ y.headers = x.headers
          /\ y.state = "kTrailerField" /\ y.content_length = x.content_length
      BY <2>4, <3>1, <3>3, ParserSets
    <3>5. Has(y, "transfer-encoding")
      BY <1>1, <2>4, <3>4 DEF Has
    <3>6. Sane(y, "parse")
      BY <1>1, <2>1, <2>4, <3>4, <3>5 DEF Sane
    <3> QED BY <3>2, <3>6, GoesTyped DEF Place
  <2>9. CASE number /\ n # 0
    <3>1. PICK k \in Lengths : k = x.content_length + n /\ (k = -1 => n = -1)
      <4>1. x.content_length \in Nat
        BY <1>1, <2>4, ParserTyped DEF Lengths
      <4>2. n \in Int /\ n >= -1
        BY NumbersAssumption DEF Numbers
      <4> QED BY <4>1, <4>2 DEF Lengths
    <3>2. PICK y : y = [x EXCEPT !.content_length = k, !.state = "kChunkData"]
      OBVIOUS
    <3>3. Goes([x EXCEPT !.content_length = @ + x.chunk_size, !.state = "kChunkData"],
               "parse")
      BY <2>4, <2>6, <2>9
    <3>4. Goes(y, "parse")
      BY <2>4, <3>1, <3>2, <3>3, Zenon
    <3>5. "kChunkData" \in ParseState
      BY DEF ParseState
    <3>6. /\ y \in Parser /\ y.leftover = x.leftover /\ y.headers = x.headers
          /\ y.state = "kChunkData" /\ y.content_length = k
          /\ y.chunk_size = x.chunk_size
      BY <2>4, <3>2, <3>5, ParserSets
    <3>7. Has(y, "transfer-encoding")
      BY <1>1, <2>4, <3>6 DEF Has
    <3>8. Sane(y, "parse")
      BY <2>1, <2>4, <3>1, <3>6, <3>7 DEF Sane
    <3> QED BY <3>4, <3>8, GoesTyped DEF Place
  <2> QED BY <2>7, <2>8, <2>9
<1> QED BY <1>2, <1>3

(* parseChunkData: no line is as long as a size below zero.                 *)
LEMMA ParseChunkDataTyped ==
  ASSUME TypeInv, ParseChunkData
  PROVE  TypeInv'
<1>1. /\ p.state = "kChunkData" /\ Has(p, "transfer-encoding")
      /\ p.content_length = -1 => p.chunk_size = -1
  BY DEF ParseChunkData, Called, TypeInv, Sane
<1>2. p \in Parser /\ Len(p.leftover) < SizeMax - 1
  BY ParserTyped
<1>3. CASE ~HasLine(p)
  BY <1>3, PlaceTyped DEF ParseChunkData, Again
<1>4. CASE HasLine(p) /\ Len(Line(p)) # p.chunk_size
  <2>1. PICK x : x = ParseComplete(p, 400)
    OBVIOUS
  <2>2. Goes(x, "parse")
    BY <1>4, <2>1 DEF ParseChunkData
  <2>3. 400 \in Codes
    BY DEF Codes
  <2>4. x \in Parser /\ x.leftover = p.leftover /\ x.state = "kParseComplete"
    BY <1>2, <2>1, <2>3, Completed
  <2>5. Sane(x, "parse")
    BY <1>2, <2>4, SaneIf
  <2> QED BY <2>2, <2>5, GoesTyped DEF Place
<1>5. CASE HasLine(p) /\ Len(Line(p)) = p.chunk_size
  <2>1. PICK u \in Parser, w \in Bytes :
          /\ u = DropLine(p) /\ w = Line(p)
          /\ Len(u.leftover) < SizeMax - 1 /\ u.headers = p.headers
          /\ u.content_length = p.content_length
    BY <1>5, DropTyped
  <2>2. u.content_length # -1
    <3>1. Len(w) \in Nat
      BY LenProperties DEF Bytes
    <3> QED BY <1>1, <1>5, <2>1, <3>1
  <2>3. PICK b \in Bytes : b = u.body \o w
    <3>1. u.body \in Bytes
      BY ParserSets
    <3> QED BY <3>1, Cat DEF Bytes
  <2>4. PICK x : x = [u EXCEPT !.body = b, !.state = "kChunkSize"]
    OBVIOUS
  <2>5. Goes([DropLine(p) EXCEPT !.body = @ \o Line(p), !.state = "kChunkSize"], "parse")
    BY <1>5, Zenon DEF ParseChunkData
  <2>6. Goes(x, "parse")
    BY <2>1, <2>3, <2>4, <2>5, Zenon
  <2>7. "kChunkSize" \in ParseState
    BY DEF ParseState
  <2>8. /\ x \in Parser /\ x.leftover = u.leftover /\ x.headers = u.headers
        /\ x.state = "kChunkSize" /\ x.content_length = u.content_length
    BY <2>4, <2>7, ParserSets
  <2>9. Has(x, "transfer-encoding")
    BY <1>1, <2>1, <2>8 DEF Has
  <2>10. Sane(x, "parse")
    BY <2>1, <2>2, <2>8, <2>9 DEF Sane
  <2> QED BY <2>6, <2>10, GoesTyped DEF Place
<1> QED BY <1>3, <1>4, <1>5

(* A numeral is a token.                                                    *)
LEMMA NumeralTyped ==
  ASSUME NEW n \in Nat
  PROVE  Numeral(n, Decimal) \in Token
<1>1. n # -1 /\ "more" \in Token
  BY TokenAssumption
<1>2. n \in 0..MaxSize => Decimal[n] \in Token
  BY NumbersAssumption DEF IsNumeral, Word
<1> QED BY <1>1, <1>2 DEF Numeral

(* removeChunkedInHeader.                                                   *)
LEMMA RemoveChunkedTyped ==
  ASSUME NEW u \in Parser, Len(u.leftover) < SizeMax - 1,
         u.content_length # -1, Has(u, "transfer-encoding")
  PROVE  Sane(RemoveChunkedInHeader(u), "parse")
<1>1. PICK e \in Bytes : e = Value(u, "transfer-encoding")
  BY ValueTyped
<1>2. PICK pos : pos = Find(e, "chunked")
  OBVIOUS
<1>3. CASE pos = 0
  <2>1. PICK x : x = [u EXCEPT !.state = "thrown"]
    OBVIOUS
  <2>2. "thrown" \in ParseState
    BY DEF ParseState
  <2>3. /\ x \in Parser /\ x.leftover = u.leftover /\ x.state = "thrown"
        /\ x.content_length = u.content_length
    BY <2>1, <2>2, ParserSets
  <2>4. Sane(x, "parse")
    BY <2>3, SaneIf
  <2> QED BY <1>1, <1>2, <1>3, <2>1, <2>4, Zenon DEF RemoveChunkedInHeader
<1>4. CASE pos # 0
  <2>1. PICK left \in Bytes : left = Before(e, pos) \o After(e, pos)
    <3>1. pos \in 1..Len(e)
      BY <1>2, <1>4, FindIn
    <3>2. pos \in 0..Len(e)
      BY <3>1
    <3>3. Before(e, pos) \in Bytes /\ After(e, pos) \in Bytes
      BY <1>4, <3>2, CutTyped
    <3>4. Before(e, pos) \o After(e, pos) \in Bytes
      BY <3>3, Cat DEF Bytes
    <3> QED BY <3>4
  <2>2. PICK n : n = u.content_length
    OBVIOUS
  <2>3. PICK c \in Token : c = Numeral(n, Decimal)
    <3>1. n \in Nat
      <4>1. n \in Lengths
        BY <2>2, ParserSets
      <4> QED BY <2>2, <4>1 DEF Lengths
    <3> QED BY <3>1, NumeralTyped
  <2>4. PICK h \in Headers :
          h = Entered(Entered(u.headers, <<"transfer-encoding">>, left),
                      <<"content-length">>, <<c>>)
    <3>1. PICK a \in Token, b \in Token : a = "transfer-encoding" /\ b = "content-length"
      BY TokenAssumption
    <3>2. <<a>> \in Bytes /\ <<b>> \in Bytes /\ <<c>> \in Bytes
      BY ShortLine DEF Bytes
    <3>3. u.headers \in Headers
      BY ParserSets
    <3>4. Entered(u.headers, <<a>>, left) \in Headers
      BY <3>2, <3>3, EnteredTyped
    <3>5. Entered(Entered(u.headers, <<a>>, left), <<b>>, <<c>>) \in Headers
      BY <3>2, <3>4, EnteredTyped
    <3> QED BY <3>1, <3>5
  <2>5. PICK v : v = [u EXCEPT !.headers = h]
    OBVIOUS
  <2>6. PICK x : x = ParseComplete(v, 200)
    OBVIOUS
  <2>7. v \in Parser /\ v.leftover = u.leftover
    BY <2>5, ParserSets
  <2>8. 200 \in Codes
    BY DEF Codes
  <2>9. x \in Parser /\ x.leftover = u.leftover /\ x.state = "kParseComplete"
    BY <2>6, <2>7, <2>8, Completed
  <2>10. RemoveChunkedInHeader(u) = x
    BY <1>1, <1>2, <1>4, <2>1, <2>2, <2>3, <2>4, <2>5, <2>6, Zenon DEF RemoveChunkedInHeader
  <2>11. Sane(x, "parse")
    BY <2>9, SaneIf
  <2> QED BY <2>10, <2>11
<1> QED BY <1>3, <1>4

(* parseTrailerField.                                                       *)
LEMMA ParseTrailerFieldTyped ==
  ASSUME TypeInv, ParseTrailerField
  PROVE  TypeInv'
<1>1. /\ p.content_length # -1 /\ Has(p, "transfer-encoding")
      /\ p.state \in {"kTrailerField", "kParseComplete"}
  BY DEF ParseTrailerField, Called, TypeInv, Sane
<1>2. CASE EndOfLines
  BY <1>2, EndOfLinesTyped
<1>3. ASSUME HasLine(p) PROVE
        /\ Line(p) \in Bytes /\ DropLine(p) \in Parser /\ DropLine(p).state = p.state
        /\ Len(DropLine(p).leftover) < SizeMax - 1 /\ DropLine(p).content_length # -1
        /\ Has(DropLine(p), "transfer-encoding")
  BY <1>1, <1>3, DropTyped DEF Has
<1>4. CASE HasLine(p) /\ Goes(RemoveChunkedInHeader(DropLine(p)), "parse")
  <2>1. Sane(RemoveChunkedInHeader(DropLine(p)), "parse")
    BY <1>3, <1>4, RemoveChunkedTyped
  <2> QED BY <1>4, <2>1, GoesTyped DEF Place
<1>5. CASE HasLine(p) /\ Goes(ParseField(DropLine(p), Line(p)), "trailer")
  <2>1. PICK u, x : u = DropLine(p) /\ x = ParseField(u, Line(p))
    OBVIOUS
  <2>2. /\ x \in Parser /\ x.leftover = u.leftover
        /\ x.content_length = u.content_length
        /\ x.state \in {u.state, "kParseComplete"} /\ Has(x, "transfer-encoding")
    BY <1>3, <1>5, <2>1, ParseFieldTyped
  <2>3. Sane(x, "trailer")
    BY <1>1, <1>3, <1>5, <2>1, <2>2 DEF Sane
  <2> QED BY <1>5, <2>1, <2>3, GoesTyped DEF Place
<1> QED BY <1>2, <1>4, <1>5 DEF ParseTrailerField

(* validation, and parse() returns.                                         *)
LEMMA CompleteTyped ==
  ASSUME TypeInv, Complete
  PROVE  TypeInv'
<1>1. /\ p.state = "kParseComplete" /\ p' = Validation(p) /\ at' = "serving"
      /\ read' = <<>> /\ UNCHANGED <<rest, sending, repeats, strayed>>
  BY DEF Complete, Called
<1>2. p \in Parser /\ Len(p.leftover) < SizeMax - 1
  BY ParserTyped
<1>3. PICK x \in Parser : /\ x = Validation(p) /\ x.leftover = p.leftover
                          /\ x.state = "kParseComplete"
  <2>1. PICK y : y = [p EXCEPT !.code = 400]
    OBVIOUS
  <2>2. 400 \in Codes
    BY DEF Codes
  <2>3. y \in Parser /\ y.leftover = p.leftover /\ y.state = p.state
    BY <1>2, <2>1, <2>2, ParserSets
  <2>4. Validation(p) \in {p, y}
    BY <2>1 DEF Validation
  <2> QED BY <1>1, <1>2, <2>3, <2>4
<1>4. Sane(x, "serving")
  BY <1>2, <1>3, SaneIf
<1>5. TypeOK'
  BY <1>1, <1>2, <1>3, EmptySeq DEF TypeInv, TypeOK, Place
<1>6. Sane(p, at)'
  BY <1>1, <1>3, <1>4
<1> QED BY <1>5, <1>6 DEF TypeInv

(* A turn of work() with n bytes: those that come, or those of the last.    *)
LEMMA ParseTyped ==
  ASSUME TypeInv, NEW n \in Coming, Parse(n)
  PROVE  TypeInv'
<1>1. PICK a, l : /\ a = Appended(n) /\ l = p.leftover \o a
                  /\ at = "idle" /\ Len(p.leftover) + Len(a) < SizeMax - 1
                  /\ (n = 0 /\ read # <<>>) => repeats < MaxRepeats
                  /\ p' = [p EXCEPT !.leftover = l] /\ at' = "parse" /\ read' = a
                  /\ rest' = After(rest, n)
                  /\ repeats' = IF n = 0 /\ read # <<>> THEN repeats + 1 ELSE repeats
                  /\ sending' = sending /\ strayed' = strayed
  BY DEF Parse
<1>2. /\ read \in Bytes /\ rest \in Bytes /\ repeats \in 0..MaxRepeats
      /\ MaxRepeats \in Nat
  BY NumbersAssumption DEF TypeInv, TypeOK, Bytes
<1>3. n \in 0..Len(rest)
  BY DEF Coming
<1>4. a \in Bytes /\ rest' \in Bytes
  <2>1. After(rest, n) \in Bytes /\ SubSeq(rest, 1, n) \in Bytes
    BY <1>2, <1>3, CutTyped
  <2> QED BY <1>1, <1>2, <2>1 DEF Appended
<1>5. l \in Bytes /\ Len(l) < SizeMax - 1
  <2>1. p.leftover \in Seq(Token) /\ a \in Seq(Token)
    BY <1>4, ParserTyped DEF Bytes
  <2>2. p.leftover \o a \in Seq(Token) /\ Len(p.leftover \o a) = Len(p.leftover) + Len(a)
    BY <2>1, Cat
  <2> QED BY <1>1, <2>2 DEF Bytes
<1>6. PICK x : x = [p EXCEPT !.leftover = l]
  OBVIOUS
<1>7. /\ x \in Parser /\ x.leftover = l /\ x.state = p.state /\ x.headers = p.headers
      /\ x.content_length = p.content_length /\ x.chunk_size = p.chunk_size
  BY <1>5, <1>6, ParserTyped, ParserSets
<1>8. Sane(x, "parse")
  BY <1>1, <1>5, <1>7 DEF TypeInv, Sane, Has
<1>9. repeats' \in 0..MaxRepeats
  BY <1>1, <1>2
<1>10. TypeOK'
  BY <1>1, <1>4, <1>5, <1>6, <1>7, <1>9 DEF TypeInv, TypeOK, Place, Bytes
<1>11. Sane(p, at)'
  BY <1>1, <1>6, <1>8
<1> QED BY <1>10, <1>11 DEF TypeInv

(* clear().                                                                 *)
LEMMA ClearedTyped ==
  ASSUME NEW x, x.leftover \in Bytes, Len(x.leftover) < SizeMax - 1
  PROVE  Cleared(x) \in Parser /\ Cleared(x).leftover = x.leftover /\ Sane(Cleared(x), "idle")
<1>1. /\ <<>> \in Bytes /\ {} \in Headers /\ 0 \in Lengths
      /\ 0 \in Sizes /\ 200 \in Codes /\ "kStartLine" \in ParseState
  BY EmptySeq, NumbersAssumption
  DEF Bytes, Headers, Lengths, Sizes, Numbers, Codes, ParseState
<1>2. PICK y : y = Cleared(x)
  OBVIOUS
<1>3. /\ y \in Parser /\ y.leftover = x.leftover /\ y.state = "kStartLine"
      /\ y.content_length = 0
  BY <1>1, <1>2, ParserSets DEF Cleared
<1>4. Sane(y, "idle")
  BY <1>3, SaneIf
<1> QED BY <1>2, <1>3, <1>4

LEMMA ClearTyped ==
  ASSUME TypeInv, Clear
  PROVE  TypeInv'
<1>1. /\ p' = Cleared(p) /\ at' = "idle" /\ read' = <<>>
      /\ sending' = IF sending = <<>> THEN <<>> ELSE Tail(sending)
      /\ strayed' = (strayed \/ sending = <<>> \/ ~Fits(sending[1]))
      /\ UNCHANGED <<rest, repeats>>
  BY DEF Clear
<1>2. Cleared(p) \in Parser /\ Cleared(p).leftover = p.leftover /\ Sane(Cleared(p), "idle")
  BY ParserTyped, ClearedTyped
<1>3. sending' \in Seq(Messages) /\ Len(sending') <= MaxSending
  <2>1. sending \in Seq(Messages) /\ Len(sending) <= MaxSending
    BY DEF TypeInv, TypeOK
  <2>2. CASE sending = <<>>
    BY <1>1, <2>1, <2>2
  <2>3. CASE sending # <<>>
    <3>1. Tail(sending) \in Seq(Messages) /\ Len(Tail(sending)) = Len(sending) - 1
      BY <2>1, <2>3, HeadTailProperties
    <3>2. Len(sending) \in Nat /\ MaxSending \in Nat
      BY <2>1, LenProperties DEF MaxSending
    <3> QED BY <1>1, <2>1, <2>3, <3>1, <3>2
  <2> QED BY <2>2, <2>3
<1>4. strayed' \in BOOLEAN
  BY <1>1
<1>5. TypeOK'
  BY <1>1, <1>2, <1>3, <1>4, ParserTyped, EmptySeq DEF TypeInv, TypeOK, Place
<1>6. Sane(p, at)'
  BY <1>1, <1>2
<1> QED BY <1>5, <1>6 DEF TypeInv

(* The client sends one more.                                               *)
LEMMA SendTyped ==
  ASSUME TypeInv, NEW m \in Messages, Send(m)
  PROVE  TypeInv'
<1>1. /\ Len(sending) < MaxSending /\ sending' = Append(sending, m)
      /\ rest' = rest \o Text(m) /\ UNCHANGED <<p, at, read, repeats, strayed>>
  BY DEF Send
<1>2. sending \in Seq(Messages) /\ rest \in Seq(Token) /\ Text(m) \in Seq(Token)
  BY TextSeq DEF TypeInv, TypeOK
<1>3. rest' \in Seq(Token)
  BY <1>1, <1>2, Cat
<1>4. sending' \in Seq(Messages) /\ Len(sending') <= MaxSending
  <2>1. Append(sending, m) \in Seq(Messages) /\ Len(Append(sending, m)) = Len(sending) + 1
    BY <1>2, AppendProperties
  <2>2. Len(sending) \in Nat /\ MaxSending \in Nat
    BY <1>2, LenProperties DEF MaxSending
  <2> QED BY <1>1, <2>1, <2>2
<1>5. TypeOK'
  BY <1>1, <1>3, <1>4 DEF TypeInv, TypeOK
<1>6. Sane(p, at)'
  BY <1>1 DEF TypeInv, Sane, Has
<1> QED BY <1>5, <1>6 DEF TypeInv

(* Every step keeps the types.                                              *)
LEMMA TypeKept ==
  TypeInv /\ [Next]_vars => TypeInv'
<1> SUFFICES ASSUME TypeInv, [Next]_vars PROVE TypeInv'
  OBVIOUS
<1>1. CASE SkipCrlf("kStartLine", "kMethod") \/ SkipCrlf("kBetweenHeaderStart", "kHeaderLine")
  BY <1>1, SkipTyped
<1>2. CASE ParseMethod
  BY <1>2, ParseMethodTyped
<1>3. CASE ParseUri
  BY <1>3, ParseUriTyped
<1>4. CASE ParseProtocol
  BY <1>4, ParseProtocolTyped
<1>5. CASE ParseHeaderLine
  BY <1>5, ParseHeaderLineTyped
<1>6. CASE ParseContentLengthBody
  BY <1>6, ParseContentLengthBodyTyped
<1>7. CASE ParseChunkSize
  BY <1>7, ParseChunkSizeTyped
<1>8. CASE ParseChunkData
  BY <1>8, ParseChunkDataTyped
<1>9. CASE ParseTrailerField
  BY <1>9, ParseTrailerFieldTyped
<1>10. CASE Complete
  BY <1>10, CompleteTyped
<1>11. CASE \E n \in Coming : Parse(n)
  BY <1>11, ParseTyped
<1>12. CASE Clear
  BY <1>12, ClearTyped
<1>13. CASE \E m \in Messages : Send(m)
  BY <1>13, SendTyped
<1>14. CASE UNCHANGED vars
  BY <1>14 DEF vars, TypeInv, TypeOK, Sane, Has
<1> QED
  BY <1>1, <1>2, <1>3, <1>4, <1>5, <1>6, <1>7, <1>8, <1>9, <1>10, <1>11, <1>12,
     <1>13, <1>14 DEF Next

-----------------------------------------------------------------------------
(* Bytes put into leftover_ change nothing else.                            *)
LEMMA OnlyLeftover ==
  ASSUME p \in Parser, NEW l \in Bytes, p' = [p EXCEPT !.leftover = l]
  PROVE  Alike /\ p' \in Parser /\ p'.leftover = l
<1>1. /\ p' \in Parser /\ p'.leftover = l
      /\ p'.state = p.state /\ p'.code = p.code
      /\ p'.method = p.method /\ p'.uri = p.uri /\ p'.protocol = p.protocol
      /\ p'.headers = p.headers /\ p'.body = p.body
      /\ p'.content_length = p.content_length /\ p'.chunk_size = p.chunk_size
  BY ParserSets
<1>2. PICK x : x = p'
  OBVIOUS
<1>3. p = Cleared(p) => x = Cleared(x)
  BY <1>2, ClearedMoves
<1>4. ASSUME p = [Cleared(p) EXCEPT !.state = "kMethod"]
      PROVE  x = [Cleared(x) EXCEPT !.state = "kMethod"]
  <2>1. PICK q : q = Cleared(p)
    OBVIOUS
  <2>2. p = [q EXCEPT !.state = "kMethod"]
    BY <1>4, <2>1, Zenon
  <2>3. q = Cleared(q)
    BY <2>1 DEF Cleared
  <2>4. PICK r : r = [q EXCEPT !.leftover = l]
    OBVIOUS
  <2>5. r = Cleared(r)
    BY <2>3, <2>4, ClearedMoves
  <2>6. x = [r EXCEPT !.state = "kMethod"]
    BY <1>2, <2>2, <2>4
  <2>7. x.leftover = r.leftover
    BY <2>6
  <2>8. Cleared(x) = r
    BY <2>5, <2>7, Zenon DEF Cleared
  <2> QED BY <2>6, <2>8, Zenon
<1> QED BY <1>1, <1>2, <1>3, <1>4 DEF Alike

(* Parse: bytes go from the stream to leftover_, each of them once.         *)
LEMMA ParseKeeps ==
  ASSUME Inv, NEW n \in Coming, Parse(n), Track'
  PROVE  InStep'
<1>1. /\ at = "idle" /\ p.leftover \o Appended(n) # <<>>
      /\ p' = [p EXCEPT !.leftover = @ \o Appended(n)]
      /\ at' = "parse" /\ rest' = After(rest, n) /\ sending' = sending
      /\ n = 0 /\ read # <<>> => repeats' = repeats + 1
  BY DEF Parse
<1>2. /\ p \in Parser /\ rest \in Seq(Token) /\ sending \in Seq(Messages)
      /\ n \in 0..Len(rest)
  BY DEF Inv, TypeInv, TypeOK, Coming
<1>3. Appended(n) = SubSeq(rest, 1, n)
  <2>1. CASE n = 0
    <3>1. read = <<>>
      BY <1>1, <2>1 DEF Inv, Track
    <3> QED BY <1>2, <2>1, <3>1 DEF Appended
  <2> QED BY <2>1 DEF Appended
<1>4. PICK r \in Seq(Token), a \in Seq(Token), b \in Seq(Token) :
        /\ r = p.leftover /\ a = SubSeq(rest, 1, n) /\ b = After(rest, n)
        /\ rest = a \o b
  <2>1. p.leftover \in Seq(Token)
    BY <1>2 DEF Parser
  <2>2. Len(rest) \in Nat /\ n \in Nat /\ n <= Len(rest)
    BY <1>2, LenProperties
  <2>3. SubSeq(rest, 1, n) \in Seq(Token) /\ SubSeq(rest, n + 1, Len(rest)) \in Seq(Token)
    BY <1>2, <2>2, SubSeqProperties
  <2>4. SubSeq(rest, 1, n) \o SubSeq(rest, n + 1, Len(rest)) = rest
    <3>1. 1 \in 1..(Len(rest) + 1) /\ n \in (1 - 1)..Len(rest) /\ Len(rest) \in n..Len(rest)
      BY <2>2
    <3>2. SubSeq(rest, 1, n) \o SubSeq(rest, n + 1, Len(rest)) = SubSeq(rest, 1, Len(rest))
      BY <1>2, <3>1, ConcatAdjacentSubSeq
    <3> QED BY <1>2, <3>2, SubSeqFull
  <2> QED BY <2>1, <2>3, <2>4 DEF After
<1>5. PICK l \in Seq(Token) : l = r \o a
  BY Cat
<1>6. l \o b = r \o rest
  <2>1. (r \o a) \o b = r \o (a \o b)
    BY Assoc, ZenonT(60)
  <2> QED BY <1>4, <1>5, <2>1
<1>7. p' = [p EXCEPT !.leftover = l] /\ rest' = b
  BY <1>1, <1>3, <1>4, <1>5
<1>8. l \in Bytes
  BY DEF Bytes
<1>9. Alike /\ p' \in Parser /\ p'.leftover = l
  BY <1>2, <1>7, <1>8, OnlyLeftover
<1>10. sending # <<>>
  <2>1. SUFFICES ASSUME sending = <<>> PROVE FALSE
    OBVIOUS
  <2>2. p.leftover = <<>> /\ rest = <<>>
    BY <2>1 DEF Inv, InStep
  <2>3. Len(rest) = 0
    BY <2>2
  <2>4. n = 0
    BY <1>2, <2>3
  <2>5. SubSeq(rest, 1, n) = <<>>
    BY <1>2, <2>4
  <2> QED BY <1>1, <1>3, <2>2, <2>5
<1>11. PICK m \in Fitting : m = sending[1]
  <2>1. sending[1] \in Messages
    BY <1>2, <1>10, EmptySeq, ElementOfSeq
  <2> QED BY <1>10, <2>1 DEF Inv, Track, Fitting
<1>12. Placed(m)
  BY <1>10, <1>11 DEF Inv, InStep
<1>13. Following' = Following
  BY <1>1 DEF Following
<1>14. \A y \in Seq(Token) : Remains(y) => Remains(y)'
  BY <1>4, <1>6, <1>7, <1>9, <1>13 DEF Remains
<1>15. Stage(m)'
  BY <1>1, <1>9, <1>12, <1>14, StageKept DEF Placed
<1> QED BY <1>1, <1>10, <1>11, <1>15 DEF InStep, Placed

(* Send: a request more, behind what there is.                              *)
LEMMA SendKeeps ==
  ASSUME Inv, NEW n \in Messages, Send(n), Track'
  PROVE  InStep'
<1>1. /\ Len(sending) < MaxSending /\ sending' = Append(sending, n)
      /\ rest' = rest \o Text(n) /\ p' = p /\ at' = at
  BY DEF Send
<1>2. /\ p \in Parser /\ rest \in Seq(Token) /\ sending \in Seq(Messages)
      /\ Text(n) \in Seq(Token) /\ p.leftover \in Seq(Token)
  BY TextSeq DEF Inv, TypeInv, TypeOK, Parser
<1>3. Len(sending) \in {0, 1} /\ Len(sending') = Len(sending) + 1
      /\ sending' \in Seq(Messages) /\ sending' # <<>> /\ sending'[Len(sending) + 1] = n
      /\ \A i \in 1..Len(sending) : sending'[i] = sending[i]
  <2>1. /\ sending' \in Seq(Messages) /\ sending' # <<>>
        /\ Len(sending') = Len(sending) + 1 /\ sending'[Len(sending) + 1] = n
        /\ \A i \in 1..Len(sending) : sending'[i] = sending[i]
    <3>1. PICK s \in Seq(Messages) : s = sending
      BY <1>2
    <3>2. /\ Append(s, n) \in Seq(Messages) /\ Append(s, n) # <<>>
          /\ Len(Append(s, n)) = Len(s) + 1 /\ Append(s, n)[Len(s) + 1] = n
          /\ \A i \in 1..Len(s) : Append(s, n)[i] = s[i]
      BY AppendProperties
    <3> QED BY <1>1, <3>1, <3>2, Zenon
  <2>2. PICK k \in Nat : k = Len(sending)
    BY <1>2, LenProperties
  <2>3. k < 2
    BY <1>1, <2>2 DEF MaxSending
  <2> QED BY <2>1, <2>2, <2>3
<1>4. CASE Len(sending) = 0
  <2>1. sending = <<>>
    BY <1>2, <1>4, EmptySeq
  <2>2. at = "idle" /\ p = Cleared(p) /\ p.leftover = <<>> /\ rest = <<>>
    BY <2>1 DEF Inv, InStep
  <2>3. sending'[1] = n /\ Len(sending') = 1 /\ sending' # <<>>
    BY <1>1, <1>3, <1>4, <2>1
  <2>4. Following' = <<>>
    BY <2>3 DEF Following
  <2>5. p'.leftover \o rest' = Text(n) /\ Text(n) = Text(n) \o <<>>
    BY <1>1, <1>2, <2>2, ConcatEmptySeq
  <2>6. AtStartLine(n)'
    BY <1>1, <2>2, <2>4, <2>5 DEF AtStartLine, Remains
  <2>7. p.state = "kStartLine"
    BY <2>2 DEF Cleared
  <2>8. Placed(n)'
    BY <1>1, <2>2, <2>6, <2>7 DEF Placed, Stage
  <2> QED BY <2>3, <2>8 DEF InStep
<1>5. CASE Len(sending) = 1
  <2>1. /\ sending # <<>> /\ sending[1] \in Messages /\ sending' # <<>>
        /\ sending'[1] = sending[1] /\ sending'[2] = n /\ Len(sending') = 2
    BY <1>1, <1>2, <1>3, <1>5
  <2>2. PICK m \in Fitting : m = sending[1]
    BY <2>1 DEF Inv, Track, Fitting
  <2>3. Placed(m)
    BY <2>1, <2>2 DEF Inv, InStep
  <2>4. Following = <<>> /\ Following' = Text(n)
    BY <1>5, <2>1 DEF Following
  <2>5. ASSUME NEW y \in Seq(Token), Remains(y) PROVE Remains(y)'
    <3>1. p.leftover \o rest = y
      BY <2>4, <2>5, ConcatEmptySeq DEF Remains
    <3>2. p.leftover \o (rest \o Text(n)) = y \o Text(n)
      BY <1>2, <3>1, Assoc, ZenonT(60)
    <3> QED BY <1>1, <2>4, <3>2 DEF Remains
  <2>6. Alike
    BY <1>1 DEF Alike
  <2>7. /\ Stage(m) => Stage(m)'
        /\ AtHeader(m) => AtHeader(m)'
        /\ AtTrailer(m) => AtTrailer(m)'
        /\ AtEnd(m) => AtEnd(m)'
    BY <2>5, <2>6, StageKept
  <2>8. Placed(m)'
    BY <1>1, <2>3, <2>7 DEF Placed, Valid
  <2> QED BY <2>1, <2>2, <2>8 DEF InStep
<1> QED BY <1>3, <1>4, <1>5

(* clear(): the next request is already in leftover_ and on the way, or not.*)
LEMMA ClearKeeps ==
  ASSUME Inv, Clear, Track'
  PROVE  InStep'
<1>1. /\ at = "serving" /\ p.code = 200 /\ p' = Cleared(p) /\ at' = "idle"
      /\ sending' = IF sending = <<>> THEN <<>> ELSE Tail(sending)
      /\ rest' = rest /\ read' = <<>>
  BY DEF Clear, KeepsAlive
<1>2. /\ sending # <<>> /\ Placed(sending[1]) /\ p \in Parser
      /\ p.leftover \in Seq(Token) /\ rest \in Seq(Token) /\ Following \in Seq(Token)
  BY <1>1, Begun
<1>3. sending \in Seq(Messages) /\ Len(sending) <= MaxSending
  BY DEF Inv, TypeInv, TypeOK
<1>4. Remains(<<>>)
  BY <1>1, <1>2 DEF Placed, AtEnd, Taken
<1>5. p.leftover \o rest = Following
  BY <1>2, <1>4, ConcatEmptySeq DEF Remains
<1>6. Len(sending) \in {1, 2}
  <2>1. PICK k \in Nat \ {0} : k = Len(sending)
    BY <1>2, <1>3, EmptySeq
  <2>2. k <= 2
    BY <1>3, <2>1 DEF MaxSending
  <2> QED BY <2>1, <2>2
<1>7. /\ sending' \in Seq(Messages) /\ Len(sending') = Len(sending) - 1
      /\ \A i \in 1..Len(sending') : sending'[i] = sending[i + 1]
  BY <1>1, <1>2, <1>3, HeadTailProperties
<1>8. p'.leftover = p.leftover /\ p'.state = "kStartLine"
  BY <1>1 DEF Cleared
<1>9. p' = Cleared(p')
  BY <1>1, <1>8, Zenon DEF Cleared
<1>10. CASE Len(sending) = 1
  <2>1. sending' = <<>> /\ Following = <<>>
    BY <1>7, <1>10, EmptySeq DEF Following
  <2>2. p.leftover = <<>> /\ rest = <<>>
    BY <1>2, <1>5, <2>1
  <2> QED BY <1>1, <1>8, <1>9, <2>1, <2>2 DEF InStep
<1>11. CASE Len(sending) = 2
  <2>1. sending'[1] = sending[2] /\ Len(sending') = 1 /\ sending' # <<>>
    <3>1. Len(sending') = 1
      BY <1>7, <1>11
    <3>2. 1 \in 1..Len(sending')
      BY <3>1
    <3>3. sending'[1] = sending[1 + 1]
      BY <1>7, <3>2
    <3>4. sending' # <<>>
      BY <3>1, EmptySeq
    <3> QED BY <3>1, <3>3, <3>4
  <2>2. PICK m : m = sending[2]
    OBVIOUS
  <2>3. Following = Text(m) /\ Following' = <<>>
    BY <1>11, <2>1, <2>2 DEF Following
  <2>4. Remains(Text(m))'
    BY <1>1, <1>2, <1>5, <1>8, <2>3, ConcatEmptySeq DEF Remains
  <2>5. AtStartLine(m)'
    BY <1>9, <2>4 DEF AtStartLine
  <2>6. Placed(m)'
    BY <1>1, <1>8, <2>5 DEF Placed, Stage
  <2> QED BY <2>1, <2>2, <2>6 DEF InStep
<1> QED BY <1>6, <1>10, <1>11

(* The headers of a request as it is delivered: the parser's own two, and   *)
(* every other of the request.                                              *)
LEMMA DeliveredHeaders ==
  ASSUME NEW m \in Fitting, NEW t, t \notin {"transfer-encoding", "content-length"}
  PROVE  \A h : h \in HeadersDelivered(m) /\ h.name = <<t>> <=>
                h \in AllHeaders(m) /\ h.name = <<t>>
<1>1. PICK a, b, c, d, e :
        /\ a = <<"transfer-encoding">> /\ b = <<"content-length">> /\ c = <<t>>
        /\ d = <<>> /\ e = <<Decimal[Len(m.body)]>>
  OBVIOUS
<1>2. a # c /\ b # c
  BY <1>1
<1>3. ASSUME NEW H, NEW h
      PROVE  h \in Entered(Entered(H, a, d), b, e) /\ h.name = c <=> h \in H /\ h.name = c
  BY <1>2 DEF Entered
<1>4. HeadersDelivered(m) = IF m.framing = "chunked"
                            THEN Entered(Entered(AllHeaders(m), a, d), b, e)
                            ELSE AllHeaders(m)
  BY <1>1, Zenon DEF HeadersDelivered
<1> QED BY <1>1, <1>3, <1>4

(* validation, of a request that was taken whole: its headers say whether   *)
(* it names a host and asks for a connection there is.                      *)
LEMMA ValidationTells ==
  ASSUME NEW m \in Fitting, p.headers = HeadersDelivered(m)
  PROVE  /\ Has(p, "host") => Named(m, "host") # {}
         /\ Named(m, "host") # {} /\ Sound(m, Len(m.fields)) => Has(p, "host")
         /\ Has(p, "connection") =>
              /\ \E h \in AllHeaders(m) :
                   h.name = <<"connection">> /\ h.value = Value(p, "connection")
              /\ \A h \in AllHeaders(m) :
                   h.name = <<"connection">> => h.value = Value(p, "connection")
         /\ (\E h \in AllHeaders(m) : h.name = <<"connection">>) => Has(p, "connection")
<1>1. Len(m.fields) \in Nat
  BY MessageTyped DEF MessageType
<1>2. \A h : h \in p.headers /\ h.name = <<"host">> <=>
             h \in AllHeaders(m) /\ h.name = <<"host">>
  BY DeliveredHeaders
<1>3. \A h : h \in p.headers /\ h.name = <<"connection">> <=>
             h \in AllHeaders(m) /\ h.name = <<"connection">>
  BY DeliveredHeaders
<1>4. ASSUME Has(p, "host") PROVE Named(m, "host") # {}
  <2>1. PICK h \in AllHeaders(m) : h.name = <<"host">>
    BY <1>2, <1>4 DEF Has
  <2>2. PICK i \in 1..Len(m.fields) :
          FieldOK(m.fields[i]) /\ h.name = Lower(m.fields[i].name)
    BY <1>1, <2>1, HeadersFrom DEF AllHeaders
  <2>3. i \in Named(m, "host")
    BY <2>1, <2>2 DEF Named, FieldOK
  <2> QED BY <2>3
<1>5. ASSUME Named(m, "host") # {}, Sound(m, Len(m.fields)) PROVE Has(p, "host")
  <2>1. PICK i \in 1..Len(m.fields) :
          m.fields[i].colon /\ Lower(m.fields[i].name) = <<"host">>
    BY <1>5 DEF Named
  <2>2. FieldOK(m.fields[i])
    BY <1>5, <2>1 DEF Sound, FieldOK
  <2>3. PICK h \in AllHeaders(m) : h.name = Lower(m.fields[i].name)
    BY <1>1, <2>2, HeadersCover DEF AllHeaders
  <2> QED BY <1>2, <2>1, <2>3 DEF Has
<1>6. ASSUME Has(p, "connection")
      PROVE  /\ \E h \in AllHeaders(m) :
                  h.name = <<"connection">> /\ h.value = Value(p, "connection")
             /\ \A h \in AllHeaders(m) :
                  h.name = <<"connection">> => h.value = Value(p, "connection")
  <2>1. PICK g : /\ g = CHOOSE h \in p.headers : h.name = <<"connection">>
                 /\ g.value = Value(p, "connection")
    BY DEF Value
  <2>2. g \in p.headers /\ g.name = <<"connection">>
    BY <1>6, <2>1 DEF Has
  <2>3. g \in AllHeaders(m)
    BY <1>3, <2>2
  <2>4. ASSUME NEW h \in AllHeaders(m), h.name = <<"connection">> PROVE h = g
    BY <1>1, <2>2, <2>3, <2>4, HeadersUnique DEF AllHeaders
  <2> QED BY <2>1, <2>2, <2>3, <2>4
<1>7. (\E h \in AllHeaders(m) : h.name = <<"connection">>) => Has(p, "connection")
  BY <1>3 DEF Has
<1> QED BY <1>4, <1>5, <1>6, <1>7

(* validation, and parse() returns SUCCESS.                                 *)
LEMMA CompleteKeeps ==
  ASSUME Inv, Complete
  PROVE  InStep'
<1>1. /\ at = "parse" /\ p.state = "kParseComplete" /\ p' = Validation(p)
      /\ at' = "serving" /\ rest' = rest /\ sending' = sending
  BY DEF Complete, Called
<1>2. PICK m \in Fitting : m = sending[1] /\ AtEnd(m)
  BY <1>1, Begun DEF Placed, Stage
<1>3. p \in Parser /\ sending # <<>>
  BY <1>1, Begun
<1>4. Following' = Following
  BY <1>1 DEF Following
<1>5. SUFFICES Placed(m)'
  BY <1>1, <1>2, <1>3 DEF InStep
<1>6. PICK bad : bad = \/ ~Has(p, "host")
                       \/ /\ Has(p, "connection")
                          /\ Value(p, "connection") \notin {<<"keep-alive">>, <<"close">>}
  OBVIOUS
<1>7. Validation(p) = IF p.code = 200 /\ bad THEN [p EXCEPT !.code = 400] ELSE p
  BY <1>6, Zenon DEF Validation
<1>8. CASE p.code # 200
  <2>1. p' = p
    BY <1>1, <1>7, <1>8
  <2>2. AtEnd(m)' /\ p'.code # 200
    BY <1>2, <1>8, <2>1 DEF AtEnd
  <2> QED BY <1>1, <2>1, <2>2 DEF Placed
<1>9. CASE p.code = 200
  <2>1. Taken(m)
    BY <1>2, <1>9 DEF AtEnd
  <2>2. /\ Has(p, "host") => Named(m, "host") # {}
        /\ Named(m, "host") # {} /\ Sound(m, Len(m.fields)) => Has(p, "host")
        /\ Has(p, "connection") =>
             /\ \E h \in AllHeaders(m) :
                  h.name = <<"connection">> /\ h.value = Value(p, "connection")
             /\ \A h \in AllHeaders(m) :
                  h.name = <<"connection">> => h.value = Value(p, "connection")
        /\ (\E h \in AllHeaders(m) : h.name = <<"connection">>) => Has(p, "connection")
    BY <2>1, ValidationTells DEF Taken
  <2>3. CASE bad
    <3>1. PICK x : x = [p EXCEPT !.code = 400]
      OBVIOUS
    <3>2. 400 \in Codes
      BY DEF Codes
    <3>3. x \in Parser /\ x.code = 400 /\ x.state = p.state
      BY <1>3, <3>1, <3>2, ParserSets
    <3>4. p' = x
      BY <1>1, <1>7, <1>9, <2>3, <3>1
    <3>5. ~WellFormed(m)
      <4>1. SUFFICES ASSUME WellFormed(m) PROVE FALSE
        OBVIOUS
      <4>2. ~Faulty(m)
        BY <4>1 DEF WellFormed
      <4>3. Sound(m, Len(m.fields)) /\ Named(m, "host") # {}
        BY <4>2 DEF Faulty, Sound, Known
      <4>4. \A h \in AllHeaders(m) :
              h.name = <<"connection">> => h.value \in {<<"keep-alive">>, <<"close">>}
        BY <4>2 DEF Faulty
      <4> QED BY <1>6, <2>2, <2>3, <4>3, <4>4
    <3>6. AtEnd(m)' /\ p'.code # 200
      BY <3>3, <3>4, <3>5 DEF AtEnd
    <3> QED BY <1>1, <3>3, <3>4, <3>6 DEF Placed
  <2>4. CASE ~bad
    <3>1. p' = p
      BY <1>1, <1>7, <2>4
    <3>2. Taken(m)'
      BY <1>1, <1>4, <2>1, <3>1 DEF Taken, Asked, Remains
    <3>3. Valid(m)
      BY <1>6, <2>2, <2>4 DEF Valid
    <3> QED BY <1>1, <1>9, <3>1, <3>2, <3>3 DEF Placed, AtEnd, Valid
  <2> QED BY <2>3, <2>4
<1> QED BY <1>8, <1>9

-----------------------------------------------------------------------------
(* The invariant of the initial state.                                      *)
LEMMA InitInv ==
  ASSUME Init
  PROVE  IInv
<1>1. PICK x : x = [leftover |-> <<>>]
  OBVIOUS
<1>2. /\ p = Cleared(x) /\ at = "idle" /\ read = <<>> /\ rest = <<>>
      /\ sending = <<>> /\ repeats = 0 /\ strayed = FALSE
  BY <1>1 DEF Init
<1>3. x.leftover = <<>> /\ x.leftover \in Bytes /\ Len(x.leftover) < SizeMax - 1
  BY <1>1, EmptySeq, NumbersAssumption DEF Bytes
<1>4. p \in Parser /\ p.leftover = <<>> /\ Sane(p, at)
  BY <1>2, <1>3, ClearedTyped
<1>5. TypeOK
  <2>1. Len(p.leftover) < SizeMax - 1
    BY <1>3, <1>4
  <2>2. 0 \in 0..MaxRepeats
    BY NumbersAssumption
  <2>3. sending \in Seq(Messages) /\ Len(sending) <= MaxSending
    BY <1>2, EmptySeq DEF MaxSending
  <2>4. read \in Seq(Token) /\ rest \in Seq(Token)
    BY <1>2, EmptySeq
  <2> QED BY <1>2, <1>4, <2>1, <2>2, <2>3, <2>4 DEF TypeOK, Place
<1>6. p = Cleared(p)
  BY <1>2, <1>3, <1>4, Zenon DEF Cleared
<1>7. InStep
  BY <1>2, <1>4, <1>6 DEF InStep
<1> QED BY <1>4, <1>5, <1>7 DEF IInv, TypeInv

(* What went off the track comes back to it never.                          *)
LEMMA TrackBack ==
  ASSUME TypeInv, Next, Track'
  PROVE  Track
<1>1. CASE /\ repeats' = repeats /\ strayed' = strayed /\ sending' = sending
  BY <1>1 DEF Track
<1>2. CASE \E x, to : Goes(x, to)
  <2>1. repeats' = repeats /\ strayed' = strayed /\ sending' = sending
    BY <1>2 DEF Goes
  <2> QED BY <1>1, <2>1
<1>3. ASSUME NEW n \in Coming, Parse(n) PROVE Track
  <2>1. /\ repeats' \in {repeats, repeats + 1} /\ strayed' = strayed /\ sending' = sending
    BY <1>3 DEF Parse
  <2>2. repeats \in Nat
    BY NumbersAssumption DEF TypeInv, TypeOK
  <2> QED BY <2>1, <2>2 DEF Track
<1>4. CASE Clear
  BY <1>4 DEF Clear, Track
<1>5. ASSUME NEW m \in Messages, Send(m) PROVE Track
  <2>1. /\ repeats' = repeats /\ strayed' = strayed /\ sending' = Append(sending, m)
        /\ sending \in Seq(Messages)
    BY <1>5 DEF Send, TypeInv, TypeOK
  <2>2. sending # <<>> => sending'[1] = sending[1] /\ sending' # <<>>
    <3>1. ASSUME sending # <<>> PROVE sending'[1] = sending[1] /\ sending' # <<>>
      <4>1. Len(sending) \in Nat \ {0}
        BY <2>1, <3>1, EmptySeq
      <4>2. 1 \in 1..Len(sending)
        BY <4>1
      <4>3. Append(sending, m)[1] = sending[1] /\ Append(sending, m) # <<>>
        BY <2>1, <4>2, AppendProperties
      <4> QED BY <2>1, <4>3
    <3> QED BY <3>1
  <2> QED BY <2>1, <2>2 DEF Track
<1>6. CASE Complete
  BY <1>1, <1>6 DEF Complete
<1>7. CASE \/ SkipCrlf("kStartLine", "kMethod") \/ SkipCrlf("kBetweenHeaderStart", "kHeaderLine")
           \/ ParseProtocol \/ ParseHeaderLine \/ ParseTrailerField
  <2>1. \E x, to : Goes(x, to)
    BY <1>7, Zenon DEF SkipCrlf, ParseProtocol, ParseHeaderLine, ParseTrailerField, Again,
                      EndOfLines
  <2> QED BY <1>2, <2>1
<1>8. CASE ParseMethod \/ ParseUri \/ ParseContentLengthBody
  <2>1. \E x, to : Goes(x, to)
    BY <1>8, ZenonT(40) DEF ParseMethod, ParseUri, ParseContentLengthBody, Again
  <2> QED BY <1>2, <2>1
<1>9. CASE ParseChunkSize \/ ParseChunkData
  <2>1. \E x, to : Goes(x, to)
    BY <1>9, ZenonT(40) DEF ParseChunkSize, ParseChunkData, Again
  <2> QED BY <1>2, <2>1
<1> QED BY <1>3, <1>4, <1>5, <1>6, <1>7, <1>8, <1>9 DEF Next

(* On the track every action keeps the parser in step, and gives up the     *)
(* thread only to wait for what is to come.                                 *)
LEMMA NextKeeps ==
  ASSUME Inv, Next
  PROVE  (Track' => InStep') /\ Waits
<1>1. CASE SkipCrlf("kStartLine", "kMethod")
  BY <1>1, SkipLeadKeeps
<1>2. CASE ParseMethod
  BY <1>2, ParseMethodKeeps
<1>3. CASE ParseUri
  BY <1>3, ParseUriKeeps
<1>4. CASE ParseProtocol
  BY <1>4, ParseProtocolKeeps
<1>5. CASE SkipCrlf("kBetweenHeaderStart", "kHeaderLine")
  BY <1>5, SkipBetweenKeeps
<1>6. CASE ParseHeaderLine
  BY <1>6, ParseHeaderLineKeeps
<1>7. CASE ParseContentLengthBody
  BY <1>7, ParseContentLengthBodyKeeps
<1>8. CASE ParseChunkSize
  BY <1>8, ParseChunkSizeKeeps
<1>9. CASE ParseChunkData
  BY <1>9, ParseChunkDataKeeps
<1>10. CASE ParseTrailerField
  BY <1>10, ParseTrailerFieldKeeps
<1>11. CASE Complete
  BY <1>11, CompleteKeeps DEF Complete, Waits
<1>12. ASSUME NEW n \in Coming, Parse(n) PROVE (Track' => InStep') /\ Waits
  BY <1>12, ParseKeeps DEF Parse, Waits
<1>13. CASE Clear
  BY <1>13, ClearKeeps DEF Clear, Waits
<1>14. ASSUME NEW m \in Messages, Send(m) PROVE (Track' => InStep') /\ Waits
  BY <1>14, SendKeeps DEF Send, Waits
<1> QED
  BY <1>1, <1>2, <1>3, <1>4, <1>5, <1>6, <1>7, <1>8, <1>9, <1>10, <1>11, <1>12,
     <1>13, <1>14 DEF Next

(* So does a step of nobody.                                                *)
LEMMA StutterKeeps ==
  ASSUME Inv, UNCHANGED vars
  PROVE  InStep'
<1>1. /\ p' = p /\ at' = at /\ rest' = rest /\ sending' = sending /\ read' = read
  BY DEF vars
<1>2. Following' = Following
  BY <1>1 DEF Following
<1>3. CASE sending = <<>>
  BY <1>1, <1>3 DEF Inv, InStep
<1>4. CASE sending # <<>>
  <2>1. PICK m \in Fitting : m = sending[1]
    BY <1>4, EmptySeq, ElementOfSeq DEF Inv, TypeInv, TypeOK, Track, Fitting
  <2>2. Placed(m)
    BY <1>4, <2>1 DEF Inv, InStep
  <2>3. \A y \in Seq(Token) : Remains(y) => Remains(y)'
    BY <1>1, <1>2 DEF Remains
  <2>4. /\ Stage(m) => Stage(m)'
        /\ AtHeader(m) => AtHeader(m)'
        /\ AtTrailer(m) => AtTrailer(m)'
        /\ AtEnd(m) => AtEnd(m)'
    BY <1>1, <2>3, StageKept DEF Alike
  <2>5. Placed(m)'
    BY <1>1, <2>2, <2>4 DEF Placed, Valid
  <2> QED BY <1>1, <1>4, <2>1, <2>5 DEF InStep
<1> QED BY <1>3, <1>4

(* Every step keeps the invariant.                                          *)
LEMMA StepKeeps ==
  IInv /\ [Next]_vars => IInv' /\ [Waits]_vars
<1>1. ASSUME IInv, Next PROVE IInv' /\ Waits
  <2>1. TypeInv'
    BY <1>1, TypeKept DEF IInv
  <2>2. Track => Inv
    BY <1>1 DEF IInv, Inv
  <2>3. Track' => InStep'
    BY <1>1, <2>2, TrackBack, NextKeeps DEF IInv
  <2>4. Waits
    <3>1. CASE Track
      BY <1>1, <2>2, <3>1, NextKeeps
    <3>2. CASE ~Track
      BY <3>2 DEF Track, OnTrack, Waits
    <3> QED BY <3>1, <3>2
  <2> QED BY <2>1, <2>3, <2>4 DEF IInv
<1>2. ASSUME IInv, UNCHANGED vars PROVE IInv'
  <2>1. TypeInv'
    BY <1>2, TypeKept DEF IInv
  <2>2. Track' => Track
    BY <1>2 DEF vars, Track
  <2>3. Track => InStep'
    BY <1>2, StutterKeeps DEF IInv, Inv
  <2> QED BY <2>1, <2>2, <2>3 DEF IInv
<1> QED BY <1>1, <1>2

(* The invariant holds in every state, and no call that waits has all of    *)
(* a well-formed request.                                                   *)
THEOREM Invariance == Spec => []IInv /\ [][Waits]_vars
<1>1. Init => IInv
  BY InitInv
<1>2. IInv /\ [Next]_vars => IInv' /\ [Waits]_vars
  BY StepKeeps
<1> QED BY <1>1, <1>2, PTL DEF Spec

(* The fields of the parser keep their types, whatever bytes come, were     *)
(* they appended once or again (RequestMessage.hpp:33-79): content_length_  *)
(* is never below -1, no access of the parser fails, and leftover_ fits the *)
(* memory.                                                                  *)
THEOREM ParserTypeCorrect == Spec => []TypeOK
<1>1. IInv => TypeOK
  BY DEF IInv, TypeInv
<1> QED BY <1>1, Invariance, PTL

(* What the invariant says when a reply is made.                            *)
LEMMA Serving ==
  ASSUME IInv, at = "serving", OnTrack
  PROVE  /\ AtEnd(sending[1])
         /\ p.code = 200 => Valid(sending[1])
         /\ p.leftover \in Seq(Token) /\ rest \in Seq(Token) /\ Following \in Seq(Token)
<1>1. Inv
  BY DEF IInv, Inv, Track, OnTrack
<1> QED BY <1>1, Begun DEF Placed

(* A well-formed request is delivered as its client composed it, however    *)
(* the reads cut the stream, whatever the bytes, the fields, the chunks and *)
(* the bytes behind it, if no turn of work() has appended bytes again       *)
(* (Connection.cpp:56) and nothing but requests came before                 *)
(* (RequestMessage::parse).                                                 *)
THEOREM RequestDeliveredAlways == Spec => []RequestDelivered
<1>1. IInv => RequestDelivered
  <2>1. SUFFICES ASSUME IInv, at = "serving", OnTrack, WellFormed(sending[1])
                 PROVE  LET m == sending[1] IN
                        /\ p.code = 200
                        /\ p.method = <<m.method>> /\ p.uri = <<m.uri>>
                        /\ p.protocol = <<m.protocol>>
                        /\ p.body = m.body /\ p.headers = HeadersDelivered(m)
    BY DEF RequestDelivered
  <2>2. PICK m : m = sending[1]
    OBVIOUS
  <2>3. p.code = 200 /\ Taken(m)
    BY <2>1, <2>2, Serving DEF AtEnd
  <2> QED BY <2>2, <2>3 DEF Taken, Asked
<1> QED BY <1>1, Invariance, PTL

(* A connection that is kept has nothing of this request in leftover_,      *)
(* only what comes next, even if the request was malformed (the erase()     *)
(* calls on leftover_, clear); under the same conditions.                   *)
THEOREM StaysInStepAlways == Spec => []StaysInStep
<1>1. IInv => StaysInStep
  <2>1. SUFFICES ASSUME IInv, at = "serving", OnTrack, p.code = 200
                 PROVE  p.leftover \o rest = Following
    BY DEF StaysInStep
  <2>2. p.leftover \o rest = <<>> \o Following /\ Following \in Seq(Token)
    BY <2>1, Serving DEF AtEnd, Taken, Remains
  <2> QED BY <2>2, ConcatEmptySeq
<1> QED BY <1>1, Invariance, PTL

(* A request with one of the errors the parser looks for, and no body after *)
(* it that would have it forgotten, is never delivered as a good one        *)
(* (parseField, checkBodyType, parseContentLengthBody,                      *)
(* removeChunkedInHeader, validation); under the same conditions.           *)
THEOREM MalformedRefusedAlways == Spec => []MalformedRefused
<1>1. IInv => MalformedRefused
  <2>1. SUFFICES ASSUME IInv, at = "serving", OnTrack, Faulty(sending[1]), p.code = 200,
                        sending[1].framing \notin {"length", "garbled", "chunked"}
                 PROVE  FALSE
    BY DEF MalformedRefused
  <2>2. PICK m : m = sending[1]
    OBVIOUS
  <2>3. Taken(m) /\ Valid(m)
    BY <2>1, <2>2, Serving DEF AtEnd
  <2>4. m.framing = "none" /\ Sound(m, Len(m.fields)) /\ Asked(m)
    BY <2>1, <2>2, <2>3 DEF Taken
  <2>5. ~Faulty(m)
    BY <2>3, <2>4 DEF Faulty, Sound, Known, Asked, Valid
  <2> QED BY <2>1, <2>2, <2>5
<1> QED BY <1>1, Invariance, PTL

(* A well-formed request is complete when its last byte was seen (the       *)
(* return values of the parse methods); under the same conditions.          *)
THEOREM CompleteAtLastByteAlways == Spec => CompleteAtLastByte
<1>1. Waits => (at \notin {"idle", "serving"} /\ at' = "idle" /\ OnTrack
                  /\ WellFormed(sending[1]) => Len(rest) > Len(Following))
  BY DEF Waits
<1> QED BY <1>1, Invariance, PTL DEF CompleteAtLastByte
==============================================================================
