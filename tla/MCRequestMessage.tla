--------------------------- MODULE MCRequestMessage ---------------------------
EXTENDS RequestMessage, SequencesExt

MCDecimal == [n \in 0..3 |-> <<"0", "1", "2", "3">>[n + 1]]
MCHex     == MCDecimal

MCToken ==
  {"CR", "LF", "SP", ":", "NUL", "-1", "more", "0", "1", "2", "3", "a", "b", "d", "e", "x", "y",
   "GET", "POST", "DELETE", "PUT", "uri", "HTTP/1.1", "HTTP/1.0", "HTTP/2.0",
   "Host", "host", "connection", "keep-alive", "close",
   "content-length", "transfer-encoding", "chunked", "gzip"}

Field(name, value) == [colon |-> TRUE, name |-> <<name>>, value |-> <<value>>, pad |-> <<>>]
Host    == Field("host", "a")
Host2   == [Field("Host", "b") EXCEPT !.pad = <<"SP">>]
Alive   == Field("connection", "keep-alive")
Close   == Field("connection", "close")
Weird   == Field("connection", "x")
Space   == [Field("x", "a") EXCEPT !.name = <<"x", "SP", "y">>]
Nul     == Field("x", "NUL")
Other   == [Field("x", "a") EXCEPT !.value = <<"a", "SP", ":">>]
Bare    == [Field("x", "a") EXCEPT !.colon = FALSE]
Encoded(value) == Field("transfer-encoding", value)
Length(value)  == Field("content-length", value)

(* The text of a request, composed from its fields and chunks.             *)
Lines(fields, end) ==
  [i \in 1..(Len(fields) + 1) |->
     FlattenSeq([j \in 1..(Len(fields) + 1 - i) |-> FieldLine(fields[i + j - 1]) \o CRLF])
     \o end]

Msg(lead, method, protocol, fields, framing, chunks, trailers) ==
  LET body  == FlattenSeq(chunks)
      trail == [i \in 1..Len(fields) |-> <<>>] \o Lines(trailers, CRLF)
      parts == [i \in 1..(Len(chunks) + 1) |->
                  FlattenSeq([j \in 1..(Len(chunks) + 1 - i) |->
                    LET c == chunks[i + j - 1]
                    IN  Lined(<<MCHex[Len(c)]>>, Lined(c, <<>>))])
                  \o Lined(<<MCHex[0]>>, trail[Len(fields) + 1])]
  IN [lead |-> lead, method |-> method, uri |-> "uri", protocol |-> protocol,
      fields |-> fields \o trailers, head |-> Len(fields), framing |-> framing,
      body |-> body, chunks |-> chunks, trail |-> trail, parts |-> parts,
      upto |-> [i \in 1..(Len(chunks) + 1) |-> FlattenSeq(SubSeq(chunks, 1, i - 1))],
      lines |-> Lines(fields, CRLF \o (IF framing \in {"chunked", "encoded"}
                                         THEN parts[1] ELSE body))]

Get(fields) == Msg(<<>>, "GET", "HTTP/1.1", fields, "none", <<>>, <<>>)
Post(fields, framing, chunks, trailers) ==
  Msg(<<>>, "POST", "HTTP/1.1", fields, framing, chunks, trailers)

Good ==
  {Get(<<Close, Host>>),
   Msg(CRLF, "DELETE", "HTTP/1.0", <<Weird, Host2, Alive>>, "none", <<>>, <<>>),
   Post(<<Length("2"), Host>>, "length", <<<<"CR", "LF">>>>, <<>>),
   Post(<<Encoded("chunked")>>, "chunked", <<<<"CR">>, <<"e">>>>, <<Host>>)}

Bad ==
  {Msg(<<>>, "PUT", "HTTP/1.1", <<Host>>, "none", <<>>, <<>>),
   Msg(<<>>, "GET", "HTTP/2.0", <<Host>>, "none", <<>>, <<>>),
   Get(<<Alive>>), Get(<<Host, Nul>>), Get(<<Space, Host>>), Get(<<Bare, Host>>),
   Post(<<Encoded("chunked"), Host>>, "chunked", <<<<"CR", "LF">>>>, <<>>),
   Post(<<Encoded("gzip"), Host>>, "encoded", <<>>, <<>>),
   Post(<<Host, Length("-1")>>, "negative", <<<<"d">>>>, <<>>),
   Post(<<Host, Length("x")>>, "garbled", <<>>, <<>>),
   Post(<<Host, Encoded("chunked"), Length("1")>>, "both", <<>>, <<>>),
   Post(<<Space, Length("1")>>, "length", <<<<"d">>>>, <<>>)}

(* No head field; a content-length that is not that of the body.           *)
Bytes(text) == [framing |-> "other", body |-> text]
Odd ==
  {Bytes(<<"GET", "SP", "uri", "SP", "HTTP/1.1">> \o CRLF \o CRLF),
   Bytes(Text(Post(<<Host, Length("1")>>, "length", <<<<"d", "e">>>>, <<>>)))}

MCMessages == Good \cup Bad \cup Odd
===============================================================================
