-------------------------- MODULE ResponseMessage --------------------------
(***************************************************************************)
(* The builder of a reply (src/src/ResponseMessage.cpp), one per           *)
(* connection: its fields are filled for one request and cleared when the  *)
(* reply has been written to a connection that stays open.                 *)
(*                                                                         *)
(* A text is the sequence of its lines, the last one without its newline;  *)
(* a line is <<>> if empty, <<name, value>> if it has a colon.  A page is  *)
(* a path, a sequence of segments, and contributes one line, itself.       *)
(* server and date, the same in every reply, are left out.                 *)
(***************************************************************************)
EXTENDS Integers, Sequences, SequencesExt

CONSTANTS
  StatusMessages,  \* the status codes listed in the status_path file
  MimeTypes,       \* MimeTypes[extension], from the mime_path file
  FileExtension,   \* the extension of a segment, "" if it has no dot
  EmptyPages,      \* pages of no bytes
  LowerCase,       \* LowerCase[name]: toLower of the name of a field
  BadNames,        \* names with a space
  BadValues        \* values with a NUL

VARIABLES headers, leftover, body, response_message

rvars == <<headers, leftover, body, response_message>>

ErrorPage == <<"default_error_page">>
Listing   == <<"docs", "listing.txt">>
NoPage    == <<>>

IsResponseOk(c) == c \in 200..299

(* The bytes of a text, counted in lines.                                  *)
Size(text) ==
  IF text # <<>> /\ Last(text) = <<>> THEN Len(text) - 1 ELSE Len(text)

Join(s, t) ==
  IF s = <<>> THEN t ELSE Front(s) \o <<Last(s) \o Head(t)>> \o Tail(t)

(* createBody: the file is appended.                                       *)
Content(page) == IF page \in EmptyPages \cup {NoPage} THEN <<>> ELSE <<page>>
CreateBody(b, page) == IF Size(b) = 0 THEN Content(page) ELSE b \o Content(page)
-----------------------------------------------------------------------------
(* parseCgiHeader takes the lines up to the first empty one, all complete  *)
(* lines if there is none; both ways out of its loop return, so status and *)
(* location are fields like others.                                        *)
EmptyLines(out) == {i \in 1..(Len(out) - 1) : out[i] = <<>>}
HeaderLines(out) ==
  SubSeq(out, 1, IF EmptyLines(out) = {} THEN Len(out) - 1
                                         ELSE Min(EmptyLines(out)) - 1)
AfterHeader(out) ==
  SubSeq(out, IF EmptyLines(out) = {} THEN Len(out) ELSE Min(EmptyLines(out)) + 1,
         Len(out))

(* parseField, for each of them: a line without a colon is passed over, a  *)
(* bad one sets the code, of two fields of one name the later one stays.   *)
Fields(lines) == {i \in 1..Len(lines) : Len(lines[i]) >= 2}
BadFields(lines) ==
  {i \in Fields(lines) : lines[i][1] \in BadNames \/ lines[i][2] \in BadValues}
GoodFields(lines) == Fields(lines) \ BadFields(lines)

ParseFields(lines) ==
  LET names == {LowerCase[lines[i][1]] : i \in GoodFields(lines)}
      named(name) == {i \in GoodFields(lines) : LowerCase[lines[i][1]] = name}
  IN  [name \in names \cup DOMAIN headers |->
         IF name \in names THEN lines[Max(named(name))][2] ELSE headers[name]]

ParseCgiHeader(out, c) ==
  [headers |-> ParseFields(HeaderLines(out)),
   code    |-> IF BadFields(HeaderLines(out)) = {} THEN c ELSE 400]

(* parseCgiOutput: the error page stands in for a body of no bytes.        *)
ParseCgiOutput(out) ==
  LET b == Join(body, AfterHeader(out))
  IN  IF Size(b) = 0 THEN CreateBody(<<>>, ErrorPage) ELSE b
-----------------------------------------------------------------------------
FindMimeType(page, c) ==
  LET extension == IF page = NoPage THEN "" ELSE FileExtension[Last(page)]
  IN  IF ~IsResponseOk(c) THEN "text/html"
      ELSE IF extension \in DOMAIN MimeTypes THEN MimeTypes[extension]
      ELSE "text/plain"

numberToString(n) == ToString(n)

(* The fields that createHeaderLine assigns, whatever was there, and their *)
(* values.                                                                 *)
OwnFields(c, modified, b) ==
  {name \in {"connection", "last-modified", "location", "allowed", "content-length"} :
     /\ name = "last-modified"  => modified
     /\ name = "location"       => c = 301
     /\ name = "allowed"        => c = 405
     /\ name = "content-length" => Size(b) # 0}

OwnValue(name, q, l, c, b) ==
  CASE name = "connection"     -> IF ~IsResponseOk(c) THEN "close"
                                  ELSE IF q.connection = "" THEN "keep-alive"
                                  ELSE q.connection
    [] name = "last-modified"  -> "date"
    [] name = "location"       -> l.redirection
    [] name = "allowed"        -> l.allowed_method
    [] name = "content-length" -> numberToString(Size(b))

(* Mutant: content-length is set like content-type, unless it is there. *)
CreateHeaderLineKeepsLength(q, l, c, page, modified, h, b) ==
  LET own  == OwnFields(c, modified, b) \ (DOMAIN h \cap {"content-length"})
      type == {name \in {"content-type"} : Size(b) # 0}
  IN  [name \in own \cup DOMAIN h \cup type |->
         IF name \in own           THEN OwnValue(name, q, l, c, b)
         ELSE IF name \in DOMAIN h THEN h[name]
         ELSE FindMimeType(page, c)]

(* createHeaderLine: what it assigns wins over h, the fields of a script;  *)
(* content-type is only set where h has none.                              *)
CreateHeaderLine(q, l, c, page, modified, h, b) ==
  LET own  == OwnFields(c, modified, b)
      type == {name \in {"content-type"} : Size(b) # 0}
  IN  [name \in own \cup DOMAIN h \cup type |->
         IF name \in own           THEN OwnValue(name, q, l, c, b)
         ELSE IF name \in DOMAIN h THEN h[name]
         ELSE FindMimeType(page, c)]

(* createResponseMessage, after a status line was found for c: h and b are *)
(* headers_ and body_ as they are then.                                    *)
CreateResponseMessage(q, l, c, page, modified, h, b) ==
  LET line == CreateHeaderLine(q, l, c, page, modified, h, b) IN
  /\ headers' = line /\ body' = b
  /\ response_message' =
       Append(response_message, [code |-> c, headers |-> line, body |-> b])

(* Mutant: the fields of the last reply stay. *)
ClearKeepsHeaders ==
  UNCHANGED headers /\ leftover' = <<>> /\ body' = <<>> /\ response_message' = <<>>

Clear ==
  headers' = <<>> /\ leftover' = <<>> /\ body' = <<>> /\ response_message' = <<>>

InitResponse ==
  headers = <<>> /\ leftover = <<>> /\ body = <<>> /\ response_message = <<>>
=============================================================================
