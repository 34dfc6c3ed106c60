------------------------------- MODULE Routing -------------------------------
(***************************************************************************)
(* What becomes of a parsed request: the search for the server and the     *)
(* location block that serve it (Connection::setConfigInfo, one action per *)
(* turn of its loops), the checks, the page or script that answers it      *)
(* (createPagePath, isCgi) and the reply, for the requests that one client *)
(* after another makes on kept-alive connections.                          *)
(*                                                                         *)
(* A path is a sequence of segments; a location of the configuration is a  *)
(* path too, or one segment #ext for an extension.                         *)
(***************************************************************************)
EXTENDS Selection, ResponseMessage, FiniteSets

CONSTANTS
  ServerBlocks,    \* the server blocks of the configuration, in order
  Address,         \* the addresses (ip, port) the server is reached at
  Requests,        \* parsed requests
  FirstExtension,  \* what follows the first dot of a segment, NoDot without one
  FileAt(_, _),    \* external: the file that root_dir/path names, through ..
  InitialFiles,    \* the files that exist
  Directories,     \* the directories; none is empty
  Outputs          \* what a script may have written when it ends

ASSUME RoutingAssumption ==
  /\ Len(ServerBlocks) \in Nat \ {0}
  /\ \A i \in 1..Len(ServerBlocks) :
       LET locations == ServerBlocks[i].location_blocks
       IN  /\ Len(locations) \in Nat \ {0}
           /\ \A j \in 1..Len(locations) : locations[j].url \in Seq(STRING)
  /\ \A q \in Requests : q.uri.path \in Seq(STRING) /\ q.error \in {200, 400, 501}
  /\ InitialFiles \cap Directories = {}
  /\ Outputs \subseteq Seq(Seq(STRING)) \ {<<>>}
  /\ \A out \in Outputs : \A i \in 1..Len(out) : Len(out[i]) <= 2

VARIABLES
  address,            \* the local address of the connection's socket
  selected_server,    \* indices into the configuration; 0: NULL
  selected_location,
  resource_path,
  request,            \* the request being served
  code,               \* response_status_code_
  answer,             \* how it is answered
  files,
  loop,               \* where setConfigInfo is, and its local variables:
  index,              \* i of either for loop
  match_count,
  max_match_count,
  source,             \* auxiliary: the page or the script's output in the reply
  last_named,         \* auxiliary: the block a Host of this connection named last
  path_of             \* auxiliary: the path of the uri resource_path was cut from

svars == <<loop, index, match_count, max_match_count>>
vars  == <<address, selected_server, selected_location, resource_path, request,
           code, answer, files, source, last_named, path_of, svars, rvars>>

(* What stays from one request of a connection to the next.                *)
selection == <<address, selected_server, selected_location, resource_path, last_named,
               path_of>>

(* What setConfigInfo leaves alone while it searches.                      *)
others    == <<address, resource_path, code, answer, files, source, path_of, rvars>>

(* The request is served, its reply made by handlingStaticPage or of the   *)
(* output of a CGI process, or not at all: an exception has closed the     *)
(* connection, or the program has crashed.                                 *)
Answer == {"none", "page", "cgi", "throws", "crashes"}

(* Outside setConfigInfo; in the loop over the server blocks, or left by   *)
(* break; in the loop over the locations, in the while loop inside it, or  *)
(* returned from it.                                                       *)
Loop == {"idle", "servers", "broken", "locations", "tokens", "returned"}

NoRequest  == [method |-> "none"]
NoLocation == [url |-> "NULL"]
-----------------------------------------------------------------------------
(* The tokens of a uri.  A query is part of the last one, which then       *)
(* equals none.                                                            *)
Tokens(uri) == IF uri.query # "" THEN Front(uri.path) ELSE uri.path

(* What follows the first dot of the uri, be it in the query, up to the    *)
(* next slash or question mark.                                            *)
NoDot == "no dot"
Segments(uri) == IF uri.query # "" THEN Append(uri.path, uri.query) ELSE uri.path

UriExtension(uri) ==
  LET dotted == {i \in 1..Len(Segments(uri)) : FirstExtension[Segments(uri)[i]] # NoDot}
  IN  IF dotted = {} THEN "" ELSE FirstExtension[Segments(uri)[First(dotted)]]

ForExtension(location, uri) ==
  UriExtension(uri) # "" /\ location.extension = UriExtension(uri)

(* setResourcePath: what follows the location in the path.  If the path    *)
(* does not contain the location, npos plus its length wraps around: some  *)
(* end of the path, or an exception.                                       *)
Cut == "cut"       \* the end of a segment, the name of no file
Ends(path) ==
  LET from(i) == SubSeq(path, i, Len(path))
  IN  {from(i) : i \in 1..(Len(path) + 1)} \cup {<<Cut>> \o from(i + 1) : i \in 1..Len(path)}

ResourcePaths(location, path) ==
  IF IsPrefix(location.url, path)
    THEN {SubSeq(path, Len(location.url) + 1, Len(path))}
    ELSE Ends(path)
-----------------------------------------------------------------------------
Block    == ServerBlocks[selected_server]
Location == Block.location_blocks[selected_location]

(* The blocks the Host of a request can name.                              *)
Named(host) == {i \in 1..Len(ServerBlocks) : /\ Matches(ServerBlocks[i], address)
                                             /\ ServerBlocks[i].name = host}

(* parsingRequestMessage, after a request without an error, calls          *)
(* setConfigInfo, which looks for a server block ...                       *)
SetConfigInfo(q) ==
  /\ answer = "none" /\ loop = "idle" /\ q.error = 200
  /\ request' = q /\ loop' = "servers" /\ index' = 1
  /\ last_named' = IF Named(q.host) # {} THEN First(Named(q.host)) ELSE last_named
  /\ UNCHANGED <<selected_server, selected_location, match_count, max_match_count, others>>

(* Mutant: a block at the address is taken though one is selected. *)
NextServerTakes ==
  LET taken == Matches(ServerBlocks[index], address)
      named == taken /\ ServerBlocks[index].name = request.host
  IN
  /\ loop = "servers" /\ index <= Len(ServerBlocks)
  /\ selected_server' = IF taken THEN index ELSE selected_server
  /\ IF named THEN loop' = "broken" /\ UNCHANGED index
              ELSE index' = index + 1 /\ UNCHANGED loop
  /\ UNCHANGED <<selected_location, request, last_named, match_count, max_match_count,
                 others>>

(* One turn of the loop over the server blocks, which starts from what     *)
(* selected_server_ was for the request before: a block that is named ends *)
(* it, one that only matches is taken if none is selected.                 *)
NextServer ==
  LET matches == Matches(ServerBlocks[index], address)
      named   == matches /\ ServerBlocks[index].name = request.host
  IN
  /\ loop = "servers" /\ index <= Len(ServerBlocks)
  /\ selected_server' = IF named \/ (matches /\ selected_server = 0) THEN index
                                                                    ELSE selected_server
  /\ IF named THEN loop' = "broken" /\ UNCHANGED index
              ELSE index' = index + 1 /\ UNCHANGED loop
  /\ UNCHANGED <<selected_location, request, last_named, match_count, max_match_count,
                 others>>

(* ... and in that block for a location.                                   *)
StartLocations ==
  /\ loop = "broken" \/ (loop = "servers" /\ index > Len(ServerBlocks))
  /\ selected_server' = IF selected_server = 0 THEN 1 ELSE selected_server
  /\ loop' = "locations" /\ index' = 1 /\ max_match_count' = -1
  /\ UNCHANGED <<selected_location, request, last_named, match_count, others>>

(* One turn of the loop over the locations: one for the extension of the   *)
(* uri is selected at once, ...                                            *)
NextLocation ==
  /\ loop = "locations" /\ index <= Len(Block.location_blocks)
  /\ \/ /\ ForExtension(Block.location_blocks[index], request.uri)
        /\ selected_location' = index /\ loop' = "returned"
        /\ UNCHANGED match_count
     \/ /\ ~ForExtension(Block.location_blocks[index], request.uri)
        /\ match_count' = 0 /\ loop' = "tokens"
        /\ UNCHANGED selected_location
  /\ UNCHANGED <<selected_server, request, last_named, index, max_match_count, others>>

(* ... of any other the leading tokens it shares with the uri are counted, *)
TokensAgree ==
  LET uri_tokens == Tokens(request.uri)
      lb_tokens  == Block.location_blocks[index].url
  IN  /\ match_count < Len(uri_tokens) /\ match_count < Len(lb_tokens)
      /\ uri_tokens[match_count + 1] = lb_tokens[match_count + 1]

NextToken ==
  /\ loop = "tokens" /\ TokensAgree
  /\ match_count' = match_count + 1
  /\ UNCHANGED <<selected_server, selected_location, request, last_named, loop, index,
                 max_match_count, others>>

(* Mutant: of two locations that share as many tokens the later one stays. *)
EndOfTokensLater ==
  /\ loop = "tokens" /\ ~TokensAgree
  /\ IF match_count >= max_match_count
       THEN selected_location' = index /\ max_match_count' = match_count
       ELSE UNCHANGED <<selected_location, max_match_count>>
  /\ loop' = "locations" /\ index' = index + 1
  /\ UNCHANGED <<selected_server, request, last_named, match_count, others>>

(* ... and it is selected if it shares more than any before it.            *)
EndOfTokens ==
  /\ loop = "tokens" /\ ~TokensAgree
  /\ IF match_count > max_match_count
       THEN selected_location' = index /\ max_match_count' = match_count
       ELSE UNCHANGED <<selected_location, max_match_count>>
  /\ loop' = "locations" /\ index' = index + 1
  /\ UNCHANGED <<selected_server, request, last_named, match_count, others>>

(* setConfigInfo returns, its variables are gone.                          *)
Searched ==
  loop = "returned" \/ (loop = "locations" /\ index > Len(Block.location_blocks))

Return == loop' = "idle" /\ index' = 0 /\ match_count' = 0 /\ max_match_count' = -1
-----------------------------------------------------------------------------
(* The code that setConfigInfo, checkOverMaxClientBodySize and             *)
(* checkAllowedMethod leave.  A location found by its extension returns    *)
(* before the redirection is looked at.                                    *)
CheckedCode(q, b, l, by_extension) ==
  IF l.redirection /\ ~by_extension THEN 301
  ELSE IF q.body_size > b.client_body_size THEN 400
  ELSE IF q.method \notin l.allowed_method THEN 405
  ELSE 200

IsCgi(l, path) ==
  path # <<>> /\ FileExtension[Last(path)] = l.cgi_extension

(* setLastModified looks for the uri, not the resource path, in root_dir.  *)
SetLastModified(q, l) ==
  /\ q.if_modified_since /\ q.uri.query = ""
  /\ FileAt(l.root_dir, q.uri.path) \in files \cup Directories

(* createStatusLine throws if the code has no message; the root directory  *)
(* of the location NULL is then looked up where there is none.             *)
Respond(q, l, c, how, page, h, b) ==
  /\ code' = c
  /\ IF c \notin StatusMessages
       THEN answer' = "throws" /\ UNCHANGED <<headers, body, response_message>>
     ELSE IF l = NoLocation /\ q.if_modified_since
       THEN answer' = "crashes" /\ UNCHANGED <<headers, body, response_message>>
     ELSE /\ answer' = how
          /\ CreateResponseMessage(q, l, c, page, SetLastModified(q, l), h, b)

HandlingStaticPage(q, l, c, page) ==
  /\ Respond(q, l, c, "page", page, headers, CreateBody(body, page))
  /\ source' = page /\ UNCHANGED leftover

(* The page is sent, or run (executeCgiProcess).                           *)
Answers(q, l, c, path) ==
  \/ ~IsCgi(l, path) /\ HandlingStaticPage(q, l, c, <<l.root_dir>> \o path)
  \/ IsCgi(l, path) /\ code' = c /\ answer' = "cgi" /\ UNCHANGED <<source, rvars>>

(* createPagePath, isCgi and the reply, for a request that passed the      *)
(* checks: path is the resource path, l the location block.  root_dir and  *)
(* path are put together as they are, dots and all.                        *)
Delete(q, l, path) ==
  LET file == FileAt(l.root_dir, path) IN
  /\ q.method = "DELETE"
  /\ \/ /\ file \in files
        /\ files' = files \ {file}
        /\ \/ IsCgi(l, path) /\ Answers(q, l, 204, path)
           \/ ~IsCgi(l, path) /\ HandlingStaticPage(q, l, 204, NoPage)
     \/ /\ file \notin files
        /\ UNCHANGED files
        /\ HandlingStaticPage(q, l, 400, ErrorPage)

Browse(q, l, path) ==
  LET index_path == Append(path, l.index) IN
  /\ q.method # "DELETE"
  /\ FileAt(l.root_dir, path) \in Directories
  /\ \/ FileAt(l.root_dir, index_path) \in files /\ Answers(q, l, 200, index_path)
     \/ FileAt(l.root_dir, index_path) \notin files /\ HandlingStaticPage(q, l, 404, Listing)
  /\ UNCHANGED files

Open(q, l, path) ==
  LET file == FileAt(l.root_dir, path) IN
  /\ q.method # "DELETE" /\ file \notin Directories
  /\ \/ file \in files /\ Answers(q, l, 200, path)
     \/ file \notin files /\ HandlingStaticPage(q, l, 404, ErrorPage)
  /\ UNCHANGED files

(* The resource path of the request: a location for an extension is        *)
(* returned before setResourcePath is called.                              *)
NewPath(path) ==
  IF loop = "returned" THEN path = resource_path /\ UNCHANGED path_of
  ELSE path \in ResourcePaths(Location, request.uri.path) /\ path_of' = request.uri.path

(* The end of setConfigInfo and the rest of parsingRequestMessage.         *)
Serve ==
  LET l == Location
      c == CheckedCode(request, Block, l, loop = "returned")
  IN
  /\ Searched /\ Return
  /\ \/ \E path \in {resource_path} \cup Ends(request.uri.path) :
          /\ NewPath(path) /\ resource_path' = path
          /\ IF IsResponseOk(c)
               THEN \/ Delete(request, l, path)
                    \/ Browse(request, l, path)
                    \/ Open(request, l, path)
               ELSE /\ UNCHANGED files
                    /\ HandlingStaticPage(request, l, c, IF c = 301 THEN NoPage ELSE ErrorPage)
     \/ /\ loop # "returned" /\ ~IsPrefix(l.url, request.uri.path)
        /\ code' = 200 /\ answer' = "throws"
        /\ UNCHANGED <<resource_path, path_of, source, files, rvars>>
  /\ UNCHANGED <<address, selected_server, selected_location, request, last_named>>

(* A request refused by the parser leaves the selection as it was, NULL    *)
(* before the first one.                                                   *)
ServeError(q) ==
  /\ answer = "none" /\ loop = "idle" /\ q.error # 200
  /\ request' = q
  /\ HandlingStaticPage(q, IF selected_location = 0 THEN NoLocation ELSE Location,
                        q.error, ErrorPage)
  /\ UNCHANGED <<selection, files, svars>>

(* handlingDynamicPage: the script has written out and ended ...           *)
CgiEnds ==
  /\ answer = "cgi" /\ response_message = <<>>
  /\ \E out \in Outputs :
       LET all == Join(leftover, out)
           r   == ParseCgiHeader(all, code)
       IN  /\ Respond(request, Location, r.code, "cgi", NoPage, r.headers,
                      ParseCgiOutput(all))
           /\ source' = out /\ leftover' = AfterHeader(all)
  /\ UNCHANGED <<selection, request, files, svars>>

(* ... or not in time.                                                     *)
CgiTimesOut ==
  /\ answer = "cgi" /\ response_message = <<>>
  /\ HandlingStaticPage(request, Location, 500, ErrorPage)
  /\ UNCHANGED <<selection, request, files, svars>>

(* The reply is out: clear(), which keeps the selection and                *)
(* resource_path_, if the connection stays open.                           *)
KeepAlive ==
  /\ loop = "idle" /\ response_message # <<>> /\ headers["connection"] # "close"
  /\ Clear
  /\ answer' = "none" /\ code' = 200 /\ request' = NoRequest /\ source' = <<>>
  /\ UNCHANGED <<selection, files, svars>>

(* Mutant: resource_path_ stays from the client before. *)
ReconnectKeepsPath ==
  /\ answer # "crashes" /\ loop = "idle" /\ address' \in Address
  /\ Clear /\ source' = <<>>
  /\ selected_server' = 0 /\ selected_location' = 0
  /\ last_named' = 0 /\ path_of' = <<>>
  /\ request' = NoRequest /\ code' = 200 /\ answer' = "none"
  /\ UNCHANGED <<files, svars, resource_path>>

(* Mutant: the constructor forgets selected_location_. *)
ReconnectKeepsLocation ==
  /\ answer # "crashes" /\ loop = "idle" /\ address' \in Address
  /\ Clear /\ source' = <<>>
  /\ selected_server' = 0 /\ resource_path' = <<>>
  /\ last_named' = 0 /\ path_of' = <<>>
  /\ request' = NoRequest /\ code' = 200 /\ answer' = "none"
  /\ UNCHANGED <<files, svars, selected_location>>

(* The connection is closed, another one accepted.                         *)
Reconnect ==
  /\ answer # "crashes" /\ loop = "idle" /\ address' \in Address
  /\ Clear /\ source' = <<>>
  /\ selected_server' = 0 /\ selected_location' = 0 /\ resource_path' = <<>>
  /\ last_named' = 0 /\ path_of' = <<>>
  /\ request' = NoRequest /\ code' = 200 /\ answer' = "none"
  /\ UNCHANGED <<files, svars>>

Init ==
  /\ address \in Address
  /\ selected_server = 0 /\ selected_location = 0 /\ resource_path = <<>>
  /\ request = NoRequest /\ code = 200 /\ answer = "none"
  /\ loop = "idle" /\ index = 0 /\ match_count = 0 /\ max_match_count = -1
  /\ last_named = 0 /\ path_of = <<>>
  /\ files = InitialFiles /\ source = <<>> /\ InitResponse

Search == \/ \E q \in Requests : SetConfigInfo(q)
          \/ NextServer \/ StartLocations \/ NextLocation \/ NextToken \/ EndOfTokens

Next == \/ Search \/ Serve
        \/ \E q \in Requests : ServeError(q)
        \/ CgiEnds \/ CgiTimesOut \/ KeepAlive \/ Reconnect

Spec == Init /\ [][Next]_vars
-----------------------------------------------------------------------------
(* Outside setConfigInfo a location is selected if and only if a server    *)
(* block is, and it is one of that block: the pointer into the block of an *)
(* earlier request never stays.                                            *)
TypeOK ==
  /\ address \in Address
  /\ selected_server \in 0..Len(ServerBlocks)
  /\ loop = "idle" => IF selected_server = 0
                        THEN selected_location = 0
                        ELSE selected_location \in 1..Len(Block.location_blocks)
  /\ request \in Requests \cup {NoRequest}
  /\ code \in {200, 204, 301, 400, 404, 405, 500, 501}
  /\ answer \in Answer /\ loop \in Loop
  /\ files \subseteq InitialFiles

Served == loop = "idle" /\ request # NoRequest /\ request.error = 200

(* A request is served by the block that a Host named last on its          *)
(* connection, its own or an earlier one, and until one has been named by  *)
(* the first block at the address (setConfigInfo; selected_server_ is not  *)
(* cleared).                                                               *)
LastNamedServes ==
  Served => selected_server = IF last_named # 0 THEN last_named
                              ELSE SelectServer(ServerBlocks, address, request.host)

(* The first k tokens of the uri are those of the location.                *)
Shares(location, uri, k) ==
  k <= Len(location.url) /\ \A t \in 1..k : Tokens(uri)[t] = location.url[t]

(* The first location for the extension of the uri serves it, and without  *)
(* one the first of those that share most leading tokens with it, whatever *)
(* served the request before (setConfigInfo).                              *)
FirstLongestServes ==
  Served =>
    LET locations == Block.location_blocks
        counts    == 1..Len(Tokens(request.uri))
        agree(j, k) == Shares(locations[j], request.uri, k)
        special   == {j \in 1..Len(locations) : ForExtension(locations[j], request.uri)}
    IN  IF special # {} THEN selected_location = First(special)
        ELSE /\ \A j \in 1..Len(locations), k \in counts :
                  agree(j, k) => agree(selected_location, k)
             /\ \A j \in 1..(selected_location - 1) :
                  \E k \in counts : agree(selected_location, k) /\ ~agree(j, k)

(* The one reply of a request is of its own making, whatever the           *)
(* connection served before: the page that was found, or what the script   *)
(* wrote after its first empty line, under fields of that script and of    *)
(* this request (createBody, parseCgiOutput, createHeaderLine, clear).     *)
Replied == response_message[1]

Headed(out, text) ==
  \E h \in 0..(Len(out) - 1) :
    /\ SubSeq(out, h + 1, Len(out)) = <<<<>>>> \o text
    /\ \A i \in 1..h : out[i] # <<>>

ReplyIsOwn ==
  response_message # <<>> =>
    /\ Len(response_message) = 1 /\ Replied.code = code
    /\ answer = "page" =>
         /\ Replied.body = Content(source)
         /\ DOMAIN Replied.headers \subseteq
              {"connection", "content-length", "content-type", "last-modified",
               "location", "allowed"}
         /\ "content-type" \in DOMAIN Replied.headers =>
              Replied.headers["content-type"] = FindMimeType(source, code)
    /\ answer = "cgi" =>
         /\ \/ Headed(source, Replied.body)
            \/ Replied.body = Content(ErrorPage) /\ Headed(source, <<<<>>>>)
            \/ ~\E text \in {SubSeq(source, i, Len(source)) : i \in 2..Len(source)} :
                  Headed(source, text)
         /\ \A name \in DOMAIN Replied.headers :
              \/ name \in {"connection", "content-length", "last-modified"}
              \/ \E i \in 1..(Len(source) - 1) :
                   Len(source[i]) = 2 /\ LowerCase[source[i][1]] = name
              \/ name = "content-type" /\ Replied.headers[name] = FindMimeType(NoPage, code)

(* A client that keeps the connection can tell where the reply ends if it  *)
(* has a body at all, whatever length a script claims (createHeaderLine,   *)
(* writingToSocket).                                                       *)
ReplyDelimited ==
  response_message # <<>> /\ Replied.headers["connection"] # "close"
    /\ Size(Replied.body) # 0 =>
      /\ "content-length" \in DOMAIN Replied.headers
      /\ Replied.headers["content-length"] = numberToString(Size(Replied.body))

(* A file disappears only on a DELETE that the selected location allows,   *)
(* and it is the file at an end of the path of this request's uri.  Only   *)
(* through a location for an extension may the path be an earlier one, the *)
(* last that the same connection was served by another location: never one *)
(* of another connection (setConfigInfo, createPagePath, the constructor). *)
DeletionsAllowed ==
  [][\A file \in files \ files' :
       /\ request.method = "DELETE" /\ "DELETE" \in Location.allowed_method
       /\ \E path \in Ends(path_of') : file = FileAt(Location.root_dir, path)
       /\ path_of' # request.uri.path => ForExtension(Location, request.uri)
     ]_vars
-----------------------------------------------------------------------------
(* What the repository says and the code does not do: a deletion is        *)
(* answered (createStatusLine).                                            *)
DeleteAnswered ==
  [][files' # files => answer' # "throws"]_vars
=============================================================================
