------------------------------ MODULE MCRouting ------------------------------
EXTENDS Routing

Loc(url, extension, root_dir, allowed_method, page, redirection) ==
  [url |-> url, extension |-> extension, root_dir |-> root_dir,
   allowed_method |-> allowed_method, index |-> page, cgi_extension |-> "py",
   redirection |-> redirection]

Root     == Loc(<<>>, "", "docs/html", {"GET", "POST"}, "index.html", FALSE)
Upload   == Loc(<<"upload">>, "", "docs/upload", {"GET", "POST", "DELETE"},
                "upload.py", FALSE)
Deep     == Loc(<<"upload", "new">>, "", "docs/html", {"GET"}, "index.html", FALSE)
Redirect == Loc(<<"redirect">>, "", "docs/delete", {"GET", "DELETE"},
                "index.html", TRUE)
Scripts  == Loc(<<"#py">>, "py", "docs/upload", {"POST", "GET", "DELETE"},
                "index.html", FALSE)
Private  == Loc(<<"private">>, "", "docs/upload", {"GET"}, "none.html", FALSE)

Server(ip, port, name, size, location_blocks) ==
  [ip |-> ip, port |-> port, name |-> name, client_body_size |-> size,
   location_blocks |-> location_blocks]

(* Named blocks at the wildcard, two of one name, and one at an address of *)
(* its own, where a longer location comes first.                           *)
Jiyun  == Server("0.0.0.0", 4244, "jiyun", 1, <<Root, Upload, Deep, Redirect>>)
Local  == Server("0.0.0.0", 4242, "localhost", 2, <<Scripts, Root, Private>>)
Ean    == Server("10.14.4.3", 4243, "ean", 1, <<Root, Deep, Upload>>)
Jiyun2 == Server("0.0.0.0", 4245, "jiyun", 1, <<Root>>)

MCServerBlocks == <<Ean, Jiyun, Local, Jiyun2>>
MCAddress ==
  {[ip |-> "10.14.4.3", port |-> 4243], [ip |-> "10.14.4.3", port |-> 4244]}

MCFileExtension ==
  [s \in {"upload", "new", "redirect", "private", "index.html", "upload.py",
          "none.html", "a.py", "a.css", "empty.html", "html", "..",
          "x.py", Cut} |->
     CASE s \in {"index.html", "none.html", "empty.html"} -> "html"
       [] s \in {"upload.py", "a.py", "x.py"}             -> "py"
       [] s = "a.css"                                     -> "css"
       [] OTHER                                           -> ""]

(* A segment and a query have one dot at most, but for the parent directory. *)
MCFirstExtension ==
  [s \in DOMAIN MCFileExtension |->
     IF s = ".." THEN "." ELSE IF MCFileExtension[s] = "" THEN NoDot ELSE MCFileExtension[s]]

Path == {<<>>, <<"upload">>, <<"upload", "index.html">>, <<"upload", "new", "a.py">>,
         <<"redirect">>, <<"private">>, <<"a.py">>, <<"index.html">>,
         <<"upload", "..", "html", "index.html">>}

Uri(path, query) == [path |-> path, query |-> query]

MCRequests ==
  [method : {"GET", "DELETE"}, host : {"ean", "jiyun", "localhost", "other"},
   uri : {Uri(path, "") : path \in Path} \cup {Uri(<<"upload">>, "x.py")},
   body_size : {0}, error : {200}, connection : {""}, if_modified_since : {FALSE}]
  \cup
  [method : {"POST"}, host : {"jiyun"}, uri : {Uri(<<"upload">>, "")},
   body_size : {0, 2}, error : {200}, connection : {""}, if_modified_since : {FALSE}]
  \cup
  [method : {"GET"}, host : {"jiyun"},
   uri : {Uri(<<"a.css">>, ""), Uri(<<"empty.html">>, ""), Uri(<<"upload", "a.py">>, "")},
   body_size : {0}, error : {200, 400, 501}, connection : {"", "close"},
   if_modified_since : BOOLEAN]

(* Scripts write fields and a body, no or two empty lines, no newline at   *)
(* all, nothing; a field may be one that createHeaderLine sets.            *)
MCOutputs ==
  {<< <<>> >>, << <<"text">> >>, << <<"text">>, <<"more">>, <<>> >>,
   << <<"Content-Type", "text/css">>, <<>>, <<"text">>, <<>> >>,
   << <<"Content-Type", "text/css">>, <<>>, <<>> >>,
   << <<"Content-Length", "9">>, <<"Connection", "close">>, <<>>, <<"text">>, <<>>,
      <<"more">> >>,
   << <<"Status", "404">>, <<"Location", "/">>, <<"\r">>, <<"text">>, <<>> >>,
   << <<"X Y", "9">>, <<>>, <<"text">> >>, << <<"Status", "NUL">>, <<>>, <<"text">> >>}

MCLowerCase == [name \in {"Content-Type", "Content-Length", "Connection", "Status",
                          "Location", "X Y"} |->
  CASE name = "Content-Type" -> "content-type"
    [] name = "Content-Length" -> "content-length"
    [] name = "Connection" -> "connection" [] name = "Status" -> "status"
    [] name = "Location" -> "location" [] OTHER -> "x y"]

MCMimeTypes == [html |-> "text/html", css |-> "text/css"]
MCEmptyPages == {<<"docs/html", "empty.html">>}

MCInitialFiles ==
  {<<"docs/html", <<"index.html">>>>, <<"docs/upload", <<"upload.py">>>>,
   <<"docs/html", <<"a.css">>>>, <<"docs/html", <<"empty.html">>>>,
   <<"docs/upload", <<"index.html">>>>, <<"docs/upload", <<"a.py">>>>}
MCDirectories == {<<"docs/html", <<>>>>, <<"docs/upload", <<>>>>}

(* The root directories are neighbours in docs/.                           *)
MCFileAt(root_dir, path) ==
  IF Len(path) >= 2 /\ path[1] = ".."
    THEN <<IF path[2] = "html" THEN "docs/html" ELSE "docs/upload",
           SubSeq(path, 3, Len(path))>>
    ELSE <<root_dir, path>>
=============================================================================
