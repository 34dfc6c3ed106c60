------------------------------ MODULE MCStartup ------------------------------
EXTENDS Startup

MCIp == [w \in {"0.0.0.0", "00.0.0.0", "10.14.4.3", "010.14.4.3", "127.0.0.1",
                "192.168.0.9"} |->
           CASE w = "00.0.0.0" -> "0.0.0.0" [] w = "010.14.4.3" -> "10.14.4.3"
             [] OTHER -> w]
(* The last is 4242 in 32 bits. *)
MCNumber == [w \in {"4242", "4243", "04243", "70000", "30", "100", "1000000", "0",
                    "big", "4294971538"} |->
               CASE w = "4242" -> 4242 [] w \in {"4243", "04243"} -> 4243
                 [] w = "70000" -> 70000 [] w = "30" -> 30 [] w = "100" -> 100
                 [] w = "1000000" -> 1000000 [] w = "4294971538" -> 4242
                 [] OTHER -> 0]
MCDecimal == 4242 :> "4242" @@ 4243 :> "4243" @@ 37392 :> "37392" @@ 37648 :> "37648"
MCNetworkOrder == 4242 :> 37392 @@ 4243 :> 37648
MCContents == "status.txt" :> << <<"200", "OK">>, <<"400", "Bad", "Request">> >>
              @@ "more.txt" :> << <<"200", "Fine">>, <<"204", "No Content">> >>
              @@ "mime.txt" :> << <<"text/html", "html", "htm">>, <<"text/plain">> >>
MCLocalIps == {"10.14.4.3", "127.0.0.1"}
MCForeign == {{}, {[ip |-> "127.0.0.1", port |-> 4243]}}

Top == << <<"program_name", "Webwaiter">>, <<"http_version", "HTTP/1.1">>,
          <<"cgi_version", "CGI/1.1">>, <<"status_path", "status.txt">>,
          <<"mime_path", "mime.txt">>, <<"timeout", "30">>,
          <<"default_error_page", "error.html">>, <<>> >>

Location(url) ==
  << <<"location", url, "{">>, <<"root_dir", "docs/html">>,
     <<"allowed_method", "GET", "POST">>, <<"directory_listing", "on">>,
     <<"index", "index.html">>, <<"cgi_path", "python">>,
     <<"cgi_extension", "py">>, <<"}">> >>

Block(ip, port, name) ==
  << <<"server", "{">>, <<"client_body_size", "1000000">>, <<"listen", ip>>,
     <<"port", port>>, <<"server_name", name>> >> \o Location("/") \o << <<"}">> >>

Sample == Top \o Block("0.0.0.0", "4242", "jiyun")
              \o Block("10.14.4.3", "4243", "ean")

(* The sample with lines changed: one deleted, replaced or inserted; a     *)
(* brace opened at one place and closed at another.                        *)
Lines == {<<>>, Blanks, <<"{">>, <<"}">>, <<"}", "}">>, <<"}", "{">>,
          <<"server", "{">>, <<"server", "x">>, <<"location", "/b", "{">>,
          <<"location", "{">>, <<"location", "b", "{">>, <<"index", "}">>,
          <<"index", "b">>, <<"index", "{">>, <<"port", "70000">>,
          <<"port", "big">>, <<"listen", "1.2.3">>, <<"timeout", "100">>,
          <<"timeout", "big">>, <<"status_path", "more.txt">>,
          <<"mime_path", "none.txt">>, <<"allowed_method">>,
          <<"allowed_method", "PUT">>, <<"root_dir", "docs/none">>,
          <<"directory_listing", "yes">>, <<"redirection", "/b">>}

Insert(f, i, line) == SubSeq(f, 1, i - 1) \o <<line>> \o SubSeq(f, i, Len(f))

Edited ==
  LET n == Len(Sample) IN
     {SubSeq(Sample, 1, i - 1) \o SubSeq(Sample, i + 1, n) : i \in 1..n}
  \cup {[Sample EXCEPT ![i] = line] : i \in 1..n, line \in Lines}
  \cup {Insert(Sample, i, line) : i \in 1..(n + 1), line \in Lines}
  \cup {SubSeq(Sample, 1, i) : i \in 0..n}
Bracketed ==
  LET n == Len(Sample) IN
  {Insert(Insert(Sample, p[2], <<"}">>), p[1], line) :
     p \in {q \in (1..(n + 1)) \X (1..(n + 1)) : q[1] <= q[2]},
     line \in {<<"{">>, <<"server", "{">>, <<"location", "/b", "{">>,
               <<"location", "{">>}}

(* The sample with other addresses; a block of the same name twice.        *)
Addressed ==
  {Top \o Block(a[1], a[2], "jiyun") \o Block(b[1], b[2], "ean") :
     a, b \in (DOMAIN MCIp) \X {"4242", "4243", "04243", "4294971538"}}
  \cup {Top \o Block(a[1], "4242", "ean") \o Block(b[1], "4243", "jiyun")
            \o Block(c[1], c[2], "ean") :
          a, b \in {<<"0.0.0.0">>, <<"10.14.4.3">>},
          c \in {"0.0.0.0", "127.0.0.1"} \X {"4242", "4243"}}

MCFiles == Edited \cup Bracketed \cup Addressed
=============================================================================
