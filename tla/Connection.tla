----------------------------- MODULE Connection -----------------------------
(***************************************************************************)
(* One client connection (src/src/Connection.cpp): its state machine, the  *)
(* descriptors it registers with the kernel, the CGI process it starts,    *)
(* and the outside world it meets there: the client at the other end of    *)
(* the socket, the CGI process at the other end of the pipes, the clock.   *)
(*                                                                         *)
(* The methods of Connection are actions on the record of one connection;  *)
(* module Server composes them with the event loop.                        *)
(***************************************************************************)
EXTENDS Kqueue, Integers

CONSTANTS
  Conn,            \* addresses a Connection object can be allocated at
  Pid,             \* process ids the kernel can give to CGI processes
  NoPid,           \* the value -1 of cgi_pid_
  RequestParts,    \* a request arrives in up to this many parts
  MaxAhead,        \* bound: requests a client sends before it reads replies
  MaxWrite,        \* bound: write() calls one buffer takes to be written
  MaxOut,          \* bound: pieces a CGI process writes to its output
  Request,         \* the requests clients make: "static", "get", "post"
  Failing,         \* the system calls that may fail: "pipe", "fork"
  StatusMessages   \* the status codes listed in the status_path file

(* 400 stands for every code other than 2xx that the request itself causes *)
(* (parse error, redirection, missing file, ...), 500 for a failed or      *)
(* overdue request, 204 for a deleted file.                                *)
Code == {200, 204, 400, 500}

ASSUME ConnectionAssumption ==
  /\ Null \notin Conn
  /\ NoPid \notin Pid
  /\ {RequestParts, MaxAhead, MaxWrite} \subseteq Nat \ {0}
  /\ MaxOut \in Nat
  /\ Request \subseteq {"static", "get", "post"}
  /\ Failing \subseteq {"pipe", "fork"}
  /\ StatusMessages \subseteq Code

VARIABLES
  conn,     \* conn[c]: the fields of the Connection object at address c
  knote,    \* knote[c]: the knotes of its descriptors
  sock,     \* sock[c]: the client's side of the socket
  pipe,     \* pipe[c]: the CGI process's side of the two pipes
  proc      \* proc[p]: the CGI process with id p and its EVFILT_PROC knote

worldVars == <<conn, knote, sock, pipe, proc>>
-----------------------------------------------------------------------------
State == {"kReadingFromSocket", "kWritingToPipe", "kReadingFromPipe",
          "kWritingToSocket"}

(* Client bytes are counted in request parts, CGI output in pieces.        *)
ConnRecord ==
  [state         : State,
   code          : Code,                     \* response_status_code_
   read          : Nat,                      \* read_
   from          : {"client", "cgi"},        \* whose bytes read_buffer_ holds
   stale         : BOOLEAN,                  \* they were parsed before
   leftover_data : {"unset", "zero", "some"},\* -1, 0, positive
   request       : Nat,                      \* RequestMessage::leftover_
   corrupt       : BOOLEAN,                  \* ... holds some bytes twice
   cgi_output    : Nat,                      \* ResponseMessage::leftover_
   foreign       : BOOLEAN,                  \* ... holds client bytes too
   to_write      : Nat,                      \* write_buffer_size_ - written_
   misdirected   : BOOLEAN,                  \* part of a reply left by pipe
   close         : BOOLEAN,                  \* header connection: close
   cgi_pid       : Pid \cup {NoPid},
   expired       : BOOLEAN]                  \* time_ is timeout_ or more ago

Knote == [st : {"none", "on", "off"}, udata : Conn \cup {Null}]

SockRecord ==
  [inbox : Nat,                              \* parts sent, not read yet
   due   : Nat,                              \* parts sent, not answered yet
   peer  : {"open", "fin", "reset"}]

PipeRecord ==
  [unread : Nat, emitted : Nat,              \* CGI output
   writer : BOOLEAN,                         \* its write end is open
   reader : BOOLEAN]                         \* the CGI input can be read

ProcRecord ==
  [st      : {"free", "running", "zombie"},
   ok      : BOOLEAN,                        \* exited with status 0
   killed  : BOOLEAN,                        \* SIGKILL sent
   armed   : BOOLEAN,                        \* EVFILT_PROC knote registered
   owner   : Conn \cup {Null},               \* Connection that forked it: udata
   plumbed : BOOLEAN]                        \* its pipes lead to the owner

NewConnection ==
  [state |-> "kReadingFromSocket", code |-> 200, read |-> 0, from |-> "client",
   stale |-> FALSE, leftover_data |-> "unset", request |-> 0,
   corrupt |-> FALSE, cgi_output |-> 0, foreign |-> FALSE, to_write |-> 0,
   misdirected |-> FALSE, close |-> FALSE, cgi_pid |-> NoPid,
   expired |-> FALSE]

NewSocket == [inbox |-> 0, due |-> 0, peer |-> "open"]
NoPipe    == [unread |-> 0, emitted |-> 0, writer |-> FALSE, reader |-> FALSE]
NoProc    == [st |-> "free", ok |-> FALSE, killed |-> FALSE, armed |-> FALSE,
              owner |-> Null, plumbed |-> FALSE]

WorldTypeOK ==
  /\ conn  \in [Conn -> ConnRecord]
  /\ knote \in [Conn -> [Role -> Knote]]
  /\ sock  \in [Conn -> SockRecord]
  /\ pipe  \in [Conn -> PipeRecord]
  /\ proc  \in [Pid -> ProcRecord]

WorldInit ==
  /\ conn  = [c \in Conn |-> NewConnection]
  /\ knote = [c \in Conn |-> NoKnotes]
  /\ sock  = [c \in Conn |-> NewSocket]
  /\ pipe  = [c \in Conn |-> NoPipe]
  /\ proc  = [p \in Pid |-> NoProc]
-----------------------------------------------------------------------------
(* Steps shared by the methods.                                            *)

Become(c, x)    == conn' = [conn EXCEPT ![c] = x]
SetKnotes(c, k) == knote' = [knote EXCEPT ![c] = k]

(* isResponseOk *)
IsResponseOk(code) == code \in {200, 204}

(* kill(cgi_pid_, SIGKILL); it does nothing to a zombie.                   *)
Kill(pr, p) ==
  IF p \in Pid /\ pr[p].st = "running" THEN [pr EXCEPT ![p].killed = TRUE] ELSE pr

(* The pipes of c are closed: its processes write and read nowhere.        *)
Unplumb(pr, c) ==
  [p \in Pid |-> IF pr[p].owner = c THEN [pr[p] EXCEPT !.plumbed = FALSE]
                                    ELSE pr[p]]

(* accept() and the constructor, the socket registered for both filters.   *)
OpenConnection(c) ==
  /\ Become(c, NewConnection)
  /\ SetKnotes(c, SetEvent(SetEvent(NoKnotes, "sockR", "EV_ADD", c),
                           "sockW", "EV_ADD_DISABLE", c))
  /\ sock' = [sock EXCEPT ![c] = NewSocket]
  /\ UNCHANGED <<pipe, proc>>

(* closeConnection and delete, with pr what else happened to the CGI       *)
(* processes in the step.  The EVFILT_PROC knote of a CGI process is not   *)
(* a descriptor of the connection and stays.                               *)
CloseConnection(c, pr) ==
  /\ Become(c, NewConnection)
  /\ SetKnotes(c, NoKnotes)
  /\ sock' = [sock EXCEPT ![c] = NewSocket]
  /\ pipe' = [pipe EXCEPT ![c] = NoPipe]
  /\ proc' = Unplumb(pr, c)
-----------------------------------------------------------------------------
(* readHandler and writeHandler, with the setEvent(..., EV_DISABLE, NULL)  *)
(* that the event loop adds after a handler that did not fail.             *)

Disarm(kn, r, c) ==
  SetEvent(SetEvent(kn, r, "EV_DISABLE", c), r, "EV_DISABLE", Null)

(* flags == EV_EOF never holds: the kernel also reports the flag EV_ADD    *)
(* the knote was registered with.  A reset makes read() fail.              *)
ReadFails(c, r) == r = "sockR" /\ sock[c].peer = "reset"

(* read() returns a prefix of what there is; event.data is 0 only at end   *)
(* of file.                                                                *)
Receive(c, n, from) ==
  Become(c, [conn[c] EXCEPT !.read = n,
                            !.from = IF n = 0 THEN "client" ELSE from,
                            !.stale = FALSE,
                            !.leftover_data = IF n = 0 THEN "zero" ELSE "some"])

ReadHandler(c, r) ==
  /\ ~ReadFails(c, r)
  /\ \/ /\ r = "sockR"
        /\ \E n \in IF sock[c].inbox = 0 THEN {0} ELSE 1..sock[c].inbox :
             /\ Receive(c, n, "client")
             /\ sock' = [sock EXCEPT ![c].inbox = @ - n]
        /\ UNCHANGED pipe
     \/ /\ r = "pipeR"
        /\ \E n \in IF pipe[c].unread = 0 THEN {0} ELSE 1..pipe[c].unread :
             /\ Receive(c, n, "cgi")
             /\ pipe' = [pipe EXCEPT ![c].unread = @ - n]
        /\ UNCHANGED sock
  /\ SetKnotes(c, Disarm(knote[c], r, c))
  /\ UNCHANGED proc

(* EPIPE: the client is gone, or the CGI process does not read.            *)
WriteFails(c, r) == \/ r = "sockW" /\ sock[c].peer = "reset"
                    \/ r = "pipeW" /\ ~pipe[c].reader

(* write() takes a prefix of the rest of the buffer, whichever descriptor  *)
(* the event is for.  The client has its reply with the last byte of it.   *)
Unanswered(s) == LET left == s.due - RequestParts
                 IN IF left < s.inbox THEN s.inbox ELSE left

WriteHandler(c, r) ==
  LET x == conn[c] IN
  /\ ~WriteFails(c, r)
  /\ \E left \in IF x.to_write = 0 THEN {0} ELSE 0..(x.to_write - 1) :
       /\ Become(c, [x EXCEPT
            !.to_write = left,
            !.misdirected = @ \/ (r = "pipeW" /\ x.state = "kWritingToSocket"
                                  /\ x.to_write # 0)])
       /\ sock' = [sock EXCEPT ![c].due =
            IF r = "sockW" /\ x.to_write # 0 /\ left = 0
              THEN Unanswered(sock[c])
              ELSE @]
  /\ SetKnotes(c, Disarm(knote[c], r, c))
  /\ UNCHANGED <<pipe, proc>>
-----------------------------------------------------------------------------
(* work(): checkTimeOut, then the method of the state.                     *)

TimedOut(c) == /\ conn[c].expired
               /\ conn[c].state = "kReadingFromSocket"
               /\ conn[c].read = 0
SystemOverload(c) == conn[c].expired /\ ~TimedOut(c)

(* Runs(c, s): time_out is AGAIN and the switch takes the case of state s. *)
Runs(c, s) == ~conn[c].expired /\ conn[c].state = s

(* The fields handlingStaticPage and handlingDynamicPage leave behind.  A  *)
(* code other than 2xx makes the reply say connection: close.              *)
ReplyOf(x, code, n, cl) ==
  [x EXCEPT !.code = code, !.to_write = n, !.close = cl, !.cgi_pid = NoPid,
            !.state = "kWritingToSocket"]
MayKeepAlive(code) == IF IsResponseOk(code) THEN BOOLEAN ELSE {TRUE}

(* createStatusLine looks the code up with at(), which throws.             *)
StatusLineThrows(code) == code \notin StatusMessages

Reply(c, x, code) ==
  /\ ~StatusLineThrows(code)
  /\ \E n \in 1..MaxWrite, cl \in MayKeepAlive(code) :
       Become(c, ReplyOf(x, code, n, cl))
  /\ SetKnotes(c, SetEvent(knote[c], "sockW", "EV_ENABLE", c))

(* SYSTEM_OVERLOAD in every state but kWritingToSocket: an error page.     *)
OverloadReply(c) ==
  /\ SystemOverload(c)
  /\ conn[c].state # "kWritingToSocket"
  /\ Reply(c, conn[c], 500)
  /\ proc' = Kill(proc, conn[c].cgi_pid)
  /\ UNCHANGED <<sock, pipe>>

OverloadCloses(c) ==
  /\ SystemOverload(c)
  /\ conn[c].state = "kWritingToSocket" \/ StatusLineThrows(500)
  /\ CloseConnection(c, Kill(proc, conn[c].cgi_pid))

TimeOutCloses(c) == TimedOut(c) /\ CloseConnection(c, proc)
-----------------------------------------------------------------------------
(* parsingRequestMessage.  RequestMessage::parse appends the read_ bytes   *)
(* of read_buffer_ to leftover_ and completes a request if it can; bytes   *)
(* appended a second time make what it will find there arbitrary.          *)

Appended(x) == x.request + x.read
Corrupts(x) == x.corrupt \/ (x.stale /\ x.read # 0)

(* Mutant: one part too few is taken for the whole request. *)
ParsesTooEarly(x) ==
  IF Corrupts(x) THEN Appended(x) # 0 ELSE Appended(x) >= RequestParts - 1
ParsesAgain(x) == Corrupts(x) \/ Appended(x) < RequestParts
Parses(x) == IF Corrupts(x) THEN Appended(x) # 0 ELSE Appended(x) >= RequestParts

(* AGAIN: read_ keeps its value.                                           *)
ParsingRequestMessageAgain(c) ==
  LET x == conn[c] IN
  /\ Runs(c, "kReadingFromSocket")
  /\ ParsesAgain(x)
  /\ Become(c, [x EXCEPT !.request = IF Corrupts(x) THEN 0 ELSE Appended(x),
                         !.corrupt = Corrupts(x),
                         !.stale = x.read # 0])
  /\ SetKnotes(c, SetEvent(knote[c], "sockR", "EV_ENABLE", c))
  /\ UNCHANGED <<sock, pipe, proc>>

(* Mutant: read_ keeps its value. *)
ParsedKeepsRead(x) ==
  {[x EXCEPT !.request = r, !.corrupt = Corrupts(x), !.stale = FALSE,
             !.leftover_data = "unset"] :
     r \in IF Corrupts(x) THEN {0, 1} ELSE {Appended(x) - RequestParts}}

(* SUCCESS: the rest of leftover_, read_ reset, time_ updated.             *)
Parsed(x) ==
  {[x EXCEPT !.request = r, !.corrupt = Corrupts(x), !.read = 0, !.stale = FALSE,
             !.leftover_data = "unset"] :
     r \in IF Corrupts(x) THEN {0, 1} ELSE {Appended(x) - RequestParts}}

(* The code the parser, setConfigInfo, the checks and createPagePath leave.*)
(* A 500 set by a process event is overwritten only by a body.             *)
RequestCode(x) == {200, 204, 400} \cup (IF x.code = 500 THEN {500} ELSE {})

HandlingStaticPage(c) ==
  /\ "static" \in Request
  /\ Runs(c, "kReadingFromSocket")
  /\ Parses(conn[c])
  /\ \E x \in Parsed(conn[c]), code \in RequestCode(conn[c]) : Reply(c, x, code)
  /\ UNCHANGED <<sock, pipe, proc>>

(* A code without a status line, a directory that cannot be opened or a    *)
(* uri that does not contain the location: an exception.                   *)
ParsingRequestMessageThrows(c) ==
  /\ Runs(c, "kReadingFromSocket")
  /\ Parses(conn[c])
  /\ CloseConnection(c, proc)

(* executeCgiProcess.  fork() gives p; registering EVFILT_PROC fails if    *)
(* the process has already exited, which setEvent ignores.                 *)
Forked(c, p, early) ==
  [proc EXCEPT ![p] = [st |-> IF early THEN "zombie" ELSE "running",
                       ok |-> FALSE, killed |-> FALSE, armed |-> ~early,
                       owner |-> c, plumbed |-> TRUE]]

StartCgi(c, x, code, p, early) ==
  LET piped == SetEvent(knote[c], "pipeR", "EV_ADD_DISABLE", c) IN
  /\ proc' = Forked(c, p, early)
  /\ pipe' = [pipe EXCEPT ![c] = [unread |-> 0, emitted |-> 0,
                                  writer |-> ~early, reader |-> ~early]]
  /\ \/ \E n \in 0..MaxWrite :
          /\ "post" \in Request
          /\ Become(c, [x EXCEPT !.code = code, !.cgi_pid = p, !.to_write = n,
                                 !.state = "kWritingToPipe"])
          /\ SetKnotes(c, SetEvent(piped, "pipeW", "EV_ADD", c))
     \/ /\ "get" \in Request
        /\ Become(c, [x EXCEPT !.code = code, !.cgi_pid = p,
                               !.state = "kReadingFromPipe"])
        /\ SetKnotes(c, SetEvent(piped, "pipeR", "EV_ENABLE", Null))
  /\ UNCHANGED sock

ExecuteCgiProcess(c) ==
  /\ Runs(c, "kReadingFromSocket")
  /\ Parses(conn[c])
  /\ \E x \in Parsed(conn[c]), code \in {200, 204}, early \in BOOLEAN,
        p \in {q \in Pid : proc[q].st = "free"} :
       StartCgi(c, x, code, p, early)

(* pipe, fork or fcntl failed: is_connection_close_ is set, the rest of    *)
(* the method runs, and work() makes the server close the connection.      *)
(* After a failed pipe() the process is there all the same; what the       *)
(* uninitialized descriptors do is left out.                               *)
ExecuteCgiProcessFails(c) ==
  /\ Request # {"static"}
  /\ Runs(c, "kReadingFromSocket")
  /\ Parses(conn[c])
  /\ \/ "fork" \in Failing /\ CloseConnection(c, proc)
     \/ /\ "pipe" \in Failing
        /\ \E p \in {q \in Pid : proc[q].st = "free"}, early \in BOOLEAN :
             CloseConnection(c, Forked(c, p, early))
-----------------------------------------------------------------------------
(* writingToPipe *)

WritingToPipeAgain(c) ==
  /\ Runs(c, "kWritingToPipe")
  /\ conn[c].to_write # 0
  /\ SetKnotes(c, SetEvent(knote[c], "pipeW", "EV_ENABLE", c))
  /\ UNCHANGED <<conn, sock, pipe, proc>>

(* Mutant: the pipe is not closed, so the CGI process sees no end of file. *)
WritingToPipeLeavesOpen(c) ==
  /\ Runs(c, "kWritingToPipe")
  /\ conn[c].to_write = 0
  /\ Become(c, [conn[c] EXCEPT !.state = "kReadingFromPipe"])
  /\ UNCHANGED <<knote, sock, pipe, proc>>

WritingToPipeDone(c) ==
  /\ Runs(c, "kWritingToPipe")
  /\ conn[c].to_write = 0
  /\ Become(c, [conn[c] EXCEPT !.state = "kReadingFromPipe"])
  /\ SetKnotes(c, CloseFd(knote[c], "pipeW"))
  /\ UNCHANGED <<sock, pipe, proc>>

(* handlingDynamicPage *)

(* Mutant: the end of the process is taken for the end of its output. *)
ExitEndsOutput(x) == x.cgi_pid = NoPid

CheckPipeReadDone(x) == x.leftover_data = "zero" /\ x.cgi_pid = NoPid

HandlingDynamicPageAgain(c) ==
  LET x == conn[c] IN
  /\ Runs(c, "kReadingFromPipe")
  /\ ~CheckPipeReadDone(x)
  /\ Become(c, [x EXCEPT
       !.cgi_output = IF x.from = "cgi" THEN @ + x.read ELSE @,
       !.foreign = @ \/ (x.from = "client" /\ x.read # 0),
       !.read = 0, !.from = "client", !.stale = FALSE])
  /\ SetKnotes(c, SetEvent(knote[c], "pipeR", "EV_ENABLE", c))
  /\ UNCHANGED <<sock, pipe, proc>>

(* A malformed header field in the CGI output makes the code 400.          *)
CgiCode(x) ==
  {x.code} \cup (IF x.cgi_output # 0 \/ x.foreign THEN {400} ELSE {})

HandlingDynamicPageDone(c) ==
  /\ Runs(c, "kReadingFromPipe")
  /\ CheckPipeReadDone(conn[c])
  /\ \E code \in CgiCode(conn[c]) :
       /\ ~StatusLineThrows(code)
       /\ \E n \in 1..MaxWrite, cl \in MayKeepAlive(code) :
            Become(c, ReplyOf(conn[c], code, n, cl))
  /\ SetKnotes(c, SetEvent(CloseFd(knote[c], "pipeR"), "sockW", "EV_ENABLE", c))
  /\ pipe' = [pipe EXCEPT ![c] = NoPipe]
  /\ proc' = Unplumb(proc, c)
  /\ UNCHANGED sock

HandlingDynamicPageThrows(c) ==
  /\ Runs(c, "kReadingFromPipe")
  /\ CheckPipeReadDone(conn[c])
  /\ \E code \in CgiCode(conn[c]) : StatusLineThrows(code)
  /\ CloseConnection(c, proc)

(* writingToSocket *)

WritingToSocketAgain(c) ==
  /\ Runs(c, "kWritingToSocket")
  /\ conn[c].to_write # 0
  /\ SetKnotes(c, SetEvent(knote[c], "sockW", "EV_ENABLE", c))
  /\ UNCHANGED <<conn, sock, pipe, proc>>

(* clear() keeps what follows the request in RequestMessage::leftover_.    *)
Cleared(x) == [NewConnection EXCEPT !.request = x.request, !.corrupt = x.corrupt,
                                    !.leftover_data = "zero"]

WritingToSocketDone(c) ==
  /\ Runs(c, "kWritingToSocket")
  /\ conn[c].to_write = 0
  /\ ~conn[c].close
  /\ Become(c, Cleared(conn[c]))
  /\ SetKnotes(c, SetEvent(knote[c], "sockR", "EV_ENABLE", c))
  /\ UNCHANGED <<sock, pipe, proc>>

WritingToSocketCloses(c) ==
  /\ Runs(c, "kWritingToSocket")
  /\ conn[c].to_write = 0
  /\ conn[c].close
  /\ CloseConnection(c, proc)
-----------------------------------------------------------------------------
(* work() returns SUCCESS; work() returns CONNECTION_CLOSE or throws.      *)

WorkContinues(c) ==
  \/ OverloadReply(c)
  \/ ParsingRequestMessageAgain(c)
  \/ HandlingStaticPage(c)
  \/ ExecuteCgiProcess(c)
  \/ WritingToPipeAgain(c)
  \/ WritingToPipeDone(c)
  \/ HandlingDynamicPageAgain(c)
  \/ HandlingDynamicPageDone(c)
  \/ WritingToSocketAgain(c)
  \/ WritingToSocketDone(c)

WorkCloses(c) ==
  \/ TimeOutCloses(c)
  \/ OverloadCloses(c)
  \/ ParsingRequestMessageThrows(c)
  \/ ExecuteCgiProcessFails(c)
  \/ HandlingDynamicPageThrows(c)
  \/ WritingToSocketCloses(c)
-----------------------------------------------------------------------------
(* The outside world: the client, the CGI processes, the clock.            *)

ClientSends(c) ==
  /\ sock[c].peer = "open"
  /\ \E n \in 1..RequestParts :
       /\ sock[c].due + n <= MaxAhead * RequestParts             \* bound
       /\ sock' = [sock EXCEPT ![c].inbox = @ + n, ![c].due = @ + n]
  /\ UNCHANGED <<conn, knote, pipe, proc>>

ClientShutsDown(c) ==
  /\ sock[c].peer = "open"
  /\ sock' = [sock EXCEPT ![c].peer = "fin"]
  /\ UNCHANGED <<conn, knote, pipe, proc>>

ClientResets(c) ==
  /\ sock[c].peer # "reset"
  /\ sock' = [sock EXCEPT ![c].peer = "reset", ![c].inbox = 0]
  /\ UNCHANGED <<conn, knote, pipe, proc>>

(* A CGI process in action, its pipes still there or not.                  *)
CgiWrites(p) ==
  LET c == proc[p].owner IN
  /\ proc[p].st = "running" /\ proc[p].plumbed
  /\ pipe[c].writer
  /\ pipe[c].emitted < MaxOut                                    \* bound
  /\ pipe' = [pipe EXCEPT ![c].unread = @ + 1, ![c].emitted = @ + 1]
  /\ UNCHANGED <<conn, knote, sock, proc>>

CgiClosesEnd(p) ==
  LET c == proc[p].owner IN
  /\ proc[p].st = "running" /\ proc[p].plumbed
  /\ \/ pipe[c].writer /\ pipe' = [pipe EXCEPT ![c].writer = FALSE]
     \/ pipe[c].reader /\ pipe' = [pipe EXCEPT ![c].reader = FALSE]
  /\ UNCHANGED <<conn, knote, sock, proc>>

CgiExits(p) ==
  /\ proc[p].st = "running"
  /\ \E ok \in IF proc[p].killed THEN {FALSE} ELSE BOOLEAN :
       proc' = [proc EXCEPT ![p].st = "zombie", ![p].ok = ok]
  /\ pipe' = IF proc[p].plumbed
               THEN [pipe EXCEPT ![proc[p].owner].writer = FALSE,
                                 ![proc[p].owner].reader = FALSE]
               ELSE pipe
  /\ UNCHANGED <<conn, knote, sock>>

(* timeout_ seconds have passed since time_ was updated.                   *)
Expires(c) ==
  /\ ~conn[c].expired
  /\ Become(c, [conn[c] EXCEPT !.expired = TRUE])
  /\ UNCHANGED <<knote, sock, pipe, proc>>
=============================================================================
