------------------------------- MODULE Server -------------------------------
(***************************************************************************)
(* The event loop, Server::run (src/src/Server.cpp): one thread that polls *)
(* the kernel queue, dispatches the events it got, then gives every        *)
(* connection of work_queue one call of work().                            *)
(***************************************************************************)
EXTENDS Connection, FiniteSets, SequencesExt

CONSTANT EventListSize      \* the length of event_list, 10 in the code

ASSUME ServerAssumption == EventListSize \in Nat \ {0}

VARIABLES
  phase,         \* "dispatch": the for loop over event_list; "work": the next
  batch,         \* the events of event_list not dispatched yet
  connections,   \* the set of live connections
  work_queue,    \* the deque of connections
  todo,          \* queue_size: calls of work() left in this round
  up             \* the process has not crashed

serverVars == <<phase, batch, connections, work_queue, todo, up>>
vars == <<worldVars, serverVars>>
-----------------------------------------------------------------------------
(* An event names its knote (the descriptor by owner and role, or the      *)
(* process) and carries the udata pointer stored there.                    *)
FdEvent(c, r) == [filter |-> r, ident |-> c, udata |-> knote[c][r].udata]
ProcEvent(p)  == [filter |-> "proc", ident |-> p, udata |-> proc[p].owner]
ListenEvent   == [filter |-> "listen", ident |-> Null, udata |-> Null]

Event == [filter : Role, ident : Conn, udata : Conn \cup {Null}]
         \cup [filter : {"proc"}, ident : Pid, udata : Conn \cup {Null}]
         \cup {ListenEvent}

(* What kevent() finds on each enabled knote.  A socket or a pipe may or   *)
(* may not have room for a write; a client may or may not be connecting.   *)
Enabled(c, r) == knote[c][r].st = "on"

(* Mutant: NOTE_EXEC instead of NOTE_EXIT. *)
ExecNoted(p) == proc[p].armed

(* NOTE_EXIT: the knote of a CGI process fires when the process has ended. *)
ExitNoted(p) == proc[p].armed /\ proc[p].st = "zombie"

Ready ==
  {FdEvent(c, "sockR") : c \in
     {d \in Conn : Enabled(d, "sockR") /\ (sock[d].inbox # 0 \/ sock[d].peer # "open")}}
  \cup {FdEvent(c, "sockW") : c \in
     {d \in Conn : Enabled(d, "sockW") /\ sock[d].peer = "reset"}}
  \cup {FdEvent(c, "pipeR") : c \in
     {d \in Conn : Enabled(d, "pipeR") /\ (pipe[d].unread # 0 \/ ~pipe[d].writer)}}
  \cup {FdEvent(c, "pipeW") : c \in
     {d \in Conn : Enabled(d, "pipeW") /\ ~pipe[d].reader}}
  \cup {ProcEvent(p) : p \in {q \in Pid : ExitNoted(q)}}

MayBeReady ==
  {ListenEvent}
  \cup UNION {{FdEvent(c, r) : r \in {s \in {"sockW", "pipeW"} : Enabled(c, s)}} :
              c \in Conn}

(* The event lists kevent() can return: all that is ready, or as many as   *)
(* fit.                                                                    *)
EventLists ==
  IF Cardinality(Ready \cup MayBeReady) <= EventListSize
    THEN {Ready \cup M : M \in SUBSET MayBeReady}
    ELSE {Ready \cup M : M \in {N \in SUBSET MayBeReady :
                                 Cardinality(Ready \cup N) <= EventListSize}}
         \cup kSubset(EventListSize, Ready \cup MayBeReady)
-----------------------------------------------------------------------------
Init ==
  /\ WorldInit
  /\ phase = "work" /\ todo = 0
  /\ batch = {} /\ connections = {} /\ work_queue = <<>>
  /\ up = TRUE

(* kevent(): the process knotes it returns are gone (NOTE_EXIT).           *)
Poll ==
  /\ up /\ phase = "work" /\ todo = 0
  /\ \E B \in EventLists :
       /\ batch' = B
       /\ proc' = [p \in Pid |-> IF \E e \in B : e.filter = "proc" /\ e.ident = p
                                   THEN [proc[p] EXCEPT !.armed = FALSE]
                                   ELSE proc[p]]
  /\ phase' = "dispatch"
  /\ UNCHANGED <<conn, knote, sock, pipe, connections, work_queue, todo, up>>

(* Mutant: the loop that removes the pointer from work_queue is missing. *)
EraseFromSetOnly(c) ==
  /\ connections' = connections \ {c}
  /\ UNCHANGED work_queue

(* eraseConnection on the containers; closeConnection and delete are in    *)
(* CloseConnection.                                                        *)
Erase(c) ==
  /\ connections' = connections \ {c}
  /\ work_queue' = RemoveFirst(work_queue, c)

(* A method called on a pointer that is no Connection.                     *)
Crash ==
  /\ up' = FALSE
  /\ UNCHANGED <<worldVars, phase, batch, connections, work_queue, todo>>

Dispatches(e) == up /\ phase = "dispatch" /\ e \in batch
Continue(e) == batch' = batch \ {e} /\ UNCHANGED <<phase, todo, up>>
Break == batch' = {} /\ UNCHANGED <<phase, todo, up>>

(* acceptClient; its failure is only logged.                               *)
AcceptClient(e) ==
  /\ Dispatches(e) /\ e.filter = "listen"
  /\ \/ \E c \in Conn \ connections :
          /\ OpenConnection(c)
          /\ connections' = connections \cup {c}
          /\ work_queue' = Append(work_queue, c)
     \/ UNCHANGED <<worldVars, connections, work_queue>>
  /\ Continue(e)

IsLive(e) == e.udata = e.ident /\ e.ident \in connections

DispatchRead(e) ==
  /\ Dispatches(e) /\ e.filter \in {"sockR", "pipeR"}
  /\ \/ /\ IsLive(e)
        /\ ReadHandler(e.ident, e.filter)
        /\ Continue(e)
        /\ UNCHANGED <<connections, work_queue>>
     \/ /\ IsLive(e)
        /\ ReadFails(e.ident, e.filter)
        /\ CloseConnection(e.ident, proc)
        /\ Erase(e.ident)
        /\ Break
     \/ ~IsLive(e) /\ Crash

(* Mutant: no break after eraseConnection. *)
DispatchWriteGoesOn(e) ==
  /\ Dispatches(e) /\ e.filter \in {"sockW", "pipeW"}
  /\ \/ /\ IsLive(e)
        /\ WriteHandler(e.ident, e.filter)
        /\ Continue(e)
        /\ UNCHANGED <<connections, work_queue>>
     \/ /\ IsLive(e)
        /\ WriteFails(e.ident, e.filter)
        /\ CloseConnection(e.ident, proc)
        /\ Erase(e.ident)
        /\ Continue(e)
     \/ ~IsLive(e) /\ Crash

DispatchWrite(e) ==
  /\ Dispatches(e) /\ e.filter \in {"sockW", "pipeW"}
  /\ \/ /\ IsLive(e)
        /\ WriteHandler(e.ident, e.filter)
        /\ Continue(e)
        /\ UNCHANGED <<connections, work_queue>>
     \/ /\ IsLive(e)
        /\ WriteFails(e.ident, e.filter)
        /\ CloseConnection(e.ident, proc)
        /\ Erase(e.ident)
        /\ Break
     \/ ~IsLive(e) /\ Crash

(* Mutant: clearCgiPid is not called. *)
DispatchProcKeepsPid(e) ==
  LET p == e.ident  c == e.udata  ok == proc[p].ok IN
  /\ Dispatches(e) /\ e.filter = "proc"
  /\ conn' = IF c \in connections /\ ~ok THEN [conn EXCEPT ![c].code = 500] ELSE conn
  /\ proc' = [proc EXCEPT ![p] = NoProc]
  /\ IF ok THEN Continue(e) ELSE Break
  /\ UNCHANGED <<knote, sock, pipe, connections, work_queue>>

(* waitpid, clearCgiPid and, if the process failed,                        *)
(* setResponseStatusCode(500) on whatever Connection is at the pointer     *)
(* now.  Writing to freed memory goes unnoticed or crashes.                *)
DispatchProc(e) ==
  LET p == e.ident  c == e.udata  ok == proc[p].ok IN
  /\ Dispatches(e) /\ e.filter = "proc"
  /\ \/ /\ c \in connections
        /\ Become(c, [conn[c] EXCEPT !.cgi_pid = NoPid,
                                     !.code = IF ok THEN @ ELSE 500])
     \/ c \notin connections /\ UNCHANGED conn
  /\ proc' = [proc EXCEPT ![p] = NoProc]
  /\ IF ok THEN Continue(e) ELSE Break
  /\ UNCHANGED <<knote, sock, pipe, connections, work_queue>>

DispatchProcCrashes(e) ==
  /\ Dispatches(e) /\ e.filter = "proc"
  /\ e.udata \notin connections
  /\ Crash

(* The loop over event_list is over; queue_size is read once.              *)
StartWork ==
  /\ up /\ phase = "dispatch" /\ batch = {}
  /\ phase' = "work"
  /\ todo' = Len(work_queue)
  /\ UNCHANGED <<worldVars, batch, connections, work_queue, up>>

Works(c) == up /\ phase = "work" /\ todo > 0 /\ c = Head(work_queue)

(* Mutant: the connection is not put back on the queue. *)
WorkForgets(c) ==
  /\ Works(c)
  /\ WorkContinues(c)
  /\ work_queue' = Tail(work_queue)
  /\ todo' = todo - 1
  /\ UNCHANGED <<phase, batch, connections, up>>

(* Mutant: push_front instead of push_back. *)
WorkKeepsFirst(c) ==
  /\ Works(c)
  /\ WorkContinues(c)
  /\ work_queue' = <<c>> \o Tail(work_queue)
  /\ todo' = todo - 1
  /\ UNCHANGED <<phase, batch, connections, up>>

(* One iteration of the work loop: the connection goes to the back of the  *)
(* queue, or is erased (it is no longer in the queue then).                *)
WorkKeeps(c) ==
  /\ Works(c)
  /\ WorkContinues(c)
  /\ work_queue' = Append(Tail(work_queue), c)
  /\ todo' = todo - 1
  /\ UNCHANGED <<phase, batch, connections, up>>

WorkErases(c) ==
  /\ Works(c)
  /\ WorkCloses(c)
  /\ connections' = connections \ {c}
  /\ work_queue' = RemoveFirst(Tail(work_queue), c)
  /\ todo' = todo - 1
  /\ UNCHANGED <<phase, batch, up>>

(* The process died: nothing more happens.                                 *)
Dead == ~up /\ UNCHANGED vars
-----------------------------------------------------------------------------
Dispatch == \E e \in batch : \/ AcceptClient(e)
                             \/ DispatchRead(e)
                             \/ DispatchWrite(e)
                             \/ DispatchProc(e)
                             \/ DispatchProcCrashes(e)

Work == \E c \in connections : WorkKeeps(c) \/ WorkErases(c)

ServerStep == Poll \/ Dispatch \/ StartWork \/ Work

Environment ==
  /\ up
  /\ \/ \E c \in connections : \/ ClientSends(c)
                               \/ ClientShutsDown(c)
                               \/ ClientResets(c)
                               \/ Expires(c)
     \/ \E p \in Pid : CgiWrites(p) \/ CgiClosesEnd(p) \/ CgiExits(p)
  /\ UNCHANGED serverVars

Next == ServerStep \/ Environment \/ Dead

Spec == Init /\ [][Next]_vars

(* The loop is one thread that never sleeps: kevent() is called with a     *)
(* zero timeout.  Time passes whatever the server does.                    *)
Passes(c) == up /\ c \in connections /\ Expires(c) /\ UNCHANGED serverVars

FairSpec == Spec /\ WF_vars(ServerStep) /\ \A c \in Conn : WF_vars(Passes(c))
-----------------------------------------------------------------------------
TypeOK ==
  /\ WorldTypeOK
  /\ phase \in {"dispatch", "work"}
  /\ batch \subseteq Event
  /\ connections \subseteq Conn
  /\ work_queue \in Seq(Conn)
  /\ todo \in Nat
  /\ up \in BOOLEAN

(* work_queue holds every live connection exactly once and nothing else,   *)
(* so no call of work() is made on a deleted Connection and none is        *)
(* forgotten; the round never outlasts the queue (Server.cpp, the two      *)
(* loops and eraseConnection).                                             *)
QueueExact ==
  /\ \A i, j \in 1..Len(work_queue) : work_queue[i] = work_queue[j] => i = j
  /\ Range(work_queue) = connections
  /\ todo <= Len(work_queue)

(* Every descriptor event still to be dispatched is for an open descriptor *)
(* of a live connection and carries that connection, or NULL: erasing a    *)
(* connection drops the rest of event_list (the break after                *)
(* eraseConnection).                                                       *)
BatchLive ==
  \A e \in batch : e.filter \in Role =>
    /\ e.ident \in connections
    /\ IsOpen(knote[e.ident], e.filter)
    /\ e.udata \in {e.ident, Null}

(* cgi_pid_ is the id of a process this very connection forked and that    *)
(* has not been waited for, in a CGI state of the connection: kill()       *)
(* reaches no stranger that got the id after it was freed.                 *)
KillTarget ==
  \A c \in Conn : conn[c].cgi_pid # NoPid =>
    /\ c \in connections
    /\ conn[c].state \in {"kWritingToPipe", "kReadingFromPipe"}
    /\ LET p == conn[c].cgi_pid IN
       /\ proc[p].st # "free"
       /\ proc[p].owner = c /\ proc[p].plumbed

(* waitpid() in the event loop never blocks: a process event is dispatched *)
(* while the process is a zombie that nobody else waits for.               *)
WaitpidNeverBlocks ==
  \A e \in batch : e.filter = "proc" => proc[e.ident].st = "zombie"

(* A CGI pipe is open only while the connection is in the state that uses  *)
(* it, or once it is overdue (and will be closed): a reply that is sent in *)
(* time never shares write_buffer_ with the CGI input, and no descriptor   *)
(* survives the request it was opened for.                                 *)
PipesClosedInTime ==
  \A c \in connections :
    /\ IsOpen(knote[c], "pipeW") =>
         \/ conn[c].state = "kWritingToPipe"
         \/ conn[c].state = "kWritingToSocket" /\ conn[c].expired
    /\ IsOpen(knote[c], "pipeR") =>
         \/ conn[c].state \in {"kWritingToPipe", "kReadingFromPipe"}
         \/ conn[c].state = "kWritingToSocket" /\ conn[c].expired

(* A client that waits for each reply: every part of a request it sent is  *)
(* in the socket, in read_buffer_, in leftover_ or in the request being    *)
(* served, exactly once, until the reply is out (readHandler, parse,       *)
(* clear).                                                                 *)
RequestsAccounted ==
  \A c \in connections :
    LET x == conn[c] IN
    sock[c].peer # "reset" /\ ~x.expired /\ ~Corrupts(x) =>
      sock[c].due = sock[c].inbox + x.request
                    + (IF x.from = "client" THEN x.read ELSE 0)
                    + (IF \/ x.state = "kReadingFromSocket"
                          \/ x.state = "kWritingToSocket" /\ x.to_write = 0
                         THEN 0 ELSE RequestParts)

(* A reply made from CGI output holds all that the CGI process wrote and   *)
(* nothing else (checkPipeReadDone waits for the end of file and for the   *)
(* end of the process), if no byte of the request was parsed twice.        *)
CgiReplyComplete ==
  [][\A c \in Conn :
       /\ conn[c].state = "kReadingFromPipe"
       /\ conn'[c].state = "kWritingToSocket"
       /\ ~conn[c].expired /\ ~conn[c].corrupt
       => conn[c].cgi_output = pipe[c].emitted /\ ~conn[c].foreign]_vars

(* An overdue connection is closed, whatever its client and its CGI        *)
(* process do (checkTimeOut).                                              *)
OverdueCloses ==
  \A c \in Conn :
    (c \in connections /\ conn[c].expired) ~> (c \notin connections \/ ~up)

(* The abstract view: the first todo connections of work_queue are those   *)
(* that wait for their call of work() in this round.                       *)
InRound == {work_queue[i] : i \in 1..todo}

Rounds == INSTANCE RoundRobin
            WITH Stage <- State, live <- connections, pending <- InRound,
                 progress <- [c \in Conn |-> conn[c].state], running <- up

(* The queue, its length read once and the two loops that change it give   *)
(* every live connection one call of work() in each round and no deleted   *)
(* one any, and the state of a connection changes only in its own call     *)
(* (Server.cpp, work loop and eraseConnection).                            *)
ServesInRounds == Rounds!Spec

(* However busy the other connections are, each live one is served again   *)
(* and again (the loop never waits in kevent() and the rounds are finite). *)
NobodyStarves == Rounds!NobodyStarves

-----------------------------------------------------------------------------
(* What the repository says and the code does not do (see README.md).      *)

(* Every event of a client or CGI descriptor reaches its connection.       *)
EventReachesConnection == \A e \in batch : e.filter \in Role => e.udata # Null

(* The parser is given each byte once.                                     *)
EachByteParsedOnce == \A c \in connections : ~Corrupts(conn[c])

(* A process event reaches the connection that started the process.        *)
ProcEventReachesOwner ==
  \A e \in batch : e.filter = "proc" =>
    e.udata \in connections /\ proc[e.ident].plumbed

(* The output of a CGI process is not mixed with bytes of the client.      *)
CgiOutputUnmixed == \A c \in connections : ~conn[c].foreign

(* What is written to a pipe is the body of a request; replies go to the   *)
(* socket.                                                                 *)
ReplyGoesToSocket == \A c \in connections : ~conn[c].misdirected
=============================================================================
