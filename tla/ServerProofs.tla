---------------------------- MODULE ServerProofs ----------------------------
(***************************************************************************)
(* Theorems about the event loop, for any number of connections and        *)
(* processes: every variable keeps its type, and the loop implements       *)
(* RoundRobin.                                                             *)
(***************************************************************************)
EXTENDS Server, SequenceTheorems, TLAPS

(***************************************************************************)
(* The methods of Connection: what each of them does to the types of the   *)
(* five world variables.                                                   *)
(***************************************************************************)
(* Knotes. *)
LEMMA SetEventType ==
  ASSUME NEW kn \in [Role -> Knote], NEW r \in Role, NEW flag,
         NEW u \in Conn \cup {Null}
  PROVE  SetEvent(kn, r, flag, u) \in [Role -> Knote]
  BY DEF Knote, SetEvent

LEMMA CloseFdType ==
  ASSUME NEW kn \in [Role -> Knote], NEW r \in Role
  PROVE  CloseFd(kn, r) \in [Role -> Knote] /\ NoKnotes \in [Role -> Knote]
  BY DEF Knote, CloseFd, NoKnotes, NoKnote

LEMMA SetKnotesType ==
  ASSUME WorldTypeOK, NEW c \in Conn, NEW k \in [Role -> Knote], SetKnotes(c, k)
  PROVE  knote' \in [Conn -> [Role -> Knote]]
  BY DEF WorldTypeOK, SetKnotes

LEMMA DisarmType ==
  ASSUME NEW kn \in [Role -> Knote], NEW r \in Role, NEW c \in Conn
  PROVE  Disarm(kn, r, c) \in [Role -> Knote]
  BY SetEventType DEF Disarm

(* Connection records. *)
LEMMA NewConnectionType == NewConnection \in ConnRecord
  BY DEF NewConnection, ConnRecord, State, Code

LEMMA BecomeType ==
  ASSUME WorldTypeOK, NEW c \in Conn, NEW x \in ConnRecord, Become(c, x)
  PROVE  conn' \in [Conn -> ConnRecord]
  BY DEF WorldTypeOK, Become

LEMMA FieldTypes ==
  ASSUME NEW x \in ConnRecord
  PROVE  /\ x.state \in State /\ x.code \in Code /\ x.read \in Nat
         /\ x.request \in Nat /\ x.cgi_output \in Nat /\ x.to_write \in Nat
         /\ x.stale \in BOOLEAN /\ x.corrupt \in BOOLEAN
         /\ x.foreign \in BOOLEAN /\ x.misdirected \in BOOLEAN
         /\ x.cgi_pid \in Pid \cup {NoPid}
  BY DEF ConnRecord

LEMMA ReplyOfType ==
  ASSUME NEW x \in ConnRecord, NEW code \in Code, NEW n \in Nat, NEW cl \in BOOLEAN
  PROVE  ReplyOf(x, code, n, cl) \in ConnRecord
  BY Zenon DEF ConnRecord, ReplyOf, State

LEMMA ParsedType ==
  ASSUME NEW x \in ConnRecord, Parses(x), NEW y \in Parsed(x)
  PROVE  y \in ConnRecord
<1>1. x.read \in Nat /\ x.request \in Nat /\ RequestParts \in Nat
  BY FieldTypes, ConnectionAssumption
<1>2. PICK r \in (IF Corrupts(x) THEN {0, 1} ELSE {Appended(x) - RequestParts}) :
        y = [x EXCEPT !.request = r, !.corrupt = Corrupts(x), !.read = 0,
                      !.stale = FALSE, !.leftover_data = "unset"]
  BY DEF Parsed
<1>3. r \in Nat /\ 0 \in Nat
  BY <1>1, <1>2 DEF Parses, Appended
<1>4. Corrupts(x) \in BOOLEAN
  BY FieldTypes DEF Corrupts
<1> QED BY <1>2, <1>3, <1>4, Zenon DEF ConnRecord

(* Sockets, pipes and processes. *)
LEMMA UnplumbType ==
  ASSUME NEW pr \in [Pid -> ProcRecord], NEW c \in Conn
  PROVE  Unplumb(pr, c) \in [Pid -> ProcRecord]
  BY Zenon DEF ProcRecord, Unplumb

LEMMA KillType ==
  ASSUME NEW pr \in [Pid -> ProcRecord], NEW p
  PROVE  Kill(pr, p) \in [Pid -> ProcRecord]
  BY Zenon DEF ProcRecord, Kill

LEMMA ForkedType ==
  ASSUME WorldTypeOK, NEW c \in Conn, NEW p \in Pid, NEW early \in BOOLEAN
  PROVE  Forked(c, p, early) \in [Pid -> ProcRecord]
  BY Zenon DEF WorldTypeOK, ProcRecord, Forked

LEMMA CloseConnectionType ==
  ASSUME WorldTypeOK, NEW c \in Conn, NEW pr \in [Pid -> ProcRecord],
         CloseConnection(c, pr)
  PROVE  WorldTypeOK'
<1>1. conn' \in [Conn -> ConnRecord]
  BY NewConnectionType, BecomeType DEF CloseConnection
<1>2. knote' \in [Conn -> [Role -> Knote]]
  BY CloseFdType, SetKnotesType DEF CloseConnection, SetKnotes, NoKnotes,
     NoKnote, Knote, WorldTypeOK
<1>3. NewSocket \in SockRecord /\ NoPipe \in PipeRecord
  BY DEF NewSocket, SockRecord, NoPipe, PipeRecord
<1>4. sock' \in [Conn -> SockRecord] /\ pipe' \in [Conn -> PipeRecord]
  BY <1>3 DEF CloseConnection, WorldTypeOK
<1>5. proc' \in [Pid -> ProcRecord]
  BY UnplumbType DEF CloseConnection
<1> QED BY <1>1, <1>2, <1>4, <1>5 DEF WorldTypeOK

LEMMA OpenConnectionType ==
  ASSUME WorldTypeOK, NEW c \in Conn, OpenConnection(c)
  PROVE  WorldTypeOK'
<1>1. conn' \in [Conn -> ConnRecord]
  BY NewConnectionType, BecomeType DEF OpenConnection
<1>2. knote' \in [Conn -> [Role -> Knote]]
  <2>1. NoKnotes \in [Role -> Knote] /\ "sockR" \in Role /\ "sockW" \in Role
    BY DEF NoKnotes, NoKnote, Knote, Role
  <2>2. SetEvent(NoKnotes, "sockR", "EV_ADD", c) \in [Role -> Knote]
    BY <2>1, SetEventType
  <2>3. SetEvent(SetEvent(NoKnotes, "sockR", "EV_ADD", c), "sockW",
                 "EV_ADD_DISABLE", c) \in [Role -> Knote]
    BY <2>1, <2>2, SetEventType
  <2> QED BY <2>3, SetKnotesType DEF OpenConnection
<1>3. NewSocket \in SockRecord
  BY DEF NewSocket, SockRecord
<1>4. sock' \in [Conn -> SockRecord]
  BY <1>3 DEF OpenConnection, WorldTypeOK
<1> QED BY <1>1, <1>2, <1>4 DEF WorldTypeOK, OpenConnection
-----------------------------------------------------------------------------
(* The event handlers. *)
LEMMA ReceiveType ==
  ASSUME WorldTypeOK, NEW c \in Conn, NEW n \in Nat, NEW from \in {"client", "cgi"},
         Receive(c, n, from)
  PROVE  conn' \in [Conn -> ConnRecord]
<1> DEFINE f == IF n = 0 THEN "client" ELSE from
           l == IF n = 0 THEN "zero" ELSE "some"
           y == [conn[c] EXCEPT !.read = n, !.from = f, !.stale = FALSE,
                                !.leftover_data = l]
<1>1. f \in {"client", "cgi"} /\ l \in {"unset", "zero", "some"}
  OBVIOUS
<1>2. conn[c] \in ConnRecord
  BY DEF WorldTypeOK
<1>3. y \in ConnRecord
  <2> HIDE DEF f, l
  <2> QED BY <1>1, <1>2, Zenon DEF ConnRecord
<1> QED BY <1>3, BecomeType DEF Receive

LEMMA ReadHandlerType ==
  ASSUME WorldTypeOK, NEW c \in Conn, NEW r \in Role, ReadHandler(c, r)
  PROVE  WorldTypeOK'
<1>1. knote' \in [Conn -> [Role -> Knote]]
  BY DisarmType, SetKnotesType DEF ReadHandler, WorldTypeOK
<1>2. CASE r = "sockR"
  <2>1. sock[c].inbox \in Nat
    BY DEF WorldTypeOK, SockRecord
  <2>2. PICK n \in IF sock[c].inbox = 0 THEN {0} ELSE 1..sock[c].inbox :
          /\ Receive(c, n, "client")
          /\ sock' = [sock EXCEPT ![c].inbox = @ - n]
    BY <1>2 DEF ReadHandler
  <2>3. n \in Nat /\ sock[c].inbox - n \in Nat
    BY <2>1, <2>2
  <2>4. sock' = [sock EXCEPT ![c].inbox = sock[c].inbox - n]
    BY <2>2
  <2>5. sock' \in [Conn -> SockRecord]
    BY <2>3, <2>4, Zenon DEF WorldTypeOK, SockRecord
  <2>6. conn' \in [Conn -> ConnRecord]
    BY <2>2, <2>3, ReceiveType
  <2> QED BY <1>1, <1>2, <2>5, <2>6 DEF ReadHandler, WorldTypeOK
<1>3. CASE r = "pipeR"
  <2>1. pipe[c].unread \in Nat
    BY DEF WorldTypeOK, PipeRecord
  <2>2. PICK n \in IF pipe[c].unread = 0 THEN {0} ELSE 1..pipe[c].unread :
          /\ Receive(c, n, "cgi")
          /\ pipe' = [pipe EXCEPT ![c].unread = @ - n]
    BY <1>3 DEF ReadHandler
  <2>3. n \in Nat /\ pipe[c].unread - n \in Nat
    BY <2>1, <2>2
  <2>4. pipe' = [pipe EXCEPT ![c].unread = pipe[c].unread - n]
    BY <2>2
  <2>5. pipe' \in [Conn -> PipeRecord]
    BY <2>3, <2>4, Zenon DEF WorldTypeOK, PipeRecord
  <2>6. conn' \in [Conn -> ConnRecord]
    BY <2>2, <2>3, ReceiveType
  <2> QED BY <1>1, <1>3, <2>5, <2>6 DEF ReadHandler, WorldTypeOK
<1> QED BY <1>2, <1>3 DEF ReadHandler

LEMMA WriteHandlerType ==
  ASSUME WorldTypeOK, NEW c \in Conn, NEW r \in Role, WriteHandler(c, r)
  PROVE  WorldTypeOK'
<1> DEFINE x == conn[c]
           m == x.misdirected \/ (r = "pipeW" /\ x.state = "kWritingToSocket"
                                  /\ x.to_write # 0)
           due(left) == IF r = "sockW" /\ x.to_write # 0 /\ left = 0
                          THEN Unanswered(sock[c]) ELSE sock[c].due
<1>1. x \in ConnRecord /\ x.to_write \in Nat /\ m \in BOOLEAN
  BY FieldTypes DEF WorldTypeOK
<1>2. PICK left \in IF x.to_write = 0 THEN {0} ELSE 0..(x.to_write - 1) :
        /\ Become(c, [x EXCEPT !.to_write = left, !.misdirected = m])
        /\ sock' = [sock EXCEPT ![c].due = due(left)]
  BY DEF WriteHandler
<1>3. left \in Nat
  BY <1>1, <1>2
<1>4. conn' \in [Conn -> ConnRecord]
  <2>1. [x EXCEPT !.to_write = left, !.misdirected = m] \in ConnRecord
    <3> HIDE DEF x, m
    <3> QED BY <1>1, <1>3, Zenon DEF ConnRecord
  <2> QED BY <1>2, <2>1, BecomeType
<1>5. sock' \in [Conn -> SockRecord]
  <2>1. /\ sock[c].inbox \in Nat /\ sock[c].due \in Nat /\ RequestParts \in Nat
    BY ConnectionAssumption DEF WorldTypeOK, SockRecord
  <2>2. due(left) \in Nat
    BY <2>1 DEF Unanswered
  <2> HIDE DEF due
  <2> QED BY <1>2, <2>2, Zenon DEF WorldTypeOK, SockRecord
<1>6. knote' \in [Conn -> [Role -> Knote]]
  BY DisarmType, SetKnotesType DEF WriteHandler, WorldTypeOK
<1> QED BY <1>4, <1>5, <1>6 DEF WriteHandler, WorldTypeOK
-----------------------------------------------------------------------------
(* work(). *)
LEMMA ReplyType ==
  ASSUME WorldTypeOK, NEW c \in Conn, NEW x \in ConnRecord, NEW code \in Code,
         Reply(c, x, code)
  PROVE  conn' \in [Conn -> ConnRecord] /\ knote' \in [Conn -> [Role -> Knote]]
<1>1. PICK n \in 1..MaxWrite, cl \in MayKeepAlive(code) :
        Become(c, ReplyOf(x, code, n, cl))
  BY DEF Reply
<1>2. n \in Nat
  OBVIOUS
<1>3. conn' \in [Conn -> ConnRecord]
  <2>1. cl \in BOOLEAN
    BY Zenon DEF MayKeepAlive
  <2> QED BY <1>1, <1>2, <2>1, ReplyOfType, BecomeType
<1>4. knote[c] \in [Role -> Knote] /\ "sockW" \in Role
  BY DEF WorldTypeOK, Role
<1>5. knote' \in [Conn -> [Role -> Knote]]
  BY <1>4, SetEventType, SetKnotesType DEF Reply
<1> QED BY <1>3, <1>5

LEMMA ParsingRequestMessageAgainType ==
  ASSUME WorldTypeOK, NEW c \in Conn, ParsingRequestMessageAgain(c)
  PROVE  WorldTypeOK'
<1> DEFINE x == conn[c]
           q == IF Corrupts(x) THEN 0 ELSE Appended(x)
           y == [x EXCEPT !.request = q, !.corrupt = Corrupts(x),
                          !.stale = x.read # 0]
<1>1. /\ x \in ConnRecord /\ Corrupts(x) \in BOOLEAN /\ q \in Nat
      /\ (x.read # 0) \in BOOLEAN
  BY FieldTypes DEF WorldTypeOK, Corrupts, Appended
<1>2. Become(c, y)
  BY DEF ParsingRequestMessageAgain
<1>3. y \in ConnRecord
  <2> HIDE DEF x, q
  <2> QED BY <1>1, Zenon DEF ConnRecord
<1>4. conn' \in [Conn -> ConnRecord]
  BY <1>2, <1>3, BecomeType
<1>5. knote[c] \in [Role -> Knote] /\ "sockR" \in Role
  BY DEF WorldTypeOK, Role
<1>6. knote' \in [Conn -> [Role -> Knote]]
  BY <1>5, SetEventType, SetKnotesType DEF ParsingRequestMessageAgain
<1> QED BY <1>4, <1>6 DEF ParsingRequestMessageAgain, WorldTypeOK

LEMMA ExecuteCgiProcessType ==
  ASSUME WorldTypeOK, NEW c \in Conn, ExecuteCgiProcess(c)
  PROVE  WorldTypeOK'
<1> DEFINE piped == SetEvent(knote[c], "pipeR", "EV_ADD_DISABLE", c)
<1>1. PICK x \in Parsed(conn[c]), code \in {200, 204}, early \in BOOLEAN,
           p \in {q \in Pid : proc[q].st = "free"} : StartCgi(c, x, code, p, early)
  BY DEF ExecuteCgiProcess
<1> USE DEF StartCgi
<1>2. x \in ConnRecord
  <2>1. conn[c] \in ConnRecord
    BY DEF WorldTypeOK
  <2>2. Parses(conn[c])
    BY DEF ExecuteCgiProcess
  <2> QED BY <2>1, <2>2, ParsedType
<1>3. code \in Code /\ p \in Pid
  BY DEF Code
<1>4. /\ piped \in [Role -> Knote]
      /\ SetEvent(piped, "pipeW", "EV_ADD", c) \in [Role -> Knote]
      /\ SetEvent(piped, "pipeR", "EV_ENABLE", Null) \in [Role -> Knote]
  <2>1. knote[c] \in [Role -> Knote] /\ "pipeR" \in Role /\ "pipeW" \in Role
    BY DEF WorldTypeOK, Role
  <2>2. piped \in [Role -> Knote]
    BY <2>1, SetEventType
  <2> HIDE DEF piped
  <2> QED BY <2>1, <2>2, SetEventType
<1> HIDE DEF piped
<1>5. proc' \in [Pid -> ProcRecord]
  BY <1>1, <1>3, ForkedType
<1>6. pipe' \in [Conn -> PipeRecord]
  <2>1. [unread |-> 0, emitted |-> 0, writer |-> ~early, reader |-> ~early]
          \in PipeRecord
    BY DEF PipeRecord
  <2> QED BY <1>1, <2>1 DEF WorldTypeOK
<1>7. conn' \in [Conn -> ConnRecord] /\ knote' \in [Conn -> [Role -> Knote]]
  <2>1. ASSUME NEW n \in 0..MaxWrite,
               Become(c, [x EXCEPT !.code = code, !.cgi_pid = p,
                                   !.to_write = n, !.state = "kWritingToPipe"]),
               SetKnotes(c, SetEvent(piped, "pipeW", "EV_ADD", c))
        PROVE  conn' \in [Conn -> ConnRecord] /\ knote' \in [Conn -> [Role -> Knote]]
    <3>1. n \in Nat
      OBVIOUS
    <3>2. [x EXCEPT !.code = code, !.cgi_pid = p, !.to_write = n,
                    !.state = "kWritingToPipe"] \in ConnRecord
      BY <1>2, <1>3, <3>1, Zenon DEF ConnRecord, State
    <3> QED BY <1>4, <2>1, <3>2, BecomeType, SetKnotesType
  <2>2. ASSUME Become(c, [x EXCEPT !.code = code, !.cgi_pid = p,
                                   !.state = "kReadingFromPipe"]),
               SetKnotes(c, SetEvent(piped, "pipeR", "EV_ENABLE", Null))
        PROVE  conn' \in [Conn -> ConnRecord] /\ knote' \in [Conn -> [Role -> Knote]]
    <3>1. [x EXCEPT !.code = code, !.cgi_pid = p, !.state = "kReadingFromPipe"]
            \in ConnRecord
      BY <1>2, <1>3, Zenon DEF ConnRecord, State
    <3> QED BY <1>4, <2>2, <3>1, BecomeType, SetKnotesType
  <2> QED BY <1>1, <2>1, <2>2 DEF piped
<1> QED BY <1>1, <1>5, <1>6, <1>7 DEF WorldTypeOK

LEMMA HandlingDynamicPageAgainType ==
  ASSUME WorldTypeOK, NEW c \in Conn, HandlingDynamicPageAgain(c)
  PROVE  WorldTypeOK'
<1> DEFINE x == conn[c]
           o == IF x.from = "cgi" THEN x.cgi_output + x.read ELSE x.cgi_output
           f == x.foreign \/ (x.from = "client" /\ x.read # 0)
           y == [x EXCEPT !.cgi_output = o, !.foreign = f,
                          !.read = 0, !.from = "client", !.stale = FALSE]
<1>1. x \in ConnRecord /\ o \in Nat /\ f \in BOOLEAN /\ 0 \in Nat
  BY FieldTypes DEF WorldTypeOK
<1>2. Become(c, y)
  BY DEF HandlingDynamicPageAgain
<1>3. y \in ConnRecord
  <2> HIDE DEF x, o, f
  <2> QED BY <1>1, Zenon DEF ConnRecord
<1>4. knote[c] \in [Role -> Knote] /\ "pipeR" \in Role
  BY DEF WorldTypeOK, Role
<1> QED
  BY <1>2, <1>3, <1>4, BecomeType, SetEventType, SetKnotesType
  DEF HandlingDynamicPageAgain, WorldTypeOK

LEMMA HandlingDynamicPageDoneType ==
  ASSUME WorldTypeOK, NEW c \in Conn, HandlingDynamicPageDone(c)
  PROVE  WorldTypeOK'
<1>a. PICK code \in CgiCode(conn[c]) :
        \E n \in 1..MaxWrite, cl \in MayKeepAlive(code) :
          Become(c, ReplyOf(conn[c], code, n, cl))
  BY DEF HandlingDynamicPageDone
<1>1. PICK n \in 1..MaxWrite, cl \in MayKeepAlive(code) :
        Become(c, ReplyOf(conn[c], code, n, cl))
  BY <1>a
<1>2. conn[c] \in ConnRecord /\ code \in Code /\ n \in Nat
  BY FieldTypes DEF WorldTypeOK, CgiCode, Code
<1>3. cl \in BOOLEAN
  BY Zenon DEF MayKeepAlive
<1>4. conn' \in [Conn -> ConnRecord]
  BY <1>1, <1>2, <1>3, ReplyOfType, BecomeType
<1>5. knote[c] \in [Role -> Knote] /\ "pipeR" \in Role /\ "sockW" \in Role
  BY DEF WorldTypeOK, Role
<1>6. knote' \in [Conn -> [Role -> Knote]]
  BY <1>5, CloseFdType, SetEventType, SetKnotesType DEF HandlingDynamicPageDone
<1>7. NoPipe \in PipeRecord
  BY DEF NoPipe, PipeRecord
<1>8. pipe' \in [Conn -> PipeRecord] /\ proc' \in [Pid -> ProcRecord]
  BY <1>7, UnplumbType DEF HandlingDynamicPageDone, WorldTypeOK
<1> QED BY <1>4, <1>6, <1>8 DEF HandlingDynamicPageDone, WorldTypeOK

LEMMA WorkContinuesType ==
  ASSUME WorldTypeOK, NEW c \in Conn, WorkContinues(c)
  PROVE  WorldTypeOK'
<1>0. /\ conn[c] \in ConnRecord /\ knote[c] \in [Role -> Knote]
      /\ Role = {"sockR", "sockW", "pipeR", "pipeW"}
  BY DEF WorldTypeOK, Role
<1>1. CASE OverloadReply(c)
  <2>1. 500 \in Code
    BY DEF Code
  <2>2. conn' \in [Conn -> ConnRecord] /\ knote' \in [Conn -> [Role -> Knote]]
    BY <1>0, <1>1, <2>1, ReplyType DEF OverloadReply
  <2> QED BY <1>1, <2>2, KillType DEF OverloadReply, WorldTypeOK
<1>2. CASE ParsingRequestMessageAgain(c)
  BY <1>2, ParsingRequestMessageAgainType
<1>3. CASE HandlingStaticPage(c)
  <2>1. PICK x \in Parsed(conn[c]), code \in RequestCode(conn[c]) : Reply(c, x, code)
    BY <1>3 DEF HandlingStaticPage
  <2>2. x \in ConnRecord
    BY <1>0, <1>3, ParsedType DEF HandlingStaticPage
  <2>3. code \in Code
    BY DEF RequestCode, Code
  <2>4. conn' \in [Conn -> ConnRecord] /\ knote' \in [Conn -> [Role -> Knote]]
    BY <2>1, <2>2, <2>3, ReplyType
  <2> QED BY <1>3, <2>4 DEF HandlingStaticPage, WorldTypeOK
<1>4. CASE ExecuteCgiProcess(c)
  BY <1>4, ExecuteCgiProcessType
<1>5. CASE WritingToPipeAgain(c)
  BY <1>0, <1>5, SetEventType, SetKnotesType DEF WritingToPipeAgain, WorldTypeOK
<1>6. CASE WritingToPipeDone(c)
  <2>1. [conn[c] EXCEPT !.state = "kReadingFromPipe"] \in ConnRecord
    BY <1>0, Zenon DEF ConnRecord, State
  <2> QED
    BY <1>0, <1>6, <2>1, BecomeType, CloseFdType, SetKnotesType
    DEF WritingToPipeDone, WorldTypeOK
<1>7. CASE HandlingDynamicPageAgain(c)
  BY <1>7, HandlingDynamicPageAgainType
<1>8. CASE HandlingDynamicPageDone(c)
  BY <1>8, HandlingDynamicPageDoneType
<1>9. CASE WritingToSocketAgain(c)
  BY <1>0, <1>9, SetEventType, SetKnotesType DEF WritingToSocketAgain, WorldTypeOK
<1>10. CASE WritingToSocketDone(c)
  <2>1. Cleared(conn[c]) \in ConnRecord
    BY <1>0, FieldTypes, NewConnectionType, Zenon DEF Cleared, ConnRecord
  <2> QED
    BY <1>0, <1>10, <2>1, BecomeType, SetEventType, SetKnotesType
    DEF WritingToSocketDone, WorldTypeOK
<1> QED
  BY <1>1, <1>2, <1>3, <1>4, <1>5, <1>6, <1>7, <1>8, <1>9, <1>10 DEF WorkContinues

LEMMA WorkClosesProc ==
  ASSUME WorldTypeOK, NEW c \in Conn, WorkCloses(c)
  PROVE  \E pr \in [Pid -> ProcRecord] :
           /\ CloseConnection(c, pr)
           /\ \/ pr = proc
              \/ pr = Kill(proc, conn[c].cgi_pid)
              \/ \E p \in {q \in Pid : proc[q].st = "free"}, early \in BOOLEAN :
                   pr = Forked(c, p, early)
<1>1. /\ proc \in [Pid -> ProcRecord]
      /\ Kill(proc, conn[c].cgi_pid) \in [Pid -> ProcRecord]
  BY KillType DEF WorldTypeOK
<1>2. CASE \/ TimeOutCloses(c)
           \/ ParsingRequestMessageThrows(c)
           \/ HandlingDynamicPageThrows(c)
           \/ WritingToSocketCloses(c)
  BY <1>1, <1>2 DEF TimeOutCloses, ParsingRequestMessageThrows,
                    HandlingDynamicPageThrows, WritingToSocketCloses
<1>3. CASE OverloadCloses(c)
  BY <1>1, <1>3 DEF OverloadCloses
<1>4. CASE ExecuteCgiProcessFails(c)
  <2>1. CASE CloseConnection(c, proc)
    BY <1>1, <2>1
  <2>2. ASSUME NEW p \in {q \in Pid : proc[q].st = "free"}, NEW early \in BOOLEAN,
               CloseConnection(c, Forked(c, p, early))
        PROVE  \E pr \in [Pid -> ProcRecord] :
                 /\ CloseConnection(c, pr)
                 /\ \E q \in {r \in Pid : proc[r].st = "free"}, b \in BOOLEAN :
                      pr = Forked(c, q, b)
    BY <2>2, ForkedType
  <2> QED BY <1>4, <2>1, <2>2 DEF ExecuteCgiProcessFails
<1> QED BY <1>2, <1>3, <1>4 DEF WorkCloses

LEMMA WorkClosesType ==
  ASSUME WorldTypeOK, NEW c \in Conn, WorkCloses(c)
  PROVE  WorldTypeOK'
  BY WorkClosesProc, CloseConnectionType
-----------------------------------------------------------------------------
(* The outside world. *)
LEMMA ClientType ==
  ASSUME WorldTypeOK, NEW c \in Conn,
         ClientSends(c) \/ ClientShutsDown(c) \/ ClientResets(c)
  PROVE  WorldTypeOK'
<1>1. sock \in [Conn -> SockRecord] /\ sock[c].inbox \in Nat /\ sock[c].due \in Nat
  BY DEF WorldTypeOK, SockRecord
<1>2. sock' \in [Conn -> SockRecord]
  <2>1. CASE ClientSends(c)
    <3>1. PICK n \in 1..RequestParts :
            sock' = [sock EXCEPT ![c].inbox = @ + n, ![c].due = @ + n]
      BY <2>1 DEF ClientSends
    <3>2. sock[c].inbox + n \in Nat /\ sock[c].due + n \in Nat
      BY <1>1
    <3>3. sock' = [sock EXCEPT ![c].inbox = sock[c].inbox + n,
                               ![c].due = sock[c].due + n]
      BY <3>1, Zenon DEF SockRecord
    <3> QED BY <1>1, <3>2, <3>3, Zenon DEF SockRecord
  <2>2. CASE ClientShutsDown(c)
    BY <1>1, <2>2, Zenon DEF ClientShutsDown, SockRecord
  <2>3. CASE ClientResets(c)
    BY <1>1, 0 \in Nat, <2>3, Zenon DEF ClientResets, SockRecord
  <2> QED BY <2>1, <2>2, <2>3
<1> QED BY <1>2 DEF ClientSends, ClientShutsDown, ClientResets, WorldTypeOK

LEMMA CgiType ==
  ASSUME WorldTypeOK, NEW p \in Pid, CgiWrites(p) \/ CgiClosesEnd(p) \/ CgiExits(p),
         proc[p].plumbed => proc[p].owner \in Conn
  PROVE  WorldTypeOK'
<1> DEFINE c == proc[p].owner
<1>1. CASE CgiWrites(p)
  <2>1. c \in Conn /\ pipe \in [Conn -> PipeRecord]
    BY <1>1 DEF CgiWrites, WorldTypeOK
  <2>2. pipe[c].unread + 1 \in Nat /\ pipe[c].emitted + 1 \in Nat
    BY <2>1 DEF PipeRecord
  <2>3. pipe' = [pipe EXCEPT ![c].unread = pipe[c].unread + 1,
                             ![c].emitted = pipe[c].emitted + 1]
    BY <1>1, <2>1, Zenon DEF CgiWrites, PipeRecord
  <2> HIDE DEF c
  <2>4. pipe' \in [Conn -> PipeRecord]
    BY <2>1, <2>2, <2>3, Zenon DEF PipeRecord
  <2> QED BY <1>1, <2>4 DEF CgiWrites, WorldTypeOK
<1>2. CASE CgiClosesEnd(p)
  <2>1. c \in Conn /\ pipe \in [Conn -> PipeRecord]
    BY <1>2 DEF CgiClosesEnd, WorldTypeOK
  <2>2. \/ pipe' = [pipe EXCEPT ![c].writer = FALSE]
        \/ pipe' = [pipe EXCEPT ![c].reader = FALSE]
    BY <1>2, Zenon DEF CgiClosesEnd
  <2> HIDE DEF c
  <2>3. [pipe EXCEPT ![c].writer = FALSE] \in [Conn -> PipeRecord]
    BY <2>1, Zenon DEF PipeRecord
  <2>4. [pipe EXCEPT ![c].reader = FALSE] \in [Conn -> PipeRecord]
    BY <2>1, Zenon DEF PipeRecord
  <2> QED BY <1>2, <2>2, <2>3, <2>4 DEF CgiClosesEnd, WorldTypeOK
<1>3. CASE CgiExits(p)
  <2>1. proc' \in [Pid -> ProcRecord]
    <3>1. PICK ok \in IF proc[p].killed THEN {FALSE} ELSE BOOLEAN :
            proc' = [proc EXCEPT ![p].st = "zombie", ![p].ok = ok]
      BY <1>3, Zenon DEF CgiExits
    <3>2. ok \in BOOLEAN
      BY <3>1
    <3>3. proc \in [Pid -> ProcRecord] /\ "zombie" \in {"free", "running", "zombie"}
      BY DEF WorldTypeOK
    <3> QED BY <3>1, <3>2, <3>3, ZenonT(30) DEF ProcRecord
  <2>2. pipe' \in [Conn -> PipeRecord]
    <3>1. CASE proc[p].plumbed
      <4>1. /\ pipe' = [pipe EXCEPT ![proc[p].owner].writer = FALSE,
                                     ![proc[p].owner].reader = FALSE]
            /\ pipe \in [Conn -> PipeRecord]
        BY <1>3, <3>1, Zenon DEF CgiExits, WorldTypeOK
      <4> QED BY <4>1, Zenon DEF PipeRecord
    <3>2. CASE ~proc[p].plumbed
      BY <1>3, <3>2 DEF CgiExits, WorldTypeOK
    <3> QED BY <3>1, <3>2
  <2> QED BY <1>3, <2>1, <2>2 DEF CgiExits, WorldTypeOK
<1> QED BY <1>1, <1>2, <1>3

LEMMA ExpiresType ==
  ASSUME WorldTypeOK, NEW c \in Conn, Expires(c)
  PROVE  WorldTypeOK'
<1>1. conn[c] \in ConnRecord
  BY DEF WorldTypeOK
<1>2. [conn[c] EXCEPT !.expired = TRUE] \in ConnRecord
  BY <1>1, Zenon DEF ConnRecord
<1> QED BY <1>2, BecomeType DEF Expires, WorldTypeOK

-----------------------------------------------------------------------------
(***************************************************************************)
(* Facts about the deque work_queue: sequences without repetition, and     *)
(* what push_back, pop_front and the removal loop of eraseConnection do to *)
(* them.                                                                   *)
(***************************************************************************)
(* s holds each of its elements once. *)
NoRepeat(s) == \A i, j \in 1..Len(s) : s[i] = s[j] => i = j

(* The elements of a sequence, by index. *)
LEMMA RangeIs ==
  ASSUME NEW S, NEW s \in Seq(S)
  PROVE  Range(s) = {s[i] : i \in 1..Len(s)}
  BY DEF Range

LEMMA RangeOfEmpty == Range(<<>>) = {}
  BY DEF Range

(* push_back of a new element. *)
LEMMA AppendNew ==
  ASSUME NEW S, NEW s \in Seq(S), NoRepeat(s), NEW e \in S, e \notin Range(s)
  PROVE  /\ Append(s, e) \in Seq(S)
         /\ NoRepeat(Append(s, e))
         /\ Range(Append(s, e)) = Range(s) \cup {e}
         /\ Len(Append(s, e)) = Len(s) + 1
<1> DEFINE t == Append(s, e)
<1>1. /\ t \in Seq(S) /\ Len(t) = Len(s) + 1
      /\ \A i \in 1..Len(s) : t[i] = s[i]
      /\ t[Len(s) + 1] = e
  BY AppendProperties
<1>2. \A i \in 1..Len(s) : s[i] # e
  BY RangeIs
<1>3. NoRepeat(t)
  BY <1>1, <1>2, Len(s) \in Nat DEF NoRepeat
<1>4. Range(t) = Range(s) \cup {e}
  <2>1. Range(t) = {t[i] : i \in 1..(Len(s) + 1)}
    BY <1>1, RangeIs
  <2>2. 1..(Len(s) + 1) = (1..Len(s)) \cup {Len(s) + 1}
    BY Len(s) \in Nat
  <2> QED BY <1>1, <2>1, <2>2, RangeIs
<1> QED BY <1>1, <1>3, <1>4

(* pop_front. *)
LEMMA TailRest ==
  ASSUME NEW S, NEW s \in Seq(S), NoRepeat(s), Len(s) # 0
  PROVE  /\ Tail(s) \in Seq(S)
         /\ NoRepeat(Tail(s))
         /\ Head(s) \in Range(s)
         /\ Range(Tail(s)) = Range(s) \ {Head(s)}
         /\ Len(Tail(s)) = Len(s) - 1
<1> DEFINE t == Tail(s)
<1>1. /\ t \in Seq(S) /\ Len(t) = Len(s) - 1 /\ Head(s) = s[1]
      /\ \A i \in 1..Len(t) : t[i] = s[i + 1]
  BY HeadTailProperties
<1>2. Len(s) \in Nat \ {0}
  OBVIOUS
<1>3. NoRepeat(t)
  BY <1>1, <1>2 DEF NoRepeat
<1>4. Head(s) \in Range(s)
  BY <1>1, <1>2, RangeIs
<1> HIDE DEF t
<1>5. Range(t) = Range(s) \ {Head(s)}
  <2>0. Range(t) = {t[i] : i \in 1..Len(t)}
    BY <1>1, RangeIs
  <2>1. ASSUME NEW x \in Range(t) PROVE x \in Range(s) \ {Head(s)}
    <3>1. PICK i \in 1..Len(t) : x = t[i]
      BY <2>0
    <3>2. i + 1 \in 1..Len(s) /\ x = s[i + 1] /\ i + 1 # 1
      BY <1>1, <1>2, <3>1
    <3>3. x # s[1]
      BY <1>2, <3>2 DEF NoRepeat
    <3> QED BY <1>1, <3>2, <3>3, RangeIs
  <2>2. ASSUME NEW x \in Range(s) \ {Head(s)} PROVE x \in Range(t)
    <3>1. PICK i \in 1..Len(s) : x = s[i]
      BY RangeIs
    <3>2. i # 1
      BY <1>1, <2>2, <3>1
    <3>3. i - 1 \in 1..Len(t) /\ t[i - 1] = s[i]
      BY <1>1, <1>2, <3>2
    <3> QED BY <2>0, <3>1, <3>3
  <2> QED BY <2>1, <2>2
<1> QED BY <1>1, <1>3, <1>4, <1>5 DEF t

(* The removal loop finds nothing. *)
LEMMA RemoveAbsent ==
  ASSUME NEW S, NEW s \in Seq(S), NEW e, e \notin Range(s)
  PROVE  RemoveFirst(s, e) = s
  BY RangeIs DEF RemoveFirst

(* The removal loop finds the element at its only place. *)
LEMMA RemoveFirstAt ==
  ASSUME NEW S, NEW s \in Seq(S), NoRepeat(s), NEW k \in 1..Len(s)
  PROVE  RemoveFirst(s, s[k]) = SubSeq(s, 1, k - 1) \o SubSeq(s, k + 1, Len(s))
<1>1. {i \in 1..Len(s) : s[i] = s[k]} = {k}
  BY DEF NoRepeat
<1>2. Min({k}) = k
  BY DEF Min
<1>3. SelectInSeq(s, LAMBDA v : v = s[k]) = k
  BY <1>1, <1>2 DEF SelectInSeq
<1> QED BY <1>3 DEF RemoveFirst, RemoveAt

LEMMA RemovePresent ==
  ASSUME NEW S, NEW s \in Seq(S), NoRepeat(s), NEW e \in Range(s)
  PROVE  /\ RemoveFirst(s, e) \in Seq(S)
         /\ NoRepeat(RemoveFirst(s, e))
         /\ Range(RemoveFirst(s, e)) = Range(s) \ {e}
<1>1. PICK k \in 1..Len(s) : e = s[k]
  BY RangeIs
<1> DEFINE a == SubSeq(s, 1, k - 1)
           b == SubSeq(s, k + 1, Len(s))
           t == RemoveFirst(s, e)
<1>2. Len(s) \in Nat /\ \A i \in 1..Len(s) : s[i] \in S
  OBVIOUS
<1>3. /\ a \in Seq(S) /\ Len(a) = k - 1
      /\ \A i \in 1..(k - 1) : a[i] = s[i]
  <2>1. \A i \in 1..(k - 1) : s[i] \in S
    BY <1>2
  <2>2. /\ a \in Seq(S) /\ Len(a) = IF 1 <= k - 1 THEN k - 1 - 1 + 1 ELSE 0
        /\ \A i \in 1..(k - 1 - 1 + 1) : a[i] = s[1 + i - 1]
    BY <2>1, SubSeqProperties
  <2> QED BY <2>2
<1>4. /\ b \in Seq(S) /\ Len(b) = Len(s) - k
      /\ \A i \in 1..(Len(s) - k) : b[i] = s[k + i]
  <2>1. \A i \in (k + 1)..Len(s) : s[i] \in S
    BY <1>2
  <2>2. /\ b \in Seq(S)
        /\ Len(b) = IF k + 1 <= Len(s) THEN Len(s) - (k + 1) + 1 ELSE 0
        /\ \A i \in 1..(Len(s) - (k + 1) + 1) : b[i] = s[k + 1 + i - 1]
    BY <1>2, <2>1, SubSeqProperties
  <2> QED BY <1>2, <2>2
<1>5. /\ t \in Seq(S) /\ Len(t) = Len(s) - 1
      /\ \A i \in 1..(Len(s) - 1) : t[i] = IF i < k THEN s[i] ELSE s[i + 1]
  <2>1. t = a \o b
    BY <1>1, RemoveFirstAt
  <2> HIDE DEF a, b, t
  <2>2. /\ t \in Seq(S) /\ Len(t) = Len(a) + Len(b)
        /\ \A i \in 1..(Len(a) + Len(b)) :
             t[i] = IF i <= Len(a) THEN a[i] ELSE b[i - Len(a)]
    <3>1. a \in Seq(S) /\ b \in Seq(S)
      BY <1>3, <1>4
    <3> QED BY <2>1, <3>1, ConcatProperties
  <2>3. ASSUME NEW i \in 1..(Len(s) - 1)
        PROVE  t[i] = IF i < k THEN s[i] ELSE s[i + 1]
    <3>0. /\ Len(a) = k - 1 /\ Len(b) = Len(s) - k
          /\ t[i] = IF i <= k - 1 THEN a[i] ELSE b[i - (k - 1)]
      BY <1>2, <1>3, <1>4, <2>2
    <3>1. CASE i < k
      <4>1. i \in 1..(k - 1)
        BY <3>1
      <4> QED BY <1>3, <3>0, <3>1, <4>1
    <3>2. CASE ~(i < k)
      <4>1. i - (k - 1) \in 1..(Len(s) - k) /\ k + (i - (k - 1)) = i + 1
        BY <1>2, <3>2
      <4>2. b[i - (k - 1)] = s[i + 1]
        BY <1>4, <4>1
      <4> QED BY <3>0, <3>2, <4>2
    <3> QED BY <3>1, <3>2
  <2> QED BY <1>2, <1>3, <1>4, <2>2, <2>3
<1> HIDE DEF t
<1>6. NoRepeat(t)
  BY SMTT(30), <1>2, <1>5 DEF NoRepeat
<1>7. Range(t) = Range(s) \ {e}
  <2>1. ASSUME NEW x \in Range(t) PROVE x \in Range(s) \ {e}
    <3>1. PICK i \in 1..Len(t) : x = t[i]
      BY <1>5, RangeIs
    <3>2. PICK j \in 1..Len(s) : j # k /\ x = s[j]
      <4>1. CASE i < k  BY <1>2, <1>5, <3>1, <4>1
      <4>2. CASE ~(i < k)
        <5>1. i + 1 \in 1..Len(s) /\ i + 1 # k /\ x = s[i + 1]
          BY <1>2, <1>5, <3>1, <4>2
        <5> QED BY <5>1
      <4> QED BY <4>1, <4>2
    <3> QED BY <1>1, <3>2, RangeIs DEF NoRepeat
  <2>2. ASSUME NEW x \in Range(s) \ {e} PROVE x \in Range(t)
    <3>1. PICK j \in 1..Len(s) : x = s[j]
      BY RangeIs
    <3>2. j # k
      BY <1>1, <2>2, <3>1
    <3>3. CASE j < k
      <4>1. j \in 1..Len(t) /\ t[j] = x
        BY <1>2, <1>5, <3>1, <3>3
      <4> QED BY <1>5, <4>1, RangeIs
    <3>4. CASE j > k
      <4>1. j - 1 \in 1..Len(t) /\ t[j - 1] = x
        BY <1>2, <1>5, <3>1, <3>4
      <4> QED BY <1>5, <4>1, RangeIs
    <3> QED BY <3>2, <3>3, <3>4
  <2> QED BY <2>1, <2>2
<1> QED BY <1>5, <1>6, <1>7 DEF t
-----------------------------------------------------------------------------
(* What QueueExact needs to be inductive: the round counter is zero while  *)
(* events are dispatched, so that an erasure there cannot leave the queue  *)
(* shorter than the round.                                                 *)
QueueInv ==
  /\ connections \subseteq Conn
  /\ work_queue \in Seq(Conn)
  /\ todo \in Nat
  /\ phase \in {"dispatch", "work"}
  /\ phase = "dispatch" => todo = 0
  /\ QueueExact

LEMMA QueueInvInit == Init => QueueInv
<1> SUFFICES ASSUME Init PROVE QueueInv
  OBVIOUS
<1>1. work_queue = <<>> /\ work_queue \in Seq(Conn) /\ Len(work_queue) = 0
  BY DEF Init
<1>2. Range(work_queue) = {}
  BY <1>1, RangeOfEmpty
<1> QED BY <1>1, <1>2 DEF Init, QueueInv, QueueExact

(* eraseConnection while events are dispatched. *)
LEMMA EraseKeepsQueue ==
  ASSUME QueueInv, phase = "dispatch", NEW c \in connections, Erase(c),
         UNCHANGED <<phase, todo>>
  PROVE  QueueInv'
<1>1. NoRepeat(work_queue) /\ c \in Range(work_queue)
  BY DEF QueueInv, QueueExact, NoRepeat
<1>2. /\ work_queue' \in Seq(Conn)
      /\ NoRepeat(work_queue')
      /\ Range(work_queue') = Range(work_queue) \ {c}
  BY <1>1, RemovePresent DEF QueueInv, Erase
<1> QED BY <1>2 DEF QueueInv, QueueExact, NoRepeat, Erase

LEMMA QueueInvNext == QueueInv /\ [Next]_vars => QueueInv'
<1> SUFFICES ASSUME QueueInv, [Next]_vars PROVE QueueInv'
  OBVIOUS
<1> USE DEF QueueInv
<1>a. NoRepeat(work_queue) /\ Range(work_queue) = connections
  BY DEF QueueExact, NoRepeat
<1>s. ASSUME UNCHANGED <<connections, work_queue, todo, phase>> PROVE QueueInv'
  BY <1>s DEF QueueExact
<1>1. CASE Poll
  BY <1>1 DEF Poll, QueueExact
<1>2. ASSUME NEW e \in batch, AcceptClient(e) PROVE QueueInv'
  <2>1. CASE UNCHANGED <<connections, work_queue>>
    BY <1>2, <2>1, <1>s DEF AcceptClient, Continue
  <2>2. ASSUME NEW c \in Conn \ connections,
               connections' = connections \cup {c},
               work_queue' = Append(work_queue, c)
        PROVE  QueueInv'
    <3>1. /\ work_queue' \in Seq(Conn) /\ NoRepeat(work_queue')
          /\ Range(work_queue') = Range(work_queue) \cup {c}
          /\ Len(work_queue') = Len(work_queue) + 1
      BY <1>a, <2>2, AppendNew
    <3>2. phase' = phase /\ todo' = todo
      BY <1>2 DEF AcceptClient, Continue
    <3> QED BY <1>a, <2>2, <3>1, <3>2 DEF QueueExact, NoRepeat
  <2> QED BY <1>2, <2>1, <2>2 DEF AcceptClient
<1>3. ASSUME NEW e \in batch, DispatchRead(e) PROVE QueueInv'
  <2>1. CASE UNCHANGED <<connections, work_queue, phase, todo>>
    BY <2>1, <1>s
  <2>2. CASE IsLive(e) /\ Erase(e.ident) /\ Break
    BY <1>3, <2>2, EraseKeepsQueue DEF IsLive, Break, DispatchRead, Dispatches
  <2> QED BY <1>3, <2>1, <2>2 DEF DispatchRead, Continue, Crash
<1>4. ASSUME NEW e \in batch, DispatchWrite(e) PROVE QueueInv'
  <2>1. CASE UNCHANGED <<connections, work_queue, phase, todo>>
    BY <2>1, <1>s
  <2>2. CASE IsLive(e) /\ Erase(e.ident) /\ Break
    BY <1>4, <2>2, EraseKeepsQueue DEF IsLive, Break, DispatchWrite, Dispatches
  <2> QED BY <1>4, <2>1, <2>2 DEF DispatchWrite, Continue, Crash
<1>5. ASSUME NEW e \in batch, DispatchProc(e) PROVE QueueInv'
  BY <1>5, <1>s DEF DispatchProc, Continue, Break
<1>6. ASSUME NEW e \in batch, DispatchProcCrashes(e) PROVE QueueInv'
  BY <1>6, <1>s DEF DispatchProcCrashes, Crash
<1>7. CASE StartWork
  BY <1>7 DEF StartWork, QueueExact
<1>8. ASSUME NEW c \in connections, WorkKeeps(c) PROVE QueueInv'
  <2> DEFINE rest == Tail(work_queue)
  <2>1. /\ todo > 0 /\ Len(work_queue) # 0 /\ c = Head(work_queue)
        /\ work_queue' = Append(rest, c) /\ todo' = todo - 1
        /\ phase = "work" /\ phase' = phase /\ connections' = connections
    BY <1>8 DEF WorkKeeps, Works, QueueExact
  <2>2. /\ rest \in Seq(Conn) /\ NoRepeat(rest)
        /\ Range(rest) = connections \ {c}
        /\ Len(rest) = Len(work_queue) - 1
    BY <1>a, <2>1, TailRest
  <2> HIDE DEF rest
  <2>3. /\ work_queue' \in Seq(Conn) /\ NoRepeat(work_queue')
        /\ Range(work_queue') = Range(rest) \cup {c}
        /\ Len(work_queue') = Len(rest) + 1
    BY <2>1, <2>2, AppendNew
  <2>4. Range(work_queue') = connections
    BY <2>2, <2>3
  <2>5. todo' \in Nat /\ todo' <= Len(work_queue')
    BY <2>1, <2>2, <2>3 DEF QueueExact
  <2> QED BY <2>1, <2>3, <2>4, <2>5 DEF QueueExact, NoRepeat
<1>9. ASSUME NEW c \in connections, WorkErases(c) PROVE QueueInv'
  <2> DEFINE rest == Tail(work_queue)
  <2>1. /\ todo > 0 /\ Len(work_queue) # 0 /\ c = Head(work_queue)
        /\ work_queue' = RemoveFirst(rest, c) /\ todo' = todo - 1
        /\ phase = "work" /\ phase' = phase /\ connections' = connections \ {c}
    BY <1>9 DEF WorkErases, Works, QueueExact
  <2>2. /\ rest \in Seq(Conn) /\ NoRepeat(rest)
        /\ Range(rest) = connections \ {c}
        /\ Len(rest) = Len(work_queue) - 1
    BY <1>a, <2>1, TailRest
  <2> HIDE DEF rest
  <2>3. work_queue' = rest
    BY <2>1, <2>2, RemoveAbsent
  <2>4. todo' \in Nat /\ todo' <= Len(rest)
    BY <2>1, <2>2 DEF QueueExact
  <2> QED BY <2>1, <2>2, <2>3, <2>4 DEF QueueExact, NoRepeat
<1>10. CASE Environment
  BY <1>10, <1>s DEF Environment, serverVars
<1>11. CASE UNCHANGED vars
  BY <1>11, <1>s DEF vars, serverVars
<1> QED
  BY <1>1, <1>2, <1>3, <1>4, <1>5, <1>6, <1>7, <1>8, <1>9, <1>10, <1>11
  DEF Next, ServerStep, Dispatch, Work, Dead

(* Every live connection is in work_queue exactly once, and nothing else   *)
(* is: no call of work() on a deleted Connection, none forgotten.          *)
THEOREM QueueCorrect == Spec => []QueueExact
<1>1. QueueInv => QueueExact
  BY DEF QueueInv
<1> QED BY <1>1, QueueInvInit, QueueInvNext, PTL DEF Spec
-----------------------------------------------------------------------------
(***************************************************************************)
(* Type correctness of the event loop.  Two facts make TypeOK inductive:   *)
(* the queue is as long as the round (the head of an empty queue would     *)
(* have no type), and a process whose pipes still lead somewhere was       *)
(* forked by a connection.                                                 *)
(***************************************************************************)
Owned(pr) == \A p \in Pid : pr[p].plumbed => pr[p].owner \in Conn

TypeInv == QueueInv /\ TypeOK /\ Owned(proc)

(* What happens to processes leaves plumbed ones with an owner. *)
LEMMA OwnedKill ==
  ASSUME NEW pr \in [Pid -> ProcRecord], Owned(pr), NEW p
  PROVE  Owned(Kill(pr, p))
  BY DEF Owned, Kill, ProcRecord

LEMMA OwnedUnplumb ==
  ASSUME NEW pr \in [Pid -> ProcRecord], Owned(pr), NEW c
  PROVE  Owned(Unplumb(pr, c))
  BY DEF Owned, Unplumb, ProcRecord

LEMMA OwnedForked ==
  ASSUME WorldTypeOK, Owned(proc), NEW c \in Conn, NEW p \in Pid, NEW early
  PROVE  Owned(Forked(c, p, early))
  BY DEF Owned, Forked, WorldTypeOK, ProcRecord

LEMMA OwnedClose ==
  ASSUME NEW pr \in [Pid -> ProcRecord], Owned(pr), NEW c, CloseConnection(c, pr)
  PROVE  Owned(proc')
  BY OwnedUnplumb DEF CloseConnection

(* What kevent() returns is made of events. *)
LEMMA EventListType ==
  ASSUME WorldTypeOK, NEW B \in EventLists
  PROVE  B \subseteq Event
<1>1. \A c \in Conn, r \in Role : FdEvent(c, r) \in Event
  BY DEF FdEvent, Event, WorldTypeOK, Knote
<1>2. \A p \in Pid : ProcEvent(p) \in Event
  BY DEF ProcEvent, Event, WorldTypeOK, ProcRecord
<1>3. ListenEvent \in Event
  BY DEF Event
<1>4. Ready \subseteq Event
  BY <1>1, <1>2 DEF Ready, Role
<1>5. MayBeReady \subseteq Event
  <2>1. {ListenEvent} \subseteq Event
    BY <1>3
  <2>2. \A c \in Conn :
          {FdEvent(c, r) : r \in {s \in {"sockW", "pipeW"} : Enabled(c, s)}} \subseteq Event
    BY <1>1 DEF Role
  <2> QED BY <2>1, <2>2 DEF MayBeReady
<1>6. B \in SUBSET (Ready \cup MayBeReady)
  BY Zenon DEF EventLists, kSubset
<1> QED BY <1>4, <1>5, <1>6

LEMMA EventIdent ==
  ASSUME NEW e \in Event
  PROVE  /\ e.filter \in Role => e.ident \in Conn
         /\ e.filter = "proc" => e.ident \in Pid
         /\ e.udata \in Conn \cup {Null}
  BY DEF Event, ListenEvent, Role

(* The exit of a process changes nobody, or takes the process from the     *)
(* connection at the pointer and may set its code.                         *)
LEMMA ProcEither ==
  ASSUME NEW e, DispatchProc(e)
  PROVE  \/ e.udata \notin connections /\ UNCHANGED conn
         \/ /\ e.udata \in connections
            /\ \E code :
                 Become(e.udata, [conn[e.udata] EXCEPT !.cgi_pid = NoPid, !.code = code])
<1> DEFINE c == e.udata
           A(k) == [conn[c] EXCEPT !.cgi_pid = NoPid, !.code = k]
<1>1. CASE c \notin connections
  BY <1>1 DEF DispatchProc
<1>2. CASE c \in connections
  <2>1. Become(c, [conn[c] EXCEPT !.cgi_pid = NoPid,
                                  !.code = IF proc[e.ident].ok THEN @ ELSE 500])
    BY <1>2 DEF DispatchProc
  <2>2. \E k : Become(c, A(k))
    BY <2>1, Zenon
  <2> QED BY <1>2, <2>2
<1> QED BY <1>1, <1>2

LEMMA WorkContinuesOwned ==
  ASSUME WorldTypeOK, Owned(proc), NEW c \in Conn, WorkContinues(c)
  PROVE  Owned(proc')
<1>1. proc \in [Pid -> ProcRecord]
  BY DEF WorldTypeOK
<1>2. CASE OverloadReply(c)
  BY <1>1, <1>2, OwnedKill DEF OverloadReply
<1>3. CASE ExecuteCgiProcess(c)
  <2>1. \E p \in Pid, early \in BOOLEAN : proc' = Forked(c, p, early)
    BY <1>3 DEF ExecuteCgiProcess, StartCgi
  <2> QED BY <2>1, OwnedForked
<1>4. CASE HandlingDynamicPageDone(c)
  BY <1>1, <1>4, OwnedUnplumb DEF HandlingDynamicPageDone
<1>5. CASE proc' = proc
  BY <1>5 DEF Owned
<1> QED
  BY <1>2, <1>3, <1>4, <1>5
  DEF WorkContinues, ParsingRequestMessageAgain, HandlingStaticPage,
      WritingToPipeAgain, WritingToPipeDone, HandlingDynamicPageAgain,
      WritingToSocketAgain, WritingToSocketDone

LEMMA WorkClosesOwned ==
  ASSUME WorldTypeOK, Owned(proc), NEW c \in Conn, WorkCloses(c)
  PROVE  Owned(proc')
<1>1. proc \in [Pid -> ProcRecord]
  BY DEF WorldTypeOK
<1>2. PICK pr \in [Pid -> ProcRecord] :
        /\ CloseConnection(c, pr)
        /\ \/ pr = proc
           \/ pr = Kill(proc, conn[c].cgi_pid)
           \/ \E p \in {q \in Pid : proc[q].st = "free"}, early \in BOOLEAN :
                pr = Forked(c, p, early)
  BY WorkClosesProc
<1>3. Owned(pr)
  BY <1>1, <1>2, OwnedKill, OwnedForked
<1> QED BY <1>2, <1>3, OwnedClose
-----------------------------------------------------------------------------
LEMMA TypeInvInit == Init => TypeInv
<1> SUFFICES ASSUME Init PROVE TypeInv
  OBVIOUS
<1>1. conn \in [Conn -> ConnRecord]
  BY NewConnectionType DEF Init, WorldInit
<1>2. knote \in [Conn -> [Role -> Knote]]
  BY DEF Init, WorldInit, NoKnotes, NoKnote, Knote
<1>3. sock \in [Conn -> SockRecord] /\ pipe \in [Conn -> PipeRecord]
  BY DEF Init, WorldInit, NewSocket, SockRecord, NoPipe, PipeRecord
<1>4. proc \in [Pid -> ProcRecord] /\ Owned(proc)
  BY DEF Init, WorldInit, NoProc, ProcRecord, Owned
<1> QED
  BY <1>1, <1>2, <1>3, <1>4, QueueInvInit
  DEF TypeInv, TypeOK, WorldTypeOK, QueueInv, Init

LEMMA TypeInvNext == TypeInv /\ [Next]_vars => TypeInv'
<1> SUFFICES ASSUME TypeInv, [Next]_vars PROVE TypeInv'
  OBVIOUS
<1>q. QueueInv'
  BY QueueInvNext DEF TypeInv
<1>a. /\ WorldTypeOK /\ Owned(proc) /\ proc \in [Pid -> ProcRecord]
      /\ batch \subseteq Event /\ connections \subseteq Conn /\ up \in BOOLEAN
  BY DEF TypeInv, TypeOK, WorldTypeOK
(* The queue and the counter are QueueInv's; what is left to show. *)
<1>s. ASSUME WorldTypeOK', Owned(proc'), batch' \subseteq Event, up' \in BOOLEAN
      PROVE  TypeInv'
  BY <1>q, <1>s DEF TypeInv, TypeOK, QueueInv, Owned
<1>w. ASSUME UNCHANGED worldVars PROVE WorldTypeOK' /\ Owned(proc')
  BY <1>a, <1>w DEF worldVars, WorldTypeOK, Owned
(* A descriptor handler that failed, in the event loop. *)
<1>c. ASSUME NEW e \in batch, IsLive(e), CloseConnection(e.ident, proc), Break
      PROVE  TypeInv'
  <2>1. e.ident \in Conn
    BY <1>a, <1>c DEF IsLive
  <2>2. WorldTypeOK' /\ Owned(proc')
    BY <1>a, <1>c, <2>1, CloseConnectionType, OwnedClose
  <2> QED BY <1>a, <1>c, <1>s, <2>2 DEF Break
<1>x. ASSUME Crash PROVE TypeInv'
  BY <1>a, <1>s, <1>w, <1>x DEF Crash
<1>1. CASE Poll
  <2>1. PICK B \in EventLists :
          /\ batch' = B
          /\ proc' = [p \in Pid |-> IF \E e \in B : e.filter = "proc" /\ e.ident = p
                                      THEN [proc[p] EXCEPT !.armed = FALSE]
                                      ELSE proc[p]]
    BY <1>1 DEF Poll
  <2>2. batch' \subseteq Event
    BY <1>a, <2>1, EventListType
  <2>3. proc' \in [Pid -> ProcRecord]
    BY <1>a, <2>1, ZenonT(30) DEF ProcRecord
  <2>4. Owned(proc')
    BY <1>a, <2>1 DEF Owned, ProcRecord
  <2>5. WorldTypeOK' /\ up' = up
    BY <1>1, <1>a, <2>3 DEF Poll, WorldTypeOK
  <2> QED BY <1>a, <1>s, <2>2, <2>4, <2>5
<1>2. ASSUME NEW e \in batch, AcceptClient(e) PROVE TypeInv'
  <2>1. WorldTypeOK' /\ Owned(proc')
    <3>1. CASE UNCHANGED worldVars
      BY <1>w, <3>1
    <3>2. ASSUME NEW c \in Conn, OpenConnection(c) PROVE WorldTypeOK' /\ Owned(proc')
      BY <1>a, <3>2, OpenConnectionType DEF OpenConnection, Owned
    <3> QED BY <1>2, <3>1, <3>2 DEF AcceptClient
  <2> QED BY <1>2, <1>a, <1>s, <2>1 DEF AcceptClient, Continue
<1>3. ASSUME NEW e \in batch, DispatchRead(e) PROVE TypeInv'
  <2>1. CASE IsLive(e) /\ ReadHandler(e.ident, e.filter) /\ Continue(e)
    <3>1. e.ident \in Conn /\ e.filter \in Role
      BY <1>3, <1>a, <2>1 DEF IsLive, DispatchRead, Role
    <3>2. WorldTypeOK' /\ Owned(proc')
      BY <1>a, <2>1, <3>1, ReadHandlerType DEF ReadHandler, Owned
    <3> QED BY <1>a, <1>s, <2>1, <3>2 DEF Continue
  <2> QED BY <1>3, <1>c, <1>x, <2>1 DEF DispatchRead
<1>4. ASSUME NEW e \in batch, DispatchWrite(e) PROVE TypeInv'
  <2>1. CASE IsLive(e) /\ WriteHandler(e.ident, e.filter) /\ Continue(e)
    <3>1. e.ident \in Conn /\ e.filter \in Role
      BY <1>4, <1>a, <2>1 DEF IsLive, DispatchWrite, Role
    <3>2. WorldTypeOK' /\ Owned(proc')
      BY <1>a, <2>1, <3>1, WriteHandlerType DEF WriteHandler, Owned
    <3> QED BY <1>a, <1>s, <2>1, <3>2 DEF Continue
  <2> QED BY <1>4, <1>c, <1>x, <2>1 DEF DispatchWrite
<1>5. ASSUME NEW e \in batch, DispatchProc(e) PROVE TypeInv'
  <2> DEFINE p == e.ident
             c == e.udata
             k == IF proc[p].ok THEN conn[c].code ELSE 500
             x == [conn[c] EXCEPT !.cgi_pid = NoPid, !.code = k]
  <2>1. conn' \in [Conn -> ConnRecord]
    <3>1. CASE UNCHANGED conn
      BY <1>a, <3>1 DEF WorldTypeOK
    <3>2. CASE c \in connections /\ Become(c, x)
      <4>1. c \in Conn /\ conn[c] \in ConnRecord
        BY <1>a, <3>2 DEF WorldTypeOK
      <4>2. k \in Code
        BY <4>1, FieldTypes DEF Code
      <4>3. x \in ConnRecord
        <5> HIDE DEF k, c
        <5> QED BY <4>1, <4>2, Zenon DEF ConnRecord
      <4> QED BY <1>a, <3>2, <4>1, <4>3, BecomeType
    <3>3. UNCHANGED conn \/ (c \in connections /\ Become(c, x))
      <4>1. CASE c \notin connections
        BY <1>5, <4>1 DEF DispatchProc
      <4>2. CASE c \in connections
        <5>1. Become(c, [conn[c] EXCEPT !.cgi_pid = NoPid,
                                        !.code = IF proc[p].ok THEN @ ELSE 500])
          BY <1>5, <4>2 DEF DispatchProc
        <5>2. conn[c] \in ConnRecord
          BY <1>a, <4>2 DEF WorldTypeOK
        <5> QED BY <4>2, <5>1, <5>2, Zenon DEF ConnRecord
      <4> QED BY <4>1, <4>2
    <3> QED BY <3>1, <3>2, <3>3
  <2>2. proc' \in [Pid -> ProcRecord] /\ Owned(proc')
    <3>1. NoProc \in ProcRecord
      BY DEF NoProc, ProcRecord
    <3>2. proc' = [proc EXCEPT ![p] = NoProc]
      BY <1>5 DEF DispatchProc
    <3> QED BY <1>a, <3>1, <3>2 DEF Owned, NoProc
  <2>3. WorldTypeOK'
    BY <1>5, <1>a, <2>1, <2>2 DEF DispatchProc, WorldTypeOK
  <2>4. batch' \subseteq Event /\ up' \in BOOLEAN
    BY <1>5, <1>a DEF DispatchProc, Continue, Break
  <2> QED BY <1>s, <2>2, <2>3, <2>4
<1>6. ASSUME NEW e \in batch, DispatchProcCrashes(e) PROVE TypeInv'
  BY <1>6, <1>x DEF DispatchProcCrashes
<1>7. CASE StartWork
  BY <1>7, <1>a, <1>s, <1>w DEF StartWork
<1>8. ASSUME NEW c \in connections, WorkKeeps(c) PROVE TypeInv'
  <2>1. WorkContinues(c) /\ c \in Conn
    BY <1>8, <1>a DEF WorkKeeps
  <2>2. WorldTypeOK' /\ Owned(proc')
    BY <1>a, <2>1, WorkContinuesType, WorkContinuesOwned
  <2> QED BY <1>8, <1>a, <1>s, <2>2 DEF WorkKeeps
<1>9. ASSUME NEW c \in connections, WorkErases(c) PROVE TypeInv'
  <2>1. WorkCloses(c) /\ c \in Conn
    BY <1>9, <1>a DEF WorkErases
  <2>2. WorldTypeOK' /\ Owned(proc')
    BY <1>a, <2>1, WorkClosesType, WorkClosesOwned
  <2> QED BY <1>9, <1>a, <1>s, <2>2 DEF WorkErases
<1>10. CASE Environment
  <2>1. batch' = batch /\ up' = up
    BY <1>10 DEF Environment, serverVars
  <2>2. ASSUME NEW c \in connections,
               ClientSends(c) \/ ClientShutsDown(c) \/ ClientResets(c) \/ Expires(c)
        PROVE  WorldTypeOK' /\ Owned(proc')
    <3>1. proc' = proc
      BY <2>2 DEF ClientSends, ClientShutsDown, ClientResets, Expires
    <3> QED BY <1>a, <2>2, <3>1, ClientType, ExpiresType DEF Owned
  <2>3. ASSUME NEW p \in Pid, CgiWrites(p) \/ CgiClosesEnd(p) \/ CgiExits(p)
        PROVE  WorldTypeOK' /\ Owned(proc')
    <3>1. WorldTypeOK'
      BY <1>a, <2>3, CgiType DEF Owned
    <3>2. Owned(proc')
      <4>1. CASE CgiExits(p)
        <5>1. PICK ok : proc' = [proc EXCEPT ![p].st = "zombie", ![p].ok = ok]
          BY <4>1, Zenon DEF CgiExits
        <5>2. \A q \in Pid : /\ proc'[q].plumbed = proc[q].plumbed
                             /\ proc'[q].owner = proc[q].owner
          BY <1>a, <5>1 DEF ProcRecord
        <5> QED BY <1>a, <5>2 DEF Owned
      <4>2. CASE proc' = proc
        BY <1>a, <4>2 DEF Owned
      <4> QED BY <2>3, <4>1, <4>2 DEF CgiWrites, CgiClosesEnd
    <3> QED BY <3>1, <3>2
  <2> QED BY <1>10, <1>a, <1>s, <2>1, <2>2, <2>3 DEF Environment
<1>11. CASE UNCHANGED vars
  BY <1>11, <1>a, <1>s, <1>w DEF vars, serverVars
<1> QED
  BY <1>1, <1>2, <1>3, <1>4, <1>5, <1>6, <1>7, <1>8, <1>9, <1>10, <1>11
  DEF Next, ServerStep, Dispatch, Work, Dead

(* Every variable of the event loop and of the world it meets keeps its    *)
(* type.                                                                   *)
THEOREM TypeCorrect == Spec => []TypeOK
<1>1. TypeInv => TypeOK
  BY DEF TypeInv
<1> QED BY <1>1, TypeInvInit, TypeInvNext, PTL DEF Spec

-----------------------------------------------------------------------------
(***************************************************************************)
(* The event loop implements RoundRobin: each step of Server is a step of  *)
(* the abstract scheduler or none.                                         *)
(***************************************************************************)
Progress == [c \in Conn |-> conn[c].state]

(* pop_front takes one from the connections still to be served. *)
LEMMA TurnTaken ==
  ASSUME NEW S, NEW s \in Seq(S), NoRepeat(s), NEW n \in 1..Len(s),
         NEW t, \A i \in 1..(n - 1) : t[i] = s[i + 1]
  PROVE  {t[i] : i \in 1..(n - 1)} = {s[i] : i \in 1..n} \ {Head(s)}
<1>1. Len(s) \in Nat /\ n \in Nat /\ n <= Len(s) /\ Head(s) = s[1]
  BY HeadTailProperties
<1>2. ASSUME NEW i \in 1..(n - 1)
      PROVE  t[i] \in {s[j] : j \in 1..n} \ {Head(s)}
  <2>1. i + 1 \in 1..n /\ i + 1 \in 1..Len(s) /\ 1 \in 1..Len(s) /\ i + 1 # 1
    BY <1>1
  <2> QED BY <1>1, <2>1 DEF NoRepeat
<1>3. ASSUME NEW i \in 1..n, s[i] # Head(s)
      PROVE  s[i] \in {t[j] : j \in 1..(n - 1)}
  <2>1. i - 1 \in 1..(n - 1) /\ s[i] = t[i - 1]
    BY <1>1, <1>3
  <2> QED BY <2>1
<1> QED BY <1>2, <1>3

(* The methods called in the turn of c change the record of c only. *)
LEMMA BecomeOwn ==
  ASSUME conn \in [Conn -> ConnRecord], NEW c \in Conn, NEW x, Become(c, x)
  PROVE  \A d \in Conn \ {c} : Progress'[d] = Progress[d]
  BY DEF Become, Progress

LEMMA ReplyOwn ==
  ASSUME conn \in [Conn -> ConnRecord], NEW c \in Conn, NEW x, NEW code,
         Reply(c, x, code)
  PROVE  \A d \in Conn \ {c} : Progress'[d] = Progress[d]
  BY BecomeOwn, Zenon DEF Reply

LEMMA WorkOwn ==
  ASSUME conn \in [Conn -> ConnRecord], NEW c \in Conn,
         WorkContinues(c) \/ WorkCloses(c)
  PROVE  \A d \in Conn \ {c} : Progress'[d] = Progress[d]
<1>1. CASE OverloadReply(c)
  BY <1>1, ReplyOwn DEF OverloadReply
<1>2. CASE HandlingStaticPage(c)
  BY <1>2, ReplyOwn, Zenon DEF HandlingStaticPage
<1>3. CASE ExecuteCgiProcess(c)
  <2>1. PICK x, code, p, early : StartCgi(c, x, code, p, early)
    BY <1>3, Zenon DEF ExecuteCgiProcess
  <2> QED BY <2>1, BecomeOwn, Zenon DEF StartCgi
<1>4. CASE HandlingDynamicPageDone(c)
  BY <1>4, BecomeOwn, Zenon DEF HandlingDynamicPageDone
<1>5. CASE \/ ParsingRequestMessageAgain(c)
           \/ WritingToPipeDone(c)
           \/ HandlingDynamicPageAgain(c)
           \/ WritingToSocketDone(c)
  BY <1>5, BecomeOwn, Zenon DEF ParsingRequestMessageAgain, WritingToPipeDone,
     HandlingDynamicPageAgain, WritingToSocketDone
<1>6. CASE WritingToPipeAgain(c) \/ WritingToSocketAgain(c)
  BY <1>6 DEF WritingToPipeAgain, WritingToSocketAgain, Progress
<1>7. ASSUME NEW pr, CloseConnection(c, pr)
      PROVE  \A d \in Conn \ {c} : Progress'[d] = Progress[d]
  BY <1>7, BecomeOwn DEF CloseConnection
<1>8. CASE WorkCloses(c)
  BY <1>7, <1>8, Zenon DEF WorkCloses, TimeOutCloses, OverloadCloses,
     ParsingRequestMessageThrows, ExecuteCgiProcessFails,
     HandlingDynamicPageThrows, WritingToSocketCloses
<1> QED BY <1>1, <1>2, <1>3, <1>4, <1>5, <1>6, <1>8 DEF WorkContinues

(* Outside its turn the stage of a live connection does not change. *)
LEMMA SameStage ==
  ASSUME conn \in [Conn -> ConnRecord], NEW c \in Conn, NEW x,
         x.state = conn[c].state, Become(c, x)
  PROVE  Progress' = Progress
  BY DEF Become, Progress

LEMMA HandlersKeepStage ==
  ASSUME conn \in [Conn -> ConnRecord], NEW c \in Conn, NEW r,
         ReadHandler(c, r) \/ WriteHandler(c, r)
  PROVE  Progress' = Progress
<1>1. ASSUME NEW n, NEW from, Receive(c, n, from) PROVE Progress' = Progress
  <2>1. conn[c] \in ConnRecord
    OBVIOUS
  <2> QED BY <1>1, <2>1 DEF Receive, Become, Progress, ConnRecord
<1>2. CASE ReadHandler(c, r)
  BY <1>1, <1>2, Zenon DEF ReadHandler
<1>3. CASE WriteHandler(c, r)
  <2> DEFINE y(left, mis) == [conn[c] EXCEPT !.to_write = left,
                                             !.misdirected = mis]
  <2>1. PICK left, mis : Become(c, y(left, mis))
    BY <1>3 DEF WriteHandler
  <2>2. y(left, mis).state = conn[c].state
    BY DEF ConnRecord
  <2> QED BY <2>1, <2>2, SameStage
<1> QED BY <1>2, <1>3

LEMMA RoundsInit == Init => Rounds!Init
<1> SUFFICES ASSUME Init PROVE Rounds!Init
  OBVIOUS
<1>1. InRound = {}
  BY DEF Init, InRound
<1>2. Progress \in [Conn -> State]
  BY DEF Init, WorldInit, Progress, NewConnection, State
<1> QED BY <1>1, <1>2 DEF Init, Rounds!Init, Progress

(* A step outside the work loop of a process that is up comes between two  *)
(* rounds, or changes nothing the scheduler sees.                          *)
LEMMA RoundsNext == TypeInv /\ TypeInv' /\ [Next]_vars => [Rounds!Next]_Rounds!rvars
<1> SUFFICES ASSUME TypeInv, TypeInv', [Next]_vars
             PROVE  [Rounds!Next]_Rounds!rvars
  OBVIOUS
<1>c. conn \in [Conn -> ConnRecord]
  BY DEF TypeInv, TypeOK, WorldTypeOK
<1>p. Progress' \in [Conn -> State]
  BY DEF TypeInv, TypeOK, WorldTypeOK, Progress, ConnRecord
<1>q. /\ connections \subseteq Conn /\ work_queue \in Seq(Conn) /\ todo \in Nat
      /\ todo <= Len(work_queue)
      /\ NoRepeat(work_queue) /\ Range(work_queue) = connections
      /\ phase = "dispatch" => todo = 0
  BY DEF TypeInv, QueueInv, QueueExact, NoRepeat
<1>e. /\ phase = "dispatch" => InRound = {}
      /\ todo' = 0 => InRound' = {}
  BY <1>q DEF InRound
<1>s. ASSUME UNCHANGED <<connections, work_queue, todo, up>>, Progress' = Progress
      PROVE  UNCHANGED Rounds!rvars
  BY <1>s DEF Rounds!rvars, InRound, Progress
<1>f. ASSUME Crash, up, phase = "dispatch" PROVE Rounds!Next
  BY <1>e, <1>f DEF Crash, worldVars, Rounds!Next, Rounds!Fail, Rounds!Between,
     Progress, InRound
<1>d. ASSUME NEW c \in connections, up, phase = "dispatch",
             CloseConnection(c, proc), Erase(c), UNCHANGED <<phase, todo, up>>
      PROVE  Rounds!Next
  <2>1. \A d \in Conn \ {c} : Progress'[d] = Progress[d]
    BY <1>c, <1>d, <1>q, BecomeOwn DEF CloseConnection
  <2>2. InRound = {} /\ InRound' = {}
    BY <1>d, <1>q, <1>e
  <2>3. Rounds!Drop(c)
    BY <1>d, <1>p, <2>1, <2>2
    DEF Erase, Rounds!Drop, Rounds!Between, Rounds!OnlyOf, Progress
  <2> QED BY <1>q, <2>3 DEF Rounds!Next
<1>1. CASE Poll
  BY <1>1, <1>s DEF Poll, Progress
<1>2. ASSUME NEW e \in batch, AcceptClient(e)
      PROVE  [Rounds!Next]_Rounds!rvars
  <2>1. CASE UNCHANGED <<worldVars, connections, work_queue>>
    BY <1>2, <1>s, <2>1 DEF AcceptClient, Continue, worldVars, Progress
  <2>2. ASSUME NEW c \in Conn \ connections, OpenConnection(c),
               connections' = connections \cup {c}
        PROVE  Rounds!Next
    <3>1. \A d \in Conn \ {c} : Progress'[d] = Progress[d]
      BY <1>c, <2>2, BecomeOwn DEF OpenConnection
    <3>2. up /\ up' = up /\ InRound = {} /\ InRound' = {}
      BY <1>2, <1>e, <1>q DEF AcceptClient, Dispatches, Continue
    <3>3. Rounds!Admit(c)
      BY <1>p, <2>2, <3>1, <3>2
      DEF Rounds!Admit, Rounds!Between, Rounds!OnlyOf, Progress
    <3> QED BY <3>3 DEF Rounds!Next
  <2> QED BY <1>2, <2>1, <2>2, Zenon DEF AcceptClient
<1>3. ASSUME NEW e \in batch, DispatchRead(e)
      PROVE  [Rounds!Next]_Rounds!rvars
  <2>1. up /\ phase = "dispatch"
    BY <1>3 DEF DispatchRead, Dispatches
  <2>2. CASE IsLive(e) /\ ReadHandler(e.ident, e.filter) /\ Continue(e)
             /\ UNCHANGED <<connections, work_queue>>
    <3>1. e.ident \in Conn
      BY <1>q, <2>2 DEF IsLive
    <3>2. Progress' = Progress
      BY <1>c, <2>2, <3>1, HandlersKeepStage
    <3> QED BY <1>s, <2>2, <3>2 DEF Continue
  <2>3. CASE IsLive(e) /\ CloseConnection(e.ident, proc) /\ Erase(e.ident) /\ Break
    BY <1>d, <2>1, <2>3 DEF IsLive, Break
  <2> QED BY <1>3, <1>f, <2>1, <2>2, <2>3, Zenon DEF DispatchRead
<1>4. ASSUME NEW e \in batch, DispatchWrite(e)
      PROVE  [Rounds!Next]_Rounds!rvars
  <2>1. up /\ phase = "dispatch"
    BY <1>4 DEF DispatchWrite, Dispatches
  <2>2. CASE IsLive(e) /\ WriteHandler(e.ident, e.filter) /\ Continue(e)
             /\ UNCHANGED <<connections, work_queue>>
    <3>1. e.ident \in Conn
      BY <1>q, <2>2 DEF IsLive
    <3>2. Progress' = Progress
      BY <1>c, <2>2, <3>1, HandlersKeepStage
    <3> QED BY <1>s, <2>2, <3>2 DEF Continue
  <2>3. CASE IsLive(e) /\ CloseConnection(e.ident, proc) /\ Erase(e.ident) /\ Break
    BY <1>d, <2>1, <2>3 DEF IsLive, Break
  <2> QED BY <1>4, <1>f, <2>1, <2>2, <2>3, Zenon DEF DispatchWrite
<1>5. ASSUME NEW e \in batch, DispatchProc(e)
      PROVE  [Rounds!Next]_Rounds!rvars
  <2> DEFINE c == e.udata
             y(code) == [conn[c] EXCEPT !.cgi_pid = NoPid, !.code = code]
  <2>1. CASE UNCHANGED conn
    BY <1>5, <1>s, <2>1 DEF DispatchProc, Continue, Break, Progress
  <2>2. ASSUME c \in connections, NEW code, Become(c, y(code))
        PROVE  [Rounds!Next]_Rounds!rvars
    <3>1. y(code).state = conn[c].state
      BY <1>c, <1>q, <2>2 DEF ConnRecord
    <3>2. Progress' = Progress
      BY <1>c, <1>q, <2>2, <3>1, SameStage
    <3> QED BY <1>5, <1>s, <3>2 DEF DispatchProc, Continue, Break
  <2> QED BY <1>5, <2>1, <2>2, ProcEither, Zenon
<1>6. ASSUME NEW e \in batch, DispatchProcCrashes(e) PROVE Rounds!Next
  BY <1>6, <1>f DEF DispatchProcCrashes, Dispatches
<1>7. CASE StartWork
  <2>1. InRound' = connections
    BY <1>7, <1>q, RangeIs DEF StartWork, InRound
  <2>2. Rounds!StartRound
    BY <1>7, <1>e, <2>1
    DEF StartWork, worldVars, Rounds!StartRound, Rounds!Between, Progress
  <2> QED BY <2>2 DEF Rounds!Next
<1>t. ASSUME NEW c \in connections, Works(c), todo' = todo - 1,
             \A i \in 1..(todo - 1) : work_queue'[i] = work_queue[i + 1],
             WorkContinues(c) \/ WorkCloses(c),
             connections' \in {connections, connections \ {c}}, up' = up
      PROVE  Rounds!Next
  <2>1. up /\ c \in Conn /\ todo \in 1..Len(work_queue) /\ c = Head(work_queue)
    BY <1>q, <1>t DEF Works
  <2>2. InRound' = InRound \ {c}
    <3>1. todo \in 1..Len(work_queue) /\ \A i \in 1..(todo - 1) : work_queue'[i] = work_queue[i + 1]
      BY <1>t, <2>1
    <3>2. {work_queue'[i] : i \in 1..(todo - 1)}
            = {work_queue[i] : i \in 1..todo} \ {Head(work_queue)}
      BY <1>q, <3>1, TurnTaken
    <3> QED BY <1>t, <2>1, <3>2 DEF InRound
  <2>3. c \in InRound
    <3>1. 1 \in 1..todo /\ c = work_queue[1]
      BY <1>q, <2>1, HeadTailProperties
    <3> QED BY <3>1 DEF InRound
  <2>4. \A d \in Conn \ {c} : Progress'[d] = Progress[d]
    BY <1>c, <1>t, <2>1, WorkOwn
  <2>5. Rounds!Serve(c)
    BY <1>p, <1>t, <2>1, <2>2, <2>3, <2>4
    DEF Rounds!Serve, Rounds!OnlyOf, Progress
  <2> QED BY <2>1, <2>5 DEF Rounds!Next
<1>h. ASSUME NEW c \in connections, Works(c)
      PROVE  /\ Tail(work_queue) \in Seq(Conn)
             /\ Len(Tail(work_queue)) = Len(work_queue) - 1
             /\ Len(work_queue) \in Nat \ {0}
             /\ c = Head(work_queue)
             /\ Range(Tail(work_queue)) = connections \ {c}
             /\ \A i \in 1..(Len(work_queue) - 1) :
                   Tail(work_queue)[i] = work_queue[i + 1]
  <2>1. todo > 0 /\ c = Head(work_queue) /\ Len(work_queue) # 0
    BY <1>h, <1>q DEF Works
  <2> QED BY <1>q, <2>1, TailRest, HeadTailProperties
<1>8. ASSUME NEW c \in connections, WorkKeeps(c) PROVE Rounds!Next
  <2> DEFINE rest == Tail(work_queue)
  <2>1. Works(c) /\ todo' = todo - 1 /\ work_queue' = Append(rest, c)
        /\ connections' = connections /\ up' = up /\ WorkContinues(c)
    BY <1>8 DEF WorkKeeps
  <2>2. /\ rest \in Seq(Conn) /\ Len(rest) = Len(work_queue) - 1
        /\ \A i \in 1..Len(rest) : rest[i] = work_queue[i + 1]
    BY <1>h, <2>1
  <2> HIDE DEF rest
  <2>3. \A i \in 1..Len(rest) : work_queue'[i] = rest[i]
    BY <1>q, <2>1, <2>2
  <2>4. \A i \in 1..(todo - 1) : work_queue'[i] = work_queue[i + 1]
    BY <1>q, <2>2, <2>3
  <2> QED BY <1>t, <2>1, <2>4
<1>9. ASSUME NEW c \in connections, WorkErases(c) PROVE Rounds!Next
  <2> DEFINE rest == Tail(work_queue)
  <2>1. Works(c) /\ todo' = todo - 1 /\ work_queue' = RemoveFirst(rest, c)
        /\ connections' = connections \ {c} /\ up' = up /\ WorkCloses(c)
    BY <1>9 DEF WorkErases
  <2>2. /\ rest \in Seq(Conn) /\ Len(rest) = Len(work_queue) - 1
        /\ Range(rest) = connections \ {c}
        /\ \A i \in 1..Len(rest) : rest[i] = work_queue[i + 1]
    BY <1>h, <2>1
  <2> HIDE DEF rest
  <2>3. work_queue' = rest
    BY <2>1, <2>2, RemoveAbsent
  <2>4. \A i \in 1..(todo - 1) : work_queue'[i] = work_queue[i + 1]
    BY <1>q, <2>2, <2>3
  <2> QED BY <1>t, <2>1, <2>4
<1>10. CASE Environment
  <2>1. UNCHANGED <<connections, work_queue, todo, up>>
    BY <1>10 DEF Environment, serverVars
  <2>2. ASSUME NEW c \in connections, Expires(c) PROVE Progress' = Progress
    <3> DEFINE y == [conn[c] EXCEPT !.expired = TRUE]
    <3>1. Become(c, y)
      BY <2>2 DEF Expires
    <3>2. y.state = conn[c].state
      BY <1>c, <1>q DEF ConnRecord
    <3> HIDE DEF y
    <3> QED BY <1>c, <1>q, <3>1, <3>2, SameStage
  <2>3. ASSUME UNCHANGED conn PROVE Progress' = Progress
    BY <2>3 DEF Progress
  <2>4. (UNCHANGED conn) \/ \E c \in connections : Expires(c)
    BY <1>10, Zenon DEF Environment, ClientSends, ClientShutsDown, ClientResets,
       CgiWrites, CgiClosesEnd, CgiExits
  <2> QED BY <1>s, <2>1, <2>2, <2>3, <2>4
<1>11. CASE UNCHANGED vars
  BY <1>11, <1>s DEF vars, serverVars, worldVars, Progress
<1> QED
  BY <1>1, <1>2, <1>3, <1>4, <1>5, <1>6, <1>7, <1>8, <1>9, <1>10, <1>11
  DEF Next, ServerStep, Dispatch, Work, Dead

(* Server implements RoundRobin: in each round of the work loop every live *)
(* connection gets exactly one call of work(), no deleted one gets any,    *)
(* and the state of a request changes in the turn of its connection only.  *)
THEOREM RoundsCorrect == Spec => ServesInRounds
<1>1. Spec => []TypeInv
  BY TypeInvInit, TypeInvNext, PTL DEF Spec
<1> QED BY <1>1, RoundsInit, RoundsNext, PTL DEF Spec, ServesInRounds, Rounds!Spec
=============================================================================
