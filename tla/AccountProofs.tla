---------------------------- MODULE AccountProofs ----------------------------
(***************************************************************************)
(* The bytes of a request and of its reply: what a client that waits for   *)
(* each reply has sent is kept in exactly one place until the reply is     *)
(* out, and a reply made from CGI output is whole.                         *)
(*                                                                         *)
(* Both hold because the filter of the client's socket is off from the     *)
(* moment a request is complete until its reply is out: bytes of the       *)
(* client never meet a request, a body or CGI output they do not belong    *)
(* to.  That in turn needs the client to wait (MaxAhead = 1): one that     *)
(* sends ahead is what MCPipelining is about.                              *)
(***************************************************************************)
EXTENDS KillProofs

(* The record of a connection whose request is neither overdue nor spoilt  *)
(* by bytes that were parsed twice.                                        *)
OnTime(x) == ~x.expired /\ ~x.corrupt

(* The bytes in read_buffer_ that no other buffer holds yet, by sender.    *)
FromClient(x) == IF x.from = "client" /\ ~x.stale THEN x.read ELSE 0
FromCgi(x)    == IF x.from = "cgi" THEN x.read ELSE 0
(* A request was taken out of leftover_ and its reply is not out.          *)
Serving(x) == /\ x.state # "kReadingFromSocket"
              /\ ~(x.state = "kWritingToSocket" /\ x.to_write = 0)
(* The request parts the connection holds. *)
Held(x) == x.request + FromClient(x) + (IF Serving(x) THEN RequestParts ELSE 0)

(* kevent() may report filter r. *)
On(kn, r) == kn[r].st = "on"

(* What the client is due an answer for is in its socket or here; a reset  *)
(* throws away what is in the socket.                                      *)
Counted(x, s) ==
  /\ s.inbox + Held(x) <= s.due
  /\ s.peer # "reset" => s.due = s.inbox + Held(x)

(* A connection in kReadingFromSocket holds no output of a CGI process and *)
(* waits for the client only while the request is not complete.            *)
ReadsRequest(x, kn) ==
  x.state = "kReadingFromSocket" =>
    /\ x.from = "client" /\ x.cgi_output = 0 /\ ~x.foreign
    /\ On(kn, "sockR") => FromClient(x) = 0 /\ x.request < RequestParts

(* While a request is served nothing is read from the client, and nothing  *)
(* that was read is left.                                                  *)
ServesRequest(x, kn) ==
  x.state # "kReadingFromSocket" =>
    /\ ~On(kn, "sockR")
    /\ x.request = 0 /\ FromClient(x) = 0 /\ ~x.stale

(* Only a reply is written to the socket. *)
SendsReply(x, kn) ==
  On(kn, "sockW") => x.state = "kWritingToSocket" /\ x.to_write # 0

(* What the CGI process has written is in the pipe, in read_buffer_ or in  *)
(* the reply; event.data was 0 at the end of the output only.              *)
TakesOutput(x, kn, q) ==
  x.state \in {"kWritingToPipe", "kReadingFromPipe"} =>
    /\ ~x.foreign
    /\ q.emitted = q.unread + x.cgi_output + FromCgi(x)
    /\ x.leftover_data = "zero" => q.unread = 0 /\ ~q.writer /\ x.read = 0
    /\ On(kn, "pipeR") => x.read = 0

(* All of it, for the record, socket, knotes and pipe of one connection.   *)
Accounted(x, s, kn, q) ==
  /\ s.inbox <= s.due /\ s.due <= RequestParts
  /\ OnTime(x) => /\ Counted(x, s)
                  /\ ReadsRequest(x, kn) /\ ServesRequest(x, kn)
                  /\ SendsReply(x, kn) /\ TakesOutput(x, kn, q)

AccountedAt(c) == Accounted(conn[c], sock[c], knote[c], pipe[c])

(* read() from the pipe returns output, or 0 because it has ended. *)
HasOutput(q) == q.unread # 0 \/ ~q.writer

(* Events to dispatch are for filters that are still on (a handler turns   *)
(* off its own only), one per filter, and still true of the pipes.         *)
EventsOn ==
  \A e \in batch : e.filter \in Role =>
    /\ e = FdEvent(e.ident, e.filter)
    /\ Enabled(e.ident, e.filter)
    /\ e.filter = "pipeR" => HasOutput(pipe[e.ident])

AccountInv ==
  /\ MaxAhead = 1
  /\ PipesInv /\ BatchInv /\ EventsOn
  /\ \A c \in connections : AccountedAt(c)

-----------------------------------------------------------------------------
(* What the calls of kevent() and close() turn on and off. *)
LEMMA SetEventOn ==
  ASSUME NEW kn \in [Role -> Knote], NEW r \in Role, NEW flag, NEW u
  PROVE  /\ \A s \in Role \ {r} : On(SetEvent(kn, r, flag, u), s) <=> On(kn, s)
         /\ flag \in {"EV_DISABLE", "EV_ADD_DISABLE"} => ~On(SetEvent(kn, r, flag, u), r)
  BY DEF SetEvent, On

LEMMA CloseFdOn ==
  ASSUME NEW kn \in [Role -> Knote], NEW r \in Role
  PROVE  \A s \in Role : On(CloseFd(kn, r), s) <=> s # r /\ On(kn, s)
  BY DEF CloseFd, On, NoKnote

LEMMA DisarmOn ==
  ASSUME NEW kn \in [Role -> Knote], NEW r \in Role, NEW c \in Conn, NEW s \in Role
  PROVE  On(Disarm(kn, r, c), s) <=> s # r /\ On(kn, s)
<1> DEFINE k == SetEvent(kn, r, "EV_DISABLE", c)
<1>1. k \in [Role -> Knote] /\ (On(k, s) <=> s # r /\ On(kn, s))
  BY SetEventType, SetEventOn
<1> HIDE DEF k
<1>2. On(SetEvent(k, r, "EV_DISABLE", Null), s) <=> s # r /\ On(k, s)
  BY <1>1, SetEventOn
<1> QED BY <1>1, <1>2 DEF Disarm, k

(* The types of the parts of one connection. *)
LEMMA RecordTypes ==
  ASSUME WorldTypeOK, NEW c \in Conn
  PROVE  /\ conn[c] \in ConnRecord /\ knote[c] \in [Role -> Knote]
         /\ sock[c].inbox \in Nat /\ sock[c].due \in Nat
         /\ pipe[c].unread \in Nat /\ pipe[c].emitted \in Nat
         /\ pipe[c].writer \in BOOLEAN /\ pipe[c].reader \in BOOLEAN
         /\ RequestParts \in Nat \ {0}
  BY ConnectionAssumption DEF WorldTypeOK, SockRecord, PipeRecord

(* The fields the accounts read, from one record to another.               *)
Keeps(w, x) ==
  /\ w.read = x.read /\ w.from = x.from /\ w.stale = x.stale
  /\ w.leftover_data = x.leftover_data
  /\ w.request = x.request /\ w.corrupt = x.corrupt
  /\ w.cgi_output = x.cgi_output /\ w.foreign = x.foreign
  /\ w.expired = x.expired

(* Making the reply moves no byte. *)
LEMMA ReplyOfKeeps ==
  ASSUME NEW x \in ConnRecord, NEW code, NEW n, NEW cl
  PROVE  /\ Keeps(ReplyOf(x, code, n, cl), x)
         /\ ReplyOf(x, code, n, cl).state = "kWritingToSocket"
         /\ ReplyOf(x, code, n, cl).to_write = n
  BY DEF ReplyOf, Keeps, ConnRecord

(* A complete request is all there is, or some of it was parsed twice.     *)
LEMMA ParsedRequest ==
  ASSUME NEW c \in Conn, WorldTypeOK, AccountedAt(c), Runs(c, "kReadingFromSocket"),
         Parses(conn[c]), NEW x \in Parsed(conn[c])
  PROVE  /\ x \in ConnRecord
         /\ x.expired = conn[c].expired
         /\ x.read = 0 /\ ~x.stale /\ x.leftover_data = "unset"
         /\ ~x.corrupt =>
               /\ x.request = 0 /\ x.cgi_output = 0 /\ ~x.foreign
               /\ ~On(knote[c], "sockR") /\ ~On(knote[c], "sockW")
               /\ sock[c].inbox = 0 /\ sock[c].due = RequestParts
<1> DEFINE y == conn[c]
<1>1. PICK r : /\ x = [y EXCEPT !.request = r, !.corrupt = Corrupts(y), !.read = 0,
                               !.stale = FALSE, !.leftover_data = "unset"]
               /\ Corrupts(y) \/ r = Appended(y) - RequestParts
  BY Zenon DEF Parsed
<1>2. /\ y \in ConnRecord /\ y.request \in Nat /\ y.read \in Nat /\ y.state = "kReadingFromSocket"
      /\ ~y.expired
      /\ sock[c].inbox \in Nat /\ sock[c].due \in Nat /\ RequestParts \in Nat
  BY RecordTypes, FieldTypes DEF Runs
<1>3. x \in ConnRecord
  BY <1>2, ParsedType
<1>4. /\ x.expired = y.expired /\ x.read = 0 /\ ~x.stale /\ x.leftover_data = "unset"
      /\ x.corrupt = Corrupts(y) /\ x.cgi_output = y.cgi_output /\ x.foreign = y.foreign
      /\ x.request = r
  BY <1>1, <1>2, Zenon DEF ConnRecord
<1>5. ASSUME ~Corrupts(y)
      PROVE  /\ r = 0 /\ y.cgi_output = 0 /\ ~y.foreign
             /\ ~On(knote[c], "sockR") /\ ~On(knote[c], "sockW")
             /\ sock[c].inbox = 0 /\ sock[c].due = RequestParts
  <2>1. OnTime(y) /\ y.stale \in BOOLEAN /\ ~(y.stale /\ y.read # 0)
    BY <1>2, <1>5, FieldTypes DEF OnTime, Corrupts
  <2>2. y.from = "client" /\ y.cgi_output = 0 /\ ~y.foreign
        /\ (On(knote[c], "sockR") => FromClient(y) = 0 /\ y.request < RequestParts)
        /\ ~On(knote[c], "sockW")
    BY <1>2, <2>1 DEF AccountedAt, Accounted, ReadsRequest, SendsReply
  <2>3. FromClient(y) = y.read
    BY <2>1, <2>2 DEF FromClient
  <2>4. sock[c].inbox + y.request + y.read <= sock[c].due /\ sock[c].due <= RequestParts
    BY <1>2, <2>1, <2>3 DEF AccountedAt, Accounted, Counted, Held, Serving
  <2>5. y.request + y.read >= RequestParts
    BY <1>5 DEF Parses, Appended
  <2> HIDE DEF y
  <2>6. r = (y.request + y.read) - RequestParts
    BY <1>1, <1>5 DEF Appended
  <2> QED BY <1>2, <2>2, <2>3, <2>4, <2>5, <2>6
<1> QED BY <1>3, <1>4, <1>5

-----------------------------------------------------------------------------
(* The methods of work() keep the accounts of their connection.            *)
LEMMA WorkContinuesAccount ==
  ASSUME WorldTypeOK, NEW c \in Conn, PipesInUse(knote[c], conn[c]), AccountedAt(c),
         WorkContinues(c)
  PROVE  AccountedAt(c)'
<1> DEFINE y == conn[c]
           kn == knote[c]
           s == sock[c]
<1>0. /\ conn \in [Conn -> ConnRecord] /\ knote \in [Conn -> [Role -> Knote]]
      /\ pipe \in [Conn -> PipeRecord]
      /\ y \in ConnRecord /\ kn \in [Role -> Knote]
      /\ Role = {"sockR", "sockW", "pipeR", "pipeW"}
      /\ s.inbox \in Nat /\ s.due \in Nat /\ RequestParts \in Nat \ {0}
      /\ pipe[c].unread \in Nat /\ pipe[c].emitted \in Nat
      /\ y.request \in Nat /\ y.read \in Nat /\ y.cgi_output \in Nat /\ y.to_write \in Nat
      /\ y.stale \in BOOLEAN /\ y.corrupt \in BOOLEAN /\ y.foreign \in BOOLEAN
  BY RecordTypes, FieldTypes DEF WorldTypeOK, Role
<1>b. s.inbox <= s.due /\ s.due <= RequestParts
  BY DEF AccountedAt, Accounted
<1>s. ASSUME NEW x, Become(c, x), NEW k, SetKnotes(c, k), UNCHANGED sock,
             Accounted(x, s, k, pipe'[c])
      PROVE  AccountedAt(c)'
  BY <1>0, <1>s DEF Become, SetKnotes, AccountedAt
<1>w. ASSUME NEW x, ~OnTime(x), NEW k, NEW q PROVE Accounted(x, s, k, q)
  BY <1>b, <1>w DEF Accounted
(* A reply that is ready: nothing of the request is left elsewhere. *)
<1>r. ASSUME NEW x, NEW k, NEW q,
             x.state = "kWritingToSocket", x.to_write \in Nat \ {0},
             x.request = 0, FromClient(x) = 0, ~x.stale, ~On(k, "sockR"),
             s.peer # "reset" => s.due = s.inbox + RequestParts,
             s.inbox + RequestParts <= s.due
      PROVE  Accounted(x, s, k, q)
  BY <1>0, <1>b, <1>r
  DEF Accounted, Counted, Held, Serving, ReadsRequest, ServesRequest, SendsReply, TakesOutput
<1>1. CASE OverloadReply(c)
  <2>1. PICK n \in 1..MaxWrite, cl \in MayKeepAlive(500) :
          Become(c, ReplyOf(y, 500, n, cl))
    BY <1>1 DEF OverloadReply, Reply
  <2>2. /\ SetKnotes(c, SetEvent(kn, "sockW", "EV_ENABLE", c))
        /\ y.expired /\ UNCHANGED sock
    BY <1>1 DEF OverloadReply, Reply, SystemOverload
  <2>3. ~OnTime(ReplyOf(y, 500, n, cl))
    BY <1>0, <2>2, ReplyOfKeeps DEF Keeps, OnTime
  <2> QED BY <1>s, <1>w, <2>1, <2>2, <2>3, ZenonT(30)
<1>2. CASE HandlingStaticPage(c)
  <2>1. PICK x \in Parsed(y), code \in RequestCode(y) : Reply(c, x, code)
    BY <1>2 DEF HandlingStaticPage
  <2>2. PICK n \in 1..MaxWrite, cl \in MayKeepAlive(code) :
          Become(c, ReplyOf(x, code, n, cl))
    BY <2>1 DEF Reply
  <2> DEFINE k == SetEvent(kn, "sockW", "EV_ENABLE", c)
             z == ReplyOf(x, code, n, cl)
  <2>3. SetKnotes(c, k) /\ UNCHANGED sock /\ (On(k, "sockR") <=> On(kn, "sockR"))
    BY <1>0, <1>2, <2>1, SetEventOn DEF HandlingStaticPage, Reply
  <2>4. /\ x \in ConnRecord /\ x.read = 0 /\ ~x.stale
        /\ ~x.corrupt => /\ x.request = 0 /\ ~On(kn, "sockR")
                         /\ s.inbox = 0 /\ s.due = RequestParts
    BY <1>2, <2>1, ParsedRequest DEF HandlingStaticPage
  <2>5. Keeps(z, x) /\ z.state = "kWritingToSocket" /\ z.to_write = n
    BY <2>4, ReplyOfKeeps
  <2>6. n \in Nat \ {0}
    BY ConnectionAssumption
  <2> HIDE DEF z, k
  <2>7. Accounted(z, s, k, pipe'[c])
    <3>1. CASE x.corrupt
      BY <1>w, <2>5, <3>1 DEF Keeps, OnTime
    <3>2. CASE ~x.corrupt
      <4>1. z.request = 0 /\ FromClient(z) = 0 /\ ~z.stale /\ ~On(k, "sockR")
        BY <2>3, <2>4, <2>5, <3>2 DEF Keeps, FromClient
      <4> QED BY <1>0, <1>r, <2>4, <2>5, <2>6, <3>2, <4>1
    <3> QED BY <3>1, <3>2
  <2> QED BY <1>s, <2>2, <2>3, <2>7 DEF z
<1>3. CASE ParsingRequestMessageAgain(c)
  <2> DEFINE k == SetEvent(kn, "sockR", "EV_ENABLE", c)
             m == IF Corrupts(y) THEN 0 ELSE Appended(y)
             d == Corrupts(y)
             t == y.read # 0
             z == [y EXCEPT !.request = m, !.corrupt = d, !.stale = t]
  <2>1. Become(c, z) /\ SetKnotes(c, k) /\ Runs(c, "kReadingFromSocket") /\ ParsesAgain(y)
        /\ UNCHANGED <<sock, pipe>>
    BY <1>3 DEF ParsingRequestMessageAgain
  <2>2. /\ z.request = m /\ z.corrupt = d /\ z.stale = t
        /\ z.state = y.state /\ z.read = y.read /\ z.from = y.from /\ z.expired = y.expired
        /\ z.cgi_output = y.cgi_output /\ z.foreign = y.foreign
    <3> HIDE DEF m, d, t
    <3> QED BY <1>0 DEF ConnRecord
  <2>3. On(k, "sockW") <=> On(kn, "sockW")
    BY <1>0, SetEventOn
  <2>4. CASE Corrupts(y)
    <3>1. ~OnTime(z)
      BY <2>2, <2>4 DEF OnTime
    <3> QED BY <1>s, <1>w, <2>1, <3>1
  <2>5. CASE ~Corrupts(y)
    <3>1. OnTime(y) /\ ~(y.stale /\ y.read # 0) /\ y.state = "kReadingFromSocket"
      BY <1>0, <2>1, <2>5 DEF OnTime, Corrupts, Runs
    <3>2. /\ Counted(y, s) /\ ReadsRequest(y, kn) /\ SendsReply(y, kn)
      BY <3>1 DEF AccountedAt, Accounted
    <3>3. FromClient(y) = y.read /\ FromClient(z) = 0
      BY <1>0, <2>2, <3>1, <3>2 DEF ReadsRequest, FromClient
    <3>4. z.request = y.request + y.read /\ z.request < RequestParts
      BY <1>0, <2>1, <2>2, <2>5 DEF ParsesAgain, Appended
    <3>5. Held(z) = Held(y)
      BY <1>0, <2>2, <3>1, <3>3, <3>4 DEF Held, Serving
    <3> HIDE DEF z, k
    <3>6. Counted(z, s)
      BY <3>2, <3>5 DEF Counted
    <3>7. ReadsRequest(z, k)
      BY <2>2, <3>1, <3>2, <3>3, <3>4 DEF ReadsRequest
    <3>8. z.state = "kReadingFromSocket"
      BY <2>2, <3>1
    <3>9. SendsReply(z, k)
      BY <2>3, <3>1, <3>2, <3>8 DEF SendsReply
    <3>10. Accounted(z, s, k, pipe'[c])
      BY <1>b, <3>6, <3>7, <3>8, <3>9 DEF Accounted, ServesRequest, TakesOutput
    <3> QED BY <1>s, <2>1, <3>10
  <2> QED BY <2>4, <2>5
<1>5. CASE WritingToPipeAgain(c) \/ WritingToSocketAgain(c)
  <2>1. PICK r \in {"pipeW", "sockW"} :
          /\ SetKnotes(c, SetEvent(kn, r, "EV_ENABLE", c))
          /\ UNCHANGED <<conn, sock, pipe>>
          /\ r = "sockW" => y.state = "kWritingToSocket"
          /\ y.state \in {"kWritingToPipe", "kWritingToSocket"} /\ y.to_write # 0
    BY <1>5 DEF WritingToPipeAgain, WritingToSocketAgain, Runs
  <2> DEFINE k == SetEvent(kn, r, "EV_ENABLE", c)
  <2>2. \A t \in Role \ {r} : On(k, t) <=> On(kn, t)
    BY <1>0, <2>1, SetEventOn
  <2>3. Become(c, y) /\ SetKnotes(c, k)
    BY <1>0, <2>1 DEF Become
  <2> HIDE DEF k
  <2>4. Accounted(y, s, k, pipe[c])
    BY <1>0, <2>1, <2>2
    DEF AccountedAt, Accounted, ReadsRequest, ServesRequest, SendsReply, TakesOutput
  <2> QED BY <1>s, <2>1, <2>3, <2>4
<1>6. CASE WritingToPipeDone(c)
  <2> DEFINE k == CloseFd(kn, "pipeW")
             z == [y EXCEPT !.state = "kReadingFromPipe"]
  <2>1. Become(c, z) /\ SetKnotes(c, k) /\ UNCHANGED <<sock, pipe>>
        /\ y.state = "kWritingToPipe"
    BY <1>6 DEF WritingToPipeDone, Runs
  <2>2. /\ Keeps(z, y) /\ z.to_write = y.to_write /\ z.state = "kReadingFromPipe"
    BY <1>0 DEF ConnRecord, Keeps
  <2>3. \A t \in Role : On(k, t) => On(kn, t)
    BY <1>0, CloseFdOn
  <2> HIDE DEF k, z
  <2>4. OnTime(z) <=> OnTime(y)
    BY <2>2 DEF Keeps, OnTime
  <2>5. CASE OnTime(y)
    <3>1. Counted(y, s) /\ ServesRequest(y, kn) /\ SendsReply(y, kn)
          /\ TakesOutput(y, kn, pipe[c])
      BY <2>5 DEF AccountedAt, Accounted
    <3>2. Counted(z, s)
      BY <2>1, <2>2, <3>1 DEF Counted, Held, Serving, FromClient, Keeps
    <3>3. ReadsRequest(z, k) /\ ServesRequest(z, k) /\ SendsReply(z, k)
      BY <1>0, <2>1, <2>2, <2>3, <3>1
      DEF ReadsRequest, ServesRequest, SendsReply, FromClient, Keeps
    <3>4. TakesOutput(z, k, pipe[c])
      BY <1>0, <2>1, <2>2, <2>3, <3>1 DEF TakesOutput, FromCgi, Keeps
    <3>5. Accounted(z, s, k, pipe[c])
      BY <1>b, <3>2, <3>3, <3>4 DEF Accounted
    <3> QED BY <1>s, <2>1, <3>5
  <2>6. CASE ~OnTime(y)
    BY <1>s, <1>w, <2>1, <2>4, <2>6
  <2> QED BY <2>5, <2>6
<1>4. CASE ExecuteCgiProcess(c)
  <2> DEFINE piped == SetEvent(kn, "pipeR", "EV_ADD_DISABLE", c)
             q == pipe'[c]
  <2>1. PICK x \in Parsed(y), code \in {200, 204}, early \in BOOLEAN, p \in Pid :
          StartCgi(c, x, code, p, early)
    BY <1>4 DEF ExecuteCgiProcess
  <2>2. /\ x \in ConnRecord /\ x.read = 0 /\ ~x.stale /\ x.leftover_data = "unset"
        /\ ~x.corrupt => /\ x.request = 0 /\ x.cgi_output = 0 /\ ~x.foreign
                         /\ ~On(kn, "sockR") /\ ~On(kn, "sockW")
                         /\ s.inbox = 0 /\ s.due = RequestParts
    BY <1>4, <2>1, ParsedRequest DEF ExecuteCgiProcess
  <2>3. q.unread = 0 /\ q.emitted = 0 /\ UNCHANGED sock
    <3>1. /\ pipe' = [pipe EXCEPT ![c] = [unread |-> 0, emitted |-> 0,
                                         writer |-> ~early, reader |-> ~early]]
          /\ UNCHANGED sock
      BY <2>1, Zenon DEF StartCgi
    <3>2. pipe \in [Conn -> PipeRecord]
      BY <1>0
    <3> HIDE DEF piped
    <3> QED BY <3>1, <3>2
  <2>4. /\ piped \in [Role -> Knote]
        /\ \A r \in {"sockR", "sockW"} : On(piped, r) <=> On(kn, r)
    BY <1>0, SetEventType, SetEventOn
  <2> HIDE DEF piped, q
(* The record and the knotes of a connection that has started a process. *)
  <2>5. ASSUME NEW z, Become(c, z), Keeps(z, x),
               z.state \in {"kWritingToPipe", "kReadingFromPipe"},
               NEW k, SetKnotes(c, k),
               \A r \in {"sockR", "sockW"} : On(k, r) <=> On(piped, r)
        PROVE  AccountedAt(c)'
    <3>1. CASE x.corrupt
      <4>1. ~OnTime(z)
        BY <2>5, <3>1 DEF Keeps, OnTime
      <4> QED BY <1>s, <1>w, <2>3, <2>5, <4>1 DEF q
    <3>2. CASE ~x.corrupt
      <4>1. FromClient(z) = 0 /\ FromCgi(z) = 0 /\ z.request = 0
        BY <2>2, <2>5, <3>2 DEF Keeps, FromClient, FromCgi
      <4>2. Counted(z, s)
        BY <1>0, <2>2, <2>5, <3>2, <4>1 DEF Counted, Held, Serving
      <4>3. ReadsRequest(z, k) /\ ServesRequest(z, k) /\ SendsReply(z, k)
        BY <2>2, <2>4, <2>5, <3>2, <4>1
        DEF ReadsRequest, ServesRequest, SendsReply, Keeps
      <4>4. TakesOutput(z, k, q)
        BY <2>2, <2>3, <2>5, <3>2, <4>1 DEF TakesOutput, Keeps
      <4>5. Accounted(z, s, k, q)
        BY <1>b, <4>2, <4>3, <4>4 DEF Accounted
      <4> QED BY <1>s, <2>3, <2>5, <4>5 DEF q
    <3> QED BY <3>1, <3>2
  <2>6. ASSUME NEW n,
               Become(c, [x EXCEPT !.code = code, !.cgi_pid = p, !.to_write = n,
                                   !.state = "kWritingToPipe"]),
               SetKnotes(c, SetEvent(piped, "pipeW", "EV_ADD", c))
        PROVE  AccountedAt(c)'
    <3> DEFINE w == [x EXCEPT !.code = code, !.cgi_pid = p, !.to_write = n,
                              !.state = "kWritingToPipe"]
    <3>0. Keeps(w, x) /\ w.state = "kWritingToPipe"
      BY <2>2 DEF Keeps, ConnRecord
    <3>1. PICK z : Become(c, z) /\ Keeps(z, x) /\ z.state = "kWritingToPipe"
      BY <2>6, <3>0, Zenon
    <3>2. \A r \in {"sockR", "sockW"} :
            On(SetEvent(piped, "pipeW", "EV_ADD", c), r) <=> On(piped, r)
      BY <1>0, <2>4, SetEventOn
    <3>3. PICK k : /\ SetKnotes(c, k)
                   /\ \A r \in {"sockR", "sockW"} : On(k, r) <=> On(piped, r)
      BY <2>6, <3>2, Zenon
    <3> QED BY <2>5, <3>1, <3>3
  <2>7. CASE /\ Become(c, [x EXCEPT !.code = code, !.cgi_pid = p,
                                    !.state = "kReadingFromPipe"])
             /\ SetKnotes(c, SetEvent(piped, "pipeR", "EV_ENABLE", Null))
    <3> DEFINE w == [x EXCEPT !.code = code, !.cgi_pid = p,
                              !.state = "kReadingFromPipe"]
    <3>0. Keeps(w, x) /\ w.state = "kReadingFromPipe"
      BY <2>2 DEF Keeps, ConnRecord
    <3>1. PICK z : Become(c, z) /\ Keeps(z, x) /\ z.state = "kReadingFromPipe"
      BY <2>7, <3>0, Zenon
    <3>2. \A r \in {"sockR", "sockW"} :
            On(SetEvent(piped, "pipeR", "EV_ENABLE", Null), r) <=> On(piped, r)
      BY <1>0, <2>4, SetEventOn
    <3>3. PICK k : /\ SetKnotes(c, k)
                   /\ \A r \in {"sockR", "sockW"} : On(k, r) <=> On(piped, r)
      BY <2>7, <3>2, Zenon
    <3> QED BY <2>5, <3>1, <3>3
  <2> QED BY <2>1, <2>6, <2>7, Zenon DEF StartCgi, piped
<1>7. CASE HandlingDynamicPageAgain(c)
  <2> DEFINE k == SetEvent(kn, "pipeR", "EV_ENABLE", c)
             o == IF y.from = "cgi" THEN y.cgi_output + y.read ELSE y.cgi_output
             f == y.foreign \/ (y.from = "client" /\ y.read # 0)
             z == [y EXCEPT !.cgi_output = o, !.foreign = f, !.read = 0,
                            !.from = "client", !.stale = FALSE]
  <2>1. Become(c, z) /\ SetKnotes(c, k) /\ UNCHANGED <<sock, pipe>>
        /\ y.state = "kReadingFromPipe"
    BY <1>7 DEF HandlingDynamicPageAgain, Runs
  <2>2. /\ z.cgi_output = o /\ z.foreign = f /\ z.read = 0 /\ z.from = "client"
        /\ z.stale = FALSE /\ z.state = y.state /\ z.request = y.request
        /\ z.leftover_data = y.leftover_data
        /\ z.corrupt = y.corrupt /\ z.expired = y.expired
    <3> HIDE DEF o, f
    <3> QED BY <1>0 DEF ConnRecord
  <2>3. \A t \in Role \ {"pipeR"} : On(k, t) <=> On(kn, t)
    BY <1>0, SetEventOn
  <2> HIDE DEF k, z
  <2>4. CASE OnTime(y)
    <3>1. Counted(y, s) /\ ServesRequest(y, kn) /\ SendsReply(y, kn)
          /\ TakesOutput(y, kn, pipe[c])
      BY <2>4 DEF AccountedAt, Accounted
    <3>2. z.foreign = FALSE
      BY <1>0, <2>1, <2>2, <3>1 DEF ServesRequest, TakesOutput, FromClient
    <3>3. o = y.cgi_output + FromCgi(y)
      BY <1>0 DEF FromCgi
    <3>4. Counted(z, s)
      BY <1>0, <2>1, <2>2, <3>1 DEF Counted, ServesRequest, Held, Serving, FromClient
    <3>5. ReadsRequest(z, k) /\ ServesRequest(z, k) /\ SendsReply(z, k)
      BY <1>0, <2>1, <2>2, <2>3, <3>1
      DEF ReadsRequest, ServesRequest, SendsReply, FromClient
    <3> HIDE DEF o
    <3>6. TakesOutput(z, k, pipe[c])
      BY <1>0, <2>1, <2>2, <3>1, <3>2, <3>3 DEF TakesOutput, FromCgi
    <3>7. Accounted(z, s, k, pipe[c])
      BY <1>b, <3>4, <3>5, <3>6 DEF Accounted
    <3> QED BY <1>s, <2>1, <3>7
  <2>5. CASE ~OnTime(y)
    BY <1>s, <1>w, <2>1, <2>2, <2>5 DEF OnTime
  <2> QED BY <2>4, <2>5
<1>8. CASE HandlingDynamicPageDone(c)
  <2> DEFINE closed == CloseFd(kn, "pipeR")
             k == SetEvent(closed, "sockW", "EV_ENABLE", c)
  <2>1. PICK code \in CgiCode(y) : \E n \in 1..MaxWrite, cl \in MayKeepAlive(code) :
          Become(c, ReplyOf(y, code, n, cl))
    BY <1>8 DEF HandlingDynamicPageDone
  <2>r. PICK n \in 1..MaxWrite, cl \in MayKeepAlive(code) :
          Become(c, ReplyOf(y, code, n, cl))
    BY <2>1
  <2> DEFINE z == ReplyOf(y, code, n, cl)
  <2>2. SetKnotes(c, k) /\ UNCHANGED sock /\ y.state = "kReadingFromPipe"
    BY <1>8 DEF HandlingDynamicPageDone, Runs
  <2>3. closed \in [Role -> Knote] /\ (On(closed, "sockR") => On(kn, "sockR"))
    BY <1>0, CloseFdType, CloseFdOn
  <2> HIDE DEF closed
  <2>4. On(k, "sockR") => On(kn, "sockR")
    BY <1>0, <2>3, SetEventOn
  <2>5. Keeps(z, y) /\ z.state = "kWritingToSocket" /\ z.to_write = n
        /\ n \in Nat \ {0}
    BY <1>0, ReplyOfKeeps, ConnectionAssumption
  <2> HIDE DEF z, k
  <2>6. CASE OnTime(y)
    <3>1. Counted(y, s) /\ ServesRequest(y, kn)
      BY <2>6 DEF AccountedAt, Accounted
    <3>2. z.request = 0 /\ FromClient(z) = 0 /\ ~z.stale /\ ~On(k, "sockR")
      BY <2>2, <2>4, <2>5, <3>1 DEF ServesRequest, FromClient, Keeps
    <3>3. Held(y) = RequestParts
      BY <1>0, <2>2, <3>1 DEF Held, Serving, ServesRequest
    <3>4. Accounted(z, s, k, pipe'[c])
      BY <1>r, <2>5, <3>1, <3>2, <3>3 DEF Counted
    <3> QED BY <1>s, <2>r, <2>2, <3>4 DEF z
  <2>7. CASE ~OnTime(y)
    BY <1>s, <1>w, <2>r, <2>2, <2>5, <2>7 DEF Keeps, OnTime, z
  <2> QED BY <2>6, <2>7
<1>9. CASE WritingToSocketDone(c)
  <2> DEFINE k == SetEvent(kn, "sockR", "EV_ENABLE", c)
             z == Cleared(y)
  <2>1. /\ Become(c, z) /\ SetKnotes(c, k) /\ UNCHANGED <<sock, pipe>>
        /\ y.state = "kWritingToSocket" /\ y.to_write = 0
    BY <1>9 DEF WritingToSocketDone, Runs
  <2>2. /\ z.state = "kReadingFromSocket" /\ z.request = y.request /\ z.corrupt = y.corrupt
        /\ z.read = 0 /\ z.from = "client" /\ z.cgi_output = 0 /\ ~z.foreign
        /\ ~y.expired
    BY <1>9 DEF WritingToSocketDone, Runs, Cleared, NewConnection
  <2>3. \A t \in Role \ {"sockR"} : On(k, t) <=> On(kn, t)
    BY <1>0, SetEventOn
  <2> HIDE DEF k, z
  <2>4. CASE OnTime(y)
    <3>1. Counted(y, s) /\ ServesRequest(y, kn) /\ SendsReply(y, kn)
      BY <2>4 DEF AccountedAt, Accounted
    <3>2. z.request = 0 /\ FromClient(z) = 0 /\ FromClient(y) = 0
      BY <2>1, <2>2, <3>1 DEF ServesRequest, FromClient
    <3>3. Held(z) = 0 /\ Held(y) = 0
      BY <2>1, <2>2, <3>2 DEF Held, Serving
    <3>4. Accounted(z, s, k, pipe[c])
      BY <1>0, <1>b, <2>1, <2>2, <2>3, <3>1, <3>2, <3>3
      DEF Accounted, Counted, ReadsRequest, ServesRequest, SendsReply, TakesOutput
    <3> QED BY <1>s, <2>1, <3>4
  <2>5. CASE ~OnTime(y)
    BY <1>s, <1>w, <2>1, <2>2, <2>5 DEF OnTime
  <2> QED BY <2>4, <2>5
<1> QED BY <1>1, <1>2, <1>3, <1>4, <1>5, <1>6, <1>7, <1>8, <1>9 DEF WorkContinues

-----------------------------------------------------------------------------
(* read(), field by field. *)
Received(w, y, n, from) ==
  /\ w.read = n /\ w.from = (IF n = 0 THEN "client" ELSE from) /\ w.stale = FALSE
  /\ w.leftover_data = (IF n = 0 THEN "zero" ELSE "some")
  /\ w.state = y.state /\ w.request = y.request /\ w.corrupt = y.corrupt
  /\ w.cgi_output = y.cgi_output /\ w.foreign = y.foreign
  /\ w.to_write = y.to_write /\ w.expired = y.expired

LEMMA ReceiveFields ==
  ASSUME WorldTypeOK, NEW c \in Conn, NEW n, NEW from, Receive(c, n, from)
  PROVE  Received(conn'[c], conn[c], n, from)
<1> DEFINE f == IF n = 0 THEN "client" ELSE from
           l == IF n = 0 THEN "zero" ELSE "some"
<1>1. /\ conn' = [conn EXCEPT ![c] = [conn[c] EXCEPT !.read = n, !.from = f, !.stale = FALSE,
                                                      !.leftover_data = l]]
      /\ conn \in [Conn -> ConnRecord] /\ conn[c] \in ConnRecord
  BY DEF Receive, Become, WorldTypeOK
<1> HIDE DEF f, l
<1>2. conn'[c] = [conn[c] EXCEPT !.read = n, !.from = f, !.stale = FALSE,
                                  !.leftover_data = l]
  BY <1>1
<1>3. LET w == conn'[c]  y == conn[c] IN
         /\ w.read = n /\ w.from = f /\ w.stale = FALSE
         /\ w.leftover_data = l
         /\ w.state = y.state /\ w.request = y.request /\ w.corrupt = y.corrupt
         /\ w.cgi_output = y.cgi_output /\ w.foreign = y.foreign
         /\ w.to_write = y.to_write /\ w.expired = y.expired
  BY <1>1, <1>2 DEF ConnRecord
<1> QED BY <1>3, Zenon DEF f, l, Received

(* The handlers keep the accounts when the event they are called for is    *)
(* still true.                                                             *)
LEMMA ReadHandlerAccount ==
  ASSUME WorldTypeOK, NEW c \in Conn, NEW r \in Role, PipesInUse(knote[c], conn[c]),
         AccountedAt(c), Enabled(c, r), r = "pipeR" => HasOutput(pipe[c]),
         ReadHandler(c, r)
  PROVE  AccountedAt(c)'
<1> DEFINE y == conn[c]
           kn == knote[c]
           s == sock[c]
           q == pipe[c]
           w == conn'[c]
           k == knote'[c]
<1>0. /\ conn \in [Conn -> ConnRecord] /\ knote \in [Conn -> [Role -> Knote]]
      /\ pipe \in [Conn -> PipeRecord] /\ sock \in [Conn -> SockRecord]
      /\ y \in ConnRecord /\ kn \in [Role -> Knote]
      /\ Role = {"sockR", "sockW", "pipeR", "pipeW"}
      /\ s.inbox \in Nat /\ s.due \in Nat /\ RequestParts \in Nat \ {0}
      /\ q.unread \in Nat /\ q.emitted \in Nat /\ q.writer \in BOOLEAN
      /\ y.request \in Nat /\ y.read \in Nat /\ y.cgi_output \in Nat /\ y.to_write \in Nat
  BY RecordTypes, FieldTypes DEF WorldTypeOK, Role
<1>1. \A t \in Role : On(k, t) <=> t # r /\ On(kn, t)
  BY <1>0, DisarmOn DEF ReadHandler, SetKnotes
<1>2. s.inbox <= s.due /\ s.due <= RequestParts /\ On(kn, r)
  BY DEF AccountedAt, Accounted, Enabled, On
<1>3. CASE r = "sockR"
  <2>1. PICK n \in IF s.inbox = 0 THEN {0} ELSE 1..s.inbox :
          /\ Receive(c, n, "client")
          /\ sock' = [sock EXCEPT ![c].inbox = @ - n]
    BY <1>3 DEF ReadHandler
  <2>2. /\ sock'[c].inbox = s.inbox - n /\ sock'[c].due = s.due /\ sock'[c].peer = s.peer
        /\ pipe' = pipe /\ s.peer # "reset" /\ n \in 0..s.inbox
    BY <1>0, <1>3, <2>1 DEF ReadHandler, ReadFails, SockRecord
  <2>3. /\ w.read = n /\ w.from = "client" /\ w.stale = FALSE
        /\ w.state = y.state /\ w.request = y.request /\ w.corrupt = y.corrupt
        /\ w.cgi_output = y.cgi_output /\ w.foreign = y.foreign
        /\ w.to_write = y.to_write /\ w.expired = y.expired
    <3>1. /\ w.read = n /\ w.from = (IF n = 0 THEN "client" ELSE "client")
          /\ w.stale = FALSE
          /\ w.state = y.state /\ w.request = y.request /\ w.corrupt = y.corrupt
          /\ w.cgi_output = y.cgi_output /\ w.foreign = y.foreign
          /\ w.to_write = y.to_write /\ w.expired = y.expired
      <4>1. Received(w, y, n, "client")
        BY <2>1, ReceiveFields, Zenon
      <4> HIDE DEF w, y
      <4> QED BY <4>1, Zenon DEF Received
    <3> HIDE DEF w
    <3> QED BY <3>1
  <2> HIDE DEF w, k
  <2>4. ASSUME OnTime(w)
        PROVE  /\ Counted(w, sock'[c]) /\ ReadsRequest(w, k) /\ ServesRequest(w, k)
               /\ SendsReply(w, k) /\ TakesOutput(w, k, q)
    <3>1. /\ Counted(y, s) /\ ReadsRequest(y, kn) /\ ServesRequest(y, kn)
          /\ SendsReply(y, kn)
      BY <2>3, <2>4 DEF AccountedAt, Accounted, OnTime
    <3>2. y.state = "kReadingFromSocket" /\ FromClient(y) = 0
      BY <1>2, <1>3, <3>1 DEF ReadsRequest, ServesRequest
    <3>3. FromClient(w) = n
      BY <2>3 DEF FromClient
    <3>4. Held(w) = Held(y) + n
      BY <1>0, <2>2, <2>3, <3>2, <3>3 DEF Held, Serving
    <3>5. Counted(w, sock'[c])
      <4>1. Held(y) \in Nat
        BY <1>0, <3>2 DEF Held
      <4> QED BY <1>0, <2>2, <3>1, <3>4, <4>1 DEF Counted
    <3> QED BY <1>0, <1>1, <1>3, <2>3, <3>1, <3>2, <3>5
            DEF ReadsRequest, ServesRequest, SendsReply, TakesOutput
  <2> QED BY <1>0, <1>2, <2>2, <2>4 DEF AccountedAt, Accounted, w, k
<1>4. CASE r = "pipeR"
  <2>1. PICK n \in IF q.unread = 0 THEN {0} ELSE 1..q.unread :
          /\ Receive(c, n, "cgi")
          /\ pipe' = [pipe EXCEPT ![c].unread = @ - n]
    BY <1>4 DEF ReadHandler
  <2>2. /\ pipe'[c].unread = q.unread - n /\ pipe'[c].emitted = q.emitted
        /\ pipe'[c].writer = q.writer
        /\ sock' = sock /\ n \in 0..q.unread /\ (n = 0 => q.unread = 0 /\ ~q.writer)
    BY <1>0, <1>4, <2>1 DEF ReadHandler, PipeRecord, HasOutput
  <2>3. /\ w.read = n /\ w.from = (IF n = 0 THEN "client" ELSE "cgi") /\ w.stale = FALSE
        /\ w.leftover_data = (IF n = 0 THEN "zero" ELSE "some")
        /\ w.state = y.state /\ w.request = y.request /\ w.corrupt = y.corrupt
        /\ w.cgi_output = y.cgi_output /\ w.foreign = y.foreign
        /\ w.to_write = y.to_write /\ w.expired = y.expired
    <3>1. Received(w, y, n, "cgi")
      BY <2>1, ReceiveFields, Zenon
    <3> HIDE DEF w, y
    <3> QED BY <3>1, Zenon DEF Received
  <2> HIDE DEF w, k
  <2>4. ASSUME OnTime(w)
        PROVE  /\ Counted(w, s) /\ ReadsRequest(w, k) /\ ServesRequest(w, k)
               /\ SendsReply(w, k) /\ TakesOutput(w, k, pipe'[c])
    <3>1. /\ Counted(y, s) /\ ServesRequest(y, kn) /\ SendsReply(y, kn)
          /\ TakesOutput(y, kn, q)
      BY <2>3, <2>4 DEF AccountedAt, Accounted, OnTime
    <3>2. y.state \in {"kWritingToPipe", "kReadingFromPipe"}
      BY <1>2, <1>4, <2>3, <2>4 DEF PipesInUse, On, IsOpen, OnTime
    <3>3. y.read = 0 /\ FromCgi(y) = 0 /\ FromCgi(w) = n
      BY <1>2, <1>4, <2>3, <3>1, <3>2 DEF TakesOutput, FromCgi
    <3>4. FromClient(w) = 0 /\ FromClient(y) = 0
      BY <2>3, <3>1, <3>2 DEF FromClient, ServesRequest
    <3>5. Counted(w, s)
      BY <2>3, <3>1, <3>4 DEF Counted, Held, Serving
    <3>6. TakesOutput(w, k, pipe'[c])
      <4>1. q.emitted = q.unread + y.cgi_output /\ ~y.foreign
        BY <1>0, <3>1, <3>2, <3>3 DEF TakesOutput
      <4> QED BY <1>0, <1>1, <1>4, <2>2, <2>3, <3>3, <4>1 DEF TakesOutput
    <3> QED BY <1>0, <1>1, <2>3, <3>1, <3>2, <3>4, <3>5, <3>6
            DEF ReadsRequest, ServesRequest, SendsReply
  <2> QED BY <1>2, <2>2, <2>4 DEF AccountedAt, Accounted, w, k
<1> QED BY <1>3, <1>4 DEF ReadHandler

LEMMA WriteHandlerAccount ==
  ASSUME WorldTypeOK, NEW c \in Conn, NEW r \in {"sockW", "pipeW"},
         PipesInUse(knote[c], conn[c]), AccountedAt(c), Enabled(c, r),
         WriteHandler(c, r)
  PROVE  AccountedAt(c)'
<1> DEFINE y == conn[c]
           kn == knote[c]
           s == sock[c]
           w == conn'[c]
           k == knote'[c]
<1>0. /\ conn \in [Conn -> ConnRecord] /\ knote \in [Conn -> [Role -> Knote]]
      /\ sock \in [Conn -> SockRecord]
      /\ y \in ConnRecord /\ kn \in [Role -> Knote]
      /\ Role = {"sockR", "sockW", "pipeR", "pipeW"}
      /\ s.inbox \in Nat /\ s.due \in Nat /\ RequestParts \in Nat \ {0}
      /\ y.request \in Nat /\ y.to_write \in Nat
  BY RecordTypes, FieldTypes DEF WorldTypeOK, Role
<1>1. \A t \in Role : On(k, t) <=> t # r /\ On(kn, t)
  BY <1>0, DisarmOn DEF WriteHandler, SetKnotes
<1>2. s.inbox <= s.due /\ s.due <= RequestParts /\ On(kn, r) /\ pipe' = pipe
  BY DEF AccountedAt, Accounted, Enabled, On, WriteHandler
<1>3. PICK left \in IF y.to_write = 0 THEN {0} ELSE 0..(y.to_write - 1) :
        \E m : /\ Become(c, [y EXCEPT !.to_write = left, !.misdirected = m])
               /\ sock' = [sock EXCEPT ![c].due =
                    IF r = "sockW" /\ y.to_write # 0 /\ left = 0
                      THEN Unanswered(s) ELSE @]
  BY Zenon DEF WriteHandler
<1>4. Keeps(w, y) /\ w.state = y.state /\ w.to_write = left
  BY <1>0, <1>3 DEF Become, Keeps, ConnRecord
<1>5. /\ sock'[c].inbox = s.inbox /\ sock'[c].peer = s.peer
      /\ sock'[c].due = IF r = "sockW" /\ y.to_write # 0 /\ left = 0
                          THEN Unanswered(s) ELSE s.due
  BY <1>0, <1>3 DEF SockRecord
<1>6. Unanswered(s) = s.inbox
  <2>1. ASSUME NEW i \in Nat, NEW d \in Nat, i <= d, d <= RequestParts
        PROVE  (IF d - RequestParts < i THEN i ELSE d - RequestParts) = i
    BY <1>0, <2>1
  <2> QED BY <1>0, <1>2, <2>1, Zenon DEF Unanswered
<1> HIDE DEF w, k
<1>7. ASSUME OnTime(w)
      PROVE  /\ Counted(w, sock'[c]) /\ ReadsRequest(w, k) /\ ServesRequest(w, k)
             /\ SendsReply(w, k) /\ TakesOutput(w, k, pipe[c])
  <2>1. /\ Counted(y, s) /\ ServesRequest(y, kn) /\ SendsReply(y, kn)
        /\ TakesOutput(y, kn, pipe[c])
    BY <1>4, <1>7 DEF AccountedAt, Accounted, OnTime, Keeps
  <2>2. \/ r = "sockW" /\ y.state = "kWritingToSocket" /\ y.to_write # 0
        \/ r = "pipeW" /\ y.state = "kWritingToPipe"
    BY <1>2, <1>4, <1>7, <2>1 DEF PipesInUse, On, IsOpen, OnTime, SendsReply, Keeps
  <2>3. y.request = 0 /\ FromClient(y) = 0 /\ w.request = 0 /\ FromClient(w) = 0
    BY <1>4, <2>1, <2>2 DEF ServesRequest, FromClient, Keeps
  <2>4. Counted(w, sock'[c])
    BY <1>0, <1>4, <1>5, <1>6, <2>1, <2>2, <2>3 DEF Counted, Held, Serving
  <2>5. ReadsRequest(w, k) /\ ServesRequest(w, k)
    BY <1>0, <1>1, <1>4, <2>1, <2>2, <2>3 DEF ReadsRequest, ServesRequest, Keeps
  <2>6. SendsReply(w, k)
    BY <1>0, <1>1, <1>4, <2>1, <2>2 DEF SendsReply
  <2>7. TakesOutput(w, k, pipe[c])
    BY <1>0, <1>1, <1>4, <2>1 DEF TakesOutput, FromCgi, Keeps
  <2> QED BY <2>4, <2>5, <2>6, <2>7
<1> QED BY <1>0, <1>2, <1>5, <1>6, <1>7 DEF AccountedAt, Accounted, w, k

-----------------------------------------------------------------------------
(* What a step on one connection leaves alone.                             *)
Elsewhere(c) ==
  \A d \in Conn \ {c} :
    /\ conn'[d] = conn[d] /\ knote'[d] = knote[d]
    /\ sock'[d] = sock[d] /\ pipe'[d] = pipe[d]

LEMMA WorkElsewhere ==
  ASSUME WorldTypeOK, NEW c \in Conn, PipesInUse(knote[c], conn[c]), WorkContinues(c)
  PROVE  Elsewhere(c)
<1>1. Others(c)
  BY WorkContinuesPipes
<1>2. sock' = sock
  BY DEF WorkContinues, OverloadReply, HandlingStaticPage, ParsingRequestMessageAgain,
         ExecuteCgiProcess, StartCgi, WritingToPipeAgain, WritingToPipeDone,
         HandlingDynamicPageAgain, HandlingDynamicPageDone, WritingToSocketAgain,
         WritingToSocketDone
<1>3. pipe' = pipe \/ \E q : pipe' = [pipe EXCEPT ![c] = q]
  <2>1. CASE ExecuteCgiProcess(c)
    BY <2>1, Zenon DEF ExecuteCgiProcess, StartCgi
  <2>2. CASE HandlingDynamicPageDone(c)
    BY <2>2, Zenon DEF HandlingDynamicPageDone
  <2> QED
    BY <2>1, <2>2 DEF WorkContinues, OverloadReply, HandlingStaticPage,
       ParsingRequestMessageAgain, WritingToPipeAgain, WritingToPipeDone,
       HandlingDynamicPageAgain, WritingToSocketAgain, WritingToSocketDone
<1> QED BY <1>1, <1>2, <1>3 DEF Elsewhere, Others, WorldTypeOK

LEMMA HandlerElsewhere ==
  ASSUME WorldTypeOK, NEW c \in Conn, NEW r \in Role, PipesInUse(knote[c], conn[c]),
         ReadHandler(c, r) \/ WriteHandler(c, r)
  PROVE  Elsewhere(c)
<1>1. Others(c)
  BY HandlerPipes
<1>2. \A d \in Conn \ {c} : sock'[d] = sock[d] /\ pipe'[d] = pipe[d]
  <2>1. sock' = sock \/ \E v : sock' = [sock EXCEPT ![c] = v]
    <3>1. CASE ReadHandler(c, r)
      BY <3>1, Zenon DEF ReadHandler
    <3>2. CASE WriteHandler(c, r)
      BY <3>2, Zenon DEF WriteHandler
    <3> QED BY <3>1, <3>2
  <2>2. pipe' = pipe \/ \E v : pipe' = [pipe EXCEPT ![c] = v]
    <3>1. CASE ReadHandler(c, r)
      BY <3>1, Zenon DEF ReadHandler
    <3>2. CASE WriteHandler(c, r)
      BY <3>2, Zenon DEF WriteHandler
    <3> QED BY <3>1, <3>2
  <2> QED BY <2>1, <2>2 DEF WorldTypeOK
<1> QED BY <1>1, <1>2 DEF Elsewhere, Others

LEMMA CloseElsewhere ==
  ASSUME NEW c \in Conn, NEW pr, CloseConnection(c, pr), WorldTypeOK
  PROVE  Elsewhere(c)
  BY DEF CloseConnection, Become, SetKnotes, Elsewhere, WorldTypeOK

(* A new connection owes nothing and holds nothing.                        *)
LEMMA OpenAccount ==
  ASSUME WorldTypeOK, NEW c \in Conn, OpenConnection(c)
  PROVE  AccountedAt(c)' /\ Elsewhere(c)
<1> DEFINE k == SetEvent(SetEvent(NoKnotes, "sockR", "EV_ADD", c),
                         "sockW", "EV_ADD_DISABLE", c)
<1>1. /\ conn' = [conn EXCEPT ![c] = NewConnection] /\ knote' = [knote EXCEPT ![c] = k]
      /\ sock' = [sock EXCEPT ![c] = NewSocket] /\ pipe' = pipe
  BY DEF OpenConnection, SetKnotes, Become
<1>2. ~On(k, "sockW")
  BY DEF SetEvent, NoKnotes, NoKnote, On, Role
<1> HIDE DEF k
<1>3. RequestParts \in Nat \ {0}
  BY ConnectionAssumption
<1>4. Accounted(NewConnection, NewSocket, k, pipe[c])
  BY <1>2, <1>3
  DEF Accounted, NewConnection, NewSocket, Counted, Held, Serving, FromClient,
      ReadsRequest, ServesRequest, SendsReply, TakesOutput
<1> QED BY <1>1, <1>4 DEF WorldTypeOK, AccountedAt, Elsewhere

(* What clients, CGI processes and the clock do to a connection.           *)
LEMMA ClientAccount ==
  ASSUME WorldTypeOK, MaxAhead = 1, NEW c \in Conn, AccountedAt(c),
         \/ ClientSends(c) \/ ClientShutsDown(c) \/ ClientResets(c) \/ Expires(c)
  PROVE  AccountedAt(c)' /\ Elsewhere(c)
<1> DEFINE y == conn[c]
           s == sock[c]
<1>0. /\ conn \in [Conn -> ConnRecord] /\ sock \in [Conn -> SockRecord]
      /\ y \in ConnRecord
      /\ s.inbox \in Nat /\ s.due \in Nat /\ RequestParts \in Nat \ {0}
      /\ y.request \in Nat /\ y.read \in Nat
  BY RecordTypes, FieldTypes DEF WorldTypeOK
<1>1. ASSUME UNCHANGED <<conn, knote, pipe>>,
             sock'[c].inbox <= sock'[c].due, sock'[c].due <= RequestParts,
             Counted(y, s) => Counted(y, sock'[c])
      PROVE  AccountedAt(c)'
  BY <1>1 DEF AccountedAt, Accounted
<1>2. s.inbox <= s.due /\ s.due <= RequestParts /\ Held(y) \in Nat
  BY <1>0 DEF AccountedAt, Accounted, Held, FromClient
<1>3. CASE ClientSends(c)
  <2>1. PICK n \in 1..RequestParts :
          /\ s.due + n <= MaxAhead * RequestParts
          /\ sock' = [sock EXCEPT ![c].inbox = @ + n, ![c].due = @ + n]
    BY <1>3 DEF ClientSends
  <2>2. MaxAhead * RequestParts = RequestParts
    BY <1>0
  <2>3. /\ sock'[c].inbox = s.inbox + n /\ sock'[c].due = s.due + n
        /\ sock'[c].peer = s.peer
        /\ \A d \in Conn \ {c} : sock'[d] = sock[d]
    BY <1>0, <2>1 DEF SockRecord
  <2>4. UNCHANGED <<conn, knote, pipe>> /\ s.due + n <= RequestParts
    BY <1>3, <2>1, <2>2 DEF ClientSends
  <2>5. Counted(y, s) => Counted(y, sock'[c])
    BY <1>0, <1>2, <2>3 DEF Counted
  <2> QED BY <1>0, <1>1, <1>2, <2>3, <2>4, <2>5 DEF Elsewhere
<1>4. CASE ClientShutsDown(c)
  <2>1. /\ sock'[c].inbox = s.inbox /\ sock'[c].due = s.due
        /\ s.peer # "reset"
        /\ \A d \in Conn \ {c} : sock'[d] = sock[d]
        /\ UNCHANGED <<conn, knote, pipe>>
    BY <1>0, <1>4 DEF ClientShutsDown, SockRecord
  <2>2. Counted(y, s) => Counted(y, sock'[c])
    BY <2>1 DEF Counted
  <2> QED BY <1>1, <1>2, <2>1, <2>2 DEF Elsewhere
<1>5. CASE ClientResets(c)
  <2>1. /\ sock'[c].inbox = 0 /\ sock'[c].due = s.due /\ sock'[c].peer = "reset"
        /\ \A d \in Conn \ {c} : sock'[d] = sock[d]
        /\ UNCHANGED <<conn, knote, pipe>>
    BY <1>0, <1>5 DEF ClientResets, SockRecord
  <2>2. Counted(y, s) => Counted(y, sock'[c])
    BY <1>0, <1>2, <2>1 DEF Counted
  <2> QED BY <1>0, <1>1, <1>2, <2>1, <2>2 DEF Elsewhere
<1>6. CASE Expires(c)
  <2>1. /\ conn'[c].expired = TRUE
        /\ \A d \in Conn \ {c} : conn'[d] = conn[d]
        /\ UNCHANGED <<knote, sock, pipe>>
    BY <1>0, <1>6 DEF Expires, Become, ConnRecord
  <2> QED BY <1>2, <2>1 DEF AccountedAt, Accounted, OnTime, Elsewhere
<1> QED BY <1>3, <1>4, <1>5, <1>6

(* The accounts read three of the fields of a pipe; a CGI process writes   *)
(* a piece while its end is open, or closes it.                            *)
LEMMA CgiAccount ==
  ASSUME WorldTypeOK, NEW p \in Pid, CgiWrites(p) \/ CgiClosesEnd(p) \/ CgiExits(p),
         proc[p].plumbed => proc[p].owner \in Conn
  PROVE  \A c \in Conn : /\ AccountedAt(c) => AccountedAt(c)'
                         /\ HasOutput(pipe[c]) => HasOutput(pipe'[c])
<1> SUFFICES ASSUME NEW c \in Conn
             PROVE  /\ AccountedAt(c) => AccountedAt(c)'
                    /\ HasOutput(pipe[c]) => HasOutput(pipe'[c])
  OBVIOUS
<1> DEFINE q == pipe[c]
           z == pipe'[c]
<1>0. /\ pipe \in [Conn -> PipeRecord] /\ q.unread \in Nat /\ q.emitted \in Nat
      /\ q.writer \in BOOLEAN
      /\ conn[c].cgi_output \in Nat /\ conn[c].read \in Nat
  BY RecordTypes, FieldTypes DEF WorldTypeOK
<1>1. UNCHANGED <<conn, knote, sock>>
  BY DEF CgiWrites, CgiClosesEnd, CgiExits
<1>2. \/ z.unread = q.unread /\ z.emitted = q.emitted /\ (z.writer => q.writer)
      \/ z.unread = q.unread + 1 /\ z.emitted = q.emitted + 1 /\ q.writer /\ z.writer
  <2>1. CASE CgiWrites(p)
    BY <1>0, <2>1 DEF CgiWrites, PipeRecord
  <2>2. CASE CgiClosesEnd(p)
    BY <1>0, <2>2 DEF CgiClosesEnd, PipeRecord
  <2>3. CASE CgiExits(p)
    <3>1. \/ pipe' = pipe
          \/ pipe' = [pipe EXCEPT ![proc[p].owner].writer = FALSE,
                                  ![proc[p].owner].reader = FALSE]
      BY <2>3, Zenon DEF CgiExits
    <3> QED BY <1>0, <3>1 DEF PipeRecord
  <2> QED BY <2>1, <2>2, <2>3
<1> HIDE DEF q, z
<1>3. HasOutput(q) => HasOutput(z)
  BY <1>0, <1>2 DEF HasOutput
<1>4. TakesOutput(conn[c], knote[c], q) => TakesOutput(conn[c], knote[c], z)
  BY <1>0, <1>2 DEF TakesOutput, FromCgi
<1>5. AccountedAt(c) => AccountedAt(c)'
  BY <1>1, <1>4 DEF AccountedAt, Accounted, q, z
<1> QED BY <1>3, <1>5 DEF q, z

-----------------------------------------------------------------------------
(* What kevent() returns of descriptors is on, and a pipe it reports has   *)
(* output or its end.                                                      *)
LEMMA EventListOn ==
  ASSUME WorldTypeOK, NEW B \in EventLists, NEW e \in B, e.filter \in Role
  PROVE  /\ e = FdEvent(e.ident, e.filter)
         /\ Enabled(e.ident, e.filter)
         /\ e.filter = "pipeR" => HasOutput(pipe[e.ident])
<1>1. B \in SUBSET (Ready \cup MayBeReady)
  BY Zenon DEF EventLists, kSubset
<1>2. e \in Ready \cup MayBeReady
  BY <1>1
<1>3. \E c \in Conn, r \in Role :
        Enabled(c, r) /\ e = FdEvent(c, r) /\ (r = "pipeR" => HasOutput(pipe[c]))
  <2>1. CASE e \in Ready
    BY <2>1 DEF Ready, ProcEvent, Role, HasOutput
  <2>2. CASE e \in MayBeReady
    <3>1. e # ListenEvent
      BY DEF ListenEvent, Role
    <3> QED BY <2>2, <3>1 DEF MayBeReady, Role
  <2> QED BY <1>2, <2>1, <2>2
<1> QED BY <1>3 DEF FdEvent

-----------------------------------------------------------------------------
LEMMA AccountInvInit == MaxAhead = 1 /\ Init => AccountInv
<1> SUFFICES ASSUME MaxAhead = 1, Init PROVE AccountInv
  OBVIOUS
<1> QED BY TypeInvInit, BatchInvInit DEF Init, AccountInv, PipesInv, EventsOn

LEMMA AccountInvNext == AccountInv /\ [Next]_vars => AccountInv'
<1> SUFFICES ASSUME AccountInv, [Next]_vars PROVE AccountInv'
  OBVIOUS
<1>i. PipesInv' /\ BatchInv'
  BY PipesInvNext, BatchInvNext DEF AccountInv
<1>a. /\ WorldTypeOK /\ connections \subseteq Conn /\ MaxAhead = 1
      /\ conn \in [Conn -> ConnRecord] /\ knote \in [Conn -> [Role -> Knote]]
      /\ \A c \in connections : PipesInUse(knote[c], conn[c]) /\ AccountedAt(c)
      /\ EventsOn /\ BatchLive /\ Owned(proc)
      /\ (phase = "work" => batch = {})
  BY DEF AccountInv, PipesInv, BatchInv, TypeInv, TypeOK, WorldTypeOK
<1>s. ASSUME EventsOn', \A c \in connections' : AccountedAt(c)'
      PROVE  AccountInv'
  BY <1>a, <1>i, <1>s DEF AccountInv
(* The events that are left, after a step that leaves their knotes alone   *)
(* and takes nothing from their pipes.                                     *)
<1>e. ASSUME batch' \subseteq batch,
             \A f \in batch' : f.filter \in Role =>
               /\ knote'[f.ident][f.filter] = knote[f.ident][f.filter]
               /\ f.filter = "pipeR" /\ HasOutput(pipe[f.ident])
                    => HasOutput(pipe'[f.ident])
      PROVE  EventsOn'
  BY <1>a, <1>e DEF EventsOn, FdEvent, Enabled
(* Steps that leave the accounts alone. *)
<1>u. ASSUME UNCHANGED <<knote, sock, pipe, connections>>, batch' \subseteq batch,
             \A c \in connections : /\ Keeps(conn'[c], conn[c])
                                    /\ conn'[c].state = conn[c].state
                                    /\ conn'[c].to_write = conn[c].to_write
      PROVE  AccountInv'
  <2>1. EventsOn'
    BY <1>e, <1>u
  <2>2. ASSUME NEW c \in connections PROVE AccountedAt(c)'
    BY <1>a, <1>u, <2>2
    DEF AccountedAt, Accounted, OnTime, Counted, ReadsRequest, ServesRequest, SendsReply,
        TakesOutput, Keeps, Held, Serving, FromClient, FromCgi
  <2> QED BY <1>s, <1>u, <2>1, <2>2
<1>k. ASSUME UNCHANGED worldVars, UNCHANGED connections, batch' \subseteq batch
      PROVE  AccountInv'
  BY <1>k, <1>u DEF worldVars, Keeps
(* Steps of one connection. *)
<1>o. ASSUME NEW c \in Conn, Elsewhere(c), EventsOn', connections' \ {c} \subseteq connections,
             c \in connections' => AccountedAt(c)'
      PROVE  AccountInv'
  <2>1. ASSUME NEW d \in connections', d # c PROVE AccountedAt(d)'
    BY <1>a, <1>o, <2>1 DEF AccountedAt, Elsewhere
  <2> QED BY <1>o, <1>s, <2>1
(* An erasure with nothing left to dispatch. *)
<1>c. ASSUME NEW c \in connections, NEW pr, CloseConnection(c, pr),
             connections' = connections \ {c}, batch' = {}
      PROVE  AccountInv'
  <2>1. EventsOn' /\ c \in Conn
    BY <1>a, <1>c DEF EventsOn
  <2> QED BY <1>a, <1>c, <1>o, <2>1, CloseElsewhere
(* A handler that did not fail. *)
<1>h. ASSUME NEW e \in batch, e.ident \in connections, e.filter \in Role,
             AccountedAt(e.ident)', Elsewhere(e.ident),
             SetKnotes(e.ident, Disarm(knote[e.ident], e.filter, e.ident)),
             e.filter = "sockR" \/ e.filter = "pipeR" \/ UNCHANGED pipe,
             e.filter = "sockR" => UNCHANGED pipe,
             UNCHANGED connections, batch' = batch \ {e}
      PROVE  AccountInv'
  <2> DEFINE c == e.ident
             r == e.filter
  <2>1. c \in Conn
    BY <1>a, <1>h
  <2>2. \A t \in Role \ {r} : knote'[c][t] = knote[c][t]
    BY <1>a, <1>h, <2>1 DEF SetKnotes, Disarm, SetEvent
  <2>3. ASSUME NEW f \in batch', f.filter \in Role
        PROVE  /\ knote'[f.ident][f.filter] = knote[f.ident][f.filter]
               /\ f.filter = "pipeR" /\ HasOutput(pipe[f.ident])
                    => HasOutput(pipe'[f.ident])
    <3>1. f \in batch /\ f # e /\ f.ident \in Conn
      BY <1>a, <1>h, <2>3 DEF BatchLive
    <3>2. f = FdEvent(f.ident, f.filter) /\ e = FdEvent(e.ident, e.filter)
      BY <1>a, <1>h, <2>3, <3>1 DEF EventsOn
    <3>3. CASE f.ident # c
      BY <1>h, <3>1, <3>3 DEF Elsewhere
    <3>4. CASE f.ident = c
      <4>1. f.filter # r
        BY <3>1, <3>2, <3>4
      <4> QED BY <1>h, <2>2, <2>3, <3>4, <4>1
    <3> QED BY <3>3, <3>4
  <2>4. EventsOn'
    BY <1>e, <1>h, <2>3
  <2> QED BY <1>h, <1>o, <2>1, <2>4
<1>1. CASE Poll
  <2>1. PICK B \in EventLists : batch' = B
    BY <1>1 DEF Poll
  <2>2. UNCHANGED <<conn, knote, sock, pipe, connections>>
    BY <1>1 DEF Poll
  <2>3. EventsOn'
    BY <1>a, <2>1, <2>2, EventListOn DEF EventsOn, FdEvent, Enabled
  <2>4. \A c \in connections : AccountedAt(c)'
    BY <1>a, <2>2 DEF AccountedAt
  <2> QED BY <1>s, <2>2, <2>3, <2>4
<1>2. ASSUME NEW e \in batch, AcceptClient(e) PROVE AccountInv'
  <2>0. batch' \subseteq batch
    BY <1>2 DEF AcceptClient, Continue
  <2>1. CASE UNCHANGED <<worldVars, connections, work_queue>>
    BY <1>k, <2>0, <2>1
  <2>2. ASSUME NEW c \in Conn \ connections, OpenConnection(c),
               connections' = connections \cup {c}
        PROVE  AccountInv'
    <3>1. AccountedAt(c)' /\ Elsewhere(c)
      BY <1>a, <2>2, OpenAccount
    <3>2. \A f \in batch' : f.filter \in Role => f.ident \in Conn \ {c}
      BY <1>a, <2>0, <2>2 DEF BatchLive
    <3>3. EventsOn'
      BY <1>e, <2>0, <3>1, <3>2 DEF Elsewhere
    <3> QED BY <1>o, <2>2, <3>1, <3>3
  <2> QED BY <1>2, <2>1, <2>2 DEF AcceptClient
<1>3. ASSUME NEW e \in batch, DispatchRead(e) PROVE AccountInv'
  <2>1. e.filter \in {"sockR", "pipeR"} /\ e.filter \in Role
    BY <1>3 DEF DispatchRead, Role
  <2>2. CASE IsLive(e) /\ ReadHandler(e.ident, e.filter) /\ Continue(e)
             /\ UNCHANGED <<connections, work_queue>>
    <3>1. e.ident \in connections /\ e.ident \in Conn
      BY <1>a, <2>2 DEF IsLive
    <3>2. /\ Enabled(e.ident, e.filter)
          /\ e.filter = "pipeR" => HasOutput(pipe[e.ident])
      BY <1>a, <2>1 DEF EventsOn
    <3>3. AccountedAt(e.ident)'
      BY <1>a, <2>1, <2>2, <3>1, <3>2, ReadHandlerAccount
    <3>4. Elsewhere(e.ident)
      BY <1>a, <2>1, <2>2, <3>1, HandlerElsewhere
    <3>5. /\ SetKnotes(e.ident, Disarm(knote[e.ident], e.filter, e.ident))
          /\ e.filter = "sockR" => UNCHANGED pipe
          /\ batch' = batch \ {e}
      BY <2>2 DEF ReadHandler, Continue
    <3> QED BY <1>h, <2>1, <2>2, <3>1, <3>3, <3>4, <3>5
  <2>3. CASE IsLive(e) /\ CloseConnection(e.ident, proc) /\ Erase(e.ident) /\ Break
    BY <1>c, <2>3 DEF IsLive, Erase, Break
  <2>4. CASE Crash
    BY <1>k, <2>4 DEF Crash
  <2> QED BY <1>3, <2>2, <2>3, <2>4 DEF DispatchRead
<1>4. ASSUME NEW e \in batch, DispatchWrite(e) PROVE AccountInv'
  <2>1. e.filter \in {"sockW", "pipeW"} /\ e.filter \in Role
    BY <1>4 DEF DispatchWrite, Role
  <2>2. CASE IsLive(e) /\ WriteHandler(e.ident, e.filter) /\ Continue(e)
             /\ UNCHANGED <<connections, work_queue>>
    <3>1. e.ident \in connections /\ e.ident \in Conn
      BY <1>a, <2>2 DEF IsLive
    <3>2. Enabled(e.ident, e.filter)
      BY <1>a, <2>1 DEF EventsOn
    <3>3. AccountedAt(e.ident)'
      BY <1>a, <2>1, <2>2, <3>1, <3>2, WriteHandlerAccount
    <3>4. Elsewhere(e.ident)
      BY <1>a, <2>1, <2>2, <3>1, HandlerElsewhere
    <3>5. /\ SetKnotes(e.ident, Disarm(knote[e.ident], e.filter, e.ident))
          /\ UNCHANGED pipe
          /\ batch' = batch \ {e}
      BY <2>2 DEF WriteHandler, Continue
    <3> QED BY <1>h, <2>1, <2>2, <3>1, <3>3, <3>4, <3>5
  <2>3. CASE IsLive(e) /\ CloseConnection(e.ident, proc) /\ Erase(e.ident) /\ Break
    BY <1>c, <2>3 DEF IsLive, Erase, Break
  <2>4. CASE Crash
    BY <1>k, <2>4 DEF Crash
  <2> QED BY <1>4, <2>2, <2>3, <2>4 DEF DispatchWrite
<1>5. ASSUME NEW e \in batch, DispatchProc(e) PROVE AccountInv'
  <2>1. UNCHANGED <<knote, sock, pipe, connections>> /\ batch' \subseteq batch
    BY <1>5 DEF DispatchProc, Continue, Break
  <2>2. CASE UNCHANGED conn
    BY <1>u, <2>1, <2>2 DEF Keeps
  <2>3. ASSUME NEW code, e.udata \in connections,
               Become(e.udata, [conn[e.udata] EXCEPT !.cgi_pid = NoPid, !.code = code])
        PROVE  AccountInv'
    <3>1. \A c \in Conn : /\ Keeps(conn'[c], conn[c])
                          /\ conn'[c].state = conn[c].state
                          /\ conn'[c].to_write = conn[c].to_write
      BY <1>a, <2>3 DEF Become, Keeps, ConnRecord
    <3> QED BY <1>a, <1>u, <2>1, <3>1
  <2> QED BY <1>5, <2>2, <2>3, ProcEither, Zenon
<1>6. ASSUME NEW e \in batch, DispatchProcCrashes(e) PROVE AccountInv'
  BY <1>6, <1>k DEF DispatchProcCrashes, Crash
<1>7. CASE StartWork
  BY <1>7, <1>k DEF StartWork
<1>8. ASSUME NEW c \in connections, WorkKeeps(c) PROVE AccountInv'
  <2>1. WorkContinues(c) /\ batch' = {} /\ connections' = connections /\ c \in Conn
    BY <1>8, <1>a DEF WorkKeeps, Works
  <2>2. AccountedAt(c)' /\ Elsewhere(c)
    BY <1>a, <2>1, WorkContinuesAccount, WorkElsewhere
  <2>3. EventsOn'
    BY <2>1 DEF EventsOn
  <2> QED BY <1>o, <2>1, <2>2, <2>3
<1>9. ASSUME NEW c \in connections, WorkErases(c) PROVE AccountInv'
  <2>1. WorkCloses(c) /\ c \in Conn /\ connections' = connections \ {c} /\ batch' = {}
    BY <1>9, <1>a DEF WorkErases, Works
  <2>2. \E pr : CloseConnection(c, pr)
    BY <1>a, <2>1, WorkClosesProc
  <2> QED BY <1>c, <2>1, <2>2
<1>10. CASE Environment
  <2>1. batch' = batch /\ connections' = connections
    BY <1>10 DEF Environment, serverVars
  <2>2. ASSUME NEW c \in connections,
               ClientSends(c) \/ ClientShutsDown(c) \/ ClientResets(c) \/ Expires(c)
        PROVE  AccountInv'
    <3>1. c \in Conn /\ AccountedAt(c)' /\ Elsewhere(c)
      BY <1>a, <2>2, ClientAccount
    <3>2. knote' = knote /\ pipe' = pipe
      BY <2>2 DEF ClientSends, ClientShutsDown, ClientResets, Expires
    <3>3. EventsOn'
      BY <1>e, <2>1, <3>2
    <3> QED BY <1>o, <2>1, <3>1, <3>3
  <2>3. ASSUME NEW p \in Pid, CgiWrites(p) \/ CgiClosesEnd(p) \/ CgiExits(p)
        PROVE  AccountInv'
    <3>1. \A c \in Conn : /\ AccountedAt(c) => AccountedAt(c)'
                          /\ HasOutput(pipe[c]) => HasOutput(pipe'[c])
      BY <1>a, <2>3, CgiAccount DEF Owned
    <3>2. knote' = knote
      BY <2>3 DEF CgiWrites, CgiClosesEnd, CgiExits
    <3>3. EventsOn'
      BY <1>a, <1>e, <2>1, <3>1, <3>2 DEF BatchLive
    <3> QED BY <1>a, <1>s, <2>1, <3>1, <3>3
  <2> QED BY <1>10, <2>2, <2>3 DEF Environment
<1>11. CASE UNCHANGED vars
  BY <1>11, <1>k DEF vars, serverVars
<1> QED
  BY <1>1, <1>2, <1>3, <1>4, <1>5, <1>6, <1>7, <1>8, <1>9, <1>10, <1>11
  DEF Next, ServerStep, Dispatch, Work, Dead

(* However many clients there are, whatever they send and however the      *)
(* reads split it, no part of a request is lost or taken twice on its way  *)
(* from the socket through read_buffer_ and leftover_ to the reply, if     *)
(* each client waits for its replies (readHandler, parse, clear).          *)
THEOREM RequestsCorrect == MaxAhead = 1 /\ Spec => []RequestsAccounted
<1>1. AccountInv => RequestsAccounted
  <2> SUFFICES ASSUME AccountInv, NEW c \in connections,
                      sock[c].peer # "reset", ~conn[c].expired, ~Corrupts(conn[c])
               PROVE  sock[c].due = sock[c].inbox + conn[c].request
                      + (IF conn[c].from = "client" THEN conn[c].read ELSE 0)
                      + (IF \/ conn[c].state = "kReadingFromSocket"
                            \/ conn[c].state = "kWritingToSocket" /\ conn[c].to_write = 0
                           THEN 0 ELSE RequestParts)
    BY DEF RequestsAccounted
  <2> DEFINE x == conn[c]
  <2>1. /\ c \in Conn /\ WorldTypeOK /\ AccountedAt(c)
    BY DEF AccountInv, PipesInv, TypeInv, TypeOK
  <2>2. /\ x.request \in Nat /\ x.read \in Nat /\ x.stale \in BOOLEAN
        /\ sock[c].inbox \in Nat /\ RequestParts \in Nat
    BY <2>1, RecordTypes, FieldTypes
  <2>3. OnTime(x) /\ (x.stale => x.read = 0)
    BY DEF OnTime, Corrupts
  <2>4. sock[c].due = sock[c].inbox + Held(x)
    BY <2>1, <2>3 DEF AccountedAt, Accounted, Counted
  <2>5. FromClient(x) = IF x.from = "client" THEN x.read ELSE 0
    BY <2>2, <2>3 DEF FromClient
  <2> HIDE DEF x
  <2>6. Held(x) = x.request + (IF x.from = "client" THEN x.read ELSE 0)
                      + (IF \/ x.state = "kReadingFromSocket"
                            \/ x.state = "kWritingToSocket" /\ x.to_write = 0
                           THEN 0 ELSE RequestParts)
    BY <2>5 DEF Held, Serving
  <2> QED BY <2>2, <2>4, <2>6 DEF x
<1> QED BY <1>1, AccountInvInit, AccountInvNext, PTL DEF Spec

-----------------------------------------------------------------------------
(* What CgiReplyComplete says of a step and one connection.                *)
ReplyWhole(c) ==
  /\ conn[c].state = "kReadingFromPipe"
  /\ conn'[c].state = "kWritingToSocket"
  /\ ~conn[c].expired /\ ~conn[c].corrupt
  => conn[c].cgi_output = pipe[c].emitted /\ ~conn[c].foreign

(* Of the methods only handlingDynamicPage makes such a step, and it has   *)
(* seen the end of the output.                                             *)
LEMMA WorkContinuesReply ==
  ASSUME WorldTypeOK, NEW c \in Conn, AccountedAt(c), WorkContinues(c)
  PROVE  ReplyWhole(c)
<1> SUFFICES ASSUME conn[c].state = "kReadingFromPipe",
                    conn'[c].state = "kWritingToSocket",
                    ~conn[c].expired, ~conn[c].corrupt
             PROVE  conn[c].cgi_output = pipe[c].emitted /\ ~conn[c].foreign
  BY DEF ReplyWhole
<1> DEFINE y == conn[c]
<1>0. /\ conn \in [Conn -> ConnRecord] /\ y \in ConnRecord
      /\ y.cgi_output \in Nat /\ y.read \in Nat /\ pipe[c].emitted \in Nat
  BY RecordTypes, FieldTypes DEF WorldTypeOK
<1>1. TakesOutput(y, knote[c], pipe[c])
  BY DEF AccountedAt, Accounted, OnTime
<1>2. CASE HandlingDynamicPageDone(c)
  <2>1. y.leftover_data = "zero"
    BY <1>2 DEF HandlingDynamicPageDone, CheckPipeReadDone
  <2>2. FromCgi(y) = 0 /\ pipe[c].unread = 0
    BY <1>0, <1>1, <2>1 DEF TakesOutput, FromCgi
  <2> QED BY <1>0, <1>1, <2>2 DEF TakesOutput
<1>3. CASE HandlingDynamicPageAgain(c)
  <2>1. PICK o, f : Become(c, [y EXCEPT !.cgi_output = o, !.foreign = f, !.read = 0,
                                        !.from = "client", !.stale = FALSE])
    BY <1>3, Zenon DEF HandlingDynamicPageAgain
  <2>2. conn'[c].state = y.state
    BY <1>0, <2>1 DEF Become, ConnRecord
  <2> QED BY <2>2
<1> QED
  BY <1>2, <1>3
  DEF WorkContinues, OverloadReply, SystemOverload, ParsingRequestMessageAgain,
      HandlingStaticPage, ExecuteCgiProcess, WritingToPipeAgain, WritingToPipeDone,
      WritingToSocketAgain, WritingToSocketDone, Runs

LEMMA ReplyStep == AccountInv /\ [Next]_vars => \A c \in Conn : ReplyWhole(c)
<1> SUFFICES ASSUME AccountInv, [Next]_vars, NEW c \in Conn PROVE ReplyWhole(c)
  OBVIOUS
<1>a. /\ WorldTypeOK /\ connections \subseteq Conn
      /\ conn \in [Conn -> ConnRecord]
      /\ \A d \in connections : PipesInUse(knote[d], conn[d]) /\ AccountedAt(d)
  BY DEF AccountInv, PipesInv, TypeInv, TypeOK, WorldTypeOK
<1>p. ASSUME Progress' = Progress PROVE ReplyWhole(c)
  <2>1. Progress'[c] = conn'[c].state /\ Progress[c] = conn[c].state
    BY DEF Progress
  <2> QED BY <1>p, <2>1 DEF ReplyWhole
<1>u. ASSUME UNCHANGED conn PROVE ReplyWhole(c)
  BY <1>u DEF ReplyWhole
<1>n. ASSUME NEW d \in Conn, Become(d, NewConnection) PROVE ReplyWhole(c)
  BY <1>a, <1>n DEF Become, NewConnection, ReplyWhole
<1>1. CASE Poll \/ StartWork \/ UNCHANGED vars
  BY <1>1, <1>u DEF Poll, StartWork, vars, worldVars
<1>2. ASSUME NEW e \in batch, AcceptClient(e) PROVE ReplyWhole(c)
  BY <1>2, <1>n, <1>u DEF AcceptClient, OpenConnection, worldVars
<1>3. ASSUME NEW e \in batch, DispatchRead(e) \/ DispatchWrite(e) PROVE ReplyWhole(c)
  <2>1. CASE /\ IsLive(e)
             /\ ReadHandler(e.ident, e.filter) \/ WriteHandler(e.ident, e.filter)
    <3>1. e.ident \in Conn
      BY <1>a, <2>1 DEF IsLive
    <3> QED BY <1>a, <1>p, <2>1, <3>1, HandlersKeepStage
  <2>2. CASE IsLive(e) /\ CloseConnection(e.ident, proc)
    BY <1>a, <1>n, <2>2 DEF IsLive, CloseConnection
  <2>3. CASE Crash
    BY <1>u, <2>3 DEF Crash, worldVars
  <2> QED BY <1>3, <2>1, <2>2, <2>3 DEF DispatchRead, DispatchWrite
<1>4. ASSUME NEW e \in batch, DispatchProc(e) PROVE ReplyWhole(c)
  <2>1. CASE UNCHANGED conn
    BY <1>u, <2>1
  <2>2. ASSUME NEW code, e.udata \in connections,
               Become(e.udata, [conn[e.udata] EXCEPT !.cgi_pid = NoPid, !.code = code])
        PROVE  ReplyWhole(c)
    <3>1. conn'[c].state = conn[c].state
      BY <1>a, <2>2 DEF Become, ConnRecord
    <3> QED BY <3>1 DEF ReplyWhole
  <2> QED BY <1>4, <2>1, <2>2, ProcEither, Zenon
<1>5. ASSUME NEW e \in batch, DispatchProcCrashes(e) PROVE ReplyWhole(c)
  BY <1>5, <1>u DEF DispatchProcCrashes, Crash, worldVars
<1>6. ASSUME NEW d \in connections, WorkKeeps(d) PROVE ReplyWhole(c)
  <2>1. WorkContinues(d) /\ d \in Conn
    BY <1>6, <1>a DEF WorkKeeps
  <2>2. CASE d = c
    BY <1>a, <2>1, <2>2, WorkContinuesReply
  <2>3. CASE d # c
    <3>1. Elsewhere(d)
      BY <1>a, <2>1, WorkElsewhere
    <3> QED BY <2>3, <3>1 DEF Elsewhere, ReplyWhole
  <2> QED BY <2>2, <2>3
<1>7. ASSUME NEW d \in connections, WorkErases(d) PROVE ReplyWhole(c)
  <2>1. WorkCloses(d) /\ d \in Conn
    BY <1>7, <1>a DEF WorkErases
  <2>2. \E pr : CloseConnection(d, pr)
    BY <1>a, <2>1, WorkClosesProc
  <2> QED BY <1>n, <2>1, <2>2 DEF CloseConnection
<1>8. CASE Environment
  <2>1. CASE \E d \in connections : Expires(d)
    <3>1. PICK d \in connections : Become(d, [conn[d] EXCEPT !.expired = TRUE])
      BY <2>1 DEF Expires
    <3>2. conn'[c].state = conn[c].state
      BY <1>a, <3>1 DEF Become, ConnRecord
    <3> QED BY <3>2 DEF ReplyWhole
  <2>2. CASE UNCHANGED conn
    BY <1>u, <2>2
  <2> QED BY <1>8, <2>1, <2>2 DEF Environment, ClientSends, ClientShutsDown,
        ClientResets, CgiWrites, CgiClosesEnd, CgiExits
<1> QED
  BY <1>1, <1>2, <1>3, <1>4, <1>5, <1>6, <1>7, <1>8
  DEF Next, ServerStep, Dispatch, Work, Dead

(* A reply made from CGI output in time holds all the process wrote and    *)
(* nothing of the client, if each client waits for its replies             *)
(* (checkPipeReadDone, handlingDynamicPage).                               *)
THEOREM CgiReplyCorrect == MaxAhead = 1 /\ Spec => CgiReplyComplete
<1>1. AccountInv /\ [Next]_vars
      => [\A c \in Conn :
            /\ conn[c].state = "kReadingFromPipe"
            /\ conn'[c].state = "kWritingToSocket"
            /\ ~conn[c].expired /\ ~conn[c].corrupt
            => conn[c].cgi_output = pipe[c].emitted /\ ~conn[c].foreign]_vars
  BY ReplyStep DEF ReplyWhole
<1> QED BY <1>1, AccountInvInit, AccountInvNext, PTL DEF Spec, CgiReplyComplete
=============================================================================
