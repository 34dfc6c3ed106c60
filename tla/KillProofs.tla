----------------------------- MODULE KillProofs -----------------------------
(***************************************************************************)
(* What event_list and cgi_pid_ refer to: no event outlives the connection *)
(* it is for, kill() reaches only the CGI process of the connection that   *)
(* calls it, waitpid() in the event loop does not block, and no CGI pipe   *)
(* outlives the state that uses it.                                        *)
(***************************************************************************)
EXTENDS ServerProofs

(* What the kernel keeps about descriptors: they belong to live            *)
(* connections, and the pointer stored with them is their own or NULL.     *)
OwnedBy(kn, c) == \A r \in Role : kn[r].udata \in {c, Null}

KnotesOwned ==
  \A c \in Conn :
    /\ OwnedBy(knote[c], c)
    /\ c \notin connections => \A r \in Role : ~IsOpen(knote[c], r)

(* The work loop, which erases connections without a break, has no event   *)
(* left to dispatch.                                                       *)
BatchInv ==
  /\ TypeInv
  /\ KnotesOwned
  /\ BatchLive
  /\ phase = "work" => batch = {}

LEMMA SetEventOwned ==
  ASSUME NEW c \in Conn, NEW kn \in [Role -> Knote], OwnedBy(kn, c),
         NEW r \in Role, NEW flag, NEW u \in {c, Null}
  PROVE  /\ OwnedBy(SetEvent(kn, r, flag, u), c)
         /\ \A s \in Role : IsOpen(kn, s) => IsOpen(SetEvent(kn, r, flag, u), s)
  BY DEF OwnedBy, SetEvent, IsOpen, Knote

LEMMA CloseFdOwned ==
  ASSUME NEW c \in Conn, NEW kn \in [Role -> Knote], OwnedBy(kn, c), NEW r \in Role
  PROVE  OwnedBy(CloseFd(kn, r), c)
  BY DEF OwnedBy, CloseFd, NoKnote, Knote

LEMMA DisarmOwned ==
  ASSUME NEW c \in Conn, NEW kn \in [Role -> Knote], OwnedBy(kn, c), NEW r \in Role
  PROVE  /\ OwnedBy(Disarm(kn, r, c), c)
         /\ \A s \in Role : IsOpen(kn, s) => IsOpen(Disarm(kn, r, c), s)
<1> DEFINE k == SetEvent(kn, r, "EV_DISABLE", c)
<1>1. k \in [Role -> Knote] /\ OwnedBy(k, c)
      /\ \A s \in Role : IsOpen(kn, s) => IsOpen(k, s)
  BY SetEventType, SetEventOwned
<1> HIDE DEF k
<1>2. /\ OwnedBy(SetEvent(k, r, "EV_DISABLE", Null), c)
      /\ \A s \in Role : IsOpen(k, s) => IsOpen(SetEvent(k, r, "EV_DISABLE", Null), s)
  BY <1>1, SetEventOwned
<1> QED BY <1>1, <1>2 DEF Disarm, k

(* A call of work() that keeps the connection registers its descriptors    *)
(* with its own pointer, or with NULL.                                     *)
LEMMA WorkContinuesKnotes ==
  ASSUME WorldTypeOK, NEW c \in Conn, OwnedBy(knote[c], c), WorkContinues(c)
  PROVE  \E k : SetKnotes(c, k) /\ OwnedBy(k, c)
<1>0. /\ knote[c] \in [Role -> Knote] /\ c \in {c, Null} /\ Null \in {c, Null}
      /\ knote \in [Conn -> [Role -> Knote]]
      /\ Role = {"sockR", "sockW", "pipeR", "pipeW"}
  BY DEF WorldTypeOK, Role
<1>1. ASSUME NEW r \in Role, NEW flag, SetKnotes(c, SetEvent(knote[c], r, flag, c))
      PROVE  \E k : SetKnotes(c, k) /\ OwnedBy(k, c)
  BY <1>0, <1>1, SetEventOwned
<1>2. CASE OverloadReply(c) \/ HandlingStaticPage(c)
  BY <1>0, <1>1, <1>2 DEF OverloadReply, HandlingStaticPage, Reply
<1>3. CASE \/ ParsingRequestMessageAgain(c) \/ WritingToPipeAgain(c)
           \/ HandlingDynamicPageAgain(c)
           \/ WritingToSocketAgain(c) \/ WritingToSocketDone(c)
  BY <1>0, <1>1, <1>3
  DEF ParsingRequestMessageAgain, WritingToPipeAgain, HandlingDynamicPageAgain,
      WritingToSocketAgain, WritingToSocketDone
<1>4. CASE ExecuteCgiProcess(c)
  <2> DEFINE piped == SetEvent(knote[c], "pipeR", "EV_ADD_DISABLE", c)
  <2>1. piped \in [Role -> Knote] /\ OwnedBy(piped, c)
    BY <1>0, SetEventType, SetEventOwned
  <2>2. \/ SetKnotes(c, SetEvent(piped, "pipeW", "EV_ADD", c))
        \/ SetKnotes(c, SetEvent(piped, "pipeR", "EV_ENABLE", Null))
    BY <1>4 DEF ExecuteCgiProcess, StartCgi
  <2> HIDE DEF piped
  <2> QED BY <1>0, <2>1, <2>2, SetEventOwned
<1>5. CASE WritingToPipeDone(c)
  BY <1>0, <1>5, CloseFdOwned DEF WritingToPipeDone
<1>6. CASE HandlingDynamicPageDone(c)
  <2> DEFINE closed == CloseFd(knote[c], "pipeR")
  <2>1. closed \in [Role -> Knote] /\ OwnedBy(closed, c)
    BY <1>0, CloseFdType, CloseFdOwned
  <2>2. SetKnotes(c, SetEvent(closed, "sockW", "EV_ENABLE", c))
    BY <1>6 DEF HandlingDynamicPageDone
  <2> HIDE DEF closed
  <2> QED BY <1>0, <2>1, <2>2, SetEventOwned
<1> QED BY <1>2, <1>3, <1>4, <1>5, <1>6 DEF WorkContinues
-----------------------------------------------------------------------------
(* KnotesOwned is kept when the knotes of one live connection change and   *)
(* when a connection goes.                                                 *)
LEMMA KnotesOwnedSet ==
  ASSUME WorldTypeOK, KnotesOwned, NEW c \in connections, NEW k,
         SetKnotes(c, k), OwnedBy(k, c), UNCHANGED connections
  PROVE  KnotesOwned'
  BY DEF WorldTypeOK, KnotesOwned, SetKnotes, OwnedBy, IsOpen

LEMMA KnotesOwnedClose ==
  ASSUME WorldTypeOK, KnotesOwned, NEW c \in Conn, NEW pr,
         CloseConnection(c, pr), connections' = connections \ {c}
  PROVE  KnotesOwned'
<1>1. knote' = [knote EXCEPT ![c] = NoKnotes] /\ knote \in [Conn -> [Role -> Knote]]
  BY DEF CloseConnection, SetKnotes, WorldTypeOK
<1>2. OwnedBy(NoKnotes, c) /\ \A r \in Role : ~IsOpen(NoKnotes, r)
  BY DEF OwnedBy, NoKnotes, NoKnote, IsOpen
<1> QED BY <1>1, <1>2 DEF KnotesOwned, OwnedBy, IsOpen

(* What kevent() returns is for live connections. *)
LEMMA EventListLive ==
  ASSUME WorldTypeOK, KnotesOwned, NEW B \in EventLists, NEW e \in B,
         e.filter \in Role
  PROVE  /\ e.ident \in connections
         /\ IsOpen(knote[e.ident], e.filter)
         /\ e.udata \in {e.ident, Null}
<1>1. B \in SUBSET (Ready \cup MayBeReady)
  BY Zenon DEF EventLists, kSubset
<1>2. e \in Ready \cup MayBeReady
  BY <1>1
<1>3. \E c \in Conn, r \in Role : Enabled(c, r) /\ e = FdEvent(c, r)
  <2>1. CASE e \in Ready
    BY <2>1 DEF Ready, ProcEvent, Role
  <2>2. CASE e \in MayBeReady
    <3>1. e # ListenEvent
      BY DEF ListenEvent, Role
    <3> QED BY <2>2, <3>1 DEF MayBeReady, Role
  <2> QED BY <1>2, <2>1, <2>2
<1> QED BY <1>3 DEF FdEvent, Enabled, KnotesOwned, OwnedBy, IsOpen
-----------------------------------------------------------------------------
LEMMA BatchInvInit == Init => BatchInv
<1> SUFFICES ASSUME Init PROVE BatchInv
  OBVIOUS
<1>1. KnotesOwned
  BY DEF Init, WorldInit, KnotesOwned, OwnedBy, NoKnotes, NoKnote, IsOpen
<1> QED BY <1>1, TypeInvInit DEF Init, BatchInv, BatchLive

LEMMA BatchInvNext == BatchInv /\ [Next]_vars => BatchInv'
<1> SUFFICES ASSUME BatchInv, [Next]_vars PROVE BatchInv'
  OBVIOUS
<1>t. TypeInv'
  BY TypeInvNext DEF BatchInv
<1>a. /\ WorldTypeOK /\ KnotesOwned /\ BatchLive
      /\ (phase = "work" => batch = {})
      /\ connections \subseteq Conn /\ batch \subseteq Event
      /\ knote \in [Conn -> [Role -> Knote]]
  BY DEF BatchInv, TypeInv, TypeOK, WorldTypeOK
<1>s. ASSUME KnotesOwned', BatchLive', phase' = "work" => batch' = {}
      PROVE  BatchInv'
  BY <1>t, <1>s DEF BatchInv
(* Steps that leave descriptors, connections and phase alone. *)
<1>u. ASSUME UNCHANGED <<knote, connections, phase>>, batch' \subseteq batch
      PROVE  BatchInv'
  <2>1. KnotesOwned' /\ BatchLive'
    BY <1>a, <1>u DEF KnotesOwned, OwnedBy, BatchLive, IsOpen
  <2> QED BY <1>a, <1>s, <1>u, <2>1
(* An erasure with nothing left to dispatch. *)
<1>c. ASSUME NEW c \in connections, NEW pr, CloseConnection(c, pr),
             connections' = connections \ {c}, batch' = {}
      PROVE  BatchInv'
  BY <1>a, <1>s, <1>c, KnotesOwnedClose DEF BatchLive
(* A handler that did not fail. *)
<1>h. ASSUME NEW e \in batch, e.ident \in connections, e.filter \in Role,
             SetKnotes(e.ident, Disarm(knote[e.ident], e.filter, e.ident)),
             UNCHANGED <<connections, phase>>, batch' \subseteq batch
      PROVE  BatchInv'
  <2> DEFINE c == e.ident
             k == Disarm(knote[c], e.filter, c)
  <2>1. c \in Conn /\ knote[c] \in [Role -> Knote] /\ OwnedBy(knote[c], c)
    BY <1>a, <1>h DEF KnotesOwned
  <2>2. OwnedBy(k, c) /\ \A s \in Role : IsOpen(knote[c], s) => IsOpen(k, s)
    BY <1>h, <2>1, DisarmOwned
  <2> HIDE DEF k
  <2>3. SetKnotes(c, k)
    BY <1>h DEF k
  <2>4. KnotesOwned'
    BY <1>a, <1>h, <2>2, <2>3, KnotesOwnedSet
  <2>5. \A d \in connections, s \in Role : IsOpen(knote[d], s) => IsOpen(knote'[d], s)
    BY <1>a, <2>2, <2>3 DEF SetKnotes
  <2>6. BatchLive'
    BY <1>a, <1>h, <2>5 DEF BatchLive
  <2>7. phase' = "work" => batch' = {}
    BY <1>a, <1>h
  <2> QED BY <1>s, <2>4, <2>6, <2>7
<1>1. CASE Poll
  <2>1. PICK B \in EventLists : batch' = B
    BY <1>1 DEF Poll
  <2>2. knote' = knote /\ connections' = connections /\ phase' = "dispatch"
    BY <1>1 DEF Poll
  <2>3. BatchLive'
    BY <1>a, <2>1, <2>2, EventListLive DEF BatchLive
  <2>4. KnotesOwned'
    BY <1>a, <2>2 DEF KnotesOwned
  <2> QED BY <1>s, <2>2, <2>3, <2>4
<1>2. ASSUME NEW e \in batch, AcceptClient(e) PROVE BatchInv'
  <2>0. batch' \subseteq batch /\ phase' = phase /\ phase = "dispatch"
    BY <1>2 DEF AcceptClient, Continue, Dispatches
  <2>1. CASE UNCHANGED <<worldVars, connections, work_queue>>
    BY <1>u, <2>0, <2>1 DEF worldVars
  <2>2. ASSUME NEW c \in Conn \ connections, OpenConnection(c),
               connections' = connections \cup {c}
        PROVE  BatchInv'
    <3> DEFINE k == SetEvent(SetEvent(NoKnotes, "sockR", "EV_ADD", c),
                             "sockW", "EV_ADD_DISABLE", c)
    <3>1. knote' = [knote EXCEPT ![c] = k]
      BY <2>2 DEF OpenConnection, SetKnotes
    <3>2. OwnedBy(k, c)
      BY DEF SetEvent, NoKnotes, NoKnote, OwnedBy
    <3> HIDE DEF k
    <3>3. KnotesOwned'
      BY <1>a, <2>2, <3>1, <3>2 DEF KnotesOwned, OwnedBy, IsOpen
    <3>4. \A d \in connections : knote'[d] = knote[d]
      BY <1>a, <2>2, <3>1
    <3>5. BatchLive'
      BY <1>a, <2>0, <2>2, <3>4 DEF BatchLive
    <3> QED BY <1>s, <2>0, <3>3, <3>5
  <2> QED BY <1>2, <2>1, <2>2 DEF AcceptClient
<1>3. ASSUME NEW e \in batch, DispatchRead(e) PROVE BatchInv'
  <2>1. e.filter \in Role
    BY <1>3 DEF DispatchRead, Role
  <2>2. CASE IsLive(e) /\ ReadHandler(e.ident, e.filter) /\ Continue(e)
             /\ UNCHANGED <<connections, work_queue>>
    BY <1>h, <2>1, <2>2 DEF IsLive, ReadHandler, Continue
  <2>3. CASE IsLive(e) /\ CloseConnection(e.ident, proc) /\ Erase(e.ident) /\ Break
    BY <1>c, <2>3 DEF IsLive, Erase, Break
  <2>4. CASE Crash
    BY <1>u, <2>4 DEF Crash, worldVars
  <2> QED BY <1>3, <2>2, <2>3, <2>4 DEF DispatchRead
<1>4. ASSUME NEW e \in batch, DispatchWrite(e) PROVE BatchInv'
  <2>1. e.filter \in Role
    BY <1>4 DEF DispatchWrite, Role
  <2>2. CASE IsLive(e) /\ WriteHandler(e.ident, e.filter) /\ Continue(e)
             /\ UNCHANGED <<connections, work_queue>>
    BY <1>h, <2>1, <2>2 DEF IsLive, WriteHandler, Continue
  <2>3. CASE IsLive(e) /\ CloseConnection(e.ident, proc) /\ Erase(e.ident) /\ Break
    BY <1>c, <2>3 DEF IsLive, Erase, Break
  <2>4. CASE Crash
    BY <1>u, <2>4 DEF Crash, worldVars
  <2> QED BY <1>4, <2>2, <2>3, <2>4 DEF DispatchWrite
<1>5. ASSUME NEW e \in batch, DispatchProc(e) PROVE BatchInv'
  BY <1>5, <1>u DEF DispatchProc, Continue, Break
<1>6. ASSUME NEW e \in batch, DispatchProcCrashes(e) PROVE BatchInv'
  BY <1>6, <1>u DEF DispatchProcCrashes, Crash, worldVars
<1>7. CASE StartWork
  <2>1. KnotesOwned' /\ BatchLive' /\ batch' = {}
    BY <1>7, <1>a DEF StartWork, worldVars, KnotesOwned, BatchLive
  <2> QED BY <1>s, <2>1
<1>8. ASSUME NEW c \in connections, WorkKeeps(c) PROVE BatchInv'
  <2>1. WorkContinues(c) /\ batch' = {} /\ connections' = connections
    BY <1>8, <1>a DEF WorkKeeps, Works
  <2>2. c \in Conn /\ OwnedBy(knote[c], c)
    BY <1>a DEF KnotesOwned
  <2>3. PICK k : SetKnotes(c, k) /\ OwnedBy(k, c)
    BY <1>a, <2>1, <2>2, WorkContinuesKnotes
  <2>4. KnotesOwned'
    BY <1>a, <2>1, <2>3, KnotesOwnedSet
  <2> QED BY <1>s, <2>1, <2>4 DEF BatchLive
<1>9. ASSUME NEW c \in connections, WorkErases(c) PROVE BatchInv'
  <2>1. WorkCloses(c) /\ c \in Conn
    BY <1>9, <1>a DEF WorkErases
  <2>2. \E pr \in [Pid -> ProcRecord] : CloseConnection(c, pr)
    BY <1>a, <2>1, WorkClosesProc
  <2>3. connections' = connections \ {c} /\ batch' = {}
    BY <1>9, <1>a DEF WorkErases, Works
  <2> QED BY <1>c, <2>2, <2>3
<1>10. CASE Environment
  BY <1>10, <1>u DEF Environment, serverVars, ClientSends, ClientShutsDown,
     ClientResets, Expires, CgiWrites, CgiClosesEnd, CgiExits
<1>11. CASE UNCHANGED vars
  BY <1>11, <1>u DEF vars, serverVars, worldVars
<1> QED
  BY <1>1, <1>2, <1>3, <1>4, <1>5, <1>6, <1>7, <1>8, <1>9, <1>10, <1>11
  DEF Next, ServerStep, Dispatch, Work, Dead

(* An event that is dispatched is for an open descriptor of a live         *)
(* connection: the breaks after eraseConnection leave no stale pointer in  *)
(* event_list (Server::run).                                               *)
THEOREM BatchCorrect == Spec => []BatchLive
<1>1. BatchInv => BatchLive
  BY DEF BatchInv
<1> QED BY <1>1, BatchInvInit, BatchInvNext, PTL DEF Spec
-----------------------------------------------------------------------------
(* What KillTarget says of one connection record and the processes.        *)
KillsOwn(x, pr, c) ==
  x.cgi_pid # NoPid =>
    /\ x.state \in {"kWritingToPipe", "kReadingFromPipe"}
    /\ pr[x.cgi_pid].st # "free"
    /\ pr[x.cgi_pid].owner = c
    /\ pr[x.cgi_pid].plumbed

(* From pr to next, the processes of the other connections go on.          *)
OthersKept(pr, next, c) ==
  \A p \in Pid : pr[p].st # "free" /\ pr[p].owner # c =>
    /\ next[p].st # "free"
    /\ next[p].owner = pr[p].owner
    /\ next[p].plumbed = pr[p].plumbed

(* A process event to dispatch is for a process that ended, is not waited  *)
(* for yet, and carries the connection that forked it.                     *)
ProcEvents ==
  \A e \in batch : e.filter = "proc" =>
    /\ proc[e.ident].st = "zombie"
    /\ e.udata = proc[e.ident].owner

KillInv == BatchInv /\ KillTarget /\ ProcEvents

LEMMA KillTargetIs ==
  KillTarget <=>
    \A c \in Conn : /\ conn[c].cgi_pid # NoPid => c \in connections
                    /\ KillsOwn(conn[c], proc, c)
  BY DEF KillTarget, KillsOwn

(* KillTarget is kept by a step on one connection. *)
LEMMA KillTargetStep ==
  ASSUME WorldTypeOK, KillTarget, NEW c \in Conn, NEW x, Become(c, x),
         KillsOwn(x, proc', c), x.cgi_pid # NoPid => c \in connections',
         OthersKept(proc, proc', c), connections \ {c} \subseteq connections'
  PROVE  KillTarget'
<1>1. conn' = [conn EXCEPT ![c] = x] /\ conn \in [Conn -> ConnRecord]
  BY DEF Become, WorldTypeOK
<1> SUFFICES ASSUME NEW d \in Conn, conn'[d].cgi_pid # NoPid
             PROVE  d \in connections' /\ KillsOwn(conn'[d], proc', d)
  BY DEF KillTarget, KillsOwn
<1>2. CASE d = c
  BY <1>1, <1>2
<1>3. CASE d # c
  <2>1. conn'[d] = conn[d]
    BY <1>1, <1>3
  <2>2. d \in connections /\ KillsOwn(conn[d], proc, d)
    BY <2>1, KillTargetIs
  <2>3. conn[d].cgi_pid \in Pid
    BY <1>1, <2>1, FieldTypes
  <2> QED BY <1>3, <2>1, <2>2, <2>3 DEF KillsOwn, OthersKept
<1> QED BY <1>2, <1>3

LEMMA OthersKeptProc ==
  ASSUME NEW pr \in [Pid -> ProcRecord], NEW c
  PROVE  /\ OthersKept(pr, pr, c)
         /\ \A p : OthersKept(pr, Kill(pr, p), c)
         /\ \A next \in [Pid -> ProcRecord] :
              OthersKept(pr, next, c) => OthersKept(pr, Unplumb(next, c), c)
<1>1. OthersKept(pr, pr, c)
  BY DEF OthersKept
<1>2. ASSUME NEW p PROVE OthersKept(pr, Kill(pr, p), c)
  BY DEF OthersKept, Kill, ProcRecord
<1>3. ASSUME NEW next \in [Pid -> ProcRecord], OthersKept(pr, next, c)
      PROVE  OthersKept(pr, Unplumb(next, c), c)
  BY <1>3 DEF OthersKept, Unplumb
<1> QED BY <1>1, <1>2, <1>3

LEMMA OthersKeptForked ==
  ASSUME WorldTypeOK, NEW c \in Conn, NEW early,
         NEW p \in {q \in Pid : proc[q].st = "free"}
  PROVE  OthersKept(proc, Forked(c, p, early), c)
  BY DEF OthersKept, Forked, WorldTypeOK

(* A handler changes neither the state nor cgi_pid_. *)
LEMMA HandlerKeepsPid ==
  ASSUME WorldTypeOK, NEW c \in Conn, NEW r, ReadHandler(c, r) \/ WriteHandler(c, r)
  PROVE  \E x : Become(c, x) /\ x.cgi_pid = conn[c].cgi_pid /\ x.state = conn[c].state
<1> DEFINE Kept(x) == x.cgi_pid = conn[c].cgi_pid /\ x.state = conn[c].state
<1>0. conn[c] \in ConnRecord
  BY DEF WorldTypeOK
<1>1. CASE ReadHandler(c, r)
  <2>1. PICK n, from : Receive(c, n, from)
    BY <1>1 DEF ReadHandler
  <2> DEFINE x == [conn[c] EXCEPT !.read = n,
                                  !.from = IF n = 0 THEN "client" ELSE from,
                                  !.stale = FALSE,
                                  !.leftover_data = IF n = 0 THEN "zero" ELSE "some"]
  <2>2. Become(c, x)
    BY <2>1 DEF Receive
  <2>3. Kept(x)
    BY <1>0 DEF ConnRecord
  <2> QED BY <2>2, <2>3
<1>2. CASE WriteHandler(c, r)
  <2> DEFINE x(left) == [conn[c] EXCEPT
               !.to_write = left,
               !.misdirected = @ \/ (r = "pipeW" /\ conn[c].state = "kWritingToSocket"
                                     /\ conn[c].to_write # 0)]
  <2>1. PICK left : Become(c, x(left))
    BY <1>2 DEF WriteHandler
  <2>2. Kept(x(left))
    BY <1>0 DEF ConnRecord
  <2> QED BY <2>1, <2>2
<1> QED BY <1>1, <1>2

(* A connection that is erased takes its cgi_pid_ along. *)
LEMMA KillTargetClose ==
  ASSUME WorldTypeOK, KillTarget, NEW c \in Conn, NEW pr \in [Pid -> ProcRecord],
         CloseConnection(c, pr), OthersKept(proc, pr, c),
         connections' = connections \ {c}
  PROVE  KillTarget'
<1>1. Become(c, NewConnection) /\ proc' = Unplumb(pr, c)
  BY DEF CloseConnection
<1>2. NewConnection.cgi_pid = NoPid
  BY DEF NewConnection
<1>3. OthersKept(proc, proc', c)
  BY <1>1, OthersKeptProc DEF WorldTypeOK
<1> QED BY <1>1, <1>2, <1>3, KillTargetStep DEF KillsOwn

(* A call of work() that keeps the connection either leaves cgi_pid_ and   *)
(* its process alone, sets it to a process just forked, or resets it.      *)
LEMMA WorkContinuesKill ==
  ASSUME WorldTypeOK, KillTarget, NEW c \in Conn, WorkContinues(c)
  PROVE  \E x : /\ Become(c, x)
                /\ KillsOwn(x, proc', c)
                /\ OthersKept(proc, proc', c)
<1> DEFINE y == conn[c]
<1>0. /\ y \in ConnRecord /\ proc \in [Pid -> ProcRecord]
      /\ conn \in [Conn -> ConnRecord] /\ KillsOwn(y, proc, c)
      /\ OthersKept(proc, proc, c)
  BY OthersKeptProc, KillTargetIs DEF WorldTypeOK
(* A reply forgets the process. *)
<1>r. ASSUME NEW x, NEW code, NEW n, NEW cl, x \in ConnRecord,
             Become(c, ReplyOf(x, code, n, cl)), OthersKept(proc, proc', c)
      PROVE  \E z : Become(c, z) /\ KillsOwn(z, proc', c) /\ OthersKept(proc, proc', c)
  <2>1. ReplyOf(x, code, n, cl).cgi_pid = NoPid
    BY <1>r DEF ReplyOf, ConnRecord
  <2> QED BY <1>r, <2>1 DEF KillsOwn
(* The process and the state are as they were. *)
<1>k. ASSUME NEW x, Become(c, x), x.cgi_pid = y.cgi_pid, proc' = proc,
             \/ x.state = y.state
             \/ x.state = "kReadingFromPipe"
      PROVE  \E z : Become(c, z) /\ KillsOwn(z, proc', c) /\ OthersKept(proc, proc', c)
  BY <1>0, <1>k DEF KillsOwn
<1>1. CASE OverloadReply(c)
  <2>1. \E code, n, cl : Become(c, ReplyOf(y, code, n, cl))
    BY <1>1 DEF OverloadReply, Reply
  <2>2. OthersKept(proc, proc', c)
    BY <1>0, <1>1, OthersKeptProc DEF OverloadReply
  <2> QED BY <1>0, <1>r, <2>1, <2>2
<1>2. CASE ParsingRequestMessageAgain(c)
  <2> DEFINE x == [y EXCEPT !.request = IF Corrupts(y) THEN 0 ELSE Appended(y),
                            !.corrupt = Corrupts(y), !.stale = y.read # 0]
  <2>1. Become(c, x) /\ proc' = proc
    BY <1>2 DEF ParsingRequestMessageAgain
  <2>2. x.cgi_pid = y.cgi_pid /\ x.state = y.state
    BY <1>0 DEF ConnRecord
  <2> QED BY <1>k, <2>1, <2>2
<1>3. CASE HandlingStaticPage(c)
  <2>1. PICK x \in Parsed(y), code \in RequestCode(y) : Reply(c, x, code)
    BY <1>3 DEF HandlingStaticPage
  <2>2. x \in ConnRecord
    BY <1>0, <1>3, <2>1, ParsedType DEF HandlingStaticPage
  <2>3. \E n, cl : Become(c, ReplyOf(x, code, n, cl))
    BY <2>1 DEF Reply
  <2>4. proc' = proc
    BY <1>3 DEF HandlingStaticPage
  <2> QED BY <1>0, <1>r, <2>2, <2>3, <2>4
<1>4. CASE ExecuteCgiProcess(c)
  <2>1. PICK x \in Parsed(y), code \in {200, 204}, early \in BOOLEAN,
             p \in {q \in Pid : proc[q].st = "free"} : StartCgi(c, x, code, p, early)
    BY <1>4 DEF ExecuteCgiProcess
  <2>2. x \in ConnRecord
    BY <1>0, <1>4, <2>1, ParsedType DEF ExecuteCgiProcess
  <2>3. proc' = Forked(c, p, early)
    BY <2>1 DEF StartCgi
  <2>4. /\ proc'[p].st # "free" /\ proc'[p].owner = c /\ proc'[p].plumbed
    BY <1>0, <2>3 DEF Forked
  <2> DEFINE post(n) == [x EXCEPT !.code = code, !.cgi_pid = p, !.to_write = n,
                                  !.state = "kWritingToPipe"]
             get     == [x EXCEPT !.code = code, !.cgi_pid = p,
                                  !.state = "kReadingFromPipe"]
             Good(z) == /\ z.cgi_pid = p
                        /\ z.state \in {"kWritingToPipe", "kReadingFromPipe"}
  <2>5. PICK z : Become(c, z) /\ Good(z)
    <3>1. (\E n : Become(c, post(n))) \/ Become(c, get)
      <4> HIDE DEF Good
      <4> QED BY <2>1, Zenon DEF StartCgi
    <3>2. ASSUME NEW n PROVE Good(post(n))
      BY <2>2 DEF ConnRecord
    <3>3. Good(get)
      BY <2>2 DEF ConnRecord
    <3> HIDE DEF post, get, Good
    <3> QED BY <3>1, <3>2, <3>3
  <2>6. OthersKept(proc, proc', c)
    BY <2>3, OthersKeptForked
  <2> QED BY <2>4, <2>5, <2>6 DEF KillsOwn
<1>5. CASE WritingToPipeAgain(c) \/ WritingToSocketAgain(c)
  <2>1. Become(c, y) /\ proc' = proc
    BY <1>0, <1>5 DEF WritingToPipeAgain, WritingToSocketAgain, Become
  <2> QED BY <1>k, <2>1
<1>6. CASE WritingToPipeDone(c)
  <2> DEFINE x == [y EXCEPT !.state = "kReadingFromPipe"]
  <2>1. Become(c, x) /\ proc' = proc
    BY <1>6 DEF WritingToPipeDone
  <2>2. x.cgi_pid = y.cgi_pid /\ x.state = "kReadingFromPipe"
    BY <1>0 DEF ConnRecord
  <2> QED BY <1>k, <2>1, <2>2
<1>7. CASE HandlingDynamicPageAgain(c)
  <2> DEFINE x == [y EXCEPT
       !.cgi_output = IF y.from = "cgi" THEN @ + y.read ELSE @,
       !.foreign = @ \/ (y.from = "client" /\ y.read # 0),
       !.read = 0, !.from = "client", !.stale = FALSE]
  <2>1. Become(c, x) /\ proc' = proc
    BY <1>7 DEF HandlingDynamicPageAgain
  <2>2. x.cgi_pid = y.cgi_pid /\ x.state = y.state
    BY <1>0 DEF ConnRecord
  <2> QED BY <1>k, <2>1, <2>2
<1>8. CASE HandlingDynamicPageDone(c)
  <2>1. \E code, n, cl : Become(c, ReplyOf(y, code, n, cl))
    BY <1>8 DEF HandlingDynamicPageDone
  <2>2. OthersKept(proc, proc', c)
    BY <1>0, <1>8, OthersKeptProc DEF HandlingDynamicPageDone
  <2> QED BY <1>0, <1>r, <2>1, <2>2
<1>9. CASE WritingToSocketDone(c)
  <2>1. Become(c, Cleared(y)) /\ proc' = proc
    BY <1>9 DEF WritingToSocketDone
  <2>2. Cleared(y).cgi_pid = NoPid
    BY DEF Cleared, NewConnection
  <2> QED BY <1>0, <2>1, <2>2 DEF KillsOwn
<1> QED
  BY <1>1, <1>2, <1>3, <1>4, <1>5, <1>6, <1>7, <1>8, <1>9 DEF WorkContinues
-----------------------------------------------------------------------------
(* kevent() reports a process when it has ended. *)
LEMMA EventListProc ==
  ASSUME NEW B \in EventLists, NEW e \in B, e.filter = "proc"
  PROVE  \E p \in Pid : proc[p].st = "zombie" /\ e = ProcEvent(p)
<1>1. B \in SUBSET (Ready \cup MayBeReady)
  BY Zenon DEF EventLists, kSubset
<1>2. e \in Ready \cup MayBeReady
  BY <1>1
<1>3. e \notin MayBeReady
  BY DEF MayBeReady, ListenEvent, FdEvent
<1> QED BY <1>2, <1>3 DEF Ready, ExitNoted, FdEvent

LEMMA KillInvInit == Init => KillInv
<1> SUFFICES ASSUME Init PROVE KillInv
  OBVIOUS
<1>1. \A c \in Conn : conn[c].cgi_pid = NoPid
  BY DEF Init, WorldInit, NewConnection
<1> QED BY <1>1, BatchInvInit DEF Init, KillInv, KillTarget, ProcEvents

LEMMA KillInvNext == KillInv /\ [Next]_vars => KillInv'
<1> SUFFICES ASSUME KillInv, [Next]_vars PROVE KillInv'
  OBVIOUS
<1>b. BatchInv'
  BY BatchInvNext DEF KillInv
<1>a. /\ WorldTypeOK /\ KillTarget /\ ProcEvents
      /\ (phase = "work" => batch = {})
      /\ connections \subseteq Conn /\ batch \subseteq Event
      /\ conn \in [Conn -> ConnRecord] /\ proc \in [Pid -> ProcRecord]
      /\ \A c \in Conn : OthersKept(proc, proc, c)
  BY OthersKeptProc DEF KillInv, BatchInv, TypeInv, TypeOK, WorldTypeOK
<1>s. ASSUME KillTarget', ProcEvents' PROVE KillInv'
  BY <1>b, <1>s DEF KillInv
<1>p. ASSUME batch' \subseteq batch, proc' = proc PROVE ProcEvents'
  BY <1>a, <1>p DEF ProcEvents
(* Steps that leave connections and processes alone. *)
<1>u. ASSUME UNCHANGED <<conn, proc, connections>>, batch' \subseteq batch
      PROVE  KillInv'
  <2>1. KillTarget'
    BY <1>a, <1>u DEF KillTarget
  <2> QED BY <1>p, <1>s, <1>u, <2>1
(* Steps on a field of one connection other than the state and cgi_pid_. *)
<1>f. ASSUME NEW c \in Conn, NEW x, Become(c, x), x.cgi_pid = conn[c].cgi_pid,
             x.state = conn[c].state,
             UNCHANGED <<proc, connections>>, batch' \subseteq batch
      PROVE  KillInv'
  <2>1. KillsOwn(x, proc', c) /\ (x.cgi_pid # NoPid => c \in connections')
    BY <1>a, <1>f, KillTargetIs DEF KillsOwn
  <2>2. KillTarget'
    BY <1>a, <1>f, <2>1, KillTargetStep
  <2> QED BY <1>p, <1>s, <1>f, <2>2
(* An erasure with nothing left to dispatch. *)
<1>c. ASSUME NEW c \in Conn, NEW pr \in [Pid -> ProcRecord],
             CloseConnection(c, pr), OthersKept(proc, pr, c),
             connections' = connections \ {c}, batch' = {}
      PROVE  KillInv'
  <2>1. KillTarget'
    BY <1>a, <1>c, KillTargetClose
  <2> QED BY <1>s, <1>c, <2>1 DEF ProcEvents
<1>1. CASE Poll
  <2>1. PICK B \in EventLists :
          /\ batch' = B
          /\ proc' = [p \in Pid |-> IF \E e \in B : e.filter = "proc" /\ e.ident = p
                                      THEN [proc[p] EXCEPT !.armed = FALSE]
                                      ELSE proc[p]]
    BY <1>1 DEF Poll
  <2>2. \A p \in Pid : /\ proc'[p].st = proc[p].st
                       /\ proc'[p].owner = proc[p].owner
                       /\ proc'[p].plumbed = proc[p].plumbed
    BY <1>a, <2>1 DEF ProcRecord
  <2>3. UNCHANGED <<conn, connections>>
    BY <1>1 DEF Poll
  <2>4. \A c \in Conn : conn[c].cgi_pid \in Pid \cup {NoPid}
    BY <1>a, FieldTypes
  <2>5. KillTarget'
    BY <1>a, <2>2, <2>3, <2>4 DEF KillTarget
  <2>6. ProcEvents'
    BY <2>1, <2>2, EventListProc DEF ProcEvents, ProcEvent
  <2> QED BY <1>s, <2>5, <2>6
<1>2. ASSUME NEW e \in batch, AcceptClient(e) PROVE KillInv'
  <2>0. batch' \subseteq batch
    BY <1>2 DEF AcceptClient, Continue
  <2>1. CASE UNCHANGED <<worldVars, connections, work_queue>>
    BY <1>u, <2>0, <2>1 DEF worldVars
  <2>2. ASSUME NEW c \in Conn \ connections, OpenConnection(c),
               connections' = connections \cup {c}
        PROVE  KillInv'
    <3>1. Become(c, NewConnection) /\ proc' = proc
      BY <2>2 DEF OpenConnection
    <3>2. NewConnection.cgi_pid = NoPid
      BY DEF NewConnection
    <3>3. KillTarget'
      BY <1>a, <2>2, <3>1, <3>2, KillTargetStep DEF KillsOwn
    <3> QED BY <1>p, <1>s, <2>0, <3>1, <3>3
  <2> QED BY <1>2, <2>1, <2>2 DEF AcceptClient
<1>3. ASSUME NEW e \in batch, DispatchRead(e) PROVE KillInv'
  <2>1. CASE IsLive(e) /\ ReadHandler(e.ident, e.filter) /\ Continue(e)
             /\ UNCHANGED <<connections, work_queue>>
    <3>1. UNCHANGED <<proc, connections>> /\ batch' \subseteq batch /\ e.ident \in Conn
      BY <1>a, <2>1 DEF ReadHandler, Continue, IsLive
    <3> QED BY <1>a, <1>f, <2>1, <3>1, HandlerKeepsPid
  <2>2. CASE IsLive(e) /\ CloseConnection(e.ident, proc) /\ Erase(e.ident) /\ Break
    BY <1>a, <1>c, <2>2 DEF IsLive, Erase, Break
  <2>3. CASE Crash
    BY <1>u, <2>3 DEF Crash, worldVars
  <2> QED BY <1>3, <2>1, <2>2, <2>3 DEF DispatchRead
<1>4. ASSUME NEW e \in batch, DispatchWrite(e) PROVE KillInv'
  <2>1. CASE IsLive(e) /\ WriteHandler(e.ident, e.filter) /\ Continue(e)
             /\ UNCHANGED <<connections, work_queue>>
    <3>1. UNCHANGED <<proc, connections>> /\ batch' \subseteq batch /\ e.ident \in Conn
      BY <1>a, <2>1 DEF WriteHandler, Continue, IsLive
    <3> QED BY <1>a, <1>f, <2>1, <3>1, HandlerKeepsPid
  <2>2. CASE IsLive(e) /\ CloseConnection(e.ident, proc) /\ Erase(e.ident) /\ Break
    BY <1>a, <1>c, <2>2 DEF IsLive, Erase, Break
  <2>3. CASE Crash
    BY <1>u, <2>3 DEF Crash, worldVars
  <2> QED BY <1>4, <2>1, <2>2, <2>3 DEF DispatchWrite
<1>5. ASSUME NEW e \in batch, DispatchProc(e) PROVE KillInv'
  <2> DEFINE p == e.ident
             o == e.udata
  <2>1. /\ e.filter = "proc" /\ p \in Pid
        /\ connections' = connections
        /\ proc' = [proc EXCEPT ![p] = NoProc]
        /\ batch' \subseteq batch \ {e}
    BY <1>5, <1>a, EventIdent DEF DispatchProc, Dispatches, Continue, Break
  <2>2. proc[p].st = "zombie" /\ proc[p].owner = o
    BY <1>a, <2>1 DEF ProcEvents
(* No other event is for p. *)
  <2>3. ASSUME NEW f \in batch', f.filter = "proc" PROVE f.ident # p
    <3>1. SUFFICES ASSUME f.ident = p PROVE FALSE
      OBVIOUS
    <3>2. f.udata = o /\ f \in batch /\ f # e
      BY <1>a, <2>1, <2>2, <2>3, <3>1 DEF ProcEvents
    <3>3. f = e
      BY <1>a, <2>1, <2>3, <3>1, <3>2 DEF Event, ListenEvent, Role
    <3> QED BY <3>2, <3>3
  <2>4. ProcEvents'
    <3>1. ASSUME NEW f \in batch', f.filter = "proc"
          PROVE  proc'[f.ident].st = "zombie" /\ f.udata = proc'[f.ident].owner
      <4>1. f \in batch /\ f.ident # p
        BY <2>1, <2>3, <3>1
      <4> QED BY <1>a, <2>1, <3>1, <4>1 DEF ProcEvents
    <3> QED BY <3>1 DEF ProcEvents
(* Only the owner of p can have its id, and clearCgiPid takes it away. *)
  <2>5. \A d \in Conn : conn[d].cgi_pid = p => d = o
    BY <1>a, <2>1, <2>2, KillTargetIs, ConnectionAssumption DEF KillsOwn
  <2>6. \A d \in Conn : \/ conn'[d] = conn[d] /\ conn[d].cgi_pid # p
                        \/ conn'[d].cgi_pid = NoPid
    <3>1. CASE o \in connections
      <4>1. PICK k : Become(o, [conn[o] EXCEPT !.cgi_pid = NoPid, !.code = k])
        BY <1>5, <3>1, ProcEither, Zenon
      <4>2. o \in Conn /\ conn[o] \in ConnRecord
        BY <1>a, <3>1
      <4>3. [conn[o] EXCEPT !.cgi_pid = NoPid, !.code = k].cgi_pid = NoPid
        BY <4>2 DEF ConnRecord
      <4> QED BY <1>a, <2>5, <4>1, <4>2, <4>3 DEF Become
    <3>2. CASE o \notin connections
      <4>1. conn' = conn
        BY <1>5, <3>2, ProcEither, Zenon
      <4>2. \A d \in Conn : conn[d].cgi_pid # p
        BY <1>a, <2>1, <2>5, <3>2, KillTargetIs, ConnectionAssumption
      <4> QED BY <4>1, <4>2
    <3> QED BY <3>1, <3>2
  <2>7. KillTarget'
    <3> SUFFICES ASSUME NEW d \in Conn, conn'[d].cgi_pid # NoPid
                 PROVE  d \in connections' /\ KillsOwn(conn'[d], proc', d)
      BY DEF KillTarget, KillsOwn
    <3>1. conn'[d] = conn[d] /\ conn[d].cgi_pid # p
      BY <2>6
    <3>2. d \in connections /\ KillsOwn(conn[d], proc, d)
      BY <1>a, <3>1, KillTargetIs
    <3>3. conn[d].cgi_pid \in Pid
      BY <1>a, <3>1, FieldTypes
    <3>4. proc'[conn[d].cgi_pid] = proc[conn[d].cgi_pid]
      BY <1>a, <2>1, <3>1, <3>3
    <3> QED BY <2>1, <3>1, <3>2, <3>4 DEF KillsOwn
  <2> QED BY <1>s, <2>4, <2>7
<1>6. ASSUME NEW e \in batch, DispatchProcCrashes(e) PROVE KillInv'
  BY <1>6, <1>u DEF DispatchProcCrashes, Crash, worldVars
<1>7. CASE StartWork
  BY <1>7, <1>u DEF StartWork, worldVars
<1>8. ASSUME NEW c \in connections, WorkKeeps(c) PROVE KillInv'
  <2>1. WorkContinues(c) /\ batch' = {} /\ connections' = connections /\ c \in Conn
    BY <1>8, <1>a DEF WorkKeeps, Works
  <2>2. PICK x : Become(c, x) /\ KillsOwn(x, proc', c) /\ OthersKept(proc, proc', c)
    BY <1>a, <2>1, WorkContinuesKill
  <2>3. KillTarget'
    BY <1>a, <2>1, <2>2, KillTargetStep
  <2> QED BY <1>s, <2>1, <2>3 DEF ProcEvents
<1>9. ASSUME NEW c \in connections, WorkErases(c) PROVE KillInv'
  <2>1. WorkCloses(c) /\ c \in Conn /\ connections' = connections \ {c} /\ batch' = {}
    BY <1>9, <1>a DEF WorkErases, Works
  <2>2. PICK pr \in [Pid -> ProcRecord] :
          /\ CloseConnection(c, pr)
          /\ \/ pr = proc
             \/ pr = Kill(proc, conn[c].cgi_pid)
             \/ \E p \in {q \in Pid : proc[q].st = "free"}, early \in BOOLEAN :
                  pr = Forked(c, p, early)
    BY <1>a, <2>1, WorkClosesProc
  <2>3. OthersKept(proc, pr, c)
    BY <1>a, <2>1, <2>2, OthersKeptProc, OthersKeptForked
  <2> QED BY <1>c, <2>1, <2>2, <2>3
<1>10. CASE Environment
  <2>1. batch' = batch /\ connections' = connections
    BY <1>10 DEF Environment, serverVars
  <2>2. ASSUME NEW c \in connections,
               ClientSends(c) \/ ClientShutsDown(c) \/ ClientResets(c)
        PROVE  KillInv'
    BY <1>u, <2>1, <2>2 DEF ClientSends, ClientShutsDown, ClientResets
  <2>3. ASSUME NEW c \in connections, Expires(c) PROVE KillInv'
    <3>1. c \in Conn /\ conn[c] \in ConnRecord /\ proc' = proc
      BY <1>a, <2>3 DEF Expires
    <3>2. Become(c, [conn[c] EXCEPT !.expired = TRUE])
      BY <2>3 DEF Expires
    <3>3. /\ [conn[c] EXCEPT !.expired = TRUE].cgi_pid = conn[c].cgi_pid
          /\ [conn[c] EXCEPT !.expired = TRUE].state = conn[c].state
      BY <3>1 DEF ConnRecord
    <3> QED BY <1>f, <2>1, <3>1, <3>2, <3>3
  <2>4. ASSUME NEW p \in Pid, CgiWrites(p) \/ CgiClosesEnd(p) PROVE KillInv'
    BY <1>u, <2>1, <2>4 DEF CgiWrites, CgiClosesEnd
  <2>5. ASSUME NEW p \in Pid, CgiExits(p) PROVE KillInv'
    <3>1. PICK ok : proc' = [proc EXCEPT ![p].st = "zombie", ![p].ok = ok]
      BY <2>5, Zenon DEF CgiExits
    <3>2. /\ proc'[p].st = "zombie"
          /\ \A q \in Pid : /\ proc'[q].plumbed = proc[q].plumbed
                            /\ proc'[q].owner = proc[q].owner
                            /\ q # p => proc'[q].st = proc[q].st
      BY <1>a, <3>1 DEF ProcRecord
    <3>3. conn' = conn
      BY <2>5 DEF CgiExits
    <3>4. \A c \in Conn : conn[c].cgi_pid \in Pid \cup {NoPid}
      BY <1>a, FieldTypes
    <3>5. KillTarget'
      BY <1>a, <2>1, <3>2, <3>3, <3>4 DEF KillTarget
    <3>6. ProcEvents'
      <4>1. \A e \in batch : e.filter = "proc" => e.ident \in Pid
        BY <1>a, EventIdent
      <4> QED BY <1>a, <2>1, <3>2, <4>1 DEF ProcEvents
    <3> QED BY <1>s, <3>5, <3>6
  <2> QED BY <1>10, <2>2, <2>3, <2>4, <2>5 DEF Environment
<1>11. CASE UNCHANGED vars
  BY <1>11, <1>u DEF vars, serverVars, worldVars
<1> QED
  BY <1>1, <1>2, <1>3, <1>4, <1>5, <1>6, <1>7, <1>8, <1>9, <1>10, <1>11
  DEF Next, ServerStep, Dispatch, Work, Dead

(* kill(cgi_pid_, SIGKILL), sent by an overdue connection, only ever       *)
(* reaches a process that this connection forked and that nobody has       *)
(* waited for (Connection::work).                                          *)
THEOREM KillCorrect == Spec => []KillTarget
<1>1. KillInv => KillTarget
  BY DEF KillInv
<1> QED BY <1>1, KillInvInit, KillInvNext, PTL DEF Spec

(* waitpid(), called with no flags on the event loop's only thread, is     *)
(* called only for a process that has already ended (Server::run).         *)
THEOREM WaitpidCorrect == Spec => []WaitpidNeverBlocks
<1>1. KillInv => WaitpidNeverBlocks
  BY DEF KillInv, ProcEvents, WaitpidNeverBlocks
<1> QED BY <1>1, KillInvInit, KillInvNext, PTL DEF Spec
-----------------------------------------------------------------------------

(* What PipesClosedInTime says of the knotes and the record of one         *)
(* connection.                                                             *)
PipesInUse(kn, x) ==
  /\ IsOpen(kn, "pipeW") =>
       \/ x.state = "kWritingToPipe"
       \/ x.state = "kWritingToSocket" /\ x.expired
  /\ IsOpen(kn, "pipeR") =>
       \/ x.state \in {"kWritingToPipe", "kReadingFromPipe"}
       \/ x.state = "kWritingToSocket" /\ x.expired

PipesInv == TypeInv /\ \A c \in connections : PipesInUse(knote[c], conn[c])

(* A step that concerns one connection.                                    *)
Others(c) == \A d \in Conn \ {c} : knote'[d] = knote[d] /\ conn'[d] = conn[d]

(* Only EV_ADD opens a filter.                                             *)
LEMMA SetEventOpens ==
  ASSUME NEW kn \in [Role -> Knote], NEW r \in Role, NEW flag, NEW u
  PROVE  /\ \A s \in Role \ {r} : IsOpen(SetEvent(kn, r, flag, u), s) <=> IsOpen(kn, s)
         /\ flag \in {"EV_ENABLE", "EV_DISABLE"} =>
              (IsOpen(SetEvent(kn, r, flag, u), r) <=> IsOpen(kn, r))
  BY DEF SetEvent, IsOpen

LEMMA CloseFdCloses ==
  ASSUME NEW kn \in [Role -> Knote], NEW r \in Role
  PROVE  /\ ~IsOpen(CloseFd(kn, r), r)
         /\ \A s \in Role \ {r} : IsOpen(CloseFd(kn, r), s) <=> IsOpen(kn, s)
  BY DEF CloseFd, IsOpen, NoKnote

LEMMA DisarmOpens ==
  ASSUME NEW kn \in [Role -> Knote], NEW r \in Role, NEW c \in Conn, NEW s \in Role
  PROVE  IsOpen(Disarm(kn, r, c), s) <=> IsOpen(kn, s)
<1> DEFINE k == SetEvent(kn, r, "EV_DISABLE", c)
<1>1. k \in [Role -> Knote] /\ (IsOpen(k, s) <=> IsOpen(kn, s))
  BY SetEventType, SetEventOpens
<1> HIDE DEF k
<1>2. IsOpen(SetEvent(k, r, "EV_DISABLE", Null), s) <=> IsOpen(k, s)
  BY <1>1, SetEventOpens
<1> QED BY <1>1, <1>2 DEF Disarm, k

(* A call of work() that keeps the connection opens pipes only when it     *)
(* starts a CGI process, and has closed them before it sends a reply in    *)
(* time.                                                                   *)
LEMMA WorkContinuesPipes ==
  ASSUME WorldTypeOK, NEW c \in Conn, PipesInUse(knote[c], conn[c]), WorkContinues(c)
  PROVE  PipesInUse(knote'[c], conn'[c]) /\ Others(c)
<1> DEFINE y == conn[c]
           kn == knote[c]
<1>0. /\ conn \in [Conn -> ConnRecord] /\ knote \in [Conn -> [Role -> Knote]]
      /\ y \in ConnRecord /\ kn \in [Role -> Knote]
      /\ Role = {"sockR", "sockW", "pipeR", "pipeW"}
  BY DEF WorldTypeOK, Role
<1>s. ASSUME NEW x, Become(c, x), NEW k, SetKnotes(c, k), PipesInUse(k, x)
      PROVE  PipesInUse(knote'[c], conn'[c]) /\ Others(c)
  BY <1>0, <1>s DEF Become, SetKnotes, Others
(* The filters that are only enabled. *)
<1>e. ASSUME NEW r \in Role
      PROVE  \A s \in Role : IsOpen(SetEvent(kn, r, "EV_ENABLE", c), s) <=> IsOpen(kn, s)
  BY <1>0, SetEventOpens
<1>p. ASSUME Runs(c, "kReadingFromSocket")
      PROVE  ~IsOpen(kn, "pipeR") /\ ~IsOpen(kn, "pipeW")
  BY <1>p DEF PipesInUse, Runs
<1>x. ASSUME NEW x \in Parsed(y)
      PROVE  x.state = y.state /\ x.expired = y.expired /\ "state" \in DOMAIN x
  BY <1>0, <1>x, ZenonT(30) DEF Parsed, ConnRecord
<1>1. CASE OverloadReply(c)
  <2>1. PICK n \in 1..MaxWrite, cl \in MayKeepAlive(500) :
          Become(c, ReplyOf(y, 500, n, cl))
    BY <1>1 DEF OverloadReply, Reply
  <2>2. /\ SetKnotes(c, SetEvent(kn, "sockW", "EV_ENABLE", c))
        /\ y.expired
    BY <1>1 DEF OverloadReply, Reply, SystemOverload
  <2>3. /\ ReplyOf(y, 500, n, cl).state = "kWritingToSocket"
        /\ ReplyOf(y, 500, n, cl).expired
    BY <1>0, <2>2 DEF ReplyOf, ConnRecord
  <2>4. PipesInUse(SetEvent(kn, "sockW", "EV_ENABLE", c), ReplyOf(y, 500, n, cl))
    BY <2>3 DEF PipesInUse
  <2> QED BY <1>s, <2>1, <2>2, <2>4, Zenon
<1>2. CASE HandlingStaticPage(c)
  <2>1. PICK x \in Parsed(y), code \in RequestCode(y) : Reply(c, x, code)
    BY <1>2 DEF HandlingStaticPage
  <2>2. PICK n \in 1..MaxWrite, cl \in MayKeepAlive(code) :
          Become(c, ReplyOf(x, code, n, cl))
    BY <2>1 DEF Reply
  <2> DEFINE k == SetEvent(kn, "sockW", "EV_ENABLE", c)
  <2>3. SetKnotes(c, k)
    BY <2>1 DEF Reply
  <2>4. PipesInUse(k, ReplyOf(x, code, n, cl))
    BY <1>0, <1>2, <1>e, <1>p DEF HandlingStaticPage, PipesInUse
  <2> QED BY <1>s, <2>2, <2>3, <2>4, Zenon
<1>3. CASE ParsingRequestMessageAgain(c)
  <2> DEFINE k == SetEvent(kn, "sockR", "EV_ENABLE", c)
             x == [y EXCEPT !.request = IF Corrupts(y) THEN 0 ELSE Appended(y),
                            !.corrupt = Corrupts(y), !.stale = y.read # 0]
  <2>1. Become(c, x) /\ SetKnotes(c, k) /\ Runs(c, "kReadingFromSocket")
    BY <1>3 DEF ParsingRequestMessageAgain
  <2>2. PipesInUse(k, x)
    BY <1>0, <1>e, <1>p, <2>1 DEF PipesInUse
  <2> QED BY <1>s, <2>1, <2>2, Zenon
<1>4. CASE ExecuteCgiProcess(c)
  <2> DEFINE piped == SetEvent(kn, "pipeR", "EV_ADD_DISABLE", c)
  <2>1. PICK x \in Parsed(y), code \in {200, 204}, early \in BOOLEAN, p \in Pid :
          StartCgi(c, x, code, p, early)
    BY <1>4 DEF ExecuteCgiProcess
  <2>2. piped \in [Role -> Knote] /\ ~IsOpen(piped, "pipeW")
    BY <1>0, <1>4, <1>p, SetEventType, SetEventOpens DEF ExecuteCgiProcess
  <2> HIDE DEF piped
  <2>3. ASSUME NEW n,
               Become(c, [x EXCEPT !.code = code, !.cgi_pid = p, !.to_write = n,
                                   !.state = "kWritingToPipe"]),
               SetKnotes(c, SetEvent(piped, "pipeW", "EV_ADD", c))
        PROVE  PipesInUse(knote'[c], conn'[c]) /\ Others(c)
    <3> DEFINE w == [x EXCEPT !.code = code, !.cgi_pid = p, !.to_write = n,
                              !.state = "kWritingToPipe"]
    <3>0. w.state = "kWritingToPipe"
      BY <1>x
    <3>1. PICK z : Become(c, z) /\ z.state = "kWritingToPipe"
      BY <2>3, <3>0, Zenon
    <3>2. PICK k : SetKnotes(c, k)
      BY <2>3
    <3>3. PipesInUse(k, z)
      BY <3>1 DEF PipesInUse
    <3> QED BY <1>s, <3>1, <3>2, <3>3
  <2>4. CASE /\ Become(c, [x EXCEPT !.code = code, !.cgi_pid = p,
                                    !.state = "kReadingFromPipe"])
             /\ SetKnotes(c, SetEvent(piped, "pipeR", "EV_ENABLE", Null))
    <3> DEFINE w == [x EXCEPT !.code = code, !.cgi_pid = p,
                              !.state = "kReadingFromPipe"]
    <3>0. w.state = "kReadingFromPipe"
      BY <1>x
    <3>1. PICK z : Become(c, z) /\ z.state = "kReadingFromPipe"
      BY <2>4, <3>0, Zenon
    <3>2. ~IsOpen(SetEvent(piped, "pipeR", "EV_ENABLE", Null), "pipeW")
      BY <1>0, <2>2, SetEventOpens
    <3>3. PICK k : SetKnotes(c, k) /\ ~IsOpen(k, "pipeW")
      BY <2>4, <3>2
    <3>4. PipesInUse(k, z)
      BY <3>1, <3>3 DEF PipesInUse
    <3> QED BY <1>s, <3>1, <3>3, <3>4
  <2> QED BY <2>1, <2>3, <2>4, Zenon DEF StartCgi, piped
<1>5. CASE WritingToPipeAgain(c) \/ WritingToSocketAgain(c)
  <2>1. PICK r \in Role : SetKnotes(c, SetEvent(kn, r, "EV_ENABLE", c)) /\ UNCHANGED conn
    BY <1>0, <1>5 DEF WritingToPipeAgain, WritingToSocketAgain
  <2>2. PipesInUse(SetEvent(kn, r, "EV_ENABLE", c), y)
    BY <1>0, <1>e DEF PipesInUse
  <2>3. Become(c, y)
    BY <1>0, <2>1 DEF Become
  <2> QED BY <1>s, <2>1, <2>2, <2>3, Zenon
<1>6. CASE WritingToPipeDone(c)
  <2> DEFINE k == CloseFd(kn, "pipeW")
             x == [y EXCEPT !.state = "kReadingFromPipe"]
  <2>1. Become(c, x) /\ SetKnotes(c, k)
    BY <1>6 DEF WritingToPipeDone
  <2>2. x.state = "kReadingFromPipe" /\ ~IsOpen(k, "pipeW")
    BY <1>0, CloseFdCloses DEF ConnRecord
  <2>3. PipesInUse(k, x)
    BY <2>2 DEF PipesInUse
  <2> QED BY <1>s, <2>1, <2>3, Zenon
<1>7. CASE HandlingDynamicPageAgain(c)
  <2> DEFINE k == SetEvent(kn, "pipeR", "EV_ENABLE", c)
             x == [y EXCEPT
                    !.cgi_output = IF y.from = "cgi" THEN @ + y.read ELSE @,
                    !.foreign = @ \/ (y.from = "client" /\ y.read # 0),
                    !.read = 0, !.from = "client", !.stale = FALSE]
  <2>1. Become(c, x) /\ SetKnotes(c, k) /\ y.state = "kReadingFromPipe"
    BY <1>7 DEF HandlingDynamicPageAgain, Runs
  <2>2. x.state = y.state
    BY <1>0 DEF ConnRecord
  <2>3. PipesInUse(k, x)
    BY <1>0, <1>e, <2>1, <2>2 DEF PipesInUse
  <2> QED BY <1>s, <2>1, <2>3, Zenon
<1>8. CASE HandlingDynamicPageDone(c)
  <2> DEFINE closed == CloseFd(kn, "pipeR")
             k == SetEvent(closed, "sockW", "EV_ENABLE", c)
  <2>1. PICK code \in CgiCode(y) : \E n \in 1..MaxWrite, cl \in MayKeepAlive(code) :
          Become(c, ReplyOf(y, code, n, cl))
    BY <1>8 DEF HandlingDynamicPageDone
  <2>r. PICK n \in 1..MaxWrite, cl \in MayKeepAlive(code) :
          Become(c, ReplyOf(y, code, n, cl))
    BY <2>1
  <2>2. SetKnotes(c, k) /\ y.state = "kReadingFromPipe"
    BY <1>8 DEF HandlingDynamicPageDone, Runs
  <2>3. closed \in [Role -> Knote] /\ ~IsOpen(closed, "pipeR") /\ ~IsOpen(closed, "pipeW")
    BY <1>0, <2>2, CloseFdType, CloseFdCloses DEF PipesInUse
  <2> HIDE DEF closed
  <2>4. ~IsOpen(k, "pipeR") /\ ~IsOpen(k, "pipeW")
    BY <1>0, <2>3, SetEventOpens
  <2>5. PipesInUse(k, ReplyOf(y, code, n, cl))
    BY <2>4 DEF PipesInUse
  <2> QED BY <1>s, <2>r, <2>2, <2>5, Zenon
<1>9. CASE WritingToSocketDone(c)
  <2> DEFINE k == SetEvent(kn, "sockR", "EV_ENABLE", c)
  <2>1. Become(c, Cleared(y)) /\ SetKnotes(c, k) /\ Runs(c, "kWritingToSocket")
    BY <1>9 DEF WritingToSocketDone
  <2>2. ~IsOpen(kn, "pipeR") /\ ~IsOpen(kn, "pipeW")
    BY <2>1 DEF PipesInUse, Runs
  <2>3. PipesInUse(k, Cleared(y))
    BY <1>0, <1>e, <2>2 DEF PipesInUse
  <2> QED BY <1>s, <2>1, <2>3, Zenon
<1> QED BY <1>1, <1>2, <1>3, <1>4, <1>5, <1>6, <1>7, <1>8, <1>9 DEF WorkContinues

(* A handler leaves the state, the clock and the open filters alone.       *)
LEMMA HandlerPipes ==
  ASSUME WorldTypeOK, NEW c \in Conn, NEW r \in Role, PipesInUse(knote[c], conn[c]),
         ReadHandler(c, r) \/ WriteHandler(c, r)
  PROVE  PipesInUse(knote'[c], conn'[c]) /\ Others(c)
<1>0. /\ conn \in [Conn -> ConnRecord] /\ knote \in [Conn -> [Role -> Knote]]
      /\ Role = {"sockR", "sockW", "pipeR", "pipeW"}
  BY DEF WorldTypeOK, Role
<1>1. SetKnotes(c, Disarm(knote[c], r, c))
  BY DEF ReadHandler, WriteHandler
<1>2. \A s \in Role : IsOpen(knote'[c], s) <=> IsOpen(knote[c], s)
  BY <1>0, <1>1, DisarmOpens DEF SetKnotes
<1>3. ASSUME NEW n, NEW from, Receive(c, n, from)
      PROVE  /\ conn'[c].state = conn[c].state /\ conn'[c].expired = conn[c].expired
             /\ \A d \in Conn \ {c} : conn'[d] = conn[d]
  BY <1>0, <1>3 DEF Receive, Become, ConnRecord
<1>4. /\ conn'[c].state = conn[c].state /\ conn'[c].expired = conn[c].expired
      /\ \A d \in Conn \ {c} : conn'[d] = conn[d]
  <2>1. CASE ReadHandler(c, r)
    <3>1. \E n : Receive(c, n, "client") \/ Receive(c, n, "cgi")
      BY <2>1, Zenon DEF ReadHandler
    <3> QED BY <1>3, <3>1
  <2>2. CASE WriteHandler(c, r)
    <3>1. \E left, m : Become(c, [conn[c] EXCEPT !.to_write = left, !.misdirected = m])
      BY <2>2, Zenon DEF WriteHandler
    <3> QED BY <1>0, <3>1 DEF Become, ConnRecord
  <2> QED BY <2>1, <2>2
<1>5. PipesInUse(knote'[c], conn'[c])
  BY <1>0, <1>2, <1>4 DEF PipesInUse
<1> QED BY <1>0, <1>1, <1>4, <1>5 DEF Others, SetKnotes

(* The closing of a connection, with its pipes.                            *)
LEMMA ClosePipes ==
  ASSUME PipesInv, TypeInv', NEW c \in connections, NEW pr, CloseConnection(c, pr),
         connections' = connections \ {c}
  PROVE  PipesInv'
<1>1. \A d \in connections' : d \in Conn \ {c} /\ d \in connections
  BY DEF PipesInv, TypeInv, TypeOK
<1>2. \A d \in Conn \ {c} : knote'[d] = knote[d] /\ conn'[d] = conn[d]
  BY DEF CloseConnection, SetKnotes, Become, PipesInv, TypeInv, TypeOK, WorldTypeOK
<1> QED BY <1>1, <1>2 DEF PipesInv

LEMMA PipesInvNext == PipesInv /\ [Next]_vars => PipesInv'
<1> SUFFICES ASSUME PipesInv, [Next]_vars PROVE PipesInv'
  OBVIOUS
<1>t. TypeInv'
  BY TypeInvNext DEF PipesInv
<1>a. /\ WorldTypeOK /\ connections \subseteq Conn
      /\ conn \in [Conn -> ConnRecord] /\ knote \in [Conn -> [Role -> Knote]]
      /\ \A c \in connections : PipesInUse(knote[c], conn[c])
  BY DEF PipesInv, TypeInv, TypeOK, WorldTypeOK
(* Steps that leave descriptors, states and clocks alone. *)
<1>u. ASSUME UNCHANGED <<knote, connections>>,
             \A c \in Conn : conn'[c].state = conn[c].state
                            /\ (conn[c].expired => conn'[c].expired)
      PROVE  PipesInv'
  BY <1>a, <1>t, <1>u DEF PipesInv, PipesInUse
(* Steps of one connection. *)
<1>o. ASSUME NEW c \in connections, PipesInUse(knote'[c], conn'[c]), Others(c),
             UNCHANGED connections
      PROVE  PipesInv'
  BY <1>a, <1>t, <1>o DEF PipesInv, Others
<1>c. ASSUME NEW c \in connections, NEW pr, CloseConnection(c, pr),
             connections' = connections \ {c}
      PROVE  PipesInv'
  BY <1>t, <1>c, ClosePipes
<1>1. CASE Poll \/ StartWork \/ UNCHANGED vars
  BY <1>1, <1>u DEF Poll, StartWork, vars, serverVars, worldVars
<1>2. ASSUME NEW e \in batch, AcceptClient(e) PROVE PipesInv'
  <2>1. CASE UNCHANGED <<worldVars, connections, work_queue>>
    BY <1>u, <2>1 DEF worldVars
  <2>2. ASSUME NEW c \in Conn \ connections, OpenConnection(c),
               connections' = connections \cup {c}
        PROVE  PipesInv'
    <3> DEFINE k == SetEvent(SetEvent(NoKnotes, "sockR", "EV_ADD", c),
                             "sockW", "EV_ADD_DISABLE", c)
    <3>1. conn' = [conn EXCEPT ![c] = NewConnection] /\ knote' = [knote EXCEPT ![c] = k]
      BY <2>2 DEF OpenConnection, SetKnotes, Become
    <3>2. ~IsOpen(k, "pipeR") /\ ~IsOpen(k, "pipeW")
      BY DEF SetEvent, NoKnotes, NoKnote, IsOpen, Role
    <3> HIDE DEF k
    <3>3. PipesInUse(knote'[c], conn'[c])
      BY <1>a, <3>1, <3>2 DEF PipesInUse
    <3>4. Others(c)
      BY <1>a, <3>1 DEF Others
    <3> QED BY <1>a, <1>t, <2>2, <3>3, <3>4 DEF PipesInv, Others
  <2> QED BY <1>2, <2>1, <2>2 DEF AcceptClient
<1>3. ASSUME NEW e \in batch, DispatchRead(e) \/ DispatchWrite(e) PROVE PipesInv'
  <2>1. e.filter \in Role
    BY <1>3 DEF DispatchRead, DispatchWrite, Role
  <2>2. CASE /\ IsLive(e) /\ UNCHANGED connections
             /\ ReadHandler(e.ident, e.filter) \/ WriteHandler(e.ident, e.filter)
    <3>1. e.ident \in connections /\ e.ident \in Conn
      BY <1>a, <2>2 DEF IsLive
    <3>2. PipesInUse(knote'[e.ident], conn'[e.ident]) /\ Others(e.ident)
      BY <1>a, <2>1, <2>2, <3>1, HandlerPipes
    <3> QED BY <1>o, <2>2, <3>1, <3>2
  <2>3. CASE IsLive(e) /\ CloseConnection(e.ident, proc) /\ Erase(e.ident)
    BY <1>c, <2>3 DEF IsLive, Erase
  <2>4. CASE Crash
    BY <1>u, <2>4 DEF Crash, worldVars
  <2> QED BY <1>3, <2>2, <2>3, <2>4 DEF DispatchRead, DispatchWrite
<1>4. ASSUME NEW e \in batch, DispatchProc(e) PROVE PipesInv'
  <2>1. CASE UNCHANGED conn
    BY <1>4, <1>u, <2>1 DEF DispatchProc
  <2>2. ASSUME NEW code, e.udata \in connections,
               Become(e.udata, [conn[e.udata] EXCEPT !.cgi_pid = NoPid, !.code = code])
        PROVE  PipesInv'
    <3>1. \A c \in Conn : /\ conn'[c].state = conn[c].state
                          /\ conn'[c].expired = conn[c].expired
      BY <1>a, <2>2 DEF Become, ConnRecord
    <3> QED BY <1>4, <1>u, <3>1 DEF DispatchProc
  <2> QED BY <1>4, <2>1, <2>2, ProcEither, Zenon
<1>5. ASSUME NEW e \in batch, DispatchProcCrashes(e) PROVE PipesInv'
  BY <1>5, <1>u DEF DispatchProcCrashes, Crash, worldVars
<1>6. ASSUME NEW c \in connections, WorkKeeps(c) PROVE PipesInv'
  <2>1. WorkContinues(c) /\ connections' = connections /\ c \in Conn
    BY <1>6, <1>a DEF WorkKeeps
  <2> QED BY <1>a, <1>o, <2>1, WorkContinuesPipes
<1>7. ASSUME NEW c \in connections, WorkErases(c) PROVE PipesInv'
  <2>1. \E pr : CloseConnection(c, pr)
    BY <1>7 DEF WorkErases, WorkCloses, TimeOutCloses, OverloadCloses,
       ParsingRequestMessageThrows, ExecuteCgiProcessFails,
       HandlingDynamicPageThrows, WritingToSocketCloses
  <2> QED BY <1>7, <1>c, <2>1 DEF WorkErases
<1>8. CASE Environment
  <2>1. CASE \E c \in connections : Expires(c)
    <3>1. PICK c \in connections : Become(c, [conn[c] EXCEPT !.expired = TRUE])
      BY <2>1 DEF Expires
    <3>2. \A d \in Conn : /\ conn'[d].state = conn[d].state
                          /\ conn[d].expired => conn'[d].expired
      BY <1>a, <3>1 DEF Become, ConnRecord
    <3> QED BY <1>8, <1>u, <2>1, <3>2 DEF Environment, Expires, serverVars
  <2>2. CASE UNCHANGED <<conn, knote>>
    BY <1>8, <1>u, <2>2 DEF Environment, serverVars
  <2> QED BY <1>8, <2>1, <2>2 DEF Environment, ClientSends, ClientShutsDown,
        ClientResets, CgiWrites, CgiClosesEnd, CgiExits
<1> QED
  BY <1>1, <1>2, <1>3, <1>4, <1>5, <1>6, <1>7, <1>8
  DEF Next, ServerStep, Dispatch, Work, Dead

(* No CGI pipe outlives the state that uses it, unless the request is      *)
(* overdue, for any number of connections (writingToPipe,                  *)
(* handlingDynamicPage, checkTimeOut).                                     *)
THEOREM PipesCorrect == Spec => []PipesClosedInTime
<1>1. Init => PipesInv
  BY TypeInvInit DEF Init, PipesInv
<1>2. PipesInv => PipesClosedInTime
  BY DEF PipesInv, PipesInUse, PipesClosedInTime
<1> QED BY <1>1, <1>2, PipesInvNext, PTL DEF Spec
=============================================================================
