----------------------------- MODULE RoundRobin -----------------------------
(***************************************************************************)
(* What the event loop promises its connections, without its queue: they   *)
(* come and go between rounds, a round gives each one that is live when it *)
(* starts exactly one call of work(), in some order, and a request makes   *)
(* progress in the turn of its own connection only.  Server implements it. *)
(***************************************************************************)
CONSTANTS
  Conn,
  Stage      \* how far the request of a connection has got

VARIABLES
  live,      \* the live connections
  pending,   \* those still to be served in the round under way
  progress,  \* progress[c]: the stage of the request of c
  running    \* the process has not crashed

rvars == <<live, pending, progress, running>>

Init ==
  /\ live = {} /\ pending = {} /\ running = TRUE
  /\ progress \in [Conn -> Stage]

Between == running /\ pending = {}

OnlyOf(c) ==
  /\ progress' \in [Conn -> Stage]
  /\ \A d \in Conn \ {c} : progress'[d] = progress[d]

Admit(c) ==
  /\ Between /\ c \notin live
  /\ live' = live \cup {c}
  /\ OnlyOf(c)
  /\ UNCHANGED <<pending, running>>

Drop(c) ==
  /\ Between /\ c \in live
  /\ live' = live \ {c}
  /\ OnlyOf(c)
  /\ UNCHANGED <<pending, running>>

StartRound ==
  /\ Between
  /\ pending' = live
  /\ UNCHANGED <<live, progress, running>>

(* A connection is served once, and may end by it.                         *)
Serve(c) ==
  /\ running /\ c \in pending
  /\ pending' = pending \ {c}
  /\ live' \in {live, live \ {c}}
  /\ OnlyOf(c)
  /\ UNCHANGED running

Fail == Between /\ running' = FALSE /\ UNCHANGED <<live, pending, progress>>

Next == StartRound \/ Fail \/ \E c \in Conn : Admit(c) \/ Drop(c) \/ Serve(c)

Spec == Init /\ [][Next]_rvars

(* Nobody starves: a live connection is served in a round to come, or is   *)
(* dropped before it.                                                      *)
NobodyStarves ==
  \A c \in Conn : /\ (c \in live) ~> (c \in pending \/ c \notin live \/ ~running)
                  /\ (c \in pending) ~> (c \notin pending \/ ~running)
=============================================================================
