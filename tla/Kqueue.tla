------------------------------- MODULE Kqueue -------------------------------
(***************************************************************************)
(* The kernel event queue as the server uses it, and Kqueue::setEvent      *)
(* (src/src/Kqueue.hpp).                                                   *)
(*                                                                         *)
(* A descriptor is named by the connection that owns it and the role it    *)
(* plays there, because the server never uses a descriptor after closing   *)
(* it and the kernel drops the knotes of a closed descriptor.  The knotes  *)
(* of one connection are a function from roles to knotes: whether the      *)
(* filter is registered and enabled, and the udata pointer that the kernel *)
(* hands back with the event.                                              *)
(***************************************************************************)
CONSTANT Null       \* the null pointer passed as udata

(* The four fd filters of a connection: its socket (read, write), the pipe *)
(* it reads the CGI output from, the pipe it writes the CGI input to.      *)
Role == {"sockR", "sockW", "pipeR", "pipeW"}

NoKnote == [st |-> "none", udata |-> Null]
NoKnotes == [r \in Role |-> NoKnote]

(* kevent() with one change.  EV_ENABLE and EV_DISABLE on an unregistered  *)
(* filter fail with ENOENT, which setEvent ignores; on a registered one    *)
(* they also overwrite the stored udata.                                   *)
SetEvent(kn, r, flag, udata) ==
  IF kn[r].st = "none" /\ flag \in {"EV_ENABLE", "EV_DISABLE"}
    THEN kn
    ELSE [kn EXCEPT ![r] =
            [st    |-> IF flag \in {"EV_ADD", "EV_ENABLE"} THEN "on" ELSE "off",
             udata |-> udata]]

(* close(): the kernel removes the knotes of the descriptor. *)
CloseFd(kn, r) == [kn EXCEPT ![r] = NoKnote]

IsOpen(kn, r) == kn[r].st # "none"
=============================================================================
