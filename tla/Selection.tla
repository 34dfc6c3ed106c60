------------------------------ MODULE Selection ------------------------------
(***************************************************************************)
(* The choice of the server block, first half of Connection::setConfigInfo *)
(* (src/src/Connection.cpp): by the address the client connected to, in    *)
(* the text getsockname's answer is turned into, and the host header.      *)
(***************************************************************************)
EXTENDS Integers, Sequences

Wildcard == "0.0.0.0"

First(S) == CHOOSE i \in S : \A j \in S : i <= j

(* A wildcard block matches whatever its port.                             *)
Matches(b, addr) == b.ip = Wildcard \/ (b.ip = addr.ip /\ b.port = addr.port)

(* The block for the first request of a connection, when selected_server_  *)
(* is NULL: what the loop of the function finds (Routing takes its turns). *)
SelectServer(blocks, addr, host) ==
  LET matching == {i \in 1..Len(blocks) : Matches(blocks[i], addr)}
      named    == {i \in matching : blocks[i].name = host}
  IN  CASE named # {}                       -> First(named)
        [] named = {} /\ matching # {}      -> First(matching)
        [] OTHER                            -> 1
=============================================================================
