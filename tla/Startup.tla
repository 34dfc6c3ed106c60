------------------------------- MODULE Startup -------------------------------
(***************************************************************************)
(* main (src/src/main.cpp): the configuration is parsed, a socket listens  *)
(* for each server block whose address is free, and the clients that       *)
(* connect are led to a server block by setConfigInfo.  The address of a   *)
(* block is a number where it is listened at and a word where a client's   *)
(* address is compared with it.                                            *)
(***************************************************************************)
EXTENDS ConfigFile, Selection

CONSTANTS
  LocalIps,     \* the addresses of the host
  Decimal,      \* Decimal[n]: the word for the number n
  NetworkOrder, \* NetworkOrder[n]: the bytes of port n swapped
  Foreign,      \* what other processes may listen at: sets of addresses
  Hosts         \* host headers of the clients

ASSUME StartupAssumption == Wildcard \notin LocalIps

VARIABLES
  stage,        \* "configure", "listen", "run", "exit"
  bound,        \* server blocks bind() was called for
  listening,    \* the addresses of the listening sockets
  foreign,      \* the addresses other processes listen at
  served        \* the last request: [to, host, block]

svars == <<stage, bound, listening, foreign, served>>
vars == <<cvars, svars>>

Nobody == [to |-> [ip |-> Wildcard, port |-> 0], host |-> "", block |-> 0]
-----------------------------------------------------------------------------
ServerBlocks == block["config"].blocks

(* changeIpToBinary and htons(atoi()).                                     *)
Address(b) == [ip |-> Ip[b.value["listen"]], port |-> Number[b.value["port"]]]

(* What setConfigInfo compares: the words of the configuration ...         *)
Words(blocks) ==
  [i \in 1..Len(blocks) |-> [ip   |-> blocks[i].value["listen"],
                             port |-> blocks[i].value["port"],
                             name |-> blocks[i].value["server_name"]]]

(* Mutant: no ntohs(). *)
SocketWordsSwapped(a) == [ip |-> a.ip, port |-> Decimal[NetworkOrder[a.port]]]

(* ... and the local address of the socket: changeBinaryToIp,              *)
(* numberToString(ntohs()).                                                *)
SocketWords(a) == [ip |-> a.ip, port |-> Decimal[a.port]]

(* bind() refuses an address that overlaps one in use.                     *)
Overlap(a, b) == a.port = b.port /\ (a.ip = b.ip \/ Wildcard \in {a.ip, b.ip})
InUse(a) == \E b \in listening \cup foreign : Overlap(a, b)

StartInit ==
  /\ Init
  /\ stage = "configure" /\ bound = 0 /\ listening = {}
  /\ foreign \in Foreign /\ served = Nobody

Configure == stage = "configure" /\ ParseStep /\ UNCHANGED svars

(* The Config constructor returns or throws, or the process has crashed.   *)
Configured ==
  /\ stage = "configure" /\ outcome # "parsing"
  /\ stage' = IF outcome = "accepted" THEN "listen" ELSE "exit"
  /\ UNCHANGED <<cvars, bound, listening, foreign, served>>

(* Mutant: break instead of continue after EADDRINUSE. *)
BindOrStop ==
  LET a == Address(ServerBlocks[bound + 1]) IN
  /\ stage = "listen" /\ bound < Len(ServerBlocks)
  /\ bound' = IF InUse(a) THEN Len(ServerBlocks) ELSE bound + 1
  /\ IF a.ip \notin LocalIps \cup {Wildcard}
       THEN stage' = "exit" /\ UNCHANGED listening
       ELSE /\ UNCHANGED stage
            /\ listening' = IF InUse(a) THEN listening ELSE listening \cup {a}
  /\ UNCHANGED <<cvars, foreign, served>>

(* One block of setupListenSocket: the block of an address in use is       *)
(* skipped, an address that is not the host's ends the program.            *)
Bind ==
  LET a == Address(ServerBlocks[bound + 1]) IN
  /\ stage = "listen" /\ bound < Len(ServerBlocks)
  /\ bound' = bound + 1
  /\ IF a.ip \notin LocalIps \cup {Wildcard}
       THEN stage' = "exit" /\ UNCHANGED listening
       ELSE /\ UNCHANGED stage
            /\ listening' = IF InUse(a) THEN listening ELSE listening \cup {a}
  /\ UNCHANGED <<cvars, foreign, served>>

Run ==
  /\ stage = "listen" /\ bound = Len(ServerBlocks)
  /\ stage' = IF listening = {} THEN "exit" ELSE "run"
  /\ UNCHANGED <<cvars, bound, listening, foreign, served>>

(* The first request of a client that connected to a local address.        *)
Client ==
  /\ stage = "run"
  /\ \E ip \in LocalIps, l \in listening, host \in Hosts :
       LET to == [ip |-> ip, port |-> l.port] IN
       /\ Overlap(to, l)
       /\ served' = [to |-> to, host |-> host,
                     block |-> SelectServer(Words(ServerBlocks),
                                            SocketWords(to), host)]
  /\ UNCHANGED <<cvars, stage, bound, listening, foreign>>

StartNext == Configure \/ Configured \/ Bind \/ Run \/ Client

(* main runs until it serves or exits; clients come as they like.          *)
StartSpec ==
  StartInit /\ [][StartNext]_vars /\ WF_vars(Configure \/ Configured \/ Bind \/ Run)
-----------------------------------------------------------------------------
(* Every configuration file is accepted or refused and main goes on to     *)
(* serve or exits: none of the three nested reading loops waits for a      *)
(* brace that the rest of the file does not have.                          *)
StartsOrExits == <>(stage \in {"run", "exit"})

(* A block whose address and port are spelled as the server spells them.   *)
Spelled(b) == LET a == Address(b)
              IN  b.value["listen"] = a.ip /\ b.value["port"] = Decimal[a.port]
At(b, to) == Address(b).ip \in {Wildcard, to.ip} /\ Address(b).port = to.port

(* Blocks that are spelled the server's way serve the clients of their own *)
(* addresses: one for the address of the client or a wildcard block (of    *)
(* any port, as setConfigInfo has it) serves each request, and one that    *)
(* has the name the client asks for if there is one.                       *)
ServedAtOwnAddress ==
  LET blocks == ServerBlocks  b == blocks[served.block] IN
  served # Nobody /\ (\A i \in 1..Len(blocks) : Spelled(blocks[i])) =>
    /\ At(b, served.to) \/ b.value["listen"] = Wildcard
    /\ \A i \in 1..Len(blocks) :
         At(blocks[i], served.to) /\ blocks[i].value["server_name"] = served.host
           => b.value["server_name"] = served.host

(* A block is left without a socket at its port and address (or a part of  *)
(* it) only if another process has the address: an earlier block that      *)
(* overlaps it is no reason (setupListenSocket).                           *)
NoBlockForgotten ==
  stage = "run" => \A i \in 1..Len(ServerBlocks) :
    LET a == Address(ServerBlocks[i])
    IN  \/ \E b \in foreign : Overlap(a, b)
        \/ \E b \in listening : Overlap(a, b)
=============================================================================
