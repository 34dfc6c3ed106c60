--------------------------- MODULE RoutingProofs ---------------------------
(***************************************************************************)
(* Theorems about the search for the server block and the location, and    *)
(* about the replies made of pages and of what scripts write, for any      *)
(* configuration, any requests and any scripts.                            *)
(***************************************************************************)
EXTENDS Routing, SelectionProofs, SequenceTheorems

(* The steps that neither search nor end a search.                         *)
Elsewhere == \/ \E q \in Requests : ServeError(q)
             \/ CgiEnds \/ CgiTimesOut \/ KeepAlive

LEMMA ElsewhereKeeps ==
  ASSUME Elsewhere
  PROVE  /\ UNCHANGED <<selection, files, svars>>
         /\ \/ \E q \in Requests : request' = q /\ q.error # 200 /\ loop = "idle"
            \/ request' = NoRequest /\ loop = "idle"
            \/ UNCHANGED request
  BY Zenon DEF Elsewhere, ServeError, CgiEnds, CgiTimesOut, KeepAlive

LEMMA StepIs ==
  ASSUME [Next]_vars
  PROVE  \/ \E q \in Requests : SetConfigInfo(q)
         \/ NextServer \/ StartLocations \/ NextLocation \/ NextToken \/ EndOfTokens
         \/ Serve \/ Reconnect \/ Elsewhere \/ UNCHANGED vars
  BY Zenon DEF Next, Search, Elsewhere

LEMMA ServeKeeps ==
  ASSUME Serve
  PROVE  /\ Searched /\ loop' = "idle"
         /\ UNCHANGED <<address, selected_server, selected_location, request, last_named>>
  BY Zenon DEF Serve, Return
-----------------------------------------------------------------------------
(* The search for the server block.                                        *)

(* The blocks at the address, and the one that serves the connection.      *)
Reached   == {i \in 1..Len(ServerBlocks) : Matches(ServerBlocks[i], address)}
Default   == IF Reached # {} THEN First(Reached) ELSE 1
LastNamed == IF last_named # 0 THEN last_named ELSE Default

(* A Host that names a block has been remembered.                          *)
HostKept == Named(request.host) # {} => last_named = First(Named(request.host))

(* No block the loop has passed is named; without a selected one, none it  *)
(* has passed is at the address.                                           *)
ServersPassed ==
  /\ index \in 1..(Len(ServerBlocks) + 1)
  /\ \A j \in 1..(index - 1) : j \notin Named(request.host)
  /\ Named(request.host) = {} =>
       IF selected_server = 0
         THEN last_named = 0 /\ \A j \in 1..(index - 1) : j \notin Reached
         ELSE selected_server = LastNamed

ServerInv ==
  /\ selected_server \in 0..Len(ServerBlocks) /\ last_named \in 0..Len(ServerBlocks)
  /\ loop \in Loop
  /\ loop = "idle" => IF selected_server = 0 THEN last_named = 0
                                             ELSE selected_server = LastNamed
  /\ loop = "servers" => ServersPassed
  /\ loop \in {"broken", "locations", "tokens", "returned"} =>
       selected_server # 0 /\ selected_server = LastNamed
  /\ loop # "idle" => request \in Requests /\ request.error = 200
  /\ loop # "idle" \/ Served => selected_server # 0 \/ loop = "servers"
  /\ loop # "idle" \/ Served => HostKept

LEMMA BlocksCount == Len(ServerBlocks) \in Nat \ {0}
  BY RoutingAssumption

(* The first of a set of blocks.                                           *)
LEMMA FirstBlock ==
  ASSUME NEW S, S \subseteq 1..Len(ServerBlocks), S # {}
  PROVE  First(S) \in S /\ First(S) # 0 /\ \A j \in S : First(S) <= j
<1>1. S \subseteq Nat /\ 0 \notin S
  BY BlocksCount
<1>2. First(S) \in S /\ \A j \in S : First(S) <= j
  BY <1>1, FirstIsFirst
<1> QED BY <1>1, <1>2, Zenon

LEMMA NamedReached ==
  ASSUME NEW host
  PROVE  /\ Named(host) \subseteq Reached /\ Reached \subseteq 1..Len(ServerBlocks)
         /\ \A i \in 1..Len(ServerBlocks) :
              i \in Named(host) <=> i \in Reached /\ ServerBlocks[i].name = host
  BY DEF Named, Reached

(* What is said of the blocks depends on the address alone.                *)
LEMMA AddressFixes ==
  ASSUME address' = address
  PROVE  /\ Reached' = Reached /\ Default' = Default
         /\ \A host : Named(host)' = Named(host)
         /\ last_named' = last_named => LastNamed' = LastNamed
         /\ UNCHANGED <<last_named, request>> => HostKept' = HostKept
  BY DEF Reached, Default, Named, LastNamed, HostKept

LEMMA ServerInvInit == Init => ServerInv
  BY BlocksCount DEF Init, ServerInv, Served, NoRequest, Loop

LEMMA SetConfigInfoKeepsServer ==
  ASSUME ServerInv, NEW q \in Requests, SetConfigInfo(q)
  PROVE  ServerInv'
<1> DEFINE N == Named(q.host)
<1>1. /\ request' = q /\ loop = "idle" /\ loop' = "servers" /\ index' = 1 /\ q.error = 200
      /\ last_named' = IF N # {} THEN First(N) ELSE last_named
      /\ UNCHANGED <<selected_server, address>>
  BY DEF SetConfigInfo, others
<1>2. N' = N /\ Reached' = Reached /\ Default' = Default
  BY <1>1, AddressFixes
<1>3. N \subseteq 1..Len(ServerBlocks)
  BY NamedReached
<1> HIDE DEF N
<1>4. last_named' \in 0..Len(ServerBlocks)
  <2>1. N # {} => First(N) \in 1..Len(ServerBlocks)
    BY <1>3, FirstBlock
  <2> QED BY <1>1, <2>1, BlocksCount DEF ServerInv
<1>5. N = {} => LastNamed' = LastNamed
  BY <1>1, <1>2 DEF LastNamed
<1>6. HostKept'
  BY <1>1, <1>2 DEF HostKept, N
<1>7. ServersPassed'
  <2>1. \A j \in 1..(index' - 1) : FALSE
    BY <1>1
  <2>2. index' \in 1..(Len(ServerBlocks) + 1)
    BY <1>1, BlocksCount
  <2>3. N = {} => IF selected_server = 0 THEN last_named' = 0
                  ELSE selected_server = LastNamed'
    BY <1>1, <1>5 DEF ServerInv
  <2> QED BY <1>1, <1>2, <2>1, <2>2, <2>3 DEF ServersPassed, N
<1> QED BY <1>1, <1>4, <1>6, <1>7 DEF ServerInv, Served, Loop

LEMMA NextServerKeepsServer ==
  ASSUME ServerInv, NextServer
  PROVE  ServerInv'
<1> DEFINE N == Named(request.host)
           named == index \in N
<1>1. /\ loop = "servers" /\ index <= Len(ServerBlocks)
      /\ UNCHANGED <<request, last_named, address>>
  BY DEF NextServer, others
<1>2. /\ ServersPassed /\ HostKept /\ request \in Requests /\ request.error = 200
      /\ index \in 1..Len(ServerBlocks)
  BY <1>1, BlocksCount DEF ServerInv, ServersPassed
<1>3. /\ selected_server' = IF named \/ (index \in Reached /\ selected_server = 0)
                              THEN index ELSE selected_server
      /\ IF named THEN loop' = "broken" ELSE index' = index + 1 /\ loop' = loop
  BY <1>2 DEF NextServer, Named, Reached
<1>4. /\ N' = N /\ Reached' = Reached /\ Default' = Default /\ LastNamed' = LastNamed
      /\ HostKept'
  BY <1>1, <1>2, AddressFixes
<1>5. N \subseteq Reached /\ Reached \subseteq 1..Len(ServerBlocks)
  BY NamedReached
<1>6. \A j \in 1..(index - 1) : j \notin N
  BY <1>2 DEF ServersPassed
<1>7. CASE named
  <2>1. First(N) = index
    <3>1. First(N) \in N /\ First(N) <= index /\ First(N) \in 1..Len(ServerBlocks)
      <4> HIDE DEF N
      <4> QED BY <1>5, <1>7, FirstBlock DEF N
    <3> HIDE DEF N
    <3> QED BY <1>2, <1>6, <3>1
  <2>2. last_named = index /\ index # 0
    BY <1>2, <1>7, <2>1 DEF HostKept
  <2>3. selected_server' = index /\ loop' = "broken" /\ LastNamed = index
    BY <1>3, <1>7, <2>2 DEF LastNamed
  <2> QED BY <1>1, <1>2, <1>4, <2>2, <2>3 DEF ServerInv, Loop, Served
<1>8. CASE ~named
  <2>1. index' = index + 1 /\ loop' = "servers"
    BY <1>1, <1>3, <1>8
  <2>2. \A j \in 1..(index' - 1) : j \notin N
    <3> HIDE DEF N
    <3> QED BY <1>2, <1>6, <1>8, <2>1 DEF named
  <2>3. N = {} => IF selected_server' = 0
                    THEN last_named = 0 /\ \A j \in 1..(index' - 1) : j \notin Reached
                    ELSE selected_server' = LastNamed
    <3> SUFFICES ASSUME N = {}
                 PROVE  IF selected_server' = 0
                          THEN last_named = 0 /\ \A j \in 1..(index' - 1) : j \notin Reached
                          ELSE selected_server' = LastNamed
      OBVIOUS
    <3>1. IF selected_server = 0
            THEN last_named = 0 /\ \A j \in 1..(index - 1) : j \notin Reached
            ELSE selected_server = LastNamed
      BY <1>2 DEF ServersPassed
    <3>2. CASE selected_server # 0
      BY <1>3, <1>8, <3>1, <3>2
    <3>3. CASE selected_server = 0 /\ index \notin Reached
      <4>1. selected_server' = 0
        BY <1>3, <1>8, <3>3
      <4>2. \A j \in 1..(index' - 1) : j \in 1..(index - 1) \/ j = index
        BY <1>2, <2>1
      <4> QED BY <3>1, <3>3, <4>1, <4>2
    <3>4. CASE selected_server = 0 /\ index \in Reached
      <4>1. selected_server' = index /\ last_named = 0 /\ index # 0
        BY <1>2, <1>3, <3>1, <3>4
      <4>2. First(Reached) \in Reached /\ First(Reached) <= index
        BY <1>5, <3>4, FirstBlock
      <4>3. First(Reached) \in 1..Len(ServerBlocks) /\ First(Reached) \notin 1..(index - 1)
        BY <1>5, <3>1, <3>4, <4>2
      <4>4. First(Reached) = index
        BY <1>2, <4>2, <4>3
      <4>5. LastNamed = index
        BY <3>4, <4>1, <4>4 DEF LastNamed, Default
      <4> QED BY <4>1, <4>5
    <3> QED BY <3>2, <3>3, <3>4
  <2>4. index' \in 1..(Len(ServerBlocks) + 1)
    BY <1>2, <2>1, BlocksCount
  <2>5. ServersPassed'
    BY <1>1, <1>4, <2>2, <2>3, <2>4 DEF ServersPassed
  <2>6. selected_server' \in 0..Len(ServerBlocks)
    BY <1>2, <1>3 DEF ServerInv
  <2> QED BY <1>1, <1>2, <1>4, <2>1, <2>5, <2>6 DEF ServerInv, Loop, Served
<1> QED BY <1>7, <1>8

LEMMA StartLocationsKeepsServer ==
  ASSUME ServerInv, StartLocations
  PROVE  ServerInv'
<1> DEFINE N == Named(request.host)
<1>1. /\ selected_server' = IF selected_server = 0 THEN 1 ELSE selected_server
      /\ loop' = "locations" /\ UNCHANGED <<request, last_named, address>>
      /\ loop = "broken" \/ (loop = "servers" /\ index > Len(ServerBlocks))
  BY DEF StartLocations, others
<1>2. /\ LastNamed' = LastNamed /\ (HostKept => HostKept')
  BY <1>1, AddressFixes
<1>3. selected_server' = LastNamed
  <2>1. CASE loop = "broken"
    BY <1>1, <2>1 DEF ServerInv
  <2>2. CASE loop = "servers" /\ index > Len(ServerBlocks)
    <3>1. ServersPassed /\ index = Len(ServerBlocks) + 1
      BY <2>2, BlocksCount DEF ServerInv, ServersPassed
    <3>2. N = {}
      <4>1. N \subseteq 1..Len(ServerBlocks)
        BY NamedReached
      <4>2. \A j \in 1..Len(ServerBlocks) : j \notin N
        BY <3>1, BlocksCount DEF ServersPassed
      <4> HIDE DEF N
      <4> QED BY <4>1, <4>2
    <3>3. CASE selected_server # 0
      BY <1>1, <3>1, <3>2, <3>3 DEF ServersPassed
    <3>4. CASE selected_server = 0
      <4>1. last_named = 0 /\ \A j \in 1..Len(ServerBlocks) : j \notin Reached
        BY <3>1, <3>2, <3>4, BlocksCount DEF ServersPassed
      <4>2. Reached = {}
        BY <4>1 DEF Reached
      <4> QED BY <1>1, <3>4, <4>1, <4>2 DEF LastNamed, Default
    <3> QED BY <3>3, <3>4
  <2> QED BY <1>1, <2>1, <2>2
<1>4. selected_server' \in 1..Len(ServerBlocks)
  BY <1>1, BlocksCount DEF ServerInv
<1> QED BY <1>1, <1>2, <1>3, <1>4 DEF ServerInv, Loop, Served

(* The loops over the locations and their tokens.                          *)
InLocations == {"locations", "tokens", "returned"}

LEMMA LocationsKeepServer ==
  ASSUME ServerInv, NextLocation \/ NextToken \/ EndOfTokens
  PROVE  /\ ServerInv'
         /\ loop \in {"locations", "tokens"} /\ loop' \in InLocations
         /\ UNCHANGED <<selected_server, request, address, last_named>>
<1>1. /\ UNCHANGED <<selected_server, request, address, last_named>>
      /\ loop \in {"locations", "tokens"} /\ loop' \in InLocations
  BY DEF NextLocation, NextToken, EndOfTokens, others, InLocations
<1>2. LastNamed' = LastNamed /\ HostKept' = HostKept
  BY <1>1, AddressFixes
<1>3. ServerInv'
  BY <1>1, <1>2 DEF ServerInv, Loop, Served, InLocations
<1> QED BY <1>1, <1>3

LEMMA ServerInvNext ==
  ASSUME ServerInv, [Next]_vars
  PROVE  ServerInv'
<1>1. ASSUME NEW q \in Requests, SetConfigInfo(q) PROVE ServerInv'
  BY <1>1, SetConfigInfoKeepsServer
<1>2. CASE Serve
  <2>1. /\ Searched /\ loop' = "idle"
        /\ UNCHANGED <<address, selected_server, request, last_named>>
    BY <1>2, ServeKeeps
  <2>2. LastNamed' = LastNamed /\ HostKept' = HostKept
    BY <2>1, AddressFixes
  <2> QED BY <2>1, <2>2 DEF Searched, ServerInv, Loop, Served
<1>3. CASE Reconnect
  BY <1>3, BlocksCount DEF Reconnect, svars, ServerInv, Loop, Served, NoRequest
<1>4. CASE Elsewhere
  <2>1. /\ UNCHANGED <<address, selected_server, last_named, loop, index>>
        /\ \/ \E q \in Requests : request' = q /\ q.error # 200 /\ loop = "idle"
           \/ request' = NoRequest /\ loop = "idle"
           \/ UNCHANGED request
    BY <1>4, ElsewhereKeeps DEF selection, svars
  <2>2. /\ LastNamed' = LastNamed /\ (request' = request => HostKept' = HostKept)
        /\ Reached' = Reached /\ \A host : Named(host)' = Named(host)
    BY <2>1, AddressFixes
  <2>3. request' = request => ServersPassed' = ServersPassed
    BY <2>1, <2>2 DEF ServersPassed
  <2> QED BY <2>1, <2>2, <2>3 DEF ServerInv, Served
<1>5. CASE UNCHANGED vars
  <2>1. UNCHANGED <<address, selected_server, last_named, loop, index, request>>
    BY <1>5 DEF vars, svars
  <2>2. /\ LastNamed' = LastNamed /\ HostKept' = HostKept
        /\ Reached' = Reached /\ \A host : Named(host)' = Named(host)
    BY <2>1, AddressFixes
  <2>3. ServersPassed' = ServersPassed
    BY <2>1, <2>2 DEF ServersPassed
  <2> QED BY <2>1, <2>2, <2>3 DEF ServerInv, Served
<1> QED BY <1>1, <1>2, <1>3, <1>4, <1>5, StepIs, NextServerKeepsServer,
           StartLocationsKeepsServer, LocationsKeepServer

(* A request is served by the block that a Host of its connection named    *)
(* last, and by the first at the address until one is: the search finds it *)
(* whatever selected_server_ is when it starts (Connection::setConfigInfo).*)
THEOREM LastNamedServesAlways == Spec => []LastNamedServes
<1>1. ServerInv => LastNamedServes
  <2> SUFFICES ASSUME ServerInv, Served
               PROVE  selected_server = IF last_named # 0 THEN last_named
                        ELSE SelectServer(ServerBlocks, address, request.host)
    BY DEF LastNamedServes
  <2>1. selected_server = LastNamed /\ HostKept
    BY DEF ServerInv, Served
  <2>2. CASE last_named # 0
    BY <2>1, <2>2 DEF LastNamed
  <2>3. CASE last_named = 0
    <3>1. Named(request.host) = {}
      BY <2>1, <2>3, NamedReached, FirstBlock DEF HostKept
    <3>2. ~\E i \in 1..Len(ServerBlocks) :
             Matches(ServerBlocks[i], address) /\ ServerBlocks[i].name = request.host
      BY <3>1 DEF Named
    <3>3. SelectServer(ServerBlocks, address, request.host) = Default
      BY <3>2, SelectServerDefault DEF Default, Reached
    <3> QED BY <2>1, <2>3, <3>3 DEF LastNamed
  <2> QED BY <2>2, <2>3
<1> QED BY <1>1, ServerInvInit, ServerInvNext, PTL DEF Spec
-----------------------------------------------------------------------------
(* The search for the location.                                            *)

Locations == Block.location_blocks
Counts    == 1..Len(Tokens(request.uri))
Agree(j, k) == Shares(Locations[j], request.uri, k)
Special   == {j \in 1..Len(Locations) : ForExtension(Locations[j], request.uri)}

(* None that the loop has passed is for the extension, or shares more      *)
(* tokens than the one selected, which is the first with as many.          *)
LocationsPassed ==
  /\ \A j \in 1..(index - 1) : j \notin Special
  /\ \A j \in 1..(index - 1), k \in Counts : Agree(j, k) => k <= max_match_count
  /\ index = 1 => max_match_count = -1
  /\ index # 1 =>
       /\ max_match_count \in 0..Len(Tokens(request.uri))
       /\ selected_location \in 1..(index - 1)
       /\ Agree(selected_location, max_match_count)
       /\ \A j \in 1..(selected_location - 1) : ~Agree(j, max_match_count)

Longest ==
  /\ \A j \in 1..Len(Locations), k \in Counts :
       Agree(j, k) => Agree(selected_location, k)
  /\ \A j \in 1..(selected_location - 1) :
       \E k \in Counts : Agree(selected_location, k) /\ ~Agree(j, k)

LocationInv ==
  /\ loop = "locations" => index \in 1..(Len(Locations) + 1) /\ LocationsPassed
  /\ loop = "tokens" =>
       /\ index \in 1..Len(Locations) /\ index \notin Special
       /\ match_count \in 0..Len(Tokens(request.uri)) /\ Agree(index, match_count)
       /\ LocationsPassed
  /\ loop = "returned" => Special # {} /\ selected_location = First(Special)
  /\ loop = "idle" =>
       IF selected_server = 0 THEN selected_location = 0
                              ELSE selected_location \in 1..Len(Locations)
  /\ Served => IF Special # {} THEN selected_location = First(Special) ELSE Longest

LEMMA LocationsCount ==
  ASSUME ServerInv, selected_server # 0
  PROVE  /\ Len(Locations) \in Nat \ {0}
         /\ \A j \in 1..Len(Locations) : Locations[j].url \in Seq(STRING)
         /\ Special \subseteq 1..Len(Locations)
<1>1. selected_server \in 1..Len(ServerBlocks)
  BY BlocksCount DEF ServerInv
<1> QED BY <1>1, RoutingAssumption DEF Locations, Block, Special

LEMMA TokensCount ==
  ASSUME NEW q \in Requests
  PROVE  Tokens(q.uri) \in Seq(STRING) /\ Len(Tokens(q.uri)) \in Nat
<1>1. q.uri.path \in Seq(STRING)
  BY RoutingAssumption
<1>2. Front(q.uri.path) \in Seq(STRING)
  BY <1>1 DEF Front
<1>3. Tokens(q.uri) \in Seq(STRING)
  BY <1>1, <1>2 DEF Tokens
<1> QED BY <1>3

(* The request and its server block fix what is said of the locations.     *)
LEMMA BlockFixes ==
  ASSUME UNCHANGED <<selected_server, request>>
  PROVE  /\ Locations' = Locations /\ Special' = Special /\ Counts' = Counts
         /\ Len(Tokens(request.uri))' = Len(Tokens(request.uri))
         /\ \A j, k : Agree(j, k)' = Agree(j, k)
         /\ selected_location' = selected_location => Longest' = Longest
         /\ UNCHANGED <<selected_location, index, max_match_count>> =>
              LocationsPassed' = LocationsPassed
<1>1. /\ Locations' = Locations /\ Special' = Special /\ Counts' = Counts
      /\ Len(Tokens(request.uri))' = Len(Tokens(request.uri))
  BY DEF Locations, Block, Special, Counts, Tokens
<1>2. \A j, k : Agree(j, k)' = Agree(j, k)
  BY <1>1 DEF Agree
<1>3. selected_location' = selected_location => Longest' = Longest
  BY <1>1, <1>2 DEF Longest
<1>4. UNCHANGED <<selected_location, index, max_match_count>> =>
        LocationsPassed' = LocationsPassed
  BY <1>1, <1>2 DEF LocationsPassed
<1> QED BY <1>1, <1>2, <1>3, <1>4

(* Fewer tokens are shared a fortiori, none always.                        *)
LEMMA SharesFewer ==
  ASSUME NEW j, NEW k \in Int, NEW i \in Int, i <= k, Agree(j, k),
         Len(Locations[j].url) \in Nat
  PROVE  Agree(j, i)
  BY DEF Agree, Shares

LEMMA SharesNone ==
  ASSUME NEW j, Len(Locations[j].url) \in Nat
  PROVE  Agree(j, 0)
  BY DEF Agree, Shares

LEMMA LocationInvInit == Init => LocationInv
  BY DEF Init, LocationInv, Served, NoRequest

LEMMA StartLocationsKeepsLocation ==
  ASSUME ServerInv, LocationInv, StartLocations
  PROVE  LocationInv'
<1>1. loop' = "locations" /\ index' = 1 /\ max_match_count' = -1
  BY DEF StartLocations
<1>2. ServerInv' /\ selected_server' # 0
  BY <1>1, StartLocationsKeepsServer DEF ServerInv
<1>3. Len(Locations)' \in Nat \ {0}
  <2>1. selected_server' \in 1..Len(ServerBlocks)
    BY <1>2, BlocksCount DEF ServerInv
  <2> QED BY <2>1, RoutingAssumption DEF Locations, Block
<1>4. 1..(index' - 1) = {}
  BY <1>1
<1>5. LocationsPassed'
  BY <1>1, <1>4 DEF LocationsPassed
<1> QED BY <1>1, <1>3, <1>5 DEF LocationInv, Served

LEMMA NextLocationKeepsLocation ==
  ASSUME ServerInv, LocationInv, NextLocation
  PROVE  LocationInv'
<1>1. /\ loop = "locations" /\ index <= Len(Locations)
      /\ UNCHANGED <<selected_server, request, index, max_match_count>>
  BY DEF NextLocation, others, Locations
<1>2. /\ selected_server # 0 /\ Len(Locations) \in Nat \ {0}
      /\ index \in 1..(Len(Locations) + 1) /\ LocationsPassed /\ request \in Requests
      /\ \A j \in 1..Len(Locations) : Locations[j].url \in Seq(STRING)
      /\ Special \subseteq 1..Len(Locations)
  BY <1>1, LocationsCount DEF ServerInv, LocationInv
<1>3. index \in 1..Len(Locations)
  BY <1>1, <1>2
<1>4. \/ index \in Special /\ selected_location' = index /\ loop' = "returned"
      \/ /\ index \notin Special /\ match_count' = 0 /\ loop' = "tokens"
         /\ UNCHANGED selected_location
  BY <1>3 DEF NextLocation, Special, Locations
<1>5. /\ Locations' = Locations /\ Special' = Special
      /\ Len(Tokens(request.uri))' = Len(Tokens(request.uri))
      /\ \A j, k : Agree(j, k)' = Agree(j, k)
      /\ selected_location' = selected_location => LocationsPassed' = LocationsPassed
  BY <1>1, BlockFixes
<1>6. CASE index \in Special
  <2>1. First(Special) \in Special /\ \A j \in Special : First(Special) <= j
    <3>1. Special \subseteq Nat
      BY <1>2
    <3> QED BY <1>6, <3>1, FirstIsFirst
  <2>2. First(Special) = index
    <3>1. First(Special) <= index /\ First(Special) \in 1..Len(Locations)
      BY <1>2, <1>6, <2>1
    <3>2. First(Special) \notin 1..(index - 1)
      BY <1>2, <2>1 DEF LocationsPassed
    <3> QED BY <1>2, <3>1, <3>2
  <2> QED BY <1>4, <1>5, <1>6, <2>2 DEF LocationInv, Served
<1>7. CASE index \notin Special
  <2>1. Len(Locations[index].url) \in Nat
    BY <1>2, <1>3
  <2>2. Agree(index, 0)
    BY <2>1, SharesNone
  <2>3. 0 \in 0..Len(Tokens(request.uri))
    BY <1>2, TokensCount
  <2>4. loop' = "tokens" /\ match_count' = 0 /\ index' = index
    BY <1>1, <1>4, <1>7
  <2>6. Agree(index, match_count)'
    BY <1>1, <1>5, <2>2, <2>4 DEF Agree
  <2>7. LocationsPassed'
    BY <1>2, <1>4, <1>5, <1>7
  <2> QED BY <1>3, <1>5, <1>7, <2>3, <2>4, <2>6, <2>7 DEF LocationInv, Served
<1> QED BY <1>6, <1>7

LEMMA NextTokenKeepsLocation ==
  ASSUME ServerInv, LocationInv, NextToken
  PROVE  LocationInv'
<1> DEFINE T == Tokens(request.uri)
           url == Locations[index].url
<1>1. /\ loop = "tokens" /\ match_count' = match_count + 1
      /\ UNCHANGED <<selected_server, request, index, max_match_count, selected_location,
                     loop>>
      /\ match_count < Len(T) /\ match_count < Len(url)
      /\ T[match_count + 1] = url[match_count + 1]
  BY DEF NextToken, others, TokensAgree, Locations
<1>2. /\ selected_server # 0 /\ index \in 1..Len(Locations) /\ index \notin Special
      /\ LocationsPassed /\ request \in Requests
      /\ match_count \in 0..Len(T) /\ Agree(index, match_count)
  BY <1>1 DEF ServerInv, LocationInv
<1>3. /\ Locations' = Locations /\ Special' = Special
      /\ Len(T)' = Len(T)
      /\ \A j, k : Agree(j, k)' = Agree(j, k)
      /\ LocationsPassed' = LocationsPassed
  BY <1>1, BlockFixes
<1>4. Len(T) \in Nat /\ Len(url) \in Nat
  BY <1>2, TokensCount, LocationsCount
<1>5. Agree(index, match_count + 1)
  <2>1. \A t \in 1..match_count : T[t] = url[t]
    BY <1>2 DEF Agree, Shares
  <2>2. \A t \in 1..(match_count + 1) : t \in 1..match_count \/ t = match_count + 1
    BY <1>2, <1>4
  <2>3. \A t \in 1..(match_count + 1) : T[t] = url[t]
    BY <1>1, <2>1, <2>2
  <2>4. match_count + 1 <= Len(url)
    BY <1>1, <1>2, <1>4
  <2> QED BY <2>3, <2>4, Zenon DEF Agree, Shares
<1>6. match_count + 1 \in 0..Len(T)
  BY <1>1, <1>2, <1>4
<1>7. Agree(index, match_count)'
  BY <1>1, <1>3, <1>5 DEF Agree
<1> QED BY <1>1, <1>2, <1>3, <1>6, <1>7 DEF LocationInv, Served

LEMMA EndOfTokensKeepsLocation ==
  ASSUME ServerInv, LocationInv, EndOfTokens
  PROVE  LocationInv'
<1> DEFINE T == Tokens(request.uri)
           url == Locations[index].url
<1>1. /\ loop = "tokens" /\ ~TokensAgree /\ loop' = "locations" /\ index' = index + 1
      /\ UNCHANGED <<selected_server, request>>
      /\ IF match_count > max_match_count
           THEN selected_location' = index /\ max_match_count' = match_count
           ELSE UNCHANGED <<selected_location, max_match_count>>
  BY DEF EndOfTokens, others
<1>2. /\ selected_server # 0 /\ index \in 1..Len(Locations) /\ index \notin Special
      /\ LocationsPassed /\ request \in Requests
      /\ match_count \in 0..Len(T) /\ Agree(index, match_count)
  BY <1>1 DEF ServerInv, LocationInv
<1>3. /\ Locations' = Locations /\ Special' = Special /\ Counts' = Counts
      /\ Len(T)' = Len(T)
      /\ \A j, k : Agree(j, k)' = Agree(j, k)
  BY <1>1, BlockFixes
<1>4. /\ Len(T) \in Nat /\ Len(Locations) \in Nat
      /\ \A j \in 1..Len(Locations) : Len(Locations[j].url) \in Nat
  BY <1>2, TokensCount, LocationsCount
(* The loop stops at the first token that differs. *)
<1>5. ASSUME NEW k \in Counts, Agree(index, k) PROVE k <= match_count
  <2> SUFFICES ASSUME k > match_count PROVE FALSE
    BY <1>2, <1>4 DEF Counts
  <2>1. /\ match_count + 1 \in 1..k /\ k <= Len(url) /\ k <= Len(T)
        /\ match_count < Len(T) /\ match_count < Len(url)
    BY <1>2, <1>4, <1>5 DEF Counts, Agree, Shares
  <2>2. T[match_count + 1] = url[match_count + 1]
    BY <1>5, <2>1 DEF Agree, Shares
  <2> QED BY <1>1, <2>1, <2>2 DEF TokensAgree, Locations
<1> DEFINE m == max_match_count
           n == selected_location
<1>6. /\ m \in Int
      /\ \A j \in 1..(index - 1) : j \notin Special
      /\ \A j \in 1..(index - 1), k \in Counts : Agree(j, k) => k <= m
      /\ index = 1 => m = -1
      /\ index # 1 => /\ m \in 0..Len(T) /\ n \in 1..(index - 1) /\ Agree(n, m)
                      /\ \A j \in 1..(n - 1) : ~Agree(j, m)
  BY <1>2, <1>4 DEF LocationsPassed
<1>7. /\ index' # 1 /\ index' - 1 = index /\ index \in Nat
      /\ \A j \in 1..index : j \in 1..(index - 1) \/ j = index
  BY <1>1, <1>2, <1>4
<1>8. CASE match_count > m
  <2>1. n' = index /\ m' = match_count
    BY <1>1, <1>8
  <2>2. ASSUME NEW j \in 1..index, NEW k \in Counts, Agree(j, k) PROVE k <= match_count
    <3>1. CASE j = index
      BY <1>5, <2>2, <3>1
    <3>2. CASE j \in 1..(index - 1)
      <4>1. k <= m /\ k \in Int
        BY <1>4, <1>6, <2>2, <3>2 DEF Counts
      <4> QED BY <1>2, <1>6, <1>8, <4>1
    <3> QED BY <1>7, <3>1, <3>2
  <2>3. ASSUME NEW j \in 1..(index - 1) PROVE ~Agree(j, match_count)
    <3>1. index # 1 /\ m >= 0
      BY <1>4, <1>6, <1>7
    <3>2. match_count \in Counts
      BY <1>2, <1>4, <1>6, <1>8, <3>1 DEF Counts
    <3> QED BY <1>2, <1>6, <1>8, <3>2
  <2>4. LocationsPassed'
    <3>1. Agree(selected_location, max_match_count)'
      BY <1>1, <1>2, <1>3, <2>1 DEF Agree
    <3>2. \A j \in 1..(index - 1) : ~Agree(j, max_match_count)'
      BY <1>1, <1>3, <2>1, <2>3 DEF Agree
    <3>3. max_match_count' \in 0..Len(T) /\ selected_location' \in 1..index
      BY <1>2, <1>7, <2>1
    <3> QED BY <1>1, <1>2, <1>3, <1>6, <1>7, <2>1, <2>2, <2>3, <3>1, <3>2, <3>3
        DEF LocationsPassed
  <2> QED BY <1>1, <1>2, <1>3, <1>4, <1>7, <2>4 DEF LocationInv, Served
<1>9. CASE ~(match_count > m)
  <2>1. n' = n /\ m' = m /\ match_count <= m
    BY <1>1, <1>2, <1>4, <1>6, <1>9
  <2>2. index # 1
    BY <1>2, <1>4, <1>6, <2>1
  <2>3. ASSUME NEW j \in 1..index, NEW k \in Counts, Agree(j, k) PROVE k <= m
    <3>1. CASE j = index
      <4>1. k <= match_count /\ k \in Int
        BY <1>4, <1>5, <2>3, <3>1 DEF Counts
      <4> QED BY <1>2, <1>6, <2>1, <4>1
    <3>2. CASE j \in 1..(index - 1)
      BY <1>6, <2>3, <3>2
    <3> QED BY <1>7, <3>1, <3>2
  <2>4. n \in 1..index
    BY <1>6, <1>7, <2>2
  <2>5. LocationsPassed'
    <3>1. Agree(selected_location, max_match_count)'
      BY <1>1, <1>3, <1>6, <2>1, <2>2 DEF Agree
    <3>2. \A j \in 1..(n - 1) : ~Agree(j, max_match_count)'
      BY <1>1, <1>3, <1>6, <2>1, <2>2 DEF Agree
    <3> QED BY <1>2, <1>3, <1>6, <1>7, <2>1, <2>2, <2>3, <2>4, <3>1, <3>2
        DEF LocationsPassed
  <2> QED BY <1>1, <1>2, <1>3, <1>4, <1>7, <2>5 DEF LocationInv, Served
<1> QED BY <1>8, <1>9

(* What the search has found when it is over.                              *)
LEMMA SearchedFinds ==
  ASSUME ServerInv, LocationInv, Searched
  PROVE  /\ selected_server # 0 /\ selected_location \in 1..Len(Locations)
         /\ IF Special # {} THEN selected_location = First(Special) ELSE Longest
         /\ loop = "returned" => ForExtension(Location, request.uri)
<1>1. /\ selected_server # 0 /\ request \in Requests
      /\ loop = "returned" \/ (loop = "locations" /\ index > Len(Locations))
  BY DEF Searched, ServerInv, Locations
<1>2. /\ Len(Locations) \in Nat \ {0} /\ Special \subseteq 1..Len(Locations)
      /\ \A j \in 1..Len(Locations) : Len(Locations[j].url) \in Nat
  BY <1>1, LocationsCount DEF Locations
<1>3. CASE loop = "returned"
  <2>1. Special # {} /\ selected_location = First(Special)
    BY <1>3 DEF LocationInv
  <2>2. selected_location \in Special
    <3>1. Special \subseteq Nat
      BY <1>2
    <3> QED BY <2>1, <3>1, FirstIsFirst
  <2> QED BY <1>1, <1>2, <2>1, <2>2 DEF Special, Location, Locations
<1>4. CASE loop = "locations" /\ index > Len(Locations)
  <2> DEFINE m == max_match_count
             n == selected_location
  <2>1. index = Len(Locations) + 1 /\ LocationsPassed
    BY <1>2, <1>4 DEF LocationInv
  <2>2. index # 1 /\ index - 1 = Len(Locations) /\ Len(Tokens(request.uri)) \in Nat
    BY <1>1, <1>2, <2>1, TokensCount
  <2>3. /\ \A j \in 1..Len(Locations) : j \notin Special
        /\ \A j \in 1..Len(Locations), k \in Counts : Agree(j, k) => k <= m
        /\ m \in 0..Len(Tokens(request.uri)) /\ n \in 1..Len(Locations) /\ Agree(n, m)
        /\ \A j \in 1..(n - 1) : ~Agree(j, m)
    BY <2>1, <2>2 DEF LocationsPassed
  <2>4. Special = {}
    BY <1>2, <2>3
  <2>5. ASSUME NEW j \in 1..Len(Locations), NEW k \in Counts, Agree(j, k)
        PROVE  Agree(n, k)
    <3>1. k <= m /\ k \in Int /\ m \in Int
      BY <2>2, <2>3, <2>5 DEF Counts
    <3> QED BY <1>2, <2>3, <3>1, SharesFewer
  <2>6. ASSUME NEW j \in 1..(n - 1)
        PROVE  \E k \in Counts : Agree(n, k) /\ ~Agree(j, k)
    <3>1. j \in 1..Len(Locations)
      BY <1>2, <2>3
    <3>2. m # 0
      BY <1>2, <2>3, <2>6, <3>1, SharesNone
    <3>3. m \in Counts
      BY <2>2, <2>3, <3>2 DEF Counts
    <3> QED BY <2>3, <2>6, <3>3
  <2> QED BY <1>1, <1>4, <2>3, <2>4, <2>5, <2>6 DEF Longest
<1> QED BY <1>1, <1>3, <1>4

LEMMA LocationInvNext ==
  ASSUME ServerInv, LocationInv, [Next]_vars
  PROVE  LocationInv'
<1>1. ASSUME NEW q \in Requests, SetConfigInfo(q) PROVE LocationInv'
  BY <1>1 DEF SetConfigInfo, LocationInv, Served
<1>2. CASE NextServer
  BY <1>2 DEF NextServer, LocationInv, Served
<1>3. CASE Serve
  <2>1. /\ Searched /\ loop' = "idle"
        /\ UNCHANGED <<selected_server, selected_location, request>>
    BY <1>3, ServeKeeps
  <2>2. /\ selected_server # 0 /\ selected_location \in 1..Len(Locations)
        /\ IF Special # {} THEN selected_location = First(Special) ELSE Longest
    BY <2>1, SearchedFinds
  <2>3. Locations' = Locations /\ Special' = Special /\ Longest' = Longest
    BY <2>1, BlockFixes
  <2> QED BY <2>1, <2>2, <2>3 DEF LocationInv
<1>4. CASE Reconnect
  BY <1>4 DEF Reconnect, svars, LocationInv, Served, NoRequest
<1>5. CASE Elsewhere
  <2>1. /\ UNCHANGED <<selected_server, selected_location, loop, index, match_count,
                       max_match_count>>
        /\ \/ \E q \in Requests : request' = q /\ q.error # 200 /\ loop = "idle"
           \/ request' = NoRequest /\ loop = "idle"
           \/ UNCHANGED request
    BY <1>5, ElsewhereKeeps DEF selection, svars
  <2>2. Locations' = Locations
    BY <2>1 DEF Locations, Block
  <2>3. CASE UNCHANGED request
    BY <2>1, <2>2, <2>3, BlockFixes DEF LocationInv, Served, Agree
  <2>4. CASE loop = "idle" /\ ~Served'
    BY <2>1, <2>2, <2>4 DEF LocationInv
  <2> QED BY <2>1, <2>3, <2>4 DEF Served
<1>6. CASE UNCHANGED vars
  <2>1. UNCHANGED <<selected_server, selected_location, loop, index, match_count,
                    max_match_count, request>>
    BY <1>6 DEF vars, svars
  <2>2. Locations' = Locations
    BY <2>1 DEF Locations, Block
  <2> QED BY <2>1, <2>2, BlockFixes DEF LocationInv, Served, Agree
<1> QED BY <1>1, <1>2, <1>3, <1>4, <1>5, <1>6, StepIs, StartLocationsKeepsLocation,
           NextLocationKeepsLocation, NextTokenKeepsLocation, EndOfTokensKeepsLocation

(* The location that serves a request is the first for the extension of    *)
(* its uri, or the first of those that share most leading tokens with it,  *)
(* whatever served the connection before (Connection::setConfigInfo).      *)
THEOREM FirstLongestServesAlways == Spec => []FirstLongestServes
<1>1. LocationInv => FirstLongestServes
  BY DEF LocationInv, FirstLongestServes, Special, Longest, Locations, Counts, Agree
<1> QED BY <1>1, ServerInvInit, ServerInvNext, LocationInvInit, LocationInvNext, PTL
    DEF Spec
-----------------------------------------------------------------------------
(* Deletions.                                                              *)

(* The resource path is an end of the path it was cut from. *)
PathInv == path_of \in Seq(STRING) /\ resource_path \in Ends(path_of)

LEMMA ResourcePathsEnd ==
  ASSUME NEW location, location.url \in Seq(STRING), NEW path \in Seq(STRING)
  PROVE  ResourcePaths(location, path) \subseteq Ends(path)
<1>1. CASE IsPrefix(location.url, path)
  <2>1. Len(location.url) + 1 \in 1..(Len(path) + 1)
    BY <1>1 DEF IsPrefix
  <2>2. SubSeq(path, Len(location.url) + 1, Len(path)) \in Ends(path)
    BY <2>1, Zenon DEF Ends
  <2> QED BY <1>1, <2>2 DEF ResourcePaths
<1>2. CASE ~IsPrefix(location.url, path)
  BY <1>2 DEF ResourcePaths
<1> QED BY <1>1, <1>2

(* What setResourcePath leaves, called or not.                             *)
LEMMA NewPathEnds ==
  ASSUME ServerInv, LocationInv, PathInv, Searched, NEW path, NewPath(path)
  PROVE  /\ path_of' \in Seq(STRING) /\ path \in Ends(path_of')
         /\ path_of' # request.uri.path => ForExtension(Location, request.uri)
<1>1. CASE loop = "returned"
  BY <1>1, SearchedFinds DEF NewPath, PathInv
<1>2. CASE loop # "returned"
  <2>1. path_of' = request.uri.path /\ path \in ResourcePaths(Location, request.uri.path)
    BY <1>2 DEF NewPath
  <2>2. request.uri.path \in Seq(STRING)
    <3>1. request \in Requests
      BY DEF Searched, ServerInv
    <3> QED BY <3>1, RoutingAssumption
  <2>3. Location.url \in Seq(STRING)
    BY SearchedFinds, LocationsCount DEF Location, Locations
  <2> QED BY <2>1, <2>2, <2>3, ResourcePathsEnd
<1> QED BY <1>1, <1>2

LEMMA PathInvInit == Init => PathInv
<1>1. <<>> \in Ends(<<>>)
  <2>1. 1 \in 1..(Len(<<>>) + 1) /\ SubSeq(<<>>, 1, Len(<<>>)) = <<>>
    OBVIOUS
  <2> QED BY <2>1, Zenon DEF Ends
<1> QED BY <1>1 DEF Init, PathInv

LEMMA PathInvNext ==
  ASSUME ServerInv, LocationInv, PathInv, [Next]_vars
  PROVE  PathInv'
<1>1. CASE Serve
  <2>1. Searched
    BY <1>1, ServeKeeps
  <2>2. \/ \E path : NewPath(path) /\ resource_path' = path
        \/ UNCHANGED <<resource_path, path_of>>
    BY <1>1, Zenon DEF Serve
  <2> QED BY <2>1, <2>2, NewPathEnds DEF PathInv
<1>2. CASE Reconnect
  <2>1. <<>> \in Ends(<<>>)
    <3>1. 1 \in 1..(Len(<<>>) + 1) /\ SubSeq(<<>>, 1, Len(<<>>)) = <<>>
      OBVIOUS
    <3> QED BY <3>1, Zenon DEF Ends
  <2> QED BY <1>2, <2>1 DEF Reconnect, PathInv
<1>3. ASSUME NEW q \in Requests, SetConfigInfo(q) PROVE PathInv'
  BY <1>3 DEF SetConfigInfo, others, PathInv
<1>4. CASE NextServer \/ StartLocations \/ NextLocation \/ NextToken \/ EndOfTokens
  BY <1>4 DEF NextServer, StartLocations, NextLocation, NextToken, EndOfTokens, others,
              PathInv
<1>5. CASE Elsewhere
  BY <1>5, ElsewhereKeeps DEF selection, PathInv
<1>6. CASE UNCHANGED vars
  BY <1>6 DEF vars, PathInv
<1> QED BY <1>1, <1>2, <1>3, <1>4, <1>5, <1>6, StepIs

(* Only a DELETE that the location found for it allows removes a file, the *)
(* one that an end of its own path names, or for an extension location of  *)
(* a path that was served before on the same connection (createPagePath).  *)
THEOREM DeletionsAllowedAlways == Spec => DeletionsAllowed
<1>1. ASSUME ServerInv, LocationInv, PathInv, Serve, NEW file \in files \ files'
      PROVE  /\ request.method = "DELETE" /\ "DELETE" \in Location.allowed_method
             /\ \E path \in Ends(path_of') : file = FileAt(Location.root_dir, path)
             /\ path_of' # request.uri.path => ForExtension(Location, request.uri)
  <2> DEFINE c == CheckedCode(request, Block, Location, loop = "returned")
  <2>1. PICK path : NewPath(path) /\ IsResponseOk(c) /\ Delete(request, Location, path)
    BY <1>1, Zenon DEF Serve, Browse, Open
  <2>2. request.method = "DELETE" /\ file = FileAt(Location.root_dir, path)
    BY <1>1, <2>1 DEF Delete
  <2>3. request.method \in Location.allowed_method
    BY <2>1 DEF IsResponseOk, CheckedCode
  <2>4. Searched
    BY <1>1, ServeKeeps
  <2> QED BY <1>1, <2>1, <2>2, <2>3, <2>4, NewPathEnds
<1>2. ASSUME ~Serve, [Next]_vars PROVE files' = files
  <2>1. ASSUME NEW q \in Requests, SetConfigInfo(q) PROVE files' = files
    BY <2>1 DEF SetConfigInfo, others
  <2> QED BY <1>2, <2>1, StepIs, ElsewhereKeeps DEF NextServer, StartLocations, NextLocation,
             NextToken, EndOfTokens, Reconnect, others, vars
<1>3. ServerInv /\ LocationInv /\ PathInv /\ [Next]_vars =>
        \A file \in files \ files' :
          /\ request.method = "DELETE" /\ "DELETE" \in Location.allowed_method
          /\ \E path \in Ends(path_of') : file = FileAt(Location.root_dir, path)
          /\ path_of' # request.uri.path => ForExtension(Location, request.uri)
  BY <1>1, <1>2
<1> QED BY <1>3, ServerInvInit, ServerInvNext, LocationInvInit, LocationInvNext,
           PathInvInit, PathInvNext, PTL DEF Spec, DeletionsAllowed
-----------------------------------------------------------------------------
(* What a reply is made of.                                                *)

(* Of createHeaderLine, whatever the fields h of a script: the length is   *)
(* that of the body, and every field has one of these names.               *)
LEMMA HeaderLine ==
  ASSUME NEW q, NEW l, NEW c, NEW page, NEW modified, NEW h, NEW b
  PROVE  LET line == CreateHeaderLine(q, l, c, page, modified, h, b)
         IN  /\ Size(b) # 0 => /\ "content-length" \in DOMAIN line
                               /\ line["content-length"] = numberToString(Size(b))
             /\ \A name \in DOMAIN line :
                  \/ name \in {"connection", "content-length", "last-modified"}
                  \/ c = 301 /\ name = "location"
                  \/ c = 405 /\ name = "allowed"
                  \/ name = "content-type"
                  \/ name \in DOMAIN h
             /\ "content-type" \in DOMAIN line /\ "content-type" \notin DOMAIN h =>
                  line["content-type"] = FindMimeType(page, c)
<1> DEFINE own == OwnFields(c, modified, b)
           type == {name \in {"content-type"} : Size(b) # 0}
           line == [name \in own \cup DOMAIN h \cup type |->
                      IF name \in own           THEN OwnValue(name, q, l, c, b)
                      ELSE IF name \in DOMAIN h THEN h[name]
                      ELSE FindMimeType(page, c)]
<1>1. CreateHeaderLine(q, l, c, page, modified, h, b) = line
  BY Zenon DEF CreateHeaderLine
<1>2. /\ own \subseteq {"connection", "last-modified", "location", "allowed",
                        "content-length"}
      /\ "location" \in own => c = 301
      /\ "allowed" \in own => c = 405
      /\ Size(b) # 0 => "content-length" \in own
      /\ "content-type" \notin own
  BY DEF OwnFields
<1>3. OwnValue("content-length", q, l, c, b) = numberToString(Size(b))
  BY DEF OwnValue
<1> HIDE DEF own
<1>4. /\ DOMAIN line = own \cup DOMAIN h \cup type
      /\ \A name \in own : line[name] = OwnValue(name, q, l, c, b)
      /\ \A name \in type : name \notin own \cup DOMAIN h => line[name] = FindMimeType(page, c)
  OBVIOUS
<1>5. type \subseteq {"content-type"}
  OBVIOUS
<1> HIDE DEF line, type
<1> DEFINE made == CreateHeaderLine(q, l, c, page, modified, h, b)
<1>6. made = line
  BY <1>1
<1> HIDE DEF made
<1>7. Size(b) # 0 => /\ "content-length" \in DOMAIN made
                     /\ made["content-length"] = numberToString(Size(b))
  BY <1>2, <1>3, <1>4, <1>6
<1>8. \A name \in DOMAIN made :
        \/ name \in {"connection", "content-length", "last-modified"}
        \/ c = 301 /\ name = "location"
        \/ c = 405 /\ name = "allowed"
        \/ name = "content-type"
        \/ name \in DOMAIN h
  <2> TAKE name \in DOMAIN made
  <2>1. name \in own \/ name \in DOMAIN h \/ name = "content-type"
    BY <1>4, <1>5, <1>6
  <2>2. name \in own => name \in {"connection", "last-modified", "location", "allowed",
                                 "content-length"}
    BY <1>2
  <2> QED BY <1>2, <2>1, <2>2
<1>9. "content-type" \in DOMAIN made /\ "content-type" \notin DOMAIN h =>
        made["content-type"] = FindMimeType(page, c)
  BY <1>2, <1>4, <1>6
<1> QED BY <1>7, <1>8, <1>9, Zenon DEF made

(* Of createStatusLine and createResponseMessage: a reply is made, or the  *)
(* builder is left as it was.                                              *)
LEMMA Responded ==
  ASSUME NEW q, NEW l, NEW c, NEW how, NEW page, NEW h, NEW b,
         Respond(q, l, c, how, page, h, b)
  PROVE  /\ code' = c
         /\ \/ /\ answer' \in {"throws", "crashes"}
               /\ UNCHANGED <<headers, body, response_message>>
            \/ \E line :
                 /\ answer' = how /\ headers' = line /\ body' = b
                 /\ response_message' = Append(response_message,
                                          [code |-> c, headers |-> line, body |-> b])
                 /\ \E modified : line = CreateHeaderLine(q, l, c, page, modified, h, b)
  BY Zenon DEF Respond, CreateResponseMessage

(* What a step does to the reply under way: handlingStaticPage makes one,  *)
(* a script starts, an exception closes the connection, ...                *)
Codes == {200, 204, 301, 400, 404, 405, 500, 501}

Waiting == answer = "cgi" /\ response_message = <<>>

MakesPage ==
  \E q, l, page : \E c \in Codes : HandlingStaticPage(q, l, c, page)
CgiCodes  == {200, 204}
StartsCgi == code' \in CgiCodes /\ answer' = "cgi" /\ UNCHANGED <<source, rvars>>
Throws    == code' = 200 /\ answer' = "throws" /\ UNCHANGED <<source, rvars>>
Starts    == code' = 200 /\ answer' = "none" /\ source' = <<>> /\ Clear

LEMMA AnswersEither ==
  ASSUME NEW q, NEW l, NEW c \in CgiCodes, NEW path, Answers(q, l, c, path)
  PROVE  MakesPage \/ StartsCgi
<1>1. c \in Codes
  BY DEF Codes, CgiCodes
<1> QED BY <1>1, Zenon DEF Answers, MakesPage, StartsCgi

LEMMA ServeEither ==
  ASSUME Serve
  PROVE  MakesPage \/ StartsCgi \/ Throws
<1> DEFINE q  == request
           l  == Location
           c  == CheckedCode(q, Block, l, loop = "returned")
<1>2. \/ Throws
      \/ \E path : IsResponseOk(c) /\ (Delete(q, l, path) \/ Browse(q, l, path) \/ Open(q, l, path))
      \/ \E page : HandlingStaticPage(q, l, c, page)
  <2>1. \/ /\ code' = 200 /\ answer' = "throws"
           /\ UNCHANGED <<source, rvars>>
        \/ \E path :
             IF IsResponseOk(c) THEN Delete(q, l, path) \/ Browse(q, l, path) \/ Open(q, l, path)
             ELSE HandlingStaticPage(q, l, c, IF c = 301 THEN NoPage ELSE ErrorPage)
    BY Zenon DEF Serve
  <2> HIDE DEF q, l, c
  <2> QED BY <2>1 DEF Throws
<1>3. c \in {200, 301, 400, 405}
  BY DEF CheckedCode
<1> HIDE DEF q, l, c
<1>4. ASSUME NEW path, Delete(q, l, path) PROVE MakesPage \/ StartsCgi
  <2>1. \/ Answers(q, l, 204, path)
        \/ HandlingStaticPage(q, l, 204, NoPage)
        \/ HandlingStaticPage(q, l, 400, ErrorPage)
    BY <1>4, Zenon DEF Delete
  <2>2. 204 \in Codes /\ 400 \in Codes
    BY DEF Codes
  <2>3. Answers(q, l, 204, path) => MakesPage \/ StartsCgi
    <3> DEFINE k == 204
    <3>1. k \in CgiCodes
      BY DEF CgiCodes
    <3> HIDE DEF k
    <3>2. Answers(q, l, k, path) => MakesPage \/ StartsCgi
      BY <3>1, AnswersEither, Zenon
    <3> QED BY <3>2, Zenon DEF k
  <2> QED BY <2>1, <2>2, <2>3, Zenon DEF MakesPage
<1>5. ASSUME NEW path, Browse(q, l, path) \/ Open(q, l, path)
      PROVE  MakesPage \/ StartsCgi
  <2>1. \/ \E p : Answers(q, l, 200, p)
        \/ \E page : HandlingStaticPage(q, l, 404, page)
    BY <1>5, Zenon DEF Browse, Open
  <2>2. 404 \in Codes
    BY DEF Codes
  <2>3. \A p : Answers(q, l, 200, p) => MakesPage \/ StartsCgi
    <3> DEFINE k == 200
    <3>1. k \in CgiCodes
      BY DEF CgiCodes
    <3> HIDE DEF k
    <3>2. \A p : Answers(q, l, k, p) => MakesPage \/ StartsCgi
      BY <3>1, AnswersEither, Zenon
    <3> QED BY <3>2, Zenon DEF k
  <2> QED BY <2>1, <2>2, <2>3, Zenon DEF MakesPage
<1>6. c \in Codes
  BY <1>3 DEF Codes
<1> QED BY <1>2, <1>4, <1>5, <1>6, Zenon DEF MakesPage

(* Nothing is answered during a search. *)
Unanswered == loop # "idle" => answer = "none"

LEMMA UnansweredKept ==
  ASSUME Unanswered, [Next]_vars
  PROVE  Unanswered'
<1>1. ASSUME NEW q \in Requests, SetConfigInfo(q) PROVE answer' = "none"
  BY <1>1 DEF SetConfigInfo, others
<1>2. CASE NextServer \/ StartLocations \/ NextLocation \/ NextToken \/ EndOfTokens
  BY <1>2 DEF Unanswered, NextServer, StartLocations, NextLocation, NextToken, EndOfTokens,
              others
<1>3. Serve => loop' = "idle"
  BY ServeKeeps
<1>4. Reconnect => loop' = "idle"
  BY DEF Reconnect, svars
<1>5. ASSUME Elsewhere PROVE loop' = "idle"
  <2>1. loop = "idle"
    BY <1>5, Zenon DEF Elsewhere, ServeError, CgiEnds, CgiTimesOut, KeepAlive, Unanswered
  <2> QED BY <1>5, <2>1, ElsewhereKeeps DEF svars
<1>6. UNCHANGED vars => UNCHANGED <<loop, answer>>
  BY DEF vars, svars
<1> QED BY <1>1, <1>2, <1>3, <1>4, <1>5, <1>6, StepIs DEF Unanswered

(* Steps of the search, and those of nobody, change nothing of a reply.    *)
Quiet == UNCHANGED <<code, answer, source, rvars>>

LEMMA StepEither ==
  ASSUME ServerInv, Unanswered, [Next]_vars
  PROVE  \/ (answer = "none" \/ Waiting) /\ MakesPage
         \/ answer = "none" /\ (StartsCgi \/ Throws)
         \/ CgiEnds
         \/ Starts
         \/ Quiet
<1>1. ASSUME NEW q \in Requests, ServeError(q)
      PROVE  answer = "none" /\ MakesPage
  <2>1. q.error \in Codes
    BY RoutingAssumption DEF Codes
  <2> QED BY <1>1, <2>1, Zenon DEF ServeError, MakesPage
<1>2. CgiTimesOut => Waiting /\ MakesPage
  <2>1. 500 \in Codes
    BY DEF Codes
  <2> QED BY <2>1, Zenon DEF CgiTimesOut, Waiting, MakesPage
<1>3. KeepAlive \/ Reconnect => Starts
  BY DEF KeepAlive, Reconnect, Starts
<1>4. Serve => answer = "none" /\ (MakesPage \/ StartsCgi \/ Throws)
  <2>1. Serve => answer = "none"
    BY ServeKeeps DEF Searched, Unanswered
  <2> QED BY <2>1, ServeEither
<1>5. Search \/ UNCHANGED vars => Quiet
  BY DEF Search, SetConfigInfo, NextServer, StartLocations, NextLocation, NextToken,
         EndOfTokens, others, vars, Quiet
<1> QED BY <1>1, <1>2, <1>3, <1>4, <1>5, Zenon DEF Next

(* The builder is empty until a reply is made, and as long as a script has *)
(* to answer nothing but its start has set the code.                       *)
Fresh ==
  /\ answer = "none" => response_message = <<>>
  /\ response_message = <<>> => headers = <<>> /\ body = <<>>
  /\ response_message = <<>> /\ answer \in {"none", "cgi"} => leftover = <<>>
  /\ Waiting => code \in {200, 204}

(* The header a script wrote ends before its first empty line, if there is *)
(* one before its last line (parseCgiHeader).                              *)
LEMMA FirstEmptyLine ==
  ASSUME NEW out \in Seq(Seq(STRING)), EmptyLines(out) # {}
  PROVE  /\ Min(EmptyLines(out)) \in 1..(Len(out) - 1)
         /\ out[Min(EmptyLines(out))] = <<>>
         /\ \A i \in 1..(Min(EmptyLines(out)) - 1) : out[i] # <<>>
<1> DEFINE E == EmptyLines(out)
<1>1. E \subseteq Nat /\ \A i \in E : i \in 1..(Len(out) - 1) /\ out[i] = <<>>
  BY DEF EmptyLines
<1>2. Min(E) = First(E)
  BY Zenon DEF Min, First
<1>3. Min(E) \in E /\ \A j \in E : Min(E) <= j
  BY <1>1, <1>2, FirstIsFirst
<1>4. ASSUME NEW i \in 1..(Min(E) - 1) PROVE out[i] # <<>>
  <2>1. i \in 1..(Len(out) - 1) /\ i \notin E
    BY <1>1, <1>3
  <2> QED BY <2>1 DEF EmptyLines
<1> QED BY <1>1, <1>3, <1>4

LEMMA AfterHeaderIs ==
  ASSUME NEW out \in Seq(Seq(STRING)), out # <<>>
  PROVE  /\ AfterHeader(out) \in Seq(Seq(STRING)) \ {<<>>}
         /\ EmptyLines(out) # {} => Headed(out, AfterHeader(out))
<1> DEFINE m == Min(EmptyLines(out))
<1>1. Len(out) \in Nat \ {0}
  OBVIOUS
<1>2. CASE EmptyLines(out) = {}
  <2>1. AfterHeader(out) = SubSeq(out, Len(out), Len(out))
    BY <1>2, Zenon DEF AfterHeader
  <2> QED BY <1>1, <1>2, <2>1
<1>3. CASE EmptyLines(out) # {}
  <2>1. m \in 1..(Len(out) - 1) /\ out[m] = <<>> /\ \A i \in 1..(m - 1) : out[i] # <<>>
    BY <1>3, FirstEmptyLine
  <2>2. AfterHeader(out) = SubSeq(out, m + 1, Len(out))
    BY <1>3, Zenon DEF AfterHeader
  <2> HIDE DEF m
  <2>3. SubSeq(out, m, Len(out)) = <<<<>>>> \o SubSeq(out, m + 1, Len(out))
    <3>1. /\ SubSeq(out, m, Len(out)) \in Seq(Seq(STRING))
          /\ <<<<>>>> \o SubSeq(out, m + 1, Len(out)) \in Seq(Seq(STRING))
      BY SMTT(30), <2>1
    <3>2. /\ Len(SubSeq(out, m, Len(out))) = Len(out) - m + 1
          /\ Len(<<<<>>>> \o SubSeq(out, m + 1, Len(out))) = Len(out) - m + 1
      BY <2>1
    <3>3. ASSUME NEW i \in 1..(Len(out) - m + 1)
          PROVE  SubSeq(out, m, Len(out))[i] = (<<<<>>>> \o SubSeq(out, m + 1, Len(out)))[i]
      <4>1. SubSeq(out, m, Len(out))[i] = out[m + i - 1]
        BY <2>1
      <4>2. CASE i = 1
        BY <2>1, <4>1, <4>2
      <4>3. CASE i # 1
        <5>1. (<<<<>>>> \o SubSeq(out, m + 1, Len(out)))[i] = SubSeq(out, m + 1, Len(out))[i - 1]
          BY <2>1, <4>3
        <5>2. SubSeq(out, m + 1, Len(out))[i - 1] = out[m + i - 1]
          BY <2>1, <4>3
        <5> QED BY <4>1, <5>1, <5>2
      <4> QED BY <4>2, <4>3
    <3> QED BY <3>1, <3>2, <3>3, SeqEqual
  <2>4. m - 1 \in 0..(Len(out) - 1) /\ (m - 1) + 1 = m
    BY <2>1
  <2>5. Headed(out, AfterHeader(out))
    BY <2>1, <2>2, <2>3, <2>4, Zenon DEF Headed
  <2>6. AfterHeader(out) \in Seq(Seq(STRING)) \ {<<>>}
    <3>1. SubSeq(out, m + 1, Len(out)) \in Seq(Seq(STRING))
      BY <2>1
    <3>2. Len(SubSeq(out, m + 1, Len(out))) = Len(out) - m
      BY <2>1
    <3>3. Len(out) - m # 0 /\ Len(<<>>) = 0
      BY <1>1, <2>1
    <3>4. SubSeq(out, m + 1, Len(out)) # <<>>
      BY <3>2, <3>3
    <3> QED BY <2>2, <3>1, <3>4
  <2> QED BY <2>5, <2>6
<1> QED BY <1>2, <1>3

LEMMA HeadOfPrepended ==
  ASSUME NEW S, NEW x \in S, NEW t \in Seq(S)
  PROVE  Len(<<x>> \o t) = 1 + Len(t) /\ (<<x>> \o t)[1] = x
<1>1. <<x>> \in Seq(S) /\ Len(<<x>>) = 1 /\ <<x>>[1] = x
  OBVIOUS
<1> QED BY <1>1, ConcatProperties

LEMMA NoHeader ==
  ASSUME NEW out \in Seq(Seq(STRING)), EmptyLines(out) = {},
         NEW i \in 2..Len(out), Headed(out, SubSeq(out, i, Len(out)))
  PROVE  FALSE
<1> DEFINE text == SubSeq(out, i, Len(out))
<1>1. PICK h \in 0..(Len(out) - 1) : SubSeq(out, h + 1, Len(out)) = <<<<>>>> \o text
  BY Zenon DEF Headed
<1>2. text \in Seq(Seq(STRING)) /\ Len(text) = Len(out) - i + 1
  OBVIOUS
<1>3. Len(SubSeq(out, h + 1, Len(out))) = Len(out) - h
  BY <1>1
<1>4. SubSeq(out, h + 1, Len(out))[1] = out[h + 1]
  BY <1>1
<1> HIDE DEF text
<1>5. Len(<<<<>>>> \o text) = 1 + Len(text) /\ (<<<<>>>> \o text)[1] = <<>>
  <2>1. <<>> \in Seq(STRING)
    OBVIOUS
  <2> QED BY <1>2, <2>1, HeadOfPrepended
<1>6. h + 1 \in 1..(Len(out) - 1)
  <2>1. Len(out) - h = 1 + (Len(out) - i + 1)
    BY <1>1, <1>2, <1>3, <1>5
  <2>2. Len(out) \in Nat
    OBVIOUS
  <2> QED BY <2>1, <2>2
<1>7. out[h + 1] = <<>>
  BY <1>1, <1>4, <1>5
<1> QED BY <1>6, <1>7 DEF EmptyLines

LEMMA HeaderLinesAre ==
  ASSUME NEW out \in Seq(Seq(STRING)), out # <<>>
  PROVE  /\ HeaderLines(out) \in Seq(Seq(STRING))
         /\ Len(HeaderLines(out)) \in 0..(Len(out) - 1)
         /\ \A i \in 1..Len(HeaderLines(out)) : HeaderLines(out)[i] = out[i]
<1> DEFINE n == IF EmptyLines(out) = {} THEN Len(out) - 1 ELSE Min(EmptyLines(out)) - 1
<1>1. Len(out) \in Nat \ {0}
  OBVIOUS
<1>2. n \in 0..(Len(out) - 1)
  BY <1>1, FirstEmptyLine
<1>3. HeaderLines(out) = SubSeq(out, 1, n)
  BY Zenon DEF HeaderLines
<1> HIDE DEF n
<1> QED BY <1>1, <1>2, <1>3

(* A text of no bytes is empty, or one empty line. *)
LEMMA SizeZero ==
  ASSUME NEW t \in Seq(Seq(STRING)), Size(t) = 0, t # <<>>
  PROVE  t = <<<<>>>>
<1>1. Last(t) = <<>> /\ Len(t) = 1
  BY DEF Size
<1>2. t[1] = <<>>
  BY <1>1 DEF Last
<1> QED BY <1>1, <1>2

(* The one reply that a step makes, and how a step can fail to make one.   *)
OneReply(page, h, b) ==
  \E q, l, modified :
    response_message' = <<[code |-> code', body |-> b,
        headers |-> CreateHeaderLine(q, l, code', page, modified, h, b)]>>

NoReply ==
  answer' \in {"throws", "crashes"} /\ UNCHANGED <<headers, body, response_message>>

LEMMA FirstReply ==
  ASSUME NEW q, NEW l, NEW c, NEW how, NEW page, NEW h, NEW b,
         response_message = <<>>, Respond(q, l, c, how, page, h, b)
  PROVE  code' = c /\ (NoReply \/ (answer' = how /\ OneReply(page, h, b)))
<1>1. /\ code' = c
      /\ \/ /\ answer' \in {"throws", "crashes"}
            /\ UNCHANGED <<headers, body, response_message>>
         \/ \E line :
              /\ answer' = how /\ headers' = line /\ body' = b
              /\ response_message' = Append(response_message,
                                       [code |-> c, headers |-> line, body |-> b])
              /\ \E modified : line = CreateHeaderLine(q, l, c, page, modified, h, b)
  BY Responded
<1>2. ASSUME NEW line, NEW modified, answer' = how, code' = c,
             line = CreateHeaderLine(q, l, c, page, modified, h, b),
             response_message' = Append(response_message,
                                   [code |-> c, headers |-> line, body |-> b])
      PROVE  OneReply(page, h, b)
  <2>1. response_message' = <<[code |-> c, headers |-> line, body |-> b]>>
    BY <1>2
  <2>2. response_message' = <<[code |-> code', body |-> b,
            headers |-> CreateHeaderLine(q, l, code', page, modified, h, b)]>>
    BY <1>2, <2>1
  <2> QED BY <2>2, Zenon DEF OneReply
<1> QED BY <1>1, <1>2, Zenon DEF NoReply

LEMMA PageMade ==
  ASSUME Fresh, answer = "none" \/ Waiting, MakesPage
  PROVE  /\ code' \in Codes
         /\ \/ NoReply
            \/ answer' = "page" /\ OneReply(source', <<>>, Content(source'))
<1>1. response_message = <<>> /\ headers = <<>> /\ body = <<>>
  BY DEF Fresh, Waiting
<1>2. PICK q, l, page, c : c \in Codes /\ HandlingStaticPage(q, l, c, page)
  BY Zenon DEF MakesPage
<1>3. CreateBody(body, page) = Content(page)
  <2>1. Size(<<>>) = 0
    BY DEF Size
  <2> QED BY <1>1, <2>1 DEF CreateBody
<1>4. Respond(q, l, c, "page", page, <<>>, Content(page)) /\ source' = page
  BY <1>1, <1>2, <1>3 DEF HandlingStaticPage
<1>5. /\ code' = c
      /\ NoReply \/ (answer' = "page" /\ OneReply(page, <<>>, Content(page)))
  BY <1>1, <1>4, FirstReply
<1> QED BY <1>2, <1>4, <1>5, Zenon

(* The fields of a script, under the names its header lines give them.     *)
LEMMA ScriptFields ==
  ASSUME headers = <<>>, NEW out \in Outputs,
         NEW name \in DOMAIN ParseFields(HeaderLines(out))
  PROVE  \E i \in 1..(Len(out) - 1) : Len(out[i]) = 2 /\ LowerCase[out[i][1]] = name
<1> DEFINE lines == HeaderLines(out)
<1>1. out \in Seq(Seq(STRING)) /\ out # <<>> /\ \A i \in 1..Len(out) : Len(out[i]) <= 2
  BY RoutingAssumption
<1>2. /\ Len(lines) \in 0..(Len(out) - 1)
      /\ \A i \in 1..Len(lines) : lines[i] = out[i]
  BY <1>1, HeaderLinesAre
<1>3. DOMAIN ParseFields(lines) = {LowerCase[lines[i][1]] : i \in GoodFields(lines)} \cup DOMAIN headers
  BY Zenon DEF ParseFields
<1>4. DOMAIN headers = {}
  OBVIOUS
<1> HIDE DEF lines
<1>5. name \in DOMAIN ParseFields(lines)
  BY DEF lines
<1>6. PICK i \in GoodFields(lines) : name = LowerCase[lines[i][1]]
  BY <1>3, <1>4, <1>5
<1>7. i \in 1..Len(lines) /\ Len(lines[i]) >= 2
  BY <1>6 DEF GoodFields, Fields
<1>8. i \in 1..(Len(out) - 1) /\ i \in 1..Len(out) /\ out[i] = lines[i]
  BY <1>1, <1>2, <1>7
<1>9. Len(out[i]) = 2
  <2>1. out[i] \in Seq(STRING)
    BY <1>1, <1>8
  <2>2. Len(out[i]) \in Nat
    BY <2>1
  <2>3. Len(out[i]) <= 2 /\ Len(out[i]) >= 2
    BY <1>1, <1>7, <1>8
  <2>4. \A n \in Nat : n <= 2 /\ n >= 2 => n = 2
    OBVIOUS
  <2> QED BY <2>2, <2>3, <2>4, Zenon
<1> QED BY <1>6, <1>8, <1>9

(* The body: what follows the header, or the error page (parseCgiOutput).  *)
LEMMA ScriptBody ==
  ASSUME body = <<>>, NEW out \in Outputs
  PROVE  \/ ParseCgiOutput(out) = AfterHeader(out)
         \/ ParseCgiOutput(out) = Content(ErrorPage) /\ AfterHeader(out) = <<<<>>>>
<1>1. out \in Seq(Seq(STRING)) /\ out # <<>>
  BY RoutingAssumption
<1>2. AfterHeader(out) \in Seq(Seq(STRING)) /\ AfterHeader(out) # <<>>
  BY <1>1, AfterHeaderIs
<1>3. Join(body, AfterHeader(out)) = AfterHeader(out)
  BY DEF Join
<1>4. Size(<<>>) = 0
  BY DEF Size
<1>5. CreateBody(<<>>, ErrorPage) = Content(ErrorPage)
  BY <1>4, Zenon DEF CreateBody
<1>6. ParseCgiOutput(out) = IF Size(AfterHeader(out)) = 0 THEN Content(ErrorPage)
                            ELSE AfterHeader(out)
  BY <1>3, <1>5, Zenon DEF ParseCgiOutput
<1> QED BY <1>2, <1>6, SizeZero

LEMMA CgiMade ==
  ASSUME Fresh, CgiEnds
  PROVE  /\ Waiting /\ headers = <<>> /\ body = <<>>
         /\ source' \in Outputs /\ code' \in {code, 400}
         /\ \/ NoReply
            \/ answer' = "cgi" /\ OneReply(NoPage, ParseFields(HeaderLines(source')),
                                           ParseCgiOutput(source'))
<1>1. Waiting /\ response_message = <<>>
  BY DEF CgiEnds, Waiting
<1>2. headers = <<>> /\ body = <<>> /\ leftover = <<>>
  BY <1>1 DEF Fresh, Waiting
<1>3. \A out : Join(leftover, out) = out
  BY <1>2 DEF Join
<1>4. PICK out \in Outputs :
        /\ Respond(request, Location, ParseCgiHeader(out, code).code, "cgi", NoPage,
                   ParseCgiHeader(out, code).headers, ParseCgiOutput(out))
        /\ source' = out
  BY <1>3, Zenon DEF CgiEnds
<1>5. /\ ParseCgiHeader(out, code).headers = ParseFields(HeaderLines(out))
      /\ ParseCgiHeader(out, code).code \in {code, 400}
  BY DEF ParseCgiHeader
<1> QED BY <1>1, <1>2, <1>4, <1>5, FirstReply

LEMMA FreshKept ==
  ASSUME Fresh, ServerInv, Unanswered, [Next]_vars
  PROVE  Fresh'
<1>1. CASE (answer = "none" \/ Waiting) /\ MakesPage
  <2>1. response_message = <<>> /\ headers = <<>> /\ body = <<>>
    BY <1>1 DEF Fresh, Waiting
  <2>2. CASE NoReply
    BY <2>1, <2>2 DEF NoReply, Fresh, Waiting
  <2>3. CASE answer' = "page" /\ OneReply(source', <<>>, Content(source'))
    <3>1. response_message' # <<>>
      BY <2>3 DEF OneReply
    <3> QED BY <2>3, <3>1 DEF Fresh, Waiting
  <2> QED BY <1>1, <2>2, <2>3, PageMade
<1>2. CASE answer = "none" /\ (StartsCgi \/ Throws)
  BY <1>2 DEF Fresh, Waiting, StartsCgi, CgiCodes, Throws, rvars
<1>3. CASE CgiEnds
  <2>1. response_message = <<>> /\ headers = <<>> /\ body = <<>>
    BY <1>3, CgiMade DEF Waiting
  <2>2. CASE NoReply
    BY <2>1, <2>2 DEF NoReply, Fresh, Waiting
  <2>3. ASSUME NEW h, NEW b, answer' = "cgi", OneReply(NoPage, h, b)
        PROVE  Fresh'
    <3>1. response_message' # <<>>
      BY <2>3 DEF OneReply
    <3> QED BY <2>3, <3>1 DEF Fresh, Waiting
  <2> QED BY <1>3, <2>2, <2>3, CgiMade
<1>4. CASE Starts
  BY <1>4 DEF Starts, Clear, Fresh, Waiting
<1>5. CASE Quiet
  BY <1>5 DEF Quiet, rvars, Fresh, Waiting
<1> QED BY <1>1, <1>2, <1>3, <1>4, <1>5, StepEither

LEMMA FreshInit == Init => Fresh /\ Unanswered
  BY DEF Init, InitResponse, Fresh, Waiting, Unanswered

LEMMA FreshAlways == Spec => [](Fresh /\ ServerInv /\ Unanswered)
  BY FreshInit, FreshKept, UnansweredKept, ServerInvInit, ServerInvNext, PTL DEF Spec

(* The length in a reply is that of its body, whatever else is in it.      *)
LEMMA OneDelimited ==
  ASSUME NEW page, NEW h, NEW b, OneReply(page, h, b)
  PROVE  ReplyDelimited'
<1>1. PICK q, l, modified : response_message' =
        <<[code |-> code', body |-> b,
           headers |-> CreateHeaderLine(q, l, code', page, modified, h, b)]>>
  BY Zenon DEF OneReply
<1> DEFINE line == CreateHeaderLine(q, l, code', page, modified, h, b)
<1>2. Size(b) # 0 => /\ "content-length" \in DOMAIN line
                     /\ line["content-length"] = numberToString(Size(b))
  BY HeaderLine
<1> HIDE DEF line
<1>3. Replied' = [code |-> code', body |-> b, headers |-> line]
  BY <1>1 DEF Replied, line
<1>4. Replied'.body = b /\ Replied'.headers = line
  BY <1>3
<1> QED BY <1>2, <1>4 DEF ReplyDelimited

(* A kept connection is only sent a body whose content-length is its own,  *)
(* over whatever the script claims (createHeaderLine).                     *)
THEOREM ReplyDelimitedAlways == Spec => []ReplyDelimited
<1>1. Init => ReplyDelimited
  BY DEF Init, InitResponse, ReplyDelimited
<1>2. Fresh /\ ServerInv /\ Unanswered /\ ReplyDelimited /\ [Next]_vars => ReplyDelimited'
  <2> SUFFICES ASSUME Fresh, ServerInv, Unanswered, ReplyDelimited, [Next]_vars PROVE ReplyDelimited'
    OBVIOUS
  <2>1. ASSUME UNCHANGED response_message PROVE ReplyDelimited'
    BY <2>1 DEF ReplyDelimited, Replied
  <2>2. NoReply => ReplyDelimited'
    BY <2>1 DEF NoReply
  <2>3. CASE (answer = "none" \/ Waiting) /\ MakesPage
    BY <2>2, <2>3, PageMade, OneDelimited
  <2>4. CASE answer = "none" /\ (StartsCgi \/ Throws)
    BY <2>1, <2>4 DEF StartsCgi, CgiCodes, Throws, rvars
  <2>5. CASE CgiEnds
    BY <2>2, <2>5, CgiMade, OneDelimited
  <2>6. CASE Starts
    BY <2>6 DEF Starts, Clear, ReplyDelimited
  <2>7. CASE Quiet
    BY <2>1, <2>7 DEF Quiet, rvars
  <2> QED BY <2>3, <2>4, <2>5, <2>6, <2>7, StepEither
<1> QED BY <1>1, <1>2, FreshAlways, PTL DEF Spec

(* What a request may change besides. *)
LEMMA RestKept ==
  ASSUME ServerInv, [Next]_vars
  PROVE  /\ address' \in Address \cup {address}
         /\ request' \in Requests \cup {NoRequest, request}
         /\ files' \subseteq files
<1>1. Serve => files' \subseteq files
  <2>1. \A q, k, path : Delete(q, k, path) \/ Browse(q, k, path) \/ Open(q, k, path) =>
                         files' \subseteq files
    BY DEF Delete, Browse, Open
  <2>2. Serve => \/ UNCHANGED files
                 \/ \E q, k, path : Delete(q, k, path) \/ Browse(q, k, path) \/ Open(q, k, path)
    BY Zenon DEF Serve
  <2> QED BY <2>1, <2>2
<1>2. Serve => UNCHANGED <<address, request>>
  BY ServeKeeps
<1>3. ASSUME NEW q \in Requests, SetConfigInfo(q)
      PROVE  UNCHANGED <<address, files>> /\ request' \in Requests
  BY <1>3 DEF SetConfigInfo, others
<1>4. CASE NextServer \/ StartLocations \/ NextLocation \/ NextToken \/ EndOfTokens
  BY <1>4 DEF NextServer, StartLocations, NextLocation, NextToken, EndOfTokens, others
<1>5. CASE Elsewhere
  BY <1>5, ElsewhereKeeps DEF selection
<1>6. CASE Reconnect \/ UNCHANGED vars
  BY <1>6 DEF Reconnect, vars
<1> QED BY <1>1, <1>2, <1>3, <1>4, <1>5, <1>6, StepIs

LEMMA TypeKept ==
  ASSUME Fresh, ServerInv, ServerInv', LocationInv', Unanswered, TypeOK, [Next]_vars
  PROVE  TypeOK'
<1>1. /\ address' \in Address /\ request' \in Requests \cup {NoRequest}
      /\ files' \subseteq InitialFiles
  BY RestKept DEF TypeOK
<1>2. code' \in Codes /\ answer' \in Answer
  <2>1. code \in Codes /\ answer \in Answer
    BY DEF TypeOK, Codes
  <2>2. CASE (answer = "none" \/ Waiting) /\ MakesPage
    BY <2>2, PageMade DEF Answer, NoReply
  <2>3. CASE answer = "none" /\ (StartsCgi \/ Throws)
    BY <2>3 DEF StartsCgi, CgiCodes, Throws, Answer, Codes
  <2>4. CASE CgiEnds
    BY <2>1, <2>4, CgiMade DEF Answer, Codes, NoReply
  <2>5. CASE Starts
    BY <2>5 DEF Starts, Answer, Codes
  <2>6. CASE Quiet
    BY <2>1, <2>6 DEF Quiet
  <2> QED BY <2>2, <2>3, <2>4, <2>5, <2>6, StepEither
<1>3. /\ selected_server' \in 0..Len(ServerBlocks) /\ loop' \in Loop
      /\ loop' = "idle" => IF selected_server' = 0 THEN selected_location' = 0
                           ELSE selected_location' \in 1..Len(Locations')
  BY DEF ServerInv, LocationInv
<1>4. Locations' = Block'.location_blocks
  BY DEF Locations
<1> QED BY <1>1, <1>2, <1>3, <1>4 DEF TypeOK, Codes

(* The selection stays inside the configuration, files only disappear, and *)
(* the code of a reply is one that the program sets.                       *)
THEOREM RoutingTypeCorrect == Spec => []TypeOK
<1>1. Init => TypeOK
  BY RoutingAssumption DEF Init, TypeOK, Answer, Loop
<1>2. Fresh /\ ServerInv /\ ServerInv' /\ LocationInv' /\ Unanswered /\ TypeOK
        /\ [Next]_vars => TypeOK'
  BY TypeKept
<1> QED BY <1>1, <1>2, FreshAlways, LocationInvInit, LocationInvNext, ServerInvInit,
           ServerInvNext, PTL DEF Spec

(* A page that was found, or a generated one, under fields of this request.*)
LEMMA PageIsOwn ==
  ASSUME answer' = "page", OneReply(source', <<>>, Content(source'))
  PROVE  ReplyIsOwn'
<1> DEFINE b == Content(source')
<1>1. PICK q, l, modified : response_message' =
        <<[code |-> code', body |-> b,
           headers |-> CreateHeaderLine(q, l, code', source', modified, <<>>, b)]>>
  BY Zenon DEF OneReply
<1> DEFINE line == CreateHeaderLine(q, l, code', source', modified, <<>>, b)
<1>2. DOMAIN <<>> = {}
  OBVIOUS
<1>3. /\ \A name \in DOMAIN line :
           \/ name \in {"connection", "content-length", "last-modified"}
           \/ code' = 301 /\ name = "location"
           \/ code' = 405 /\ name = "allowed"
           \/ name = "content-type"
           \/ name \in DOMAIN <<>>
      /\ "content-type" \in DOMAIN line /\ "content-type" \notin DOMAIN <<>> =>
           line["content-type"] = FindMimeType(source', code')
  BY HeaderLine
<1> HIDE DEF line, b
<1>4. response_message' = <<[code |-> code', body |-> b, headers |-> line]>>
  BY <1>1 DEF line, b
<1>5. /\ Len(response_message') = 1 /\ Replied'.code = code'
      /\ Replied'.body = b /\ Replied'.headers = line
  BY <1>4 DEF Replied
<1>6. DOMAIN line \subseteq {"connection", "content-length", "content-type",
                            "last-modified", "location", "allowed"}
  BY <1>2, <1>3
<1>7. "content-type" \in DOMAIN line => line["content-type"] = FindMimeType(source', code')
  BY <1>2, <1>3
<1>8. answer' # "cgi" /\ b = Content(source')
  BY DEF b
<1> QED BY <1>5, <1>6, <1>7, <1>8 DEF ReplyIsOwn

(* What the script wrote, under its fields and those of this request.      *)
LEMMA ScriptIsOwn ==
  ASSUME Fresh, code \in Codes, CgiEnds, answer' = "cgi",
         OneReply(NoPage, ParseFields(HeaderLines(source')), ParseCgiOutput(source'))
  PROVE  ReplyIsOwn'
<1> DEFINE h == ParseFields(HeaderLines(source'))
           b == ParseCgiOutput(source')
<1>1. PICK q, l, modified : response_message' =
        <<[code |-> code', body |-> b,
           headers |-> CreateHeaderLine(q, l, code', NoPage, modified, h, b)]>>
  BY Zenon DEF OneReply
<1> DEFINE line == CreateHeaderLine(q, l, code', NoPage, modified, h, b)
<1>2. /\ headers = <<>> /\ body = <<>> /\ source' \in Outputs
      /\ code' \in {200, 204, 400}
  BY CgiMade DEF Fresh
<1>3. /\ \A name \in DOMAIN line :
           \/ name \in {"connection", "content-length", "last-modified"}
           \/ code' = 301 /\ name = "location"
           \/ code' = 405 /\ name = "allowed"
           \/ name = "content-type"
           \/ name \in DOMAIN h
      /\ "content-type" \in DOMAIN line /\ "content-type" \notin DOMAIN h =>
           line["content-type"] = FindMimeType(NoPage, code')
  BY HeaderLine
<1>4. source' \in Seq(Seq(STRING)) /\ source' # <<>>
  BY <1>2, RoutingAssumption
<1>5. \/ Headed(source', b)
      \/ b = Content(ErrorPage) /\ Headed(source', <<<<>>>>)
      \/ ~\E text \in {SubSeq(source', i, Len(source')) : i \in 2..Len(source')} :
             Headed(source', text)
  <2>1. CASE EmptyLines(source') # {}
    <3>1. Headed(source', AfterHeader(source'))
      BY <1>4, <2>1, AfterHeaderIs
    <3>2. \/ b = AfterHeader(source')
          \/ b = Content(ErrorPage) /\ AfterHeader(source') = <<<<>>>>
      BY <1>2, ScriptBody
    <3> QED BY <3>1, <3>2, Zenon
  <2>2. CASE EmptyLines(source') = {}
    <3>1. \A i \in 2..Len(source') : ~Headed(source', SubSeq(source', i, Len(source')))
      BY <1>4, <2>2, NoHeader
    <3> QED BY <3>1
  <2> QED BY <2>1, <2>2
<1>6. \A name \in DOMAIN h : \E i \in 1..(Len(source') - 1) :
        Len(source'[i]) = 2 /\ LowerCase[source'[i][1]] = name
  BY <1>2, ScriptFields
<1> HIDE DEF line, b, h
<1>7. response_message' = <<[code |-> code', body |-> b, headers |-> line]>>
  BY <1>1 DEF line, b, h
<1>8. /\ Len(response_message') = 1 /\ Replied'.code = code'
      /\ Replied'.body = b /\ Replied'.headers = line
  BY <1>7 DEF Replied
<1>9. \A name \in DOMAIN line :
         \/ name \in {"connection", "content-length", "last-modified"}
         \/ \E i \in 1..(Len(source') - 1) :
              Len(source'[i]) = 2 /\ LowerCase[source'[i][1]] = name
         \/ name = "content-type" /\ line[name] = FindMimeType(NoPage, code')
  <2> TAKE name \in DOMAIN line
  <2>1. CASE name \in DOMAIN h
    BY <1>6, <2>1
  <2>2. CASE name \notin DOMAIN h
    BY <1>2, <1>3, <2>2
  <2> QED BY <2>1, <2>2
<1>10. answer' # "page"
  OBVIOUS
<1> QED BY <1>5, <1>8, <1>9, <1>10, Zenon DEF ReplyIsOwn

(* Nothing of an earlier reply or of another script gets into a reply      *)
(* (createBody, parseCgiOutput, createHeaderLine, clear).                  *)
THEOREM ReplyIsOwnAlways == Spec => []ReplyIsOwn
<1>1. Init => ReplyIsOwn
  BY DEF Init, InitResponse, ReplyIsOwn
<1>2. Fresh /\ ServerInv /\ Unanswered /\ TypeOK /\ ReplyIsOwn /\ [Next]_vars => ReplyIsOwn'
  <2> SUFFICES ASSUME Fresh, ServerInv, Unanswered, TypeOK, ReplyIsOwn, [Next]_vars PROVE ReplyIsOwn'
    OBVIOUS
  <2>1. response_message' = <<>> => ReplyIsOwn'
    BY DEF ReplyIsOwn
  <2>2. answer = "none" \/ Waiting => (NoReply => ReplyIsOwn')
    BY <2>1 DEF Fresh, Waiting, NoReply
  <2>3. CASE (answer = "none" \/ Waiting) /\ MakesPage
    BY <2>2, <2>3, PageMade, PageIsOwn
  <2>4. CASE answer = "none" /\ (StartsCgi \/ Throws)
    BY <2>1, <2>4 DEF Fresh, StartsCgi, CgiCodes, Throws, rvars
  <2>5. CASE CgiEnds
    BY <2>2, <2>5, CgiMade, ScriptIsOwn DEF TypeOK, Codes
  <2>6. CASE Starts
    BY <2>1, <2>6 DEF Starts, Clear
  <2>7. CASE Quiet
    BY <2>7 DEF Quiet, rvars, ReplyIsOwn, Replied
  <2> QED BY <2>3, <2>4, <2>5, <2>6, <2>7, StepEither
<1> QED BY <1>1, <1>2, FreshAlways, RoutingTypeCorrect, PTL DEF Spec
=============================================================================
