# Webwaiter in TLA+

Webwaiter (`src/src/`, 2400 lines of C++) is a single-threaded HTTP/1.1 server
built on a kqueue event loop. This directory models its core, checks the model
with TLC and proves theorems about it with TLAPS.

## The system

| Component | State it keeps | Operations | Talks to |
|---|---|---|---|
| Event loop, `Server.cpp` | `event_list` (10 raw pointers), `connections`, `work_queue`, the round counter `queue_size` | `run`: `kevent`, dispatch of accept / read / write / process events, one `work()` per queued connection; `eraseConnection` | every `Connection`, through pointers the kernel carries as `udata` |
| Event queue, `Kqueue.hpp` | the knotes in the kernel | `setEvent` | kernel |
| Connection, `Connection.cpp` | `state_`, one `read_buffer_`, `write_buffer_`, three descriptors, `cgi_pid_`, `time_`, selected blocks | `work` (four states), `readHandler`, `writeHandler`, `closeConnection`, `executeCgiProcess`, `setConfigInfo`, `createPagePath`, `clear` | its client, its CGI process, the parser, the response builder |
| Request parser, `RequestMessage.cpp` | `leftover_`, `state_`, the request | `parse`, `clear`, `setResourcePath` | called by `parsingRequestMessage` |
| Response builder, `ResponseMessage.cpp` | `leftover_` (CGI output), `headers_`, `body_`, the reply | `parseCgiOutput`, `createBody`, `createResponseMessage`, `clear` | shares `response_status_code_` with connection and parser |
| Configuration, `Config/ServerBlock/LocationBlock.cpp` | the blocks, status and MIME tables; while parsing one stream, a brace stack and an `error_flag` per constructor | `parseConfigFile`, `parseServerBlock`, `parseLocationBlock`, `checkSemantics` | parsed once, then read by all |
| Start-up, `main.cpp` | listening sockets | `setupListenSocket`, `main` | event loop |
| Helpers, `utils.cpp` | - | `split`, `trim`, `toLower`, `isResponseOk`, time, files | all |

What is hard in this code, and what must hold:

- *Two loops over the same pointers.* The dispatch loop and the work loop both
  erase connections while pointers to them sit in the event batch, in the work
  queue and in the kernel. No method may be called on a deleted connection and
  no live one may drop out of the queue.
- *Order of events.* End of file on the pipe and exit of the CGI process are two
  events that come in either order, or never; a reply must wait for both. Bytes
  of the client may come at any time and share one buffer with the CGI output.
- *Failure.* A client may reset, a script may crash, stop reading, or never
  exit; `pipe` and `fork` may fail; only the timeout ends some of this.
- *Identity.* Process ids and addresses of connections are reused: `kill` and
  `waitpid` must reach the process that was meant.
- *Fragmentation and keep-alive.* A request may be cut at any byte and followed
  by the next; parser, `clear`, the reply's fields and the selection of blocks
  carry state over.
- *Fair turns.* One thread serves all connections; `queue_size` is read once per
  round while connections come, go and return to the queue.
- *One stream, three parsers.* The constructors of the configuration read lines
  in turn, and an opening line counts in the stacks of two of them. A wrong
  count hands the rest of the file to the wrong level.
- *Numbers and words.* An address is a number where it is bound and a word where
  requests are led to a block.

`PROJECT.json` lists each of these hazards at its line ("hazards").

## Modules

| Module | Models | Notes |
|---|---|---|
| `Kqueue` | `Kqueue::setEvent` and `close` on the knotes of a connection | the four descriptor filters of a connection are named by role (`sockR`, `sockW`, `pipeR`, `pipeW`); a knote keeps the `udata` last given |
| `Connection` | all methods of `Connection` that change control state, and the world at its edges: client, CGI process, clock | one action per method and outcome, on the record of one connection |
| `Server` | `Server::run` | extends `Connection`; the loop is `Poll`, then `Dispatch` for each event of the batch, then `StartWork` and one `Work` per queued connection; `Environment` interleaves everywhere |
| `RoundRobin` | what `Server::run` promises its connections | abstract: no queue, no events; `Server` implements it (`InRound` is the refinement mapping) |
| `RequestMessage` | `RequestMessage::parse` and all it calls, on token streams cut anywhere, and the client and the connection on either side of it, `read_buffer_` with the bytes of an unfinished read included | one action per parse method or turn of a loop, on the record `p`; `at` is the place in `parse` |
| `Selection` | when a server block matches the address of a socket, and which one the first request of a connection gets | shared by `Routing`, which has the loop of `setConfigInfo` turn by turn, and `Startup` |
| `ResponseMessage` | `ResponseMessage`: CGI output, body, header fields, `clear` | texts are sequences of lines |
| `Routing` | `setConfigInfo`, one action per turn of its three loops, the checks, `createPagePath`, `isCgi`, `handlingStaticPage`, `handlingDynamicPage` | extends `Selection` and `ResponseMessage`: the sequence of requests on kept-alive connections, with the file system they change and the replies they get |
| `ConfigFile` | `Config`, `ServerBlock`, `LocationBlock` | one action per kind of line and per end of a constructor; `level` says which of the three reads |
| `Startup` | `main`, `setupListenSocket` and the first request of each client | extends `ConfigFile` and `Selection` |
| `MCServer`, `MCRequestMessage`, `MCRouting`, `MCStartup` | the instances TLC checks | |
| `ServerProofs`, `KillProofs`, `AccountProofs`, `SelectionProofs`, `RoutingProofs`, `StartupProofs`, `RequestLemmas`, `RequestProofs` | the theorems below | proofs |

`Connection` and `Routing` look at the same methods from two sides. `Connection`
has the order of events, descriptors and processes, and takes what a request is
for as given (`"static"`, `"get"`, `"post"`); `Routing` has what the request is
for and takes the events as given.

### How state and actions correspond to the code

- `conn[c]` is the object at address `c`; addresses are reused after an erasure,
  which is how a stale pointer can reach a new connection. Bytes are counted:
  client bytes in request parts (a request has `RequestParts` of them), CGI
  output in pieces, replies and bodies in the `write` calls they take.
- Fields without a counterpart in the code record what a property needs to know
  of the past: `from` and `stale` say whose bytes `read_buffer_` holds and
  whether they have been parsed already, `corrupt` and `foreign` that bytes
  reached `leftover_` twice or the wrong buffer, `misdirected` that part of a
  reply went to a pipe; `proc[p].plumbed` and `proc[p].owner` say where the pipes
  of a process lead and which connection its knote points at.
- `expired` is the comparison in `checkTimeOut`; the clock (`Expires`) sets it at
  any time.
- A descriptor event whose `udata` is not the live connection it belongs to
  takes the disjunct `Crash`: the program has undefined behaviour there, and
  nothing is said about it afterwards (`up = FALSE`). A process event with a
  stale pointer either writes to memory nobody uses, to the new connection at
  the address, or crashes.
- `flags == EV_EOF` in the handlers compares a bit set for equality. The kernel
  reports the flags the knote was added with as well, so the test is taken to be
  false and an error only shows in `read` and `write` (`ReadFails`,
  `WriteFails`).
- The kernel side (`Ready`, `MayBeReady`, `EventLists`) is external: `kevent`
  returns all that is ready or, if the list is too short, any part that fits.
  A process event is one-shot (`NOTE_EXIT`): `Poll` disarms it.
- Parser: words, CR, LF, space, colon and NUL are tokens, because the searches
  of the parser tell no more apart. A read may end between any two tokens. `read`
  is the first `read_` bytes of `read_buffer_`: `Parse(n)` with `n > 0` is a turn
  of `work()` after `readHandler` has read `n` bytes; with `n = 0` it is a turn
  without an event, which appends the bytes of the last read again, because
  `read_` is only reset after SUCCESS (`Connection.cpp:56-60`). `repeats` counts
  the turns that did so with bytes. A call of
  `parse` begins with the action `Parse` and ends with AGAIN (`at = "idle"`) or
  SUCCESS (`at = "serving"`); in between each action is one method, or one turn
  of the loop of `parseHeaderLine` or `parseTrailerField` (`at = "header"`,
  `"trailer"`), so that a field that is refused sets `kParseComplete` and the
  loop goes on, as in the code. `sending` and `rest` are the client: the requests
  it has under way and the bytes of them that are not read. A request is a
  record of its parts together with its text from each field and each chunk on
  (`lines`, `parts`, `trail`); `Rendered` says that these are its text. What a
  client sends need not be a request: bytes of another shape have the framing
  `"other"`, any tokens at all, and `strayed` remembers that such bytes were
  served.
- Reply: a text is the sequence of its lines, an empty line is `<<>>`, a line
  with a colon `<<name, value>>`; a page is one line, its own path, so that a
  reply shows whose page it holds. `source` remembers the page or the output a
  reply is for.
- Configuration: a line is the sequence of its words (`split`). `net` counts the
  braces of all lines read, whoever read them, and `first` and `last` are the
  lines a block was read from; the code has neither.
- Start-up: `Ip`, `Number`, `Decimal` and `NetworkOrder` are what `atoi`,
  `changeIpToBinary`, `numberToString` and `htons` make of words and numbers.
  `foreign` is what other processes listen at.
- Routing: a path is a sequence of segments. `Cut` stands for the piece of a
  segment that `setResourcePath` leaves when the URI does not contain the
  location and `npos` wraps around. `loop`, `index`, `match_count` and
  `max_match_count` are the place in `setConfigInfo` and its local variables;
  `selected_server` and `selected_location` start from what the request before
  left in them, as the pointers do. `FileAt` is the file system's reading of
  `root_dir + '/' + path`, which the code puts together as it is, `..` included
  (`Connection.cpp:100-105`); the sample path `/upload/../html/index.html` leads
  out of one root directory into another. The extension is looked for in the
  whole uri, the query included. `last_named` remembers the block that a Host of
  this connection named last, `path_of` the uri that `resource_path_` was cut
  from; the code has neither.

## Runs

Passing runs:

| Run | Instance | Shows |
|---|---|---|
| `MCOneClient` | 1 connection, 1 process id, requests in 2 parts, every kind of request, lists of 2 events; 630 000 states | `TypeOK`; `PipesClosedInTime`: no pipe outlives the state that uses it, unless the request is overdue; `RequestsAccounted`: each part of a request is in exactly one place until it is answered; `CgiReplyComplete`: a CGI reply holds all the output and only it; `OverdueCloses` |
| `MCSlotReuse` | 1 address, 2 process ids, replies in 2 writes, failing `pipe` and `fork`, lists of 10 events; 1.3 million states | `KillTarget`: `kill` never reaches a process other than the connection's own, not yet waited for; `WaitpidNeverBlocks`; `BatchLive`: no event of the batch belongs to an erased connection |
| `MCTwoClients` | 2 connections, event list of 3; 130 000 states | `QueueExact`: the two containers agree; `ServesInRounds`: the loop implements `RoundRobin`; `NobodyStarves` |
| `MCRequestMessage` | every sequence of 18 sample streams on one connection, two of them under way at a time, cut everywhere, with a turn that appends bytes again at every place; 4.6 million states | `TypeOK`, whatever bytes come; and where no bytes were appended twice and only requests came before: `RequestDelivered`; `StaysInStep`: the parser is never left inside a request; `MalformedRefused`; `CompleteAtLastByte`: it never waits for bytes nobody will send |
| `MCRouting` | 4 server blocks, two of one name, every sequence of the sample requests, 9 outputs of a script; 250 000 states | `LastNamedServes`: the block that a Host of the connection named last serves, not the one the loop met last; `FirstLongestServes`: the first location for the extension, or the first of the longest ones; `DeletionsAllowed`: a file disappears only on a DELETE that the location allows, and is the one this connection's path names; `ReplyIsOwn`: a reply has the body and the fields of its own page or script; `ReplyDelimited`: a client that keeps the connection knows where it ends |
| `MCStartup` | the sample files and their edits; 390 000 states | `NestingAgrees`, `ParsedAsWritten`: what is accepted means what its braces say; `StartsOrExits`; `NoBlockForgotten`; `ServedAtOwnAddress` |

Bounds and why they are enough. One connection is enough where the property
relates a connection to its own client and process: connections share nothing
but the loop, the process ids and the batch, and what another connection can do
to those is in `MCTwoClients` (which has static requests only, because erasures
and the order of the queue matter there) and in the theorems, which hold for any
number. Two process ids at one address make an old process meet a new
connection. Two request parts are the least that make a request incomplete. An
event list of 2 or 3 is shorter than what can be ready, so that events stay
behind; lists of 10 hold all that one connection can make ready. `MaxAhead = 1`
in the passing runs restricts the clients to those that wait for each reply:
with more, `CgiReplyComplete` and `RequestsAccounted` are false (see
`MCPipelining`).

The samples of the parser contain each framing with empty and non-empty
bodies, a body and a chunk with a line break, trailer fields, the two spellings
and the padding of a field, one request for each way of being refused, a line
without a colon, a content-length that is no number, one that is not that of the
body, and a head without fields. Two
under way (`MaxSending`) are enough: what is behind the next request is more of
what `leftover_` keeps. `Pieces = {1}` lets a read bring one token or all that
has come; what a read of `k` tokens leaves in `leftover_` is also reached by `k`
reads of one. `MaxRepeats = 1` lets one turn append bytes again, in every state
where it can happen: it takes the parser off the track of what the client sent,
and the properties but `TypeOK` speak of the states before it. `MaxSize = 3` is
the longest body or chunk of the samples. `SizeMax = 65536` stands for the 2^64 of `size_t`: a
negative number becomes a size that no sample reaches, as in the code.
The requests and blocks of `MCRouting` contain an allowed and a forbidden
method, too large a body, a redirection, directories with and without index,
extension locations, queries, an error of the parser, and a conditional
request; the outputs have fields of their own for length and type, no header, no
empty line, and no body. The files of `MCStartup` are a sample configuration with
two server blocks; cut short after any line; with any line left out, or each of
26 other lines in its place or before it; with an opening and a closing brace
inserted at any two places; and the blocks with other spellings of addresses and
ports, and a third block. That moves each brace to each place and puts each kind
of line at each level. Port 0 is left
out: the kernel chooses another one then, which no block names.

Fairness. `FairSpec` (for `OverdueCloses` and `NobodyStarves`): the loop always
runs (one thread, `kevent` with a zero timeout, no blocking call except
`waitpid`, which `WaitpidNeverBlocks` covers), and time passes. Nothing is
assumed of clients or CGI processes. So an overdue connection is closed even if
its process never exits and its process event was lost. `StartSpec` (for
`StartsOrExits`): `main` goes on, a sequential program; clients come as they
like.

Deadlock is checked except where a behaviour really ends: in `MCRequestMessage`
when a reply closes the connection or the parser has thrown, in `MCStartup` when `main` has
exited, in `MCRouting` and `MCDelete` when the program has crashed. A crashed
server stutters (`Dead`).

### What the code does not do

Each of these runs violates one property that states what the repository says;
the findings in `PROJECT.json` quote it.

| Run | The code |
|---|---|
| `MCNullEvent` | enables the pipe of a GET script with a null `udata` (`Connection.cpp:510`); output before the next `work()` makes the loop call a method on null |
| `MCSplitRequest` | parses the bytes of an incomplete request again in every round without a new read |
| `MCLateProcEvent` | leaves the process knote pointing at a deleted connection |
| `MCPipelining` | reads the client's next request into the CGI output |
| `MCLateReply` | writes the 500 page of an overdue POST into the script's input |
| `MCDelete` | deletes the file and then throws for lack of a 204 status message |

The properties of the passing runs hold in spite of them because they say where
they apply: `CgiReplyComplete` and `RequestsAccounted` leave out requests parsed
twice; the properties of the parser but `TypeOK` say `OnTrack`, that is, that
every turn of `work()` so far had new bytes (`repeats = 0`) and that what was
served before, and is now, is a request (`~strayed`, `Fits`); and a crash ends
what is said. Without `OnTrack` they are false: a request cut in two gets its
first bytes twice, may be refused, delivered with other fields, or never
complete.

Known divergences that the model contains but no run singles out:

- a one-shot process event behind a `break` (`Server.cpp:89`, `96`, `106`) is
  dropped with the batch, so that process is never waited for;
- `selected_server_` survives `clear()`: on a kept-alive connection a request
  with an unknown Host goes to the block that served the last one
  (`Connection.cpp:339`); `LastNamedServes` says that this is the block last
  named, and no other;
- a location found by its extension returns before `setResourcePath`
  (`Connection.cpp:369-371`): the page sent, run or deleted is the one that
  `resource_path_` of an earlier request of the connection names, or the root
  directory itself for the first request. `ReplyIsOwn` compares a reply with the
  page that was found, not with the uri; `DeletionsAllowed` says that the path
  of a deletion is then an earlier one of the same connection;
- `root_dir` and the path are put together as they are
  (`Connection.cpp:100-105`), so a path with `..` reaches files outside the root
  directory of its location, for a deletion too. `DeletionsAllowed` does not say
  that a file deleted is below that directory, only that it is the one the path
  names, wherever that is;
- a block that listens on 0.0.0.0 matches connections to every port
  (`Connection.cpp:334`), which `docs/conf/multihost.conf` does not mean;
- chunk data that contains a line break is refused (`RequestMessage.cpp:277` cuts
  it at the first CRLF, not by its size); `WellFormed` leaves such requests out,
  `StaysInStep` says that they are at least never taken for shorter ones;
- an error found before a body is forgotten when the body is complete
  (`parseComplete(200)`, `RequestMessage.cpp:220` and `301`): a bad field or an
  unknown method with a body passes; `MalformedRefused` is about the framings
  after which it does not;
- the empty line after the protocol of a request without head fields is skipped
  (`skipCrlf(kHeaderLine)`, `RequestMessage.cpp:45`), so such a request waits for
  a field and takes the next request's start line for one; its framing in the
  model is `"other"`, which `OnTrack` excepts;
- a head or trailer line without a colon is skipped without a word
  (`RequestMessage.cpp:174-176`), and the request gets 200; `Faulty`, the errors
  the parser looks for, does not have it, so `MalformedRefused` says nothing of
  it; `WellFormed` leaves it out, `StaysInStep` does not;
- a content-length that is no number is read as 0 (`RequestMessage.cpp:204`): the
  request is complete after its head, with 200 even if the head had an error. If
  it has a body, or if the number is not that of the body, the bytes that follow
  are taken for the next request; such bytes are `"other"` in the model. A
  garbled length without a body is a request to `StaysInStep`, and an exception
  of `MalformedRefused`;
- a transfer-encoding that lists more than `chunked`, `gzip, chunked` say, is
  taken for chunked and the rest of the value kept (`RequestMessage.cpp:308`);
  the requests of the model have one encoding, and such a stream is `"other"`;
- an opening line with the wrong number of words, `server{` say, is skipped
  without a word, and so is a directive with too many values;
- `docs/conf/test.conf` is refused unless the directory `YoupiBanane` exists
  (`LocationBlock.cpp:36`);
- a block that names an address, followed by one for 0.0.0.0 at the same port,
  leaves the second without a socket and the other addresses unserved
  (`main.cpp:41`); `NoBlockForgotten` says that this takes an overlap;
- `port 04242` or `listen 127.0.0.01` is bound but never equal to the address of
  a client (`Connection.cpp:335`); `ServedAtOwnAddress` is about blocks spelled
  as the server spells them;
- a line of blanks in the configuration reads past an empty vector
  (`Config.cpp:93`), and a refused first request with `if-modified-since`
  dereferences null (`Connection.cpp:187`, `ResponseMessage.cpp:181`): the model
  ends there (`crashed`, `"crashes"`);
- an empty page is sent without `content-length` on a connection that stays open
  (`ResponseMessage.cpp:190`), so its end does not show; `ReplyDelimited` is
  about replies with a body;
- `last-modified` is looked up for the uri below the root directory of the
  location, not for the page sent (`ResponseMessage.cpp:129`);
- `Status` and `Location` of a script never change the code
  (`ResponseMessage.cpp:43` cannot be reached), and a script that ends its
  lines with CRLF has no empty line in its header, so its body is taken for
  header fields (`ResponseMessage.cpp:38`);
- `directory_listing off` has no effect, a listing is sent with 404
  (`Connection.cpp:119`, `141`).

## Proofs

| Theorem | Module | Says |
|---|---|---|
| `QueueCorrect` | `ServerProofs` | `Spec => []QueueExact` |
| `TypeCorrect` | `ServerProofs` | `Spec => []TypeOK` |
| `BatchCorrect` | `KillProofs` | `Spec => []BatchLive` |
| `KillCorrect` | `KillProofs` | `Spec => []KillTarget` |
| `WaitpidCorrect` | `KillProofs` | `Spec => []WaitpidNeverBlocks` |
| `PipesCorrect` | `KillProofs` | `Spec => []PipesClosedInTime` |
| `RequestsCorrect` | `AccountProofs` | `MaxAhead = 1 /\ Spec => []RequestsAccounted` |
| `CgiReplyCorrect` | `AccountProofs` | `MaxAhead = 1 /\ Spec => CgiReplyComplete` |
| `RoundsCorrect` | `ServerProofs` | `Spec => ServesInRounds`, that is `Rounds!Spec` |
| `RoutingTypeCorrect` | `RoutingProofs` | `Spec => []TypeOK` of `Routing` |
| `LastNamedServesAlways`, `FirstLongestServesAlways`, `DeletionsAllowedAlways`, `ReplyDelimitedAlways`, `ReplyIsOwnAlways` | `RoutingProofs` | `Spec` of `Routing` implies the property |
| `NestingCorrect` | `StartupProofs` | `StartSpec => []NestingAgrees` |
| `NoBlockForgottenAlways`, `ServedAtOwnAddressAlways`, `ParsedAsWrittenAlways` | `StartupProofs` | `StartSpec` implies the property |
| `ParserTypeCorrect` | `RequestProofs` | `Spec => []TypeOK` of `RequestMessage`, whatever bytes come and however often they are repeated |
| `RequestDeliveredAlways`, `StaysInStepAlways`, `MalformedRefusedAlways`, `CompleteAtLastByteAlways` | `RequestProofs` | `Spec` of `RequestMessage` implies the property |

for every number of addresses, process ids, parts, pieces and any length of the
event list; for every configuration, set of requests and of script outputs; for
every set of configuration files; for every set of requests, of any length and
with any number of fields and chunks, of other bytes, every way to cut them and
any number of turns that repeat them. The assumptions are those the modules state,
and TLC evaluates each of them in a run:

- `ConnectionAssumption`, `ServerAssumption`: the sizes and bounds are numbers,
  the sets of addresses, ids and events are what they are used as.
- `RoutingAssumption`: a server block has a location (`error_flag` of
  `parseServerBlock` asks for one), the parser hands over 200, 400 or 501 (what
  `RequestMessage` sets), a file is no directory, and a script's output is a
  text: at least one line, perhaps empty, each with at most a name and a value.
- `ConfigAssumption`: a file is a sequence of lines, a line of words; a brace
  does not begin with `/` or `#`, so it is no url that `checkURL` accepts.
- `StartupAssumption`: 0.0.0.0 is no address a client connects to.
- `TokenAssumption`, `NumbersAssumption`: the tokens the parser looks for are
  tokens, and the numbers up to `MaxSize` are words, each a different one.
- `MessagesAssumption`: what a client sends is bytes, and a message with a
  framing other than `"other"` is a request: its text is that of its parts
  (`Rendered`), its framing one of seven (`Framed`), four of them wrong, its
  start line three words with one space between them, it has a head field, and
  the value of a field is not empty. What the words are is left open, and lines
  without a colon are fields too. All else is `"other"`, of which nothing is
  assumed.

`Parse` has one bound that is the machine's: `leftover_` never holds `SizeMax - 1`
bytes, for it is memory. That is what makes a negative length larger than all
that can arrive.

Two theorems have the hypothesis `MaxAhead = 1`: each client waits for its
replies. With clients that send ahead both properties are false, which
`MCPipelining` shows; the instances of the passing runs satisfy it.

- `QueueCorrect`. `QueueExact` alone is not inductive: an erasure during the
  dispatch shortens the queue, and the round must not be longer than it. The
  invariant `QueueInv` adds that `todo` is 0 in the dispatch phase. The rest is
  sequence algebra (second part of `ServerProofs`): removing an element of a sequence without
  repetition removes it from the range and keeps the others once.
- `TypeCorrect`. The counters are natural numbers only because no step takes
  more than there is; `Parsed` subtracts `RequestParts` only if they are there
  (`Parses`). `CgiExits` and `CgiWrites` update the pipes of a process's owner,
  which must be a connection: `TypeInv` adds to `QueueInv` and `TypeOK` that a
  process whose pipes still lead somewhere was forked by a connection. The first part of `ServerProofs`
  proves one lemma per method, the third composes them.
- `BatchCorrect`. What `kevent()` returns is read off the knotes, so `BatchInv`
  adds to `TypeInv` and `BatchLive` that a connection that is gone has no knote
  left and that a knote's `udata` is its own connection or NULL (`KnotesOwned`),
  and that `event_list` is used up when the work loop, which erases connections
  without a `break`, runs.
- `KillCorrect`, `WaitpidCorrect`. The two depend on each other: an id is freed
  when `waitpid()` returns, and no connection may keep it then. `KillInv` adds to
  `BatchInv` and `KillTarget` that a process event still to be dispatched is for
  a zombie and carries the connection that forked it (`ProcEvents`); therefore
  `clearCgiPid` is called on the only connection that can hold the id, and no
  second event of the list is for it. That the connection the event carries may
  be gone is the finding of `MCLateProcEvent`; it does not disturb the ids.
- `PipesCorrect`. `PipesClosedInTime` is inductive with `TypeInv`: only
  `executeCgiProcess` opens pipes, from a state where none is open, the handlers
  open and close nothing, and each way to `kWritingToSocket` has closed both
  pipes or is overdue.
- `RequestsCorrect`, `CgiReplyCorrect`. `RequestsAccounted` says where the parts
  of a request are, but not why none can move twice. `AccountInv` adds to
  `PipesInv` and `BatchInv`, for each connection that is not overdue: in which
  states `read_buffer_` holds bytes of the client and in which CGI output
  (`ReadsRequest`, `TakesOutput`); that the socket's read filter is off while a
  request is served, so that nothing reads the client then (`ServesRequest`),
  and its write filter is on for a reply only (`SendsReply`); that the output emitted is what the pipe, the buffer and
  `leftover_` hold together; and that an event still to be dispatched is for a
  filter that is on and, for a pipe, still has output or its end (`EventsOn`).
  The last is needed because the batch is older than the state: without it a
  handler could be called for a filter that another handler has turned off.
  The states of `work()`, the two handlers and the world (client, process,
  clock) each keep the parts they touch, one lemma per method.
- `RoundsCorrect`. Under the mapping of `Server!Rounds` the pending connections
  are the first `todo` of `work_queue`, and the stage of a request is its
  connection's `state`. With `QueueInv` the front of a queue
  without repetition is one pending connection, `push_back` puts it behind the
  pending ones, and an erasure takes only its own. `TypeInv` gives the rest: a
  step of the world moves no request, a step of the loop that of one
  connection. Every step of `Server` is then a step of `RoundRobin` or leaves
  its variables alone.
- `NestingCorrect`. `NestingAgrees` alone is not inductive: when a constructor
  returns at the end of the file its own stack is checked, but the `pop()` of
  its caller needs a brace there. The strengthening `ParentsOpen` says that the
  caller's stack holds the brace of the opening line as long as the block is
  being read.
- `ParsedAsWrittenAlways`. The property is about the end only. `WrittenInv` says
  what holds while one of three constructors reads: its object says what its
  own lines so far say (`Reading`), each object around it does so up to the line
  that opens the block in it, that line and no other is still to be matched by
  a block, and each open block began at its base nesting and has been above it
  since (`Braced`). `NestingAgrees` turns the loop's test for an empty stack
  into the end of `Braced`, and `OpeningBraces` shows that an opening line
  counts one brace. It counts two if the url of a location is a brace itself;
  then nothing is said of the braces (`Sound`), since `checkSemantics` refuses
  that url when the block ends. The lemmas are about one line more: how it
  changes the nesting, the own lines of an object, and the last line that
  gives a directive.
- `NoBlockForgottenAlways`, `ServedAtOwnAddressAlways`. `StartInv` adds to the
  invariant of the parser that the blocks are sequences (`BlocksAreSeqs`), that
  each block bound so far has its address in use (`Taken`), that each socket
  belongs to a block, and that the last request was served by what
  `setConfigInfo` returns for the words of its socket. A block that matches them
  has the port's number too, because two blocks with the same word for a port
  have the same number; `SelectServerMatches` does the rest.
- `LastNamedServesAlways`. The property is about the end of a loop that starts
  from what the request before has left. `ServerInv` says for each turn what
  `selected_server_` is (`ServersPassed`): none of the blocks passed is named, and
  if the Host names none at all, the selected block is the right one already, or
  there is none and none of those passed matches; `break` leaves with the first
  named one. Between requests it is the block last
  named, or the first at the address (`LastNamed`), which an unknown Host does not
  change (`HostKept`).
- `FirstLongestServesAlways`. `LocationInv` adds the invariants of the other two
  loops: `match_count` leading tokens agree (`Agree`), and of the locations passed
  the selected one is the first of those that share `max_match_count` tokens, none
  shares more, and none is for the extension (`LocationsPassed`). That
  `max_match_count` starts at -1 makes the first turn select a location, whatever
  pointer the request before has left.
- `DeletionsAllowedAlways`. `PathInv`: `resource_path_` is an end of the path of
  the uri it was cut from (`ResourcePathsEnd`, also where `npos` wraps around),
  and that is this request's unless the location was found by its extension. A
  new connection starts from the empty path.
- `RoutingTypeCorrect`, `ReplyDelimitedAlways`, `ReplyIsOwnAlways`. A reply is
  made in one call of `createResponseMessage`, from what is in the builder: the
  invariant `Fresh` says that this is nothing at all while no reply is made and,
  for a script, nothing but the code its start has set. `parseCgiHeader` is
  stated without recursion: the fields are those of the lines before the first
  empty line, a name has the value of its last line. The server's own
  fields replace a script's (`createHeaderLine`), so `content-length` is the
  size of the body that follows.
- `ParserTypeCorrect`. The parser may be fed anything, so nothing but its own
  tests keeps its fields in their types. `Sane` adds to `TypeOK` what the tests
  leave: a transfer-encoding is there when chunks are read (`removeChunkedInHeader`
  looks its value up), the loops over fields are in their states, and a length is
  below zero only until the body is looked for, or a chunk of that size, which
  none has.
- `RequestDeliveredAlways`, `StaysInStepAlways`, `MalformedRefusedAlways`,
  `CompleteAtLastByteAlways`. None of the properties is
  inductive: they are about the end of a request, and the parser keeps no record
  of where it is but its state. The invariant is `IInv`: the types (`TypeInv`),
  and, as long as no bytes were repeated and only requests served (`Track`),
  `InStep`, which says for each state how
  far into the request the parser is (`Stage`): `leftover_` and the bytes not
  read are, together, what remains of the request from that place and the text
  of what follows (`Remains`); `headers_` are the fields so far that parseField
  took, `body_` the
  chunks so far; and the code is 200 exactly as long as every field so far was
  one to take (`CodeTells`). The implication is needed because a repetition ends
  the second part for good, and `Track` never comes back. The cuts made by the
  reads disappear in that sum,
  so a read is a step that changes nothing, and the return of AGAIN is
  a step from which bytes must be missing (`Waits`, the action that
  `CompleteAtLastByte` is proved from). `RequestLemmas` has what the searches
  find: in a stream that begins with a line, cut anywhere, either the whole line
  with its break is in `leftover_` and `Line` is it, or not all of it has been
  read (`LineOf`, `OneLine`); data with a break in it is never a line of its own
  length (`Broken`); the fields taken one by one are `HeadersOf`, and a line
  without a colon adds none (`ColonlessRead`); trimming a
  value gives it back. Each parse method then has one lemma (`ParseUriKeeps`,
  `ParseChunkDataKeeps`, ...). Where a fact needs induction over a sequence, that
  the body so far never shrinks say, the least counterexample refutes it
  (`Least`).

Model-checked only: the liveness properties `OverdueCloses`, `NobodyStarves` and
`StartsOrExits`, which the prover does not reach.

## Not modelled

- `pipe()` failing leaves uninitialized descriptors that are then closed and
  registered; the model has the process and the closing of the connection, not
  what happens to other descriptors.
- Numbers past the range of `strtol`, signs and prefixes of chunk sizes; two
  number words side by side, of which the model reads the first (only repeated
  bytes, or bytes that are no request, have them).
- The environment of the CGI process (`setMetaVariables`), dates, the `server`
  and `date` fields, the wording of the listing page: formatting without control.
- `fcntl`, `socket` and `listen` failing at start-up: they end the program as an
  address that is not the host's does.
- The test programs and the sample site.

## What could follow

An abstract client's view of a connection (request sent, served, answered or
closed), with the refinement from `sock`, `conn` and `up`; and the parser with
`Connection` in one module, which now takes it by its outcomes and counts what
it is fed twice.
