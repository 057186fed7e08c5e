# A TLA+ model of Primordia MUD

This directory models the core of the repository: the actors of a user's session, the server
and the life of the process, the threads they share, the path of an event to Redis and out
again, the assembly of input lines, the storage layer with the YAML loader, the graph library,
the hash library, and the Game of Life. TLC checks the models on small
instances; TLAPS proves their safety properties for every instance. `PROJECT.json` holds the
runs, the mutants each property is measured with, the source lines behind each definition,
the hazards, and the findings.

Run a model with `tlc -config X.cfg M` (the pairs are in the table of runs), a proof with
`tlapm SessionProofs.tla`.

## 1. The system

Paths are relative to `pmud/src` unless they say otherwise.

| Part | State | Operations | Talks to |
|---|---|---|---|
| `main` (`pmud/main.cpp`) | `g_signal_status`, the scoped actor's pending request | start the server, wait for SIGINT, say goodbye to registered connections, kill the server, destroy the MudSystem, wait for all actors | ServerActor by requests with a timeout of 10 s, ConnectionActors through the actor registry |
| `ServerActor` (`pnet/server_actor.h`) | `m_sockfd` | StartServer, AcceptConnection (resends itself for ever), GoodbyeServer | spawns ConnectionActors |
| `ConnectionActor` (`pnet/connection_actor.h`) | `m_connection`, `m_break_count`, `m_current_input`, its registry entry | PerformWelcome, ToUserEmit, ToUserPrompt, FromUserGetInput (the poll, resends itself), GoodbyeConnection | the socket, its CommandActor |
| `CommandActor` (`controllers/command_actor.h`) | `m_active_controller`, `m_default_controller` | PerformWelcome, OnUserInput, ToUserPrompt, ToUserEmit, LoginControllerEnd | its connection and two controllers |
| `LoginController`, `DefaultController` | `username`, `password`; nothing | LoginControllerStart, OnUserInput | the CommandActor; the event recorder |
| `CommStatic` (`pnet/comm_static.h`) | none: a descriptor | emit, has_data, read_from_user, sanitize | the kernel |
| `EventRecorderActor`, `EventRecorderClient` (`event/`) | a reference to the storage | one handler per kind of event | StorageActor |
| `StorageActor`, `RedisStorage` (`storage/`) | the hiredis context | store and get values, maps, lists, sets, events, streams | Redis and its Lua functions |
| `MudSystem` (`system/pmud_system.h`) | references to storage and recorder | the destructor sends both an exit | held by main, the server, every session |
| `MockStorage` (`pmud/test/mocks`) | four tables | the Storage interface | the tests |
| `yaml_to_storage`, `util/yaml-redis-loader.cpp` | the position in the document | a call of the storage per node | Redis |
| graph library (`pmud/graph/include`) | adjacency lists, search data | addEdge, transpose, BFS, DFS, printPath | none |
| CAF's scheduler as `pmud/conf/pmud.caf` configures it | the threads, the actors that wait for one | run an actor until its mailbox is empty | every actor |
| `util/redis-stream-out.cpp`, `storage/redis_stream_injestor.h` | the id of the last record read | read the next batch of a stream | Redis |
| `common/hash-library`, `common/pmud_security.h` | `m_hash`, `m_numBytes`, `m_bufferSize`, `m_buffer`; `m_hash` of CRC32 | add, getHash, reset, the call operator; digest of a file; hash_credentials | the LoginController |
| `life/life.c` | two boards, the generation, the line being read | read or randomise a board, compute generations until a key, a still or dead board, or the bound | the terminal |
| the rest of `util` | | command lines that print or send samples | Redis |

Everything between actors is an asynchronous message. There are no locks and no shared
variables apart from the actor registry, the kernel's descriptor table and the reference count
of the MudSystem. What is hard here is therefore the order in which mailboxes are worked
through: input typed ahead of the answer, the hand-over from one controller to the next,
shutdown while the server accepts, descriptors used after they were closed, requests that time
out and are answered later, and the last messages of an actor that has been told to exit.
Redis adds partial failure: errors are logged and forgotten.

What makes the parts correct:

* session: it never stops listening, answers every line, creates an account of what the user
  typed, keeps passwords off the screen, and ends completely when it ends;
* server and process: SIGINT ends everything, sockets are neither leaked nor shared, nobody is
  served by a MudSystem that has stopped;
* events: in order, unchanged, at most once, stored when Redis works, and read without gaps;
* input: the lines delivered are the lines typed;
* threads: every session is served, as far as the number of polling actors allows it;
* hashes: a digest depends on the bytes and not on how they were passed in;
* storage: a load leaves what its document says, and the mock behaves like the real thing;
* graph: distances are shortest, visiting times nest, printed paths exist;
* life: each generation is Conway's, and a file gives the board it shows.

## 2. Modules

| Module | Models | Uses |
|---|---|---|
| `Session` | one session: four actors, their mailboxes, the login dialogue | instance of `Registration` |
| `Registration` | abstract: a visitor chooses a passphrase, registers, plays, leaves | |
| `Server` | main, ServerActor, registry, descriptors, MudSystem, each session reduced to its ConnectionActor | |
| `Scheduler` | the threads, and of the server and the sessions the messages that make them run | |
| `Events` | recorder, storage actor, Redis stream, destructor of MudSystem, the reader of the stream | instance of `EventLog` |
| `EventLog` | abstract: an ordered log that may lose events, and is read from its beginning | |
| `LineInput` | bytes to lines: read, lite_sanitize, sanitize, m_current_input | |
| `Storage` | RedisStorage and MockStorage side by side | |
| `YamlStorage` | yaml_to_storage and its loader | extends `Storage` |
| `GraphSearch` | Graph, BreadthFirstSearch, DepthFirstSearch, printPath | |
| `BlockHash` | MD5, SHA1, SHA256, Keccak, SHA3: buffer, padding, getHash | |
| `Crc32` | CRC32 with its tables, and the bitwise CRC | |
| `Hashing` | an object of any of these classes and its callers: digest, hash_credentials | extends `BlockHash`, `Crc32` |
| `Life` | the program life | |
| `MCSession`, `MCLineInput`, `MCYamlStorage`, `MCHashing`, `MCLife` | the sets TLC needs | |
| `SharedLemmas` | lemmas the proofs share: induction and recursion over numbers and sequences, and what a mailbox holds, and how often | |
| `SessionProofs` | proofs: the safety of Session, its prompts, polls and hidden passwords, and the refinement | extends `Session`, `SharedLemmas` |
| `ServerProofs` | proofs: Server | extends `Server`, `SharedLemmas` |
| `EventsProofs` | proofs: Events and its refinement; MockStorage against RedisStorage | extends `Events`, `Storage`, `SharedLemmas` |
| `SchedulerProofs` | proofs: Scheduler | extends `Scheduler`, `SharedLemmas` |
| `GraphProofs` | proofs: both searches, on all graphs | extends `GraphSearch`, `SharedLemmas` |
| `ByteProofs` | proofs: LineInput and Hashing, for all streams of bytes and all ways to cut them | extends `LineInput`, `Hashing`, `SharedLemmas` |
| `LifeProofs` | proofs: Life | extends `Life` |

**Session.** A message is an atom and an argument. One action is one handler, run to its end:
`Receives(self, atom)` is the guard, `Handles` takes the message and sends what the handler
sends. The FromUserGetInput handler has five outcomes, one action each (`PollNoData`,
`PollBreak`, `PollFragment`, `PollQuit`, `PollLine`), and the OnUserInput handler of the login
four. Text is reduced to what the code compares: lines are members of `Typed`, the empty line,
and `Blank`, the string of spaces a password is scrubbed to, which the user can type as well. Of a name only
whether it is empty is kept (`NameOf`): the login compares it with nothing else. Emissions that one branch makes in
a row are a single message. `lines`, `prompts`, `reads`, `recorded`, `echo` and `screen` record
what the user and the recorder have seen. The scrubbed password can be confirmed again, by a line of
blanks that reaches the LoginController before its exit. `Registration` says what is left then: a
further account has a passphrase of blanks. `Once` is that it has not happened.

**Server.** AcceptConnection is three steps, since main runs in another thread: `ServerAccepts` (accept
and the spawn), `ServerRegisters` (the constructor's entry in the registry, from which on main can reach
the session) and `ServerWelcomes` (the message PerformWelcome, which may come after a goodbye of main's, and the next
AcceptConnection). A client is `late` if it enters the registry after main copied it. `stage` is where main is; a request leaves its answer in `answer`, and the timeout
is an action that is possible as long as there is none, after which an answer is dropped. The
kernel gives `accept` the lowest free descriptor, as POSIX says, and `sock` tells who is at
the other end, so that a use of a closed descriptor is seen to touch another client
(`crossed`). The reference count `mud_refs` runs the destructor when it reaches zero.

**Events.** The Redis call has four outcomes: executed, refused with an error reply (which the
code takes for success), unanswered (executed or not, and the context fails), not sent because
the context has failed before. The destructor is two steps, since the recorder and the storage
run in between: what the recorder forwards after the first is lost. redis-stream-out asks for at most `Batch` records behind the last id it has
seen and goes on from the last one it was given; when its connection fails it reads no more.

**Scheduler.** An actor is running, queued, or idle with an empty mailbox. `Take` gives a free
thread to the actor that has waited longest; `Leave` gives it back when the mailbox is empty, as
`max-throughput` in `pmud.caf` sets no smaller limit. CAF's queue per worker, from which idle
workers steal, is one queue here. The two controllers of a session are one actor, and only the
messages remain that lead from a client's connection or line to its next prompt.

**LineInput.** Bytes are visible characters, newline, carriage return, NUL, 0xff and ^D: the
classes the code distinguishes. A read takes the bytes that have arrived, up to `MaxRead`; as they
arrive one by one, any cut is possible. The two loops that clean text are `Keep` with the
characters each lets through; the reference `LinesOf` cuts at newlines and knows nothing of reads.

**Storage, YamlStorage.** Redis holds one typed value per key and refuses the commands of
another type; MockStorage has a table per type. Every operation is performed on both.
`StorageSpec` is any sequence of calls of the interface, whoever makes them: the steps of a load
and of the running MUD in `YamlStorage` are such calls.
`yaml_to_storage` is a recursive operator that gives the list of calls a document causes;
the loader makes them one by one and can be cut off in between (killed, or its context fails,
in which case every further call does nothing and the loader still reports success). A path
is the sequence of its parts. `RedisStorage::init` also writes the time of the connection
under a key of its own; that key is left out.

**GraphSearch.** The adjacency lists are sequences, so that the order of insertion matters as
it does in the code. A step of the breadth-first search looks at one edge of the vertex at the front of
the queue (`next` is the loop's position) or pops it. The code keeps a reference to the front and still
blackens the vertex through it after the pop (`BFS.h:51`, `60-61`); nothing is pushed in between, so that the
element is still in the deque's memory, and the model reads it as a copy. The recursion of DFS_Visit is a stack of frames.

**BlockHash, Crc32, Hashing.** The compression functions are uninterpreted: `m_hash` is the
sequence of the blocks compressed so far, so that two digests agree exactly if the same blocks
were compressed in the same order. `Texts` are the strings of bytes the callers pass in, for every class. What the model keeps is what the callers' pieces can upset: the
buffer, the counts, the padding with its second block, and what getHash leaves behind. A class
is a record (block size, kind of padding, order of the length's bytes). CRC32 is computed in
full, a word being the set of its one bits; the tables are those the generating polynomial
0xEDB88320 gives, and the 2048 entries written out in `crc32.cpp` have been compared with it
and agree.

**Life.** Boards are functions on cells. `read_file` keeps what `malloc` gave it: a short line takes
its newline, its zero and whatever follows them to the board, and the model lets the buffer hold
anything. Files have any number of lines. The code writes a row before it counts it: with more
than `NUM_ROWS` complete lines it writes behind the board, which is undefined (`WriteBehind`): the program
ends there (`pc = "crashed"`), or it reads on and exits in the end because the number of rows is wrong, so that no
game shows what was overwritten.

Assumed of libraries, and marked external in the map: CAF 0.18.6 mailboxes are FIFO per actor,
exits sent with `send_exit` queue behind earlier mail, mail to a dead actor is dropped, an actor without
references and mail ends, a late answer to a request is dropped; hiredis refuses commands after
an I/O error; the Redis types.

## 3. Runs

| Run | Module, cfg | Shows | Size |
|---|---|---|---|
| `session` | MCSession, Session.cfg | six invariants, the contract, how a session comes to rest | 594,498 states |
| `server` | Server, Server.cfg | shutdown, sockets, MudSystem, kill_server | 275,923 |
| `events` | Events, Events.cfg | EventLog is implemented, events arrive, what shutdown may cost | 553,742 |
| `lineinput` | MCLineInput, LineInput.cfg | lines and bytes | 390,468 |
| `yaml` | MCYamlStorage, YamlStorage.cfg | loads, crashes, mock against Redis | 245,321 |
| `graph` | GraphSearch, GraphSearch.cfg | both searches on all small graphs | 740,600 |
| `scheduler` | Scheduler, Scheduler.cfg | who is served when actors poll, and who is not | 19,107 |
| `hashing` | MCHashing, Hashing.cfg | digests depend on the bytes only, and are the padded message's | 6,845 |
| `life` | MCLife, Life.cfg | generations and boards read from files | 34,904 |

Bounds, and why they suffice:

* `session`: four reads that find data are the three lines of a login and one more, which is
  typed ahead of the hand-over, or a mismatch and its repetition, or a break, a quit or a
  fragment among them. A word, the empty line and the blanks: passwords are only compared with
  each other, and a mismatch needs two different lines. Four lines are also enough for the login to be
  confirmed twice. Polls without
  data are unbounded: they only turn the mailbox round.
* `server`: two clients and two descriptors, so that one client's descriptor can be reused or
  both can be open; two reads, so that prompts and polls can outlive a goodbye.
* `events`: three events from two sessions: enough for two in one mailbox and one in the other,
  and for a full batch of two and a short one.
* `lineinput`: five bytes of seven kinds, with reads of at most three: a line can be split over
  reads, two can share one, the buffer can be full, a telnet command can be anywhere.
* `yaml`: three loads allow a cut-off load, a complete one, and its repetition; one write of the
  MUD, at any path and of any type, is possible before, during or between them. The documents
  have the shapes found in `pmud/conf/world` plus the corner cases of the code (two spellings of
  one path, an empty entry, scalars and sequences at the root).
* `graph`: four vertices and four edges give paths of length three, diamonds, cycles, loops,
  duplicate edges, unreachable parts and cross edges between depth-first trees.
* `scheduler`: the server and two sessions on three threads. With one session fewer actors poll than there
  are threads; with both prompted they take all of them and their CommandActors wait. One line each,
  apart from "quit".
* `hashing`: two contents, and messages of 0 and 1 bytes, on both sides of the end of a block (and of the place where
  the length still fits), and two blocks, cut into every piece that leads from one such length to
  another of the same content; hashes, resets and calls anywhere in between. `ReadSize` 9 makes `digest` read
  every longer file in several pieces, and a file of two CRC blocks crosses it.
* `life`: all boards of four rows and three columns, so that inner cells, edges and corners have
  all their neighbours; three generations use both boards in both roles. The files have lines
  that are right, short, empty, long, missing, unterminated or too many.

`CHECK_DEADLOCK FALSE` is set where sessions, servers, loads, searches and games end or the bounds stop
the environment. The runs `hashing` and `scheduler` check for deadlock: an object can always
be called, and the server always has its next AcceptConnection.

### Fairness

`FairSpec` is weak fairness of each actor (of the disjunction of its handlers, never of a
particular one) and of main. CAF runs an actor that has mail; within a mailbox the order is
FIFO, so no more is needed. `Events` adds weak fairness of the reader. Nothing is assumed of users,
clients, Redis or signals.

Module `Scheduler` says how far this is justified. Its own fairness is only that of threads: a free
one takes the next actor, and one that has an actor runs it. `pmud/conf/pmud.caf` lets an actor handle
2^63-1 messages in one run and has ten threads; a polling session and the accepting server never
run out of mail. `Served` says that every client is prompted and answered while fewer actors poll
than there are threads. `CrowdStays` says that otherwise nobody else runs until one of the polling
clients quits, and `QuitWorks` that quitting always works. The fairness assumed in `Session` and
`Server` therefore stands for a server with at most eight prompted sessions.

### Disagreements found

Three runs are expected to be violated. Each states what the repository says and TLC shows what
the code does:

* `session_prompt`: after "Passwords don't match, please try again." and the prompt "enter
  password" the line typed is compared with the old password.
* `server_socket`: after close() the actor goes on using the number, which may be the next client's.
* `session_blank`: a line of blanks as long as the password, typed ahead of the hand-over, confirms the
  scrubbed password. A second account is recorded, and the second LoginControllerEnd ends the
  DefaultController, which stays active: "help", which it offers, is not answered any more. The properties of
  `session` that this breaks are stated up to it (`Once`), and the theorems show that nothing else breaks them.

Others are visible in the code and have no run:

* a client that enters the registry after main has copied it is never told goodbye; `OrphansAreLate` shows
  that there are no others;
* ~MudSystem stops the storage before the recorder, so that what the recorder still holds at shutdown is
  lost; `OnlyTheLastLost` and `QueuedArrives` show that nothing else is;
* a file with more lines than the board has rows makes `life` write behind the board (`life.c:302`);
* "quit" is not recognised when more follows in the same read (`connection_actor.h`);
* `start_server` returns 0 when the request times out, so a server that fails late is logged as
  started (`main.cpp:61-67`, `131`);
* `kill_server` is documented to return true if the actor "was terminated" (`main.cpp:89`) and
  returns true when the exit has been queued;
* `doc/roadmap.md:42` lists dropped connections as done, while a client that has gone looks like an
  idle one to `has_data` (`comm_static.h:62`);
* `life` reports one generation too many when it reaches its bound, the loop's variable being one
  past it (`life.c:138`, `177`, `78`).

## 4. Proofs

Every theorem is about a specification as the runs check it, for every value of its constants
that meets the module's assumptions: any set of lines, clients, users or sessions, any number of
reads, descriptors, events, threads, vertices, edges or generations, boards, buffers, batches and messages of
any size. The assumptions are the named ones of the modules (a bound is a number, sets of clients are finite,
the marker of a free descriptor is no client, only the last line of a file can lack its newline, a text is a
string of bytes). Nothing is assumed of what users type, of the number of lines in a file or of the length of a
message. Each component has an inductive
invariant, which TLC checked on the instance of its run before it was proved (of the hashes, the
three properties that it amounts to). The proofs
have a lemma per action or group of actions and a step per conjunct an action can disturb.
`SharedLemmas` has what they share: the messages a mailbox holds, and how many of a kind, after one
has been taken in front and others have been added; and induction. The library's induction
theorems have a predicate as their parameter, which the provers cannot instantiate. `SetInduction`,
`UptoInduction` and `SeqInduction` are about a set instead, which is proved to be all of Nat, 0..n
or Seq(S); `RecursionExists` gives the function that a recursive definition over 0..n
describes, so that a LET function of the model can be replaced by its equations.

**Session** (`SessionProofs`).

* `TypeCorrect`: `Spec => []TypeOK`. Every handler leaves mailboxes that are sequences of
  messages; the lemmas say what taking and sending do to their types.
* `SessionSafe`: `Spec => []SessionInv`. None of the interesting
  properties is inductive by itself: that the active controller is alive depends on the login
  ending only once, which depends on what is compared with the scrubbed password, which depends on
  what can still be in the LoginController's mailbox. The parts:
  mail exists only for actors that are up (`MailOnlyWhenUp`); the CommandActor outlives the
  connection (`CommandServes`); there is one welcome, and nothing is asked or typed before it
  (`WelcomeOnce`, `LoginComesFirst`); the LoginController is alive while it is active, and the
  DefaultController takes over only after an account (`HandOver`); unless the login is confirmed again, at most one LoginControllerEnd is under
  way, it means that the login is still the active controller, and the DefaultController is not told
  to exit (`EndsOnce`); password and account agree (`Scrubbed`).
* `NeverDeafAlways`, `ControllerServesAlways` and `InputHasControllerAlways` follow from it.
* `Implements`: `Spec => ContractSpec`. The first line at the password prompt is Choose, the confirmation is
  Register, or RegisterAgain if there is an account, LoginControllerEnd is Play, the CommandActor's exit is Leave, and every other step leaves the mapped state alone.

All of them hold for every set `Typed`, the blanks included. `SessionInv` and `InputHasController` are proved and
not repeated in a run.

**Prompts** (`SessionProofs`).

* `CountsKept`: the prompts shown and the messages under way in all four mailboxes that lead
  to one are together as many as the lines and the welcome, until the login is confirmed a second time; the polls in the connection's mailbox are as many as the
  prompts, whatever is typed. Nearly every handler takes one such message and sends one (`Plain`). The
  exceptions are the poll that finds a line, the welcome, the hand-over and the exits, and
  the exit of the LoginController would lose what is behind it in its mailbox: the invariant
  adds that nothing that leads to a prompt is (`ExitLast`). `OnePromptPerLineAlways` and `PollPerPromptAlways` follow.
* `PasswordsHiddenAlways`: the prompt for a password and the sequence that suppresses the echo
  travel through the mailboxes of the CommandActor and of the ConnectionActor. The invariant
  follows them (`Veiled`): in each mailbox every such prompt has a suppressing message ahead of
  it, in it or in the mailbox it leads to, unless the echo is off already; and nothing that
  would restore the echo is under way before the account has been recorded.

**Server** (`ServerProofs`). `ServerInvariant` counts the owners of the MudSystem
(`mud_refs` is main, the server and the cardinality of the sessions that have begun and not ended), gives each
open descriptor the session that will close it and that is not about to exit, lets no AcceptConnection be
under way before the server has started, keeps StartServer
in front of the mailbox and alone until it is handled, ties main's answers to the state they
were given in, and divides the sessions main leaves up into those told, those still to be told and
the late ones. From it follow `ServerTypes`, `MudLast`, `AllSocketsClosed`, `OnlyLateOrphans`,
and `KilledAcceptsNobody`, an action property.

**Events** (`EventsProofs`). `ImplementsLog`: `Spec => LogSpec`. The abstract queue (`ToStore`) is
the storage's mailbox followed by the recorder's, and once the destructor has told the storage to exit,
the part of the storage's mailbox before that exit: what arrives behind it is lost. A
forwarded event moves from one mailbox to the other and the queue stays; the destructor's first
step loses what the recorder has not forwarded; storing, refusing and losing an event take it from
the front. The invariant says that nobody is told to exit
while anybody can record, that there is one exit in the storage's mailbox afterwards, and that the reader has read
the stream up to its position. `EventsTypes` comes with it.
`OnlyTheLastLostAlways` needs that, unless Redis fails, what was recorded is the stream, what is still to be stored
(`ToStore`) and what is lost, in this order (`NoGap`): the first step of the destructor moves the recorder's mail from the
second to the third, and later losses join the third at its end.

**Scheduler** (`SchedulerProofs`). `SchedulerInvariant`: mail only for actors that are up, a
session's actors end in order, GoodbyeConnection and exit only for a client that quits, and for
every session a bound on the prompts it owes, which keeps `prompts` within its type.
`SchedulerTypes` says that an actor with mail has a thread or one place in the queue.
`CrowdKeepsThreads` (`CrowdStays`, an action property) is the bad news of section 3 for every
number of threads: an actor that handles a poll has it behind its other mail again, so its
mailbox is never empty and its thread never free.

**Storage** (`EventsProofs`). `MockFaithfulAlways`: `StorageSpec => []MockFaithful`. That two stores give
the same answers does not say in which of the mock's tables a key is, and del_key clears only the
first that has it; the invariant `StorageInv` has each key in one table at most.

**Life** (`LifeProofs`). `EveryGenerationConway` rests on `NeighborsCounted`, a bijection between
the directions in which the eight bound checks find a live cell and the live neighbours of
Conway's rule. `BoardFromFile` needs the invariant that the rows read so far are the file's first lines, as long as they are rows of the board.
`LifeTypes` holds for files of any length; it does not say that `read_file` stays on the board, and `FileIsBoard` says
which files it leaves it for.

**GraphSearch** (`GraphProofs`). Both searches grow a tree of parents: pi leads from what has been
discovered, against edges, to what was discovered before, and after fewer steps than there are
discovered vertices to none (`Tree`, which bounds the recursion of printPath). All edges of a
finished vertex lead to discovered ones (`Explored`). The definitions the properties use
(`Within`, `Ancestors`) are recursive; `NearLaw` and `UpLaw` and what follows from them are the inductions.

* `BfsFindsShortestPaths`: the queue has the gray vertices in the order of their distances, and
  they differ by one at most (`Queued`); the distance of a discovered vertex is the level it is in
  (`Exact`). When the front u discovers v, everything nearer than u is finished and has no
  undiscovered neighbour, so v is not on a lower level than d[u] + 1.
* `DfsTimesNest`: the stack has the gray vertices in the order of their discovery, each a child
  of the one below (`Stacked`); every moment before `time` is the discovery or the end of exactly one
  vertex (`Timed`), which is also why the clock stays within its type.
* `PrintPathHonest`: what a breadth-first search discovers descends from the source (`Reached`); of a depth-first
  search the tree of the source is closed under edges when the loop goes on to another root (`SourceTree`).

**LineInput** (`ByteProofs`). What `Keep` does to a sequence and to two joined ones is proved by
`SeqInduction`, and so are the laws of `LinesOf`: bytes behind the last newline make the rest
longer, and a newline makes a line of it. With them every read either lengthens the rest or
ends one line, unless it goes on behind a newline (`merged`), and `LinesArriveIntact` follows;
`NoTextLost` needs no such condition. `OnlyTwoBreaksEnd` needs that a break is counted only after a read that was one
(`BreakCounted`).

**Hashing** (`ByteProofs`). `Took(c, o, m)` says that the object o of class c has been given
the bytes m, in whatever pieces; every method is shown to keep it, with the right m.

* Of a block digest (`Absorbs`): the blocks compressed are the first of m, the buffer has the rest and
  is not full. `AddAbsorbs` follows add() through its three parts: the buffer topped up, whole blocks
  taken where they are, the rest kept. `DigestIs` shows that what processBuffer compresses is
  the end of the padded message, with one block or two, or by the sponges' rule, and that the padding
  getHash leaves in the buffer lies behind the bytes that count.
* Of CRC32, a round of the generator is linear in the word (`RoundLaw`). Hence the table that
  `LookupAfter` makes of the last one is EightShifts once more (`LookupsAre`), a word is the exclusive or of its
  bytes, and eight bytes at a time give what eight single bytes give (`EightBytesIs`). `CrcAddIs`
  follows the loop of add() over whole eights and the remaining bytes.
* The pieces `digest` reads are shown to be the file (`ReadsLaw`), for every size of its buffer.

`HashTypes`, `PiecesMakeNoDifference` and `DigestsAreRight` follow from `HashInv`. `Texts` may be any sets
of strings of bytes; with `Texts[c] = Seq(0..255)` the theorems are about every message in every cut. The count of
bits has 64 bits, as in the code (`ByteOf`).

Only model-checked:

* liveness (`SessionSettles`, `ShutdownCompletes`, `EventsArrive`, `QueuedArrives`, `Served`, `QuitWorks`): the prover handles neither fairness nor ENABLED;
* `LoadRepairs` and the types of YamlStorage: `yaml_to_storage` is a recursive operator over trees
  of any depth, which the prover does not support.

## 5. Not modelled

* The arithmetic of the compression functions (it has no control to speak of), and
  `hmac.h`, which nothing uses. In `Session` an account's passphrase is the password it was made from.
* `stream_store` and `read_stream_block` of RedisStorage, which nothing calls, `raw`, and the
  other tools in `util`: command lines without state of their own. Replies Redis does not send
  (an array of fields of odd length).
* SIGPIPE from `send` to a client that has gone; the departure of a client has no other effect
  the code can see.
* Of `life.c`: printing, and `set_cell`, `copy_board` and `invert_board`, which nothing calls.
* Command lines, logging, banners, dot and matrix output; `player` and `server_state`, stubs.

## 6. Plan

In order:

1. A composition of Session and Events: an account that a session announces ("Welcome") and the
   stream.
2. Server: the state of the peer and SIGPIPE.
3. YamlStorage: documents as functions on paths in place of trees, so that `LoadRepairs` can be
   proved.
