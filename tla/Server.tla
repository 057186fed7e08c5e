------------------------------- MODULE Server -------------------------------
(***************************************************************************)
(* The process around the sessions: main (start, wait for SIGINT, shut     *)
(* down), the ServerActor that accepts clients, the actor registry, the    *)
(* kernel's descriptor table, and the MudSystem shared by everybody, whose *)
(* destructor stops storage and event recorder.                            *)
(*                                                                         *)
(* A session is the ConnectionActor's mailbox and descriptor; the          *)
(* CommandActor and the controllers (module Session) are the prompts they  *)
(* owe.  External: CAF mailboxes, requests with a timeout whose late       *)
(* answer is dropped, an actor without references and mail ends; POSIX     *)
(* accept, which returns the lowest free descriptor.                       *)
(***************************************************************************)
EXTENDS Integers, Sequences, FiniteSets

CONSTANTS
  Clients,   \* the clients that may connect, each once
  MaxFd,     \* descriptors for clients are 1..MaxFd
  MaxReads   \* bound: lines read from all sockets together

ASSUME ClientsAssumption == IsFiniteSet(Clients)
ASSUME FdAssumption == MaxFd \in Nat /\ MaxReads \in Nat

Free == "free"
ASSUME FreeAssumption == Free \notin Clients

Fds == 1..MaxFd
ListenFd == MaxFd + 1
NoAnswer == "none"
Stages == {"starting", "running", "quitting", "killing", "ending", "done"}

VARIABLES
  stage,            \* main: where caf_main is
  g_signal_status,  \* main: SIGINT has been received
  todo,             \* main: registry snapshot entries still to be told
  kill_result,      \* main: result of run()
  answer,           \* main: the response it is waiting for
  inbox,            \* ServerActor: mailbox
  server,           \* ServerActor: "up" or "down"
  m_sockfd,         \* ServerActor
  accepting,        \* ServerActor: whose AcceptConnection it is in the middle of
  session,          \* of each client: "none", "new", "up", "ending", "down"
  mail,             \* the ConnectionActor's mailbox
  owed,             \* prompts the CommandActor and its controllers owe
  m_connection,     \* the ConnectionActor's descriptor
  sock,             \* kernel: the client at the other end of a descriptor
  registry,         \* connections in the actor registry
  mud_refs,         \* references to the MudSystem
  storage,          \* StorageActor: "up", "told" to exit, "down"
  recorder,         \* EventRecorderActor: the same
  late,             \* history: clients put in the registry after the snapshot
  crossed,          \* history: <<c, d>>, c's actor used d's socket
  reads             \* history: lines read

mainVars == <<stage, todo, kill_result>>
serverVars == <<inbox, server, m_sockfd, accepting>>
connVars == <<session, mail, owed, m_connection, sock, registry, crossed, reads>>
mudVars == <<mud_refs, storage, recorder>>
vars == <<mainVars, g_signal_status, answer, serverVars, connVars, mudVars, late>>
-----------------------------------------------------------------------------
Snapshot == stage \in {"quitting", "killing", "ending", "done"}

LowestFree ==
  CHOOSE f \in Fds : sock[f] = Free /\ \A g \in Fds : sock[g] = Free => f <= g

\* A shared_ptr<MudSystem> goes away.  The last one runs the destructor: it
\* tells the StorageActor to exit and then the EventRecorderActor.
ReleaseMud ==
  /\ mud_refs' = mud_refs - 1
  /\ IF mud_refs = 1
       THEN storage' = "told" /\ recorder' = "told"
       ELSE UNCHANGED <<storage, recorder>>

Hears(atom) == server = "up" /\ accepting = {} /\ inbox # <<>> /\ Head(inbox) = atom

ToServer(atom) == IF server = "up" THEN Append(inbox, atom) ELSE inbox

Gets(c, atom) == session[c] = "up" /\ mail[c] # <<>> /\ Head(mail[c]) = atom

\* c's actor takes its message and sends itself msgs.
Takes(c, msgs) == mail' = [mail EXCEPT ![c] = Tail(@) \o msgs]

\* The socket c's actor reads from, writes to or closes.
Peer(c) == sock[m_connection[c]]

Uses(c) == crossed' = IF Peer(c) \in {c, Free} THEN crossed
                      ELSE crossed \cup {<<c, Peer(c)>>}
-----------------------------------------------------------------------------
(***************************************************************************)
(* main.                                                                   *)
(***************************************************************************)
Interrupt ==
  /\ ~g_signal_status
  /\ g_signal_status' = TRUE
  /\ UNCHANGED <<mainVars, answer, serverVars, connVars, mudVars, late>>

\* start_server has its answer: run() goes on, or returns false.
MainStarted ==
  /\ stage = "starting"
  /\ answer # NoAnswer
  /\ answer' = NoAnswer
  /\ IF answer = "ok"
       THEN /\ stage' = "running"
            /\ UNCHANGED <<kill_result, mudVars>>
       ELSE /\ stage' = "ending" /\ kill_result' = "false"
            /\ ReleaseMud
  /\ UNCHANGED <<todo, g_signal_status, serverVars, connVars, late>>

\* The request times out: the error handler only logs, server_success is 0.
MainStartTimeout ==
  /\ stage = "starting"
  /\ answer = NoAnswer
  /\ stage' = "running"
  /\ UNCHANGED <<todo, kill_result, answer, g_signal_status, serverVars, connVars,
                 mudVars, late>>

\* The wait loop ends; quit_connection_actors iterates over a copy of the registry.
MainSeesSignal ==
  /\ stage = "running"
  /\ g_signal_status
  /\ stage' = "quitting"
  /\ todo' = registry
  /\ UNCHANGED <<kill_result, answer, g_signal_status, serverVars,
                 connVars, mudVars, late>>

MainQuits(c) ==
  /\ stage = "quitting"
  /\ c \in todo
  /\ todo' = todo \ {c}
  /\ mail' = IF session[c] = "up"
               THEN [mail EXCEPT ![c] = Append(@, "GoodbyeConnection")] ELSE mail
  /\ UNCHANGED <<stage, kill_result, answer, g_signal_status, serverVars,
                 session, owed, m_connection, sock, registry, crossed, reads,
                 mudVars, late>>

MainKills ==
  /\ stage = "quitting"
  /\ todo = {}
  /\ stage' = "killing"
  /\ inbox' = ToServer("GoodbyeServer")
  /\ UNCHANGED <<todo, kill_result, answer, g_signal_status, server,
                 m_sockfd, accepting, connVars, mudVars, late>>

\* Mutant of MainKillEnds: the error handler leaves result uninitialized.
MainKillEndsUnset ==
  /\ stage = "killing"
  /\ kill_result' = IF answer = NoAnswer THEN "unset" ELSE "true"
  /\ answer' = NoAnswer
  /\ stage' = "ending"
  /\ ReleaseMud
  /\ UNCHANGED <<todo, g_signal_status, serverVars, connVars, late>>

\* kill_server returns, with an answer or after its timeout; the scope that
\* holds main's MudSystemPtr ends.
MainKillEnds ==
  /\ stage = "killing"
  /\ kill_result' = IF answer = NoAnswer THEN "false" ELSE "true"
  /\ answer' = NoAnswer
  /\ stage' = "ending"
  /\ ReleaseMud
  /\ UNCHANGED <<todo, g_signal_status, serverVars, connVars, late>>

\* await_all_actors_done, called here or by the actor system's destructor.
MainDone ==
  /\ stage = "ending"
  /\ server = "down" /\ storage = "down" /\ recorder = "down"
  /\ \A c \in Clients : session[c] \in {"none", "down"}
  /\ stage' = "done"
  /\ UNCHANGED <<todo, kill_result, answer, g_signal_status, serverVars,
                 connVars, mudVars, late>>
-----------------------------------------------------------------------------
(***************************************************************************)
(* ServerActor.                                                            *)
(***************************************************************************)
\* The response is dropped when main no longer waits for it.
ServerStarts ==
  /\ Hears("StartServer")
  /\ m_sockfd' = ListenFd
  /\ inbox' = Append(Tail(inbox), "AcceptConnection")
  /\ answer' = IF stage = "starting" THEN "ok" ELSE answer
  /\ UNCHANGED <<server, accepting, mainVars, g_signal_status, connVars, mudVars, late>>

\* socket() gives -1, or bind() or listen() fails and the socket stays open.
ServerStartFails ==
  /\ Hears("StartServer")
  /\ m_sockfd' \in {-1, ListenFd}
  /\ inbox' = Tail(inbox)
  /\ answer' = IF stage = "starting" THEN "errno" ELSE answer
  /\ UNCHANGED <<server, accepting, mainVars, g_signal_status, connVars, mudVars, late>>

ServerIgnoresAccept ==
  /\ Hears("AcceptConnection")
  /\ m_sockfd <= 0
  /\ inbox' = Tail(inbox)
  /\ UNCHANGED <<server, m_sockfd, accepting, mainVars, g_signal_status, answer, connVars,
                 mudVars, late>>

\* accept() gives -1, whatever the reason: it will be tried again.
ServerAcceptsNobody ==
  /\ Hears("AcceptConnection")
  /\ m_sockfd > 0
  /\ inbox' = Append(Tail(inbox), "AcceptConnection")
  /\ UNCHANGED <<server, m_sockfd, accepting, mainVars, g_signal_status, answer, connVars,
                 mudVars, late>>

\* Mutant of ServerAccepts: the session refers to the MudSystem without owning it.
ServerAcceptsBorrowing(c) ==
  /\ Hears("AcceptConnection")
  /\ m_sockfd > 0
  /\ session[c] = "none"
  /\ \E f \in Fds : sock[f] = Free
  /\ inbox' = Tail(inbox)
  /\ accepting' = {c}
  /\ session' = [session EXCEPT ![c] = "new"]
  /\ mail' = [mail EXCEPT ![c] = <<>>]
  /\ m_connection' = [m_connection EXCEPT ![c] = LowestFree]
  /\ sock' = [sock EXCEPT ![LowestFree] = c]
  /\ UNCHANGED <<server, m_sockfd, mainVars, g_signal_status, answer, owed, registry,
                 crossed, reads, mudVars, late>>

\* accept(), and the spawn of a ConnectionActor, which shares the MudSystem, up to the
\* registry: main runs in another thread.
ServerAccepts(c) ==
  /\ Hears("AcceptConnection")
  /\ m_sockfd > 0
  /\ session[c] = "none"
  /\ \E f \in Fds : sock[f] = Free
  /\ inbox' = Tail(inbox)
  /\ accepting' = {c}
  /\ session' = [session EXCEPT ![c] = "new"]
  /\ mail' = [mail EXCEPT ![c] = <<>>]
  /\ m_connection' = [m_connection EXCEPT ![c] = LowestFree]
  /\ sock' = [sock EXCEPT ![LowestFree] = c]
  /\ mud_refs' = mud_refs + 1
  /\ UNCHANGED <<server, m_sockfd, mainVars, g_signal_status, answer, owed, registry,
                 crossed, reads, storage, recorder, late>>

\* Mutant of ServerRegisters: the connection is not put in the registry.
ServerRegistersNobody(c) ==
  /\ session[c] = "new"
  /\ session' = [session EXCEPT ![c] = "up"]
  /\ late' = IF Snapshot THEN late \cup {c} ELSE late
  /\ UNCHANGED <<mainVars, g_signal_status, answer, serverVars, mail, owed, m_connection, sock,
                 registry, crossed, reads, mudVars>>

\* The ConnectionActor's constructor puts it in the registry: it has a mailbox.
ServerRegisters(c) ==
  /\ session[c] = "new"
  /\ session' = [session EXCEPT ![c] = "up"]
  /\ registry' = registry \cup {c}
  /\ late' = IF Snapshot THEN late \cup {c} ELSE late
  /\ UNCHANGED <<mainVars, g_signal_status, answer, serverVars, mail, owed, m_connection, sock,
                 crossed, reads, mudVars>>

\* The rest of AcceptConnection.  Main may have been faster with a GoodbyeConnection.
ServerWelcomes(c) ==
  /\ c \in accepting
  /\ session[c] # "new"
  /\ mail' = IF session[c] = "up"
               THEN [mail EXCEPT ![c] = Append(@, "PerformWelcome")] ELSE mail
  /\ inbox' = Append(inbox, "AcceptConnection")
  /\ accepting' = {}
  /\ UNCHANGED <<server, m_sockfd, mainVars, g_signal_status, answer, session, owed,
                 m_connection, sock, registry, crossed, reads, mudVars, late>>

\* Mutant of ServerGoodbye: the listening socket is left as it is.
ServerGoodbyeStillOpen ==
  /\ Hears("GoodbyeServer")
  /\ inbox' = Append(Tail(inbox), "exit")
  /\ answer' = IF stage = "killing" THEN "true" ELSE answer
  /\ UNCHANGED <<server, m_sockfd, accepting, mainVars, g_signal_status, connVars, mudVars,
                 late>>

ServerGoodbye ==
  /\ Hears("GoodbyeServer")
  /\ m_sockfd' = 0
  /\ inbox' = Append(Tail(inbox), "exit")
  /\ answer' = IF stage = "killing" THEN "true" ELSE answer
  /\ UNCHANGED <<server, accepting, mainVars, g_signal_status, connVars, mudVars, late>>

\* The exit message; or run() has dropped the last reference and nothing is
\* left in the mailbox.
ServerExit ==
  /\ server = "up"
  /\ \/ Hears("exit")
     \/ inbox = <<>> /\ accepting = {} /\ stage = "ending"
  /\ server' = "down"
  /\ inbox' = <<>>
  /\ ReleaseMud
  /\ UNCHANGED <<m_sockfd, accepting, mainVars, g_signal_status, answer, connVars, late>>
-----------------------------------------------------------------------------
(***************************************************************************)
(* ConnectionActor.                                                        *)
(***************************************************************************)
ConnWelcome(c) ==
  /\ Gets(c, "PerformWelcome")
  /\ Takes(c, <<>>)
  /\ owed' = [owed EXCEPT ![c] = @ + 1]
  /\ UNCHANGED <<session, m_connection, sock, registry, crossed, reads, mainVars,
                 g_signal_status, answer, serverVars, mudVars, late>>

\* A controller's prompt arrives by way of the CommandActor.
PromptArrives(c) ==
  /\ session[c] = "up"
  /\ owed[c] > 0
  /\ owed' = [owed EXCEPT ![c] = @ - 1]
  /\ mail' = [mail EXCEPT ![c] = Append(@, "ToUserPrompt")]
  /\ UNCHANGED <<session, m_connection, sock, registry, crossed, reads, mainVars,
                 g_signal_status, answer, serverVars, mudVars, late>>

ConnPrompt(c) ==
  /\ Gets(c, "ToUserPrompt")
  /\ Uses(c)
  /\ Takes(c, <<"FromUserGetInput">>)
  /\ UNCHANGED <<session, owed, m_connection, sock, registry, reads, mainVars,
                 g_signal_status, answer, serverVars, mudVars, late>>

\* Nothing to read; a break or a fragment looks the same from here.
PollIdle(c) ==
  /\ Gets(c, "FromUserGetInput")
  /\ Takes(c, <<"FromUserGetInput">>)
  /\ UNCHANGED <<session, owed, m_connection, sock, registry, crossed, reads,
                 mainVars, g_signal_status, answer, serverVars, mudVars, late>>

\* Whoever is at the other end of the descriptor has typed "quit", or a line.
PollReads(c) ==
  /\ Gets(c, "FromUserGetInput")
  /\ Peer(c) # Free
  /\ reads < MaxReads
  /\ reads' = reads + 1
  /\ Uses(c)
  /\ \/ Takes(c, <<"GoodbyeConnection">>) /\ UNCHANGED owed
     \/ Takes(c, <<"FromUserGetInput">>) /\ owed' = [owed EXCEPT ![c] = @ + 1]
  /\ UNCHANGED <<session, m_connection, sock, registry, mainVars, g_signal_status,
                 answer, serverVars, mudVars, late>>

\* Mutant of ConnGoodbye: the descriptor is not closed.
ConnGoodbyeKeepsSocket(c) ==
  /\ Gets(c, "GoodbyeConnection")
  /\ Uses(c)
  /\ registry' = registry \ {c}
  /\ Takes(c, <<"exit">>)
  /\ UNCHANGED <<session, owed, m_connection, sock, reads, mainVars, g_signal_status,
                 answer, serverVars, mudVars, late>>

\* Mutant of ConnGoodbye: the actor does not tell itself to exit.
ConnGoodbyeStays(c) ==
  /\ Gets(c, "GoodbyeConnection")
  /\ Uses(c)
  /\ sock' = [sock EXCEPT ![m_connection[c]] = Free]
  /\ registry' = registry \ {c}
  /\ Takes(c, <<>>)
  /\ UNCHANGED <<session, owed, m_connection, reads, mainVars, g_signal_status,
                 answer, serverVars, mudVars, late>>

\* m_connection keeps its value: what it denotes is closed, again if need be.
ConnGoodbye(c) ==
  /\ Gets(c, "GoodbyeConnection")
  /\ Uses(c)
  /\ sock' = [sock EXCEPT ![m_connection[c]] = Free]
  /\ registry' = registry \ {c}
  /\ Takes(c, <<"exit">>)
  /\ UNCHANGED <<session, owed, m_connection, reads, mainVars, g_signal_status,
                 answer, serverVars, mudVars, late>>

ConnExit(c) ==
  /\ Gets(c, "exit")
  /\ session' = [session EXCEPT ![c] = "ending"]
  /\ mail' = [mail EXCEPT ![c] = <<>>]
  /\ UNCHANGED <<owed, m_connection, sock, registry, crossed, reads, mainVars,
                 g_signal_status, answer, serverVars, mudVars, late>>

\* CommandActor and controllers have ended too (SessionSettles of module
\* Session): the session's references to the MudSystem are gone.
SessionEnds(c) ==
  /\ session[c] = "ending"
  /\ session' = [session EXCEPT ![c] = "down"]
  /\ owed' = [owed EXCEPT ![c] = 0]
  /\ ReleaseMud
  /\ UNCHANGED <<mail, m_connection, sock, registry, crossed, reads, mainVars,
                 g_signal_status, answer, serverVars, late>>

StorageExit ==
  /\ storage = "told"
  /\ storage' = "down"
  /\ UNCHANGED <<mud_refs, recorder, mainVars, g_signal_status, answer, serverVars,
                 connVars, late>>

RecorderExit ==
  /\ recorder = "told"
  /\ recorder' = "down"
  /\ UNCHANGED <<mud_refs, storage, mainVars, g_signal_status, answer, serverVars,
                 connVars, late>>
-----------------------------------------------------------------------------
\* caf_main has created the MudSystem and run() the server, and the request
\* StartServer has been sent.
Init ==
  /\ stage = "starting"
  /\ g_signal_status = FALSE
  /\ todo = {}
  /\ kill_result = "none"
  /\ answer = NoAnswer
  /\ inbox = <<"StartServer">>
  /\ server = "up"
  /\ m_sockfd = 0
  /\ accepting = {}
  /\ session = [c \in Clients |-> "none"]
  /\ mail = [c \in Clients |-> <<>>]
  /\ owed = [c \in Clients |-> 0]
  /\ m_connection = [c \in Clients |-> 0]
  /\ sock = [f \in Fds |-> Free]
  /\ registry = {}
  /\ mud_refs = 2
  /\ storage = "up" /\ recorder = "up"
  /\ late = {}
  /\ crossed = {}
  /\ reads = 0

Main ==
  \/ MainStarted
  \/ MainStartTimeout
  \/ MainSeesSignal
  \/ \E c \in Clients : MainQuits(c)
  \/ MainKills
  \/ MainKillEnds
  \/ MainDone

ServerActor ==
  \/ ServerStarts
  \/ ServerStartFails
  \/ ServerIgnoresAccept
  \/ ServerAcceptsNobody
  \/ \E c \in Clients : ServerAccepts(c) \/ ServerRegisters(c) \/ ServerWelcomes(c)
  \/ ServerGoodbye
  \/ ServerExit

ConnectionActor(c) ==
  \/ ConnWelcome(c)
  \/ ConnPrompt(c)
  \/ PollIdle(c)
  \/ PollReads(c)
  \/ ConnGoodbye(c)
  \/ ConnExit(c)

Next ==
  \/ Interrupt
  \/ Main
  \/ ServerActor
  \/ \E c \in Clients : ConnectionActor(c) \/ PromptArrives(c) \/ SessionEnds(c)
  \/ StorageExit
  \/ RecorderExit

Spec == Init /\ [][Next]_vars

\* Every actor with mail runs, main runs, a session's actors finish.
Fairness ==
  /\ WF_vars(Main)
  /\ WF_vars(ServerActor)
  /\ \A c \in Clients :
       /\ WF_vars(ConnectionActor(c))
       /\ WF_vars(PromptArrives(c))
       /\ WF_vars(SessionEnds(c))
  /\ WF_vars(StorageExit)
  /\ WF_vars(RecorderExit)

FairSpec == Spec /\ Fairness
-----------------------------------------------------------------------------
(***************************************************************************)
(* Properties.                                                             *)
(***************************************************************************)
Atoms == {"PerformWelcome", "ToUserPrompt", "FromUserGetInput",
          "GoodbyeConnection", "exit"}

\* Every variable has its type.
TypeOK ==
  /\ stage \in Stages
  /\ g_signal_status \in BOOLEAN
  /\ todo \subseteq Clients /\ registry \subseteq Clients /\ late \subseteq Clients
  /\ kill_result \in {"none", "true", "false"}
  /\ answer \in {NoAnswer, "ok", "errno", "true"}
  /\ inbox \in Seq({"StartServer", "AcceptConnection", "GoodbyeServer", "exit"})
  /\ server \in {"up", "down"}
  /\ m_sockfd \in {-1, 0, ListenFd}
  /\ accepting \subseteq Clients
  /\ session \in [Clients -> {"none", "new", "up", "ending", "down"}]
  /\ mail \in [Clients -> Seq(Atoms)]
  /\ owed \in [Clients -> Nat]
  /\ m_connection \in [Clients -> Fds \cup {0}]
  /\ sock \in [Fds -> Clients \cup {Free}]
  /\ mud_refs \in Nat
  /\ storage \in {"up", "told", "down"} /\ recorder \in {"up", "told", "down"}
  /\ crossed \subseteq Clients \X Clients
  /\ reads \in 0..MaxReads

InMail(c, atom) == \E i \in DOMAIN mail[c] : mail[c][i] = atom

\* Once main has gone through the registry, a session that is still up has
\* been told to close, by main or by its user, unless its constructor put it in the
\* registry after main had copied that, whether it was accepted before or after.
OrphansAreLate ==
  \A c \in Clients :
    stage \in {"killing", "ending"} /\ session[c] = "up"
      => InMail(c, "GoodbyeConnection") \/ InMail(c, "exit") \/ c \in late

\* The MudSystem outlives its users: storage and recorder are told to exit only
\* when main, the server and all actors of all sessions have let go of it.
MudOutlivesUsers ==
  storage # "up" \/ recorder # "up" =>
    /\ stage \in {"ending", "done"}
    /\ server = "down"
    /\ \A c \in Clients : session[c] \in {"none", "down"}

\* No socket stays open without an actor to close it: the clients' ends are all
\* closed when the sessions are over.
SocketsClosed == \A f \in Fds : sock[f] # Free => session[sock[f]] \in {"new", "up"}

\* When kill_server has reported success nobody is accepted any more, whatever
\* is still in the server's mailbox.
NobodyAfterKill ==
  [][kill_result = "true" => \A c \in Clients : session[c] = "none" => session'[c] = "none"]_vars

\* SIGINT leads to the end of the process: of the server, whether it started or
\* not and whether it answered in time or not, of all sessions, of recorder and
\* storage; provided that no client enters the registry after main copied it.
ShutdownCompletes == [](late = {}) => (g_signal_status ~> stage = "done")
-----------------------------------------------------------------------------
(***************************************************************************)
(* What the program's own texts claim and the code does not do.            *)
(***************************************************************************)
\* "Connection {} is invalid!": an actor that reads, writes or closes through
\* a CommStatic has its own client at the other end, or nobody.
OwnSocket == crossed = {}
=============================================================================
