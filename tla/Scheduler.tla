------------------------------ MODULE Scheduler ------------------------------
(***************************************************************************)
(* The threads that the server and the sessions share.  pmud.caf lets an   *)
(* actor handle as many messages in one run as it has, so that it gives    *)
(* its thread back only when its mailbox is empty; the ServerActor, which  *)
(* sends itself AcceptConnection, and every ConnectionActor that has shown *)
(* a prompt, which sends itself FromUserGetInput, never have an empty one. *)
(*                                                                         *)
(* Of a session the messages are kept that make its actors run.  The two   *)
(* controllers are one actor, as only one of them is active; what they say *)
(* is in module Session, shutdown in module Server.                        *)
(*                                                                         *)
(* External (CAF 0.18.6): the queues of the workers, from which an idle    *)
(* worker steals, are one queue in the order of arrival.                   *)
(***************************************************************************)
EXTENDS Naturals, Sequences, FiniteSets

CONSTANTS
  Sessions,   \* the clients that may connect
  Threads,    \* max-threads
  MaxLines    \* bound: lines a client types, "quit" aside

ASSUME ThreadsAssumption == Threads \in Nat \ {0}
ASSUME MaxLinesAssumption == MaxLines \in Nat

Roles == {"Connection", "Command", "Controller"}
Server == <<"Server">>
Actors == {Server} \cup {<<role, s>> : role \in Roles, s \in Sessions}

Connection(s) == <<"Connection", s>>
Command(s) == <<"Command", s>>
Controller(s) == <<"Controller", s>>

Messages == {"AcceptConnection", "PerformWelcome", "LoginControllerStart", "OnUserInput",
             "ToUserPrompt", "FromUserGetInput", "GoodbyeConnection", "exit"}

VARIABLES
  mail,      \* the mailbox of each actor
  running,   \* the actors that have a thread
  queue,     \* the actors that wait for one
  up,        \* the actors that have been spawned and have not ended
  backlog,   \* clients connected and not accepted
  unread,    \* what each client has sent and nobody has read: "", "line", "quit"
  lines,     \* history: lines each client has typed
  prompts    \* history: prompts each client has been shown

vars == <<mail, running, queue, up, backlog, unread, lines, prompts>>
-----------------------------------------------------------------------------
\* Mutant of Resumes: an idle actor is not scheduled.
ResumesNobody(a, q) == q

\* The queue after actor a has got mail: an idle actor is scheduled.
Resumes(a, q) ==
  IF a \in running \/ \E k \in DOMAIN q : q[k] = a THEN q ELSE Append(q, a)

\* a takes its message and sends msg to b.
Handles(a, b, msg) ==
  /\ LET taken == [mail EXCEPT ![a] = Tail(@)]
     IN  mail' = IF b \in up THEN [taken EXCEPT ![b] = Append(@, msg)] ELSE taken
  /\ queue' = IF b \in up THEN Resumes(b, queue) ELSE queue
  /\ UNCHANGED <<running, up>>

Receives(a, msg) == a \in running /\ mail[a] # <<>> /\ Head(mail[a]) = msg

client == <<backlog, unread, lines, prompts>>

Connects(s) ==
  /\ Connection(s) \notin up /\ s \notin backlog
  /\ unread[s] # "quit"
  /\ backlog' = backlog \cup {s}
  /\ UNCHANGED <<mail, running, queue, up, unread, lines, prompts>>

Types(s) ==
  /\ Connection(s) \in up
  /\ unread[s] = ""
  /\ \/ lines[s] < MaxLines /\ unread' = [unread EXCEPT ![s] = "line"]
                            /\ lines' = [lines EXCEPT ![s] = @ + 1]
     \/ unread' = [unread EXCEPT ![s] = "quit"] /\ UNCHANGED lines
  /\ UNCHANGED <<mail, running, queue, up, backlog, prompts>>
-----------------------------------------------------------------------------
\* A thread that is free takes the actor that has waited longest.
Take ==
  /\ queue # <<>>
  /\ Cardinality(running) < Threads
  /\ running' = running \cup {Head(queue)}
  /\ queue' = Tail(queue)
  /\ UNCHANGED <<mail, up, client>>

\* Mutant of Leave: an actor's turn ends with a message.
LeaveAfterMessage(a) ==
  /\ a \in running
  /\ running' = running \ {a}
  /\ queue' = IF mail[a] = <<>> THEN queue ELSE Append(queue, a)
  /\ UNCHANGED <<mail, up, client>>

\* An actor without mail gives its thread back.
Leave(a) ==
  /\ a \in running
  /\ mail[a] = <<>>
  /\ running' = running \ {a}
  /\ UNCHANGED <<mail, queue, up, client>>

\* AcceptConnection: with a client, a session is spawned and welcomed.
ServerAccepts ==
  /\ Receives(Server, "AcceptConnection")
  /\ \E s \in backlog :
       /\ backlog' = backlog \ {s}
       /\ up' = up \cup {Connection(s), Command(s), Controller(s)}
       /\ mail' = [mail EXCEPT ![Connection(s)] = <<"PerformWelcome">>,
                               ![Server] = Append(Tail(@), "AcceptConnection")]
       /\ queue' = Append(queue, Connection(s))
  /\ UNCHANGED <<running, unread, lines, prompts>>

\* The messages that only lead to another one.
Passes(a, b, in, out) == Receives(a, in) /\ Handles(a, b, out) /\ UNCHANGED client

\* AcceptConnection without a client: the actor sends it to itself again.
ServerIdle ==
  /\ backlog = {}
  /\ Passes(Server, Server, "AcceptConnection", "AcceptConnection")

\* Mutant of ConnPrompt: the prompt starts no poll.
ConnPromptOnly(s) ==
  /\ Receives(Connection(s), "ToUserPrompt")
  /\ mail' = [mail EXCEPT ![Connection(s)] = Tail(@)]
  /\ prompts' = [prompts EXCEPT ![s] = @ + 1]
  /\ UNCHANGED <<running, queue, up, backlog, unread, lines>>

ConnPrompt(s) ==
  /\ Receives(Connection(s), "ToUserPrompt")
  /\ Handles(Connection(s), Connection(s), "FromUserGetInput")
  /\ prompts' = [prompts EXCEPT ![s] = @ + 1]
  /\ UNCHANGED <<backlog, unread, lines>>

\* Mutant of PollIdle: without data the actor stops polling.
PollIdleOnce(s) ==
  /\ unread[s] = ""
  /\ Receives(Connection(s), "FromUserGetInput")
  /\ mail' = [mail EXCEPT ![Connection(s)] = Tail(@)]
  /\ UNCHANGED <<running, queue, up, client>>

PollIdle(s) ==
  /\ unread[s] = ""
  /\ Passes(Connection(s), Connection(s), "FromUserGetInput", "FromUserGetInput")

\* A line goes to the CommandActor and the actor polls on.
PollLine(s) ==
  LET conn == Connection(s)
      cmd == Command(s)
  IN  /\ Receives(conn, "FromUserGetInput")
      /\ unread[s] = "line"
      /\ unread' = [unread EXCEPT ![s] = ""]
      /\ mail' = [mail EXCEPT ![conn] = Append(Tail(@), "FromUserGetInput"),
                              ![cmd] = Append(@, "OnUserInput")]
      /\ queue' = Resumes(cmd, queue)
      /\ UNCHANGED <<running, up, backlog, lines, prompts>>

PollQuit(s) ==
  /\ unread[s] = "quit"
  /\ Passes(Connection(s), Connection(s), "FromUserGetInput", "GoodbyeConnection")

\* Exit: the rest of the mailbox is discarded, the thread is free, next is told.
Exits(a, next) ==
  /\ Receives(a, "exit")
  /\ up' = up \ {a}
  /\ running' = running \ {a}
  /\ mail' = [x \in Actors |-> IF x = a THEN <<>>
                               ELSE IF x \in next \cap up THEN Append(mail[x], "exit") ELSE mail[x]]
  /\ queue' = IF next \cap up = {} THEN queue ELSE Resumes(CHOOSE x \in next : TRUE, queue)
  /\ UNCHANGED client

Step(a) ==
  \/ Leave(a)
  \/ a = Server /\ (ServerAccepts \/ ServerIdle)
  \/ \E s \in Sessions :
       \/ /\ a = Connection(s)
          /\ \/ Passes(a, Command(s), "PerformWelcome", "PerformWelcome")
             \/ ConnPrompt(s) \/ PollIdle(s) \/ PollLine(s) \/ PollQuit(s)
             \/ Passes(a, a, "GoodbyeConnection", "exit")
             \/ Exits(a, {Command(s)})
       \/ /\ a = Command(s)
          /\ \/ Passes(a, Controller(s), "PerformWelcome", "LoginControllerStart")
             \/ Passes(a, Controller(s), "OnUserInput", "OnUserInput")
             \/ Passes(a, Connection(s), "ToUserPrompt", "ToUserPrompt")
             \/ Exits(a, {Controller(s)})
       \/ /\ a = Controller(s)
          /\ \/ Passes(a, Command(s), "LoginControllerStart", "ToUserPrompt")
             \/ Passes(a, Command(s), "OnUserInput", "ToUserPrompt")
             \/ Exits(a, {})

\* StartServer has been handled.
Init ==
  /\ mail = [a \in Actors |-> IF a = Server THEN <<"AcceptConnection">> ELSE <<>>]
  /\ running = {Server}
  /\ queue = <<>>
  /\ up = {Server}
  /\ backlog = {}
  /\ unread = [s \in Sessions |-> ""]
  /\ lines = [s \in Sessions |-> 0]
  /\ prompts = [s \in Sessions |-> 0]

Next ==
  \/ \E s \in Sessions : Connects(s) \/ Types(s)
  \/ Take
  \/ \E a \in Actors : Step(a)

\* Every thread runs the actor it has, and one that is free takes the next.
Spec ==
  /\ Init /\ [][Next]_vars
  /\ WF_vars(Take)
  /\ \A a \in Actors : WF_vars(Step(a))
-----------------------------------------------------------------------------
(***************************************************************************)
(* Properties.                                                             *)
(***************************************************************************)
\* Every variable has its type; no actor is in two places, and every actor with
\* mail is in one.
TypeOK ==
  /\ mail \in [Actors -> Seq(Messages)]
  /\ running \subseteq up /\ up \subseteq Actors
  /\ Cardinality(running) <= Threads
  /\ queue \in Seq(up \ running)
  /\ \A j, k \in DOMAIN queue : queue[j] = queue[k] => j = k
  /\ \A a \in up : mail[a] # <<>> => a \in running \/ \E k \in DOMAIN queue : queue[k] = a
  /\ backlog \subseteq Sessions
  /\ unread \in [Sessions -> {"", "line", "quit"}]
  /\ lines \in [Sessions -> 0..MaxLines]
  /\ prompts \in [Sessions -> 0..(MaxLines + 1)]

Polling ==
  {a \in up : \E k \in DOMAIN mail[a] : mail[a][k] \in {"AcceptConnection", "FromUserGetInput"}}

\* The threads are all taken by actors that poll, and none of them is about to end.
Crowded ==
  /\ Cardinality(running) = Threads
  /\ running \subseteq Polling
  /\ \A s \in Sessions : Connection(s) \in running =>
       /\ unread[s] # "quit"
       /\ \A k \in DOMAIN mail[Connection(s)] : mail[Connection(s)][k] \notin {"GoodbyeConnection", "exit"}

\* Once the server and the sessions that have a prompt take all threads, no other
\* actor handles a message, neither a command nor a login nor the welcome of a new
\* client, until one of these clients quits.
CrowdStays ==
  [][Crowded => /\ Crowded' \/ \E s \in Sessions : unread'[s] = "quit"
                /\ \A a \in Actors \ running : Len(mail'[a]) >= Len(mail[a])]_vars

\* While fewer actors poll than there are threads, a client that connects is
\* prompted and every line it types is answered, unless it quits.
Served ==
  [](Cardinality(Polling) < Threads) =>
    \A s \in Sessions :
      /\ s \in backlog ~> prompts[s] > 0 \/ unread[s] = "quit"
      /\ \A n \in 1..MaxLines : lines[s] = n ~> prompts[s] > n \/ unread[s] = "quit"

\* A client that has been prompted can quit, crowd or not: its ConnectionActor has
\* a thread and ends.
QuitWorks ==
  \A s \in Sessions : unread[s] = "quit" /\ prompts[s] > 0 ~> Connection(s) \notin up
=============================================================================
