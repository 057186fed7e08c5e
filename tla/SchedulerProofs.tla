-------------------------- MODULE SchedulerProofs --------------------------
(***************************************************************************)
(* The safety of the shared threads, proved for every set of sessions,     *)
(* every number of threads and every number of lines: an actor with mail   *)
(* has a thread or waits for one, and actors that poll keep their threads. *)
(***************************************************************************)
EXTENDS Scheduler, SharedLemmas

ActorsOf(s) == {Connection(s), Command(s), Controller(s)}

\* The messages that lead to a prompt, and those that lead to themselves.
Prompting == {"PerformWelcome", "LoginControllerStart", "OnUserInput", "ToUserPrompt"}
Polls == {"AcceptConnection", "FromUserGetInput"}
Closes == {"GoodbyeConnection", "exit"}

(***************************************************************************)
(* The parts of the inductive invariant.                                   *)
(***************************************************************************)
\* The actors of a session end one after the other, the connection first.
Lifetimes ==
  \A s \in Sessions :
    /\ Connection(s) \in up => Command(s) \in up
    /\ Command(s) \in up => Controller(s) \in up
    /\ Holds(mail[Command(s)], "exit") => Connection(s) \notin up
    /\ Holds(mail[Controller(s)], "exit") => Command(s) \notin up

\* A session without ConnectionActor is over, or nothing has happened in it.
Fresh ==
  \A s \in Sessions :
    /\ Connection(s) \notin up /\ unread[s] # "quit" =>
         Command(s) \notin up /\ Controller(s) \notin up /\ lines[s] = 0 /\ prompts[s] = 0
         /\ unread[s] = ""
    /\ s \in backlog => Connection(s) \notin up /\ unread[s] # "quit"

\* Nobody keeps mail for an actor that is not there.
MailUp == \A a \in Actors : a \notin up => mail[a] = <<>>

\* A session is closed for a client that quits.
Closing ==
  \A s \in Sessions, m \in Closes : Holds(mail[Connection(s)], m) => unread[s] = "quit"

\* Commands and controllers do not poll.
PollsAtConnection ==
  \A s \in Sessions, m \in Polls :
    ~Holds(mail[Command(s)], m) /\ ~Holds(mail[Controller(s)], m)

\* What a session still owes its client: every line is answered by one prompt at
\* most, and there is one at the beginning.
Owed(s) ==
  Tally(mail[Connection(s)], Prompting) + Tally(mail[Command(s)], Prompting)
    + Tally(mail[Controller(s)], Prompting) + (IF unread[s] = "line" THEN 1 ELSE 0)
Answers == \A s \in Sessions : prompts[s] + Owed(s) <= lines[s] + 1

SchedInv ==
  /\ IsFiniteSet(running)
  /\ Lifetimes /\ Fresh /\ MailUp
  /\ Closing /\ PollsAtConnection
  /\ Answers
-----------------------------------------------------------------------------
\* The actors are all different.
LEMMA ActorsApart ==
  /\ Server \in Actors
  /\ \A s \in Sessions :
       /\ Connection(s) \in Actors /\ Command(s) \in Actors /\ Controller(s) \in Actors
       /\ Connection(s) # Server /\ Command(s) # Server /\ Controller(s) # Server
       /\ \A t \in Sessions :
            /\ Connection(s) # Command(t) /\ Connection(s) # Controller(t)
            /\ Command(s) # Controller(t)
            /\ Connection(s) = Connection(t) => s = t
            /\ Command(s) = Command(t) => s = t
            /\ Controller(s) = Controller(t) => s = t
<1>1. \A s \in Sessions :
        Connection(s) \in Actors /\ Command(s) \in Actors /\ Controller(s) \in Actors
  BY DEF Actors, Roles, Connection, Command, Controller
<1>2. \A s \in Sessions : Connection(s) # Server /\ Command(s) # Server /\ Controller(s) # Server
  BY DEF Server, Connection, Command, Controller
<1>3. \A s, t \in Sessions :
        /\ Connection(s) # Command(t) /\ Connection(s) # Controller(t)
        /\ Command(s) # Controller(t)
        /\ Connection(s) = Connection(t) => s = t
        /\ Command(s) = Command(t) => s = t
        /\ Controller(s) = Controller(t) => s = t
  BY DEF Connection, Command, Controller
<1>4. Server \in Actors
  BY DEF Actors
<1> QED
  BY <1>1, <1>2, <1>3, <1>4

\* The actor that gets mail has a thread or is in the queue, once.
LEMMA Resumed ==
  ASSUME TypeOK, NEW b \in up
  PROVE  /\ Resumes(b, queue) \in Seq(up \ running)
         /\ \A j, k \in DOMAIN Resumes(b, queue) :
              Resumes(b, queue)[j] = Resumes(b, queue)[k] => j = k
         /\ \A x : Holds(queue, x) => Holds(Resumes(b, queue), x)
         /\ b \in running \/ Holds(Resumes(b, queue), b)
<1>0. queue \in Seq(up \ running)
  BY DEF TypeOK
<1>1. CASE b \in running \/ Holds(queue, b)
  <2>1. Resumes(b, queue) = queue
    BY <1>1 DEF Resumes, Holds
  <2> QED
    BY <1>1, <2>1 DEF TypeOK
<1>2. CASE ~(b \in running \/ Holds(queue, b))
  <2>1. Resumes(b, queue) = Append(queue, b) /\ b \in up \ running
    BY <1>2 DEF Resumes, Holds
  <2>2. \A x : Holds(Append(queue, b), x) <=> Holds(queue, x) \/ b = x
    BY <1>0, <2>1, AppendedHolds
  <2>3. /\ Append(queue, b) \in Seq(up \ running) /\ Len(queue) \in Nat
        /\ DOMAIN queue = 1..Len(queue) /\ DOMAIN Append(queue, b) = 1..(Len(queue) + 1)
        /\ \A k \in 1..Len(queue) : Append(queue, b)[k] = queue[k]
        /\ Append(queue, b)[Len(queue) + 1] = b
    BY <1>0, <2>1, AppendProperties, LenProperties
  <2>4. ASSUME NEW j \in DOMAIN Append(queue, b), NEW k \in DOMAIN Append(queue, b),
               Append(queue, b)[j] = Append(queue, b)[k]
        PROVE  j = k
    <3>1. \A m \in 1..Len(queue) : queue[m] # b
      BY <1>2, <2>3 DEF Holds
    <3>2. CASE j \in 1..Len(queue) /\ k \in 1..Len(queue)
      BY <2>3, <2>4, <3>2 DEF TypeOK
    <3>3. CASE ~(j \in 1..Len(queue) /\ k \in 1..Len(queue))
      BY <2>3, <2>4, <3>1, <3>3
    <3> QED
      BY <3>2, <3>3
  <2> QED
    BY <2>1, <2>2, <2>3, <2>4
<1> QED
  BY <1>1, <1>2
-----------------------------------------------------------------------------
(***************************************************************************)
(* What a step does to the mailboxes.                                      *)
(***************************************************************************)
\* An actor takes a message.
LEMMA TookOne ==
  ASSUME NEW f \in [Actors -> Seq(Messages)], NEW a \in Actors, f[a] # <<>>,
         NEW g, g = [f EXCEPT ![a] = Tail(@)]
  PROVE  /\ g \in [Actors -> Seq(Messages)]
         /\ \A x \in Actors : x # a => g[x] = f[x]
         /\ \A m : Holds(g[a], m) => Holds(f[a], m)
         /\ \A m : Holds(f[a], m) /\ Head(f[a]) # m => Holds(g[a], m)
         /\ Tally(f[a], Prompting) \in Nat /\ Tally(g[a], Prompting) \in Nat
         /\ Tally(f[a], Prompting) =
              Tally(g[a], Prompting) + (IF Head(f[a]) \in Prompting THEN 1 ELSE 0)
<1>1. f[a] \in Seq(Messages) /\ g[a] = Tail(f[a]) /\ \A x \in Actors : x # a => g[x] = f[x]
  OBVIOUS
<1>2. g \in [Actors -> Seq(Messages)]
  BY <1>1, HeadTailProperties
<1>3. \A m : /\ Holds(g[a], m) => Holds(f[a], m)
             /\ Holds(f[a], m) /\ Head(f[a]) # m => Holds(g[a], m)
  BY <1>1, TakenHolds
<1>4. /\ Tally(f[a], Prompting) \in Nat /\ Tally(g[a], Prompting) \in Nat
      /\ Tally(f[a], Prompting) =
           Tally(g[a], Prompting) + (IF Head(f[a]) \in Prompting THEN 1 ELSE 0)
  BY <1>1, TakenTally
<1> QED
  BY <1>1, <1>2, <1>3, <1>4

\* A mailbox is sent a message.
LEMMA GotOne ==
  ASSUME NEW s \in Seq(Messages), NEW e \in Messages, NEW t, t = Append(s, e)
  PROVE  /\ t \in Seq(Messages) /\ t # <<>> /\ Len(t) >= Len(s)
         /\ \A m : Holds(t, m) <=> Holds(s, m) \/ m = e
         /\ Tally(s, Prompting) \in Nat
         /\ e \in Prompting => Tally(t, Prompting) = Tally(s, Prompting) + 1
         /\ e \notin Prompting => Tally(t, Prompting) = Tally(s, Prompting)
<1>1. t \in Seq(Messages) /\ t # <<>> /\ Len(t) = Len(s) + 1 /\ Len(s) \in Nat
  BY AppendProperties, LenProperties
<1>2. \A m : Holds(t, m) <=> Holds(s, m) \/ m = e
  BY AppendedHolds
<1>3. /\ Tally(s, Prompting) \in Nat
      /\ e \in Prompting => Tally(t, Prompting) = Tally(s, Prompting) + 1
      /\ e \notin Prompting => Tally(t, Prompting) = Tally(s, Prompting)
  BY AppendedTally
<1> QED
  BY <1>1, <1>2, <1>3

\* Every mailbox has a tally.
LEMMA TallyOf ==
  ASSUME TypeOK, NEW x \in Actors
  PROVE  Tally(mail[x], Prompting) \in Nat
BY TallyType DEF TypeOK

\* a has taken a message and sent one to b.
LEMMA Handled ==
  ASSUME TypeOK, NEW a \in Actors, NEW b \in Actors, NEW in \in Messages, NEW out \in Messages,
         Receives(a, in), Handles(a, b, out)
  PROVE  /\ mail' \in [Actors -> Seq(Messages)]
         /\ \A x \in Actors, m \in Messages :
              /\ Holds(mail'[x], m) => Holds(mail[x], m) \/ (x = b /\ m = out)
              /\ Holds(mail[x], m) /\ ~(x = a /\ m = in) => Holds(mail'[x], m)
         /\ b \in up => Holds(mail'[b], out)
         /\ \A x \in Actors : x # a /\ ~(x = b /\ b \in up) => mail'[x] = mail[x]
         /\ \A x \in Actors : x # a => Len(mail'[x]) >= Len(mail[x])
         /\ \A x \in Actors :
              /\ Tally(mail'[x], Prompting) \in Nat
              /\ Tally(mail'[x], Prompting) + (IF x = a /\ in \in Prompting THEN 1 ELSE 0) <=
                   Tally(mail[x], Prompting) + (IF x = b /\ out \in Prompting THEN 1 ELSE 0)
<1> DEFINE mid == [mail EXCEPT ![a] = Tail(@)]
<1>0. mail \in [Actors -> Seq(Messages)] /\ mail[a] # <<>> /\ Head(mail[a]) = in
  BY DEF TypeOK, Receives
<1>1. mail' = IF b \in up THEN [mid EXCEPT ![b] = Append(@, out)] ELSE mid
  BY DEF Handles
<1>2. PICK g : g = [mail EXCEPT ![a] = Tail(@)] /\ g = mid
  OBVIOUS
<1> HIDE DEF mid
<1>3. /\ g \in [Actors -> Seq(Messages)]
      /\ \A x \in Actors : x # a => g[x] = mail[x]
      /\ \A m : Holds(g[a], m) => Holds(mail[a], m)
      /\ \A m : Holds(mail[a], m) /\ in # m => Holds(g[a], m)
      /\ Tally(mail[a], Prompting) \in Nat /\ Tally(g[a], Prompting) \in Nat
      /\ Tally(mail[a], Prompting) = Tally(g[a], Prompting) + (IF in \in Prompting THEN 1 ELSE 0)
  BY <1>0, <1>2, TookOne
<1>4. \A x \in Actors : Len(mail[x]) \in Nat /\ Tally(mail[x], Prompting) \in Nat
  BY <1>0, TallyOf, LenProperties
<1>5. CASE b \notin up
  <2>1. mail' = g
    BY <1>1, <1>2, <1>5
  <2>2. \A x \in Actors :
          /\ Tally(mail'[x], Prompting) \in Nat
          /\ Tally(mail'[x], Prompting) + (IF x = a /\ in \in Prompting THEN 1 ELSE 0) <=
               Tally(mail[x], Prompting) + (IF x = b /\ out \in Prompting THEN 1 ELSE 0)
    <3> TAKE x \in Actors
    <3>1. CASE x = a
      BY <1>3, <2>1, <3>1
    <3>2. CASE x # a
      BY <1>3, <1>4, <2>1, <3>2
    <3> QED
      BY <3>1, <3>2
  <2> QED
    BY <1>3, <1>4, <1>5, <2>1, <2>2
<1>6. CASE b \in up
  <2>1. mail' = [g EXCEPT ![b] = Append(@, out)]
    BY <1>1, <1>2, <1>6
  <2>2. /\ mail' \in [Actors -> Seq(Messages)]
        /\ \A x \in Actors : x # b => mail'[x] = g[x]
        /\ \A m : Holds(mail'[b], m) <=> Holds(g[b], m) \/ m = out
        /\ mail'[b] # <<>> /\ Len(mail'[b]) >= Len(g[b])
        /\ Tally(g[b], Prompting) \in Nat
        /\ out \in Prompting => Tally(mail'[b], Prompting) = Tally(g[b], Prompting) + 1
        /\ out \notin Prompting => Tally(mail'[b], Prompting) = Tally(g[b], Prompting)
    <3>1. /\ g[b] \in Seq(Messages) /\ mail'[b] = Append(g[b], out)
          /\ \A x \in Actors : x # b => mail'[x] = g[x]
      BY <1>3, <2>1
    <3>2. /\ mail'[b] \in Seq(Messages) /\ mail'[b] # <<>> /\ Len(mail'[b]) >= Len(g[b])
          /\ \A m : Holds(mail'[b], m) <=> Holds(g[b], m) \/ m = out
          /\ Tally(g[b], Prompting) \in Nat
          /\ out \in Prompting => Tally(mail'[b], Prompting) = Tally(g[b], Prompting) + 1
          /\ out \notin Prompting => Tally(mail'[b], Prompting) = Tally(g[b], Prompting)
      BY <3>1, GotOne
    <3>3. mail' \in [Actors -> Seq(Messages)]
      BY <1>3, <2>1, <3>1, <3>2
    <3> QED
      BY <3>1, <3>2, <3>3
  <2>3. \A x \in Actors, m \in Messages :
          /\ Holds(mail'[x], m) => Holds(mail[x], m) \/ (x = b /\ m = out)
          /\ Holds(mail[x], m) /\ ~(x = a /\ m = in) => Holds(mail'[x], m)
    BY <1>3, <2>2
  <2>4. \A x \in Actors :
          /\ Tally(mail'[x], Prompting) \in Nat
          /\ Tally(mail'[x], Prompting) + (IF x = a /\ in \in Prompting THEN 1 ELSE 0) <=
               Tally(mail[x], Prompting) + (IF x = b /\ out \in Prompting THEN 1 ELSE 0)
    <3> TAKE x \in Actors
    <3>1. /\ Tally(g[x], Prompting) \in Nat
          /\ Tally(g[x], Prompting) + (IF x = a /\ in \in Prompting THEN 1 ELSE 0) <=
               Tally(mail[x], Prompting)
      <4>1. CASE x = a
        BY <1>3, <4>1
      <4>2. CASE x # a
        BY <1>3, <1>4, <4>2
      <4> QED
        BY <4>1, <4>2
    <3>2. Tally(mail'[x], Prompting) = Tally(g[x], Prompting)
                                         + (IF x = b /\ out \in Prompting THEN 1 ELSE 0)
      <4>1. CASE x = b
        BY <2>2, <4>1
      <4>2. CASE x # b
        BY <2>2, <3>1, <4>2
      <4> QED
        BY <4>1, <4>2
    <3> QED
      BY <1>4, <3>1, <3>2
  <2>5. \A x \in Actors : x # a => Len(mail'[x]) >= Len(mail[x])
    <3> TAKE x \in Actors
    <3> HAVE x # a
    <3>1. g[x] = mail[x] /\ Len(mail[x]) \in Nat
      BY <1>3, <1>4
    <3>2. CASE x = b
      BY <2>2, <3>1, <3>2
    <3>3. CASE x # b
      BY <2>2, <3>1, <3>3
    <3> QED
      BY <3>2, <3>3
  <2> QED
    BY <1>3, <1>6, <2>2, <2>3, <2>4, <2>5
<1> QED
  BY <1>5, <1>6
-----------------------------------------------------------------------------
(***************************************************************************)
(* The kinds of step an actor takes.                                       *)
(***************************************************************************)
\* a takes the message in and sends out to b.  Only a client that quits is closed,
\* only connections poll, whoever polls goes on, and only a prompt leads to a prompt.
Talk(a, b, in, out) ==
  /\ Receives(a, in) /\ Handles(a, b, out)
  /\ UNCHANGED <<backlog, unread, lines>>
  /\ \A s \in Sessions : b = Connection(s) /\ out \in Closes => unread[s] = "quit"
  /\ \A s \in Sessions : b \in {Command(s), Controller(s)} => out \notin Polls \cup {"exit"}
  /\ in \in Polls => b = a /\ (out = in \/ \E s \in Sessions : a = Connection(s) /\ unread[s] = "quit")
  /\ out \in Prompting =>
       in \in Prompting /\ \E s \in Sessions : a \in ActorsOf(s) /\ b \in ActorsOf(s)
  /\ \/ UNCHANGED prompts
     \/ \E s \in Sessions : /\ a = Connection(s) /\ in \in Prompting /\ out \notin Prompting
                            /\ prompts' = [prompts EXCEPT ![s] = @ + 1]

\* An actor of session s ends.
Ends(s) ==
  \/ Exits(Connection(s), {Command(s)})
  \/ Exits(Command(s), {Controller(s)})
  \/ Exits(Controller(s), {})

\* The message that is received is in the mailbox.
LEMMA ReceivedHolds ==
  ASSUME TypeOK, NEW a \in Actors, NEW m, Receives(a, m)
  PROVE  Holds(mail[a], m)
<1>1. mail[a] \in Seq(Messages) /\ mail[a] # <<>> /\ Head(mail[a]) = m
  BY DEF TypeOK, Receives
<1> QED
  BY <1>1, TakenHolds

\* A message that is handled ends its actor, accepts, polls, or is passed on.
LEMMA StepKinds ==
  ASSUME TypeOK, Closing, NEW a \in Actors, Step(a)
  PROVE  \/ Leave(a) \/ ServerAccepts
         \/ \E s \in Sessions : PollLine(s) \/ Ends(s)
         \/ \E b \in Actors, in \in Messages, out \in Messages : Talk(a, b, in, out)
<1> USE DEF Messages, Prompting, Polls, Closes
<1> DEFINE T == \E b \in Actors, in \in Messages, out \in Messages : Talk(a, b, in, out)
<1>1. ASSUME a = Server, ServerIdle
      PROVE  T
  <2>1. Receives(a, "AcceptConnection") /\ Handles(a, a, "AcceptConnection") /\ UNCHANGED client
    BY <1>1 DEF ServerIdle, Passes
  <2>2. Talk(a, a, "AcceptConnection", "AcceptConnection")
    BY <1>1, <2>1, ActorsApart DEF Talk, client
  <2> QED
    BY <2>2
<1>2. ASSUME NEW s \in Sessions, a = Connection(s),
             \/ Passes(a, Command(s), "PerformWelcome", "PerformWelcome")
             \/ ConnPrompt(s) \/ PollIdle(s) \/ PollQuit(s)
             \/ Passes(a, a, "GoodbyeConnection", "exit")
      PROVE  T
  <2>0. a \in ActorsOf(s) /\ Command(s) \in ActorsOf(s)
    BY <1>2 DEF ActorsOf
  <2>1. CASE Passes(a, Command(s), "PerformWelcome", "PerformWelcome")
    <3>1. Talk(a, Command(s), "PerformWelcome", "PerformWelcome")
      BY <1>2, <2>0, <2>1, ActorsApart DEF Talk, Passes, client
    <3> QED
      BY <3>1, ActorsApart
  <2>2. CASE ConnPrompt(s)
    <3>1. Talk(a, a, "ToUserPrompt", "FromUserGetInput")
      BY <1>2, <2>2, ActorsApart DEF Talk, ConnPrompt
    <3> QED
      BY <3>1
  <2>3. CASE PollIdle(s)
    <3>1. Talk(a, a, "FromUserGetInput", "FromUserGetInput")
      BY <1>2, <2>3, ActorsApart DEF Talk, PollIdle, Passes, client
    <3> QED
      BY <3>1
  <2>4. CASE PollQuit(s)
    <3>1. Talk(a, a, "FromUserGetInput", "GoodbyeConnection")
      BY <1>2, <2>4, ActorsApart DEF Talk, PollQuit, Passes, client
    <3> QED
      BY <3>1
  <2>5. CASE Passes(a, a, "GoodbyeConnection", "exit")
    <3>1. Holds(mail[a], "GoodbyeConnection")
      BY <2>5, ReceivedHolds DEF Passes
    <3>2. unread[s] = "quit"
      BY <1>2, <3>1 DEF Closing
    <3>3. Talk(a, a, "GoodbyeConnection", "exit")
      BY <1>2, <2>5, <3>2, ActorsApart DEF Talk, Passes, client
    <3> QED
      BY <3>3
  <2> QED
    BY <1>2, <2>1, <2>2, <2>3, <2>4, <2>5
<1>3. ASSUME NEW s \in Sessions, a = Command(s),
             \/ Passes(a, Controller(s), "PerformWelcome", "LoginControllerStart")
             \/ Passes(a, Controller(s), "OnUserInput", "OnUserInput")
             \/ Passes(a, Connection(s), "ToUserPrompt", "ToUserPrompt")
      PROVE  T
  <2>0. a \in ActorsOf(s) /\ Connection(s) \in ActorsOf(s) /\ Controller(s) \in ActorsOf(s)
    BY <1>3 DEF ActorsOf
  <2>1. CASE Passes(a, Controller(s), "PerformWelcome", "LoginControllerStart")
    <3>1. Talk(a, Controller(s), "PerformWelcome", "LoginControllerStart")
      BY <1>3, <2>0, <2>1, ActorsApart DEF Talk, Passes, client
    <3> QED
      BY <3>1, ActorsApart
  <2>2. CASE Passes(a, Controller(s), "OnUserInput", "OnUserInput")
    <3>1. Talk(a, Controller(s), "OnUserInput", "OnUserInput")
      BY <1>3, <2>0, <2>2, ActorsApart DEF Talk, Passes, client
    <3> QED
      BY <3>1, ActorsApart
  <2>3. CASE Passes(a, Connection(s), "ToUserPrompt", "ToUserPrompt")
    <3>1. Talk(a, Connection(s), "ToUserPrompt", "ToUserPrompt")
      BY <1>3, <2>0, <2>3, ActorsApart DEF Talk, Passes, client
    <3> QED
      BY <3>1, ActorsApart
  <2> QED
    BY <1>3, <2>1, <2>2, <2>3
<1>4. ASSUME NEW s \in Sessions, a = Controller(s),
             NEW in \in {"LoginControllerStart", "OnUserInput"},
             Passes(a, Command(s), in, "ToUserPrompt")
      PROVE  T
  <2>0. a \in ActorsOf(s) /\ Command(s) \in ActorsOf(s)
    BY <1>4 DEF ActorsOf
  <2>1. Talk(a, Command(s), in, "ToUserPrompt")
    BY <1>4, <2>0, ActorsApart DEF Talk, Passes, client
  <2> QED
    BY <2>1, ActorsApart
<1> HIDE DEF T
<1>5. ASSUME NEW s \in Sessions, a = Connection(s), Step(a)
      PROVE  Leave(a) \/ T \/ \E t \in Sessions : PollLine(t) \/ Ends(t)
  <2>1. \A t \in Sessions : a # Command(t) /\ a # Controller(t) /\ (a = Connection(t) => s = t)
    BY <1>5, ActorsApart
  <2> QED
    BY <1>2, <1>5, <2>1, ActorsApart DEF Step, Ends
<1>6. ASSUME NEW s \in Sessions, a = Command(s), Step(a)
      PROVE  Leave(a) \/ T \/ \E t \in Sessions : PollLine(t) \/ Ends(t)
  <2>1. \A t \in Sessions : a # Connection(t) /\ a # Controller(t) /\ (a = Command(t) => s = t)
    BY <1>6, ActorsApart
  <2> QED
    BY <1>3, <1>6, <2>1, ActorsApart DEF Step, Ends
<1>7. ASSUME NEW s \in Sessions, a = Controller(s), Step(a)
      PROVE  Leave(a) \/ T \/ \E t \in Sessions : PollLine(t) \/ Ends(t)
  <2>1. \A t \in Sessions : a # Connection(t) /\ a # Command(t) /\ (a = Controller(t) => s = t)
    BY <1>7, ActorsApart
  <2> QED
    BY <1>4, <1>7, <2>1, ActorsApart DEF Step, Ends
<1>8. ASSUME a = Server
      PROVE  Leave(a) \/ ServerAccepts \/ T
  <2>1. Leave(a) \/ ServerAccepts \/ ServerIdle
    BY <1>8, ActorsApart DEF Step
  <2> QED
    BY <1>1, <1>8, <2>1
<1>9. a = Server \/ \E s \in Sessions : a \in ActorsOf(s)
  BY DEF Actors, Roles, ActorsOf, Connection, Command, Controller
<1>10. Leave(a) \/ ServerAccepts \/ T \/ \E s \in Sessions : PollLine(s) \/ Ends(s)
  BY <1>5, <1>6, <1>7, <1>8, <1>9 DEF ActorsOf
<1> QED
  BY <1>10 DEF T
-----------------------------------------------------------------------------
\* The types, but for the bound of prompts, which is a consequence of Answers.
Threading ==
  /\ mail \in [Actors -> Seq(Messages)]
  /\ running \subseteq up /\ up \subseteq Actors
  /\ Cardinality(running) <= Threads
  /\ queue \in Seq(up \ running)
  /\ \A j, k \in DOMAIN queue : queue[j] = queue[k] => j = k
  /\ \A a \in up : mail[a] # <<>> => a \in running \/ Holds(queue, a)

ClientTypes ==
  /\ backlog \subseteq Sessions
  /\ unread \in [Sessions -> {"", "line", "quit"}]
  /\ lines \in [Sessions -> 0..MaxLines]
  /\ prompts \in [Sessions -> Nat]

Alive ==
  /\ Lifetimes /\ Fresh /\ MailUp
  /\ Closing /\ PollsAtConnection

\* TypeOK is made of the threads, the clients and the count of answers.
LEMMA TypeParts ==
  /\ TypeOK => Threading /\ ClientTypes
  /\ Threading /\ ClientTypes /\ Answers => TypeOK
<1>1. TypeOK => Threading
  BY DEF TypeOK, Threading, Holds
<1>2. TypeOK => ClientTypes
  <2> SUFFICES ASSUME TypeOK
               PROVE  prompts \in [Sessions -> Nat]
    BY DEF TypeOK, ClientTypes
  <2>1. 0..(MaxLines + 1) \subseteq Nat
    BY MaxLinesAssumption
  <2> QED
    BY <2>1 DEF TypeOK
<1>3. Threading /\ ClientTypes /\ Answers => TypeOK
  <2> SUFFICES ASSUME Threading, ClientTypes, Answers
               PROVE  TypeOK
    OBVIOUS
  <2>1. ASSUME NEW s \in Sessions
        PROVE  prompts[s] \in 0..(MaxLines + 1)
    <3>1. Connection(s) \in Actors /\ Command(s) \in Actors /\ Controller(s) \in Actors
      BY ActorsApart
    <3>2. \A x \in Actors : Tally(mail[x], Prompting) \in Nat
      BY TallyType DEF Threading
    <3>3. Owed(s) \in Nat
      BY <3>1, <3>2 DEF Owed
    <3>4. prompts[s] \in Nat /\ lines[s] \in 0..MaxLines /\ prompts[s] + Owed(s) <= lines[s] + 1
      BY DEF ClientTypes, Answers
    <3> QED
      BY <3>3, <3>4, MaxLinesAssumption
  <2>2. prompts \in [Sessions -> 0..(MaxLines + 1)]
    BY <2>1 DEF ClientTypes
  <2> QED
    BY <2>2 DEF TypeOK, Threading, ClientTypes, Holds
<1> QED
  BY <1>1, <1>2, <1>3
-----------------------------------------------------------------------------
(***************************************************************************)
(* A message is handled.                                                   *)
(***************************************************************************)
\* Nobody gets mail without a thread or a place in the queue.
LEMMA TalkThreads ==
  ASSUME TypeOK, SchedInv, NEW a \in Actors, NEW b \in Actors,
         NEW in \in Messages, NEW out \in Messages, Talk(a, b, in, out)
  PROVE  Threading' /\ ClientTypes' /\ IsFiniteSet(running)'
<1>1. /\ a \in running /\ Receives(a, in) /\ Handles(a, b, out) /\ UNCHANGED <<running, up>>
      /\ queue' = IF b \in up THEN Resumes(b, queue) ELSE queue
      /\ UNCHANGED <<backlog, unread, lines>>
  BY DEF Talk, Receives, Handles
<1>2. /\ mail' \in [Actors -> Seq(Messages)]
      /\ \A x \in Actors : x # a /\ ~(x = b /\ b \in up) => mail'[x] = mail[x]
  BY <1>1, Handled
<1>3. /\ queue' \in Seq(up \ running)
      /\ \A j, k \in DOMAIN queue' : queue'[j] = queue'[k] => j = k
      /\ \A x : Holds(queue, x) => Holds(queue', x)
      /\ b \in up => b \in running \/ Holds(queue', b)
  <2>1. CASE b \in up
    <3>1. PICK q : q = Resumes(b, queue)
      OBVIOUS
    <3>2. /\ q \in Seq(up \ running)
          /\ \A j, k \in DOMAIN q : q[j] = q[k] => j = k
          /\ \A x : Holds(queue, x) => Holds(q, x)
          /\ b \in running \/ Holds(q, b)
      BY <2>1, <3>1, Resumed
    <3> QED
      BY <1>1, <2>1, <3>1, <3>2
  <2>2. CASE b \notin up
    BY <1>1, <2>2 DEF TypeOK
  <2> QED
    BY <2>1, <2>2
<1>4. \A x \in up : mail'[x] # <<>> => x \in running \/ Holds(queue', x)
  <2> TAKE x \in up
  <2> HAVE mail'[x] # <<>>
  <2>1. x \in Actors
    BY DEF TypeOK
  <2>2. CASE x = a \/ x = b
    BY <1>1, <1>3, <2>2
  <2>3. CASE x # a /\ x # b
    <3>1. mail[x] # <<>>
      BY <1>2, <2>1, <2>3
    <3>2. x \in running \/ Holds(queue, x)
      BY <3>1 DEF TypeOK, Holds
    <3> QED
      BY <1>3, <3>2
  <2> QED
    BY <2>2, <2>3
<1>5. Threading'
  BY <1>1, <1>2, <1>3, <1>4 DEF Threading, TypeOK
<1>6. prompts' \in [Sessions -> Nat]
  <2>1. prompts \in [Sessions -> Nat]
    BY TypeParts DEF ClientTypes
  <2> QED
    BY <2>1 DEF Talk
<1>7. ClientTypes'
  BY <1>1, <1>6 DEF ClientTypes, TypeOK
<1> QED
  BY <1>1, <1>5, <1>7 DEF SchedInv

\* Passing a message on leaves the right actors alive.
LEMMA TalkAlive ==
  ASSUME TypeOK, SchedInv, NEW a \in Actors, NEW b \in Actors,
         NEW in \in Messages, NEW out \in Messages, Talk(a, b, in, out)
  PROVE  Alive'
<1>1. /\ a \in running /\ a \in up /\ UNCHANGED <<running, up, backlog, unread, lines>>
  BY DEF Talk, Receives, Handles, TypeOK
<1>2. /\ \A x \in Actors, m \in Messages : Holds(mail'[x], m) => Holds(mail[x], m) \/ (x = b /\ m = out)
      /\ \A x \in Actors : x # a /\ ~(x = b /\ b \in up) => mail'[x] = mail[x]
  <2>1. Receives(a, in) /\ Handles(a, b, out)
    BY DEF Talk
  <2> QED
    BY <2>1, Handled
<1>3. "exit" \in Messages /\ Polls \subseteq Messages /\ Closes \subseteq Messages
  BY DEF Messages, Polls, Closes
<1>4. MailUp'
  BY <1>1, <1>2 DEF MailUp, SchedInv
<1>5. Lifetimes'
  <2> SUFFICES ASSUME NEW s \in Sessions
               PROVE  /\ Holds(mail'[Command(s)], "exit") => Connection(s) \notin up
                      /\ Holds(mail'[Controller(s)], "exit") => Command(s) \notin up
    BY <1>1 DEF Lifetimes, SchedInv
  <2>1. Command(s) \in Actors /\ Controller(s) \in Actors
    BY ActorsApart
  <2>2. b \in {Command(s), Controller(s)} => out # "exit"
    BY DEF Talk
  <2>3. /\ Holds(mail'[Command(s)], "exit") => Holds(mail[Command(s)], "exit")
        /\ Holds(mail'[Controller(s)], "exit") => Holds(mail[Controller(s)], "exit")
    BY <1>2, <1>3, <2>1, <2>2
  <2> QED
    BY <2>3 DEF Lifetimes, SchedInv
<1>6. Fresh'
  <2> SUFFICES ASSUME NEW s \in Sessions, Connection(s) \notin up, unread[s] # "quit"
               PROVE  prompts'[s] = 0
    BY <1>1 DEF Fresh, SchedInv
  <2>1. prompts[s] = 0
    BY DEF Fresh, SchedInv
  <2>2. ASSUME NEW t \in Sessions, a = Connection(t), prompts' = [prompts EXCEPT ![t] = @ + 1]
        PROVE  prompts'[s] = prompts[s]
    <3>1. s # t
      BY <1>1, <2>2
    <3> QED
      BY <2>2, <3>1 DEF TypeOK
  <2> QED
    BY <2>1, <2>2 DEF Talk
<1>7. Closing'
  <2> SUFFICES ASSUME NEW s \in Sessions, NEW m \in Closes, Holds(mail'[Connection(s)], m)
               PROVE  unread[s] = "quit"
    BY <1>1 DEF Closing
  <2>1. Connection(s) \in Actors /\ m \in Messages
    BY <1>3, ActorsApart
  <2>2. Holds(mail[Connection(s)], m) \/ (Connection(s) = b /\ m = out)
    BY <1>2, <2>1
  <2> QED
    BY <2>2 DEF Talk, Closing, SchedInv
<1>8. PollsAtConnection'
  <2> SUFFICES ASSUME NEW s \in Sessions, NEW m \in Polls
               PROVE  ~Holds(mail'[Command(s)], m) /\ ~Holds(mail'[Controller(s)], m)
    BY DEF PollsAtConnection
  <2>1. Command(s) \in Actors /\ Controller(s) \in Actors /\ m \in Messages
    BY <1>3, ActorsApart
  <2>2. b \in {Command(s), Controller(s)} => out # m
    BY DEF Talk
  <2>3. ~Holds(mail[Command(s)], m) /\ ~Holds(mail[Controller(s)], m)
    BY DEF PollsAtConnection, SchedInv
  <2> QED
    BY <1>2, <2>1, <2>2, <2>3
<1> QED
  BY <1>4, <1>5, <1>6, <1>7, <1>8 DEF Alive

\* How the tallies of a mailbox change when a message is handled.
LEMMA TalkTallies ==
  ASSUME TypeOK, NEW a \in Actors, NEW b \in Actors,
         NEW in \in Messages, NEW out \in Messages, Receives(a, in), Handles(a, b, out),
         NEW x \in Actors
  PROVE  /\ Tally(mail[x], Prompting) \in Nat /\ Tally(mail'[x], Prompting) \in Nat
         /\ Tally(mail'[x], Prompting) <= Tally(mail[x], Prompting) + 1
         /\ ~(x = b /\ out \in Prompting) => Tally(mail'[x], Prompting) <= Tally(mail[x], Prompting)
         /\ x = a /\ in \in Prompting => Tally(mail'[x], Prompting) <= Tally(mail[x], Prompting)
         /\ x = a /\ in \in Prompting /\ ~(x = b /\ out \in Prompting) =>
              Tally(mail'[x], Prompting) + 1 <= Tally(mail[x], Prompting)
<1>1. PICK t, u : t = Tally(mail[x], Prompting) /\ u = Tally(mail'[x], Prompting)
  OBVIOUS
<1>2. /\ t \in Nat /\ u \in Nat
      /\ u + (IF x = a /\ in \in Prompting THEN 1 ELSE 0) <=
           t + (IF x = b /\ out \in Prompting THEN 1 ELSE 0)
  BY <1>1, Handled, TallyOf
<1>3. /\ u <= t + 1
      /\ ~(x = b /\ out \in Prompting) => u <= t
      /\ x = a /\ in \in Prompting => u <= t
      /\ x = a /\ in \in Prompting /\ ~(x = b /\ out \in Prompting) => u + 1 <= t
  BY <1>2
<1> QED
  BY <1>1, <1>2, <1>3

\* Passing a message on keeps the count of answers that are owed.
LEMMA TalkAnswers ==
  ASSUME TypeOK, SchedInv, NEW a \in Actors, NEW b \in Actors,
         NEW in \in Messages, NEW out \in Messages, Talk(a, b, in, out)
  PROVE  Answers'
<1>0. Receives(a, in) /\ Handles(a, b, out) /\ UNCHANGED <<lines, unread>>
  BY DEF Talk
<1> SUFFICES ASSUME NEW s \in Sessions
             PROVE  prompts'[s] + Owed(s)' <= lines'[s] + 1
  BY DEF Answers
<1>1. PICK c, d, e, cc, dd, ee, u, p, l :
        /\ c = Tally(mail[Connection(s)], Prompting) /\ cc = Tally(mail'[Connection(s)], Prompting)
        /\ d = Tally(mail[Command(s)], Prompting) /\ dd = Tally(mail'[Command(s)], Prompting)
        /\ e = Tally(mail[Controller(s)], Prompting) /\ ee = Tally(mail'[Controller(s)], Prompting)
        /\ u = (IF unread[s] = "line" THEN 1 ELSE 0)
        /\ p = prompts[s] /\ l = lines[s]
  OBVIOUS
<1>2. /\ p + (c + d + e + u) <= l + 1 /\ p \in Nat /\ l \in Int /\ u \in Nat
      /\ Owed(s)' = cc + dd + ee + u /\ lines'[s] = l
  <2>1. p + Owed(s) <= l + 1 /\ p \in Nat /\ l \in Int /\ lines'[s] = l
    <3>1. Answers /\ ClientTypes
      BY TypeParts DEF SchedInv
    <3>2. prompts[s] \in Nat /\ lines[s] \in 0..MaxLines
      BY <3>1 DEF ClientTypes
    <3>3. prompts[s] + Owed(s) <= lines[s] + 1
      BY <3>1 DEF Answers
    <3> QED
      BY <1>0, <1>1, <3>2, <3>3
  <2>2. Owed(s) = c + d + e + u /\ Owed(s)' = cc + dd + ee + u /\ u \in Nat
    BY <1>0, <1>1 DEF Owed
  <2> QED
    BY <2>1, <2>2
<1>3. /\ c \in Nat /\ cc \in Nat /\ cc <= c + 1
      /\ ~(Connection(s) = b /\ out \in Prompting) => cc <= c
      /\ Connection(s) = a /\ in \in Prompting => cc <= c
      /\ Connection(s) = a /\ in \in Prompting /\ ~(Connection(s) = b /\ out \in Prompting) => cc + 1 <= c
  BY <1>0, <1>1, TalkTallies, ActorsApart
<1>4. /\ d \in Nat /\ dd \in Nat /\ dd <= d + 1
      /\ ~(Command(s) = b /\ out \in Prompting) => dd <= d
      /\ Command(s) = a /\ in \in Prompting => dd <= d
      /\ Command(s) = a /\ in \in Prompting /\ ~(Command(s) = b /\ out \in Prompting) => dd + 1 <= d
  BY <1>0, <1>1, TalkTallies, ActorsApart
<1>5. /\ e \in Nat /\ ee \in Nat /\ ee <= e + 1
      /\ ~(Controller(s) = b /\ out \in Prompting) => ee <= e
      /\ Controller(s) = a /\ in \in Prompting => ee <= e
      /\ Controller(s) = a /\ in \in Prompting /\ ~(Controller(s) = b /\ out \in Prompting) => ee + 1 <= e
  BY <1>0, <1>1, TalkTallies, ActorsApart
<1>6. ASSUME cc + dd + ee <= c + d + e, prompts'[s] = p
      PROVE  prompts'[s] + Owed(s)' <= lines'[s] + 1
  BY <1>2, <1>3, <1>4, <1>5, <1>6
<1>7. CASE out \notin Prompting
  <2>1. cc <= c /\ dd <= d /\ ee <= e
    BY <1>3, <1>4, <1>5, <1>7
  <2>2. CASE UNCHANGED prompts
    BY <1>1, <1>3, <1>4, <1>5, <1>6, <2>1, <2>2
  <2>3. ASSUME NEW t \in Sessions, a = Connection(t), in \in Prompting,
               prompts' = [prompts EXCEPT ![t] = @ + 1]
        PROVE  prompts'[s] + Owed(s)' <= lines'[s] + 1
    <3>1. CASE s = t
      <4>1. prompts'[s] = p + 1
        BY <1>1, <2>3, <3>1 DEF TypeOK
      <4>2. cc + 1 <= c
        BY <1>3, <1>7, <2>3, <3>1
      <4> QED
        BY <1>2, <1>3, <1>4, <1>5, <2>1, <4>1, <4>2
    <3>2. CASE s # t
      <4>1. prompts'[s] = p
        BY <1>1, <2>3, <3>2 DEF TypeOK
      <4> QED
        BY <1>3, <1>4, <1>5, <1>6, <2>1, <4>1
    <3> QED
      BY <3>1, <3>2
  <2> QED
    BY <2>2, <2>3 DEF Talk
<1>8. CASE out \in Prompting
  <2>1. prompts'[s] = p /\ in \in Prompting
    BY <1>1, <1>8 DEF Talk
  <2>2. PICK t \in Sessions : a \in ActorsOf(t) /\ b \in ActorsOf(t)
    BY <1>8 DEF Talk
  <2>3. CASE s # t
    <3>1. b # Connection(s) /\ b # Command(s) /\ b # Controller(s)
      BY <2>2, <2>3, ActorsApart DEF ActorsOf
    <3>2. cc <= c /\ dd <= d /\ ee <= e
      BY <1>3, <1>4, <1>5, <3>1
    <3> QED
      BY <1>3, <1>4, <1>5, <1>6, <2>1, <3>2
  <2>4. CASE s = t
    <3>1. Connection(s) # Command(s) /\ Connection(s) # Controller(s) /\ Command(s) # Controller(s)
      BY ActorsApart
    <3>2. a = Connection(s) \/ a = Command(s) \/ a = Controller(s)
      BY <2>2, <2>4 DEF ActorsOf
    <3>3. b = Connection(s) \/ b = Command(s) \/ b = Controller(s)
      BY <2>2, <2>4 DEF ActorsOf
    <3>4. CASE b = Connection(s)
      <4>1. dd <= d /\ ee <= e
        BY <1>4, <1>5, <3>1, <3>4
      <4>2. cc <= c \/ dd + 1 <= d \/ ee + 1 <= e
        BY <1>3, <1>4, <1>5, <2>1, <3>1, <3>2, <3>4
      <4> QED
        BY <1>3, <1>4, <1>5, <1>6, <2>1, <4>1, <4>2
    <3>5. CASE b = Command(s)
      <4>1. cc <= c /\ ee <= e
        BY <1>3, <1>5, <3>1, <3>5
      <4>2. dd <= d \/ cc + 1 <= c \/ ee + 1 <= e
        BY <1>3, <1>4, <1>5, <2>1, <3>1, <3>2, <3>5
      <4> QED
        BY <1>3, <1>4, <1>5, <1>6, <2>1, <4>1, <4>2
    <3>6. CASE b = Controller(s)
      <4>1. cc <= c /\ dd <= d
        BY <1>3, <1>4, <3>1, <3>6
      <4>2. ee <= e \/ cc + 1 <= c \/ dd + 1 <= d
        BY <1>3, <1>4, <1>5, <2>1, <3>1, <3>2, <3>6
      <4> QED
        BY <1>3, <1>4, <1>5, <1>6, <2>1, <4>1, <4>2
    <3> QED
      BY <3>3, <3>4, <3>5, <3>6
  <2> QED
    BY <2>3, <2>4
<1> QED
  BY <1>7, <1>8
-----------------------------------------------------------------------------
(***************************************************************************)
(* A line is read.                                                         *)
(***************************************************************************)
\* A message that an actor sends itself again changes nothing but the order.
LEMMA PolledAgain ==
  ASSUME NEW s \in Seq(Messages), s # <<>>, NEW e \in Polls, Head(s) = e,
         NEW t, t = Append(Tail(s), e)
  PROVE  /\ t \in Seq(Messages)
         /\ \A m : Holds(t, m) <=> Holds(s, m)
         /\ Tally(s, Prompting) \in Nat /\ Tally(t, Prompting) = Tally(s, Prompting)
<1>1. e \in Messages /\ e \notin Prompting
  BY DEF Messages, Polls, Prompting
<1>2. PICK r : r = Tail(s) /\ r \in Seq(Messages)
  BY HeadTailProperties
<1>3. /\ t \in Seq(Messages)
      /\ \A m : Holds(t, m) <=> Holds(r, m) \/ m = e
      /\ Tally(t, Prompting) = Tally(r, Prompting)
  BY <1>1, <1>2, GotOne
<1>4. /\ Tally(s, Prompting) \in Nat /\ Tally(r, Prompting) \in Nat
      /\ Tally(s, Prompting) = Tally(r, Prompting)
  <2>1. /\ Tally(s, Prompting) \in Nat /\ Tally(r, Prompting) \in Nat
        /\ Tally(s, Prompting) = Tally(r, Prompting) + (IF Head(s) \in Prompting THEN 1 ELSE 0)
    BY <1>2, TakenTally
  <2> QED
    BY <1>1, <2>1
<1>5. \A m : /\ Holds(r, m) => Holds(s, m)
             /\ Holds(s, m) /\ e # m => Holds(r, m)
  BY <1>2, TakenHolds
<1>6. Holds(s, e)
  BY TakenHolds
<1> QED
  BY <1>3, <1>4, <1>5, <1>6

\* Only a, which has a thread, and b, which is scheduled, get mail.
LEMMA MailArrives ==
  ASSUME TypeOK, NEW a \in running, NEW b \in up, mail' \in [Actors -> Seq(Messages)],
         \A x \in Actors : x # a /\ x # b => mail'[x] = mail[x],
         queue' = Resumes(b, queue), UNCHANGED <<running, up>>
  PROVE  Threading'
<1>1. PICK q : q = Resumes(b, queue)
  OBVIOUS
<1>2. /\ q \in Seq(up \ running)
      /\ \A j, k \in DOMAIN q : q[j] = q[k] => j = k
      /\ \A x : Holds(queue, x) => Holds(q, x)
      /\ b \in running \/ Holds(q, b)
  BY <1>1, Resumed
<1>3. \A x \in up : mail'[x] # <<>> => x \in running \/ Holds(q, x)
  <2> TAKE x \in up
  <2> HAVE mail'[x] # <<>>
  <2>1. CASE x = a \/ x = b
    BY <1>2, <2>1
  <2>2. CASE x # a /\ x # b
    <3>1. mail[x] # <<>>
      BY <2>2 DEF TypeOK
    <3>2. x \in running \/ Holds(queue, x)
      BY <3>1 DEF TypeOK, Holds
    <3> QED
      BY <1>2, <3>2
  <2> QED
    BY <2>1, <2>2
<1> QED
  BY <1>1, <1>2, <1>3 DEF Threading, TypeOK

\* The rest of a session's state counts as before.
LEMMA AnswersOf ==
  ASSUME TypeOK, SchedInv, NEW s \in Sessions,
         prompts'[s] = prompts[s], unread'[s] = unread[s], lines'[s] = lines[s],
         \A x \in ActorsOf(s) : /\ Tally(mail'[x], Prompting) \in Nat
                                /\ Tally(mail'[x], Prompting) <= Tally(mail[x], Prompting)
  PROVE  prompts'[s] + Owed(s)' <= lines'[s] + 1
<1>1. PICK c, d, e, cc, dd, ee, u, p, l :
        /\ c = Tally(mail[Connection(s)], Prompting) /\ cc = Tally(mail'[Connection(s)], Prompting)
        /\ d = Tally(mail[Command(s)], Prompting) /\ dd = Tally(mail'[Command(s)], Prompting)
        /\ e = Tally(mail[Controller(s)], Prompting) /\ ee = Tally(mail'[Controller(s)], Prompting)
        /\ u = (IF unread[s] = "line" THEN 1 ELSE 0)
        /\ p = prompts[s] /\ l = lines[s]
  OBVIOUS
<1>2. /\ cc \in Nat /\ dd \in Nat /\ ee \in Nat /\ cc <= c /\ dd <= d /\ ee <= e
  BY <1>1 DEF ActorsOf
<1>3. c \in Nat /\ d \in Nat /\ e \in Nat
  BY <1>1, TallyOf, ActorsApart
<1>4. prompts[s] \in Nat /\ lines[s] \in 0..MaxLines
  BY TypeParts DEF ClientTypes
<1>5. prompts[s] + Owed(s) <= lines[s] + 1
  BY DEF Answers, SchedInv
<1>6. Owed(s) = c + d + e + u /\ Owed(s)' = cc + dd + ee + u /\ u \in Nat
  BY <1>1 DEF Owed
<1> QED
  BY <1>1, <1>2, <1>3, <1>4, <1>5, <1>6

\* A poll that finds a line: the line is now owed an answer by the Command.
LEMMA LinePolled ==
  ASSUME TypeOK, SchedInv, NEW s \in Sessions, PollLine(s)
  PROVE  Threading' /\ ClientTypes' /\ IsFiniteSet(running)' /\ Alive' /\ Answers'
<1>1. PICK conn, cmd : conn = Connection(s) /\ cmd = Command(s)
  OBVIOUS
<1>2. /\ conn \in Actors /\ cmd \in Actors /\ conn # cmd
      /\ \A t \in Sessions : /\ t # s => Connection(t) # conn /\ Command(t) # cmd
                             /\ Connection(t) # cmd /\ Command(t) # conn
                             /\ Controller(t) # conn /\ Controller(t) # cmd
                             /\ Connection(t) \in Actors /\ Command(t) \in Actors
                             /\ Controller(t) \in Actors
  BY <1>1, ActorsApart
<1>3. /\ conn \in running /\ mail[conn] # <<>> /\ Head(mail[conn]) = "FromUserGetInput"
      /\ unread[s] = "line" /\ unread' = [unread EXCEPT ![s] = ""]
      /\ mail' = [mail EXCEPT ![conn] = Append(Tail(@), "FromUserGetInput"),
                              ![cmd] = Append(@, "OnUserInput")]
      /\ queue' = Resumes(cmd, queue)
      /\ UNCHANGED <<running, up, backlog, lines, prompts>>
  BY <1>1 DEF PollLine, Receives
<1>4. /\ mail[conn] \in Seq(Messages) /\ mail[cmd] \in Seq(Messages)
      /\ mail'[conn] = Append(Tail(mail[conn]), "FromUserGetInput")
      /\ mail'[cmd] = Append(mail[cmd], "OnUserInput")
      /\ \A x \in Actors : x # conn /\ x # cmd => mail'[x] = mail[x]
      /\ DOMAIN mail' = Actors /\ mail' = [x \in Actors |-> mail'[x]]
  BY <1>2, <1>3 DEF TypeOK
<1>5. conn \in up /\ cmd \in up
  BY <1>1, <1>3 DEF TypeOK, SchedInv, Lifetimes
<1>6. /\ mail'[conn] \in Seq(Messages)
      /\ \A m : Holds(mail'[conn], m) <=> Holds(mail[conn], m)
      /\ Tally(mail[conn], Prompting) \in Nat
      /\ Tally(mail'[conn], Prompting) = Tally(mail[conn], Prompting)
  <2>1. PICK e \in Polls : e = "FromUserGetInput"
    BY DEF Polls
  <2>2. PICK box \in Seq(Messages) : box = mail[conn]
    BY <1>4
  <2>5. PICK new : new = mail'[conn]
    OBVIOUS
  <2>3. box # <<>> /\ Head(box) = e /\ new = Append(Tail(box), e)
    BY <1>3, <1>4, <2>1, <2>2, <2>5
  <2>4. /\ new \in Seq(Messages)
        /\ \A m : Holds(new, m) <=> Holds(box, m)
        /\ Tally(box, Prompting) \in Nat /\ Tally(new, Prompting) = Tally(box, Prompting)
    BY <2>3, PolledAgain
  <2> QED
    BY <2>2, <2>4, <2>5
<1>7. /\ mail'[cmd] \in Seq(Messages)
      /\ \A m : Holds(mail'[cmd], m) <=> Holds(mail[cmd], m) \/ m = "OnUserInput"
      /\ Tally(mail[cmd], Prompting) \in Nat
      /\ Tally(mail'[cmd], Prompting) = Tally(mail[cmd], Prompting) + 1
  <2>1. "OnUserInput" \in Messages /\ "OnUserInput" \in Prompting
    BY DEF Messages, Prompting
  <2> QED
    BY <1>4, <2>1, GotOne
<1>8. mail' \in [Actors -> Seq(Messages)]
  <2>1. \A x \in Actors : mail'[x] \in Seq(Messages)
    BY <1>4, <1>6, <1>7 DEF TypeOK
  <2> QED
    BY <1>4, <2>1
<1>9. Threading'
  <2>1. \A x \in Actors : x # conn /\ x # cmd => mail'[x] = mail[x]
    BY <1>4
  <2>2. queue' = Resumes(cmd, queue) /\ UNCHANGED <<running, up>>
    BY <1>3
  <2>3. conn \in running /\ cmd \in up
    BY <1>3, <1>5
  <2> QED
    BY <1>8, <2>1, <2>2, <2>3, MailArrives
<1>10. ClientTypes'
  BY <1>3, TypeParts DEF ClientTypes
<1>11. IsFiniteSet(running)'
  BY <1>3 DEF SchedInv
<1>12. \A t \in Sessions : /\ unread'[t] # unread[t] => t = s
                           /\ unread'[t] = "line" => unread[t] = "line"
                           /\ unread'[t] = "quit" <=> unread[t] = "quit"
  BY <1>3 DEF TypeOK
<1>13. Lifetimes'
  <2> SUFFICES ASSUME NEW t \in Sessions
               PROVE  /\ Holds(mail'[Command(t)], "exit") => Connection(t) \notin up
                      /\ Holds(mail'[Controller(t)], "exit") => Command(t) \notin up
    BY <1>3 DEF Lifetimes, SchedInv
  <2>1. Controller(t) \in Actors /\ Command(t) \in Actors
    BY <1>2
  <2>2. /\ Holds(mail'[Command(t)], "exit") => Holds(mail[Command(t)], "exit")
        /\ Holds(mail'[Controller(t)], "exit") => Holds(mail[Controller(t)], "exit")
    BY <1>2, <1>4, <1>7, <2>1
  <2> QED
    BY <2>2 DEF Lifetimes, SchedInv
<1>14. Fresh'
  <2> SUFFICES ASSUME NEW t \in Sessions
               PROVE  /\ Connection(t) \notin up /\ unread'[t] # "quit" =>
                           Command(t) \notin up /\ Controller(t) \notin up
                           /\ lines[t] = 0 /\ prompts[t] = 0 /\ unread'[t] = ""
                      /\ t \in backlog => Connection(t) \notin up /\ unread'[t] # "quit"
    BY <1>3 DEF Fresh
  <2>1. t = s => Connection(t) \in up
    BY <1>1, <1>5
  <2> QED
    BY <1>12, <2>1 DEF Fresh, SchedInv
<1>15. MailUp'
  BY <1>3, <1>4, <1>5 DEF MailUp, SchedInv
<1>16. Closing'
  <2> SUFFICES ASSUME NEW t \in Sessions, NEW m \in Closes, Holds(mail'[Connection(t)], m)
               PROVE  unread'[t] = "quit"
    BY DEF Closing
  <2>1. Holds(mail[Connection(t)], m)
    BY <1>1, <1>2, <1>4, <1>6
  <2> QED
    BY <1>12, <2>1 DEF Closing, SchedInv
<1>17. PollsAtConnection'
  <2> SUFFICES ASSUME NEW t \in Sessions, NEW m \in Polls
               PROVE  ~Holds(mail'[Command(t)], m) /\ ~Holds(mail'[Controller(t)], m)
    BY DEF PollsAtConnection
  <2>1. m # "OnUserInput"
    BY DEF Polls
  <2>2. ~Holds(mail[Command(t)], m) /\ ~Holds(mail[Controller(t)], m)
    BY DEF PollsAtConnection, SchedInv
  <2> QED
    BY <1>2, <1>4, <1>7, <2>1, <2>2
<1>18. Answers'
  <2> SUFFICES ASSUME NEW t \in Sessions
               PROVE  prompts'[t] + Owed(t)' <= lines'[t] + 1
    BY DEF Answers
  <2>1. CASE t # s
    <3>1. \A x \in ActorsOf(t) : mail'[x] = mail[x] /\ x \in Actors
      BY <1>2, <1>4, <2>1 DEF ActorsOf
    <3>2. \A x \in ActorsOf(t) : /\ Tally(mail'[x], Prompting) \in Nat
                                 /\ Tally(mail'[x], Prompting) <= Tally(mail[x], Prompting)
      BY <3>1, TallyOf
    <3> QED
      BY <1>3, <1>12, <2>1, <3>2, AnswersOf
  <2>2. CASE t = s
    <3>1. PICK c, d, e, p, l :
            /\ c = Tally(mail[Connection(s)], Prompting) /\ d = Tally(mail[Command(s)], Prompting)
            /\ e = Tally(mail[Controller(s)], Prompting) /\ p = prompts[s] /\ l = lines[s]
      OBVIOUS
    <3>2. c \in Nat /\ d \in Nat /\ e \in Nat
      BY <3>1, TallyOf, ActorsApart
    <3>3. prompts[s] \in Nat /\ lines[s] \in 0..MaxLines
      BY TypeParts DEF ClientTypes
    <3>4. prompts[s] + Owed(s) <= lines[s] + 1
      BY DEF Answers, SchedInv
    <3>5. Owed(s) = c + d + e + 1
      BY <1>3, <3>1 DEF Owed
    <3>6. Owed(t)' = c + (d + 1) + e + 0
      <4>1. /\ Tally(mail'[Connection(s)], Prompting) = c
            /\ Tally(mail'[Command(s)], Prompting) = d + 1
            /\ Tally(mail'[Controller(s)], Prompting) = e
        BY <1>1, <1>2, <1>4, <1>6, <1>7, <3>1
      <4>2. unread'[s] # "line"
        BY <1>3 DEF TypeOK
      <4> QED
        BY <2>2, <4>1, <4>2 DEF Owed
    <3>7. prompts'[t] = p /\ lines'[t] = l /\ p \in Nat /\ l \in 0..MaxLines
      BY <1>3, <2>2, <3>1, <3>3
    <3>8. p + (c + d + e + 1) <= l + 1
      BY <3>1, <3>4, <3>5
    <3> QED
      BY <3>2, <3>6, <3>7, <3>8
  <2> QED
    BY <2>1, <2>2
<1> QED
  BY <1>9, <1>10, <1>11, <1>13, <1>14, <1>15, <1>16, <1>17, <1>18 DEF Alive
-----------------------------------------------------------------------------
(***************************************************************************)
(* An actor ends.                                                          *)
(***************************************************************************)
\* What an exit does to the mailboxes.
LEMMA ExitMail ==
  ASSUME TypeOK, NEW a \in Actors, NEW next \in SUBSET Actors, a \notin next, Exits(a, next)
  PROVE  /\ mail' \in [Actors -> Seq(Messages)] /\ mail'[a] = <<>>
         /\ \A x \in Actors : x # a /\ x \notin next \cap up => mail'[x] = mail[x]
         /\ \A x \in Actors : \A m : Holds(mail'[x], m) => Holds(mail[x], m) \/ (x \in next /\ m = "exit")
         /\ \A x \in Actors : /\ Tally(mail'[x], Prompting) \in Nat
                              /\ Tally(mail'[x], Prompting) <= Tally(mail[x], Prompting)
         /\ \A x \in Actors : x # a => Len(mail'[x]) >= Len(mail[x])
<1>1. /\ mail' = [x \in Actors |-> IF x = a THEN <<>>
                                   ELSE IF x \in next \cap up THEN Append(mail[x], "exit") ELSE mail[x]]
      /\ mail \in [Actors -> Seq(Messages)]
  BY DEF Exits, TypeOK
<1>2. "exit" \in Messages /\ "exit" \notin Prompting
  BY DEF Messages, Prompting
<1>3. ASSUME NEW x \in Actors
      PROVE  /\ mail'[x] \in Seq(Messages)
             /\ \A m : Holds(mail'[x], m) => Holds(mail[x], m) \/ (x \in next /\ m = "exit")
             /\ Tally(mail'[x], Prompting) \in Nat
             /\ Tally(mail'[x], Prompting) <= Tally(mail[x], Prompting)
             /\ x # a => Len(mail'[x]) >= Len(mail[x])
  <2>1. mail[x] \in Seq(Messages) /\ Tally(mail[x], Prompting) \in Nat /\ Len(mail[x]) \in Nat
    BY <1>1, TallyOf, LenProperties
  <2>2. CASE x = a
    <3>1. mail'[x] = <<>> /\ mail'[x] \in Seq(Messages)
      BY <1>1, <2>2, EmptySeq
    <3>2. (\A m : ~Holds(<<>>, m)) /\ Tally(<<>>, Prompting) = 0
      BY EmptyBox
    <3> QED
      BY <2>1, <2>2, <3>1, <3>2
  <2>3. CASE x # a /\ x \in next \cap up
    <3>0. PICK e \in Messages : e = "exit"
      BY <1>2
    <3>1. PICK box \in Seq(Messages) : box = mail[x]
      BY <2>1
    <3>4. PICK new : new = mail'[x]
      OBVIOUS
    <3>2. new = Append(box, e)
      BY <1>1, <2>3, <3>0, <3>1, <3>4
    <3>3. /\ new \in Seq(Messages) /\ Len(new) >= Len(box)
          /\ \A m : Holds(new, m) <=> Holds(box, m) \/ m = e
          /\ Tally(box, Prompting) \in Nat
          /\ e \notin Prompting => Tally(new, Prompting) = Tally(box, Prompting)
      BY <3>2, GotOne
    <3> QED
      BY <1>2, <2>3, <3>0, <3>1, <3>3, <3>4
  <2>4. CASE x # a /\ x \notin next \cap up
    <3>1. mail'[x] = mail[x]
      BY <1>1, <2>4
    <3> QED
      BY <2>1, <3>1
  <2> QED
    BY <2>2, <2>3, <2>4
<1>4. mail' \in [Actors -> Seq(Messages)] /\ mail'[a] = <<>>
  BY <1>1, <1>3
<1>5. \A x \in Actors : x # a /\ x \notin next \cap up => mail'[x] = mail[x]
  BY <1>1
<1> QED
  BY <1>3, <1>4, <1>5

\* The thread of an actor that has ended is free.
LEMMA ExitThreads ==
  ASSUME TypeOK, IsFiniteSet(running), NEW a \in Actors, NEW next \in SUBSET Actors, a \notin next,
         next = {} \/ \E b \in Actors : next = {b}, Exits(a, next)
  PROVE  Threading' /\ ClientTypes' /\ IsFiniteSet(running)'
<1>1. /\ a \in running /\ up' = up \ {a} /\ running' = running \ {a}
      /\ queue' = IF next \cap up = {} THEN queue ELSE Resumes(CHOOSE x \in next : TRUE, queue)
      /\ UNCHANGED <<backlog, unread, lines, prompts>>
  BY DEF Exits, Receives, client
<1>2. /\ mail' \in [Actors -> Seq(Messages)] /\ mail'[a] = <<>>
      /\ \A x \in Actors : x # a /\ x \notin next \cap up => mail'[x] = mail[x]
  BY ExitMail
<1>3. /\ running \subseteq up /\ up \subseteq Actors /\ Cardinality(running) <= Threads
      /\ queue \in Seq(up \ running)
      /\ \A j, k \in DOMAIN queue : queue[j] = queue[k] => j = k
  BY DEF TypeOK
<1>4. PICK q : q = queue'
  OBVIOUS
<1>5. /\ q \in Seq(up \ running)
      /\ \A j, k \in DOMAIN q : q[j] = q[k] => j = k
      /\ \A x : Holds(queue, x) => Holds(q, x)
      /\ \A b \in next \cap up : b \in running \/ Holds(q, b)
  <2>1. CASE next \cap up = {}
    BY <1>1, <1>3, <1>4, <2>1
  <2>2. CASE next \cap up # {}
    <3>1. PICK b \in up : next = {b}
      BY <2>2
    <3>2. (CHOOSE x \in next : TRUE) = b
      BY <3>1
    <3>3. q = Resumes(b, queue)
      BY <1>1, <1>4, <2>2, <3>2
    <3>4. /\ q \in Seq(up \ running)
          /\ \A j, k \in DOMAIN q : q[j] = q[k] => j = k
          /\ \A x : Holds(queue, x) => Holds(q, x)
          /\ b \in running \/ Holds(q, b)
      BY <3>3, Resumed
    <3> QED
      BY <3>1, <3>4
  <2> QED
    BY <2>1, <2>2
<1>6. up' \ running' = up \ running
  BY <1>1, <1>3
<1>7. /\ Cardinality(running') <= Threads /\ IsFiniteSet(running')
  <2>1. IsFiniteSet(running \ {a}) /\ Cardinality(running \ {a}) = Cardinality(running) - 1
    BY <1>1, FS_RemoveElement
  <2>2. Cardinality(running) \in Nat
    BY FS_CardinalityType
  <2> QED
    BY <1>1, <1>3, <2>1, <2>2, ThreadsAssumption
<1>8. \A x \in up' : mail'[x] # <<>> => x \in running' \/ Holds(q, x)
  <2> TAKE x \in up'
  <2> HAVE mail'[x] # <<>>
  <2>1. x \in Actors /\ x \in up /\ x # a
    BY <1>1, <1>3
  <2>2. CASE x \in next
    BY <1>1, <1>5, <2>1, <2>2
  <2>3. CASE x \notin next
    <3>1. mail[x] # <<>>
      BY <1>2, <2>1, <2>3
    <3>2. x \in running \/ Holds(queue, x)
      BY <2>1, <3>1 DEF TypeOK, Holds
    <3> QED
      BY <1>1, <1>5, <2>1, <3>2
  <2> QED
    BY <2>2, <2>3
<1>9. running' \subseteq up' /\ up' \subseteq Actors
  BY <1>1, <1>3
<1>10. Threading'
  BY <1>2, <1>4, <1>5, <1>6, <1>7, <1>8, <1>9 DEF Threading
<1>11. ClientTypes'
  BY <1>1, TypeParts DEF ClientTypes
<1> QED
  BY <1>7, <1>10, <1>11

\* An actor of a session ends, and tells the next one to.
LEMMA Ended ==
  ASSUME TypeOK, SchedInv, NEW s \in Sessions, Ends(s)
  PROVE  Threading' /\ ClientTypes' /\ IsFiniteSet(running)' /\ Alive' /\ Answers'
<1>1. PICK a \in Actors, next \in SUBSET Actors :
        /\ Exits(a, next)
        /\ \/ a = Connection(s) /\ next = {Command(s)}
           \/ a = Command(s) /\ next = {Controller(s)}
           \/ a = Controller(s) /\ next = {}
  <2>1. Connection(s) \in Actors /\ Command(s) \in Actors /\ Controller(s) \in Actors
    BY ActorsApart
  <2>2. {Command(s)} \in SUBSET Actors /\ {Controller(s)} \in SUBSET Actors /\ {} \in SUBSET Actors
    BY <2>1
  <2> QED
    BY <2>1, <2>2 DEF Ends
<1>2. a \notin next /\ (next = {} \/ \E b \in Actors : next = {b})
  BY <1>1, ActorsApart
<1>3. Threading' /\ ClientTypes' /\ IsFiniteSet(running)'
  BY <1>1, <1>2, ExitThreads DEF SchedInv
<1>4. /\ mail'[a] = <<>>
      /\ \A x \in Actors : x # a /\ x \notin next \cap up => mail'[x] = mail[x]
      /\ \A x \in Actors : \A m : Holds(mail'[x], m) => Holds(mail[x], m) \/ (x \in next /\ m = "exit")
      /\ \A x \in Actors : /\ Tally(mail'[x], Prompting) \in Nat
                           /\ Tally(mail'[x], Prompting) <= Tally(mail[x], Prompting)
  BY <1>1, <1>2, ExitMail
<1>5. Receives(a, "exit") /\ up' = up \ {a} /\ UNCHANGED <<backlog, unread, lines, prompts>>
  BY <1>1 DEF Exits, client
<1>6. Holds(mail[a], "exit")
  BY <1>5, ReceivedHolds
<1>7. Lifetimes'
  <2> SUFFICES ASSUME NEW t \in Sessions
               PROVE  /\ Connection(t) \in up' => Command(t) \in up'
                      /\ Command(t) \in up' => Controller(t) \in up'
                      /\ Holds(mail'[Command(t)], "exit") => Connection(t) \notin up'
                      /\ Holds(mail'[Controller(t)], "exit") => Command(t) \notin up'
    BY DEF Lifetimes
  <2>1. /\ Connection(t) \in up => Command(t) \in up
        /\ Command(t) \in up => Controller(t) \in up
        /\ Holds(mail[Command(t)], "exit") => Connection(t) \notin up
        /\ Holds(mail[Controller(t)], "exit") => Command(t) \notin up
    BY DEF Lifetimes, SchedInv
  <2>2. /\ a = Command(t) => Connection(t) \notin up
        /\ a = Controller(t) => Command(t) \notin up
    BY <1>6, <2>1
  <2>3. /\ Command(t) \in next => a = Connection(t)
        /\ Controller(t) \in next => a = Command(t)
    BY <1>1, ActorsApart
  <2>4. /\ Holds(mail'[Command(t)], "exit") => Holds(mail[Command(t)], "exit") \/ Command(t) \in next
        /\ Holds(mail'[Controller(t)], "exit") => Holds(mail[Controller(t)], "exit") \/ Controller(t) \in next
    BY <1>4, ActorsApart
  <2> QED
    BY <1>5, <2>1, <2>2, <2>3, <2>4
<1>8. Fresh'
  <2> SUFFICES ASSUME NEW t \in Sessions
               PROVE  /\ Connection(t) \notin up' /\ unread[t] # "quit" =>
                           Command(t) \notin up' /\ Controller(t) \notin up'
                           /\ lines[t] = 0 /\ prompts[t] = 0 /\ unread[t] = ""
                      /\ t \in backlog => Connection(t) \notin up' /\ unread[t] # "quit"
    BY <1>5 DEF Fresh
  <2>1. a = Connection(t) => unread[t] = "quit"
    BY <1>6 DEF Closing, Closes, SchedInv
  <2> QED
    BY <1>5, <2>1 DEF Fresh, SchedInv
<1>9. MailUp'
  <2> SUFFICES ASSUME NEW x \in Actors, x \notin up'
               PROVE  mail'[x] = <<>>
    BY DEF MailUp
  <2>1. CASE x = a
    BY <1>4, <2>1
  <2>2. CASE x # a
    BY <1>4, <1>5, <2>2 DEF MailUp, SchedInv
  <2> QED
    BY <2>1, <2>2
<1>10. Closing'
  <2> SUFFICES ASSUME NEW t \in Sessions, NEW m \in Closes, Holds(mail'[Connection(t)], m)
               PROVE  unread[t] = "quit"
    BY <1>5 DEF Closing
  <2>1. Connection(t) \in Actors /\ Connection(t) \notin next
    BY <1>1, ActorsApart
  <2>2. Holds(mail[Connection(t)], m)
    BY <1>4, <2>1
  <2> QED
    BY <2>2 DEF Closing, SchedInv
<1>11. PollsAtConnection'
  <2> SUFFICES ASSUME NEW t \in Sessions, NEW m \in Polls
               PROVE  ~Holds(mail'[Command(t)], m) /\ ~Holds(mail'[Controller(t)], m)
    BY DEF PollsAtConnection
  <2>1. m # "exit" /\ Command(t) \in Actors /\ Controller(t) \in Actors
    BY ActorsApart DEF Polls
  <2>2. ~Holds(mail[Command(t)], m) /\ ~Holds(mail[Controller(t)], m)
    BY DEF PollsAtConnection, SchedInv
  <2> QED
    BY <1>4, <2>1, <2>2
<1>12. Answers'
  <2> SUFFICES ASSUME NEW t \in Sessions
               PROVE  prompts'[t] + Owed(t)' <= lines'[t] + 1
    BY DEF Answers
  <2>1. \A x \in ActorsOf(t) : x \in Actors
    BY ActorsApart DEF ActorsOf
  <2> QED
    BY <1>4, <1>5, <2>1, AnswersOf
<1> QED
  BY <1>3, <1>7, <1>8, <1>9, <1>10, <1>11, <1>12 DEF Alive
-----------------------------------------------------------------------------
(***************************************************************************)
(* A client is accepted.                                                   *)
(***************************************************************************)
LEMMA Accepted ==
  ASSUME TypeOK, SchedInv, ServerAccepts
  PROVE  Threading' /\ ClientTypes' /\ IsFiniteSet(running)' /\ Alive' /\ Answers'
<1>1. PICK s \in Sessions :
        /\ s \in backlog /\ backlog' = backlog \ {s}
        /\ up' = up \cup {Connection(s), Command(s), Controller(s)}
        /\ mail' = [mail EXCEPT ![Connection(s)] = <<"PerformWelcome">>,
                                ![Server] = Append(Tail(@), "AcceptConnection")]
        /\ queue' = Append(queue, Connection(s))
  BY DEF ServerAccepts, TypeOK
<1>2. /\ Server \in running /\ mail[Server] # <<>> /\ Head(mail[Server]) = "AcceptConnection"
      /\ UNCHANGED <<running, unread, lines, prompts>>
  BY DEF ServerAccepts, Receives
<1>3. PICK conn : conn = Connection(s)
  OBVIOUS
<1>4. /\ conn \in Actors /\ Server \in Actors /\ conn # Server
      /\ \A t \in Sessions : /\ t # s => Connection(t) # conn
                             /\ Command(t) # conn /\ Controller(t) # conn
                             /\ Connection(t) # Server /\ Command(t) # Server /\ Controller(t) # Server
                             /\ Connection(t) \in Actors /\ Command(t) \in Actors
                             /\ Controller(t) \in Actors
                             /\ t # s => ActorsOf(t) \cap ActorsOf(s) = {}
  BY <1>3, ActorsApart DEF ActorsOf
<1>5. /\ mail[Server] \in Seq(Messages)
      /\ mail'[conn] = <<"PerformWelcome">>
      /\ mail'[Server] = Append(Tail(mail[Server]), "AcceptConnection")
      /\ \A x \in Actors : x # conn /\ x # Server => mail'[x] = mail[x]
      /\ DOMAIN mail' = Actors /\ mail' = [x \in Actors |-> mail'[x]]
  BY <1>1, <1>3, <1>4 DEF TypeOK
<1>6. /\ mail'[Server] \in Seq(Messages)
      /\ \A m : Holds(mail'[Server], m) <=> Holds(mail[Server], m)
  <2>1. PICK e \in Polls : e = "AcceptConnection"
    BY DEF Polls
  <2>2. PICK box \in Seq(Messages) : box = mail[Server]
    BY <1>5
  <2>5. PICK new : new = mail'[Server]
    OBVIOUS
  <2>3. box # <<>> /\ Head(box) = e /\ new = Append(Tail(box), e)
    BY <1>2, <1>5, <2>1, <2>2, <2>5
  <2>4. new \in Seq(Messages) /\ \A m : Holds(new, m) <=> Holds(box, m)
    BY <2>3, PolledAgain
  <2> QED
    BY <2>2, <2>4, <2>5
<1>7. /\ mail'[conn] \in Seq(Messages)
      /\ \A m : Holds(mail'[conn], m) => m = "PerformWelcome"
      /\ Tally(mail'[conn], Prompting) = 1
  <2>1. PICK e \in Messages : e = "PerformWelcome"
    BY DEF Messages
  <2>2. PICK box \in Seq(Messages) : box = <<>>
    BY EmptySeq
  <2>7. PICK new : new = mail'[conn]
    OBVIOUS
  <2>3. new = Append(box, e)
    BY <1>5, <2>1, <2>2, <2>7
  <2>4. e \in Prompting
    BY <2>1 DEF Prompting
  <2>5. /\ new \in Seq(Messages)
        /\ \A m : Holds(new, m) <=> Holds(box, m) \/ m = e
        /\ e \in Prompting => Tally(new, Prompting) = Tally(box, Prompting) + 1
    BY <2>3, GotOne
  <2>6. (\A m : ~Holds(<<>>, m)) /\ Tally(<<>>, Prompting) = 0
    BY EmptyBox
  <2> QED
    BY <2>1, <2>2, <2>4, <2>5, <2>6, <2>7
<1>8. mail' \in [Actors -> Seq(Messages)]
  <2>1. \A x \in Actors : mail'[x] \in Seq(Messages)
    BY <1>5, <1>6, <1>7 DEF TypeOK
  <2> QED
    BY <1>5, <2>1
<1>9. /\ conn \notin up /\ Command(s) \notin up /\ Controller(s) \notin up
      /\ lines[s] = 0 /\ prompts[s] = 0 /\ unread[s] = ""
  BY <1>1, <1>3 DEF Fresh, SchedInv
<1>10. mail[Command(s)] = <<>> /\ mail[Controller(s)] = <<>>
  BY <1>4, <1>9 DEF MailUp, SchedInv
<1>11. /\ up \subseteq up' /\ conn \in up' /\ up' \subseteq Actors
       /\ \A x \in Actors : x \in up' => x \in up \/ x \in ActorsOf(s)
  <2>1. up' = up \cup ActorsOf(s) /\ conn \in ActorsOf(s)
    BY <1>1, <1>3 DEF ActorsOf
  <2>2. up \subseteq Actors /\ ActorsOf(s) \subseteq Actors
    BY ActorsApart DEF TypeOK, ActorsOf
  <2> QED
    BY <2>1, <2>2
<1>12. Threading'
  <2>1. /\ running \subseteq up /\ Cardinality(running) <= Threads
        /\ queue \in Seq(up \ running)
        /\ \A j, k \in DOMAIN queue : queue[j] = queue[k] => j = k
        /\ \A x \in up : mail[x] # <<>> => x \in running \/ Holds(queue, x)
    BY DEF TypeOK, Holds
  <2>2. conn \notin running
    BY <1>9, <2>1
  <2>3. queue \in Seq(up' \ running) /\ conn \in up' \ running
    <3>1. up \ running \subseteq up' \ running
      BY <1>11
    <3> QED
      BY <1>11, <2>1, <2>2, <3>1, ElementOfSeq, LenProperties
  <2>4. PICK q : q = queue' /\ q = Append(queue, conn)
    BY <1>1, <1>3
  <2>5. /\ q \in Seq(up' \ running) /\ Len(queue) \in Nat
        /\ DOMAIN queue = 1..Len(queue) /\ DOMAIN q = 1..(Len(queue) + 1)
        /\ \A k \in 1..Len(queue) : q[k] = queue[k]
        /\ q[Len(queue) + 1] = conn
    BY <2>3, <2>4, AppendProperties, LenProperties
  <2>6. \A x : Holds(q, x) <=> Holds(queue, x) \/ conn = x
    BY <2>3, <2>4, AppendedHolds
  <2>7. ASSUME NEW j \in DOMAIN q, NEW k \in DOMAIN q, q[j] = q[k]
        PROVE  j = k
    <3>1. \A m \in 1..Len(queue) : queue[m] # conn
      <4>1. \A m \in 1..Len(queue) : queue[m] \in up \ running
        BY <2>1, ElementOfSeq
      <4> QED
        BY <1>9, <4>1
    <3>2. CASE j \in 1..Len(queue) /\ k \in 1..Len(queue)
      BY <2>1, <2>5, <2>7, <3>2
    <3>3. CASE ~(j \in 1..Len(queue) /\ k \in 1..Len(queue))
      BY <2>5, <2>7, <3>1, <3>3
    <3> QED
      BY <3>2, <3>3
  <2>8. \A x \in up' : mail'[x] # <<>> => x \in running \/ Holds(q, x)
    <3> TAKE x \in up'
    <3> HAVE mail'[x] # <<>>
    <3>1. x \in Actors /\ (x \in up \/ x \in ActorsOf(s))
      BY <1>11
    <3>2. CASE x = Server \/ x = conn
      BY <1>2, <2>6, <3>2
    <3>3. CASE x # Server /\ x # conn
      <4>1. mail[x] # <<>>
        BY <1>5, <3>1, <3>3
      <4>2. x \in up
        BY <3>1, <4>1 DEF MailUp, SchedInv
      <4> QED
        BY <2>1, <2>6, <4>1, <4>2
    <3> QED
      BY <3>2, <3>3
  <2>9. running' \subseteq up' /\ Cardinality(running') <= Threads
    BY <1>2, <1>11, <2>1
  <2> QED
    BY <1>2, <1>8, <1>11, <2>4, <2>5, <2>7, <2>8, <2>9 DEF Threading
<1>13. ClientTypes'
  BY <1>1, <1>2, TypeParts DEF ClientTypes
<1>14. IsFiniteSet(running)'
  BY <1>2 DEF SchedInv
<1>15. Lifetimes'
  <2> SUFFICES ASSUME NEW t \in Sessions
               PROVE  /\ Connection(t) \in up' => Command(t) \in up'
                      /\ Command(t) \in up' => Controller(t) \in up'
                      /\ Holds(mail'[Command(t)], "exit") => Connection(t) \notin up'
                      /\ Holds(mail'[Controller(t)], "exit") => Command(t) \notin up'
    BY DEF Lifetimes
  <2>1. mail'[Command(t)] = mail[Command(t)] /\ mail'[Controller(t)] = mail[Controller(t)]
    BY <1>4, <1>5
  <2>2. CASE t = s
    <3>1. ~Holds(<<>>, "exit")
      BY EmptyBox
    <3> QED
      BY <1>1, <1>10, <2>1, <2>2, <3>1
  <2>3. CASE t # s
    <3>1. /\ Connection(t) \in up' <=> Connection(t) \in up
          /\ Command(t) \in up' <=> Command(t) \in up
          /\ Controller(t) \in up' <=> Controller(t) \in up
      BY <1>1, <1>4, <2>3 DEF ActorsOf
    <3> QED
      BY <2>1, <3>1 DEF Lifetimes, SchedInv
  <2> QED
    BY <2>2, <2>3
<1>16. Fresh'
  <2> SUFFICES ASSUME NEW t \in Sessions
               PROVE  /\ Connection(t) \notin up' /\ unread[t] # "quit" =>
                           Command(t) \notin up' /\ Controller(t) \notin up'
                           /\ lines[t] = 0 /\ prompts[t] = 0 /\ unread[t] = ""
                      /\ t \in backlog' => Connection(t) \notin up' /\ unread[t] # "quit"
    BY <1>2 DEF Fresh
  <2>1. CASE t = s
    BY <1>1, <2>1
  <2>2. CASE t # s
    <3>1. /\ Connection(t) \in up' <=> Connection(t) \in up
          /\ Command(t) \in up' <=> Command(t) \in up
          /\ Controller(t) \in up' <=> Controller(t) \in up
          /\ t \in backlog' => t \in backlog
      BY <1>1, <1>4, <2>2 DEF ActorsOf
    <3> QED
      BY <3>1 DEF Fresh, SchedInv
  <2> QED
    BY <2>1, <2>2
<1>17. MailUp'
  <2> SUFFICES ASSUME NEW x \in Actors, x \notin up'
               PROVE  mail'[x] = <<>>
    BY DEF MailUp
  <2>1. x \notin up /\ x # conn /\ x # Server
    BY <1>2, <1>11 DEF TypeOK
  <2> QED
    BY <1>5, <2>1 DEF MailUp, SchedInv
<1>18. Closing'
  <2> SUFFICES ASSUME NEW t \in Sessions, NEW m \in Closes, Holds(mail'[Connection(t)], m)
               PROVE  unread[t] = "quit"
    BY <1>2 DEF Closing
  <2>1. t # s
    BY <1>3, <1>7 DEF Closes
  <2>2. Holds(mail[Connection(t)], m)
    BY <1>4, <1>5, <2>1
  <2> QED
    BY <2>2 DEF Closing, SchedInv
<1>19. PollsAtConnection'
  BY <1>4, <1>5 DEF PollsAtConnection, SchedInv
<1>20. Answers'
  <2> SUFFICES ASSUME NEW t \in Sessions
               PROVE  prompts'[t] + Owed(t)' <= lines'[t] + 1
    BY DEF Answers
  <2>1. CASE t # s
    <3>1. \A x \in ActorsOf(t) : mail'[x] = mail[x] /\ x \in Actors
      BY <1>4, <1>5, <2>1 DEF ActorsOf
    <3>2. \A x \in ActorsOf(t) : /\ Tally(mail'[x], Prompting) \in Nat
                                 /\ Tally(mail'[x], Prompting) <= Tally(mail[x], Prompting)
      BY <3>1, TallyOf
    <3> QED
      BY <1>2, <3>2, AnswersOf
  <2>2. CASE t = s
    <3>1. /\ Tally(mail'[Connection(t)], Prompting) = 1
          /\ Tally(mail'[Command(t)], Prompting) = 0
          /\ Tally(mail'[Controller(t)], Prompting) = 0
      BY <1>3, <1>4, <1>5, <1>7, <1>10, <2>2, EmptyBox
    <3>2. unread'[t] # "line" /\ prompts'[t] = 0 /\ lines'[t] = 0
      BY <1>2, <1>9, <2>2
    <3>3. Owed(t)' = 1 + 0 + 0 + 0
      BY <3>1, <3>2 DEF Owed
    <3> QED
      BY <3>2, <3>3
  <2> QED
    BY <2>1, <2>2
<1> QED
  BY <1>12, <1>13, <1>14, <1>15, <1>16, <1>17, <1>18, <1>19, <1>20 DEF Alive
-----------------------------------------------------------------------------
(***************************************************************************)
(* The inductive invariant holds.                                          *)
(***************************************************************************)
Sound == Threading /\ ClientTypes /\ IsFiniteSet(running) /\ Alive /\ Answers

\* What the steps below establish is the invariant.
LEMMA SoundParts == Sound => TypeOK /\ SchedInv
BY TypeParts DEF Sound, SchedInv, Alive

\* A step that leaves the mail, the actors and the clients alone.
LEMMA SameMail ==
  ASSUME TypeOK, SchedInv, UNCHANGED <<mail, up, client>>
  PROVE  ClientTypes' /\ Alive' /\ Answers'
<1>1. UNCHANGED <<mail, up, backlog, unread, lines, prompts>>
  BY DEF client
<1>2. ClientTypes'
  BY <1>1, TypeParts DEF ClientTypes
<1>3. Alive'
  BY <1>1 DEF SchedInv, Alive, Lifetimes, Fresh, MailUp, Closing, PollsAtConnection
<1>4. Answers'
  BY <1>1 DEF SchedInv, Answers, Owed
<1> QED
  BY <1>2, <1>3, <1>4

\* Nothing happens.
LEMMA Stutters ==
  ASSUME TypeOK, SchedInv, UNCHANGED vars
  PROVE  Sound'
<1>1. UNCHANGED <<running, queue>> /\ UNCHANGED <<mail, up, client>>
  BY DEF vars, client
<1>2. Threading' /\ IsFiniteSet(running)'
  BY <1>1, TypeParts DEF Threading, SchedInv
<1> QED
  BY <1>1, <1>2, SameMail DEF Sound

\* A client connects.
LEMMA Connected ==
  ASSUME TypeOK, SchedInv, NEW s \in Sessions, Connects(s)
  PROVE  Sound'
<1>1. /\ Connection(s) \notin up /\ unread[s] # "quit" /\ backlog' = backlog \cup {s}
      /\ UNCHANGED <<mail, running, queue, up, unread, lines, prompts>>
  BY DEF Connects
<1>2. Threading' /\ IsFiniteSet(running)'
  BY <1>1, TypeParts DEF Threading, SchedInv
<1>3. ClientTypes'
  BY <1>1, TypeParts DEF ClientTypes
<1>4. Lifetimes' /\ MailUp' /\ Closing' /\ PollsAtConnection'
  BY <1>1 DEF SchedInv, Lifetimes, MailUp, Closing, PollsAtConnection
<1>5. Fresh'
  BY <1>1 DEF SchedInv, Fresh
<1>6. Answers'
  BY <1>1 DEF SchedInv, Answers, Owed
<1> QED
  BY <1>2, <1>3, <1>4, <1>5, <1>6 DEF Sound, Alive

\* A client types a line.
LEMMA Typed ==
  ASSUME TypeOK, SchedInv, NEW s \in Sessions, Types(s)
  PROVE  Sound'
<1>1. /\ Connection(s) \in up /\ unread[s] = ""
      /\ UNCHANGED <<mail, running, queue, up, backlog, prompts>>
  BY DEF Types
<1>2. /\ unread \in [Sessions -> {"", "line", "quit"}] /\ lines \in [Sessions -> 0..MaxLines]
      /\ prompts \in [Sessions -> Nat]
  BY TypeParts DEF ClientTypes
<1>3. /\ unread' \in [Sessions -> {"", "line", "quit"}] /\ lines' \in [Sessions -> 0..MaxLines]
      /\ \A t \in Sessions : t # s => unread'[t] = unread[t] /\ lines'[t] = lines[t]
      /\ \/ unread'[s] = "line" /\ lines'[s] = lines[s] + 1
         \/ unread'[s] = "quit" /\ lines'[s] = lines[s]
  <2>1. CASE lines[s] < MaxLines /\ unread' = [unread EXCEPT ![s] = "line"]
                                 /\ lines' = [lines EXCEPT ![s] = @ + 1]
    <3>0. lines[s] \in 0..MaxLines /\ lines[s] < MaxLines
      BY <1>2, <2>1
    <3>1. lines[s] + 1 \in 0..MaxLines
      BY <3>0, MaxLinesAssumption
    <3> QED
      BY <1>2, <2>1, <3>1
  <2>2. CASE unread' = [unread EXCEPT ![s] = "quit"] /\ UNCHANGED lines
    BY <1>2, <2>2
  <2> QED
    BY <2>1, <2>2 DEF Types
<1>4. Threading' /\ IsFiniteSet(running)'
  BY <1>1, TypeParts DEF Threading, SchedInv
<1>5. ClientTypes'
  BY <1>1, <1>3, TypeParts DEF ClientTypes
<1>6. Lifetimes' /\ MailUp' /\ PollsAtConnection'
  BY <1>1 DEF SchedInv, Lifetimes, MailUp, PollsAtConnection
<1>7. Fresh'
  <2> SUFFICES ASSUME NEW t \in Sessions
               PROVE  /\ Connection(t) \notin up /\ unread'[t] # "quit" =>
                           Command(t) \notin up /\ Controller(t) \notin up
                           /\ lines'[t] = 0 /\ prompts[t] = 0 /\ unread'[t] = ""
                      /\ t \in backlog => Connection(t) \notin up /\ unread'[t] # "quit"
    BY <1>1 DEF Fresh
  <2>1. CASE t = s
    BY <1>1, <2>1 DEF Fresh, SchedInv
  <2>2. CASE t # s
    BY <1>3, <2>2 DEF Fresh, SchedInv
  <2> QED
    BY <2>1, <2>2
<1>8. Closing'
  <2> SUFFICES ASSUME NEW t \in Sessions, NEW m \in Closes, Holds(mail[Connection(t)], m)
               PROVE  unread'[t] = "quit"
    BY <1>1 DEF Closing
  <2>1. unread[t] = "quit"
    BY DEF Closing, SchedInv
  <2> QED
    BY <1>1, <1>3, <2>1
<1>9. Answers'
  <2> SUFFICES ASSUME NEW t \in Sessions
               PROVE  prompts'[t] + Owed(t)' <= lines'[t] + 1
    BY DEF Answers
  <2>1. PICK c, d, e, p, l :
          /\ c = Tally(mail[Connection(t)], Prompting) /\ d = Tally(mail[Command(t)], Prompting)
          /\ e = Tally(mail[Controller(t)], Prompting) /\ p = prompts[t] /\ l = lines[t]
    OBVIOUS
  <2>2. c \in Nat /\ d \in Nat /\ e \in Nat
    BY <2>1, TallyOf, ActorsApart
  <2>3. p \in Nat /\ l \in 0..MaxLines /\ prompts'[t] = p
    BY <1>1, <1>2, <2>1
  <2>4. prompts[t] + Owed(t) <= lines[t] + 1
    BY DEF Answers, SchedInv
  <2>5. CASE t # s
    <3>1. Owed(t)' = Owed(t) /\ lines'[t] = lines[t]
      BY <1>1, <1>3, <2>5 DEF Owed
    <3> QED
      BY <2>1, <2>3, <2>4, <3>1
  <2>6. CASE t = s /\ unread'[s] = "line" /\ lines'[s] = lines[s] + 1
    <3>1. Owed(t)' = c + d + e + 1
      BY <1>1, <2>1, <2>6 DEF Owed
    <3>2. Owed(t) = c + d + e + 0
      BY <1>1, <2>1, <2>6 DEF Owed
    <3>3. lines'[t] = l + 1
      BY <2>1, <2>6
    <3>4. p + (c + d + e + 0) <= l + 1
      BY <2>1, <2>4, <3>2
    <3> QED
      BY <2>2, <2>3, <3>1, <3>3, <3>4
  <2>7. CASE t = s /\ unread'[s] = "quit" /\ lines'[s] = lines[s]
    <3>1. Owed(t)' = c + d + e + 0
      BY <1>1, <2>1, <2>7 DEF Owed
    <3>2. Owed(t) = c + d + e + 0
      BY <1>1, <2>1, <2>7 DEF Owed
    <3>3. lines'[t] = l
      BY <2>1, <2>7
    <3>4. p + (c + d + e + 0) <= l + 1
      BY <2>1, <2>4, <3>2
    <3> QED
      BY <2>2, <2>3, <3>1, <3>3, <3>4
  <2> QED
    BY <1>3, <2>5, <2>6, <2>7
<1> QED
  BY <1>4, <1>5, <1>6, <1>7, <1>8, <1>9 DEF Sound, Alive

\* A thread takes an actor from the queue.
LEMMA Taken ==
  ASSUME TypeOK, SchedInv, Take
  PROVE  Sound'
<1>1. /\ queue # <<>> /\ Cardinality(running) < Threads
      /\ running' = running \cup {Head(queue)} /\ queue' = Tail(queue)
      /\ UNCHANGED <<mail, up, client>>
  BY DEF Take
<1>2. /\ mail \in [Actors -> Seq(Messages)]
      /\ running \subseteq up /\ up \subseteq Actors /\ IsFiniteSet(running)
      /\ queue \in Seq(up \ running)
      /\ \A j, k \in DOMAIN queue : queue[j] = queue[k] => j = k
      /\ \A x \in up : mail[x] # <<>> => x \in running \/ Holds(queue, x)
  BY DEF TypeOK, SchedInv, Holds
<1>3. PICK q, h : q = Tail(queue) /\ h = Head(queue)
  OBVIOUS
<1>4. /\ q \in Seq(up \ running) /\ h = queue[1]
      /\ Len(queue) \in Nat \ {0}
      /\ DOMAIN queue = 1..Len(queue) /\ DOMAIN q = 1..(Len(queue) - 1)
      /\ \A i \in DOMAIN q : i + 1 \in DOMAIN queue /\ i + 1 # 1 /\ q[i] = queue[i + 1]
  BY <1>1, <1>2, <1>3, TailIndices
<1>5. 1 \in DOMAIN queue /\ h \in up \ running
  BY <1>2, <1>4, ElementOfSeq
<1>6. \A i \in DOMAIN q : q[i] # h /\ q[i] \in up \ running
  <2> TAKE i \in DOMAIN q
  <2>1. PICK j \in DOMAIN queue : j = i + 1 /\ j # 1 /\ q[i] = queue[j]
    BY <1>4
  <2>2. queue[j] # queue[1]
    BY <1>2, <1>5, <2>1
  <2>3. queue[j] \in up \ running
    BY <1>2, <1>4, ElementOfSeq
  <2> QED
    BY <1>4, <2>1, <2>2, <2>3
<1>7. q \in Seq(up \ running')
  <2>1. q \in [1..(Len(queue) - 1) -> up \ running']
    <3>1. q = [i \in 1..(Len(queue) - 1) |-> q[i]]
      BY <1>4, LenProperties
    <3>2. \A i \in 1..(Len(queue) - 1) : q[i] \in up \ running'
      BY <1>1, <1>3, <1>4, <1>6
    <3> QED
      BY <3>1, <3>2
  <2>2. Len(queue) - 1 \in Nat
    <3>1. Len(queue) \in Nat \ {0}
      BY <1>4
    <3> QED
      BY <3>1
  <2> QED
    BY <2>1, <2>2, SeqDef
<1>8. ASSUME NEW i \in DOMAIN q, NEW j \in DOMAIN q, q[i] = q[j]
      PROVE  i = j
  <2>1. i + 1 \in DOMAIN queue /\ j + 1 \in DOMAIN queue /\ q[i] = queue[i + 1] /\ q[j] = queue[j + 1]
    BY <1>4
  <2>2. PICK ii \in DOMAIN queue, jj \in DOMAIN queue : ii = i + 1 /\ jj = j + 1
    BY <2>1
  <2>3. ii = jj
    BY <1>2, <1>8, <2>1, <2>2
  <2> QED
    BY <1>4, <2>2, <2>3
<1>9. \A x \in up : mail[x] # <<>> => x \in running' \/ Holds(q, x)
  <2> TAKE x \in up
  <2> HAVE mail[x] # <<>>
  <2>1. CASE x \in running
    BY <1>1, <2>1
  <2>2. CASE Holds(queue, x) /\ x # h
    BY <1>1, <1>2, <1>3, <2>2, TakenHolds
  <2>3. CASE x = h
    BY <1>1, <1>3, <2>3
  <2> QED
    BY <1>2, <2>1, <2>2, <2>3
<1>10. IsFiniteSet(running') /\ Cardinality(running') <= Threads
  <2>1. /\ IsFiniteSet(running \cup {h})
        /\ Cardinality(running \cup {h}) = Cardinality(running) + 1
    BY <1>2, <1>5, FS_AddElement
  <2>2. Cardinality(running) \in Nat
    BY <1>2, FS_CardinalityType
  <2> QED
    BY <1>1, <1>3, <2>1, <2>2, ThreadsAssumption
<1>11. running' \subseteq up
  BY <1>1, <1>2, <1>3, <1>5
<1>12. Threading'
  BY <1>1, <1>2, <1>3, <1>7, <1>8, <1>9, <1>10, <1>11 DEF Threading
<1> QED
  BY <1>1, <1>10, <1>12, SameMail DEF Sound

\* A thread leaves an actor that has no message.
LEMMA Left ==
  ASSUME TypeOK, SchedInv, NEW a \in Actors, Leave(a)
  PROVE  Sound'
<1>1. /\ a \in running /\ mail[a] = <<>> /\ running' = running \ {a}
      /\ UNCHANGED queue /\ UNCHANGED <<mail, up, client>>
  BY DEF Leave
<1>2. /\ mail \in [Actors -> Seq(Messages)]
      /\ running \subseteq up /\ up \subseteq Actors /\ IsFiniteSet(running)
      /\ Cardinality(running) <= Threads
      /\ queue \in Seq(up \ running)
      /\ \A j, k \in DOMAIN queue : queue[j] = queue[k] => j = k
      /\ \A x \in up : mail[x] # <<>> => x \in running \/ Holds(queue, x)
  BY DEF TypeOK, SchedInv, Holds
<1>3. IsFiniteSet(running') /\ Cardinality(running') <= Threads
  <2>1. IsFiniteSet(running \ {a}) /\ Cardinality(running \ {a}) = Cardinality(running) - 1
    BY <1>1, <1>2, FS_RemoveElement
  <2>2. Cardinality(running) \in Nat
    BY <1>2, FS_CardinalityType
  <2> QED
    BY <1>1, <1>2, <2>1, <2>2, ThreadsAssumption
<1>4. queue \in Seq(up \ running')
  <2>1. up \ running \subseteq up \ running'
    BY <1>1
  <2> QED
    BY <1>2, <2>1, ElementOfSeq, LenProperties
<1>5. Threading'
  BY <1>1, <1>2, <1>3, <1>4 DEF Threading
<1> QED
  BY <1>1, <1>3, <1>5, SameMail DEF Sound

\* An actor handles a message by sending one.
LEMMA Talked ==
  ASSUME TypeOK, SchedInv, NEW a \in Actors, NEW b \in Actors,
         NEW in \in Messages, NEW out \in Messages, Talk(a, b, in, out)
  PROVE  Sound'
BY TalkThreads, TalkAlive, TalkAnswers DEF Sound
\* No step leaves the invariant.
LEMMA SoundStep ==
  ASSUME TypeOK, SchedInv, [Next]_vars
  PROVE  Sound'
<1>1. CASE UNCHANGED vars
  BY <1>1, Stutters
<1>2. ASSUME NEW s \in Sessions, Connects(s) \/ Types(s)
      PROVE  Sound'
  BY <1>2, Connected, Typed
<1>3. CASE Take
  BY <1>3, Taken
<1>4. ASSUME NEW a \in Actors, Step(a)
      PROVE  Sound'
  <2>1. \/ Leave(a) \/ ServerAccepts
        \/ \E s \in Sessions : PollLine(s) \/ Ends(s)
        \/ \E b \in Actors, in \in Messages, out \in Messages : Talk(a, b, in, out)
    BY <1>4, StepKinds DEF SchedInv
  <2>2. CASE Leave(a)
    BY <2>2, Left
  <2>3. CASE ServerAccepts
    BY <2>3, Accepted DEF Sound
  <2>4. ASSUME NEW s \in Sessions, PollLine(s) \/ Ends(s)
        PROVE  Sound'
    BY <2>4, LinePolled, Ended DEF Sound
  <2>5. ASSUME NEW b \in Actors, NEW in \in Messages, NEW out \in Messages, Talk(a, b, in, out)
        PROVE  Sound'
    BY <2>5, Talked
  <2> QED
    BY <2>1, <2>2, <2>3, <2>4, <2>5
<1> QED
  BY <1>1, <1>2, <1>3, <1>4 DEF Next

\* The server alone, waiting for a client, is in the invariant.
LEMMA SoundInit ==
  ASSUME Init
  PROVE  Sound
<1>1. /\ mail = [a \in Actors |-> IF a = Server THEN <<"AcceptConnection">> ELSE <<>>]
      /\ running = {Server} /\ queue = <<>> /\ up = {Server} /\ backlog = {}
      /\ unread = [s \in Sessions |-> ""] /\ lines = [s \in Sessions |-> 0]
      /\ prompts = [s \in Sessions |-> 0]
  BY DEF Init
<1>2. Server \in Actors /\ mail[Server] = <<"AcceptConnection">>
  BY <1>1, ActorsApart
<1>3. \A s \in Sessions : mail[Connection(s)] = <<>> /\ mail[Command(s)] = <<>> /\ mail[Controller(s)] = <<>>
  BY <1>1, ActorsApart
<1>4. \A s \in Sessions : Connection(s) \notin up /\ Command(s) \notin up /\ Controller(s) \notin up
  BY <1>1, ActorsApart
<1>5. IsFiniteSet(running) /\ Cardinality(running) <= Threads
  <2>1. IsFiniteSet(running) /\ Cardinality(running) = 1
    BY <1>1, FS_Singleton
  <2> QED
    BY <2>1, ThreadsAssumption
<1>6. Threading
  <2>1. mail \in [Actors -> Seq(Messages)]
    <3>1. "AcceptConnection" \in Messages
      BY DEF Messages
    <3>2. <<"AcceptConnection">> \in Seq(Messages) /\ <<>> \in Seq(Messages)
      BY <3>1
    <3> QED
      BY <1>1, <3>2
  <2>2. queue \in Seq(up \ running) /\ DOMAIN queue = {}
    <3>1. queue = <<>>
      BY <1>1
    <3> QED
      BY <3>1
  <2> QED
    BY <1>1, <1>2, <1>5, <2>1, <2>2 DEF Threading
<1>7. ClientTypes
  <2>1. 0 \in 0..MaxLines /\ 0 \in Nat
    BY MaxLinesAssumption
  <2> QED
    BY <1>1, <2>1 DEF ClientTypes
<1>8. \A m : ~Holds(<<>>, m)
  BY EmptyBox
<1>9. Alive
  <2>1. Lifetimes
    BY <1>3, <1>4, <1>8 DEF Lifetimes
  <2>2. Fresh
    BY <1>1, <1>4 DEF Fresh
  <2>3. MailUp
    BY <1>1 DEF MailUp
  <2>4. Closing /\ PollsAtConnection
    BY <1>3, <1>8 DEF Closing, PollsAtConnection
  <2> QED
    BY <2>1, <2>2, <2>3, <2>4 DEF Alive
<1>10. Answers
  <2> SUFFICES ASSUME NEW s \in Sessions
               PROVE  prompts[s] + Owed(s) <= lines[s] + 1
    BY DEF Answers
  <2>1. Tally(<<>>, Prompting) = 0
    BY EmptyBox
  <2>2. Owed(s) = 0 + 0 + 0 + 0
    BY <1>1, <1>3, <2>1 DEF Owed
  <2>3. prompts[s] = 0 /\ lines[s] = 0
    BY <1>1
  <2> QED
    BY <2>2, <2>3
<1> QED
  BY <1>5, <1>6, <1>7, <1>9, <1>10 DEF Sound

\* The inductive invariant: in every reachable state the types are right, an actor
\* with mail has a thread or waits for one, the actors of a session end in order,
\* and a session owes its client at most one prompt for each line.
THEOREM SchedulerInvariant == Spec => [](TypeOK /\ SchedInv)
<1>1. Init => Sound
  BY SoundInit
<1>2. Sound /\ [Next]_vars => Sound'
  BY SoundParts, SoundStep
<1>3. Spec => Init /\ [][Next]_vars
  BY PTL DEF Spec
<1>4. Spec => []Sound
  BY <1>1, <1>2, <1>3, PTL
<1> QED
  BY <1>4, SoundParts, PTL

\* Every variable has its type: no actor is lost with mail in its box, and none has
\* two threads or two places in the queue (actors are scheduled by the framework,
\* configured in pmud.caf).
THEOREM SchedulerTypes == Spec => []TypeOK
BY SchedulerInvariant, PTL
-----------------------------------------------------------------------------
(***************************************************************************)
(* A crowd of actors that poll keeps the threads.                          *)
(***************************************************************************)
\* Crowded, said of what the mailboxes hold.
Crowd ==
  /\ Cardinality(running) = Threads
  /\ \A x \in running : \E m \in Polls : Holds(mail[x], m)
  /\ \A s \in Sessions : Connection(s) \in running =>
       unread[s] # "quit" /\ \A m \in Closes : ~Holds(mail[Connection(s)], m)

\* Crowded, said with the messages the mailboxes hold.
LEMMA CrowdedHolds ==
  /\ running \subseteq up /\ Crowded => Crowd
  /\ (running \subseteq up /\ Crowd => Crowded)'
<1>1. running \subseteq up /\ Crowded => Crowd
  BY DEF Crowded, Crowd, Polling, Polls, Closes, Holds
<1>2. (running \subseteq up /\ Crowd => Crowded)'
  BY DEF Crowded, Crowd, Polling, Polls, Closes, Holds
<1> QED
  BY <1>1, <1>2

Quits == \E s \in Sessions : unread'[s] = "quit"
NothingHandled == \A a \in Actors \ running : Len(mail'[a]) >= Len(mail[a])

\* In a crowd no message can be passed on but a poll.
LEMMA CrowdTalks ==
  ASSUME TypeOK, SchedInv, Crowd, NEW a \in Actors, NEW b \in Actors,
         NEW in \in Messages, NEW out \in Messages, Talk(a, b, in, out)
  PROVE  Crowd' /\ NothingHandled
<1>1. /\ a \in running /\ a \in up /\ Receives(a, in) /\ Handles(a, b, out)
      /\ UNCHANGED <<running, up, unread>>
  BY DEF Talk, Receives, Handles, TypeOK
<1>2. /\ \A x \in Actors, m \in Messages :
           /\ Holds(mail'[x], m) => Holds(mail[x], m) \/ (x = b /\ m = out)
           /\ Holds(mail[x], m) /\ ~(x = a /\ m = in) => Holds(mail'[x], m)
      /\ b \in up => Holds(mail'[b], out)
      /\ \A x \in Actors : x # a => Len(mail'[x]) >= Len(mail[x])
  BY <1>1, Handled
<1>3. running \subseteq Actors /\ Polls \subseteq Messages /\ Closes \subseteq Messages
  BY DEF TypeOK, Polls, Closes, Messages
<1>4. \A x \in running : \E m \in Polls : Holds(mail'[x], m)
  <2> TAKE x \in running
  <2>1. PICK m \in Polls : Holds(mail[x], m)
    BY DEF Crowd
  <2>2. CASE x = a /\ m = in
    <3>1. b = a /\ out = in
      BY <1>1, <2>2 DEF Talk, Crowd
    <3> QED
      BY <1>1, <1>2, <2>2, <3>1
  <2>3. CASE ~(x = a /\ m = in)
    BY <1>2, <1>3, <2>1, <2>3
  <2> QED
    BY <2>2, <2>3
<1>5. ASSUME NEW s \in Sessions, Connection(s) \in running, NEW m \in Closes
      PROVE  ~Holds(mail'[Connection(s)], m)
  <2>1. unread[s] # "quit" /\ ~Holds(mail[Connection(s)], m)
    BY <1>5 DEF Crowd
  <2>2. ~(Connection(s) = b /\ m = out)
    BY <2>1 DEF Talk
  <2> QED
    BY <1>2, <1>3, <1>5, <2>1, <2>2
<1>6. Crowd'
  BY <1>1, <1>4, <1>5 DEF Crowd
<1>7. NothingHandled
  BY <1>1, <1>2 DEF NothingHandled
<1> QED
  BY <1>6, <1>7
\* Without a change of the mail and the threads.
LEMMA CrowdWaits ==
  ASSUME Crowd, TypeOK, UNCHANGED <<mail, running>>, ~Quits
  PROVE  Crowd' /\ NothingHandled
<1>1. Crowd'
  BY DEF Crowd, Quits
<1>2. NothingHandled
  <2> SUFFICES ASSUME NEW x \in Actors
               PROVE  Len(mail[x]) >= Len(mail[x])
    BY DEF NothingHandled
  <2>1. Len(mail[x]) \in Nat
    BY LenProperties DEF TypeOK
  <2> QED
    BY <2>1
<1> QED
  BY <1>1, <1>2

\* Nobody in the crowd gives a thread back.
LEMMA CrowdRuns ==
  ASSUME TypeOK, SchedInv, Crowd
  PROVE  /\ ~Take
         /\ \A a \in Actors : ~Leave(a)
         /\ \A s \in Sessions : ~Ends(s)
<1>1. ~Take
  <2> SUFFICES ASSUME Cardinality(running) < Threads
               PROVE  FALSE
    BY DEF Take
  <2> QED
    BY ThreadsAssumption DEF Crowd
<1>2. \A a \in Actors : ~Leave(a)
  <2> SUFFICES ASSUME NEW a \in running, mail[a] = <<>>
               PROVE  FALSE
    BY DEF Leave
  <2>1. PICK m \in Polls : Holds(<<>>, m)
    BY DEF Crowd
  <2> QED
    BY <2>1, EmptyBox
<1>3. ASSUME NEW s \in Sessions, Ends(s)
      PROVE  FALSE
  <2>1. Connection(s) \in Actors
    BY ActorsApart
  <2>2. CASE Receives(Connection(s), "exit")
    <3>1. Connection(s) \in running /\ Holds(mail[Connection(s)], "exit")
      BY <2>1, <2>2, ReceivedHolds DEF Receives
    <3> QED
      BY <3>1 DEF Crowd, Closes
  <2>3. CASE Command(s) \in running \/ Controller(s) \in running
    BY <2>3 DEF Crowd, PollsAtConnection, SchedInv
  <2> QED
    BY <1>3, <2>2, <2>3 DEF Ends, Exits, Receives
<1> QED
  BY <1>1, <1>2, <1>3

\* The server accepts: its AcceptConnection and the mail of the crowd stay.
LEMMA CrowdAccepts ==
  ASSUME TypeOK, SchedInv, Crowd, ServerAccepts
  PROVE  Crowd' /\ NothingHandled
<1>1. PICK s \in Sessions :
        /\ s \in backlog
        /\ mail' = [mail EXCEPT ![Connection(s)] = <<"PerformWelcome">>,
                                ![Server] = Append(Tail(@), "AcceptConnection")]
  BY DEF ServerAccepts, TypeOK
<1>2. Server \in running /\ UNCHANGED <<running, unread>>
  BY DEF ServerAccepts, Receives
<1>3. Connection(s) \notin up /\ mail[Connection(s)] = <<>>
  BY <1>1, ActorsApart DEF Fresh, MailUp, SchedInv
<1>4. Connection(s) \notin running /\ running \subseteq Actors
  BY <1>3 DEF TypeOK
<1>5. /\ mail'[Server] = Append(Tail(mail[Server]), "AcceptConnection")
      /\ mail'[Connection(s)] = <<"PerformWelcome">>
      /\ \A x \in Actors : x # Connection(s) /\ x # Server => mail'[x] = mail[x]
  BY <1>1, ActorsApart DEF TypeOK
<1>6. Holds(mail'[Server], "AcceptConnection")
  <2>1. mail[Server] \in Seq(Messages) /\ mail[Server] # <<>>
    BY ActorsApart DEF TypeOK, ServerAccepts, Receives
  <2>2. PICK r \in Seq(Messages), e \in Messages : r = Tail(mail[Server]) /\ e = "AcceptConnection"
    BY <2>1, HeadTailProperties DEF Messages
  <2>3. Holds(Append(r, e), e)
    BY AppendedHolds
  <2> QED
    BY <1>5, <2>2, <2>3
<1>7. \A x \in running : \E m \in Polls : Holds(mail'[x], m)
  <2> TAKE x \in running
  <2>1. CASE x = Server
    BY <1>6, <2>1 DEF Polls
  <2>2. CASE x # Server
    <3>1. mail'[x] = mail[x]
      BY <1>4, <1>5, <2>2
    <3> QED
      BY <3>1 DEF Crowd
  <2> QED
    BY <2>1, <2>2
<1>8. \A t \in Sessions : Connection(t) \in running => mail'[Connection(t)] = mail[Connection(t)]
  BY <1>4, <1>5, ActorsApart
<1>9. Crowd'
  BY <1>2, <1>7, <1>8 DEF Crowd
<1>10. NothingHandled
  <2> SUFFICES ASSUME NEW x \in Actors \ running
               PROVE  Len(mail'[x]) >= Len(mail[x])
    BY DEF NothingHandled
  <2>1. Len(mail[x]) \in Nat
    BY LenProperties DEF TypeOK
  <2>2. CASE x = Connection(s)
    <3>1. Len(mail'[x]) = 1 /\ Len(mail[x]) = 0
      BY <1>3, <1>5, <2>2
    <3> QED
      BY <3>1
  <2>3. CASE x # Connection(s)
    <3>1. mail'[x] = mail[x]
      BY <1>2, <1>5, <2>3
    <3> QED
      BY <2>1, <3>1
  <2> QED
    BY <2>2, <2>3
<1> QED
  BY <1>9, <1>10

\* A connection of the crowd reads a line: its CommandActor gets it and waits.
LEMMA CrowdReads ==
  ASSUME TypeOK, SchedInv, Crowd, NEW s \in Sessions, PollLine(s)
  PROVE  Crowd' /\ NothingHandled
<1>1. PICK conn, cmd : conn = Connection(s) /\ cmd = Command(s)
  OBVIOUS
<1>2. /\ conn \in Actors /\ cmd \in Actors /\ conn # cmd
      /\ \A t \in Sessions : Connection(t) # cmd /\ Connection(t) \in Actors
  BY <1>1, ActorsApart
<1>3. /\ conn \in running /\ mail[conn] # <<>> /\ Head(mail[conn]) = "FromUserGetInput"
      /\ unread' = [unread EXCEPT ![s] = ""]
      /\ mail' = [mail EXCEPT ![conn] = Append(Tail(@), "FromUserGetInput"),
                              ![cmd] = Append(@, "OnUserInput")]
      /\ UNCHANGED running
  BY <1>1 DEF PollLine, Receives
<1>4. /\ mail[conn] \in Seq(Messages) /\ mail[cmd] \in Seq(Messages)
      /\ mail'[conn] = Append(Tail(mail[conn]), "FromUserGetInput")
      /\ mail'[cmd] = Append(mail[cmd], "OnUserInput")
      /\ \A x \in Actors : x # conn /\ x # cmd => mail'[x] = mail[x]
  BY <1>2, <1>3 DEF TypeOK
<1>5. \A m : Holds(mail'[conn], m) <=> Holds(mail[conn], m)
  <2>1. PICK e \in Polls : e = "FromUserGetInput"
    BY DEF Polls
  <2>2. PICK box \in Seq(Messages) : box = mail[conn]
    BY <1>4
  <2>5. PICK new : new = mail'[conn]
    OBVIOUS
  <2>3. box # <<>> /\ Head(box) = e /\ new = Append(Tail(box), e)
    BY <1>3, <1>4, <2>1, <2>2, <2>5
  <2>4. \A m : Holds(new, m) <=> Holds(box, m)
    BY <2>3, PolledAgain
  <2> QED
    BY <2>2, <2>4, <2>5
<1>6. cmd \notin running
  BY <1>1 DEF Crowd, PollsAtConnection, SchedInv
<1>7. \A x \in running, m \in Messages : Holds(mail'[x], m) <=> Holds(mail[x], m)
  BY <1>4, <1>5, <1>6 DEF TypeOK
<1>8. Polls \subseteq Messages /\ Closes \subseteq Messages
  BY DEF Polls, Closes, Messages
<1>9. \A t \in Sessions : unread'[t] = "quit" => unread[t] = "quit"
  BY <1>3 DEF TypeOK
<1>10. Crowd'
  <2>1. Cardinality(running') = Threads
    BY <1>3 DEF Crowd
  <2>2. \A x \in running' : \E m \in Polls : Holds(mail'[x], m)
    BY <1>3, <1>7, <1>8 DEF Crowd
  <2>3. ASSUME NEW t \in Sessions, Connection(t) \in running
        PROVE  unread'[t] # "quit" /\ \A m \in Closes : ~Holds(mail'[Connection(t)], m)
    BY <1>7, <1>8, <1>9, <2>3 DEF Crowd
  <2> QED
    BY <1>3, <2>1, <2>2, <2>3 DEF Crowd
<1>11. NothingHandled
  <2> SUFFICES ASSUME NEW x \in Actors \ running
               PROVE  Len(mail'[x]) >= Len(mail[x])
    BY DEF NothingHandled
  <2>1. Len(mail[x]) \in Nat
    BY LenProperties DEF TypeOK
  <2>2. CASE x = cmd
    <3>1. Len(mail'[x]) = Len(mail[x]) + 1
      BY <1>4, <2>2, AppendProperties DEF Messages
    <3> QED
      BY <2>1, <3>1
  <2>3. CASE x # cmd
    <3>1. mail'[x] = mail[x]
      BY <1>3, <1>4, <2>3
    <3> QED
      BY <2>1, <3>1
  <2> QED
    BY <2>2, <2>3
<1> QED
  BY <1>10, <1>11

\* A crowd stays one, and handles nothing else, until a client quits.
LEMMA CrowdStep ==
  ASSUME TypeOK, SchedInv, Crowd, [Next]_vars
  PROVE  (Crowd' \/ Quits) /\ NothingHandled
<1>1. CASE UNCHANGED vars
  <2>1. UNCHANGED <<mail, running, unread>>
    BY <1>1 DEF vars
  <2>2. NothingHandled
    <3> SUFFICES ASSUME NEW x \in Actors
                 PROVE  Len(mail[x]) >= Len(mail[x])
      BY <2>1 DEF NothingHandled
    <3>1. Len(mail[x]) \in Nat
      BY LenProperties DEF TypeOK
    <3> QED
      BY <3>1
  <2>3. Crowd'
    BY <2>1 DEF Crowd
  <2> QED
    BY <2>2, <2>3
<1>2. ASSUME NEW s \in Sessions, Connects(s) \/ Types(s)
      PROVE  (Crowd' \/ Quits) /\ NothingHandled
  <2>1. UNCHANGED <<mail, running>>
    BY <1>2 DEF Connects, Types
  <2>2. NothingHandled
    <3> SUFFICES ASSUME NEW x \in Actors
                 PROVE  Len(mail[x]) >= Len(mail[x])
      BY <2>1 DEF NothingHandled
    <3>1. Len(mail[x]) \in Nat
      BY LenProperties DEF TypeOK
    <3> QED
      BY <3>1
  <2> QED
    BY <2>1, <2>2, CrowdWaits
<1>3. ASSUME NEW a \in Actors, Step(a)
      PROVE  Crowd' /\ NothingHandled
  <2>1. \/ Leave(a) \/ ServerAccepts
        \/ \E s \in Sessions : PollLine(s) \/ Ends(s)
        \/ \E b \in Actors, in \in Messages, out \in Messages : Talk(a, b, in, out)
    BY <1>3, StepKinds DEF SchedInv
  <2>2. CASE ServerAccepts
    BY <2>2, CrowdAccepts
  <2>3. ASSUME NEW s \in Sessions, PollLine(s)
        PROVE  Crowd' /\ NothingHandled
    BY <2>3, CrowdReads
  <2>4. ASSUME NEW b \in Actors, NEW in \in Messages, NEW out \in Messages, Talk(a, b, in, out)
        PROVE  Crowd' /\ NothingHandled
    BY <2>4, CrowdTalks
  <2> QED
    BY <2>1, <2>2, <2>3, <2>4, CrowdRuns
<1> QED
  BY <1>1, <1>2, <1>3, CrowdRuns DEF Next

\* For every number of threads and of sessions: once the ServerActor and the
\* ConnectionActors that poll have all the threads, nobody else handles a message
\* until one of those clients quits (src/pmud/conf/pmud.caf, server_actor.h and
\* connection_actor.h send themselves the message they have just handled).
THEOREM CrowdKeepsThreads == Spec => CrowdStays
<1>1. TypeOK /\ SchedInv /\ (Sound)' /\ [Next]_vars =>
        [Crowded => /\ Crowded' \/ \E s \in Sessions : unread'[s] = "quit"
                    /\ \A a \in Actors \ running : Len(mail'[a]) >= Len(mail[a])]_vars
  <2> SUFFICES ASSUME TypeOK, SchedInv, Sound', [Next]_vars, Crowded
               PROVE  /\ Crowded' \/ \E s \in Sessions : unread'[s] = "quit"
                      /\ \A a \in Actors \ running : Len(mail'[a]) >= Len(mail[a])
    OBVIOUS
  <2>1. running \subseteq up /\ running' \subseteq up'
    BY DEF TypeOK, Sound, Threading
  <2>2. Crowd
    BY <2>1, CrowdedHolds
  <2>3. (Crowd' \/ Quits) /\ NothingHandled
    BY <2>2, CrowdStep
  <2>4. Crowd' => Crowded'
    BY <2>1, CrowdedHolds
  <2> QED
    BY <2>3, <2>4 DEF Quits, NothingHandled
<1>2. TypeOK /\ SchedInv /\ [Next]_vars => (Sound)'
  BY SoundStep
<1>3. Spec => [][Next]_vars
  BY PTL DEF Spec
<1> QED
  BY <1>1, <1>2, <1>3, SchedulerInvariant, PTL DEF CrowdStays
=============================================================================
