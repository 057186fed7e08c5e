------------------------------ MODULE Session ------------------------------
(***************************************************************************)
(* One user's session: the ConnectionActor that owns the socket, the       *)
(* CommandActor it spawns, and the two controllers the CommandActor        *)
(* drives, LoginController and DefaultController.  They share nothing and  *)
(* talk through mailboxes only.                                            *)
(*                                                                         *)
(* External (CAF 0.18.6): a mailbox is a FIFO queue, an actor handles one  *)
(* message at a time to completion, a message to an actor that has         *)
(* terminated is dropped, an exit message terminates its receiver and runs *)
(* the functors attached to it.                                            *)
(*                                                                         *)
(* Text is abstracted to the lines the handlers can tell apart; layout     *)
(* (banners, blank lines, telnet echo sequences) is left out, so that the  *)
(* emissions of one branch of a handler are a single ToUserEmit.  How      *)
(* bytes become lines is the subject of module LineInput; here a poll that *)
(* finds data obtains a break, a fragment without newline, "quit" or any   *)
(* line of Typed.                                                          *)
(*                                                                         *)
(* The socket's file descriptor belongs to this session until it is        *)
(* closed; that the number may then be given to another connection is the  *)
(* subject of module Server.                                               *)
(***************************************************************************)
EXTENDS Naturals, Sequences, FiniteSets

CONSTANTS
  Typed,      \* the lines the client can type, "quit" and "exit" aside
  Empty,      \* the empty line, also the initial value of a string
  Blank,      \* as many spaces as the password has characters
  MaxReads    \* bound: how many polls find data

\* A name that is not empty: the login compares names with nothing else.
Name == "name"

ASSUME LineAssumption == Empty # Blank /\ Empty # Name
ASSUME MaxReadsAssumption == MaxReads \in Nat

Actors == {"Connection", "Command", "Login", "Default"}

Lines == Typed \cup {Empty, Blank}

NameOf(line) == IF line = Empty THEN Empty ELSE Name

Prompts == {"enter username", "enter password", "confirm password", "pmud"}

\* What is written to the client.  SUPPRESS_ECHO_SEQUENCE goes out on its own
\* and with "mismatch", ENABLE_ECHO_SEQUENCE with "welcome".
Emissions == {"suppress echo", "welcome", "mismatch", "reply"}

NoArg == "none"

Messages ==
  [atom : {"PerformWelcome", "FromUserGetInput", "GoodbyeConnection", "exit",
           "LoginControllerStart", "LoginControllerEnd"}, arg : {NoArg}]
    \cup [atom : {"ToUserEmit"}, arg : Emissions]
    \cup [atom : {"ToUserPrompt"}, arg : Prompts]
    \cup [atom : {"OnUserInput"}, arg : Typed]

VARIABLES
  mbox,                 \* the mailbox of each actor
  status,               \* "none" before it is spawned, "up", "down"
  m_break_count,        \* ConnectionActor
  open,                 \* ConnectionActor: m_connection has not been closed
  registered,           \* ConnectionActor: entry in the actor registry
  m_active_controller,  \* CommandActor: "null", "Login" or "Default"
  username,             \* LoginController
  password,             \* LoginController
  recorded,             \* history: EventUserCreate messages sent
  welcomed,             \* the server has sent PerformWelcome
  hailed,               \* main has sent GoodbyeConnection (shutdown)
  echo,                 \* the client's terminal echoes what is typed
  screen,               \* history: the last prompt written to the socket
  reads,                \* history: polls that found data
  lines,                \* history: lines handed to the CommandActor
  prompts               \* history: ToUserPrompt messages handled

mailVars == <<mbox, status>>
connVars == <<m_break_count, open, registered, echo, screen, reads, lines,
              prompts>>
cmdVars == <<m_active_controller>>
loginVars == <<username, password, recorded>>
envVars == <<welcomed, hailed>>
vars == <<mailVars, connVars, cmdVars, loginVars, envVars>>
-----------------------------------------------------------------------------
(***************************************************************************)
(* Mailboxes.                                                              *)
(***************************************************************************)
Msg(atom) == [atom |-> atom, arg |-> NoArg]
Prompt(p) == [atom |-> "ToUserPrompt", arg |-> p]
Emit(e) == [atom |-> "ToUserEmit", arg |-> e]
Input(l) == [atom |-> "OnUserInput", arg |-> l]

Receives(self, atom) ==
  /\ status[self] = "up"
  /\ mbox[self] # <<>>
  /\ Head(mbox[self]).atom = atom

Arg(self) == Head(mbox[self]).arg

Consumed(self) == [mbox EXCEPT ![self] = Tail(@)]

\* box after msgs have been sent to dst: dropped unless dst is running.
Sent(box, dst, msgs) ==
  IF status[dst] = "up" THEN [box EXCEPT ![dst] = @ \o msgs] ELSE box

\* The handler of self takes its message and sends msgs to dst.
Handles(self, dst, msgs) ==
  /\ mbox' = Sent(Consumed(self), dst, msgs)
  /\ UNCHANGED status

\* An exit message ends self: the rest of its mailbox is discarded.
Terminates(self) ==
  /\ Receives(self, "exit")
  /\ status' = [status EXCEPT ![self] = "down"]
-----------------------------------------------------------------------------
(***************************************************************************)
(* The environment: the server welcomes the connection it has spawned,     *)
(* main says goodbye to every registered connection at shutdown.  That the *)
(* client has gone away is nothing the ConnectionActor can notice: for it  *)
(* recv gives 0, as PollNoData says.                                       *)
(***************************************************************************)
ServerWelcome ==
  /\ ~welcomed
  /\ welcomed' = TRUE
  /\ mbox' = Sent(mbox, "Connection", <<Msg("PerformWelcome")>>)
  /\ UNCHANGED <<status, connVars, cmdVars, loginVars, hailed>>

MainGoodbye ==
  /\ ~hailed
  /\ registered
  /\ hailed' = TRUE
  /\ mbox' = Sent(mbox, "Connection", <<Msg("GoodbyeConnection")>>)
  /\ UNCHANGED <<status, connVars, cmdVars, loginVars, welcomed>>

-----------------------------------------------------------------------------
(***************************************************************************)
(* ConnectionActor.                                                        *)
(***************************************************************************)
ConnPerformWelcome ==
  /\ Receives("Connection", "PerformWelcome")
  /\ Handles("Connection", "Command", <<Msg("PerformWelcome")>>)
  /\ UNCHANGED <<connVars, cmdVars, loginVars, envVars>>

ConnToUserEmit ==
  /\ Receives("Connection", "ToUserEmit")
  /\ echo' = IF open /\ Arg("Connection") # "reply"
               THEN Arg("Connection") = "welcome" ELSE echo
  /\ Handles("Connection", "Connection", <<>>)
  /\ UNCHANGED <<m_break_count, open, registered, screen, reads, lines, prompts,
                 cmdVars, loginVars, envVars>>

\* The prompt is lost when the socket has been closed; the result of
\* emit_prompt is ignored, and the actor polls in either case.
ConnToUserPrompt ==
  /\ Receives("Connection", "ToUserPrompt")
  /\ screen' = IF open THEN Arg("Connection") ELSE screen
  /\ prompts' = prompts + 1
  /\ Handles("Connection", "Connection", <<Msg("FromUserGetInput")>>)
  /\ UNCHANGED <<m_break_count, open, registered, echo, reads, lines,
                 cmdVars, loginVars, envVars>>

\* has_data() is false: nothing has arrived, the client is gone (recv gives
\* 0) or the socket is closed (recv gives -1).
PollNoData ==
  /\ Receives("Connection", "FromUserGetInput")
  /\ Handles("Connection", "Connection", <<Msg("FromUserGetInput")>>)
  /\ UNCHANGED <<connVars, cmdVars, loginVars, envVars>>

\* has_data() is true.  What the client sent before it dropped is still read.
PollFindsData ==
  /\ Receives("Connection", "FromUserGetInput")
  /\ open
  /\ reads < MaxReads
  /\ reads' = reads + 1
  /\ UNCHANGED <<open, registered, echo, screen, prompts, cmdVars,
                 loginVars, envVars>>

\* Mutant of PollBreak: the count is not capped at the second break.
PollBreakCountsOn ==
  /\ PollFindsData
  /\ m_break_count' = m_break_count + 1
  /\ Handles("Connection", "Connection",
             <<Msg(IF m_break_count = 0 THEN "FromUserGetInput"
                                        ELSE "GoodbyeConnection")>>)
  /\ UNCHANGED lines

\* read_from_user reports no bytes: a telnet command or a single ^D.
PollBreak ==
  /\ PollFindsData
  /\ m_break_count' = IF m_break_count = 0 THEN 1 ELSE m_break_count
  /\ Handles("Connection", "Connection",
             <<Msg(IF m_break_count = 0 THEN "FromUserGetInput"
                                        ELSE "GoodbyeConnection")>>)
  /\ UNCHANGED lines

\* Mutant of PollFragment: waits for the rest of the line without polling.
PollFragmentWaits ==
  /\ PollFindsData
  /\ m_break_count' = 0
  /\ Handles("Connection", "Connection", <<>>)
  /\ UNCHANGED lines

PollFragment ==
  /\ PollFindsData
  /\ m_break_count' = 0
  /\ Handles("Connection", "Connection", <<Msg("FromUserGetInput")>>)
  /\ UNCHANGED lines

PollQuit ==
  /\ PollFindsData
  /\ m_break_count' = 0
  /\ Handles("Connection", "Connection", <<Msg("GoodbyeConnection")>>)
  /\ UNCHANGED lines

\* Mutant of PollLine: hands the line over and leaves polling to the prompt.
PollLineStopsPolling(l) ==
  /\ PollFindsData
  /\ m_break_count' = 0
  /\ lines' = lines + 1
  /\ Handles("Connection", "Command", <<Input(l)>>)

PollLine(l) ==
  /\ PollFindsData
  /\ m_break_count' = 0
  /\ lines' = lines + 1
  /\ mbox' = Sent(Sent(Consumed("Connection"), "Command", <<Input(l)>>),
                  "Connection", <<Msg("FromUserGetInput")>>)
  /\ UNCHANGED status

\* m_connection is never set to -1, so a second goodbye closes it again.
ConnGoodbyeConnection ==
  /\ Receives("Connection", "GoodbyeConnection")
  /\ open' = FALSE
  /\ registered' = FALSE
  /\ Handles("Connection", "Connection", <<Msg("exit")>>)
  /\ UNCHANGED <<m_break_count, echo, screen, reads, lines, prompts,
                 cmdVars, loginVars, envVars>>

\* Mutant of ConnExit: no functor is attached.
ConnExitAlone ==
  /\ Terminates("Connection")
  /\ mbox' = [mbox EXCEPT !["Connection"] = <<>>]
  /\ UNCHANGED <<connVars, cmdVars, loginVars, envVars>>

\* The attached functor takes the CommandActor down too.
ConnExit ==
  /\ Terminates("Connection")
  /\ mbox' = Sent([mbox EXCEPT !["Connection"] = <<>>], "Command", <<Msg("exit")>>)
  /\ UNCHANGED <<connVars, cmdVars, loginVars, envVars>>
-----------------------------------------------------------------------------
(***************************************************************************)
(* CommandActor.                                                           *)
(***************************************************************************)

CmdPerformWelcome ==
  /\ Receives("Command", "PerformWelcome")
  /\ status' = [status EXCEPT !["Login"] = "up"]
  /\ m_active_controller' = "Login"
  /\ mbox' = [Consumed("Command") EXCEPT !["Login"] = <<Msg("LoginControllerStart")>>]
  /\ UNCHANGED <<connVars, loginVars, envVars>>

CmdOnUserInput ==
  /\ Receives("Command", "OnUserInput")
  /\ IF m_active_controller = "null"
       THEN Handles("Command", "Connection", <<Prompt("pmud")>>)
       ELSE Handles("Command", m_active_controller, <<Input(Arg("Command"))>>)
  /\ UNCHANGED <<connVars, cmdVars, loginVars, envVars>>

CmdToUserPrompt ==
  /\ Receives("Command", "ToUserPrompt")
  /\ Handles("Command", "Connection", <<Prompt(Arg("Command"))>>)
  /\ UNCHANGED <<connVars, cmdVars, loginVars, envVars>>

CmdToUserEmit ==
  /\ Receives("Command", "ToUserEmit")
  /\ Handles("Command", "Connection", <<Emit(Arg("Command"))>>)
  /\ UNCHANGED <<connVars, cmdVars, loginVars, envVars>>

\* Mutant of CmdLoginControllerEnd: the default controller does not take over.
CmdLoginControllerEndKeeps ==
  /\ Receives("Command", "LoginControllerEnd")
  /\ mbox' = Sent(Sent(Consumed("Command"), m_active_controller, <<Msg("exit")>>),
                  "Connection", <<Prompt("pmud")>>)
  /\ UNCHANGED <<status, connVars, cmdVars, loginVars, envVars>>

\* The active controller is told to exit and the default one takes over.
CmdLoginControllerEnd ==
  /\ Receives("Command", "LoginControllerEnd")
  /\ m_active_controller' = "Default"
  /\ mbox' = Sent(Sent(Consumed("Command"), m_active_controller, <<Msg("exit")>>),
                  "Connection", <<Prompt("pmud")>>)
  /\ UNCHANGED <<status, connVars, loginVars, envVars>>

\* The attached functor takes both controllers down.
CmdExit ==
  /\ Terminates("Command")
  /\ LET box == [mbox EXCEPT !["Command"] = <<>>]
     IN  mbox' = Sent(IF m_active_controller = "null" THEN box
                      ELSE Sent(box, m_active_controller, <<Msg("exit")>>),
                      "Default", <<Msg("exit")>>)
  /\ m_active_controller' = "null"
  /\ UNCHANGED <<connVars, loginVars, envVars>>
-----------------------------------------------------------------------------
(***************************************************************************)
(* LoginController.                                                        *)
(***************************************************************************)
LoginStart ==
  /\ Receives("Login", "LoginControllerStart")
  /\ Handles("Login", "Command", <<Prompt("enter username")>>)
  /\ UNCHANGED <<connVars, cmdVars, loginVars, envVars>>

\* Mutant of LoginTakesUsername: prompts before it suppresses the echo.
LoginPromptsFirst ==
  /\ Receives("Login", "OnUserInput")
  /\ username = Empty
  /\ username' = NameOf(Arg("Login"))
  /\ Handles("Login", "Command", <<Prompt("enter password"), Emit("suppress echo")>>)
  /\ UNCHANGED <<connVars, cmdVars, password, recorded, envVars>>

LoginTakesUsername ==
  /\ Receives("Login", "OnUserInput")
  /\ username = Empty
  /\ username' = NameOf(Arg("Login"))
  /\ Handles("Login", "Command", <<Emit("suppress echo"), Prompt("enter password")>>)
  /\ UNCHANGED <<connVars, cmdVars, password, recorded, envVars>>

LoginTakesPassword ==
  /\ Receives("Login", "OnUserInput")
  /\ username # Empty
  /\ password = Empty
  /\ password' = Arg("Login")
  /\ Handles("Login", "Command", <<Prompt("confirm password")>>)
  /\ UNCHANGED <<connVars, cmdVars, username, recorded, envVars>>

\* Mutant of LoginConfirmed: the password is not scrubbed.
LoginConfirmedUnscrubbed ==
  /\ Receives("Login", "OnUserInput")
  /\ username # Empty
  /\ password # Empty
  /\ password = Arg("Login")
  /\ recorded' = Append(recorded, [username |-> username, passphrase |-> password])
  /\ Handles("Login", "Command", <<Emit("welcome"), Msg("LoginControllerEnd")>>)
  /\ UNCHANGED <<connVars, cmdVars, username, password, envVars>>

\* hash_and_scrub_password overwrites the password with spaces; the event
\* carries the hash of what it was.
LoginConfirmed ==
  /\ Receives("Login", "OnUserInput")
  /\ username # Empty
  /\ password # Empty
  /\ password = Arg("Login")
  /\ recorded' = Append(recorded, [username |-> username, passphrase |-> password])
  /\ password' = Blank
  /\ Handles("Login", "Command", <<Emit("welcome"), Msg("LoginControllerEnd")>>)
  /\ UNCHANGED <<connVars, cmdVars, username, envVars>>

\* Mutant of LoginMismatch: complains and does not prompt.
LoginMismatchSilent ==
  /\ Receives("Login", "OnUserInput")
  /\ username # Empty
  /\ password # Empty
  /\ password # Arg("Login")
  /\ Handles("Login", "Command", <<Emit("mismatch")>>)
  /\ UNCHANGED <<connVars, cmdVars, loginVars, envVars>>

LoginMismatch ==
  /\ Receives("Login", "OnUserInput")
  /\ username # Empty
  /\ password # Empty
  /\ password # Arg("Login")
  /\ Handles("Login", "Command", <<Emit("mismatch"), Prompt("enter password")>>)
  /\ UNCHANGED <<connVars, cmdVars, loginVars, envVars>>

LoginExit ==
  /\ Terminates("Login")
  /\ mbox' = [mbox EXCEPT !["Login"] = <<>>]
  /\ UNCHANGED <<connVars, cmdVars, loginVars, envVars>>
-----------------------------------------------------------------------------
(***************************************************************************)
(* DefaultController.                                                      *)
(***************************************************************************)
DefaultOnUserInput ==
  /\ Receives("Default", "OnUserInput")
  /\ Handles("Default", "Command",
             IF Arg("Default") = Empty THEN <<Prompt("pmud")>>
                                       ELSE <<Emit("reply"), Prompt("pmud")>>)
  /\ UNCHANGED <<connVars, cmdVars, loginVars, envVars>>

DefaultExit ==
  /\ Terminates("Default")
  /\ mbox' = [mbox EXCEPT !["Default"] = <<>>]
  /\ UNCHANGED <<connVars, cmdVars, loginVars, envVars>>
-----------------------------------------------------------------------------
(***************************************************************************)
(* The specification.  The constructors have run: the ConnectionActor has  *)
(* spawned the CommandActor, which has spawned the DefaultController, and  *)
(* is in the registry.                                                     *)
(***************************************************************************)
Init ==
  /\ mbox = [a \in Actors |-> <<>>]
  /\ status = [a \in Actors |-> IF a = "Login" THEN "none" ELSE "up"]
  /\ m_break_count = 0
  /\ open = TRUE
  /\ registered = TRUE
  /\ m_active_controller = "null"
  /\ username = Empty
  /\ password = Empty
  /\ recorded = <<>>
  /\ welcomed = FALSE
  /\ hailed = FALSE
  /\ echo = TRUE
  /\ screen = NoArg
  /\ reads = 0
  /\ lines = 0
  /\ prompts = 0

Connection ==
  \/ ConnPerformWelcome
  \/ ConnToUserEmit
  \/ ConnToUserPrompt
  \/ PollNoData
  \/ PollBreak
  \/ PollFragment
  \/ PollQuit
  \/ \E l \in Typed : PollLine(l)
  \/ ConnGoodbyeConnection
  \/ ConnExit

Command ==
  \/ CmdPerformWelcome
  \/ CmdOnUserInput
  \/ CmdToUserPrompt
  \/ CmdToUserEmit
  \/ CmdLoginControllerEnd
  \/ CmdExit

Login ==
  \/ LoginStart
  \/ LoginTakesUsername
  \/ LoginTakesPassword
  \/ LoginConfirmed
  \/ LoginMismatch
  \/ LoginExit

Default == DefaultOnUserInput \/ DefaultExit

Environment == ServerWelcome \/ MainGoodbye

Next == Connection \/ Command \/ Login \/ Default \/ Environment

Spec == Init /\ [][Next]_vars

\* Every actor with mail is scheduled, and the server's handler, which has
\* just spawned the connection, reaches its send.  Client and main are free.
Fairness ==
  /\ WF_vars(Connection)
  /\ WF_vars(Command)
  /\ WF_vars(Login)
  /\ WF_vars(Default)
  /\ WF_vars(ServerWelcome)

FairSpec == Spec /\ Fairness
-----------------------------------------------------------------------------
(***************************************************************************)
(* Properties.                                                             *)
(***************************************************************************)
Accounts == [username : {Name}, passphrase : Lines \ {Empty}]

\* Every variable has its type; in particular each mailbox holds only messages
\* its protocol knows, and the controller in use is one that exists.
TypeOK ==
  /\ mbox \in [Actors -> Seq(Messages)]
  /\ status \in [Actors -> {"none", "up", "down"}]
  /\ m_break_count \in {0, 1}
  /\ open \in BOOLEAN /\ registered \in BOOLEAN /\ echo \in BOOLEAN
  /\ screen \in Prompts \cup {NoArg}
  /\ reads \in 0..MaxReads
  /\ lines \in Nat /\ prompts \in Nat
  /\ m_active_controller \in {"null", "Login", "Default"}
  /\ username \in {Empty, Name} /\ password \in Lines
  /\ recorded \in Seq(Accounts)
  /\ welcomed \in BOOLEAN /\ hailed \in BOOLEAN

HasIn(box, atom) == \E i \in DOMAIN box : box[i].atom = atom

Has(a, atom) == HasIn(mbox[a], atom)

Up(a) == status[a] = "up"

\* A goodbye has reached the connection: it is on its way down.
Closing == Has("Connection", "GoodbyeConnection") \/ Has("Connection", "exit")

\* A welcomed connection that is not closing never stops listening to its
\* client: a poll, or a message that will lead to one, is always under way
\* (nothing else would ever wake the ConnectionActor up again).
NeverDeaf ==
  Up("Connection") /\ ~Closing /\ welcomed =>
    \/ Has("Connection", "PerformWelcome") \/ Has("Command", "PerformWelcome")
    \/ Has("Login", "LoginControllerStart")
    \/ Has("Command", "ToUserPrompt") \/ Has("Connection", "ToUserPrompt")
    \/ Has("Connection", "FromUserGetInput")

\* The login has not been confirmed a second time.  A line of blanks, as long as
\* the password and typed before the login controller has ended, matches the
\* scrubbed password and does that.
Once == Len(recorded) <= 1

\* The controller the CommandActor forwards input to is running and has not
\* been told to exit: no line is sent to a dead actor, "help" gets its answer.  A
\* second confirmation of the login breaks this (see Once).
ActiveControllerAlive ==
  Up("Command") /\ m_active_controller # "null" =>
    Up(m_active_controller) /\ ~Has(m_active_controller, "exit")

\* Nothing but a second confirmation of the login, which ends the controller
\* that took over, leaves the CommandActor with a dead controller.
ControllerServes == Once => ActiveControllerAlive

\* Input reaches the CommandActor only when it has a controller for it: the
\* branch that prompts because there is none is dead code.
InputHasController == Has("Command", "OnUserInput") => m_active_controller # "null"

CountIn(box, atoms) == Cardinality({i \in DOMAIN box : box[i].atom \in atoms})

Count(a, atoms) == CountIn(mbox[a], atoms)

\* Messages that end in one prompt, somewhere between line and prompt.
Due == {"PerformWelcome", "LoginControllerStart", "OnUserInput", "LoginControllerEnd",
        "ToUserPrompt"}
Owed == Count("Connection", Due) + Count("Command", Due)
          + Count("Login", Due) + Count("Default", Due)

\* While the connection lives every line the user typed, and the welcome, is
\* answered by exactly one prompt or still has exactly one coming, whatever
\* controller is in charge and however the hand-over of the login controller
\* to the default one interleaves with typing; as long as the login has not been
\* confirmed a second time.
OnePromptPerLine ==
  Once /\ Up("Connection") => prompts + Owed = lines + (IF welcomed THEN 1 ELSE 0)

\* Each prompt starts a polling loop of its own and none of them ends before
\* the connection closes: the number of FromUserGetInput messages that
\* circulate in the ConnectionActor's mailbox is the number of prompts.
PollPerPrompt ==
  Up("Connection") /\ ~Closing => Count("Connection", {"FromUserGetInput"}) = prompts

\* Until the account is recorded nothing the user types at a password prompt
\* is echoed: the sequence that suppresses it reaches the client first.
PasswordsHidden ==
  screen \in {"enter password", "confirm password"} /\ recorded = <<>> => ~echo

\* The parts of the inductive invariant that carries these properties.
Single(box, atom) ==
  \A i, j \in DOMAIN box : box[i].atom = atom /\ box[j].atom = atom => i = j

FirstOnly(box, atom) == \A i \in DOMAIN box : box[i].atom = atom => i = 1

\* Only running actors have mail.
MailOnlyWhenUp == \A a \in Actors : ~Up(a) => mbox[a] = <<>>

\* The CommandActor lives as long as the connection does.
CommandServes == Up("Connection") => Up("Command") /\ ~Has("Command", "exit")

\* There is one welcome, and it precedes the login.
WelcomeOnce ==
  /\ ~welcomed \/ Has("Connection", "PerformWelcome") \/ Has("Command", "PerformWelcome")
       => status["Login"] = "none"
  /\ ~welcomed => ~Has("Connection", "PerformWelcome") /\ ~Has("Command", "PerformWelcome")
  /\ ~Has("Connection", "PerformWelcome") \/ ~Has("Command", "PerformWelcome")
  /\ Single(mbox["Connection"], "PerformWelcome")
  /\ Single(mbox["Command"], "PerformWelcome")

\* Nothing is asked, typed or recorded before the login controller exists.
LoginComesFirst ==
  status["Login"] = "none" =>
    /\ m_active_controller = "null"
    /\ recorded = <<>>
    /\ ~Has("Connection", "ToUserPrompt") /\ ~Has("Connection", "FromUserGetInput")
    /\ ~Has("Command", "ToUserPrompt") /\ ~Has("Command", "OnUserInput")
    /\ ~Has("Command", "LoginControllerEnd")
    /\ ~Has("Default", "OnUserInput")

\* The login ends with the account recorded; until then its controller is in
\* charge and alive.
HandOver ==
  /\ Up("Command") =>
       /\ status["Login"] # "none" => m_active_controller # "null"
       /\ m_active_controller = "Login" => Up("Login") /\ ~Has("Login", "exit")
       /\ m_active_controller = "Default" => recorded # <<>>
  /\ Has("Command", "LoginControllerEnd") => recorded # <<>>
  /\ Has("Login", "LoginControllerStart") => recorded = <<>>
  /\ FirstOnly(mbox["Login"], "LoginControllerStart")

\* Unless it is confirmed again the login ends once, and the controller it hands
\* over to is not told to exit.
EndsOnce ==
  Once =>
    /\ Up("Command") => Up("Default") /\ ~Has("Default", "exit")
    /\ Has("Command", "LoginControllerEnd") => m_active_controller = "Login"
    /\ Single(mbox["Command"], "LoginControllerEnd")

\* Until an account is recorded the password is one the user typed, or none yet;
\* then it is blanks, and the name stays that of the account.
Scrubbed ==
  /\ recorded = <<>> => password \in Typed \cup {Empty}
  /\ recorded # <<>> => password = Blank /\ username = recorded[1].username

SessionInv ==
  /\ MailOnlyWhenUp
  /\ CommandServes
  /\ WelcomeOnce
  /\ LoginComesFirst
  /\ HandOver
  /\ EndsOnce
  /\ Scrubbed
  /\ NeverDeaf

\* The session keeps the promise of module Registration.
Contract ==
  INSTANCE Registration WITH
    Names <- {Name},
    Passphrases <- Typed \ {Empty},
    None <- Empty,
    Scrub <- Blank,
    accounts <- recorded,
    chosen <- password,
    stage <- IF status["Command"] = "down" THEN "gone"
             ELSE IF m_active_controller = "Default" THEN "playing"
             ELSE "registering"
ContractSpec == Contract!Spec

\* The session comes to rest when the user has stopped typing (MaxReads makes him
\* stop): a goodbye, his own or main's, has ended all four actors, also in the
\* middle of a login; or the connection is open, nobody has said goodbye, and the
\* welcome and every line have had their prompt, unless the login has been
\* confirmed a second time.
SessionSettles ==
  <>[](\/ \A a \in Actors : ~Up(a)
       \/ Up("Connection") /\ ~Closing /\ (Once => prompts = lines + 1))
-----------------------------------------------------------------------------
(***************************************************************************)
(* What the program's own texts claim and the code does not do.            *)
(***************************************************************************)
Quiet == \A a \in Actors \ {"Connection"} : mbox[a] = <<>>
AllRead == \A i \in DOMAIN mbox["Connection"] :
             mbox["Connection"][i].atom = "FromUserGetInput"

=============================================================================
