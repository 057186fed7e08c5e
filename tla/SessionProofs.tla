--------------------------- MODULE SessionProofs ----------------------------
(***************************************************************************)
(* The safety of a session, proved for every set of lines a user can type  *)
(* that does not contain the blanks a password is scrubbed to, and for     *)
(* every number of reads.  The inductive invariant is SessionInv; what is  *)
(* owed to the user and what is hidden from him have invariants of their   *)
(* own (Counting, HiddenInv).                                              *)
(***************************************************************************)
EXTENDS Session, SharedLemmas

Boxes == [Actors -> Seq(Messages)]

\* A message taken from a mailbox is one of the protocol's messages.
LEMMA HeadIsMessage ==
  ASSUME mbox \in Boxes, NEW self \in Actors, mbox[self] # <<>>
  PROVE  Head(mbox[self]) \in Messages /\ Consumed(self) \in Boxes
<1>1. mbox[self] \in Seq(Messages)
  BY DEF Boxes
<1>2. Head(mbox[self]) \in Messages /\ Tail(mbox[self]) \in Seq(Messages)
  BY <1>1, HeadTailProperties
<1> QED
  BY <1>2 DEF Consumed, Boxes

\* Sending keeps the mailboxes well formed, whoever the receiver is.
LEMMA SentIsBox ==
  ASSUME NEW box \in Boxes, NEW dst, NEW msgs \in Seq(Messages)
  PROVE  Sent(box, dst, msgs) \in Boxes
<1>1. CASE dst \in Actors
  <2>1. box[dst] \o msgs \in Seq(Messages)
    BY <1>1, ConcatProperties DEF Boxes
  <2> QED
    BY <1>1, <2>1 DEF Sent, Boxes
<1>2. CASE dst \notin Actors
  <2>1. [box EXCEPT ![dst] = @ \o msgs] = box
    BY <1>2 DEF Boxes
  <2> QED
    BY <2>1 DEF Sent
<1> QED
  BY <1>1, <1>2

\* What the constructors of messages build are messages.
LEMMA MessageTypes ==
  /\ \A a \in {"PerformWelcome", "FromUserGetInput", "GoodbyeConnection", "exit",
               "LoginControllerStart", "LoginControllerEnd"} : Msg(a) \in Messages
  /\ \A p \in Prompts : Prompt(p) \in Messages
  /\ \A e \in Emissions : Emit(e) \in Messages
  /\ \A l \in Typed : Input(l) \in Messages
BY DEF Messages, Msg, Prompt, Emit, Input

\* The argument of a message is of the kind its atom says.
LEMMA ArgTypes ==
  ASSUME NEW m \in Messages
  PROVE  /\ m.atom = "OnUserInput" => m.arg \in Typed
         /\ m.atom = "ToUserPrompt" => m.arg \in Prompts
         /\ m.atom = "ToUserEmit" => m.arg \in Emissions
BY DEF Messages

-----------------------------------------------------------------------------
(***************************************************************************)
(* Type correctness.                                                       *)
(***************************************************************************)
\* The mailboxes after any handler hold messages of the protocol, and so do
\* the mailboxes when an actor has discarded its own.
LEMMA HandlerBoxes ==
  ASSUME mbox \in Boxes
  PROVE  /\ \A self, dst \in Actors, msgs \in Seq(Messages) :
              mbox[self] # <<>> => Sent(Consumed(self), dst, msgs) \in Boxes
         /\ \A self \in Actors : [mbox EXCEPT ![self] = <<>>] \in Boxes
<1>1. ASSUME NEW self \in Actors, NEW dst \in Actors, NEW msgs \in Seq(Messages),
             mbox[self] # <<>>
      PROVE  Sent(Consumed(self), dst, msgs) \in Boxes
  <2>1. Consumed(self) \in Boxes
    BY <1>1, HeadIsMessage
  <2> QED
    BY <2>1, SentIsBox
<1>2. ASSUME NEW self \in Actors
      PROVE  [mbox EXCEPT ![self] = <<>>] \in Boxes
  BY EmptySeq DEF Boxes
<1> QED
  BY <1>1, <1>2

\* The argument an actor receives is of the kind the message's atom says.
LEMMA ReceivedArg ==
  ASSUME mbox \in Boxes, NEW self \in Actors
  PROVE  /\ Receives(self, "OnUserInput") => Arg(self) \in Typed
         /\ Receives(self, "ToUserPrompt") => Arg(self) \in Prompts
         /\ Receives(self, "ToUserEmit") => Arg(self) \in Emissions
<1>1. mbox[self] # <<>> => Head(mbox[self]) \in Messages
  BY HeadIsMessage
<1> QED
  BY <1>1, ArgTypes DEF Receives, Arg

\* The invariant TypeOK holds in every reachable state, for every set of lines
\* and every bound on reads.
THEOREM TypeCorrect == Spec => []TypeOK
<1> USE DEF Actors
<1>1. Init => TypeOK
  <2> SUFFICES ASSUME Init
               PROVE  TypeOK
    OBVIOUS
  <2>1. mbox \in [Actors -> Seq(Messages)]
    BY EmptySeq DEF Init
  <2>2. recorded \in Seq(Accounts)
    BY EmptySeq DEF Init
  <2>3. /\ open \in BOOLEAN /\ registered \in BOOLEAN /\ echo \in BOOLEAN
        /\ welcomed \in BOOLEAN /\ hailed \in BOOLEAN
    BY Zenon DEF Init
  <2> QED
    BY <2>1, <2>2, <2>3, MaxReadsAssumption DEF Init, TypeOK, Lines
<1>2. TypeOK /\ [Next]_vars => TypeOK'
  <2> SUFFICES ASSUME TypeOK, [Next]_vars
               PROVE  TypeOK'
    OBVIOUS
  <2> USE DEF connVars, cmdVars, loginVars, envVars
  <2>b. mbox \in Boxes
    BY DEF TypeOK, Boxes
  <2>h. \A self, dst \in Actors, msgs \in Seq(Messages) :
          mbox[self] # <<>> => Sent(Consumed(self), dst, msgs) \in Boxes
    BY <2>b, HandlerBoxes
  <2>m. /\ <<>> \in Seq(Messages)
        /\ \A m \in Messages : <<m>> \in Seq(Messages)
        /\ \A m, n \in Messages : <<m, n>> \in Seq(Messages)
    OBVIOUS
  <2>1. CASE ServerWelcome
    <3>1. mbox' \in Boxes
      BY <2>1, <2>b, <2>m, MessageTypes, SentIsBox DEF ServerWelcome
    <3> QED
      BY <2>1, <3>1 DEF ServerWelcome, TypeOK, Boxes
  <2>2. CASE MainGoodbye
    <3>1. mbox' \in Boxes
      BY <2>2, <2>b, <2>m, MessageTypes, SentIsBox DEF MainGoodbye
    <3> QED
      BY <2>2, <3>1 DEF MainGoodbye, TypeOK, Boxes
  <2>3. CASE ConnPerformWelcome
    <3>1. mbox' \in Boxes
      BY <2>3, <2>h, <2>m, MessageTypes DEF ConnPerformWelcome, Handles, Receives
    <3> QED
      BY <2>3, <3>1 DEF ConnPerformWelcome, Handles, TypeOK, Boxes
  <2>4. CASE ConnToUserEmit
    <3>1. mbox' \in Boxes
      BY <2>4, <2>h, <2>m DEF ConnToUserEmit, Handles, Receives
    <3> QED
      BY <2>4, <3>1 DEF ConnToUserEmit, Handles, TypeOK, Boxes
  <2>5. CASE ConnToUserPrompt
    <3>1. mbox' \in Boxes
      BY <2>5, <2>h, <2>m, MessageTypes DEF ConnToUserPrompt, Handles, Receives
    <3>2. Arg("Connection") \in Prompts
      BY <2>5, <2>b, ReceivedArg DEF ConnToUserPrompt
    <3> QED
      BY <2>5, <3>1, <3>2 DEF ConnToUserPrompt, Handles, TypeOK, Boxes
  <2>6. CASE PollNoData
    <3>1. mbox' \in Boxes
      BY <2>6, <2>h, <2>m, MessageTypes DEF PollNoData, Handles, Receives
    <3> QED
      BY <2>6, <3>1 DEF PollNoData, Handles, TypeOK, Boxes
  <2>7. CASE PollBreak
    <3>1. mbox' \in Boxes
      BY <2>7, <2>h, <2>m, MessageTypes DEF PollBreak, PollFindsData, Handles, Receives
    <3> QED
      BY <2>7, <3>1, MaxReadsAssumption DEF PollBreak, PollFindsData, Handles, TypeOK, Boxes
  <2>8. CASE PollFragment
    <3>1. mbox' \in Boxes
      BY <2>8, <2>h, <2>m, MessageTypes DEF PollFragment, PollFindsData, Handles, Receives
    <3> QED
      BY <2>8, <3>1, MaxReadsAssumption DEF PollFragment, PollFindsData, Handles, TypeOK, Boxes
  <2>9. CASE PollQuit
    <3>1. mbox' \in Boxes
      BY <2>9, <2>h, <2>m, MessageTypes DEF PollQuit, PollFindsData, Handles, Receives
    <3> QED
      BY <2>9, <3>1, MaxReadsAssumption DEF PollQuit, PollFindsData, Handles, TypeOK, Boxes
  <2>10. ASSUME NEW l \in Typed, PollLine(l)
         PROVE  TypeOK'
    <3>1. Sent(Consumed("Connection"), "Command", <<Input(l)>>) \in Boxes
      BY <2>10, <2>h, <2>m, MessageTypes DEF PollLine, PollFindsData, Receives
    <3>2. mbox' \in Boxes
      BY <2>10, <3>1, <2>m, MessageTypes, SentIsBox DEF PollLine
    <3> QED
      BY <2>10, <3>2, MaxReadsAssumption DEF PollLine, PollFindsData, TypeOK, Boxes
  <2>11. CASE ConnGoodbyeConnection
    <3>1. mbox' \in Boxes
      BY <2>11, <2>h, <2>m, MessageTypes DEF ConnGoodbyeConnection, Handles, Receives
    <3>2. open' \in BOOLEAN /\ registered' \in BOOLEAN
      BY <2>11, Zenon DEF ConnGoodbyeConnection
    <3> QED
      BY <2>11, <3>1, <3>2 DEF ConnGoodbyeConnection, Handles, TypeOK, Boxes
  <2>12. CASE ConnExit
    <3>1. [mbox EXCEPT !["Connection"] = <<>>] \in Boxes
      BY <2>b, HandlerBoxes
    <3>2. mbox' \in Boxes
      BY <2>12, <3>1, <2>m, MessageTypes, SentIsBox DEF ConnExit
    <3> QED
      BY <2>12, <3>2 DEF ConnExit, Terminates, TypeOK, Boxes
  <2>13. CASE CmdPerformWelcome
    <3>1. Consumed("Command") \in Boxes
      BY <2>13, <2>b, HeadIsMessage DEF CmdPerformWelcome, Receives
    <3>2. <<Msg("LoginControllerStart")>> \in Seq(Messages)
      BY <2>m, MessageTypes
    <3>3. mbox' \in Boxes
      BY <2>13, <3>1, <3>2 DEF CmdPerformWelcome, Boxes
    <3> QED
      BY <2>13, <3>3 DEF CmdPerformWelcome, TypeOK, Boxes
  <2>14. CASE CmdOnUserInput
    <3>1. <<Prompt("pmud")>> \in Seq(Messages)
      BY <2>m, MessageTypes DEF Prompts
    <3>2. Arg("Command") \in Typed
      BY <2>14, <2>b, ReceivedArg DEF CmdOnUserInput
    <3>3. <<Input(Arg("Command"))>> \in Seq(Messages)
      BY <3>2, <2>m, MessageTypes
    <3>4. mbox' \in Boxes
      BY <2>14, <2>h, <3>1, <3>3 DEF CmdOnUserInput, Handles, Receives, TypeOK
    <3> QED
      BY <2>14, <3>4 DEF CmdOnUserInput, Handles, TypeOK, Boxes
  <2>15. CASE CmdToUserPrompt
    <3>1. Arg("Command") \in Prompts
      BY <2>15, <2>b, ReceivedArg DEF CmdToUserPrompt
    <3>2. mbox' \in Boxes
      BY <2>15, <3>1, <2>h, <2>m, MessageTypes DEF CmdToUserPrompt, Handles, Receives
    <3> QED
      BY <2>15, <3>2 DEF CmdToUserPrompt, Handles, TypeOK, Boxes
  <2>16. CASE CmdToUserEmit
    <3>1. Arg("Command") \in Emissions
      BY <2>16, <2>b, ReceivedArg DEF CmdToUserEmit
    <3>2. mbox' \in Boxes
      BY <2>16, <3>1, <2>h, <2>m, MessageTypes DEF CmdToUserEmit, Handles, Receives
    <3> QED
      BY <2>16, <3>2 DEF CmdToUserEmit, Handles, TypeOK, Boxes
  <2>17. CASE CmdLoginControllerEnd
    <3>1. Consumed("Command") \in Boxes
      BY <2>17, <2>b, HeadIsMessage DEF CmdLoginControllerEnd, Receives
    <3>2. Sent(Consumed("Command"), m_active_controller, <<Msg("exit")>>) \in Boxes
      BY <3>1, <2>m, MessageTypes, SentIsBox
    <3>3. mbox' \in Boxes
      BY <2>17, <3>2, <2>m, MessageTypes, SentIsBox DEF CmdLoginControllerEnd, Prompts
    <3> QED
      BY <2>17, <3>3 DEF CmdLoginControllerEnd, TypeOK, Boxes
  <2>18. CASE CmdExit
    <3> DEFINE box == [mbox EXCEPT !["Command"] = <<>>]
               told == IF m_active_controller = "null" THEN box
                       ELSE Sent(box, m_active_controller, <<Msg("exit")>>)
    <3>1. box \in Boxes
      BY <2>b, HandlerBoxes
    <3>2. <<Msg("exit")>> \in Seq(Messages)
      BY <2>m, MessageTypes
    <3>3. told \in Boxes
      BY <3>1, <3>2, SentIsBox
    <3>4. mbox' = Sent(told, "Default", <<Msg("exit")>>)
      BY <2>18 DEF CmdExit
    <3>5. mbox' \in Boxes
      BY <3>2, <3>3, <3>4, SentIsBox
    <3> QED
      BY <2>18, <3>5 DEF CmdExit, Terminates, TypeOK, Boxes
  <2>19. CASE LoginStart
    <3>1. mbox' \in Boxes
      BY <2>19, <2>h, <2>m, MessageTypes DEF LoginStart, Handles, Receives, Prompts
    <3> QED
      BY <2>19, <3>1 DEF LoginStart, Handles, TypeOK, Boxes
  <2>20. ASSUME Receives("Login", "OnUserInput")
         PROVE  Arg("Login") \in Lines
    BY <2>20, <2>b, ReceivedArg DEF Lines
  <2>21. CASE LoginTakesUsername
    <3>1. mbox' \in Boxes
      BY <2>21, <2>h, <2>m, MessageTypes
      DEF LoginTakesUsername, Handles, Receives, Prompts, Emissions
    <3> QED
      BY <2>21, <2>20, <3>1 DEF LoginTakesUsername, Handles, TypeOK, Boxes, NameOf
  <2>22. CASE LoginTakesPassword
    <3>1. mbox' \in Boxes
      BY <2>22, <2>h, <2>m, MessageTypes DEF LoginTakesPassword, Handles, Receives, Prompts
    <3> QED
      BY <2>22, <2>20, <3>1 DEF LoginTakesPassword, Handles, TypeOK, Boxes
  <2>23. CASE LoginConfirmed
    <3>1. mbox' \in Boxes
      BY <2>23, <2>h, <2>m, MessageTypes DEF LoginConfirmed, Handles, Receives, Emissions
    <3>2. [username |-> username, passphrase |-> password] \in Accounts
      BY <2>23 DEF LoginConfirmed, Accounts, TypeOK
    <3>3. recorded' \in Seq(Accounts)
      BY <2>23, <3>2, AppendProperties DEF LoginConfirmed, TypeOK
    <3> QED
      BY <2>23, <3>1, <3>3 DEF LoginConfirmed, Handles, TypeOK, Boxes, Lines
  <2>24. CASE LoginMismatch
    <3>1. mbox' \in Boxes
      BY <2>24, <2>h, <2>m, MessageTypes
      DEF LoginMismatch, Handles, Receives, Prompts, Emissions
    <3> QED
      BY <2>24, <3>1 DEF LoginMismatch, Handles, TypeOK, Boxes
  <2>25. CASE LoginExit
    <3>1. mbox' \in Boxes
      BY <2>25, <2>b, HandlerBoxes DEF LoginExit
    <3> QED
      BY <2>25, <3>1 DEF LoginExit, Terminates, TypeOK, Boxes
  <2>26. CASE DefaultOnUserInput
    <3>1. mbox' \in Boxes
      BY <2>26, <2>h, <2>m, MessageTypes
      DEF DefaultOnUserInput, Handles, Receives, Prompts, Emissions
    <3> QED
      BY <2>26, <3>1 DEF DefaultOnUserInput, Handles, TypeOK, Boxes
  <2>27. CASE DefaultExit
    <3>1. mbox' \in Boxes
      BY <2>27, <2>b, HandlerBoxes DEF DefaultExit
    <3> QED
      BY <2>27, <3>1 DEF DefaultExit, Terminates, TypeOK, Boxes
  <2>28. CASE UNCHANGED vars
    BY <2>28 DEF TypeOK, vars, mailVars
  <2> QED
    BY <2>1, <2>2, <2>3, <2>4, <2>5, <2>6, <2>7, <2>8, <2>9, <2>10, <2>11,
       <2>12, <2>13, <2>14, <2>15, <2>16, <2>17, <2>18, <2>19, <2>21, <2>22, <2>23,
       <2>24, <2>25, <2>26, <2>27, <2>28
    DEF Next, Connection, Command, Login, Default, Environment
<1> QED
  BY <1>1, <1>2, PTL DEF Spec
-----------------------------------------------------------------------------
(***************************************************************************)
(* The inductive invariant.                                                *)
(***************************************************************************)
\* What a mailbox holds after its first message has been taken.
LEMMA TailHas ==
  ASSUME NEW s \in Seq(Messages), s # <<>>, NEW x
  PROVE  /\ HasIn(Tail(s), x) => HasIn(s, x)
         /\ HasIn(s, x) /\ Head(s).atom # x => HasIn(Tail(s), x)
         /\ HasIn(s, Head(s).atom)
         /\ Single(s, x) => Single(Tail(s), x)
         /\ Single(s, x) /\ Head(s).atom = x => ~HasIn(Tail(s), x)
         /\ FirstOnly(s, x) => ~HasIn(Tail(s), x) /\ FirstOnly(Tail(s), x)
<1>1. /\ Len(s) \in Nat /\ Len(s) > 0
      /\ Tail(s) \in Seq(Messages)
      /\ Len(Tail(s)) = Len(s) - 1
      /\ \A i \in 1..Len(Tail(s)) : Tail(s)[i] = s[i + 1]
      /\ Head(s) = s[1]
  BY HeadTailProperties, EmptySeq, LenProperties
<1>2. DOMAIN s = 1..Len(s) /\ DOMAIN Tail(s) = 1..(Len(s) - 1)
  BY <1>1
<1>3. \A i \in 2..Len(s) : i - 1 \in DOMAIN Tail(s) /\ Tail(s)[i - 1] = s[i]
  BY <1>1, <1>2
<1>4. \A i \in DOMAIN Tail(s) : i + 1 \in DOMAIN s /\ i + 1 # 1 /\ Tail(s)[i] = s[i + 1]
  BY <1>1, <1>2
<1>5. HasIn(Tail(s), x) => HasIn(s, x)
  BY <1>4 DEF HasIn
<1>6. HasIn(s, x) /\ Head(s).atom # x => HasIn(Tail(s), x)
  <2> SUFFICES ASSUME NEW i \in DOMAIN s, s[i].atom = x, Head(s).atom # x
               PROVE  HasIn(Tail(s), x)
    BY DEF HasIn
  <2>1. i \in 2..Len(s)
    BY <1>1, <1>2
  <2> QED
    BY <1>3, <2>1 DEF HasIn
<1>7. HasIn(s, Head(s).atom)
  BY <1>1, <1>2 DEF HasIn
<1>8. Single(s, x) => Single(Tail(s), x)
  <2> SUFFICES ASSUME Single(s, x),
                      NEW i \in DOMAIN Tail(s), NEW j \in DOMAIN Tail(s),
                      Tail(s)[i].atom = x, Tail(s)[j].atom = x
               PROVE  i = j
    BY DEF Single
  <2>1. i + 1 = j + 1
    BY <1>4 DEF Single
  <2> QED
    BY <1>2, <1>1, <2>1
<1>9. Single(s, x) /\ Head(s).atom = x => ~HasIn(Tail(s), x)
  BY <1>1, <1>2, <1>4 DEF HasIn, Single
<1>10. FirstOnly(s, x) => ~HasIn(Tail(s), x) /\ FirstOnly(Tail(s), x)
  BY <1>4 DEF HasIn, FirstOnly
<1> QED
  BY <1>5, <1>6, <1>7, <1>8, <1>9, <1>10

\* What a mailbox holds after messages have been added.
LEMMA ConcatHas ==
  ASSUME NEW s \in Seq(Messages), NEW t \in Seq(Messages), NEW x
  PROVE  /\ HasIn(s \o t, x) <=> HasIn(s, x) \/ HasIn(t, x)
         /\ Single(s, x) /\ ~HasIn(t, x) => Single(s \o t, x)
         /\ ~HasIn(s, x) /\ Single(t, x) => Single(s \o t, x)
         /\ FirstOnly(s, x) /\ ~HasIn(t, x) => FirstOnly(s \o t, x)
<1>1. /\ s \o t \in Seq(Messages)
      /\ Len(s) \in Nat /\ Len(t) \in Nat
      /\ Len(s \o t) = Len(s) + Len(t)
      /\ \A i \in 1..(Len(s) + Len(t)) :
           (s \o t)[i] = IF i <= Len(s) THEN s[i] ELSE t[i - Len(s)]
  BY ConcatProperties, LenProperties
<1>2. /\ DOMAIN s = 1..Len(s) /\ DOMAIN t = 1..Len(t)
      /\ DOMAIN (s \o t) = 1..(Len(s) + Len(t))
  BY <1>1
<1>3. \A i \in DOMAIN s : i \in DOMAIN (s \o t) /\ (s \o t)[i] = s[i]
  BY <1>1, <1>2
<1>4. \A i \in DOMAIN t :
        i + Len(s) \in DOMAIN (s \o t) /\ (s \o t)[i + Len(s)] = t[i]
  BY <1>1, <1>2
<1>5. \A i \in DOMAIN (s \o t) :
        \/ i \in DOMAIN s /\ (s \o t)[i] = s[i]
        \/ i - Len(s) \in DOMAIN t /\ (s \o t)[i] = t[i - Len(s)]
  BY <1>1, <1>2
<1>6. HasIn(s \o t, x) <=> HasIn(s, x) \/ HasIn(t, x)
  <2>1. HasIn(s, x) => HasIn(s \o t, x)
    BY <1>3 DEF HasIn
  <2>2. HasIn(t, x) => HasIn(s \o t, x)
    BY <1>4 DEF HasIn
  <2>3. HasIn(s \o t, x) => HasIn(s, x) \/ HasIn(t, x)
    BY <1>5 DEF HasIn
  <2> QED
    BY <2>1, <2>2, <2>3
<1>7. Single(s, x) /\ ~HasIn(t, x) => Single(s \o t, x)
  BY <1>5 DEF HasIn, Single
<1>8. ~HasIn(s, x) /\ Single(t, x) => Single(s \o t, x)
  <2> SUFFICES ASSUME ~HasIn(s, x), Single(t, x),
                      NEW i \in DOMAIN (s \o t), NEW j \in DOMAIN (s \o t),
                      (s \o t)[i].atom = x, (s \o t)[j].atom = x
               PROVE  i = j
    BY DEF Single
  <2>1. /\ i - Len(s) \in DOMAIN t /\ (s \o t)[i] = t[i - Len(s)]
        /\ j - Len(s) \in DOMAIN t /\ (s \o t)[j] = t[j - Len(s)]
    BY <1>5 DEF HasIn
  <2>2. i - Len(s) = j - Len(s)
    BY <2>1 DEF Single
  <2> QED
    BY <1>1, <1>2, <2>2
<1>9. FirstOnly(s, x) /\ ~HasIn(t, x) => FirstOnly(s \o t, x)
  BY <1>5 DEF HasIn, FirstOnly
<1> QED
  BY <1>6, <1>7, <1>8, <1>9

\* What the short lists of messages hold that handlers send.
LEMMA ListHas ==
  ASSUME NEW x
  PROVE  /\ ~HasIn(<<>>, x) /\ Single(<<>>, x)
         /\ \A m : (HasIn(<<m>>, x) <=> m.atom = x) /\ Single(<<m>>, x)
         /\ \A m, n : HasIn(<<m, n>>, x) <=> m.atom = x \/ n.atom = x
         /\ \A m, n : m.atom # x \/ n.atom # x => Single(<<m, n>>, x)
BY DEF HasIn, Single
-----------------------------------------------------------------------------
(***************************************************************************)
(* Mailboxes seen as sets of atoms.  sent is a set of pairs of a receiver  *)
(* and an atom.                                                            *)
(***************************************************************************)
Atoms == {"PerformWelcome", "FromUserGetInput", "GoodbyeConnection", "exit",
          "LoginControllerStart", "LoginControllerEnd", "ToUserEmit",
          "ToUserPrompt", "OnUserInput"}

\* box2 is box after the messages sent, to the receivers that are running.
Grown(box, box2, sent) ==
  \A a \in Actors, x \in Atoms :
    /\ HasIn(box2[a], x) <=> HasIn(box[a], x) \/ (<<a, x>> \in sent /\ Up(a))
    /\ Single(box[a], x) /\ (<<a, x>> \in sent => ~HasIn(box[a], x)) => Single(box2[a], x)
    /\ FirstOnly(box[a], x) /\ <<a, x>> \notin sent => FirstOnly(box2[a], x)
    /\ ~Up(a) => box2[a] = box[a]

\* Sending a list to one receiver.
LEMMA GrownList ==
  ASSUME NEW box \in Boxes, NEW dst \in Actors, NEW msgs \in Seq(Messages), NEW sent,
         \A x \in Atoms : Single(msgs, x),
         \A a \in Actors, x \in Atoms : <<a, x>> \in sent <=> a = dst /\ HasIn(msgs, x)
  PROVE  Grown(box, Sent(box, dst, msgs), sent)
<1> DEFINE box2 == Sent(box, dst, msgs)
<1> SUFFICES ASSUME NEW a \in Actors, NEW x \in Atoms
    PROVE /\ HasIn(box2[a], x) <=> HasIn(box[a], x) \/ (<<a, x>> \in sent /\ Up(a))
          /\ Single(box[a], x) /\ (<<a, x>> \in sent => ~HasIn(box[a], x))
               => Single(box2[a], x)
          /\ FirstOnly(box[a], x) /\ <<a, x>> \notin sent => FirstOnly(box2[a], x)
          /\ ~Up(a) => box2[a] = box[a]
  BY DEF Grown
<1>1. box[a] \in Seq(Messages)
  BY DEF Boxes
<1>2. CASE a = dst /\ Up(dst)
  <2>1. box2[a] = box[a] \o msgs
    BY <1>2 DEF Sent, Up, Boxes
  <2> HIDE DEF box2
  <2> QED
    BY <1>1, <1>2, <2>1, ConcatHas
<1>3. CASE ~(a = dst /\ Up(dst))
  <2>1. box2[a] = box[a]
    BY <1>3 DEF Sent, Up, Boxes
  <2> HIDE DEF box2
  <2> QED
    BY <1>3, <2>1
<1> QED
  BY <1>2, <1>3

\* Sending nothing.
LEMMA GrownNone ==
  ASSUME NEW box \in Boxes, NEW dst \in Actors
  PROVE  Grown(box, Sent(box, dst, <<>>), {})
<1>1. <<>> \in Seq(Messages) /\ \A x \in Atoms : ~HasIn(<<>>, x) /\ Single(<<>>, x)
  BY EmptySeq, ListHas
<1> QED
  BY <1>1, GrownList

\* Sending one message.
LEMMA GrownOne ==
  ASSUME NEW box \in Boxes, NEW dst \in Actors, NEW m \in Messages
  PROVE  Grown(box, Sent(box, dst, <<m>>), {<<dst, m.atom>>})
<1>1. <<m>> \in Seq(Messages)
  OBVIOUS
<1>2. \A x \in Atoms : (HasIn(<<m>>, x) <=> x = m.atom) /\ Single(<<m>>, x)
  BY ListHas
<1> QED
  BY <1>1, <1>2, GrownList

\* Sending two different messages to one receiver.
LEMMA GrownTwo ==
  ASSUME NEW box \in Boxes, NEW dst \in Actors, NEW m \in Messages, NEW n \in Messages,
         m.atom # n.atom
  PROVE  Grown(box, Sent(box, dst, <<m, n>>), {<<dst, m.atom>>, <<dst, n.atom>>})
<1>1. <<m, n>> \in Seq(Messages)
  OBVIOUS
<1>2. \A x \in Atoms : /\ HasIn(<<m, n>>, x) <=> x = m.atom \/ x = n.atom
                       /\ Single(<<m, n>>, x)
  BY ListHas
<1> QED
  BY <1>1, <1>2, GrownList

\* Sending a message to one actor and then another message to another.
LEMMA GrownBoth ==
  ASSUME NEW box \in Boxes, NEW d1 \in Actors, NEW d2 \in Actors,
         NEW m \in Messages, NEW n \in Messages, d1 # d2
  PROVE  Grown(box, Sent(Sent(box, d1, <<m>>), d2, <<n>>), {<<d1, m.atom>>, <<d2, n.atom>>})
<1> DEFINE box1 == Sent(box, d1, <<m>>)
           box2 == Sent(box1, d2, <<n>>)
<1>1. box1 \in Boxes
  <2>1. <<m>> \in Seq(Messages)
    OBVIOUS
  <2> QED
    BY <2>1, SentIsBox
<1>2. Grown(box, box1, {<<d1, m.atom>>})
  BY GrownOne
<1> HIDE DEF box1
<1>3. Grown(box1, box2, {<<d2, n.atom>>})
  BY <1>1, GrownOne
<1> HIDE DEF box2
<1>4. Grown(box, box2, {<<d1, m.atom>>, <<d2, n.atom>>})
  BY <1>2, <1>3 DEF Grown
<1> QED
  BY <1>4 DEF box1, box2

\* self has taken its message and the messages sent are in the mailboxes.
Delivered(self, atom, sent) ==
  /\ Has(self, atom) /\ Up(self)
  /\ \A a \in Actors, x \in Atoms :
       /\ HasIn(mbox'[a], x) => Has(a, x) \/ (<<a, x>> \in sent /\ Up(a))
       /\ Has(a, x) /\ (a = self => x # atom) => HasIn(mbox'[a], x)
       /\ <<a, x>> \in sent /\ Up(a) => HasIn(mbox'[a], x)
       /\ Single(mbox[a], x) /\ (<<a, x>> \in sent => ~Has(a, x)) => Single(mbox'[a], x)
       /\ FirstOnly(mbox[a], x) /\ <<a, x>> \notin sent =>
            FirstOnly(mbox'[a], x) /\ (a = self => ~HasIn(mbox'[a], x))
       /\ ~Up(a) => mbox'[a] = mbox[a]
  /\ Single(mbox[self], atom) /\ <<self, atom>> \notin sent => ~HasIn(mbox'[self], atom)

\* Taking a message and then sending some delivers them.
LEMMA HandlerDelivers ==
  ASSUME mbox \in Boxes, NEW self \in Actors, NEW atom \in Atoms, Receives(self, atom),
         NEW sent, Grown(Consumed(self), mbox', sent)
  PROVE  Delivered(self, atom, sent)
<1> DEFINE box == Consumed(self)
<1>1. mbox[self] \in Seq(Messages) /\ mbox[self] # <<>> /\ Head(mbox[self]).atom = atom
  BY DEF Boxes, Receives
<1>2. box[self] = Tail(mbox[self]) /\ \A a \in Actors \ {self} : box[a] = mbox[a]
  BY DEF Consumed, Boxes
<1>3. Grown(box, mbox', sent)
  OBVIOUS
<1> HIDE DEF box
<1>4. \A x : /\ HasIn(box[self], x) => HasIn(mbox[self], x)
             /\ HasIn(mbox[self], x) /\ x # atom => HasIn(box[self], x)
             /\ Single(mbox[self], x) => Single(box[self], x)
             /\ Single(mbox[self], x) /\ x = atom => ~HasIn(box[self], x)
             /\ FirstOnly(mbox[self], x) => ~HasIn(box[self], x) /\ FirstOnly(box[self], x)
  BY <1>1, <1>2, TailHas
<1>5. HasIn(mbox[self], atom)
  BY <1>1, TailHas
<1>6. Has(self, atom) /\ Up(self)
  BY <1>5 DEF Has, Receives, Up
<1>7. ASSUME NEW a \in Actors, NEW x \in Atoms
      PROVE  /\ HasIn(mbox'[a], x) => Has(a, x) \/ (<<a, x>> \in sent /\ Up(a))
             /\ Has(a, x) /\ (a = self => x # atom) => HasIn(mbox'[a], x)
             /\ <<a, x>> \in sent /\ Up(a) => HasIn(mbox'[a], x)
             /\ Single(mbox[a], x) /\ (<<a, x>> \in sent => ~Has(a, x))
                  => Single(mbox'[a], x)
             /\ FirstOnly(mbox[a], x) /\ <<a, x>> \notin sent =>
                  FirstOnly(mbox'[a], x) /\ (a = self => ~HasIn(mbox'[a], x))
             /\ ~Up(a) => mbox'[a] = mbox[a]
  <2>1. CASE a = self
    BY <1>3, <1>4, <1>6, <2>1 DEF Grown, Has
  <2>2. CASE a # self
    BY <1>2, <1>3, <2>2 DEF Grown, Has
  <2> QED
    BY <2>1, <2>2
<1>8. Single(mbox[self], atom) /\ <<self, atom>> \notin sent => ~HasIn(mbox'[self], atom)
  BY <1>3, <1>4 DEF Grown
<1> QED
  BY <1>6, <1>7, <1>8 DEF Delivered
-----------------------------------------------------------------------------
(***************************************************************************)
(* The inductive invariant.                                                *)
(***************************************************************************)
\* The messages that change who is in charge of the session.
Rites == {"PerformWelcome", "LoginControllerStart", "LoginControllerEnd"}

\* A handler that changes no actor's status and hands nothing over preserves
\* every part of the invariant but NeverDeaf, provided it asks nothing of the
\* user before the login has begun.
LEMMA RoutineStep ==
  ASSUME mbox \in Boxes, SessionInv, NEW self \in Actors, NEW atom \in Atoms, NEW sent,
         Delivered(self, atom, sent),
         UNCHANGED <<status, m_active_controller, recorded, welcomed>>,
         atom \notin Rites \cup {"exit"},
         \A a \in Actors, x \in Rites : <<a, x>> \notin sent,
         \A a \in Actors \ {"Connection"} : <<a, "exit">> \notin sent,
         status["Login"] = "none" =>
           \A a \in Actors, x \in {"ToUserPrompt", "FromUserGetInput", "OnUserInput"} :
             <<a, x>> \notin sent
  PROVE  /\ MailOnlyWhenUp' /\ CommandServes' /\ WelcomeOnce'
         /\ LoginComesFirst' /\ HandOver' /\ EndsOnce'
<1> USE DEF Actors, Atoms, Rites, Has, Up, SessionInv, Delivered
<1>1. MailOnlyWhenUp'
  BY DEF MailOnlyWhenUp
<1>2. CommandServes'
  BY DEF CommandServes
<1>3. WelcomeOnce'
  BY DEF WelcomeOnce
<1>4. LoginComesFirst'
  BY DEF LoginComesFirst
<1>5. HandOver'
  BY DEF HandOver
<1>6. EndsOnce'
  BY DEF EndsOnce, Once
<1> QED
  BY <1>1, <1>2, <1>3, <1>4, <1>5, <1>6

\* What the three shapes of handler deliver.
LEMMA HandlesDelivers ==
  ASSUME mbox \in Boxes, NEW self \in Actors, NEW atom \in Atoms, Receives(self, atom),
         NEW dst \in Actors
  PROVE  /\ Handles(self, dst, <<>>) => Delivered(self, atom, {})
         /\ \A m \in Messages :
              Handles(self, dst, <<m>>) => Delivered(self, atom, {<<dst, m.atom>>})
         /\ \A m, n \in Messages :
              m.atom # n.atom /\ Handles(self, dst, <<m, n>>) =>
                Delivered(self, atom, {<<dst, m.atom>>, <<dst, n.atom>>})
<1>1. Consumed(self) \in Boxes
  BY HeadIsMessage DEF Receives
<1>2. Handles(self, dst, <<>>) => Delivered(self, atom, {})
  BY <1>1, GrownNone, HandlerDelivers DEF Handles
<1>3. ASSUME NEW m \in Messages, Handles(self, dst, <<m>>)
      PROVE  Delivered(self, atom, {<<dst, m.atom>>})
  BY <1>1, <1>3, GrownOne, HandlerDelivers DEF Handles
<1>4. ASSUME NEW m \in Messages, NEW n \in Messages, m.atom # n.atom,
             Handles(self, dst, <<m, n>>)
      PROVE  Delivered(self, atom, {<<dst, m.atom>>, <<dst, n.atom>>})
  BY <1>1, <1>4, GrownTwo, HandlerDelivers DEF Handles
<1> QED
  BY <1>2, <1>3, <1>4

\* The atom of each constructor's message.
LEMMA MessageAtoms ==
  /\ \A a : Msg(a).atom = a
  /\ \A p : Prompt(p).atom = "ToUserPrompt"
  /\ \A e : Emit(e).atom = "ToUserEmit"
  /\ \A l : Input(l).atom = "OnUserInput"
BY DEF Msg, Prompt, Emit, Input

\* The ConnectionActor's handlers preserve the invariant.
LEMMA ConnectionStep ==
  ASSUME TypeOK, SessionInv, Connection
  PROVE  SessionInv'
<1> USE DEF Actors, connVars, cmdVars, loginVars, envVars
<1>b. mbox \in Boxes
  BY DEF TypeOK, Boxes
<1>m. /\ \A a \in {"PerformWelcome", "FromUserGetInput", "GoodbyeConnection", "exit"} :
           Msg(a) \in Messages /\ Msg(a).atom = a
      /\ \A l \in Typed : Input(l) \in Messages /\ Input(l).atom = "OnUserInput"
  BY MessageTypes, MessageAtoms
<1>1. CASE ConnPerformWelcome
  <2>1. Delivered("Connection", "PerformWelcome", {<<"Command", "PerformWelcome">>})
    BY <1>1, <1>b, <1>m, HandlesDelivers DEF ConnPerformWelcome, Atoms
  <2> USE DEF SessionInv, Delivered, Atoms, Has, Up, ConnPerformWelcome, Handles
  <2>2. MailOnlyWhenUp' /\ CommandServes'
    BY <1>1, <2>1 DEF MailOnlyWhenUp, CommandServes
  <2>3. WelcomeOnce'
    BY <1>1, <2>1 DEF WelcomeOnce
  <2>4. LoginComesFirst' /\ HandOver' /\ EndsOnce'
    BY <1>1, <2>1 DEF LoginComesFirst, HandOver, EndsOnce, Once
  <2>5. Scrubbed'
    BY <1>1 DEF Scrubbed
  <2>6. NeverDeaf'
    BY <1>1, <2>1 DEF NeverDeaf, CommandServes, Closing
  <2> QED
    BY <2>2, <2>3, <2>4, <2>5, <2>6
<1>2. CASE ConnToUserEmit
  <2>1. Delivered("Connection", "ToUserEmit", {})
    BY <1>2, <1>b, HandlesDelivers DEF ConnToUserEmit, Atoms
  <2>2. UNCHANGED <<status, m_active_controller, recorded, username, password, welcomed>>
    BY <1>2 DEF ConnToUserEmit, Handles
  <2>3. /\ MailOnlyWhenUp' /\ CommandServes' /\ WelcomeOnce'
        /\ LoginComesFirst' /\ HandOver' /\ EndsOnce'
    BY <1>b, <2>1, <2>2, RoutineStep DEF Atoms, Rites
  <2>4. NeverDeaf' /\ Scrubbed'
    BY <2>1, <2>2 DEF NeverDeaf, Scrubbed, Closing, SessionInv, Delivered, Atoms, Has, Up
  <2> QED
    BY <2>3, <2>4 DEF SessionInv
<1>3. CASE ConnToUserPrompt
  <2>1. Delivered("Connection", "ToUserPrompt", {<<"Connection", "FromUserGetInput">>})
    BY <1>3, <1>b, <1>m, HandlesDelivers DEF ConnToUserPrompt, Atoms
  <2>2. UNCHANGED <<status, m_active_controller, recorded, username, password, welcomed>>
    BY <1>3 DEF ConnToUserPrompt, Handles
  <2>3. status["Login"] # "none"
    BY <2>1 DEF SessionInv, LoginComesFirst, Delivered
  <2>4. /\ MailOnlyWhenUp' /\ CommandServes' /\ WelcomeOnce'
        /\ LoginComesFirst' /\ HandOver' /\ EndsOnce'
    BY <1>b, <2>1, <2>2, <2>3, RoutineStep DEF Atoms, Rites
  <2>5. NeverDeaf' /\ Scrubbed'
    BY <2>1, <2>2 DEF NeverDeaf, Scrubbed, Closing, SessionInv, Delivered, Atoms, Has, Up
  <2> QED
    BY <2>4, <2>5 DEF SessionInv
<1>4. ASSUME NEW next \in {"FromUserGetInput", "GoodbyeConnection"},
             Receives("Connection", "FromUserGetInput"),
             Handles("Connection", "Connection", <<Msg(next)>>),
             UNCHANGED <<cmdVars, loginVars, envVars>>
      PROVE  SessionInv'
  <2>1. Delivered("Connection", "FromUserGetInput", {<<"Connection", next>>})
    BY <1>4, <1>b, <1>m, HandlesDelivers DEF Atoms
  <2>2. UNCHANGED <<status, m_active_controller, recorded, username, password, welcomed>>
    BY <1>4 DEF Handles
  <2>3. status["Login"] # "none"
    BY <2>1 DEF SessionInv, LoginComesFirst, Delivered
  <2>4. /\ MailOnlyWhenUp' /\ CommandServes' /\ WelcomeOnce'
        /\ LoginComesFirst' /\ HandOver' /\ EndsOnce'
    BY <1>b, <2>1, <2>2, <2>3, RoutineStep DEF Atoms, Rites
  <2>5. NeverDeaf' /\ Scrubbed'
    BY <2>1, <2>2 DEF NeverDeaf, Scrubbed, Closing, SessionInv, Delivered, Atoms, Has, Up
  <2> QED
    BY <2>4, <2>5 DEF SessionInv
<1>5. CASE PollNoData
  BY <1>4, <1>5 DEF PollNoData
<1>6. CASE PollBreak \/ PollFragment \/ PollQuit
  BY <1>4, <1>6 DEF PollBreak, PollFragment, PollQuit, PollFindsData
<1>7. ASSUME NEW l \in Typed, PollLine(l)
      PROVE  SessionInv'
  <2> DEFINE sent == {<<"Command", "OnUserInput">>, <<"Connection", "FromUserGetInput">>}
  <2>1. Delivered("Connection", "FromUserGetInput", sent)
    <3>1. Receives("Connection", "FromUserGetInput")
      BY <1>7 DEF PollLine, PollFindsData
    <3>2. Consumed("Connection") \in Boxes
      BY <1>b, <3>1, HeadIsMessage DEF Receives
    <3>3. Grown(Consumed("Connection"), mbox', sent)
      BY <1>7, <1>m, <3>2, GrownBoth DEF PollLine
    <3> QED
      BY <1>b, <3>1, <3>3, HandlerDelivers DEF Atoms
  <2>2. UNCHANGED <<status, m_active_controller, recorded, username, password, welcomed>>
    BY <1>7 DEF PollLine, PollFindsData
  <2>3. status["Login"] # "none"
    BY <2>1 DEF SessionInv, LoginComesFirst, Delivered
  <2>4. /\ MailOnlyWhenUp' /\ CommandServes' /\ WelcomeOnce'
        /\ LoginComesFirst' /\ HandOver' /\ EndsOnce'
    BY <1>b, <2>1, <2>2, <2>3, RoutineStep DEF Atoms, Rites
  <2>5. NeverDeaf' /\ Scrubbed'
    BY <2>1, <2>2 DEF NeverDeaf, Scrubbed, Closing, SessionInv, Delivered, Atoms, Has, Up
  <2> QED
    BY <2>4, <2>5 DEF SessionInv
<1>8. CASE ConnGoodbyeConnection
  <2>1. Delivered("Connection", "GoodbyeConnection", {<<"Connection", "exit">>})
    BY <1>8, <1>b, <1>m, HandlesDelivers DEF ConnGoodbyeConnection, Atoms
  <2>2. UNCHANGED <<status, m_active_controller, recorded, username, password, welcomed>>
    BY <1>8 DEF ConnGoodbyeConnection, Handles
  <2>3. /\ MailOnlyWhenUp' /\ CommandServes' /\ WelcomeOnce'
        /\ LoginComesFirst' /\ HandOver' /\ EndsOnce'
    BY <1>b, <2>1, <2>2, RoutineStep DEF Atoms, Rites
  <2>4. NeverDeaf' /\ Scrubbed'
    BY <2>1, <2>2 DEF NeverDeaf, Scrubbed, Closing, SessionInv, Delivered, Atoms, Has, Up
  <2> QED
    BY <2>3, <2>4 DEF SessionInv
<1>9. CASE ConnExit
  <2> DEFINE box == [mbox EXCEPT !["Connection"] = <<>>]
  <2>1. box \in Boxes /\ box["Connection"] = <<>>
        /\ \A a \in Actors \ {"Connection"} : box[a] = mbox[a]
    BY <1>b, HandlerBoxes DEF Boxes
  <2>2. Grown(box, mbox', {<<"Command", "exit">>})
    BY <1>9, <1>m, <2>1, GrownOne DEF ConnExit
  <2>3. \A x : ~HasIn(<<>>, x) /\ Single(<<>>, x)
    BY ListHas
  <2> HIDE DEF box
  <2>4. /\ status["Connection"] = "up" /\ status' \in [Actors -> {"none", "up", "down"}]
        /\ status'["Connection"] = "down"
        /\ \A a \in Actors \ {"Connection"} : status'[a] = status[a]
    BY <1>9 DEF ConnExit, Terminates, Receives, TypeOK
  <2>5. UNCHANGED <<m_active_controller, recorded, username, password, welcomed>>
    BY <1>9 DEF ConnExit
  <2> USE DEF SessionInv, Grown, Atoms, Has, Up
  <2>6. mbox'["Connection"] = <<>>
    BY <1>9, <2>1 DEF ConnExit, Sent, Boxes, box
  <2>7. MailOnlyWhenUp' /\ CommandServes'
    BY <2>1, <2>2, <2>4, <2>6 DEF MailOnlyWhenUp, CommandServes
  <2>8. WelcomeOnce'
    BY <2>1, <2>2, <2>3, <2>4, <2>5, <2>6 DEF WelcomeOnce
  <2>9. LoginComesFirst'
    BY <2>1, <2>2, <2>3, <2>4, <2>5, <2>6 DEF LoginComesFirst
  <2>10. HandOver' /\ EndsOnce'
    BY <2>1, <2>2, <2>3, <2>4, <2>5, <2>6 DEF HandOver, EndsOnce, Once
  <2>11. NeverDeaf' /\ Scrubbed'
    BY <2>4, <2>5 DEF NeverDeaf, Scrubbed
  <2> QED
    BY <2>7, <2>8, <2>9, <2>10, <2>11
<1> QED
  BY <1>1, <1>2, <1>3, <1>5, <1>6, <1>7, <1>8, <1>9 DEF Connection

\* The CommandActor's handlers preserve the invariant.
LEMMA CommandStep ==
  ASSUME TypeOK, SessionInv, Command
  PROVE  SessionInv'
<1> USE DEF Actors, connVars, cmdVars, loginVars, envVars
<1>b. mbox \in Boxes
  BY DEF TypeOK, Boxes
<1>m. /\ \A a \in {"exit", "LoginControllerStart"} : Msg(a) \in Messages /\ Msg(a).atom = a
      /\ \A p \in Prompts : Prompt(p) \in Messages /\ Prompt(p).atom = "ToUserPrompt"
      /\ \A e \in Emissions : Emit(e) \in Messages /\ Emit(e).atom = "ToUserEmit"
      /\ \A l \in Typed : Input(l) \in Messages /\ Input(l).atom = "OnUserInput"
  BY MessageTypes, MessageAtoms
<1>1. CASE CmdPerformWelcome
  <2> DEFINE box == Consumed("Command")
  <2>1. /\ status["Command"] = "up"
        /\ mbox["Command"] \in Seq(Messages) /\ mbox["Command"] # <<>>
        /\ Head(mbox["Command"]).atom = "PerformWelcome"
    BY <1>1, <1>b DEF CmdPerformWelcome, Receives, Boxes
  <2>2. /\ mbox'["Command"] = Tail(mbox["Command"])
        /\ mbox'["Login"] = <<Msg("LoginControllerStart")>>
        /\ mbox'["Connection"] = mbox["Connection"]
        /\ mbox'["Default"] = mbox["Default"]
    BY <1>1, <1>b DEF CmdPerformWelcome, Consumed, Boxes
  <2>3. \A x : /\ HasIn(mbox'["Command"], x) => HasIn(mbox["Command"], x)
               /\ Single(mbox["Command"], x) => Single(mbox'["Command"], x)
               /\ Single(mbox["Command"], x) /\ x = "PerformWelcome"
                    => ~HasIn(mbox'["Command"], x)
    BY <2>1, <2>2, TailHas
  <2>4. HasIn(mbox["Command"], "PerformWelcome")
    BY <2>1, TailHas
  <2>5. /\ \A x : HasIn(mbox'["Login"], x) <=> x = "LoginControllerStart"
        /\ FirstOnly(mbox'["Login"], "LoginControllerStart")
    BY <1>m, <2>2, ListHas DEF FirstOnly
  <2>6. /\ status["Login"] = "none" /\ recorded = <<>> /\ welcomed
        /\ ~HasIn(mbox["Command"], "LoginControllerEnd")
    BY <2>4 DEF SessionInv, WelcomeOnce, LoginComesFirst, Has
  <2>7. /\ status'["Login"] = "up"
        /\ \A a \in Actors \ {"Login"} : status'[a] = status[a]
        /\ m_active_controller' = "Login"
        /\ UNCHANGED <<recorded, username, password, welcomed>>
    BY <1>1 DEF CmdPerformWelcome, TypeOK
  <2> USE DEF SessionInv, Has, Up
  <2>8. MailOnlyWhenUp' /\ CommandServes'
    BY <2>1, <2>2, <2>3, <2>7 DEF MailOnlyWhenUp, CommandServes
  <2>9. WelcomeOnce' /\ LoginComesFirst'
    BY <2>2, <2>3, <2>4, <2>6, <2>7 DEF WelcomeOnce, LoginComesFirst
  <2>10. HandOver' /\ EndsOnce'
    BY <2>1, <2>2, <2>3, <2>5, <2>6, <2>7 DEF HandOver, EndsOnce, Once
  <2>11. NeverDeaf' /\ Scrubbed'
    BY <2>5, <2>7 DEF NeverDeaf, Scrubbed
  <2> QED
    BY <2>8, <2>9, <2>10, <2>11
<1>2. CASE CmdOnUserInput
  <2>1. Receives("Command", "OnUserInput") /\ Arg("Command") \in Typed
    BY <1>2, <1>b, ReceivedArg DEF CmdOnUserInput
  <2>2. HasIn(mbox["Command"], "OnUserInput") /\ status["Command"] = "up"
    BY <1>b, <2>1, TailHas DEF Receives, Boxes
  <2>3. status["Login"] # "none" /\ m_active_controller \in {"Login", "Default"}
    BY <2>2 DEF SessionInv, LoginComesFirst, HandOver, Has, Up, TypeOK
  <2>4. Delivered("Command", "OnUserInput", {<<m_active_controller, "OnUserInput">>})
    <3> DEFINE in == Input(Arg("Command"))
    <3>1. in \in Messages /\ in.atom = "OnUserInput"
      BY <1>m, <2>1
    <3>2. Handles("Command", m_active_controller, <<in>>)
      BY <1>2, <2>3 DEF CmdOnUserInput
    <3> HIDE DEF in
    <3>3. PICK c \in Actors : c = m_active_controller
      BY <2>3
    <3>4. Handles("Command", c, <<in>>)
      BY <3>2, <3>3
    <3>5. Delivered("Command", "OnUserInput", {<<c, in.atom>>})
      BY <1>b, <2>1, <3>1, <3>4, HandlesDelivers DEF Atoms
    <3> QED
      BY <3>1, <3>3, <3>5
  <2>5. UNCHANGED <<status, m_active_controller, recorded, username, password, welcomed>>
    BY <1>2 DEF CmdOnUserInput, Handles
  <2>6. /\ MailOnlyWhenUp' /\ CommandServes' /\ WelcomeOnce'
        /\ LoginComesFirst' /\ HandOver' /\ EndsOnce'
    BY <1>b, <2>3, <2>4, <2>5, RoutineStep DEF Atoms, Rites
  <2>7. NeverDeaf' /\ Scrubbed'
    BY <2>4, <2>5 DEF NeverDeaf, Scrubbed, Closing, SessionInv, Delivered, Atoms, Has, Up
  <2> QED
    BY <2>6, <2>7 DEF SessionInv
<1>3. CASE CmdToUserPrompt
  <2>1. Delivered("Command", "ToUserPrompt", {<<"Connection", "ToUserPrompt">>})
    <3>1. Arg("Command") \in Prompts
      BY <1>3, <1>b, ReceivedArg DEF CmdToUserPrompt
    <3> QED
      BY <1>3, <1>b, <1>m, <3>1, HandlesDelivers DEF CmdToUserPrompt, Atoms
  <2>2. UNCHANGED <<status, m_active_controller, recorded, username, password, welcomed>>
    BY <1>3 DEF CmdToUserPrompt, Handles
  <2>3. status["Login"] # "none"
    BY <2>1 DEF SessionInv, LoginComesFirst, Delivered
  <2>4. /\ MailOnlyWhenUp' /\ CommandServes' /\ WelcomeOnce'
        /\ LoginComesFirst' /\ HandOver' /\ EndsOnce'
    BY <1>b, <2>1, <2>2, <2>3, RoutineStep DEF Atoms, Rites
  <2>5. NeverDeaf' /\ Scrubbed'
    BY <2>1, <2>2 DEF NeverDeaf, Scrubbed, Closing, SessionInv, Delivered, Atoms, Has, Up
  <2> QED
    BY <2>4, <2>5 DEF SessionInv
<1>4. CASE CmdToUserEmit
  <2>1. Delivered("Command", "ToUserEmit", {<<"Connection", "ToUserEmit">>})
    <3>1. Arg("Command") \in Emissions
      BY <1>4, <1>b, ReceivedArg DEF CmdToUserEmit
    <3> QED
      BY <1>4, <1>b, <1>m, <3>1, HandlesDelivers DEF CmdToUserEmit, Atoms
  <2>2. UNCHANGED <<status, m_active_controller, recorded, username, password, welcomed>>
    BY <1>4 DEF CmdToUserEmit, Handles
  <2>3. /\ MailOnlyWhenUp' /\ CommandServes' /\ WelcomeOnce'
        /\ LoginComesFirst' /\ HandOver' /\ EndsOnce'
    BY <1>b, <2>1, <2>2, RoutineStep DEF Atoms, Rites
  <2>4. NeverDeaf' /\ Scrubbed'
    BY <2>1, <2>2 DEF NeverDeaf, Scrubbed, Closing, SessionInv, Delivered, Atoms, Has, Up
  <2> QED
    BY <2>3, <2>4 DEF SessionInv
<1>5. CASE CmdLoginControllerEnd
  <2>1. Receives("Command", "LoginControllerEnd")
    BY <1>5 DEF CmdLoginControllerEnd
  <2>2. HasIn(mbox["Command"], "LoginControllerEnd")
    BY <1>b, <2>1, TailHas DEF Receives, Boxes
  <2>3. /\ status["Login"] # "none" /\ m_active_controller \in {"Login", "Default"}
        /\ recorded # <<>> /\ ~HasIn(mbox["Login"], "LoginControllerStart")
        /\ Once => m_active_controller = "Login"
    BY <2>1, <2>2 DEF SessionInv, LoginComesFirst, HandOver, EndsOnce, Has, Up, Receives, TypeOK
  <2>4. PICK c \in Actors : c = m_active_controller
    BY <2>3
  <2> DEFINE sent == {<<c, "exit">>, <<"Connection", "ToUserPrompt">>}
  <2>5. Delivered("Command", "LoginControllerEnd", sent)
    <3>1. Consumed("Command") \in Boxes
      BY <1>b, <2>1, HeadIsMessage DEF Receives
    <3>2. mbox' = Sent(Sent(Consumed("Command"), c, <<Msg("exit")>>),
                       "Connection", <<Prompt("pmud")>>)
      BY <1>5, <2>4 DEF CmdLoginControllerEnd
    <3>3. c # "Connection"
      BY <2>3, <2>4
    <3>4. Grown(Consumed("Command"), mbox', sent)
      BY <1>m, <3>1, <3>2, <3>3, GrownBoth DEF Prompts
    <3> QED
      BY <1>b, <2>1, <3>4, HandlerDelivers DEF Atoms
  <2>6. /\ UNCHANGED <<status, recorded, username, password, welcomed>>
        /\ m_active_controller' = "Default"
    BY <1>5 DEF CmdLoginControllerEnd
  <2> USE DEF SessionInv, Delivered, Atoms, Has, Up
  <2>7. MailOnlyWhenUp' /\ CommandServes'
    BY <2>3, <2>4, <2>5, <2>6 DEF MailOnlyWhenUp, CommandServes
  <2>8. WelcomeOnce' /\ LoginComesFirst'
    BY <2>3, <2>4, <2>5, <2>6 DEF WelcomeOnce, LoginComesFirst
  <2>9. HandOver'
    BY <2>3, <2>4, <2>5, <2>6 DEF HandOver
  <2>10. EndsOnce'
    <3>1. Once' => Once /\ c = "Login"
      BY <2>3, <2>4, <2>6 DEF Once
    <3> QED
      BY <2>3, <2>5, <2>6, <3>1 DEF EndsOnce
  <2>11. NeverDeaf' /\ Scrubbed'
    BY <2>3, <2>4, <2>5, <2>6 DEF NeverDeaf, Scrubbed, Closing
  <2> QED
    BY <2>7, <2>8, <2>9, <2>10, <2>11
<1>6. CASE CmdExit
  <2> DEFINE box == [mbox EXCEPT !["Command"] = <<>>]
             box1 == Sent(box, m_active_controller, <<Msg("exit")>>)
  <2>1. /\ box \in Boxes /\ box["Command"] = <<>>
        /\ \A a \in Actors \ {"Command"} : box[a] = mbox[a]
    BY <1>b, HandlerBoxes DEF Boxes
  <2>2. HasIn(mbox["Command"], "exit") /\ status["Command"] = "up"
    BY <1>6, <1>b, TailHas DEF CmdExit, Terminates, Receives, Boxes
  <2>3. status["Connection"] # "up"
    BY <2>2 DEF SessionInv, CommandServes, Has, Up
  <2>4. /\ status'["Command"] = "down"
        /\ \A a \in Actors \ {"Command"} : status'[a] = status[a]
        /\ m_active_controller' = "null"
        /\ UNCHANGED <<recorded, username, password, welcomed>>
    BY <1>6 DEF CmdExit, Terminates, TypeOK
  <2>5. mbox' = Sent(IF m_active_controller = "null" THEN box ELSE box1,
                     "Default", <<Msg("exit")>>)
    BY <1>6 DEF CmdExit
  <2> HIDE DEF box
  <2>6. \A a \in Actors, x \in Atoms \ {"exit"} :
          /\ HasIn(mbox'[a], x) <=> HasIn(box[a], x)
          /\ Single(box[a], x) => Single(mbox'[a], x)
          /\ FirstOnly(box[a], x) => FirstOnly(mbox'[a], x)
          /\ ~Up(a) => mbox'[a] = box[a]
    <3>1. CASE m_active_controller = "null"
      <4>1. Grown(box, mbox', {<<"Default", "exit">>})
        BY <1>m, <2>1, <2>5, <3>1, GrownOne
      <4> QED
        BY <4>1 DEF Grown
    <3>2. CASE m_active_controller # "null"
      <4>1. m_active_controller \in Actors /\ <<Msg("exit")>> \in Seq(Messages)
        BY <1>m, <3>2 DEF TypeOK
      <4>2. box1 \in Boxes
        BY <2>1, <4>1, SentIsBox
      <4>3. Grown(box, box1, {<<m_active_controller, "exit">>})
        BY <1>m, <2>1, <4>1, GrownOne
      <4> HIDE DEF box1
      <4>4. Grown(box1, mbox', {<<"Default", "exit">>})
        BY <1>m, <2>5, <3>2, <4>2, GrownOne
      <4> QED
        BY <4>3, <4>4 DEF Grown
    <3> QED
      BY <3>1, <3>2
  <2>7. mbox'["Command"] = <<>>
    BY <1>b, <2>1, <2>5 DEF Sent, TypeOK, Boxes, box1
  <2>8. \A x : ~HasIn(<<>>, x) /\ Single(<<>>, x)
    BY ListHas
  <2> USE DEF SessionInv, Atoms, Has, Up
  <2>9. MailOnlyWhenUp' /\ CommandServes'
    <3>1. \A a \in Actors : ~Up(a) => mbox'[a] = box[a]
      <4>1. "OnUserInput" \in Atoms \ {"exit"}
        OBVIOUS
      <4> QED
        BY <2>6, <4>1
    <3>2. MailOnlyWhenUp'
      BY <2>1, <2>4, <2>7, <3>1 DEF MailOnlyWhenUp
    <3> QED
      BY <2>3, <2>4, <3>2 DEF CommandServes
  <2>10. WelcomeOnce'
    BY <2>1, <2>4, <2>6, <2>7, <2>8 DEF WelcomeOnce
  <2>11. LoginComesFirst'
    BY <2>1, <2>4, <2>6, <2>7, <2>8 DEF LoginComesFirst
  <2>12. HandOver' /\ EndsOnce'
    BY <2>1, <2>4, <2>6, <2>7, <2>8 DEF HandOver, EndsOnce, Once
  <2>13. NeverDeaf' /\ Scrubbed'
    BY <2>3, <2>4 DEF NeverDeaf, Scrubbed
  <2> QED
    BY <2>9, <2>10, <2>11, <2>12, <2>13
<1> QED
  BY <1>1, <1>2, <1>3, <1>4, <1>5, <1>6 DEF Command

\* The first account that has been recorded.
LEMMA RecordedFirst ==
  ASSUME NEW s \in Seq(Accounts), s # <<>>
  PROVE  s[1] \in Accounts
BY ElementOfSeq, EmptySeq, LenProperties

\* Recording one more.
LEMMA RecordedMore ==
  ASSUME NEW s \in Seq(Accounts), NEW x \in Accounts
  PROVE  LET t == Append(s, x)
         IN  /\ Len(s) \in Nat /\ Len(t) = Len(s) + 1 /\ t # <<>>
             /\ s # <<>> => t[1] = s[1]
             /\ s = <<>> => t[1] = x
             /\ Len(s) = 0 => s = <<>>
BY AppendProperties, EmptySeq, LenProperties

\* The LoginController's handlers preserve the invariant.
LEMMA LoginStep ==
  ASSUME TypeOK, SessionInv, Login
  PROVE  SessionInv'
<1> USE DEF Actors, connVars, cmdVars, loginVars, envVars
<1>b. mbox \in Boxes
  BY DEF TypeOK, Boxes
<1>m. /\ Msg("LoginControllerEnd") \in Messages
      /\ Msg("LoginControllerEnd").atom = "LoginControllerEnd"
      /\ \A p \in Prompts : Prompt(p) \in Messages /\ Prompt(p).atom = "ToUserPrompt"
      /\ \A e \in Emissions : Emit(e) \in Messages /\ Emit(e).atom = "ToUserEmit"
  BY MessageTypes, MessageAtoms
<1>a. Receives("Login", "OnUserInput") => Arg("Login") \in Typed
  BY <1>b, ReceivedArg
<1>r. recorded \in Seq(Accounts)
  BY DEF TypeOK
<1> USE DEF Prompts, Emissions
<1>1. CASE LoginStart
  <2>1. Delivered("Login", "LoginControllerStart", {<<"Command", "ToUserPrompt">>})
    BY <1>1, <1>b, <1>m, HandlesDelivers DEF LoginStart, Atoms
  <2>2. UNCHANGED <<status, m_active_controller, recorded, username, password, welcomed>>
    BY <1>1 DEF LoginStart, Handles
  <2> USE DEF SessionInv, Delivered, Atoms, Has, Up
  <2>3. MailOnlyWhenUp' /\ CommandServes'
    BY <2>1, <2>2 DEF MailOnlyWhenUp, CommandServes
  <2>4. WelcomeOnce' /\ LoginComesFirst'
    BY <2>1, <2>2 DEF WelcomeOnce, LoginComesFirst
  <2>5. HandOver' /\ EndsOnce'
    BY <2>1, <2>2 DEF HandOver, EndsOnce, Once
  <2>6. NeverDeaf' /\ Scrubbed'
    BY <2>1, <2>2 DEF NeverDeaf, Scrubbed, Closing, CommandServes
  <2> QED
    BY <2>3, <2>4, <2>5, <2>6
<1>2. ASSUME NEW sent, Delivered("Login", "OnUserInput", sent),
             sent \subseteq {<<"Command", "ToUserPrompt">>, <<"Command", "ToUserEmit">>},
             UNCHANGED <<status, m_active_controller, recorded, welcomed>>
      PROVE  /\ MailOnlyWhenUp' /\ CommandServes' /\ WelcomeOnce'
             /\ LoginComesFirst' /\ HandOver' /\ EndsOnce' /\ NeverDeaf'
  <2>1. status["Login"] # "none"
    BY <1>2 DEF Delivered, Up
  <2>2. /\ MailOnlyWhenUp' /\ CommandServes' /\ WelcomeOnce'
        /\ LoginComesFirst' /\ HandOver' /\ EndsOnce'
    BY <1>b, <1>2, <2>1, RoutineStep DEF Atoms, Rites
  <2>3. NeverDeaf'
    BY <1>2 DEF NeverDeaf, Closing, SessionInv, Delivered, Atoms, Has, Up
  <2> QED
    BY <2>2, <2>3
<1>3. CASE LoginTakesUsername
  <2>1. Delivered("Login", "OnUserInput",
                  {<<"Command", "ToUserEmit">>, <<"Command", "ToUserPrompt">>})
    BY <1>3, <1>b, <1>m, HandlesDelivers DEF LoginTakesUsername, Atoms
  <2>2. UNCHANGED <<status, m_active_controller, recorded, password, welcomed>>
    BY <1>3 DEF LoginTakesUsername, Handles
  <2>3. recorded = <<>>
    <3>1. recorded # <<>> => recorded[1] \in Accounts /\ username = recorded[1].username
      BY <1>r, RecordedFirst DEF SessionInv, Scrubbed
    <3>2. \A x \in Accounts : x.username # Empty
      BY LineAssumption DEF Accounts
    <3> QED
      BY <1>3, <3>1, <3>2 DEF LoginTakesUsername
  <2>4. Scrubbed'
    BY <2>2, <2>3 DEF Scrubbed, SessionInv
  <2> QED
    BY <1>2, <2>1, <2>2, <2>4 DEF SessionInv
<1>4. CASE LoginTakesPassword
  <2>1. Delivered("Login", "OnUserInput", {<<"Command", "ToUserPrompt">>})
    BY <1>4, <1>b, <1>m, HandlesDelivers DEF LoginTakesPassword, Atoms
  <2>2. UNCHANGED <<status, m_active_controller, recorded, welcomed>>
    BY <1>4 DEF LoginTakesPassword, Handles
  <2>3. Scrubbed'
    <3>1. password = Empty /\ password' \in Typed
      BY <1>4, <1>a DEF LoginTakesPassword
    <3>2. recorded = <<>>
      BY <3>1, LineAssumption DEF Scrubbed, SessionInv
    <3> QED
      BY <2>2, <3>1, <3>2 DEF Scrubbed
  <2> QED
    BY <1>2, <2>1, <2>2, <2>3 DEF SessionInv
<1>5. CASE LoginConfirmed
  <2> DEFINE sent == {<<"Command", "ToUserEmit">>, <<"Command", "LoginControllerEnd">>}
  <2>1. Delivered("Login", "OnUserInput", sent)
    BY <1>5, <1>b, <1>m, HandlesDelivers DEF LoginConfirmed, Atoms
  <2>2. UNCHANGED <<status, m_active_controller, username, welcomed>>
    BY <1>5 DEF LoginConfirmed, Handles
  <2>3. PICK account \in Accounts : recorded' = Append(recorded, account)
                                   /\ account.username = username
    <3>1. username = Name /\ password \in Lines \ {Empty}
      BY <1>5 DEF LoginConfirmed, TypeOK
    <3>2. [username |-> username, passphrase |-> password] \in Accounts
      BY <3>1 DEF Accounts
    <3> QED
      BY <1>5, <3>2 DEF LoginConfirmed
  <2>4. /\ Len(recorded) \in Nat /\ Len(recorded') = Len(recorded) + 1 /\ recorded' # <<>>
        /\ recorded # <<>> => recorded'[1] = recorded[1]
        /\ recorded = <<>> => recorded'[1] = account
        /\ Len(recorded) = 0 => recorded = <<>>
    BY <1>r, <2>3, RecordedMore
  <2>5. status["Login"] # "none"
    BY <2>1 DEF Delivered, Up
  <2>6. Scrubbed'
    BY <1>5, <2>2, <2>3, <2>4 DEF Scrubbed, SessionInv, LoginConfirmed
  <2>7. Once' => Once /\ recorded = <<>>
    BY <2>4 DEF Once
  <2> USE DEF SessionInv, Delivered, Atoms, Has, Up
  <2>8. MailOnlyWhenUp' /\ CommandServes'
    BY <2>1, <2>2 DEF MailOnlyWhenUp, CommandServes
  <2>9. WelcomeOnce' /\ LoginComesFirst'
    BY <2>1, <2>2, <2>5 DEF WelcomeOnce, LoginComesFirst
  <2>10. ~HasIn(mbox'["Login"], "LoginControllerStart")
    BY <2>1 DEF HandOver
  <2>11. HandOver'
    BY <2>1, <2>2, <2>4, <2>10 DEF HandOver
  <2>12. EndsOnce'
    <3> SUFFICES ASSUME Once' PROVE EndsOnce'
      BY DEF EndsOnce
    <3>1. Once /\ recorded = <<>> /\ ~HasIn(mbox["Command"], "LoginControllerEnd")
      BY <2>7 DEF HandOver
    <3>2. Up("Command") => m_active_controller = "Login"
      BY <2>5, <3>1 DEF HandOver, TypeOK
    <3>3. HasIn(mbox'["Command"], "LoginControllerEnd") => Up("Command")
      BY <2>1, <2>8, <2>2, ListHas DEF MailOnlyWhenUp
    <3> QED
      BY <2>1, <2>2, <3>1, <3>2, <3>3 DEF EndsOnce
  <2>13. NeverDeaf'
    BY <2>1, <2>2 DEF NeverDeaf, Closing
  <2> QED
    BY <2>6, <2>8, <2>9, <2>11, <2>12, <2>13
<1>6. CASE LoginMismatch
  <2>1. Delivered("Login", "OnUserInput",
                  {<<"Command", "ToUserEmit">>, <<"Command", "ToUserPrompt">>})
    BY <1>6, <1>b, <1>m, HandlesDelivers DEF LoginMismatch, Atoms
  <2>2. UNCHANGED <<status, m_active_controller, recorded, username, password, welcomed>>
    BY <1>6 DEF LoginMismatch, Handles
  <2>3. Scrubbed'
    BY <2>2 DEF Scrubbed, SessionInv
  <2> QED
    BY <1>2, <2>1, <2>2, <2>3 DEF SessionInv
<1>7. CASE LoginExit
  <2>1. HasIn(mbox["Login"], "exit") /\ status["Login"] = "up"
    BY <1>7, <1>b, TailHas DEF LoginExit, Terminates, Receives, Boxes
  <2>2. /\ mbox'["Login"] = <<>> /\ status'["Login"] = "down"
        /\ \A a \in Actors \ {"Login"} : mbox'[a] = mbox[a] /\ status'[a] = status[a]
        /\ UNCHANGED <<m_active_controller, recorded, username, password, welcomed>>
    BY <1>7, <1>b DEF LoginExit, Terminates, TypeOK, Boxes
  <2>3. (\A x : ~HasIn(<<>>, x)) /\ FirstOnly(<<>>, "LoginControllerStart")
    BY ListHas DEF FirstOnly
  <2>4. ~Has("Login", "LoginControllerStart")
    <3>1. /\ mbox["Login"] \in Seq(Messages) /\ mbox["Login"] # <<>>
          /\ Head(mbox["Login"]).atom = "exit"
      BY <1>7, <1>b DEF LoginExit, Terminates, Receives, Boxes
    <3>2. ~HasIn(Tail(mbox["Login"]), "LoginControllerStart")
      BY <3>1, TailHas DEF SessionInv, HandOver
    <3> QED
      BY <3>1, <3>2, TailHas DEF Has
  <2> USE DEF SessionInv, Has, Up
  <2>5. MailOnlyWhenUp' /\ CommandServes' /\ WelcomeOnce' /\ LoginComesFirst'
    BY <2>1, <2>2 DEF MailOnlyWhenUp, CommandServes, WelcomeOnce, LoginComesFirst
  <2>6. HandOver' /\ EndsOnce'
    BY <2>1, <2>2, <2>3 DEF HandOver, EndsOnce, Once
  <2>7. NeverDeaf' /\ Scrubbed'
    BY <2>2, <2>4 DEF NeverDeaf, Scrubbed, Closing
  <2> QED
    BY <2>5, <2>6, <2>7
<1> QED
  BY <1>1, <1>3, <1>4, <1>5, <1>6, <1>7 DEF Login

\* The DefaultController's handlers preserve the invariant.
LEMMA DefaultStep ==
  ASSUME TypeOK, SessionInv, Default
  PROVE  SessionInv'
<1> USE DEF Actors, connVars, cmdVars, loginVars, envVars
<1>b. mbox \in Boxes
  BY DEF TypeOK, Boxes
<1>1. CASE DefaultOnUserInput
  <2>1. PICK sent : /\ Delivered("Default", "OnUserInput", sent)
                    /\ sent \subseteq {<<"Command", "ToUserPrompt">>,
                                       <<"Command", "ToUserEmit">>}
    <3>1. /\ Prompt("pmud") \in Messages /\ Prompt("pmud").atom = "ToUserPrompt"
          /\ Emit("reply") \in Messages /\ Emit("reply").atom = "ToUserEmit"
      BY MessageTypes, MessageAtoms DEF Prompts, Emissions
    <3>2. CASE Arg("Default") = Empty
      <4>1. Delivered("Default", "OnUserInput", {<<"Command", "ToUserPrompt">>})
        BY <1>1, <1>b, <3>1, <3>2, HandlesDelivers DEF DefaultOnUserInput, Atoms
      <4> QED
        BY <4>1
    <3>3. CASE Arg("Default") # Empty
      <4>1. Delivered("Default", "OnUserInput",
                      {<<"Command", "ToUserEmit">>, <<"Command", "ToUserPrompt">>})
        BY <1>1, <1>b, <3>1, <3>3, HandlesDelivers DEF DefaultOnUserInput, Atoms
      <4> QED
        BY <4>1
    <3> QED
      BY <3>2, <3>3
  <2>2. UNCHANGED <<status, m_active_controller, recorded, username, password, welcomed>>
    BY <1>1 DEF DefaultOnUserInput, Handles
  <2>3. status["Login"] # "none"
    BY <2>1 DEF SessionInv, LoginComesFirst, Delivered
  <2>4. /\ MailOnlyWhenUp' /\ CommandServes' /\ WelcomeOnce'
        /\ LoginComesFirst' /\ HandOver' /\ EndsOnce'
    BY <1>b, <2>1, <2>2, <2>3, RoutineStep DEF Atoms, Rites
  <2>5. NeverDeaf' /\ Scrubbed'
    BY <2>1, <2>2 DEF NeverDeaf, Scrubbed, Closing, SessionInv, Delivered, Atoms, Has, Up
  <2> QED
    BY <2>4, <2>5 DEF SessionInv
<1>2. CASE DefaultExit
  <2>1. HasIn(mbox["Default"], "exit") /\ status["Default"] = "up"
    BY <1>2, <1>b, TailHas DEF DefaultExit, Terminates, Receives, Boxes
  <2>2. /\ mbox'["Default"] = <<>> /\ status'["Default"] = "down"
        /\ \A a \in Actors \ {"Default"} : mbox'[a] = mbox[a] /\ status'[a] = status[a]
        /\ UNCHANGED <<m_active_controller, recorded, username, password, welcomed>>
    BY <1>2, <1>b DEF DefaultExit, Terminates, TypeOK, Boxes
  <2>3. \A x : ~HasIn(<<>>, x)
    BY ListHas
  <2> USE DEF SessionInv, Has, Up
  <2>4. MailOnlyWhenUp' /\ CommandServes' /\ WelcomeOnce' /\ LoginComesFirst'
    BY <2>2, <2>3 DEF MailOnlyWhenUp, CommandServes, WelcomeOnce, LoginComesFirst
  <2>5. HandOver' /\ EndsOnce'
    BY <2>1, <2>2 DEF HandOver, EndsOnce, Once
  <2>6. NeverDeaf' /\ Scrubbed'
    BY <2>2 DEF NeverDeaf, Scrubbed, Closing
  <2> QED
    BY <2>4, <2>5, <2>6
<1> QED
  BY <1>1, <1>2 DEF Default

\* What the server and main do preserves the invariant.
LEMMA EnvironmentStep ==
  ASSUME TypeOK, SessionInv, Environment
  PROVE  SessionInv'
<1> USE DEF Actors, connVars, cmdVars, loginVars, envVars
<1>b. mbox \in Boxes
  BY DEF TypeOK, Boxes
<1>m. \A a \in {"PerformWelcome", "GoodbyeConnection"} : Msg(a) \in Messages /\ Msg(a).atom = a
  BY MessageTypes, MessageAtoms
<1>1. CASE ServerWelcome
  <2>1. Grown(mbox, mbox', {<<"Connection", "PerformWelcome">>})
    BY <1>1, <1>b, <1>m, GrownOne DEF ServerWelcome
  <2>2. /\ UNCHANGED <<status, m_active_controller, recorded, username, password>>
        /\ ~welcomed /\ welcomed'
    BY <1>1 DEF ServerWelcome
  <2> USE DEF SessionInv, Grown, Atoms, Has, Up
  <2>3. MailOnlyWhenUp' /\ CommandServes'
    BY <2>1, <2>2 DEF MailOnlyWhenUp, CommandServes
  <2>4. WelcomeOnce' /\ LoginComesFirst'
    BY <2>1, <2>2 DEF WelcomeOnce, LoginComesFirst
  <2>5. HandOver' /\ EndsOnce'
    BY <2>1, <2>2 DEF HandOver, EndsOnce, Once
  <2>6. NeverDeaf' /\ Scrubbed'
    BY <2>1, <2>2 DEF NeverDeaf, Scrubbed
  <2> QED
    BY <2>3, <2>4, <2>5, <2>6
<1>2. CASE MainGoodbye
  <2>1. Grown(mbox, mbox', {<<"Connection", "GoodbyeConnection">>})
    BY <1>2, <1>b, <1>m, GrownOne DEF MainGoodbye
  <2>2. UNCHANGED <<status, m_active_controller, recorded, username, password, welcomed>>
    BY <1>2 DEF MainGoodbye
  <2> USE DEF SessionInv, Grown, Atoms, Has, Up
  <2>3. MailOnlyWhenUp' /\ CommandServes'
    BY <2>1, <2>2 DEF MailOnlyWhenUp, CommandServes
  <2>4. WelcomeOnce' /\ LoginComesFirst'
    BY <2>1, <2>2 DEF WelcomeOnce, LoginComesFirst
  <2>5. HandOver' /\ EndsOnce'
    BY <2>1, <2>2 DEF HandOver, EndsOnce, Once
  <2>6. NeverDeaf' /\ Scrubbed'
    BY <2>1, <2>2 DEF NeverDeaf, Scrubbed, Closing
  <2> QED
    BY <2>3, <2>4, <2>5, <2>6
<1> QED
  BY <1>1, <1>2 DEF Environment

\* SessionInv is inductive, and so holds in every reachable state, for every
\* number of reads and every set of lines, the blanks a password is scrubbed to
\* included.  EndsOnce is the part that needs the login to be confirmed only once.
THEOREM SessionSafe == Spec => []SessionInv
<1>1. Init => SessionInv
  <2> SUFFICES ASSUME Init
               PROVE  SessionInv
    OBVIOUS
  <2>1. \A a \in Actors : mbox[a] = <<>>
    BY DEF Init
  <2>2. /\ \A x : ~HasIn(<<>>, x) /\ Single(<<>>, x)
        /\ FirstOnly(<<>>, "LoginControllerStart")
    BY ListHas DEF FirstOnly
  <2> USE DEF Actors, Has, Up
  <2>3. MailOnlyWhenUp /\ CommandServes
    BY <2>1, <2>2 DEF Init, MailOnlyWhenUp, CommandServes
  <2>4. WelcomeOnce
    BY <2>1, <2>2 DEF Init, WelcomeOnce
  <2>5. LoginComesFirst /\ HandOver /\ EndsOnce
    BY <2>1, <2>2 DEF Init, LoginComesFirst, HandOver, EndsOnce
  <2>6. Scrubbed /\ NeverDeaf
    BY LineAssumption DEF Init, Scrubbed, NeverDeaf
  <2> QED
    BY <2>3, <2>4, <2>5, <2>6 DEF SessionInv
<1>2. TypeOK /\ SessionInv /\ [Next]_vars => SessionInv'
  <2> SUFFICES ASSUME TypeOK, SessionInv, [Next]_vars
               PROVE  SessionInv'
    OBVIOUS
  <2>1. CASE Next
    BY <2>1, ConnectionStep, CommandStep, LoginStep, DefaultStep, EnvironmentStep DEF Next
  <2>2. CASE UNCHANGED vars
    BY <2>2 DEF vars, mailVars, connVars, cmdVars, loginVars, envVars, SessionInv,
             MailOnlyWhenUp, CommandServes, WelcomeOnce, LoginComesFirst,
             HandOver, EndsOnce, Once, Scrubbed, NeverDeaf, Closing, Has, Up
  <2> QED
    BY <2>1, <2>2
<1> QED
  BY <1>1, <1>2, TypeCorrect, PTL DEF Spec

\* A welcomed connection never stops polling its client while it lives.
THEOREM NeverDeafAlways == Spec => []NeverDeaf
<1>1. SessionInv => NeverDeaf
  BY DEF SessionInv
<1> QED
  BY <1>1, SessionSafe, PTL

\* Unless the login is confirmed a second time, the CommandActor forwards lines
\* only to a controller that is running and has not been told to exit.
THEOREM ControllerServesAlways == Spec => []ControllerServes
<1>1. TypeOK /\ SessionInv => ControllerServes
  BY DEF TypeOK, SessionInv, HandOver, EndsOnce, ControllerServes, ActiveControllerAlive, Up
<1> QED
  BY <1>1, SessionSafe, TypeCorrect, PTL

\* The CommandActor never gets a line while it has no controller for it.
THEOREM InputHasControllerAlways == Spec => []InputHasController
<1>1. SessionInv => InputHasController
  <2> SUFFICES ASSUME SessionInv, Has("Command", "OnUserInput")
               PROVE  m_active_controller # "null"
    BY DEF InputHasController
  <2>1. status["Login"] # "none"
    BY DEF SessionInv, LoginComesFirst
  <2>2. Up("Command")
    <3>1. mbox["Command"] # <<>>
      BY ListHas DEF Has
    <3> QED
      BY <3>1 DEF SessionInv, MailOnlyWhenUp, Actors
  <2> QED
    BY <2>1, <2>2 DEF SessionInv, HandOver
<1> QED
  BY <1>1, SessionSafe, PTL
-----------------------------------------------------------------------------
(***************************************************************************)
(* The session implements module Registration.                             *)
(***************************************************************************)
\* The actors whose constructors have run before the session begins.
Spawned == \A a \in Actors \ {"Login"} : status[a] # "none"

\* No actor is ever unspawned.
LEMMA SpawnedAlways == Spec => []Spawned
<1> USE DEF Actors
<1>1. Init => Spawned
  BY DEF Init, Spawned
<1>2. TypeOK /\ Spawned /\ [Next]_vars => Spawned'
  <2> SUFFICES ASSUME TypeOK, Spawned, [Next]_vars
               PROVE  Spawned'
    OBVIOUS
  <2>1. CASE UNCHANGED status
    BY <2>1 DEF Spawned
  <2>2. ASSUME NEW a \in Actors, status' = [status EXCEPT ![a] = "down"]
        PROVE  Spawned'
    BY <2>2 DEF Spawned, TypeOK
  <2>3. CASE status' = [status EXCEPT !["Login"] = "up"]
    BY <2>3 DEF Spawned, TypeOK
  <2>4. CASE Connection
    BY <2>1, <2>2, <2>4 DEF Connection, ConnPerformWelcome, ConnToUserEmit,
         ConnToUserPrompt, PollNoData, PollBreak, PollFragment, PollQuit, PollLine,
         ConnGoodbyeConnection, ConnExit, Handles, Terminates
  <2>5. CASE Command
    BY <2>1, <2>2, <2>3, <2>5 DEF Command, CmdPerformWelcome, CmdOnUserInput,
         CmdToUserPrompt, CmdToUserEmit, CmdLoginControllerEnd, CmdExit, Handles, Terminates
  <2>6. CASE Login
    BY <2>1, <2>2, <2>6 DEF Login, LoginStart, LoginTakesUsername, LoginTakesPassword,
         LoginConfirmed, LoginMismatch, LoginExit, Handles, Terminates
  <2>7. CASE Default
    BY <2>1, <2>2, <2>7 DEF Default, DefaultOnUserInput, DefaultExit, Handles, Terminates
  <2>8. CASE Environment
    BY <2>1, <2>8 DEF Environment, ServerWelcome, MainGoodbye
  <2>9. CASE UNCHANGED vars
    BY <2>1, <2>9 DEF vars, mailVars
  <2> QED
    BY <2>4, <2>5, <2>6, <2>7, <2>8, <2>9 DEF Next
<1> QED
  BY <1>1, <1>2, TypeCorrect, PTL DEF Spec

\* The stage of the visitor, as the refinement mapping computes it.
Stage == IF status["Command"] = "down" THEN "gone"
         ELSE IF m_active_controller = "Default" THEN "playing"
         ELSE "registering"

\* Every step of a session is a step of its contract, whatever is typed:
\* LoginTakesPassword chooses the passphrase, LoginConfirmed registers, the first
\* time with that passphrase and later with the blanks it was overwritten with,
\* CmdLoginControllerEnd lets the user play, CmdExit is the visitor leaving, and
\* nothing else is visible.
THEOREM Implements == Spec => ContractSpec
<1> USE DEF Actors, connVars, cmdVars, loginVars, envVars, mailVars
<1>1. Init => Contract!Init
  BY DEF Init, Contract!Init
<1>2. TypeOK /\ SessionInv /\ Spawned /\ [Next]_vars
        => [Contract!Next]_<<recorded, password, Stage>>
  <2> SUFFICES ASSUME TypeOK, SessionInv, Spawned, [Next]_vars
               PROVE  [Contract!Next]_<<recorded, password, Stage>>
    OBVIOUS
  <2>b. mbox \in Boxes
    BY DEF TypeOK, Boxes
  <2>1. CASE /\ UNCHANGED <<recorded, password, m_active_controller>>
             /\ status'["Command"] = status["Command"]
    BY <2>1 DEF Stage
  <2>2. CASE Connection
    BY <2>1, <2>2 DEF Connection, ConnPerformWelcome, ConnToUserEmit,
         ConnToUserPrompt, PollNoData, PollFindsData, PollBreak, PollFragment, PollQuit,
         PollLine, ConnGoodbyeConnection, ConnExit, Handles, Terminates, TypeOK
  <2>3. CASE CmdPerformWelcome
    <3>1. HasIn(mbox["Command"], "PerformWelcome")
      BY <2>b, <2>3, TailHas DEF CmdPerformWelcome, Receives, Boxes
    <3>2. m_active_controller = "null"
      BY <3>1 DEF SessionInv, WelcomeOnce, LoginComesFirst, Has
    <3>3. UNCHANGED <<recorded, password>> /\ m_active_controller' = "Login"
          /\ status'["Command"] = status["Command"]
      BY <2>3 DEF CmdPerformWelcome, TypeOK
    <3> QED
      BY <3>2, <3>3 DEF Stage
  <2>4. CASE CmdOnUserInput \/ CmdToUserPrompt \/ CmdToUserEmit
    BY <2>1, <2>4 DEF CmdOnUserInput, CmdToUserPrompt, CmdToUserEmit, Handles
  <2>5. CASE CmdLoginControllerEnd
    <3>1. HasIn(mbox["Command"], "LoginControllerEnd") /\ status["Command"] = "up"
      BY <2>b, <2>5, TailHas DEF CmdLoginControllerEnd, Receives, Boxes
    <3>2. recorded # <<>>
      BY <3>1 DEF SessionInv, HandOver, Has
    <3>3. UNCHANGED <<recorded, password, status>> /\ m_active_controller' = "Default"
      BY <2>5 DEF CmdLoginControllerEnd
    <3>4. CASE m_active_controller = "Default"
      BY <2>1, <3>3, <3>4
    <3>5. CASE m_active_controller # "Default"
      <4>1. Contract!Play
        BY <3>1, <3>2, <3>3, <3>5 DEF Contract!Play
      <4> QED
        BY <4>1 DEF Contract!Next
    <3> QED
      BY <3>4, <3>5
  <2>6. CASE CmdExit
    <3>1. /\ status["Command"] = "up" /\ status'["Command"] = "down"
          /\ UNCHANGED <<recorded, password>>
      BY <2>6 DEF CmdExit, Terminates, Receives, TypeOK
    <3>2. Contract!Leave
      BY <3>1 DEF Contract!Leave
    <3> QED
      BY <3>2 DEF Contract!Next
  <2>7. CASE LoginConfirmed
    <3> DEFINE account == [username |-> username, passphrase |-> password]
    <3>1. /\ username = Name /\ password # Empty
          /\ recorded' = Append(recorded, account) /\ password' = Blank
          /\ UNCHANGED <<status, m_active_controller>>
      BY <2>7 DEF LoginConfirmed, TypeOK, Handles
    <3>2. Stage' = Stage
      BY <3>1 DEF Stage
    <3>3. CASE recorded = <<>>
      <4>1. recorded' = <<account>>
        BY <3>1, <3>3
      <4>2. Stage # "playing"
        BY <3>3 DEF Stage, SessionInv, HandOver, Up, Spawned, TypeOK
      <4>3. Contract!Register
        BY <3>1, <3>2, <3>3, <4>1, <4>2 DEF Contract!Register, Stage
      <4> QED
        BY <4>3 DEF Contract!Next
    <3>4. CASE recorded # <<>>
      <4>1. password = Blank /\ username = recorded[1].username
        BY <3>4 DEF SessionInv, Scrubbed
      <4>2. Contract!RegisterAgain
        BY <3>1, <3>2, <3>4, <4>1 DEF Contract!RegisterAgain, Stage
      <4> QED
        BY <4>2 DEF Contract!Next
    <3> QED
      BY <3>3, <3>4
  <2>8. CASE LoginTakesPassword
    <3>1. password' \in Typed
      BY <2>b, <2>8, ReceivedArg DEF LoginTakesPassword
    <3>2. password = Empty /\ UNCHANGED <<recorded, m_active_controller, status>>
      BY <2>8 DEF LoginTakesPassword, Handles
    <3>3. recorded = <<>>
      BY <3>2, LineAssumption DEF SessionInv, Scrubbed
    <3>4. CASE password' = Empty
      BY <2>1, <3>2, <3>4
    <3>5. CASE password' # Empty
      <4>1. Contract!Choose
        BY <3>1, <3>2, <3>3, <3>5 DEF Contract!Choose
      <4> QED
        BY <4>1 DEF Contract!Next
    <3> QED
      BY <3>4, <3>5
  <2>9. CASE LoginStart \/ LoginTakesUsername \/ LoginMismatch \/ LoginExit
    BY <2>1, <2>9 DEF LoginStart, LoginTakesUsername, LoginMismatch, LoginExit, Handles,
         Terminates, TypeOK
  <2>10. CASE Default
    BY <2>1, <2>10 DEF Default, DefaultOnUserInput, DefaultExit, Handles, Terminates, TypeOK
  <2>11. CASE Environment
    BY <2>1, <2>11 DEF Environment, ServerWelcome, MainGoodbye
  <2>12. CASE UNCHANGED vars
    BY <2>1, <2>12 DEF vars
  <2> QED
    BY <2>2, <2>3, <2>4, <2>5, <2>6, <2>7, <2>8, <2>9, <2>10, <2>11, <2>12
       DEF Next, Command, Login
<1> QED
  BY <1>1, <1>2, TypeCorrect, SessionSafe, SpawnedAlways, PTL
     DEF Spec, ContractSpec, Contract!Spec, Stage
-----------------------------------------------------------------------------
(***************************************************************************)
(* Prompts, proved for every number of lines and every set of lines: a     *)
(* line is answered by one prompt, unless the login has been confirmed     *)
(* again, a prompt starts one loop of polls, which nothing but the end of  *)
(* the connection ends, and a password prompt appears only after the echo  *)
(* has been suppressed.                                                    *)
(***************************************************************************)
Polls == {"FromUserGetInput"}

\* The messages with one of the atoms.
Counted(atoms) == {m \in Messages : m.atom \in atoms}

\* Session counts the messages of a mailbox as SharedLemmas does.
LEMMA CountIsTally ==
  ASSUME NEW s \in Seq(Messages), NEW atoms
  PROVE  CountIn(s, atoms) = Tally(s, Counted(atoms)) /\ CountIn(s, atoms) \in Nat
<1>1. \A i \in DOMAIN s : s[i] \in Messages
  BY ElementOfSeq, LenProperties
<1>2. {i \in DOMAIN s : s[i].atom \in atoms} = Places(s, Counted(atoms))
  BY <1>1 DEF Places, Counted
<1> QED
  BY <1>2, TallyType DEF CountIn, Tally

\* Counting after the first message has been taken.
LEMMA TailCount ==
  ASSUME NEW s \in Seq(Messages), s # <<>>, NEW atoms
  PROVE  /\ CountIn(s, atoms) \in Nat /\ CountIn(Tail(s), atoms) \in Nat
         /\ Head(s).atom \in atoms => CountIn(s, atoms) = CountIn(Tail(s), atoms) + 1
         /\ Head(s).atom \notin atoms => CountIn(s, atoms) = CountIn(Tail(s), atoms)
<1>1. PICK r \in Seq(Messages) : r = Tail(s)
  BY HeadTailProperties
<1>2. Head(s) \in Messages
  BY HeadTailProperties
<1>3. /\ CountIn(s, atoms) = Tally(s, Counted(atoms)) /\ CountIn(s, atoms) \in Nat
      /\ CountIn(r, atoms) = Tally(r, Counted(atoms)) /\ CountIn(r, atoms) \in Nat
  BY CountIsTally
<1>4. Tally(s, Counted(atoms)) =
        Tally(r, Counted(atoms)) + (IF Head(s) \in Counted(atoms) THEN 1 ELSE 0)
  BY <1>1, TakenTally
<1>5. Head(s) \in Counted(atoms) <=> Head(s).atom \in atoms
  BY <1>2 DEF Counted
<1> QED
  BY <1>1, <1>3, <1>4, <1>5

\* Counting after messages have been added.
LEMMA ConcatCount ==
  ASSUME NEW s \in Seq(Messages), NEW t \in Seq(Messages), NEW atoms
  PROVE  /\ CountIn(s, atoms) \in Nat /\ CountIn(t, atoms) \in Nat
         /\ CountIn(s \o t, atoms) = CountIn(s, atoms) + CountIn(t, atoms)
<1>1. PICK r \in Seq(Messages) : r = s \o t
  BY ConcatProperties
<1>2. /\ CountIn(s, atoms) = Tally(s, Counted(atoms)) /\ CountIn(s, atoms) \in Nat
      /\ CountIn(t, atoms) = Tally(t, Counted(atoms)) /\ CountIn(t, atoms) \in Nat
      /\ CountIn(r, atoms) = Tally(r, Counted(atoms)) /\ CountIn(r, atoms) \in Nat
  BY CountIsTally
<1>3. Tally(r, Counted(atoms)) = Tally(s, Counted(atoms)) + Tally(t, Counted(atoms))
  BY <1>1, AddedTally
<1> QED
  BY <1>1, <1>2, <1>3

\* Counting in the lists of messages that handlers send.
LEMMA ListCount ==
  ASSUME NEW atoms
  PROVE  /\ CountIn(<<>>, atoms) = 0
         /\ \A m \in Messages : /\ m.atom \in atoms => CountIn(<<m>>, atoms) = 1
                                /\ m.atom \notin atoms => CountIn(<<m>>, atoms) = 0
         /\ \A m, n \in Messages :
              /\ m.atom \notin atoms /\ n.atom \in atoms => CountIn(<<m, n>>, atoms) = 1
              /\ m.atom \notin atoms /\ n.atom \notin atoms => CountIn(<<m, n>>, atoms) = 0
<1>1. CountIn(<<>>, atoms) = 0
  <2>1. {i \in DOMAIN <<>> : <<>>[i].atom \in atoms} = {}
    OBVIOUS
  <2> QED
    BY <2>1, FS_EmptySet DEF CountIn
<1>2. ASSUME NEW m \in Messages
      PROVE  /\ m.atom \in atoms => CountIn(<<m>>, atoms) = 1
             /\ m.atom \notin atoms => CountIn(<<m>>, atoms) = 0
  <2>0. <<m>> \in Seq(Messages)
    OBVIOUS
  <2>1. PICK s \in Seq(Messages) : s = <<m>>
    BY <2>0
  <2>2. s # <<>> /\ Tail(s) = <<>> /\ Head(s) = m
    BY <2>1
  <2>3. /\ Head(s).atom \in atoms => CountIn(s, atoms) = CountIn(Tail(s), atoms) + 1
        /\ Head(s).atom \notin atoms => CountIn(s, atoms) = CountIn(Tail(s), atoms)
    BY <2>2, TailCount
  <2> QED
    BY <1>1, <2>1, <2>2, <2>3
<1>3. ASSUME NEW m \in Messages, NEW n \in Messages
      PROVE  /\ m.atom \notin atoms /\ n.atom \in atoms => CountIn(<<m, n>>, atoms) = 1
             /\ m.atom \notin atoms /\ n.atom \notin atoms => CountIn(<<m, n>>, atoms) = 0
  <2>0. <<m, n>> \in Seq(Messages)
    OBVIOUS
  <2>1. PICK s \in Seq(Messages) : s = <<m, n>>
    BY <2>0
  <2>2. s # <<>> /\ Tail(s) = <<n>> /\ Head(s) = m
    BY <2>1
  <2>3. Head(s).atom \notin atoms => CountIn(s, atoms) = CountIn(Tail(s), atoms)
    BY <2>2, TailCount
  <2> QED
    BY <1>2, <2>1, <2>2, <2>3
<1> QED
  BY <1>1, <1>2, <1>3
-----------------------------------------------------------------------------
(***************************************************************************)
(* The mailboxes of a session together.                                    *)
(***************************************************************************)
Total(box) == CountIn(box["Connection"], Due) + CountIn(box["Command"], Due)
                + CountIn(box["Login"], Due) + CountIn(box["Default"], Due)

\* The counts are numbers.
LEMMA TotalType ==
  ASSUME NEW box \in Boxes
  PROVE  Total(box) \in Nat /\ \A a \in Actors : CountIn(box[a], Due) \in Nat
<1>1. \A a \in Actors : CountIn(box[a], Due) \in Nat
  BY CountIsTally DEF Boxes
<1>2. "Connection" \in Actors /\ "Command" \in Actors /\ "Login" \in Actors /\ "Default" \in Actors
  BY DEF Actors
<1> QED
  BY <1>1, <1>2 DEF Total

\* Only the mailbox of a changes.
LEMMA TotalMoves ==
  ASSUME NEW box \in Boxes, NEW box2 \in Boxes, NEW a \in Actors, NEW n \in Nat,
         \A x \in Actors \ {a} : box2[x] = box[x],
         CountIn(box2[a], Due) = CountIn(box[a], Due) + n
  PROVE  Total(box2) = Total(box) + n
<1>1. PICK c, d, e, f : /\ c = CountIn(box["Connection"], Due) /\ d = CountIn(box["Command"], Due)
                        /\ e = CountIn(box["Login"], Due) /\ f = CountIn(box["Default"], Due)
  OBVIOUS
<1>2. c \in Nat /\ d \in Nat /\ e \in Nat /\ f \in Nat /\ Total(box) = c + d + e + f
  BY <1>1, TotalType DEF Actors, Total
<1>3. CASE a = "Connection"
  <2>1. /\ CountIn(box2["Connection"], Due) = c + n /\ CountIn(box2["Command"], Due) = d
        /\ CountIn(box2["Login"], Due) = e /\ CountIn(box2["Default"], Due) = f
    BY <1>1, <1>3 DEF Actors
  <2> QED
    BY <1>2, <2>1 DEF Total
<1>4. CASE a = "Command"
  <2>1. /\ CountIn(box2["Connection"], Due) = c /\ CountIn(box2["Command"], Due) = d + n
        /\ CountIn(box2["Login"], Due) = e /\ CountIn(box2["Default"], Due) = f
    BY <1>1, <1>4 DEF Actors
  <2> QED
    BY <1>2, <2>1 DEF Total
<1>5. CASE a = "Login"
  <2>1. /\ CountIn(box2["Connection"], Due) = c /\ CountIn(box2["Command"], Due) = d
        /\ CountIn(box2["Login"], Due) = e + n /\ CountIn(box2["Default"], Due) = f
    BY <1>1, <1>5 DEF Actors
  <2> QED
    BY <1>2, <2>1 DEF Total
<1>6. CASE a = "Default"
  <2>1. /\ CountIn(box2["Connection"], Due) = c /\ CountIn(box2["Command"], Due) = d
        /\ CountIn(box2["Login"], Due) = e /\ CountIn(box2["Default"], Due) = f + n
    BY <1>1, <1>6 DEF Actors
  <2> QED
    BY <1>2, <2>1 DEF Total
<1> QED
  BY <1>3, <1>4, <1>5, <1>6 DEF Actors

\* A message taken out lowers the count of its kind by one.
LEMMA ConsumedTotal ==
  ASSUME mbox \in Boxes, NEW self \in Actors, NEW atom, Receives(self, atom)
  PROVE  /\ Consumed(self) \in Boxes /\ Total(Consumed(self)) \in Nat /\ Total(mbox) \in Nat
         /\ atom \in Due => Total(mbox) = Total(Consumed(self)) + 1
         /\ atom \notin Due => Total(mbox) = Total(Consumed(self))
<1>1. PICK box : box = Consumed(self)
  OBVIOUS
<1>2. box \in Boxes /\ mbox[self] \in Seq(Messages) /\ mbox[self] # <<>>
      /\ Head(mbox[self]).atom = atom
  BY <1>1, HeadIsMessage DEF Receives, Boxes
<1>3. box[self] = Tail(mbox[self]) /\ \A x \in Actors \ {self} : mbox[x] = box[x]
  BY <1>1 DEF Consumed, Boxes
<1>4. /\ CountIn(mbox[self], Due) \in Nat /\ CountIn(box[self], Due) \in Nat
      /\ atom \in Due => CountIn(mbox[self], Due) = CountIn(box[self], Due) + 1
      /\ atom \notin Due => CountIn(mbox[self], Due) = CountIn(box[self], Due)
  BY <1>2, <1>3, TailCount
<1>5. CASE atom \in Due
  <2>1. Total(mbox) = Total(box) + 1
    BY <1>2, <1>3, <1>4, <1>5, TotalMoves
  <2> QED
    BY <1>1, <1>2, <1>5, <2>1, TotalType
<1>6. CASE atom \notin Due
  <2>0. CountIn(mbox[self], Due) = CountIn(box[self], Due) + 0
    BY <1>4, <1>6
  <2>1. Total(mbox) = Total(box) + 0
    BY <1>2, <1>3, <2>0, TotalMoves
  <2> QED
    BY <1>1, <1>2, <1>6, <2>1, TotalType
<1> QED
  BY <1>5, <1>6

\* Messages sent raise the count by as many of them as are due.
LEMMA SentTotal ==
  ASSUME NEW box \in Boxes, NEW dst \in Actors, Up(dst), NEW msgs \in Seq(Messages)
  PROVE  /\ Sent(box, dst, msgs) \in Boxes /\ Total(box) \in Nat
         /\ CountIn(msgs, Due) \in Nat
         /\ Total(Sent(box, dst, msgs)) = Total(box) + CountIn(msgs, Due)
<1>1. PICK box2 : box2 = Sent(box, dst, msgs)
  OBVIOUS
<1>2. box2 \in Boxes
  BY <1>1, SentIsBox
<1>3. box2[dst] = box[dst] \o msgs /\ \A x \in Actors \ {dst} : box2[x] = box[x]
  BY <1>1 DEF Sent, Boxes, Up
<1>4. PICK n \in Nat : n = CountIn(msgs, Due)
  BY CountIsTally
<1>5. CountIn(box2[dst], Due) = CountIn(box[dst], Due) + n
  <2>1. box[dst] \in Seq(Messages)
    BY DEF Boxes
  <2> QED
    BY <1>3, <1>4, <2>1, ConcatCount
<1>6. Total(box2) = Total(box) + n
  BY <1>2, <1>3, <1>5, TotalMoves
<1> QED
  BY <1>1, <1>2, <1>4, <1>6, TotalType

\* An actor handles a message.
LEMMA HandledTotal ==
  ASSUME mbox \in Boxes, NEW self \in Actors, NEW atom, Receives(self, atom),
         NEW dst \in Actors, Up(dst), NEW msgs \in Seq(Messages), Handles(self, dst, msgs)
  PROVE  /\ Total(mbox) \in Nat /\ Total(mbox') \in Nat
         /\ atom \in Due => Total(mbox') + 1 = Total(mbox) + CountIn(msgs, Due)
         /\ atom \notin Due => Total(mbox') = Total(mbox) + CountIn(msgs, Due)
<1>1. PICK box : box = Consumed(self)
  OBVIOUS
<1>2. /\ box \in Boxes /\ Total(box) \in Nat /\ Total(mbox) \in Nat
      /\ atom \in Due => Total(mbox) = Total(box) + 1
      /\ atom \notin Due => Total(mbox) = Total(box)
  BY <1>1, ConsumedTotal
<1>3. mbox' = Sent(box, dst, msgs)
  BY <1>1 DEF Handles
<1>4. /\ mbox' \in Boxes /\ CountIn(msgs, Due) \in Nat
      /\ Total(mbox') = Total(box) + CountIn(msgs, Due)
  BY <1>2, <1>3, SentTotal
<1> QED
  BY <1>2, <1>4
\* What a handler does to each mailbox.
LEMMA HandlesBoxes ==
  ASSUME mbox \in Boxes, NEW self \in Actors, NEW atom, Receives(self, atom),
         NEW dst \in Actors, NEW msgs \in Seq(Messages), Handles(self, dst, msgs)
  PROVE  /\ \A x \in Actors \ {self, dst} : mbox'[x] = mbox[x]
         /\ self # dst => mbox'[self] = Tail(mbox[self])
         /\ self # dst /\ Up(dst) => mbox'[dst] = mbox[dst] \o msgs
         /\ self # dst /\ ~Up(dst) => mbox'[dst] = mbox[dst]
         /\ self = dst => mbox'[self] = Tail(mbox[self]) \o msgs
         /\ mbox[self] \in Seq(Messages) /\ mbox[self] # <<>> /\ Head(mbox[self]).atom = atom
         /\ mbox[dst] \in Seq(Messages) /\ Tail(mbox[self]) \in Seq(Messages)
         /\ Up(self) /\ UNCHANGED status
<1>1. /\ mbox[self] \in Seq(Messages) /\ mbox[self] # <<>> /\ Head(mbox[self]).atom = atom
      /\ mbox[dst] \in Seq(Messages) /\ Up(self) /\ UNCHANGED status
  BY DEF Boxes, Receives, Up, Handles
<1>2. Tail(mbox[self]) \in Seq(Messages)
  BY <1>1, HeadTailProperties
<1>3. PICK box : box = Consumed(self)
  OBVIOUS
<1>4. box \in Boxes /\ box[self] = Tail(mbox[self]) /\ \A x \in Actors \ {self} : box[x] = mbox[x]
  BY <1>1, <1>3, HeadIsMessage DEF Consumed, Boxes
<1>5. mbox' = Sent(box, dst, msgs)
  BY <1>3 DEF Handles
<1>6. /\ \A x \in Actors \ {dst} : mbox'[x] = box[x]
      /\ Up(dst) => mbox'[dst] = box[dst] \o msgs
      /\ ~Up(dst) => mbox'[dst] = box[dst]
  BY <1>4, <1>5 DEF Sent, Boxes, Up
<1> QED
  BY <1>1, <1>2, <1>4, <1>6
-----------------------------------------------------------------------------
(***************************************************************************)
(* The kinds of step.                                                      *)
(***************************************************************************)
\* A handler that takes a message and sends some to one actor.  It answers what it
\* owes an answer to, only the CommandActor writes to the LoginController, and the
\* ConnectionActor goes on polling or says goodbye to itself.
Plain(self, atom, dst, msgs) ==
  /\ Receives(self, atom) /\ Handles(self, dst, msgs)
  /\ UNCHANGED <<lines, welcomed>>
  /\ Once /\ Up("Connection") => Up(dst)
  /\ \/ atom \in Due /\ CountIn(msgs, Due) = 1 /\ prompts' = prompts
     \/ atom \notin Due /\ CountIn(msgs, Due) = 0 /\ prompts' = prompts
     \/ atom \in Due /\ CountIn(msgs, Due) = 0 /\ prompts' = prompts + 1
  /\ dst = "Login" => /\ self = "Command" /\ m_active_controller = "Login"
                      /\ ~HasIn(msgs, "exit")
  /\ self # "Connection" => CountIn(msgs, Polls) = 0 /\ prompts' = prompts
  /\ self = "Connection" =>
       \/ atom = "GoodbyeConnection" /\ dst = "Connection" /\ HasIn(msgs, "exit")
       \/ atom = "FromUserGetInput" /\ dst = "Connection" /\ HasIn(msgs, "GoodbyeConnection")
       \/ /\ atom = "FromUserGetInput" /\ dst = "Connection"
          /\ CountIn(msgs, Polls) = 1 /\ prompts' = prompts
       \/ /\ atom = "ToUserPrompt" /\ dst = "Connection"
          /\ CountIn(msgs, Polls) = 1 /\ prompts' = prompts + 1
       \/ /\ atom \notin {"FromUserGetInput", "GoodbyeConnection", "exit"}
          /\ CountIn(msgs, Polls) = 0 /\ prompts' = prompts

\* What the lists of messages count for.
LEMMA OneSent ==
  ASSUME NEW m \in Messages
  PROVE  /\ <<m>> \in Seq(Messages)
         /\ m.atom \in Due => CountIn(<<m>>, Due) = 1
         /\ m.atom \notin Due => CountIn(<<m>>, Due) = 0
         /\ m.atom \in Polls => CountIn(<<m>>, Polls) = 1
         /\ m.atom \notin Polls => CountIn(<<m>>, Polls) = 0
         /\ \A x : HasIn(<<m>>, x) <=> m.atom = x
<1>1. <<m>> \in Seq(Messages)
  OBVIOUS
<1>2. m.atom \in Due => CountIn(<<m>>, Due) = 1
  BY ListCount
<1>3. m.atom \notin Due => CountIn(<<m>>, Due) = 0
  BY ListCount
<1>4. m.atom \in Polls => CountIn(<<m>>, Polls) = 1
  BY ListCount
<1>5. m.atom \notin Polls => CountIn(<<m>>, Polls) = 0
  BY ListCount
<1>6. \A x : HasIn(<<m>>, x) <=> m.atom = x
  BY ListHas
<1> QED
  BY <1>1, <1>2, <1>3, <1>4, <1>5, <1>6

\* The count of two messages of which the second may be due.
LEMMA TwoSent ==
  ASSUME NEW m \in Messages, NEW n \in Messages, m.atom \notin Due, m.atom \notin Polls
  PROVE  /\ <<m, n>> \in Seq(Messages)
         /\ n.atom \in Due => CountIn(<<m, n>>, Due) = 1
         /\ n.atom \notin Polls => CountIn(<<m, n>>, Polls) = 0
<1>1. <<m, n>> \in Seq(Messages)
  OBVIOUS
<1>2. n.atom \in Due => CountIn(<<m, n>>, Due) = 1
  BY ListCount
<1>3. n.atom \notin Polls => CountIn(<<m, n>>, Polls) = 0
  BY ListCount
<1> QED
  BY <1>1, <1>2, <1>3

\* Every step of the Connection passes messages on, but for two.
LEMMA ConnectionKinds ==
  ASSUME TypeOK, SessionInv, Connection
  PROVE  \/ ConnExit \/ \E l \in Typed : PollLine(l)
         \/ \E atom \in Atoms, dst \in Actors, msgs \in Seq(Messages) :
              Plain("Connection", atom, dst, msgs)
<1> DEFINE P == \E atom \in Atoms, dst \in Actors, msgs \in Seq(Messages) :
                  Plain("Connection", atom, dst, msgs)
<1> USE DEF Due, Polls, connVars, envVars
<1>a. "Connection" \in Actors /\ "Command" \in Actors
  BY DEF Actors
<1>u. Up("Connection") => Up("Command")
  BY DEF SessionInv, CommandServes
<1>m. \A a \in {"PerformWelcome", "FromUserGetInput", "GoodbyeConnection", "exit"} :
        Msg(a) \in Messages /\ Msg(a).atom = a
  BY MessageTypes, MessageAtoms
<1>1. CASE ConnPerformWelcome
  <2>1. Plain("Connection", "PerformWelcome", "Command", <<Msg("PerformWelcome")>>)
    BY <1>1, <1>m, <1>u, OneSent DEF ConnPerformWelcome, Plain
  <2>2. <<Msg("PerformWelcome")>> \in Seq(Messages)
    BY <1>m, OneSent
  <2> QED
    BY <1>a, <2>1, <2>2 DEF Atoms
<1>2. CASE ConnToUserEmit
  <2>1. Plain("Connection", "ToUserEmit", "Connection", <<>>)
    BY <1>2, ListCount DEF ConnToUserEmit, Plain
  <2>2. <<>> \in Seq(Messages)
    BY EmptySeq
  <2> QED
    BY <1>a, <2>1, <2>2 DEF Atoms
<1>3. ASSUME NEW atom \in {"ToUserPrompt", "FromUserGetInput", "GoodbyeConnection"},
             NEW next \in {"FromUserGetInput", "GoodbyeConnection", "exit"},
             Receives("Connection", atom), Handles("Connection", "Connection", <<Msg(next)>>),
             UNCHANGED <<lines, welcomed>>,
             \/ atom = "ToUserPrompt" /\ next = "FromUserGetInput" /\ prompts' = prompts + 1
             \/ atom = "FromUserGetInput" /\ next # "exit" /\ UNCHANGED prompts
             \/ atom = "GoodbyeConnection" /\ next = "exit" /\ UNCHANGED prompts
      PROVE  P
  <2>1. Plain("Connection", atom, "Connection", <<Msg(next)>>)
    BY <1>3, <1>m, OneSent DEF Plain
  <2>2. <<Msg(next)>> \in Seq(Messages) /\ atom \in Atoms
    BY <1>m, OneSent DEF Atoms
  <2> QED
    BY <1>a, <2>1, <2>2
<1> HIDE DEF P
<1>4. ASSUME ConnToUserPrompt PROVE P
  BY <1>3, <1>4 DEF ConnToUserPrompt
<1>5. ASSUME PollNoData PROVE P
  BY <1>3, <1>5 DEF PollNoData
<1>6. ASSUME PollBreak PROVE P
  BY <1>3, <1>6 DEF PollBreak, PollFindsData
<1>7. ASSUME PollFragment \/ PollQuit PROVE P
  BY <1>3, <1>7 DEF PollFragment, PollQuit, PollFindsData
<1>8. ASSUME ConnGoodbyeConnection PROVE P
  BY <1>3, <1>8 DEF ConnGoodbyeConnection
<1>9. ConnExit \/ (\E l \in Typed : PollLine(l)) \/ P
  BY <1>1, <1>2, <1>4, <1>5, <1>6, <1>7, <1>8 DEF Connection, P
<1> QED
  BY <1>9 DEF P

\* Every step of the Command passes messages on, but for three.
LEMMA CommandKinds ==
  ASSUME TypeOK, SessionInv, Command
  PROVE  \/ CmdPerformWelcome \/ CmdLoginControllerEnd \/ CmdExit
         \/ \E atom \in Atoms, dst \in Actors, msgs \in Seq(Messages) :
              Plain("Command", atom, dst, msgs)
<1> USE DEF Due, Polls, connVars, envVars
<1>a. "Connection" \in Actors /\ "Command" \in Actors /\ "Login" \in Actors /\ "Default" \in Actors
  BY DEF Actors
<1>b. mbox \in Boxes
  BY DEF TypeOK, Boxes
<1>m. /\ \A p \in Prompts : Prompt(p) \in Messages /\ Prompt(p).atom = "ToUserPrompt"
      /\ \A e \in Emissions : Emit(e) \in Messages /\ Emit(e).atom = "ToUserEmit"
      /\ \A l \in Typed : Input(l) \in Messages /\ Input(l).atom = "OnUserInput"
  BY MessageTypes, MessageAtoms
<1>1. CASE CmdOnUserInput
  <2>1. Receives("Command", "OnUserInput") /\ Arg("Command") \in Typed
    BY <1>1, <1>a, <1>b, ReceivedArg DEF CmdOnUserInput
  <2>2. HasIn(mbox["Command"], "OnUserInput") /\ status["Command"] = "up"
    BY <1>a, <1>b, <2>1, TailHas DEF Receives, Boxes
  <2>3. status["Login"] # "none" /\ m_active_controller \in {"Login", "Default"}
    BY <2>2 DEF SessionInv, LoginComesFirst, HandOver, Has, Up, TypeOK
  <2>4. Once => Up(m_active_controller)
    BY <2>2, <2>3 DEF SessionInv, HandOver, EndsOnce, Up
  <2>5. PICK in \in Messages : in = Input(Arg("Command")) /\ in.atom = "OnUserInput"
    BY <1>m, <2>1
  <2>6. Handles("Command", m_active_controller, <<in>>) /\ UNCHANGED <<lines, welcomed, prompts>>
    BY <1>1, <2>3, <2>5 DEF CmdOnUserInput
  <2>7. PICK c \in Actors : c = m_active_controller
    BY <1>a, <2>3
  <2>8. Plain("Command", "OnUserInput", c, <<in>>)
    BY <2>1, <2>4, <2>5, <2>6, <2>7, OneSent DEF Plain
  <2>9. <<in>> \in Seq(Messages)
    BY OneSent
  <2> QED
    BY <2>8, <2>9 DEF Atoms
<1>2. CASE CmdToUserPrompt
  <2>1. Receives("Command", "ToUserPrompt") /\ Arg("Command") \in Prompts
    BY <1>2, <1>a, <1>b, ReceivedArg DEF CmdToUserPrompt
  <2>2. PICK m \in Messages : m = Prompt(Arg("Command")) /\ m.atom = "ToUserPrompt"
    BY <1>m, <2>1
  <2>3. Plain("Command", "ToUserPrompt", "Connection", <<m>>)
    BY <1>2, <2>2, OneSent DEF Plain, CmdToUserPrompt
  <2>4. <<m>> \in Seq(Messages)
    BY OneSent
  <2> QED
    BY <1>a, <2>3, <2>4 DEF Atoms
<1>3. CASE CmdToUserEmit
  <2>1. Receives("Command", "ToUserEmit") /\ Arg("Command") \in Emissions
    BY <1>3, <1>a, <1>b, ReceivedArg DEF CmdToUserEmit
  <2>2. PICK m \in Messages : m = Emit(Arg("Command")) /\ m.atom = "ToUserEmit"
    BY <1>m, <2>1
  <2>3. Plain("Command", "ToUserEmit", "Connection", <<m>>)
    BY <1>3, <2>2, OneSent DEF Plain, CmdToUserEmit
  <2>4. <<m>> \in Seq(Messages)
    BY OneSent
  <2> QED
    BY <1>a, <2>3, <2>4 DEF Atoms
<1> QED
  BY <1>1, <1>2, <1>3 DEF Command

\* Every step of a controller answers the Command, but for its end.
LEMMA ControllerKinds ==
  ASSUME TypeOK, SessionInv, Login \/ Default
  PROVE  \/ LoginExit \/ DefaultExit
         \/ \E self \in {"Login", "Default"}, atom \in Atoms, msgs \in Seq(Messages) :
              Plain(self, atom, "Command", msgs)
<1> USE DEF Due, Polls, connVars, envVars
<1>u. Up("Connection") => Up("Command")
  BY DEF SessionInv, CommandServes
<1>m. /\ Msg("LoginControllerEnd") \in Messages
      /\ Msg("LoginControllerEnd").atom = "LoginControllerEnd"
      /\ \A p \in Prompts : Prompt(p) \in Messages /\ Prompt(p).atom = "ToUserPrompt"
      /\ \A e \in Emissions : Emit(e) \in Messages /\ Emit(e).atom = "ToUserEmit"
  BY MessageTypes, MessageAtoms
<1>1. ASSUME NEW self \in {"Login", "Default"}, NEW atom \in {"LoginControllerStart", "OnUserInput"},
             NEW p \in Prompts, Receives(self, atom), Handles(self, "Command", <<Prompt(p)>>),
             UNCHANGED <<lines, welcomed, prompts>>
      PROVE  \E msgs \in Seq(Messages) : Plain(self, atom, "Command", msgs)
  <2>1. PICK m \in Messages : m = Prompt(p) /\ m.atom = "ToUserPrompt"
    BY <1>m
  <2>2. Plain(self, atom, "Command", <<m>>)
    BY <1>1, <1>u, <2>1, OneSent DEF Plain
  <2> QED
    BY <2>2, OneSent
<1>2. ASSUME NEW self \in {"Login", "Default"}, NEW e \in Emissions, NEW n \in Messages,
             n.atom \in {"ToUserPrompt", "LoginControllerEnd"},
             Receives(self, "OnUserInput"), Handles(self, "Command", <<Emit(e), n>>),
             UNCHANGED <<lines, welcomed, prompts>>
      PROVE  \E msgs \in Seq(Messages) : Plain(self, "OnUserInput", "Command", msgs)
  <2>1. PICK m \in Messages : m = Emit(e) /\ m.atom = "ToUserEmit"
    BY <1>m
  <2>2. /\ <<m, n>> \in Seq(Messages) /\ CountIn(<<m, n>>, Due) = 1
        /\ CountIn(<<m, n>>, Polls) = 0
    BY <1>2, <2>1, TwoSent
  <2>3. Plain(self, "OnUserInput", "Command", <<m, n>>)
    BY <1>2, <1>u, <2>1, <2>2 DEF Plain
  <2> QED
    BY <2>2, <2>3
<1>p. /\ "enter username" \in Prompts /\ "enter password" \in Prompts
      /\ "confirm password" \in Prompts /\ "pmud" \in Prompts
      /\ "suppress echo" \in Emissions /\ "welcome" \in Emissions
      /\ "mismatch" \in Emissions /\ "reply" \in Emissions
  BY DEF Prompts, Emissions
<1>3. CASE LoginStart
  BY <1>1, <1>3, <1>p DEF LoginStart, Atoms
<1>4. CASE LoginTakesUsername
  BY <1>2, <1>4, <1>m, <1>p DEF LoginTakesUsername, Atoms
<1>5. CASE LoginTakesPassword
  BY <1>1, <1>5, <1>p DEF LoginTakesPassword, Atoms
<1>6. CASE LoginConfirmed
  BY <1>2, <1>6, <1>m, <1>p DEF LoginConfirmed, Atoms
<1>7. CASE LoginMismatch
  BY <1>2, <1>7, <1>m, <1>p DEF LoginMismatch, Atoms
<1>8. CASE DefaultOnUserInput
  <2>1. CASE Arg("Default") = Empty
    BY <1>1, <1>8, <1>p, <2>1 DEF DefaultOnUserInput, Atoms
  <2>2. CASE Arg("Default") # Empty
    BY <1>2, <1>8, <1>m, <1>p, <2>2 DEF DefaultOnUserInput, Atoms
  <2> QED
    BY <2>1, <2>2
<1> QED
  BY <1>3, <1>4, <1>5, <1>6, <1>7, <1>8 DEF Login, Default
-----------------------------------------------------------------------------
(***************************************************************************)
(* The inductive invariant.  Nothing that is owed an answer lies behind    *)
(* the message that ends the LoginController, so that nothing is lost with *)
(* its mailbox.  A login confirmed again ends the DefaultController too,   *)
(* and what is sent to that one then is lost; the polls go on regardless.  *)
(***************************************************************************)
ExitLast(s) == \A i, j \in DOMAIN s : s[i].atom = "exit" /\ i < j => s[j].atom \notin Due

Counting ==
  Up("Connection") =>
    /\ Once => /\ ExitLast(mbox["Login"])
               /\ prompts + Total(mbox) = lines + (IF welcomed THEN 1 ELSE 0)
    /\ ~Closing => CountIn(mbox["Connection"], Polls) = prompts

\* What has been recorded stays recorded.
LEMMA OnceKept ==
  ASSUME TypeOK, [Next]_vars, Once'
  PROVE  Once
<1> USE DEF connVars, cmdVars, loginVars, envVars
<1>1. CASE recorded' = recorded
  BY <1>1 DEF Once
<1>2. CASE LoginConfirmed
  <2>1. recorded \in Seq(Accounts) /\ username = Name /\ password \in Lines \ {Empty}
    BY <1>2 DEF LoginConfirmed, TypeOK
  <2>2. [username |-> username, passphrase |-> password] \in Accounts
    BY <2>1 DEF Accounts
  <2>3. PICK account \in Accounts : recorded' = Append(recorded, account)
    BY <1>2, <2>2 DEF LoginConfirmed
  <2>4. Len(recorded) \in Nat /\ Len(recorded') = Len(recorded) + 1
    BY <2>1, <2>3, RecordedMore
  <2> QED
    BY <2>4 DEF Once
<1>3. CASE Connection
  BY <1>1, <1>3 DEF Connection, ConnPerformWelcome, ConnToUserEmit, ConnToUserPrompt,
       PollNoData, PollFindsData, PollBreak, PollFragment, PollQuit, PollLine,
       ConnGoodbyeConnection, ConnExit
<1>4. CASE Command
  BY <1>1, <1>4 DEF Command, CmdPerformWelcome, CmdOnUserInput, CmdToUserPrompt,
       CmdToUserEmit, CmdLoginControllerEnd, CmdExit
<1>5. CASE Login
  BY <1>1, <1>2, <1>5 DEF Login, LoginStart, LoginTakesUsername, LoginTakesPassword,
       LoginMismatch, LoginExit
<1>6. CASE Default
  BY <1>1, <1>6 DEF Default, DefaultOnUserInput, DefaultExit
<1>7. CASE Environment
  BY <1>1, <1>7 DEF Environment, ServerWelcome, MainGoodbye
<1>8. CASE UNCHANGED vars
  BY <1>1, <1>8 DEF vars
<1> QED
  BY <1>3, <1>4, <1>5, <1>6, <1>7, <1>8 DEF Next

\* In a mailbox without an exit nothing follows one.
LEMMA ExitFree ==
  ASSUME NEW s \in Seq(Messages), ~HasIn(s, "exit")
  PROVE  ExitLast(s)
BY DEF ExitLast, HasIn

\* An exit that is the last message stays the last one.
LEMMA TailExitLast ==
  ASSUME NEW s \in Seq(Messages), s # <<>>, ExitLast(s)
  PROVE  ExitLast(Tail(s))
<1>1. Tail(s) \in Seq(Messages)
  BY HeadTailProperties
<1>2. /\ Len(s) \in Nat /\ Len(s) > 0 /\ Len(Tail(s)) = Len(s) - 1
      /\ \A i \in 1..Len(Tail(s)) : Tail(s)[i] = s[i + 1]
  BY HeadTailProperties, EmptySeq, LenProperties
<1>3. DOMAIN s = 1..Len(s) /\ DOMAIN Tail(s) = 1..(Len(s) - 1)
  BY <1>1, <1>2
<1> SUFFICES ASSUME NEW i \in DOMAIN Tail(s), NEW j \in DOMAIN Tail(s),
                    Tail(s)[i].atom = "exit", i < j
             PROVE  Tail(s)[j].atom \notin Due
  BY DEF ExitLast
<1>4. /\ i + 1 \in DOMAIN s /\ Tail(s)[i] = s[i + 1]
      /\ j + 1 \in DOMAIN s /\ Tail(s)[j] = s[j + 1] /\ i + 1 < j + 1
  BY <1>2, <1>3
<1> QED
  BY <1>4 DEF ExitLast

\* A mailbox is told to exit once.
LEMMA ExitAdded ==
  ASSUME NEW s \in Seq(Messages), ~HasIn(s, "exit"), NEW m \in Messages
  PROVE  ExitLast(s \o <<m>>)
<1>1. Len(s) \in Nat /\ DOMAIN s = 1..Len(s)
  BY LenProperties
<1>2. DOMAIN (s \o <<m>>) = 1..(Len(s) + 1)
  BY <1>1
<1>3. \A i \in 1..Len(s) : (s \o <<m>>)[i] = s[i]
  BY <1>1
<1> SUFFICES ASSUME NEW i \in 1..(Len(s) + 1), NEW j \in 1..(Len(s) + 1),
                    (s \o <<m>>)[i].atom = "exit", i < j
             PROVE  FALSE
  BY <1>2 DEF ExitLast
<1>4. i \in 1..Len(s)
  BY <1>1
<1> QED
  BY <1>1, <1>3, <1>4 DEF HasIn

\* Nothing is owed by a mailbox whose first message is an exit.
LEMMA ExitFirst ==
  ASSUME NEW s \in Seq(Messages), s # <<>>, ExitLast(s), Head(s).atom = "exit"
  PROVE  CountIn(s, Due) = 0
<1>1. Len(s) \in Nat /\ Len(s) > 0 /\ DOMAIN s = 1..Len(s) /\ Head(s) = s[1]
  BY HeadTailProperties, EmptySeq, LenProperties
<1>2. \A i \in DOMAIN s : s[i].atom \notin Due
  <2> SUFFICES ASSUME NEW i \in DOMAIN s
               PROVE  s[i].atom \notin Due
    OBVIOUS
  <2>1. CASE i = 1
    BY <1>1, <2>1 DEF Due
  <2>2. CASE 1 < i
    BY <1>1, <2>2 DEF ExitLast
  <2> QED
    BY <1>1, <2>1, <2>2
<1>3. {i \in DOMAIN s : s[i].atom \in Due} = {}
  BY <1>2
<1> QED
  BY <1>3, FS_EmptySet DEF CountIn

\* What a handler adds to what was owed.
LEMMA PlainOwes ==
  ASSUME TypeOK, SessionInv, Counting, Once, Up("Connection"),
         NEW self \in Actors, NEW atom \in Atoms, NEW dst \in Actors,
         NEW msgs \in Seq(Messages), Plain(self, atom, dst, msgs)
  PROVE  prompts' + Total(mbox') = lines' + (IF welcomed' THEN 1 ELSE 0)
<1>1. mbox \in Boxes /\ prompts \in Nat
  BY DEF TypeOK, Boxes
<1>2. Receives(self, atom) /\ Handles(self, dst, msgs) /\ Up(dst) /\ lines' = lines
      /\ welcomed' = welcomed
  BY DEF Plain
<1>3. PICK t : t = Total(mbox)
  OBVIOUS
<1>4. PICK u : u = Total(mbox')
  OBVIOUS
<1>5. PICK n : n = CountIn(msgs, Due)
  OBVIOUS
<1>6. /\ t \in Nat /\ u \in Nat
      /\ atom \in Due => u + 1 = t + n
      /\ atom \notin Due => u = t + n
  BY <1>1, <1>2, <1>3, <1>4, <1>5, HandledTotal
<1>7. \/ atom \in Due /\ n = 1 /\ prompts' = prompts
      \/ atom \notin Due /\ n = 0 /\ prompts' = prompts
      \/ atom \in Due /\ n = 0 /\ prompts' = prompts + 1
  BY <1>5 DEF Plain
<1>8. prompts' + u = prompts + t
  BY <1>1, <1>6, <1>7
<1> QED
  BY <1>2, <1>3, <1>4, <1>8 DEF Counting

\* The mailbox of the LoginController.
LEMMA PlainLogin ==
  ASSUME TypeOK, SessionInv, Counting, Once, Up("Connection"),
         NEW self \in Actors, NEW atom \in Atoms, NEW dst \in Actors,
         NEW msgs \in Seq(Messages), Plain(self, atom, dst, msgs)
  PROVE  ExitLast(mbox'["Login"])
<1>1. mbox \in Boxes /\ "Login" \in Actors /\ Receives(self, atom) /\ Handles(self, dst, msgs)
  BY DEF TypeOK, Boxes, Plain, Actors
<1>2. ExitLast(mbox["Login"]) /\ mbox["Login"] \in Seq(Messages)
  BY <1>1 DEF Counting, Boxes
<1>3. CASE self # "Login" /\ dst # "Login"
  <2>1. mbox'["Login"] = mbox["Login"]
    BY <1>1, <1>3, HandlesBoxes
  <2> QED
    BY <1>2, <2>1
<1>4. CASE self = "Login"
  <2>1. dst # "Login"
    BY <1>4 DEF Plain
  <2>2. mbox'["Login"] = Tail(mbox["Login"]) /\ mbox["Login"] # <<>>
    BY <1>1, <1>4, <2>1, HandlesBoxes
  <2> QED
    BY <1>2, <2>2, TailExitLast
<1>5. CASE dst = "Login"
  <2>1. self = "Command" /\ m_active_controller = "Login" /\ ~HasIn(msgs, "exit")
    BY <1>5 DEF Plain
  <2>2. Up("Command")
    BY <1>1, <2>1, HandlesBoxes
  <2>3. Up("Login") /\ ~HasIn(mbox["Login"], "exit")
    BY <2>1, <2>2 DEF SessionInv, HandOver, Has
  <2>4a. self # dst /\ Up(dst)
    BY <1>5, <2>1, <2>3
  <2>4b. mbox'[dst] = mbox[dst] \o msgs
    BY <1>1, <2>4a, HandlesBoxes
  <2>4. mbox'["Login"] = mbox["Login"] \o msgs
    BY <1>5, <2>4b
  <2>5. PICK s \in Seq(Messages) : s = mbox["Login"] \o msgs
    BY <1>2, ConcatProperties
  <2>6. ~HasIn(s, "exit")
    BY <1>2, <2>1, <2>3, <2>5, ConcatHas
  <2> QED
    BY <2>4, <2>5, <2>6, ExitFree
<1> QED
  BY <1>3, <1>4, <1>5
\* The polls in the mailbox of the ConnectionActor.
LEMMA PlainPolls ==
  ASSUME TypeOK, SessionInv, Counting, Up("Connection"),
         NEW self \in Actors, NEW atom \in Atoms, NEW dst \in Actors,
         NEW msgs \in Seq(Messages), Plain(self, atom, dst, msgs)
  PROVE  ~Closing' => CountIn(mbox'["Connection"], Polls) = prompts'
<1> DEFINE Ends(s) == HasIn(s, "GoodbyeConnection") \/ HasIn(s, "exit")
<1>0. mbox \in Boxes /\ "Connection" \in Actors /\ prompts \in Nat
      /\ Receives(self, atom) /\ Handles(self, dst, msgs)
  BY DEF TypeOK, Boxes, Plain, Actors
<1>1. PICK s \in Seq(Messages) : s = mbox["Connection"]
  BY <1>0 DEF Boxes
<1>2. PICK r : r = mbox'["Connection"]
  OBVIOUS
<1>3. ~Ends(s) => CountIn(s, Polls) = prompts
  BY <1>1 DEF Counting, Closing, Has
<1>4. (Closing)' <=> Ends(r)
  BY <1>2 DEF Closing, Has
<1> SUFFICES ASSUME ~Ends(r)
             PROVE  CountIn(r, Polls) = prompts'
  BY <1>2, <1>4
<1>5. CASE self # "Connection"
  <2>1. CountIn(msgs, Polls) = 0 /\ prompts' = prompts
    BY <1>5 DEF Plain
  <2>2. CASE dst = "Connection"
    <3>0. self # dst /\ Up(dst)
      BY <1>5, <2>2
    <3>1. mbox'[dst] = mbox[dst] \o msgs
      BY <1>0, <3>0, HandlesBoxes
    <3>2. r = s \o msgs
      BY <1>1, <1>2, <2>2, <3>1
    <3>3. ~Ends(s)
      BY <3>2, ConcatHas
    <3>4. CountIn(s, Polls) \in Nat /\ CountIn(r, Polls) = CountIn(s, Polls) + CountIn(msgs, Polls)
      BY <3>2, ConcatCount
    <3> QED
      BY <1>3, <2>1, <3>3, <3>4
  <2>3. CASE dst # "Connection"
    <3>1. r = s
      BY <1>0, <1>1, <1>2, <1>5, <2>3, HandlesBoxes
    <3> QED
      BY <1>3, <2>1, <3>1
  <2> QED
    BY <2>2, <2>3
<1>6. CASE self = "Connection"
  <2>0. s # <<>> /\ Head(s).atom = atom /\ Tail(s) \in Seq(Messages)
    BY <1>0, <1>1, <1>6, HandlesBoxes
  <2>1. PICK q \in Seq(Messages) : q = Tail(s)
    BY <2>0
  <2>2. PICK c \in Nat : c = CountIn(s, Polls)
    BY <2>0, TailCount
  <2>3. PICK d \in Nat : d = CountIn(q, Polls)
    BY <2>0, <2>1, TailCount
  <2>4. /\ atom = "FromUserGetInput" => c = d + 1
        /\ atom # "FromUserGetInput" => c = d
    BY <2>0, <2>1, <2>2, <2>3, TailCount DEF Polls
  <2>5. Ends(s) => Ends(q) \/ atom \in {"GoodbyeConnection", "exit"}
    BY <2>0, <2>1, TailHas
  <2>6. CASE dst = "Connection"
    <3>0. self = dst
      BY <1>6, <2>6
    <3>0a. mbox'[self] = Tail(mbox[self]) \o msgs
      BY <1>0, <3>0, HandlesBoxes
    <3>1. r = q \o msgs
      BY <1>1, <1>2, <1>6, <2>1, <3>0a
    <3>2. /\ ~Ends(q) /\ ~Ends(msgs)
      BY <3>1, ConcatHas
    <3>3. PICK n \in Nat : n = CountIn(msgs, Polls)
      BY ConcatCount
    <3>4. CountIn(r, Polls) = d + n
      BY <2>3, <3>1, <3>3, ConcatCount
    <3>5. \/ atom = "FromUserGetInput" /\ n = 1 /\ prompts' = prompts
          \/ atom = "ToUserPrompt" /\ n = 1 /\ prompts' = prompts + 1
          \/ /\ atom \notin {"FromUserGetInput", "GoodbyeConnection", "exit"}
             /\ n = 0 /\ prompts' = prompts
      BY <1>6, <3>2, <3>3 DEF Plain
    <3>6. ~Ends(s)
      BY <2>5, <3>2, <3>5
    <3>7. c = prompts
      BY <1>3, <2>2, <3>6
    <3> QED
      BY <1>0, <2>4, <3>4, <3>5, <3>7
  <2>7. CASE dst # "Connection"
    <3>1. r = q
      BY <1>0, <1>1, <1>2, <1>6, <2>1, <2>7, HandlesBoxes
    <3>2. atom \notin {"FromUserGetInput", "GoodbyeConnection", "exit"} /\ prompts' = prompts
      BY <1>6, <2>7 DEF Plain
    <3>3. ~Ends(s)
      BY <2>5, <3>1, <3>2
    <3> QED
      BY <1>3, <2>2, <2>3, <2>4, <3>1, <3>2, <3>3
  <2> QED
    BY <2>6, <2>7
<1> QED
  BY <1>5, <1>6

\* Passing messages on keeps the counts: what is taken is what is sent.
LEMMA PlainCounts ==
  ASSUME TypeOK, SessionInv, Counting, Once' => Once,
         NEW self \in Actors, NEW atom \in Atoms, NEW dst \in Actors,
         NEW msgs \in Seq(Messages), Plain(self, atom, dst, msgs)
  PROVE  Counting'
<1>1. Up("Connection")' => Up("Connection")
  BY DEF Plain, Handles, Up
<1>2. CASE Up("Connection")
  <2>1. Once' => /\ ExitLast(mbox'["Login"])
                 /\ prompts' + Total(mbox') = lines' + (IF welcomed' THEN 1 ELSE 0)
    BY <1>2, PlainOwes, PlainLogin
  <2>2. ~Closing' => CountIn(mbox'["Connection"], Polls) = prompts'
    BY <1>2, PlainPolls
  <2> QED
    BY <2>1, <2>2 DEF Counting
<1> QED
  BY <1>1, <1>2 DEF Counting
-----------------------------------------------------------------------------
(***************************************************************************)
(* The other steps.                                                        *)
(***************************************************************************)
\* A handler that writes to two actors.
LEMMA TwiceTotal ==
  ASSUME mbox \in Boxes, NEW self \in Actors, NEW atom, Receives(self, atom),
         NEW d1 \in Actors, Up(d1), NEW m1 \in Messages,
         NEW d2 \in Actors, Up(d2), NEW m2 \in Messages,
         mbox' = Sent(Sent(Consumed(self), d1, <<m1>>), d2, <<m2>>)
  PROVE  /\ Total(mbox) \in Nat /\ Total(mbox') \in Nat
         /\ atom \notin Due /\ m1.atom \in Due /\ m2.atom \notin Due
              => Total(mbox') = Total(mbox) + 1
         /\ atom \in Due /\ m1.atom \notin Due /\ m2.atom \in Due
              => Total(mbox') = Total(mbox)
<1>1. PICK box : box = Consumed(self)
  OBVIOUS
<1>2. PICK box1 : box1 = Sent(box, d1, <<m1>>)
  OBVIOUS
<1>3. mbox' = Sent(box1, d2, <<m2>>)
  BY <1>1, <1>2
<1>4. <<m1>> \in Seq(Messages) /\ <<m2>> \in Seq(Messages)
  BY OneSent
<1>5. /\ box \in Boxes /\ Total(box) \in Nat /\ Total(mbox) \in Nat
      /\ atom \in Due => Total(mbox) = Total(box) + 1
      /\ atom \notin Due => Total(mbox) = Total(box)
  BY <1>1, ConsumedTotal
<1>6. PICK n \in Nat : n = CountIn(<<m1>>, Due)
  BY <1>4, <1>5, SentTotal
<1>7. box1 \in Boxes /\ Total(box1) = Total(box) + n
  BY <1>2, <1>4, <1>5, <1>6, SentTotal
<1>8. PICK k \in Nat : k = CountIn(<<m2>>, Due)
  BY <1>4, <1>7, SentTotal
<1>9. mbox' \in Boxes /\ Total(mbox') = Total(box1) + k
  <2>1. PICK g \in Seq(Messages) : g = <<m2>>
    BY <1>4
  <2>2. PICK box2 : box2 = Sent(box1, d2, g)
    OBVIOUS
  <2>3. box2 \in Boxes /\ Total(box2) = Total(box1) + CountIn(g, Due)
    BY <1>7, <2>2, SentTotal
  <2>4. mbox' = box2
    BY <1>3, <2>1, <2>2
  <2> QED
    BY <1>8, <2>1, <2>3, <2>4
<1>10. /\ m1.atom \in Due => n = 1
       /\ m1.atom \notin Due => n = 0
  BY <1>6, OneSent
<1>11. /\ m2.atom \in Due => k = 1
       /\ m2.atom \notin Due => k = 0
  BY <1>8, OneSent
<1>12. Total(box1) \in Nat /\ Total(mbox') \in Nat
  BY <1>5, <1>7, <1>9
<1> QED
  BY <1>5, <1>7, <1>9, <1>10, <1>11, <1>12

\* A line goes to the CommandActor and the polling goes on.
LEMMA LineCounts ==
  ASSUME TypeOK, SessionInv, Counting, Once' => Once, NEW l \in Typed, PollLine(l)
  PROVE  Counting'
<1>1. /\ mbox \in Boxes /\ prompts \in Nat /\ lines \in Nat
      /\ "Connection" \in Actors /\ "Command" \in Actors /\ "Login" \in Actors
  BY DEF TypeOK, Boxes, Actors
<1>2. /\ Receives("Connection", "FromUserGetInput")
      /\ prompts' = prompts /\ welcomed' = welcomed /\ lines' = lines + 1
      /\ UNCHANGED status
  BY DEF PollLine, PollFindsData, envVars
<1>3. Up("Connection") /\ Up("Command")
  BY <1>2 DEF Receives, Up, SessionInv, CommandServes
<1>4. PICK in \in Messages : in = Input(l) /\ in.atom = "OnUserInput"
  BY MessageTypes, MessageAtoms
<1>5. PICK poll \in Messages : poll = Msg("FromUserGetInput") /\ poll.atom = "FromUserGetInput"
  BY MessageTypes, MessageAtoms
<1>6. mbox' = Sent(Sent(Consumed("Connection"), "Command", <<in>>), "Connection", <<poll>>)
  BY <1>4, <1>5 DEF PollLine
<1>7. Total(mbox) \in Nat /\ Total(mbox') = Total(mbox) + 1
  BY <1>1, <1>2, <1>3, <1>4, <1>5, <1>6, TwiceTotal DEF Due
<1>8. PICK t \in Nat : t = Total(mbox)
  BY <1>7
<1>9. Once => prompts' + Total(mbox') = lines' + (IF welcomed' THEN 1 ELSE 0)
  <2> HAVE Once
  <2>1. prompts + t = lines + (IF welcomed THEN 1 ELSE 0)
    BY <1>3, <1>8 DEF Counting
  <2>2. Total(mbox') = t + 1
    BY <1>7, <1>8
  <2> QED
    BY <1>1, <1>2, <2>1, <2>2
<1>10. PICK s \in Seq(Messages) : s = mbox["Connection"]
  BY <1>1 DEF Boxes
<1>11. s # <<>> /\ Head(s).atom = "FromUserGetInput"
  BY <1>2, <1>10 DEF Receives
<1>12. PICK r \in Seq(Messages) : r = Tail(s)
  BY <1>11, HeadTailProperties
<1>13. mbox'["Connection"] = r \o <<poll>> /\ mbox'["Login"] = mbox["Login"]
  BY <1>1, <1>3, <1>6, <1>10, <1>12 DEF Sent, Consumed, Up, Boxes
<1>14. ~Closing' => CountIn(mbox'["Connection"], Polls) = prompts'
  <2>1. HasIn(s, "GoodbyeConnection") => HasIn(r \o <<poll>>, "GoodbyeConnection")
    BY <1>11, <1>12, TailHas, ConcatHas, OneSent
  <2>2. HasIn(s, "exit") => HasIn(r \o <<poll>>, "exit")
    BY <1>11, <1>12, TailHas, ConcatHas, OneSent
  <2>3. ~Closing' => ~Closing
    BY <1>10, <1>13, <2>1, <2>2 DEF Closing, Has
  <2>4. <<poll>> \in Seq(Messages) /\ CountIn(<<poll>>, Polls) = 1
    BY <1>5, OneSent DEF Polls
  <2>4a. PICK g \in Seq(Messages) : g = <<poll>>
    BY <2>4
  <2>4b. CountIn(r, Polls) \in Nat /\ CountIn(r \o g, Polls) = CountIn(r, Polls) + CountIn(g, Polls)
    BY ConcatCount
  <2>5. CountIn(r \o <<poll>>, Polls) = CountIn(r, Polls) + 1 /\ CountIn(r, Polls) \in Nat
    BY <2>4, <2>4a, <2>4b
  <2>6. CountIn(s, Polls) = CountIn(r, Polls) + 1
    BY <1>11, <1>12, TailCount DEF Polls
  <2>7. CountIn(mbox'["Connection"], Polls) = CountIn(mbox["Connection"], Polls)
    BY <1>10, <1>13, <2>5, <2>6
  <2> QED
    BY <1>2, <1>3, <2>3, <2>7 DEF Counting
<1> QED
  BY <1>3, <1>9, <1>13, <1>14 DEF Counting

\* The login controller is spawned with the message that starts it.
LEMMA WelcomeCounts ==
  ASSUME TypeOK, SessionInv, Counting, Once' => Once, CmdPerformWelcome
  PROVE  Counting'
<1>1. /\ mbox \in Boxes /\ prompts \in Nat /\ lines \in Nat
      /\ "Connection" \in Actors /\ "Command" \in Actors /\ "Login" \in Actors
  BY DEF TypeOK, Boxes, Actors
<1>2. /\ Receives("Command", "PerformWelcome")
      /\ prompts' = prompts /\ welcomed' = welcomed /\ lines' = lines
      /\ status' = [status EXCEPT !["Login"] = "up"]
  BY DEF CmdPerformWelcome, connVars, envVars
<1>3. Up("Connection")' => Up("Connection")
  BY <1>1, <1>2 DEF Up, TypeOK
<1>4. mbox["Command"] \in Seq(Messages) /\ mbox["Command"] # <<>>
      /\ Head(mbox["Command"]).atom = "PerformWelcome"
  BY <1>1, <1>2 DEF Receives, Boxes
<1>5. Has("Command", "PerformWelcome")
  BY <1>4, TailHas DEF Has
<1>6. mbox["Login"] = <<>>
  BY <1>1, <1>5 DEF SessionInv, WelcomeOnce, MailOnlyWhenUp, Up
<1>7. PICK box : box = Consumed("Command")
  OBVIOUS
<1>8. /\ box \in Boxes /\ Total(box) \in Nat /\ Total(mbox) = Total(box) + 1
  BY <1>1, <1>2, <1>7, ConsumedTotal DEF Due
<1>9. PICK m \in Messages : m = Msg("LoginControllerStart") /\ m.atom = "LoginControllerStart"
  BY MessageTypes, MessageAtoms
<1>10. <<m>> \in Seq(Messages) /\ CountIn(<<m>>, Due) = 1 /\ ~HasIn(<<m>>, "exit")
  BY <1>9, OneSent DEF Due
<1>11. mbox' = [box EXCEPT !["Login"] = <<m>>]
  BY <1>7, <1>9 DEF CmdPerformWelcome
<1>12. box["Login"] = <<>> /\ box["Connection"] = mbox["Connection"]
  BY <1>1, <1>6, <1>7 DEF Consumed, Boxes
<1>13. mbox' \in Boxes /\ mbox'["Login"] = <<m>> /\ \A x \in Actors \ {"Login"} : mbox'[x] = box[x]
  BY <1>1, <1>8, <1>10, <1>11 DEF Boxes
<1>14. CountIn(box["Login"], Due) = 0
  BY <1>12, ListCount
<1>15. CountIn(mbox'["Login"], Due) = CountIn(box["Login"], Due) + 1
  BY <1>10, <1>13, <1>14
<1>16. Total(mbox') = Total(box) + 1
  BY <1>1, <1>8, <1>13, <1>15, TotalMoves
<1>17. Total(mbox') = Total(mbox)
  BY <1>8, <1>16
<1>18. ExitLast(mbox'["Login"])
  BY <1>10, <1>13, ExitFree
<1>19. mbox'["Connection"] = mbox["Connection"]
  BY <1>1, <1>12, <1>13
<1> QED
  BY <1>2, <1>3, <1>17, <1>18, <1>19 DEF Counting, Closing, Has
\* The login controller is told to exit and the default one takes over.
LEMMA HandOverCounts ==
  ASSUME TypeOK, SessionInv, Counting, Once' => Once, CmdLoginControllerEnd
  PROVE  Counting'
<1>1. /\ mbox \in Boxes /\ prompts \in Nat /\ lines \in Nat
      /\ "Connection" \in Actors /\ "Command" \in Actors /\ "Login" \in Actors
  BY DEF TypeOK, Boxes, Actors
<1>2. /\ Receives("Command", "LoginControllerEnd")
      /\ prompts' = prompts /\ welcomed' = welcomed /\ lines' = lines
      /\ UNCHANGED status
  BY DEF CmdLoginControllerEnd, connVars, envVars
<1> SUFFICES ASSUME Up("Connection")
             PROVE  Counting'
  BY <1>2 DEF Counting, Up
<1>3. mbox["Command"] \in Seq(Messages) /\ mbox["Command"] # <<>>
      /\ Head(mbox["Command"]).atom = "LoginControllerEnd" /\ Up("Command")
  BY <1>1, <1>2 DEF Receives, Boxes, Up
<1>4. Has("Command", "LoginControllerEnd")
  BY <1>3, TailHas DEF Has
<1>5. PICK c \in {"Login", "Default"} : c = m_active_controller
  <2>1. recorded # <<>>
    BY <1>4 DEF SessionInv, HandOver
  <2>2. status["Login"] # "none"
    BY <2>1 DEF SessionInv, LoginComesFirst
  <2> QED
    BY <1>3, <2>2 DEF SessionInv, HandOver, TypeOK
<1>6. PICK bye \in Messages : bye = Msg("exit") /\ bye.atom = "exit"
  BY MessageTypes, MessageAtoms
<1>7. PICK ask \in Messages : ask = Prompt("pmud") /\ ask.atom = "ToUserPrompt"
  BY MessageTypes, MessageAtoms DEF Prompts
<1>8. mbox' = Sent(Sent(Consumed("Command"), c, <<bye>>), "Connection", <<ask>>)
  BY <1>5, <1>6, <1>7 DEF CmdLoginControllerEnd
<1>10. PICK s \in Seq(Messages) : s = mbox["Connection"]
  BY <1>1 DEF Boxes
<1>11. PICK r \in Seq(Messages) : r = mbox["Login"]
  BY <1>1 DEF Boxes
<1>12. mbox'["Connection"] = s \o <<ask>>
  BY <1>1, <1>5, <1>8, <1>10 DEF Sent, Consumed, Up, Boxes
<1>13. ASSUME Once
       PROVE  Total(mbox') = Total(mbox) /\ ExitLast(mbox'["Login"])
  <2>1. c = "Login" /\ Up("Login") /\ ~HasIn(mbox["Login"], "exit")
    BY <1>3, <1>4, <1>5, <1>13 DEF SessionInv, HandOver, EndsOnce, Has
  <2>2. mbox' = Sent(Sent(Consumed("Command"), "Login", <<bye>>), "Connection", <<ask>>)
    BY <1>8, <2>1
  <2>3. Total(mbox') = Total(mbox)
    BY <1>1, <1>2, <1>6, <1>7, <2>1, <2>2, TwiceTotal DEF Due
  <2>4. mbox'["Login"] = r \o <<bye>>
    BY <1>1, <1>11, <2>1, <2>2 DEF Sent, Consumed, Up, Boxes
  <2> QED
    BY <1>11, <2>1, <2>3, <2>4, ExitAdded
<1>14. PICK g \in Seq(Messages) : g = <<ask>>
  BY OneSent
<1>15. CountIn(s \o g, Polls) = CountIn(s, Polls)
  <2>1. CountIn(g, Polls) = 0
    BY <1>7, <1>14, OneSent DEF Polls
  <2>2. CountIn(s, Polls) \in Nat /\ CountIn(s \o g, Polls) = CountIn(s, Polls) + CountIn(g, Polls)
    BY ConcatCount
  <2> QED
    BY <2>1, <2>2
<1>16. ~Closing' => ~Closing
  <2>1. HasIn(s, "GoodbyeConnection") => HasIn(s \o g, "GoodbyeConnection")
    BY ConcatHas
  <2>2. HasIn(s, "exit") => HasIn(s \o g, "exit")
    BY ConcatHas
  <2> QED
    BY <1>10, <1>12, <1>14, <2>1, <2>2 DEF Closing, Has
<1>17. ~Closing' => CountIn(mbox'["Connection"], Polls) = prompts'
  BY <1>2, <1>10, <1>12, <1>14, <1>15, <1>16 DEF Counting
<1> QED
  BY <1>2, <1>13, <1>17 DEF Counting

\* An actor ends: the login controller loses nothing that is owed, the connection
\* takes its counts with it, the command ends only after the connection, and so
\* does the default controller unless the login has been confirmed again.
LEMMA ExitCounts ==
  ASSUME TypeOK, SessionInv, Counting, Once' => Once,
         ConnExit \/ CmdExit \/ LoginExit \/ DefaultExit
  PROVE  Counting'
<1>1. /\ mbox \in Boxes /\ "Connection" \in Actors /\ "Command" \in Actors
      /\ "Login" \in Actors /\ "Default" \in Actors /\ status \in [Actors -> {"none", "up", "down"}]
  BY DEF TypeOK, Boxes, Actors
<1>2. CASE ConnExit
  <2>1. ~Up("Connection")'
    BY <1>1, <1>2 DEF ConnExit, Terminates, Up
  <2> QED
    BY <2>1 DEF Counting
<1>3. ASSUME NEW a \in {"Command", "Login", "Default"}, Terminates(a)
      PROVE  /\ Up("Connection")' => Up("Connection")
             /\ Up(a) /\ HasIn(mbox[a], "exit")
             /\ mbox[a] \in Seq(Messages) /\ mbox[a] # <<>> /\ Head(mbox[a]).atom = "exit"
  <2>1. /\ mbox[a] \in Seq(Messages) /\ mbox[a] # <<>> /\ Head(mbox[a]).atom = "exit"
        /\ Up(a)
    BY <1>1, <1>3 DEF Terminates, Receives, Boxes, Up
  <2>2. Up("Connection")' => Up("Connection")
    BY <1>1, <1>3 DEF Terminates, Up
  <2> QED
    BY <2>1, <2>2, TailHas
<1>4. CASE CmdExit
  <2>1. Terminates("Command")
    BY <1>4 DEF CmdExit
  <2>2. ~Up("Connection")
    BY <1>3, <2>1 DEF SessionInv, CommandServes, Has
  <2> QED
    BY <1>3, <2>1, <2>2 DEF Counting
<1>5. CASE DefaultExit
  <2>1. Terminates("Default") /\ UNCHANGED prompts
    BY <1>5 DEF DefaultExit, connVars
  <2>2. ~Once \/ ~Up("Connection")
    BY <1>3, <2>1 DEF SessionInv, CommandServes, EndsOnce, Has
  <2>3. mbox'["Connection"] = mbox["Connection"]
    BY <1>1, <1>5 DEF DefaultExit, Boxes
  <2>4. Up("Connection")' => Up("Connection")
    BY <1>3, <2>1
  <2> QED
    BY <2>1, <2>2, <2>3, <2>4 DEF Counting, Closing, Has
<1>6. CASE LoginExit
  <2>1. Terminates("Login") /\ mbox' = [mbox EXCEPT !["Login"] = <<>>]
        /\ prompts' = prompts /\ lines' = lines /\ welcomed' = welcomed
    BY <1>6 DEF LoginExit, connVars, envVars
  <2>2. CASE Up("Connection")
    <3>1. Once => CountIn(mbox["Login"], Due) = 0
      BY <1>3, <2>1, <2>2, ExitFirst DEF Counting
    <3>2. <<>> \in Seq(Messages) /\ ~HasIn(<<>>, "exit") /\ CountIn(<<>>, Due) = 0
      BY EmptySeq, ListHas, ListCount
    <3>3. /\ mbox' \in Boxes /\ mbox'["Login"] = <<>>
          /\ \A x \in Actors \ {"Login"} : mbox'[x] = mbox[x]
      BY <1>1, <2>1, <3>2 DEF Boxes
    <3>4. Once => CountIn(mbox'["Login"], Due) = CountIn(mbox["Login"], Due) + 0
      BY <3>1, <3>2, <3>3
    <3>5. Once => Total(mbox') = Total(mbox) + 0
      BY <1>1, <3>3, <3>4, TotalMoves
    <3>6. Once => Total(mbox') = Total(mbox)
      BY <1>1, <3>5, TotalType
    <3>7. mbox'["Connection"] = mbox["Connection"]
      BY <1>1, <3>3
    <3>8. ExitLast(mbox'["Login"])
      BY <3>2, <3>3, ExitFree
    <3> QED
      BY <2>1, <2>2, <3>6, <3>7, <3>8 DEF Counting, Closing, Has
  <2>3. CASE ~Up("Connection")
    BY <1>3, <2>1, <2>3 DEF Counting
  <2> QED
    BY <2>2, <2>3
<1> QED
  BY <1>2, <1>4, <1>5, <1>6

\* The server and main.
LEMMA EnvironmentCounts ==
  ASSUME TypeOK, SessionInv, Counting, Once' => Once, Environment
  PROVE  Counting'
<1>1. /\ mbox \in Boxes /\ "Connection" \in Actors /\ "Login" \in Actors
      /\ prompts \in Nat /\ lines \in Nat /\ welcomed \in BOOLEAN
  BY DEF TypeOK, Boxes, Actors
<1>2. UNCHANGED <<status, prompts, lines>>
  BY DEF Environment, ServerWelcome, MainGoodbye, connVars
<1> SUFFICES ASSUME Up("Connection")
             PROVE  Counting'
  BY <1>2 DEF Counting, Up
<1>3. PICK s \in Seq(Messages) : s = mbox["Connection"]
  BY <1>1 DEF Boxes
<1>4. ASSUME NEW m \in Messages, mbox' = Sent(mbox, "Connection", <<m>>)
      PROVE  /\ mbox'["Connection"] = s \o <<m>> /\ mbox'["Login"] = mbox["Login"]
             /\ Total(mbox) \in Nat
             /\ m.atom \in Due => Total(mbox') = Total(mbox) + 1
             /\ m.atom \notin Due => Total(mbox') = Total(mbox)
  <2>1. PICK g \in Seq(Messages) : g = <<m>>
    BY OneSent
  <2>2. PICK box : box = Sent(mbox, "Connection", g)
    OBVIOUS
  <2>3. Total(mbox) \in Nat /\ Total(box) = Total(mbox) + CountIn(g, Due)
    BY <1>1, <2>2, SentTotal
  <2>4. box["Connection"] = s \o g /\ box["Login"] = mbox["Login"]
    BY <1>1, <1>3, <2>2 DEF Sent, Up, Boxes
  <2>5. mbox' = box
    BY <1>4, <2>1, <2>2
  <2>6. /\ m.atom \in Due => CountIn(g, Due) = 1
        /\ m.atom \notin Due => CountIn(g, Due) = 0
    BY <2>1, OneSent
  <2> QED
    BY <2>1, <2>3, <2>4, <2>5, <2>6
<1>5. CASE ServerWelcome
  <2>1. PICK m \in Messages : m = Msg("PerformWelcome") /\ m.atom = "PerformWelcome"
    BY MessageTypes, MessageAtoms
  <2>2. mbox' = Sent(mbox, "Connection", <<m>>) /\ ~welcomed /\ welcomed'
    BY <1>5, <2>1 DEF ServerWelcome
  <2>3. /\ mbox'["Connection"] = s \o <<m>> /\ mbox'["Login"] = mbox["Login"]
        /\ Total(mbox) \in Nat /\ Total(mbox') = Total(mbox) + 1
    BY <1>4, <2>1, <2>2 DEF Due
  <2>4. PICK g \in Seq(Messages) : g = <<m>>
    BY OneSent
  <2>5. CountIn(g, Polls) = 0
    BY <2>1, <2>4, OneSent DEF Polls
  <2>6. CountIn(s \o g, Polls) = CountIn(s, Polls) + CountIn(g, Polls) /\ CountIn(s, Polls) \in Nat
    BY ConcatCount
  <2>7. CountIn(mbox'["Connection"], Polls) = CountIn(mbox["Connection"], Polls)
    BY <1>3, <2>3, <2>4, <2>5, <2>6
  <2>8. HasIn(s, "GoodbyeConnection") => HasIn(s \o g, "GoodbyeConnection")
    BY ConcatHas
  <2>9. HasIn(s, "exit") => HasIn(s \o g, "exit")
    BY ConcatHas
  <2>10. ~Closing' => ~Closing
    BY <1>3, <2>3, <2>4, <2>8, <2>9 DEF Closing, Has
  <2>11. PICK t \in Nat : t = Total(mbox)
    BY <2>3
  <2>12. Once => prompts + t = lines
    BY <1>1, <2>2, <2>11 DEF Counting
  <2>13. Once => prompts' + Total(mbox') = lines' + (IF welcomed' THEN 1 ELSE 0)
    <3> HAVE Once
    <3>1. Total(mbox') = t + 1
      BY <2>3, <2>11
    <3>2. prompts' = prompts /\ lines' = lines
      BY <1>2
    <3>3. prompts + (t + 1) = lines + 1
      BY <1>1, <2>12
    <3> QED
      BY <2>2, <3>1, <3>2, <3>3
  <2> QED
    BY <1>2, <2>3, <2>7, <2>10, <2>13 DEF Counting
<1>6. CASE MainGoodbye
  <2>1. PICK m \in Messages : m = Msg("GoodbyeConnection") /\ m.atom = "GoodbyeConnection"
    BY MessageTypes, MessageAtoms
  <2>2. mbox' = Sent(mbox, "Connection", <<m>>) /\ welcomed' = welcomed
    BY <1>6, <2>1 DEF MainGoodbye
  <2>3. /\ mbox'["Connection"] = s \o <<m>> /\ mbox'["Login"] = mbox["Login"]
        /\ Total(mbox') = Total(mbox)
    BY <1>4, <2>1, <2>2 DEF Due
  <2>4. PICK g \in Seq(Messages) : g = <<m>>
    BY OneSent
  <2>5. HasIn(g, "GoodbyeConnection")
    BY <2>1, <2>4, OneSent
  <2>6. HasIn(s \o g, "GoodbyeConnection")
    BY <2>5, ConcatHas
  <2>7. Closing'
    BY <2>3, <2>4, <2>6 DEF Closing, Has
  <2> QED
    BY <1>2, <2>2, <2>3, <2>7 DEF Counting
<1> QED
  BY <1>5, <1>6 DEF Environment
-----------------------------------------------------------------------------
(***************************************************************************)
(* The theorems.                                                           *)
(***************************************************************************)
\* Every step keeps the counts.
LEMMA NextCounts ==
  ASSUME TypeOK, SessionInv, Counting, [Next]_vars
  PROVE  Counting'
<1>a. \A a \in {"Connection", "Command", "Login", "Default"} : a \in Actors
  BY DEF Actors
<1>o. Once' => Once
  BY OnceKept
<1>1. CASE Connection
  <2>1. ASSUME NEW atom \in Atoms, NEW dst \in Actors, NEW msgs \in Seq(Messages),
               Plain("Connection", atom, dst, msgs)
        PROVE  Counting'
    BY <1>a, <1>o, <2>1, PlainCounts
  <2>2. ASSUME NEW l \in Typed, PollLine(l) PROVE Counting'
    BY <1>o, <2>2, LineCounts
  <2>3. ASSUME ConnExit PROVE Counting'
    BY <1>o, <2>3, ExitCounts
  <2> QED
    BY <1>1, <2>1, <2>2, <2>3, ConnectionKinds
<1>2. CASE Command
  <2>1. ASSUME NEW atom \in Atoms, NEW dst \in Actors, NEW msgs \in Seq(Messages),
               Plain("Command", atom, dst, msgs)
        PROVE  Counting'
    BY <1>a, <1>o, <2>1, PlainCounts
  <2> QED
    BY <1>o, <1>2, <2>1, CommandKinds, WelcomeCounts, HandOverCounts, ExitCounts
<1>3. CASE Login \/ Default
  <2>1. ASSUME NEW self \in {"Login", "Default"}, NEW atom \in Atoms, NEW msgs \in Seq(Messages),
               Plain(self, atom, "Command", msgs)
        PROVE  Counting'
    BY <1>a, <1>o, <2>1, PlainCounts
  <2> QED
    BY <1>o, <1>3, <2>1, ControllerKinds, ExitCounts
<1>4. CASE Environment
  BY <1>o, <1>4, EnvironmentCounts
<1>5. CASE UNCHANGED vars
  <2>1. /\ status' = status /\ mbox' = mbox /\ prompts' = prompts /\ lines' = lines
        /\ welcomed' = welcomed
    BY <1>5 DEF vars, mailVars, connVars, envVars
  <2> QED
    BY <1>o, <2>1 DEF Counting, Up, Closing, Has
<1> QED
  BY <1>1, <1>2, <1>3, <1>4, <1>5 DEF Next

\* Nothing is counted before the welcome.
LEMMA InitCounts == Init => Counting
<1> SUFFICES ASSUME Init PROVE Counting
  OBVIOUS
<1>1. /\ mbox["Connection"] = <<>> /\ mbox["Command"] = <<>> /\ mbox["Login"] = <<>>
      /\ mbox["Default"] = <<>> /\ prompts = 0 /\ lines = 0 /\ welcomed = FALSE
  BY DEF Init, Actors
<1>2. CountIn(<<>>, Due) = 0 /\ CountIn(<<>>, Polls) = 0
  BY ListCount
<1>3. Total(mbox) = 0
  BY <1>1, <1>2 DEF Total
<1>4. <<>> \in Seq(Messages) /\ ~HasIn(<<>>, "exit")
  BY EmptySeq, ListHas
<1>5. ExitLast(mbox["Login"])
  BY <1>1, <1>4, ExitFree
<1> QED
  BY <1>1, <1>2, <1>3, <1>5 DEF Counting

\* The invariant that counts what is owed: an answer for every line as long as the
\* login has not been confirmed a second time, and, whatever is typed, a loop of
\* polls for every answer.
THEOREM CountsKept == Spec => []Counting
<1>1. TypeOK /\ SessionInv /\ Counting /\ [Next]_vars => Counting'
  BY NextCounts
<1>2. Spec => []TypeOK
  BY TypeCorrect
<1>3. Spec => []SessionInv
  BY SessionSafe
<1> QED
  BY <1>1, <1>2, <1>3, InitCounts, PTL DEF Spec

\* While the connection lives, and the login has not been confirmed a second time,
\* every line CommandActor was given, and the welcome, has had one prompt or has
\* one coming.
THEOREM OnePromptPerLineAlways == Spec => []OnePromptPerLine
<1>1. Counting => OnePromptPerLine
  BY DEF Counting, OnePromptPerLine, Owed, Count, Total
<1> QED
  BY <1>1, CountsKept, PTL

\* A prompt starts a loop of FromUserGetInput messages that only the end of the
\* connection ends.
THEOREM PollPerPromptAlways == Spec => []PollPerPrompt
<1>1. Counting => PollPerPrompt
  BY DEF Counting, PollPerPrompt, Count, Polls
<1> QED
  BY <1>1, CountsKept, PTL
-----------------------------------------------------------------------------
(***************************************************************************)
(* Passwords are not echoed.  The order of the messages in the pipeline    *)
(* LoginController - CommandActor - ConnectionActor carries the property:  *)
(* what suppresses the echo travels ahead of what asks for the password.   *)
(***************************************************************************)
Hides(m) == m.atom = "ToUserEmit" /\ m.arg \in {"suppress echo", "mismatch"}
Shows(m) == m.atom = "ToUserEmit" /\ m.arg = "welcome"
Asks(m) == m.atom = "ToUserPrompt" /\ m.arg \in {"enter password", "confirm password"}

HasHides(s) == \E i \in DOMAIN s : Hides(s[i])
NoShows(s) == \A i \in DOMAIN s : ~Shows(s[i])

\* Every password prompt in s is behind something that suppresses the echo.
Covered(s) == \A i \in DOMAIN s : Asks(s[i]) => \E j \in DOMAIN s : j < i /\ Hides(s[j])

Inert(s) == \A i \in DOMAIN s : ~Shows(s[i]) /\ ~Asks(s[i])

\* conn and cmd are the mailboxes of ConnectionActor and CommandActor.
Veiled(conn, cmd, on, user) ==
  /\ NoShows(conn) /\ NoShows(cmd)
  /\ on => Covered(conn)
  /\ on => HasHides(conn) \/ Covered(cmd)
  /\ on /\ user # Empty => HasHides(conn) \/ HasHides(cmd)

\* What the first message of a mailbox leaves hidden.
LEMMA TailVeil ==
  ASSUME NEW s \in Seq(Messages), s # <<>>
  PROVE  /\ NoShows(s) => NoShows(Tail(s)) /\ ~Shows(Head(s))
         /\ HasHides(s) /\ ~Hides(Head(s)) => HasHides(Tail(s))
         /\ Covered(s) => ~Asks(Head(s))
         /\ Covered(s) /\ ~Hides(Head(s)) => Covered(Tail(s))
<1>1. Tail(s) \in Seq(Messages)
  BY HeadTailProperties
<1>2. /\ Len(s) \in Nat /\ Len(s) > 0 /\ Len(Tail(s)) = Len(s) - 1 /\ Head(s) = s[1]
      /\ \A i \in 1..Len(Tail(s)) : Tail(s)[i] = s[i + 1]
  BY HeadTailProperties, EmptySeq, LenProperties
<1>3. DOMAIN s = 1..Len(s) /\ DOMAIN Tail(s) = 1..(Len(s) - 1)
  BY <1>1, <1>2
<1>4. \A i \in DOMAIN s : i # 1 => i - 1 \in DOMAIN Tail(s) /\ Tail(s)[i - 1] = s[i]
  BY <1>2, <1>3
<1>5. \A i \in DOMAIN Tail(s) : i + 1 \in DOMAIN s /\ Tail(s)[i] = s[i + 1]
  BY <1>2, <1>3
<1>6. NoShows(s) => NoShows(Tail(s)) /\ ~Shows(Head(s))
  BY <1>2, <1>3, <1>5 DEF NoShows
<1>7. HasHides(s) /\ ~Hides(Head(s)) => HasHides(Tail(s))
  BY <1>2, <1>4 DEF HasHides
<1>8. Covered(s) => ~Asks(Head(s))
  <2>1. 1 \in DOMAIN s /\ \A j \in DOMAIN s : ~(j < 1)
    BY <1>2, <1>3
  <2> QED
    BY <1>2, <2>1 DEF Covered
<1>9. ASSUME Covered(s), ~Hides(Head(s))
      PROVE  Covered(Tail(s))
  <2> SUFFICES ASSUME NEW i \in DOMAIN Tail(s), Asks(Tail(s)[i])
               PROVE  \E j \in DOMAIN Tail(s) : j < i /\ Hides(Tail(s)[j])
    BY DEF Covered
  <2>1. PICK j \in DOMAIN s : j < i + 1 /\ Hides(s[j])
    BY <1>5, <1>9 DEF Covered
  <2>2. j # 1
    BY <1>2, <1>9, <2>1
  <2>3. j - 1 \in DOMAIN Tail(s) /\ Tail(s)[j - 1] = s[j]
    BY <1>4, <2>2
  <2>4. j - 1 < i
    BY <1>2, <1>3, <2>1
  <2> QED
    BY <2>1, <2>3, <2>4
<1> QED
  BY <1>6, <1>7, <1>8, <1>9

\* What messages that are appended leave hidden.
LEMMA ConcatVeil ==
  ASSUME NEW s \in Seq(Messages), NEW t \in Seq(Messages)
  PROVE  /\ NoShows(s) /\ NoShows(t) => NoShows(s \o t)
         /\ HasHides(s) \/ HasHides(t) => HasHides(s \o t)
         /\ Covered(s) /\ (HasHides(s) \/ Covered(t)) => Covered(s \o t)
<1>1. /\ Len(s) \in Nat /\ Len(t) \in Nat
      /\ DOMAIN s = 1..Len(s) /\ DOMAIN t = 1..Len(t)
      /\ DOMAIN (s \o t) = 1..(Len(s) + Len(t))
      /\ \A i \in 1..(Len(s) + Len(t)) :
           (s \o t)[i] = IF i <= Len(s) THEN s[i] ELSE t[i - Len(s)]
  BY ConcatProperties, LenProperties
<1>2. \A i \in DOMAIN s : i \in DOMAIN (s \o t) /\ (s \o t)[i] = s[i]
  BY <1>1
<1>3. \A i \in DOMAIN t : i + Len(s) \in DOMAIN (s \o t) /\ (s \o t)[i + Len(s)] = t[i]
  BY <1>1
<1>4. \A i \in DOMAIN (s \o t) :
        \/ i \in DOMAIN s /\ (s \o t)[i] = s[i]
        \/ i - Len(s) \in DOMAIN t /\ (s \o t)[i] = t[i - Len(s)]
  BY <1>1
<1>5. NoShows(s) /\ NoShows(t) => NoShows(s \o t)
  BY <1>4 DEF NoShows
<1>6. HasHides(s) => HasHides(s \o t)
  BY <1>2 DEF HasHides
<1>7. HasHides(t) => HasHides(s \o t)
  BY <1>3 DEF HasHides
<1>8. ASSUME Covered(s), HasHides(s) \/ Covered(t)
      PROVE  Covered(s \o t)
  <2> SUFFICES ASSUME NEW i \in DOMAIN (s \o t), Asks((s \o t)[i])
               PROVE  \E j \in DOMAIN (s \o t) : j < i /\ Hides((s \o t)[j])
    BY DEF Covered
  <2>1. CASE i \in DOMAIN s
    <3>1. PICK j \in DOMAIN s : j < i /\ Hides(s[j])
      BY <1>2, <1>8, <2>1 DEF Covered
    <3> QED
      BY <1>2, <3>1
  <2>2. CASE i \notin DOMAIN s
    <3>1. i - Len(s) \in DOMAIN t /\ (s \o t)[i] = t[i - Len(s)]
      BY <1>4, <2>2
    <3>2. CASE HasHides(s)
      <4>1. PICK j \in DOMAIN s : Hides(s[j])
        BY <3>2 DEF HasHides
      <4>2. j < i
        BY <1>1, <2>2, <4>1
      <4> QED
        BY <1>2, <4>1, <4>2
    <3>3. CASE Covered(t)
      <4>1. PICK j \in DOMAIN t : j < i - Len(s) /\ Hides(t[j])
        BY <3>1, <3>3 DEF Covered
      <4>2. j + Len(s) < i
        BY <1>1, <4>1
      <4> QED
        BY <1>3, <4>1, <4>2
    <3> QED
      BY <1>8, <3>2, <3>3
  <2> QED
    BY <2>1, <2>2
<1> QED
  BY <1>5, <1>6, <1>7, <1>8

\* Messages that neither ask nor show leave everything hidden.
LEMMA InertVeil ==
  ASSUME NEW t \in Seq(Messages), Inert(t)
  PROVE  NoShows(t) /\ Covered(t)
BY DEF Inert, NoShows, Covered

\* What the handlers do to the two mailboxes.
LEMMA VeilKept ==
  ASSUME NEW conn \in Seq(Messages), NEW cmd \in Seq(Messages), NEW on, NEW user,
         Veiled(conn, cmd, on, user)
  PROVE  /\ \A t \in Seq(Messages) : Inert(t) => Veiled(conn \o t, cmd, on, user)
         /\ \A t \in Seq(Messages) : Inert(t) => Veiled(conn, cmd \o t, on, user)
         /\ conn # <<>> /\ ~Hides(Head(conn)) => Veiled(Tail(conn), cmd, on, user)
         /\ conn # <<>> /\ Asks(Head(conn)) => ~on
         /\ cmd # <<>> /\ ~Hides(Head(cmd)) => Veiled(conn, Tail(cmd), on, user)
<1>1. ASSUME NEW t \in Seq(Messages), Inert(t) PROVE Veiled(conn \o t, cmd, on, user)
  BY <1>1, InertVeil, ConcatVeil DEF Veiled
<1>2. ASSUME NEW t \in Seq(Messages), Inert(t) PROVE Veiled(conn, cmd \o t, on, user)
  BY <1>2, InertVeil, ConcatVeil DEF Veiled
<1>3. conn # <<>> /\ ~Hides(Head(conn)) => Veiled(Tail(conn), cmd, on, user)
  BY TailVeil DEF Veiled
<1>4. conn # <<>> /\ Asks(Head(conn)) => ~on
  BY TailVeil DEF Veiled
<1>5. cmd # <<>> /\ ~Hides(Head(cmd)) => Veiled(conn, Tail(cmd), on, user)
  BY TailVeil DEF Veiled
<1> QED
  BY <1>1, <1>2, <1>3, <1>4, <1>5
\* The veil of the short lists of messages.
LEMMA ListVeil ==
  ASSUME NEW m \in Messages, NEW n \in Messages
  PROVE  /\ <<m>> \in Seq(Messages) /\ <<m, n>> \in Seq(Messages)
         /\ Inert(<<m>>) <=> ~Shows(m) /\ ~Asks(m)
         /\ Inert(<<m, n>>) <=> ~Shows(m) /\ ~Asks(m) /\ ~Shows(n) /\ ~Asks(n)
         /\ NoShows(<<m>>) <=> ~Shows(m)
         /\ HasHides(<<m>>) <=> Hides(m)
         /\ ~Asks(m) => Covered(<<m>>)
<1>1. <<m>> \in Seq(Messages) /\ <<m, n>> \in Seq(Messages)
  OBVIOUS
<1>2. Inert(<<m>>) <=> ~Shows(m) /\ ~Asks(m)
  BY DEF Inert
<1>3. Inert(<<m, n>>) <=> ~Shows(m) /\ ~Asks(m) /\ ~Shows(n) /\ ~Asks(n)
  BY DEF Inert
<1>4. NoShows(<<m>>) <=> ~Shows(m)
  BY DEF NoShows
<1>5. HasHides(<<m>>) <=> Hides(m)
  BY DEF HasHides
<1>6. ~Asks(m) => Covered(<<m>>)
  BY DEF Covered
<1> QED
  BY <1>1, <1>2, <1>3, <1>4, <1>5, <1>6

\* The CommandActor hands on what it gets.
LEMMA VeilForwarded ==
  ASSUME NEW conn \in Seq(Messages), NEW cmd \in Seq(Messages), NEW on, NEW user,
         Veiled(conn, cmd, on, user), cmd # <<>>
  PROVE  Veiled(conn \o <<Head(cmd)>>, Tail(cmd), on, user)
<1>1. PICK h \in Messages : h = Head(cmd)
  BY HeadTailProperties
<1>2. PICK g \in Seq(Messages) : g = <<h>>
  BY ListVeil
<1>3. /\ NoShows(g) <=> ~Shows(h)
      /\ HasHides(g) <=> Hides(h)
      /\ ~Asks(h) => Covered(g)
  BY <1>2, ListVeil
<1>4. /\ NoShows(cmd) => NoShows(Tail(cmd)) /\ ~Shows(h)
      /\ HasHides(cmd) /\ ~Hides(h) => HasHides(Tail(cmd))
      /\ Covered(cmd) => ~Asks(h)
      /\ Covered(cmd) /\ ~Hides(h) => Covered(Tail(cmd))
  BY <1>1, TailVeil
<1>5. /\ NoShows(conn) /\ NoShows(g) => NoShows(conn \o g)
      /\ HasHides(conn) \/ HasHides(g) => HasHides(conn \o g)
      /\ Covered(conn) /\ (HasHides(conn) \/ Covered(g)) => Covered(conn \o g)
  BY ConcatVeil
<1>6. Veiled(conn \o g, Tail(cmd), on, user)
  BY <1>3, <1>4, <1>5 DEF Veiled
<1> QED
  BY <1>1, <1>2, <1>6

\* The LoginController hides before it asks, and asks again when it has hidden.
LEMMA VeilAsked ==
  ASSUME NEW conn \in Seq(Messages), NEW cmd \in Seq(Messages), NEW on, NEW user,
         Veiled(conn, cmd, on, user), NEW m \in Messages, NEW n \in Messages, ~Shows(n)
  PROVE  /\ Hides(m) => \A u : Veiled(conn, cmd \o <<m, n>>, on, u)
         /\ user # Empty => Veiled(conn, cmd \o <<n>>, on, user)
<1>1. ASSUME Hides(m), NEW u
      PROVE  Veiled(conn, cmd \o <<m, n>>, on, u)
  <2>1. PICK g \in Seq(Messages) : g = <<m, n>>
    BY ListVeil
  <2>2. ~Shows(m) /\ ~Asks(m)
    BY <1>1 DEF Hides, Shows, Asks
  <2>3. Len(g) = 2 /\ g[1] = m /\ g[2] = n /\ DOMAIN g = {1, 2}
    BY <2>1
  <2>4. NoShows(g) /\ HasHides(g)
    BY <1>1, <2>2, <2>3 DEF NoShows, HasHides
  <2>5. Covered(g)
    BY <1>1, <2>2, <2>3 DEF Covered
  <2>6. /\ NoShows(cmd) /\ NoShows(g) => NoShows(cmd \o g)
        /\ HasHides(cmd) \/ HasHides(g) => HasHides(cmd \o g)
        /\ Covered(cmd) /\ (HasHides(cmd) \/ Covered(g)) => Covered(cmd \o g)
    BY ConcatVeil
  <2>7. Veiled(conn, cmd \o g, on, u)
    BY <2>4, <2>5, <2>6 DEF Veiled
  <2> QED
    BY <2>1, <2>7
<1>2. ASSUME user # Empty
      PROVE  Veiled(conn, cmd \o <<n>>, on, user)
  <2>1. PICK g \in Seq(Messages) : g = <<n>>
    BY ListVeil
  <2>2. NoShows(g)
    BY <2>1, ListVeil
  <2>3. /\ NoShows(cmd) /\ NoShows(g) => NoShows(cmd \o g)
        /\ HasHides(cmd) \/ HasHides(g) => HasHides(cmd \o g)
        /\ Covered(cmd) /\ (HasHides(cmd) \/ Covered(g)) => Covered(cmd \o g)
    BY ConcatVeil
  <2>4. Veiled(conn, cmd \o g, on, user)
    BY <1>2, <2>2, <2>3 DEF Veiled
  <2> QED
    BY <2>1, <2>4
<1> QED
  BY <1>1, <1>2

\* The invariant: while the connection is up and the account not yet recorded.
Live == Up("Connection") /\ open /\ recorded = <<>>

HiddenInv ==
  /\ Live => Veiled(mbox["Connection"], mbox["Command"], echo, username)
  /\ PasswordsHidden

\* The messages that do not touch the echo.
LEMMA Neutral ==
  /\ \A a \in Atoms \ {"ToUserEmit", "ToUserPrompt"} :
       ~Hides(Msg(a)) /\ ~Shows(Msg(a)) /\ ~Asks(Msg(a))
  /\ \A l : ~Hides(Input(l)) /\ ~Shows(Input(l)) /\ ~Asks(Input(l))
  /\ ~Shows(Prompt("pmud")) /\ ~Asks(Prompt("pmud")) 
  /\ ~Shows(Prompt("enter username")) /\ ~Asks(Prompt("enter username"))
  /\ ~Shows(Emit("reply")) /\ ~Asks(Emit("reply"))
  /\ Hides(Emit("suppress echo")) /\ Hides(Emit("mismatch"))
  /\ \A p : ~Shows(Prompt(p))
BY DEF Hides, Shows, Asks, Msg, Input, Prompt, Emit, Atoms

\* A step that leaves echo, screen and account alone and keeps the veil.
LEMMA VeilStep ==
  ASSUME HiddenInv, UNCHANGED <<echo, screen, recorded>>,
         Live' => Live,
         Live /\ Live' => Veiled(mbox'["Connection"], mbox'["Command"], echo', username')
  PROVE  HiddenInv'
BY DEF HiddenInv, PasswordsHidden
\* The ConnectionActor takes a message that does not touch the echo and writes one
\* that does not either, to itself or to the CommandActor.
LEMMA ConnectionWrites ==
  ASSUME TypeOK, SessionInv, HiddenInv, NEW atom \in Atoms \ {"ToUserEmit"},
         Receives("Connection", atom), NEW dst \in {"Connection", "Command"},
         NEW m \in Messages, ~Shows(m), ~Asks(m), Handles("Connection", dst, <<m>>)
  PROVE  /\ Live => Veiled(mbox'["Connection"], mbox'["Command"], echo, username)
         /\ Live /\ Asks(Head(mbox["Connection"])) => ~echo
<1>1. mbox \in Boxes /\ "Connection" \in Actors /\ "Command" \in Actors /\ dst \in Actors
  BY DEF TypeOK, Boxes, Actors
<1>2. PICK s \in Seq(Messages) : s = mbox["Connection"]
  BY <1>1 DEF Boxes
<1>3. PICK c \in Seq(Messages) : c = mbox["Command"]
  BY <1>1 DEF Boxes
<1>4. PICK g \in Seq(Messages) : g = <<m>> /\ Inert(g)
  BY ListVeil
<1>5. Handles("Connection", dst, g)
  BY <1>4
<1>6. s # <<>> /\ ~Hides(Head(s)) /\ Tail(s) \in Seq(Messages)
  BY <1>2, HeadTailProperties DEF Receives, Hides
<1> SUFFICES ASSUME Live
             PROVE  /\ Veiled(mbox'["Connection"], mbox'["Command"], echo, username)
                    /\ Asks(Head(mbox["Connection"])) => ~echo
  OBVIOUS
<1>7. Veiled(s, c, echo, username)
  BY <1>2, <1>3 DEF HiddenInv
<1>8. Asks(Head(s)) => ~echo
  BY <1>6, <1>7, VeilKept
<1>9. PICK r \in Seq(Messages) : r = Tail(s)
  BY <1>6
<1>10. Veiled(r, c, echo, username)
  BY <1>6, <1>7, <1>9, VeilKept
<1>11. Veiled(r \o g, c, echo, username) /\ Veiled(r, c \o g, echo, username)
  BY <1>4, <1>10, VeilKept
<1>12. CASE dst = "Connection"
  <2>0. Handles("Connection", "Connection", g)
    BY <1>5, <1>12
  <2>1. mbox'["Connection"] = Tail(mbox["Connection"]) \o g /\ mbox'["Command"] = mbox["Command"]
    BY <1>1, <2>0, HandlesBoxes
  <2> QED
    BY <1>2, <1>3, <1>8, <1>9, <1>11, <2>1
<1>13. CASE dst = "Command"
  <2>1. Up("Command")
    BY DEF Live, SessionInv, CommandServes
  <2>2. Handles("Connection", "Command", g)
    BY <1>5, <1>13
  <2>3. mbox'["Connection"] = Tail(mbox["Connection"])
    BY <1>1, <2>2, HandlesBoxes
  <2>4. mbox'["Command"] = mbox["Command"] \o g
    BY <1>1, <2>1, <2>2, HandlesBoxes
  <2> QED
    BY <1>2, <1>3, <1>8, <1>9, <1>11, <2>3, <2>4
<1> QED
  BY <1>12, <1>13

\* The Connection asks for a password only with the echo off.
LEMMA ConnectionHides ==
  ASSUME TypeOK, SessionInv, HiddenInv, Connection
  PROVE  HiddenInv'
<1>1. mbox \in Boxes /\ "Connection" \in Actors /\ "Command" \in Actors
      /\ status \in [Actors -> {"none", "up", "down"}] /\ echo \in BOOLEAN
  BY DEF TypeOK, Boxes, Actors
<1>m. /\ \A a \in {"PerformWelcome", "FromUserGetInput", "GoodbyeConnection"} :
           Msg(a) \in Messages /\ ~Shows(Msg(a)) /\ ~Asks(Msg(a))
      /\ \A l \in Typed : Input(l) \in Messages /\ ~Shows(Input(l)) /\ ~Asks(Input(l))
  BY MessageTypes, Neutral DEF Atoms
<1>2. CASE ConnPerformWelcome
  <2>1. /\ Receives("Connection", "PerformWelcome")
        /\ Handles("Connection", "Command", <<Msg("PerformWelcome")>>)
        /\ UNCHANGED <<echo, screen, recorded, open, username, status>>
    BY <1>2 DEF ConnPerformWelcome, connVars, loginVars, Handles
  <2>2. Live => Veiled(mbox'["Connection"], mbox'["Command"], echo, username)
    BY <1>m, <2>1, ConnectionWrites DEF Atoms
  <2>3. Live' => Live
    BY <2>1 DEF Live, Up
  <2> QED
    BY <2>1, <2>2, <2>3, VeilStep
<1>3. ASSUME NEW a \in {"FromUserGetInput", "GoodbyeConnection"},
             Receives("Connection", "FromUserGetInput"),
             Handles("Connection", "Connection", <<Msg(a)>>),
             UNCHANGED <<echo, screen, recorded, open, username>>
      PROVE  HiddenInv'
  <2>1. Live => Veiled(mbox'["Connection"], mbox'["Command"], echo, username)
    BY <1>m, <1>3, ConnectionWrites DEF Atoms
  <2>2. Live' => Live
    BY <1>3 DEF Live, Up, Handles
  <2> QED
    BY <1>3, <2>1, <2>2, VeilStep
<1>4. ASSUME PollNoData PROVE HiddenInv'
  BY <1>3, <1>4 DEF PollNoData, connVars, loginVars
<1>5. ASSUME PollBreak PROVE HiddenInv'
  BY <1>3, <1>5 DEF PollBreak, PollFindsData, loginVars
<1>6. ASSUME PollFragment \/ PollQuit PROVE HiddenInv'
  BY <1>3, <1>6 DEF PollFragment, PollQuit, PollFindsData, loginVars
<1>7. CASE ConnToUserPrompt
  <2>1. /\ Receives("Connection", "ToUserPrompt")
        /\ Handles("Connection", "Connection", <<Msg("FromUserGetInput")>>)
        /\ UNCHANGED <<echo, recorded, open, username, status>>
        /\ screen' = IF open THEN Arg("Connection") ELSE screen
    BY <1>7 DEF ConnToUserPrompt, loginVars, Handles
  <2>2. /\ Live => Veiled(mbox'["Connection"], mbox'["Command"], echo, username)
        /\ Live /\ Asks(Head(mbox["Connection"])) => ~echo
    BY <1>m, <2>1, ConnectionWrites DEF Atoms
  <2>3. Live' => Live
    BY <2>1 DEF Live, Up
  <2>4. Live' => Veiled(mbox'["Connection"], mbox'["Command"], echo', username')
    BY <2>1, <2>2, <2>3
  <2>5. Up("Connection") /\ Head(mbox["Connection"]).atom = "ToUserPrompt"
    BY <2>1 DEF Receives, Up
  <2>6. CASE open /\ recorded = <<>>
    <3>1. screen' \in {"enter password", "confirm password"} => Asks(Head(mbox["Connection"]))
      BY <2>1, <2>5, <2>6 DEF Asks, Arg
    <3>2. PasswordsHidden'
      BY <2>1, <2>2, <2>5, <2>6, <3>1 DEF PasswordsHidden, Live
    <3> QED
      BY <2>4, <3>2 DEF HiddenInv
  <2>7. CASE ~open \/ recorded # <<>>
    <3>1. PasswordsHidden'
      BY <2>1, <2>7 DEF HiddenInv, PasswordsHidden
    <3> QED
      BY <2>4, <3>1 DEF HiddenInv
  <2> QED
    BY <2>6, <2>7
<1>8. CASE \E l \in Typed : PollLine(l)
  <2>0. PICK l \in Typed : PollLine(l)
    BY <1>8
  <2>1. /\ Receives("Connection", "FromUserGetInput")
        /\ UNCHANGED <<echo, screen, recorded, open, username, status>>
    BY <2>0 DEF PollLine, PollFindsData, loginVars
  <2>2. PICK s \in Seq(Messages) : s = mbox["Connection"]
    BY <1>1 DEF Boxes
  <2>3. PICK c \in Seq(Messages) : c = mbox["Command"]
    BY <1>1 DEF Boxes
  <2>4. s # <<>> /\ ~Hides(Head(s)) /\ Up("Connection") /\ Up("Command")
    BY <2>1, <2>2 DEF Receives, Hides, Up, SessionInv, CommandServes
  <2>5. PICK r \in Seq(Messages) : r = Tail(s)
    BY <2>4, HeadTailProperties
  <2>6. PICK g \in Seq(Messages) : g = <<Input(l)>> /\ Inert(g)
    BY <1>m, ListVeil
  <2>7. PICK h \in Seq(Messages) : h = <<Msg("FromUserGetInput")>> /\ Inert(h)
    BY <1>m, ListVeil
  <2>8. mbox' = Sent(Sent(Consumed("Connection"), "Command", g), "Connection", h)
    BY <2>0, <2>6, <2>7 DEF PollLine
  <2>9. mbox'["Connection"] = r \o h /\ mbox'["Command"] = c \o g
    BY <1>1, <2>2, <2>3, <2>4, <2>5, <2>8 DEF Sent, Consumed, Up, Boxes
  <2>10. ASSUME Live PROVE Veiled(r \o h, c \o g, echo, username)
    <3>1. Veiled(s, c, echo, username)
      BY <2>2, <2>3, <2>10 DEF HiddenInv
    <3>2. Veiled(r, c, echo, username)
      BY <2>4, <2>5, <3>1, VeilKept
    <3>3. PICK q \in Seq(Messages) : q = c \o g
      BY ConcatProperties
    <3>4. Veiled(r, q, echo, username)
      BY <2>6, <3>2, <3>3, VeilKept
    <3>5. Veiled(r \o h, q, echo, username)
      BY <2>7, <3>4, VeilKept
    <3> QED
      BY <3>3, <3>5
  <2>11. Live' => Live
    BY <2>1 DEF Live, Up
  <2> QED
    BY <2>1, <2>9, <2>10, <2>11, VeilStep
<1>9. CASE ConnToUserEmit
  <2>1. /\ Receives("Connection", "ToUserEmit")
        /\ Handles("Connection", "Connection", <<>>)
        /\ UNCHANGED <<screen, recorded, open, username, status>>
        /\ echo' = IF open /\ Arg("Connection") # "reply"
                     THEN Arg("Connection") = "welcome" ELSE echo
    BY <1>9 DEF ConnToUserEmit, loginVars, Handles
  <2>2. PICK s \in Seq(Messages) : s = mbox["Connection"]
    BY <1>1 DEF Boxes
  <2>3. PICK c \in Seq(Messages) : c = mbox["Command"]
    BY <1>1 DEF Boxes
  <2>4. s # <<>> /\ Head(s).atom = "ToUserEmit" /\ Arg("Connection") = Head(s).arg
    BY <2>1, <2>2 DEF Receives, Arg
  <2>5. PICK r \in Seq(Messages) : r = Tail(s)
    BY <2>4, HeadTailProperties
  <2>6. mbox'["Connection"] = r /\ mbox'["Command"] = c
    <3>1. PICK g \in Seq(Messages) : g = <<>>
      BY EmptySeq
    <3>2. Handles("Connection", "Connection", g)
      BY <2>1, <3>1
    <3>3. mbox'["Connection"] = Tail(mbox["Connection"]) \o g /\ mbox'["Command"] = mbox["Command"]
      BY <1>1, <2>1, <3>2, HandlesBoxes
    <3> QED
      BY <2>2, <2>3, <2>5, <3>1, <3>3, ConcatEmptySeq
  <2>7. Live' <=> Live
    BY <2>1 DEF Live, Up
  <2>8. Arg("Connection") \in Emissions
    BY <1>1, <2>1, ReceivedArg
  <2>9. CASE Live
    <3>1. Veiled(s, c, echo, username) /\ open /\ recorded = <<>>
      BY <2>2, <2>3, <2>9 DEF HiddenInv, Live
    <3>2. ~Shows(Head(s)) /\ NoShows(r) /\ NoShows(c)
      BY <2>4, <2>5, <3>1, TailVeil DEF Veiled
    <3>3. Arg("Connection") \in {"suppress echo", "mismatch", "reply"}
      BY <2>4, <2>8, <3>2 DEF Shows, Emissions
    <3>4. CASE Arg("Connection") = "reply"
      <4>1. ~Hides(Head(s)) /\ echo' = echo
        BY <2>1, <2>4, <3>4 DEF Hides
      <4>2. Veiled(r, c, echo, username)
        BY <2>4, <2>5, <3>1, <4>1, VeilKept
      <4> QED
        BY <2>1, <2>6, <2>7, <4>1, <4>2, VeilStep
    <3>5. CASE Arg("Connection") # "reply"
      <4>1. echo' = FALSE
        BY <2>1, <3>1, <3>3, <3>5
      <4>2. Veiled(r, c, echo', username')
        BY <3>2, <4>1 DEF Veiled
      <4>3. PasswordsHidden'
        BY <4>1 DEF PasswordsHidden
      <4> QED
        BY <2>6, <4>2, <4>3 DEF HiddenInv
    <3> QED
      BY <3>4, <3>5
  <2>10. CASE ~Live
    <3>1. ~open \/ recorded # <<>>
      BY <2>1, <2>10 DEF Live, Receives, Up
    <3>2. PasswordsHidden'
      BY <2>1, <3>1 DEF HiddenInv, PasswordsHidden
    <3> QED
      BY <2>7, <2>10, <3>2 DEF HiddenInv
  <2> QED
    BY <2>9, <2>10
<1>10. CASE ConnGoodbyeConnection \/ ConnExit
  <2>1. UNCHANGED <<echo, screen, recorded>> /\ ~Live'
    BY <1>1, <1>10 DEF ConnGoodbyeConnection, ConnExit, Terminates, connVars, loginVars, Live, Up
  <2> QED
    BY <2>1, VeilStep
<1> QED
  BY <1>2, <1>4, <1>5, <1>6, <1>7, <1>8, <1>9, <1>10 DEF Connection
\* A handler of another actor writes msgs to the CommandActor.
LEMMA ControllerWrites ==
  ASSUME TypeOK, SessionInv, Live, NEW self \in {"Login", "Default"}, NEW atom,
         Receives(self, atom), NEW msgs \in Seq(Messages), Handles(self, "Command", msgs)
  PROVE  /\ mbox'["Connection"] = mbox["Connection"]
         /\ mbox'["Command"] = mbox["Command"] \o msgs
<1>1. mbox \in Boxes /\ "Connection" \in Actors /\ "Command" \in Actors /\ self \in Actors
      /\ self # "Command" /\ self # "Connection"
  BY DEF TypeOK, Boxes, Actors
<1>2. Up("Command")
  BY DEF Live, SessionInv, CommandServes
<1>3. mbox'["Connection"] = mbox["Connection"]
  BY <1>1, HandlesBoxes
<1>4. mbox'["Command"] = mbox["Command"] \o msgs
  BY <1>1, <1>2, HandlesBoxes
<1> QED
  BY <1>3, <1>4

\* The Command passes the suppression on ahead of the question.
LEMMA CommandHides ==
  ASSUME TypeOK, SessionInv, HiddenInv, Command
  PROVE  HiddenInv'
<1>1. mbox \in Boxes /\ "Connection" \in Actors /\ "Command" \in Actors /\ "Login" \in Actors
      /\ "Default" \in Actors /\ status \in [Actors -> {"none", "up", "down"}]
  BY DEF TypeOK, Boxes, Actors
<1>2. PICK s \in Seq(Messages) : s = mbox["Connection"]
  BY <1>1 DEF Boxes
<1>3. PICK c \in Seq(Messages) : c = mbox["Command"]
  BY <1>1 DEF Boxes
<1>4. Live => Veiled(s, c, echo, username)
  BY <1>2, <1>3 DEF HiddenInv
<1>5. UNCHANGED <<echo, screen, recorded, open, username>>
  BY DEF Command, CmdPerformWelcome, CmdOnUserInput, CmdToUserPrompt, CmdToUserEmit,
         CmdLoginControllerEnd, CmdExit, connVars, loginVars
<1>6. Up("Connection")' <=> Up("Connection")
  BY <1>1 DEF Command, CmdPerformWelcome, CmdOnUserInput, CmdToUserPrompt, CmdToUserEmit,
         CmdLoginControllerEnd, CmdExit, Handles, Terminates, Up
<1>7. Live' <=> Live
  BY <1>5, <1>6 DEF Live
<1>8. ASSUME Live => Veiled(mbox'["Connection"], mbox'["Command"], echo, username)
      PROVE  HiddenInv'
  BY <1>5, <1>7, <1>8, VeilStep
<1>9. ASSUME NEW atom, Receives("Command", atom)
      PROVE  /\ c # <<>> /\ Head(c).atom = atom /\ Head(c) \in Messages
             /\ Tail(c) \in Seq(Messages) /\ HasIn(c, atom) /\ Up("Command")
             /\ atom # "ToUserEmit" /\ Live => Veiled(s, Tail(c), echo, username)
  <2>1. c # <<>> /\ Head(c).atom = atom /\ Up("Command")
    BY <1>3, <1>9 DEF Receives, Up
  <2>2. Head(c) \in Messages /\ Tail(c) \in Seq(Messages) /\ HasIn(c, atom)
    BY <2>1, HeadTailProperties, TailHas
  <2>3. atom # "ToUserEmit" => ~Hides(Head(c))
    BY <2>1 DEF Hides
  <2> QED
    BY <1>4, <2>1, <2>2, <2>3, VeilKept
<1>10. CASE CmdPerformWelcome
  <2>1. Receives("Command", "PerformWelcome") /\
        mbox' = [Consumed("Command") EXCEPT !["Login"] = <<Msg("LoginControllerStart")>>]
    BY <1>10 DEF CmdPerformWelcome
  <2>2. mbox'["Connection"] = s /\ mbox'["Command"] = Tail(c)
    BY <1>1, <1>2, <1>3, <2>1 DEF Consumed, Boxes
  <2>3. Live => Veiled(s, Tail(c), echo, username)
    BY <1>9, <2>1
  <2> QED
    BY <1>8, <2>2, <2>3
<1>11. CASE CmdOnUserInput
  <2>1. Receives("Command", "OnUserInput") /\ Arg("Command") \in Typed
    BY <1>1, <1>11, ReceivedArg DEF CmdOnUserInput
  <2>2. m_active_controller \in {"Login", "Default"}
    BY <1>3, <1>9, <2>1 DEF SessionInv, LoginComesFirst, HandOver, Has, Up, TypeOK
  <2>3. PICK to \in {"Login", "Default"} : to = m_active_controller
    BY <2>2
  <2>4. PICK g \in Seq(Messages) : g = <<Input(Arg("Command"))>>
    BY <2>1, MessageTypes, ListVeil
  <2>5. Handles("Command", to, g) /\ to \in Actors /\ to # "Command" /\ to # "Connection"
    BY <1>1, <1>11, <2>3, <2>4 DEF CmdOnUserInput
  <2>6. mbox'["Connection"] = mbox["Connection"]
    <3>1. \A x \in Actors \ {"Command", to} : mbox'[x] = mbox[x]
      BY <1>1, <2>1, <2>5, HandlesBoxes
    <3> QED
      BY <1>1, <2>5, <3>1
  <2>7. mbox'["Command"] = Tail(mbox["Command"])
    BY <1>1, <2>1, <2>5, HandlesBoxes
  <2> QED
    BY <1>2, <1>3, <1>8, <1>9, <2>1, <2>6, <2>7
<1>12. CASE CmdToUserPrompt \/ CmdToUserEmit
  <2>1. PICK atom \in {"ToUserPrompt", "ToUserEmit"} : Receives("Command", atom)
          /\ Handles("Command", "Connection", <<Head(mbox["Command"])>>)
    <3>1. CASE CmdToUserPrompt
      <4>1. Receives("Command", "ToUserPrompt") /\ Head(c) = Prompt(Arg("Command"))
        <5>1. Receives("Command", "ToUserPrompt")
          BY <3>1 DEF CmdToUserPrompt
        <5>2. Head(c) \in Messages /\ Head(c).atom = "ToUserPrompt" /\ Arg("Command") = Head(c).arg
          BY <1>3, <1>9, <5>1 DEF Arg
        <5> QED
          BY <5>1, <5>2 DEF Messages, Prompt
      <4> QED
        BY <1>3, <3>1, <4>1 DEF CmdToUserPrompt
    <3>2. CASE CmdToUserEmit
      <4>1. Receives("Command", "ToUserEmit") /\ Head(c) = Emit(Arg("Command"))
        <5>1. Receives("Command", "ToUserEmit")
          BY <3>2 DEF CmdToUserEmit
        <5>2. Head(c) \in Messages /\ Head(c).atom = "ToUserEmit" /\ Arg("Command") = Head(c).arg
          BY <1>3, <1>9, <5>1 DEF Arg
        <5> QED
          BY <5>1, <5>2 DEF Messages, Emit
      <4> QED
        BY <1>3, <3>2, <4>1 DEF CmdToUserEmit
    <3> QED
      BY <1>12, <3>1, <3>2
  <2>2. CASE Live
    <3>1. Up("Connection") /\ c # <<>> /\ Head(c) \in Messages
      BY <1>9, <2>1, <2>2 DEF Live
    <3>2. PICK g \in Seq(Messages) : g = <<Head(c)>>
      BY <3>1, ListVeil
    <3>3. Handles("Command", "Connection", g)
      BY <1>3, <2>1, <3>2
    <3>4. mbox'["Connection"] = mbox["Connection"] \o g
      BY <1>1, <2>1, <3>1, <3>3, HandlesBoxes
    <3>5. mbox'["Command"] = Tail(mbox["Command"])
      BY <1>1, <2>1, <3>3, HandlesBoxes
    <3>6. Veiled(s \o <<Head(c)>>, Tail(c), echo, username)
      BY <1>4, <2>2, <3>1, VeilForwarded
    <3> QED
      BY <1>2, <1>3, <1>8, <3>2, <3>4, <3>5, <3>6
  <2>3. CASE ~Live
    BY <1>8, <2>3
  <2> QED
    BY <2>2, <2>3
<1>13. CASE CmdLoginControllerEnd
  <2>1. Has("Command", "LoginControllerEnd")
    BY <1>3, <1>9, <1>13 DEF CmdLoginControllerEnd, Has
  <2>2. ~Live
    BY <2>1 DEF SessionInv, HandOver, Live
  <2> QED
    BY <1>8, <2>2
<1>14. CASE CmdExit
  <2>1. Has("Command", "exit")
    BY <1>3, <1>9, <1>14 DEF CmdExit, Terminates, Has
  <2>2. ~Live
    BY <2>1 DEF SessionInv, CommandServes, Live
  <2> QED
    BY <1>8, <2>2
<1> QED
  BY <1>10, <1>11, <1>12, <1>13, <1>14 DEF Command

\* Login suppresses the echo before it asks, and restores it after.
LEMMA ControllerHides ==
  ASSUME TypeOK, SessionInv, HiddenInv, Login \/ Default
  PROVE  HiddenInv'
<1>1. mbox \in Boxes /\ "Connection" \in Actors /\ "Command" \in Actors /\ "Login" \in Actors
      /\ "Default" \in Actors /\ status \in [Actors -> {"none", "up", "down"}]
      /\ recorded \in Seq(Accounts)
  BY DEF TypeOK, Boxes, Actors
<1>2. PICK s \in Seq(Messages) : s = mbox["Connection"]
  BY <1>1 DEF Boxes
<1>3. PICK c \in Seq(Messages) : c = mbox["Command"]
  BY <1>1 DEF Boxes
<1>4. Live => Veiled(s, c, echo, username)
  BY <1>2, <1>3 DEF HiddenInv
<1>5. UNCHANGED <<echo, screen, open>>
  BY DEF Login, LoginStart, LoginTakesUsername, LoginTakesPassword, LoginConfirmed,
         LoginMismatch, LoginExit, Default, DefaultOnUserInput, DefaultExit, connVars
<1>6. Up("Connection")' <=> Up("Connection")
  BY <1>1 DEF Login, LoginStart, LoginTakesUsername, LoginTakesPassword, LoginConfirmed,
         LoginMismatch, LoginExit, Default, DefaultOnUserInput, DefaultExit,
         Handles, Terminates, Up
<1>7. ASSUME recorded' = recorded,
             Live => Veiled(mbox'["Connection"], mbox'["Command"], echo, username')
      PROVE  HiddenInv'
  <2>1. Live' <=> Live
    BY <1>5, <1>6, <1>7 DEF Live
  <2> QED
    BY <1>5, <1>7, <2>1, VeilStep
<1>m. /\ \A p \in Prompts : Prompt(p) \in Messages /\ ~Shows(Prompt(p))
      /\ \A e \in Emissions : Emit(e) \in Messages
  BY MessageTypes, Neutral
<1>p. /\ "enter username" \in Prompts /\ "enter password" \in Prompts
      /\ "confirm password" \in Prompts /\ "pmud" \in Prompts
      /\ "suppress echo" \in Emissions /\ "mismatch" \in Emissions /\ "reply" \in Emissions
  BY DEF Prompts, Emissions
<1>8. ASSUME NEW self \in {"Login", "Default"}, NEW atom, Receives(self, atom),
             NEW msgs \in Seq(Messages), Handles(self, "Command", msgs), Inert(msgs),
             UNCHANGED <<recorded, username>>
      PROVE  HiddenInv'
  <2>1. ASSUME Live PROVE mbox'["Connection"] = s /\ mbox'["Command"] = c \o msgs
    BY <1>2, <1>3, <1>8, <2>1, ControllerWrites
  <2>2. ASSUME Live PROVE Veiled(s, c \o msgs, echo, username)
    BY <1>4, <1>8, <2>2, VeilKept
  <2> QED
    BY <1>7, <1>8, <2>1, <2>2
<1>9. CASE LoginStart
  <2>1. PICK g \in Seq(Messages) : g = <<Prompt("enter username")>> /\ Inert(g)
    BY <1>m, <1>p, Neutral, ListVeil
  <2> QED
    BY <1>8, <1>9, <2>1 DEF LoginStart, loginVars
<1>10. CASE LoginTakesUsername
  <2>1. PICK m \in Messages : m = Emit("suppress echo") /\ Hides(m)
    BY <1>m, <1>p, Neutral
  <2>2. PICK n \in Messages : n = Prompt("enter password") /\ ~Shows(n)
    BY <1>m, <1>p
  <2>3. PICK g \in Seq(Messages) : g = <<m, n>>
    BY ListVeil
  <2>4. Receives("Login", "OnUserInput") /\ Handles("Login", "Command", g) /\ UNCHANGED recorded
    BY <1>10, <2>1, <2>2, <2>3 DEF LoginTakesUsername
  <2>5. ASSUME Live PROVE mbox'["Connection"] = s /\ mbox'["Command"] = c \o g
    BY <1>2, <1>3, <2>4, <2>5, ControllerWrites
  <2>6. ASSUME Live PROVE Veiled(s, c \o <<m, n>>, echo, username')
    BY <1>4, <2>1, <2>2, <2>6, VeilAsked
  <2> QED
    BY <1>7, <2>3, <2>4, <2>5, <2>6
<1>11. CASE LoginTakesPassword
  <2>1. PICK n \in Messages : n = Prompt("confirm password") /\ ~Shows(n)
    BY <1>m, <1>p
  <2>2. PICK g \in Seq(Messages) : g = <<n>>
    BY ListVeil
  <2>3. Receives("Login", "OnUserInput") /\ Handles("Login", "Command", g)
        /\ UNCHANGED <<recorded, username>> /\ username # Empty
    BY <1>11, <2>1, <2>2 DEF LoginTakesPassword
  <2>4. ASSUME Live PROVE mbox'["Connection"] = s /\ mbox'["Command"] = c \o g
    BY <1>2, <1>3, <2>3, <2>4, ControllerWrites
  <2>5. ASSUME Live PROVE Veiled(s, c \o <<n>>, echo, username)
    BY <1>4, <2>1, <2>3, <2>5, VeilAsked
  <2> QED
    BY <1>7, <2>2, <2>3, <2>4, <2>5
<1>12. CASE LoginConfirmed
  <2>1. recorded' = Append(recorded, [username |-> username, passphrase |-> password])
    BY <1>12 DEF LoginConfirmed
  <2>2. recorded' # <<>>
    BY <1>1, <2>1
  <2> QED
    BY <2>2 DEF HiddenInv, Live, PasswordsHidden
<1>13. CASE LoginMismatch
  <2>1. PICK m \in Messages : m = Emit("mismatch") /\ Hides(m)
    BY <1>m, <1>p, Neutral
  <2>2. PICK n \in Messages : n = Prompt("enter password") /\ ~Shows(n)
    BY <1>m, <1>p
  <2>3. PICK g \in Seq(Messages) : g = <<m, n>>
    BY ListVeil
  <2>4. Receives("Login", "OnUserInput") /\ Handles("Login", "Command", g)
        /\ UNCHANGED <<recorded, username>>
    BY <1>13, <2>1, <2>2, <2>3 DEF LoginMismatch, loginVars
  <2>5. ASSUME Live PROVE mbox'["Connection"] = s /\ mbox'["Command"] = c \o g
    BY <1>2, <1>3, <2>4, <2>5, ControllerWrites
  <2>6. ASSUME Live PROVE Veiled(s, c \o <<m, n>>, echo, username')
    BY <1>4, <2>1, <2>2, <2>6, VeilAsked
  <2> QED
    BY <1>7, <2>3, <2>4, <2>5, <2>6
<1>14. CASE DefaultOnUserInput
  <2>1. PICK g \in Seq(Messages) : g = <<Prompt("pmud")>> /\ Inert(g)
    BY <1>m, <1>p, Neutral, ListVeil
  <2>2. PICK h \in Seq(Messages) : h = <<Emit("reply"), Prompt("pmud")>> /\ Inert(h)
    BY <1>m, <1>p, Neutral, ListVeil
  <2>3. CASE Arg("Default") = Empty
    BY <1>8, <1>14, <2>1, <2>3 DEF DefaultOnUserInput, loginVars
  <2>4. CASE Arg("Default") # Empty
    BY <1>8, <1>14, <2>2, <2>4 DEF DefaultOnUserInput, loginVars
  <2> QED
    BY <2>3, <2>4
<1>15. CASE LoginExit \/ DefaultExit
  <2>1. mbox'["Connection"] = s /\ mbox'["Command"] = c /\ UNCHANGED <<recorded, username>>
    BY <1>1, <1>2, <1>3, <1>15 DEF LoginExit, DefaultExit, loginVars, Boxes
  <2> QED
    BY <1>4, <1>7, <2>1
<1> QED
  BY <1>9, <1>10, <1>11, <1>12, <1>13, <1>14, <1>15 DEF Login, Default

\* What server and main send neither asks nor shows.
LEMMA EnvironmentHides ==
  ASSUME TypeOK, SessionInv, HiddenInv, Environment
  PROVE  HiddenInv'
<1>1. mbox \in Boxes /\ "Connection" \in Actors /\ "Command" \in Actors
  BY DEF TypeOK, Boxes, Actors
<1>2. PICK s \in Seq(Messages) : s = mbox["Connection"]
  BY <1>1 DEF Boxes
<1>3. PICK c \in Seq(Messages) : c = mbox["Command"]
  BY <1>1 DEF Boxes
<1>4. UNCHANGED <<echo, screen, open, recorded, username, status>>
  BY DEF Environment, ServerWelcome, MainGoodbye, connVars, loginVars
<1>5. Live' <=> Live
  BY <1>4 DEF Live, Up
<1>6. PICK m \in Messages : mbox' = Sent(mbox, "Connection", <<m>>) /\ ~Shows(m) /\ ~Asks(m)
  BY MessageTypes, Neutral DEF Environment, ServerWelcome, MainGoodbye, Atoms
<1>7. PICK g \in Seq(Messages) : g = <<m>> /\ Inert(g)
  BY <1>6, ListVeil
<1>8. ASSUME Live PROVE Veiled(mbox'["Connection"], mbox'["Command"], echo, username)
  <2>1. mbox'["Connection"] = s \o g /\ mbox'["Command"] = c
    BY <1>1, <1>2, <1>3, <1>6, <1>7, <1>8 DEF Sent, Boxes, Live, Up
  <2>2. Veiled(s, c, echo, username)
    BY <1>2, <1>3, <1>8 DEF HiddenInv
  <2>3. Veiled(s \o g, c, echo, username)
    BY <1>7, <2>2, VeilKept
  <2> QED
    BY <2>1, <2>3
<1> QED
  BY <1>4, <1>5, <1>8, VeilStep

\* Nothing typed at a password prompt is echoed before the account is recorded.
THEOREM PasswordsHiddenAlways == Spec => []PasswordsHidden
<1>1. Init => HiddenInv
  <2> SUFFICES ASSUME Init PROVE HiddenInv
    OBVIOUS
  <2>1. mbox["Connection"] = <<>> /\ mbox["Command"] = <<>> /\ username = Empty /\ screen = NoArg
    BY DEF Init, Actors
  <2>2. NoShows(<<>>) /\ Covered(<<>>)
    BY DEF NoShows, Covered
  <2>3. PasswordsHidden
    BY <2>1 DEF PasswordsHidden, NoArg
  <2> QED
    BY <2>1, <2>2, <2>3 DEF HiddenInv, Veiled
<1>2. TypeOK /\ SessionInv /\ HiddenInv /\ [Next]_vars => HiddenInv'
  <2> SUFFICES ASSUME TypeOK, SessionInv, HiddenInv, [Next]_vars
               PROVE  HiddenInv'
    OBVIOUS
  <2>1. CASE UNCHANGED vars
    <3>1. UNCHANGED <<mbox, status, echo, screen, open, recorded, username>>
      BY <2>1 DEF vars, mailVars, connVars, loginVars
    <3> QED
      BY <3>1 DEF HiddenInv, Live, Up, PasswordsHidden
  <2> QED
    BY <2>1, ConnectionHides, CommandHides, ControllerHides, EnvironmentHides DEF Next
<1>3. HiddenInv => PasswordsHidden
  BY DEF HiddenInv
<1> QED
  BY <1>1, <1>2, <1>3, TypeCorrect, SessionSafe, PTL DEF Spec
=============================================================================
