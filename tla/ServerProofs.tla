---------------------------- MODULE ServerProofs ----------------------------
(***************************************************************************)
(* The safety of the process around the sessions, proved for every set of  *)
(* clients, every number of descriptors and every number of reads.         *)
(***************************************************************************)
EXTENDS Server, SharedLemmas

(***************************************************************************)
(* The parts of the inductive invariant.                                   *)
(***************************************************************************)
\* The sessions that share the MudSystem, and all its owners: main until it
\* ends, the server, the sessions.  Storage and recorder are told when none is
\* left.
Sharing == {c \in Clients : session[c] \in {"new", "up", "ending"}}

RefsCounted ==
  mud_refs = (IF stage \in {"ending", "done"} THEN 0 ELSE 1)
               + (IF server = "up" THEN 1 ELSE 0) + Cardinality(Sharing)

ToldLast == storage # "up" \/ recorder # "up" => mud_refs = 0

\* A session has a descriptor from the beginning.
Connected == \A c \in Clients : session[c] # "none" => m_connection[c] \in Fds

\* An open socket belongs to a session that will still close it.
SocketOwned ==
  \A f \in Fds : sock[f] # Free =>
    /\ session[sock[f]] \in {"new", "up"}
    /\ m_connection[sock[f]] = f
    /\ ~Holds(mail[sock[f]], "exit")

\* A session that main cannot find in the registry is about to exit.
Registered == \A c \in Clients : session[c] = "up" => c \in registry \/ Holds(mail[c], "exit")

\* Before StartServer is handled nothing has happened; if it fails, nothing will.
StartFirst ==
  /\ InFront(inbox, "StartServer")
  /\ Holds(inbox, "StartServer") =>
       /\ ~Holds(inbox, "AcceptConnection") /\ accepting = {}
       /\ \A c \in Clients : session[c] = "none"
  /\ answer = "errno" =>
       /\ ~Holds(inbox, "StartServer") /\ ~Holds(inbox, "AcceptConnection")
       /\ accepting = {}
       /\ \A c \in Clients : session[c] = "none"

\* Main waits for an answer at its start and at its end only; the answer to
\* GoodbyeServer means that the server listens no more, and StartServer has been
\* handled.
Answered ==
  /\ answer # NoAnswer => stage \in {"starting", "killing"}
  /\ answer = "true" => stage = "killing"
  /\ (stage = "killing" /\ answer # NoAnswer) \/ kill_result = "true" =>
       m_sockfd = 0 /\ ~Holds(inbox, "StartServer")

\* From the snapshot on a session has been told to end, or is still to be told, or
\* is late.
Told ==
  /\ stage # "quitting" => todo = {}
  /\ \A c \in Clients :
       stage \in {"quitting", "killing", "ending"} /\ session[c] = "up" =>
         \/ Holds(mail[c], "GoodbyeConnection") \/ Holds(mail[c], "exit")
         \/ c \in late \/ c \in todo

ServerInv ==
  /\ RefsCounted /\ ToldLast
  /\ Connected /\ SocketOwned
  /\ Registered /\ StartFirst /\ Answered /\ Told
-----------------------------------------------------------------------------
ServerAtoms == {"StartServer", "AcceptConnection", "GoodbyeServer", "exit"}

\* accept() finds a descriptor when there is one.
LEMMA LowestFreeIsFree ==
  ASSUME \E f \in Fds : sock[f] = Free
  PROVE  LowestFree \in Fds /\ sock[LowestFree] = Free
<1> DEFINE T == {f \in Fds : sock[f] = Free}
<1>1. T \subseteq Nat /\ T # {}
  BY FdAssumption DEF Fds
<1>2. PICK f \in T : \A g \in T : f <= g
  <2> HIDE DEF T
  <2> QED
    BY <1>1, SmallestExists
<1>3. \E h \in Fds : sock[h] = Free /\ \A g \in Fds : sock[g] = Free => h <= g
  BY <1>2
<1> QED
  BY <1>3 DEF LowestFree

\* Taking a message from a mailbox, and adding others.
LEMMA BoxTypes ==
  ASSUME NEW S, NEW s \in Seq(S)
  PROVE  /\ \A e \in S : Append(s, e) \in Seq(S)
         /\ s # <<>> => Tail(s) \in Seq(S)
         /\ \A e \in S : s # <<>> => Append(Tail(s), e) \in Seq(S)
         /\ \A t \in Seq(S) : s # <<>> => Tail(s) \o t \in Seq(S)
<1>1. s # <<>> => Tail(s) \in Seq(S)
  BY HeadTailProperties
<1>2. \A e \in S, t \in Seq(S) : Append(t, e) \in Seq(S)
  BY AppendProperties
<1>3. \A t, u \in Seq(S) : t \o u \in Seq(S)
  BY ConcatProperties
<1> QED
  BY <1>1, <1>2, <1>3

\* The owners of the MudSystem are counted by a number, and whoever is one of
\* them makes it positive.
LEMMA RefsPositive ==
  ASSUME TypeOK, RefsCounted
  PROVE  /\ IsFiniteSet(Sharing) /\ Cardinality(Sharing) \in Nat
         /\ stage \notin {"ending", "done"} \/ server = "up" \/ Sharing # {} => mud_refs > 0
         /\ mud_refs = 0 => Sharing = {}
<1>1. IsFiniteSet(Sharing)
  BY ClientsAssumption, FS_Subset DEF Sharing
<1>2. Cardinality(Sharing) \in Nat /\ (Cardinality(Sharing) = 0 <=> Sharing = {})
  BY <1>1, FS_CardinalityType, FS_EmptySet
<1> QED
  BY <1>1, <1>2 DEF RefsCounted

\* ReleaseMud keeps the types and the promise to tell storage and recorder last.
LEMMA Released ==
  ASSUME TypeOK, ToldLast, mud_refs > 0, ReleaseMud
  PROVE  /\ mud_refs' = mud_refs - 1 /\ mud_refs' \in Nat
         /\ storage' \in {"up", "told", "down"} /\ recorder' \in {"up", "told", "down"}
         /\ ToldLast'
BY DEF TypeOK, ToldLast, ReleaseMud
\* Every action keeps the types; the count of the owners is needed for mud_refs,
\* and that a session has a descriptor for what it does with its socket.
LEMMA TypeStep ==
  ASSUME TypeOK, RefsCounted, ToldLast, Connected, [Next]_vars
  PROVE  TypeOK'
<1>1. /\ \A e \in ServerAtoms : Append(inbox, e) \in Seq(ServerAtoms)
      /\ inbox # <<>> => Tail(inbox) \in Seq(ServerAtoms)
      /\ \A e \in ServerAtoms : inbox # <<>> => Append(Tail(inbox), e) \in Seq(ServerAtoms)
  BY BoxTypes DEF TypeOK, ServerAtoms
<1>2. ASSUME NEW c \in Clients
      PROVE  /\ \A e \in Atoms : Append(mail[c], e) \in Seq(Atoms)
             /\ mail[c] # <<>> => Tail(mail[c]) \o <<>> \in Seq(Atoms)
             /\ \A e \in Atoms : mail[c] # <<>> => Tail(mail[c]) \o <<e>> \in Seq(Atoms)
  <2>1. mail[c] \in Seq(Atoms) /\ <<>> \in Seq(Atoms) /\ \A e \in Atoms : <<e>> \in Seq(Atoms)
    BY DEF TypeOK
  <2> QED
    BY <2>1, BoxTypes
<1>3. ASSUME NEW c \in Clients, session[c] = "up", Uses(c)
      PROVE  crossed' \subseteq Clients \X Clients
  BY <1>3 DEF Uses, Peer, TypeOK, Connected
<1> USE DEF mainVars, serverVars, connVars, mudVars
<1>4. CASE Interrupt
  BY <1>4 DEF Interrupt, TypeOK
<1>5. CASE MainStarted
  <2>1. mud_refs > 0
    BY <1>5, RefsPositive DEF MainStarted
  <2>2. ReleaseMud => /\ mud_refs' \in Nat
                      /\ storage' \in {"up", "told", "down"} /\ recorder' \in {"up", "told", "down"}
    BY <2>1, Released
  <2> QED
    BY <1>5, <2>2 DEF MainStarted, TypeOK, Stages
<1>6. CASE MainStartTimeout
  BY <1>6 DEF MainStartTimeout, TypeOK, Stages
<1>7. CASE MainSeesSignal
  BY <1>7 DEF MainSeesSignal, TypeOK, Stages
<1>8. ASSUME NEW c \in Clients, MainQuits(c)
      PROVE  TypeOK'
  BY <1>2, <1>8 DEF MainQuits, TypeOK, Atoms
<1>9. CASE MainKills
  BY <1>1, <1>9 DEF MainKills, ToServer, TypeOK, Stages, ServerAtoms
<1>10. CASE MainKillEnds
  <2>1. mud_refs > 0
    BY <1>10, RefsPositive DEF MainKillEnds
  <2>2. /\ mud_refs' \in Nat
        /\ storage' \in {"up", "told", "down"} /\ recorder' \in {"up", "told", "down"}
    BY <1>10, <2>1, Released DEF MainKillEnds
  <2> QED
    BY <1>10, <2>2 DEF MainKillEnds, TypeOK, Stages
<1>11. CASE MainDone
  BY <1>11 DEF MainDone, TypeOK, Stages
<1>12. CASE ServerStarts
  BY <1>1, <1>12 DEF ServerStarts, Hears, TypeOK, ServerAtoms
<1>13. CASE ServerStartFails
  BY <1>1, <1>13 DEF ServerStartFails, Hears, TypeOK, ServerAtoms
<1>14. CASE ServerIgnoresAccept \/ ServerAcceptsNobody
  <2>1. inbox' \in Seq(ServerAtoms)
    BY <1>1, <1>14 DEF ServerIgnoresAccept, ServerAcceptsNobody, Hears, ServerAtoms
  <2>2. UNCHANGED <<server, m_sockfd, accepting, mainVars, g_signal_status, answer, connVars, mudVars, late>>
    BY <1>14 DEF ServerIgnoresAccept, ServerAcceptsNobody
  <2> QED
    BY <2>1, <2>2 DEF TypeOK, ServerAtoms
<1>15. ASSUME NEW c \in Clients, ServerAccepts(c)
       PROVE  TypeOK'
  <2>1. LowestFree \in Fds
    BY <1>15, LowestFreeIsFree DEF ServerAccepts
  <2>2. <<>> \in Seq(Atoms)
    OBVIOUS
  <2> HIDE DEF LowestFree
  <2> QED
    BY <1>1, <1>15, <2>1, <2>2 DEF ServerAccepts, Hears, TypeOK, ServerAtoms
<1>a. ASSUME NEW c \in Clients, ServerRegisters(c)
      PROVE  TypeOK'
  BY <1>a DEF ServerRegisters, TypeOK
<1>b. ASSUME NEW c \in Clients, ServerWelcomes(c)
      PROVE  TypeOK'
  BY <1>1, <1>2, <1>b DEF ServerWelcomes, TypeOK, Atoms, ServerAtoms
<1>16. CASE ServerGoodbye
  BY <1>1, <1>16 DEF ServerGoodbye, Hears, TypeOK, ServerAtoms
<1>17. CASE ServerExit
  <2>1. mud_refs > 0
    BY <1>17, RefsPositive DEF ServerExit
  <2>2. /\ mud_refs' \in Nat
        /\ storage' \in {"up", "told", "down"} /\ recorder' \in {"up", "told", "down"}
    BY <1>17, <2>1, Released DEF ServerExit
  <2> QED
    BY <1>17, <2>2 DEF ServerExit, TypeOK
<1>18. ASSUME NEW c \in Clients, ConnWelcome(c) \/ PollIdle(c) \/ ConnExit(c) \/ PromptArrives(c)
       PROVE  TypeOK'
  <2>1. CASE ConnWelcome(c)
    BY <1>2, <2>1 DEF ConnWelcome, Gets, Takes, TypeOK
  <2>2. CASE PollIdle(c)
    BY <1>2, <2>2 DEF PollIdle, Gets, Takes, TypeOK, Atoms
  <2>3. CASE ConnExit(c)
    BY <2>3 DEF ConnExit, TypeOK
  <2>4. CASE PromptArrives(c)
    BY <1>2, <2>4 DEF PromptArrives, TypeOK, Atoms
  <2> QED
    BY <1>18, <2>1, <2>2, <2>3, <2>4
<1>19. ASSUME NEW c \in Clients, ConnPrompt(c)
       PROVE  TypeOK'
  BY <1>2, <1>3, <1>19 DEF ConnPrompt, Gets, Takes, TypeOK, Atoms
<1>20. ASSUME NEW c \in Clients, PollReads(c)
       PROVE  TypeOK'
  <2>1. mail' \in [Clients -> Seq(Atoms)]
    BY <1>2, <1>20 DEF PollReads, Gets, Takes, TypeOK, Atoms
  <2>2. crossed' \subseteq Clients \X Clients
    BY <1>3, <1>20 DEF PollReads, Gets
  <2>3. owed' \in [Clients -> Nat] /\ reads' \in 0..MaxReads
    <3>1. owed' = owed \/ owed' = [owed EXCEPT ![c] = @ + 1]
      BY <1>20 DEF PollReads
    <3>2. reads < MaxReads /\ reads' = reads + 1
      BY <1>20 DEF PollReads
    <3>3. reads \in 0..MaxReads /\ owed \in [Clients -> Nat] /\ MaxReads \in Nat
      BY FdAssumption DEF TypeOK
    <3>4. owed' \in [Clients -> Nat]
      BY <3>1, <3>3
    <3>5. reads' \in 0..MaxReads
      BY <3>2, <3>3
    <3> QED
      BY <3>4, <3>5
  <2>4. UNCHANGED <<session, m_connection, sock, registry, mainVars, g_signal_status,
                    answer, serverVars, mudVars, late>>
    BY <1>20 DEF PollReads
  <2> QED
    BY <2>1, <2>2, <2>3, <2>4 DEF TypeOK
<1>21. ASSUME NEW c \in Clients, ConnGoodbye(c)
       PROVE  TypeOK'
  BY <1>2, <1>3, <1>21 DEF ConnGoodbye, Gets, Takes, TypeOK, Atoms
<1>22. ASSUME NEW c \in Clients, SessionEnds(c)
       PROVE  TypeOK'
  <2>1. mud_refs > 0
    BY <1>22, RefsPositive DEF SessionEnds, Sharing
  <2>2. /\ mud_refs' \in Nat
        /\ storage' \in {"up", "told", "down"} /\ recorder' \in {"up", "told", "down"}
    BY <1>22, <2>1, Released DEF SessionEnds
  <2> QED
    BY <1>22, <2>2 DEF SessionEnds, TypeOK
<1>23. CASE StorageExit \/ RecorderExit
  BY <1>23 DEF StorageExit, RecorderExit, TypeOK
<1>24. CASE UNCHANGED vars
  BY <1>24 DEF vars, TypeOK
<1> QED
  BY <1>4, <1>5, <1>6, <1>7, <1>8, <1>9, <1>10, <1>11, <1>12, <1>13, <1>14, <1>15, <1>16,
     <1>17, <1>18, <1>19, <1>20, <1>21, <1>22, <1>23, <1>24, <1>a, <1>b
     DEF Next, Main, ServerActor, ConnectionActor
-----------------------------------------------------------------------------
(***************************************************************************)
(* The references to the MudSystem.                                        *)
(***************************************************************************)
\* Who shares the MudSystem is counted by mud_refs.
LEMMA RefsStep ==
  ASSUME TypeOK, RefsCounted, ToldLast, [Next]_vars
  PROVE  RefsCounted' /\ ToldLast'
<1> DEFINE Ended == stage \in {"ending", "done"}
<1> USE DEF mainVars, serverVars, connVars, mudVars
<1>1. ASSUME UNCHANGED <<session, server, mudVars>>, Ended' <=> Ended
      PROVE  RefsCounted' /\ ToldLast'
  BY <1>1 DEF RefsCounted, ToldLast, Sharing
<1>2. ASSUME ~Ended, Ended', UNCHANGED <<session, server>>, ReleaseMud
      PROVE  RefsCounted' /\ ToldLast'
  <2>1. mud_refs > 0 /\ Cardinality(Sharing) \in Nat
    BY <1>2, RefsPositive
  <2>2. mud_refs' = mud_refs - 1 /\ ToldLast'
    BY <1>2, <2>1, Released
  <2>3. Sharing' = Sharing
    BY <1>2 DEF Sharing
  <2> QED
    BY <1>2, <2>1, <2>2, <2>3 DEF RefsCounted
<1>3. CASE Interrupt \/ MainStartTimeout \/ MainSeesSignal \/ MainKills
  BY <1>1, <1>3 DEF Interrupt, MainStartTimeout, MainSeesSignal, MainKills
<1>4. CASE MainStarted
  <2>1. CASE answer = "ok"
    BY <1>1, <1>4, <2>1 DEF MainStarted
  <2>2. CASE answer # "ok"
    BY <1>2, <1>4, <2>2 DEF MainStarted
  <2> QED
    BY <2>1, <2>2
<1>5. ASSUME NEW c \in Clients, MainQuits(c)
      PROVE  RefsCounted' /\ ToldLast'
  BY <1>1, <1>5 DEF MainQuits
<1>6. CASE MainKillEnds
  BY <1>2, <1>6 DEF MainKillEnds
<1>7. CASE MainDone
  BY <1>1, <1>7 DEF MainDone
<1>8. CASE ServerStarts \/ ServerStartFails \/ ServerIgnoresAccept
           \/ ServerAcceptsNobody \/ ServerGoodbye
  BY <1>1, <1>8 DEF ServerStarts, ServerStartFails, ServerIgnoresAccept,
       ServerAcceptsNobody, ServerGoodbye
<1>9. ASSUME NEW c \in Clients, ServerAccepts(c)
      PROVE  RefsCounted' /\ ToldLast'
  <2>1. /\ session[c] = "none" /\ session' = [session EXCEPT ![c] = "new"]
        /\ server = "up" /\ mud_refs' = mud_refs + 1
        /\ UNCHANGED <<stage, server, storage, recorder>>
    BY <1>9 DEF ServerAccepts, Hears
  <2>2. IsFiniteSet(Sharing) /\ Cardinality(Sharing) \in Nat /\ mud_refs > 0
    BY <2>1, RefsPositive
  <2>3. Sharing' = Sharing \cup {c} /\ c \notin Sharing
    BY <2>1 DEF Sharing, TypeOK
  <2>4. Cardinality(Sharing') = Cardinality(Sharing) + 1
    BY <2>2, <2>3, FS_AddElement
  <2> QED
    BY <2>1, <2>2, <2>4 DEF RefsCounted, ToldLast
<1>a. ASSUME NEW c \in Clients, ServerRegisters(c)
      PROVE  RefsCounted' /\ ToldLast'
  <2>1. /\ session[c] = "new" /\ session' = [session EXCEPT ![c] = "up"]
        /\ UNCHANGED <<stage, server, mudVars>>
    BY <1>a DEF ServerRegisters
  <2>2. Sharing' = Sharing
    BY <2>1 DEF Sharing, TypeOK
  <2> QED
    BY <2>1, <2>2 DEF RefsCounted, ToldLast
<1>b. ASSUME NEW c \in Clients, ServerWelcomes(c)
      PROVE  RefsCounted' /\ ToldLast'
  BY <1>1, <1>b DEF ServerWelcomes
<1>10. CASE ServerExit
  <2>1. server = "up" /\ server' = "down" /\ ReleaseMud /\ UNCHANGED <<stage, session>>
    BY <1>10 DEF ServerExit
  <2>2. mud_refs > 0 /\ Cardinality(Sharing) \in Nat
    BY <2>1, RefsPositive
  <2>3. mud_refs' = mud_refs - 1 /\ ToldLast'
    BY <2>1, <2>2, Released
  <2>4. Sharing' = Sharing
    BY <2>1 DEF Sharing
  <2> QED
    BY <2>1, <2>2, <2>3, <2>4 DEF RefsCounted
<1>11. ASSUME NEW c \in Clients,
              ConnWelcome(c) \/ ConnPrompt(c) \/ PollIdle(c) \/ PollReads(c) \/ ConnGoodbye(c)
                \/ PromptArrives(c)
       PROVE  RefsCounted' /\ ToldLast'
  BY <1>1, <1>11 DEF ConnWelcome, ConnPrompt, PollIdle, PollReads, ConnGoodbye, PromptArrives
<1>12. ASSUME NEW c \in Clients, ConnExit(c)
       PROVE  RefsCounted' /\ ToldLast'
  <2>1. /\ session[c] = "up" /\ session' = [session EXCEPT ![c] = "ending"]
        /\ UNCHANGED <<stage, server, mudVars>>
    BY <1>12 DEF ConnExit, Gets
  <2>2. Sharing' = Sharing
    BY <2>1 DEF Sharing, TypeOK
  <2> QED
    BY <2>1, <2>2 DEF RefsCounted, ToldLast
<1>13. ASSUME NEW c \in Clients, SessionEnds(c)
       PROVE  RefsCounted' /\ ToldLast'
  <2>1. /\ session[c] = "ending" /\ session' = [session EXCEPT ![c] = "down"]
        /\ ReleaseMud /\ UNCHANGED <<stage, server>>
    BY <1>13 DEF SessionEnds
  <2>2. c \in Sharing /\ Sharing' = Sharing \ {c}
    BY <2>1 DEF Sharing, TypeOK
  <2>3. IsFiniteSet(Sharing) /\ Cardinality(Sharing) \in Nat /\ mud_refs > 0
    BY <2>2, RefsPositive
  <2>4. Cardinality(Sharing') = Cardinality(Sharing) - 1
    BY <2>2, <2>3, FS_RemoveElement
  <2>5. mud_refs' = mud_refs - 1 /\ ToldLast'
    BY <2>1, <2>3, Released
  <2> QED
    BY <2>1, <2>3, <2>4, <2>5 DEF RefsCounted
<1>14. CASE StorageExit \/ RecorderExit
  <2>1. mud_refs = 0 /\ UNCHANGED <<stage, server, session, mud_refs>>
    BY <1>14 DEF StorageExit, RecorderExit, ToldLast
  <2> QED
    BY <2>1 DEF RefsCounted, ToldLast, Sharing
<1>15. CASE UNCHANGED vars
  BY <1>1, <1>15 DEF vars
<1> QED
  BY <1>3, <1>4, <1>5, <1>6, <1>7, <1>8, <1>9, <1>10, <1>11, <1>12, <1>13, <1>14, <1>15,
     <1>a, <1>b DEF Next, Main, ServerActor, ConnectionActor
-----------------------------------------------------------------------------
(***************************************************************************)
(* The sessions' mailboxes and sockets.                                    *)
(***************************************************************************)
\* What is in the mailboxes after c's actor has taken a message and sent itself t.
LEMMA TakesHolds ==
  ASSUME TypeOK, NEW c \in Clients, mail[c] # <<>>, NEW t \in Seq(Atoms), Takes(c, t), NEW x
  PROVE  /\ \A d \in Clients : d # c => mail'[d] = mail[d]
         /\ Holds(mail'[c], x) => Holds(mail[c], x) \/ Holds(t, x)
         /\ Holds(t, x) => Holds(mail'[c], x)
         /\ Holds(mail[c], x) /\ Head(mail[c]) # x => Holds(mail'[c], x)
<1>1. mail[c] \in Seq(Atoms) /\ mail'[c] = Tail(mail[c]) \o t
  BY DEF TypeOK, Takes
<1>2. \A d \in Clients : d # c => mail'[d] = mail[d]
  BY DEF TypeOK, Takes
<1>3. /\ Tail(mail[c]) \in Seq(Atoms)
      /\ Holds(Tail(mail[c]), x) => Holds(mail[c], x)
      /\ Holds(mail[c], x) /\ Head(mail[c]) # x => Holds(Tail(mail[c]), x)
  BY <1>1, TakenHolds, HeadTailProperties
<1>4. Holds(Tail(mail[c]) \o t, x) <=> Holds(Tail(mail[c]), x) \/ Holds(t, x)
  BY <1>3, AddedHolds
<1> QED
  BY <1>1, <1>2, <1>3, <1>4

\* Messages to itself: nothing, or one.
LEMMA OneMessage ==
  /\ <<>> \in Seq(Atoms) /\ \A x : ~Holds(<<>>, x)
  /\ \A e \in Atoms : <<e>> \in Seq(Atoms) /\ \A x : Holds(<<e>>, x) <=> e = x
<1>1. \A x : ~Holds(<<>>, x)
  BY DEF Holds
<1>2. \A e \in Atoms : <<e>> \in Seq(Atoms) /\ \A x : Holds(<<e>>, x) <=> e = x
  BY DEF Holds
<1> QED
  BY <1>1, <1>2

\* The messages that end a session, before and after a step of the conversation:
\* "exit" comes and goes with nobody, "GoodbyeConnection" is not lost.
Conversing ==
  /\ UNCHANGED <<session, m_connection, sock, registry>>
  /\ \A d \in Clients :
       /\ Holds(mail'[d], "exit") <=> Holds(mail[d], "exit")
       /\ Holds(mail[d], "GoodbyeConnection") => Holds(mail'[d], "GoodbyeConnection")

\* The steps of a session that neither begin nor end it are Conversing.
LEMMA Converses ==
  ASSUME TypeOK, NEW c \in Clients,
         ConnWelcome(c) \/ ConnPrompt(c) \/ PollIdle(c) \/ PollReads(c) \/ PromptArrives(c)
           \/ MainQuits(c) \/ ServerWelcomes(c)
  PROVE  Conversing
<1>1. ASSUME NEW a \in Atoms \ {"exit", "GoodbyeConnection"}, Gets(c, a),
             NEW t \in Seq(Atoms), ~Holds(t, "exit"), Takes(c, t)
      PROVE  \A d \in Clients :
               /\ Holds(mail'[d], "exit") <=> Holds(mail[d], "exit")
               /\ Holds(mail[d], "GoodbyeConnection") => Holds(mail'[d], "GoodbyeConnection")
  <2>1. mail[c] # <<>> /\ Head(mail[c]) = a
    BY <1>1 DEF Gets
  <2>2. /\ \A d \in Clients : d # c => mail'[d] = mail[d]
        /\ Holds(mail'[c], "exit") <=> Holds(mail[c], "exit")
    BY <1>1, <2>1, TakesHolds
  <2>3. Holds(mail[c], "GoodbyeConnection") => Holds(mail'[c], "GoodbyeConnection")
    BY <1>1, <2>1, TakesHolds
  <2> QED
    BY <2>2, <2>3
<1>2. ASSUME NEW a \in Atoms \ {"exit"}, mail' = [mail EXCEPT ![c] = Append(@, a)]
      PROVE  \A d \in Clients :
               /\ Holds(mail'[d], "exit") <=> Holds(mail[d], "exit")
               /\ Holds(mail[d], "GoodbyeConnection") => Holds(mail'[d], "GoodbyeConnection")
  <2>1. /\ mail[c] \in Seq(Atoms) /\ mail'[c] = Append(mail[c], a)
        /\ \A d \in Clients : d # c => mail'[d] = mail[d]
    BY <1>2 DEF TypeOK
  <2>2. Holds(mail'[c], "exit") <=> Holds(mail[c], "exit")
    BY <2>1, AppendedHolds
  <2>3. Holds(mail[c], "GoodbyeConnection") => Holds(mail'[c], "GoodbyeConnection")
    BY <2>1, AppendedHolds
  <2> QED
    BY <2>1, <2>2, <2>3
<1>3. /\ <<>> \in Seq(Atoms) /\ ~Holds(<<>>, "exit")
      /\ <<"FromUserGetInput">> \in Seq(Atoms) /\ ~Holds(<<"FromUserGetInput">>, "exit")
      /\ <<"GoodbyeConnection">> \in Seq(Atoms) /\ ~Holds(<<"GoodbyeConnection">>, "exit")
  BY OneMessage DEF Atoms
<1> USE DEF mainVars, serverVars, connVars, mudVars
<1>4. CASE ConnWelcome(c)
  BY <1>1, <1>3, <1>4 DEF ConnWelcome, Conversing, Atoms
<1>5. CASE ConnPrompt(c)
  BY <1>1, <1>3, <1>5 DEF ConnPrompt, Conversing, Atoms
<1>6. CASE PollIdle(c)
  BY <1>1, <1>3, <1>6 DEF PollIdle, Conversing, Atoms
<1>7. CASE PollReads(c)
  <2>1. /\ Gets(c, "FromUserGetInput") /\ UNCHANGED <<session, m_connection, sock, registry>>
        /\ Takes(c, <<"GoodbyeConnection">>) \/ Takes(c, <<"FromUserGetInput">>)
    BY <1>7 DEF PollReads
  <2> QED
    BY <1>1, <1>3, <2>1 DEF Conversing, Atoms
<1>8. CASE PromptArrives(c)
  BY <1>2, <1>8 DEF PromptArrives, Conversing, Atoms
<1>9. CASE MainQuits(c)
  <2>1. CASE session[c] = "up"
    BY <1>2, <1>9, <2>1 DEF MainQuits, Conversing, Atoms
  <2>2. CASE session[c] # "up"
    BY <1>9, <2>2 DEF MainQuits, Conversing
  <2> QED
    BY <2>1, <2>2
<1>10. CASE ServerWelcomes(c)
  <2>1. CASE session[c] = "up"
    BY <1>2, <1>10, <2>1 DEF ServerWelcomes, Conversing, Atoms
  <2>2. CASE session[c] # "up"
    BY <1>10, <2>2 DEF ServerWelcomes, Conversing
  <2> QED
    BY <2>1, <2>2
<1> QED
  BY <1>4, <1>5, <1>6, <1>7, <1>8, <1>9, <1>10

\* What ConnGoodbye leaves: the closed descriptor, and "exit" in the mailbox.
LEMMA SaysGoodbye ==
  ASSUME TypeOK, NEW c \in Clients, ConnGoodbye(c)
  PROVE  /\ session[c] = "up" /\ UNCHANGED <<session, m_connection>>
         /\ registry' = registry \ {c}
         /\ Holds(mail'[c], "exit")
         /\ \A d \in Clients : d # c => mail'[d] = mail[d]
<1>1. /\ Takes(c, <<"exit">>) /\ mail[c] # <<>> /\ session[c] = "up"
      /\ registry' = registry \ {c} /\ UNCHANGED <<session, m_connection>>
  BY DEF ConnGoodbye, Gets
<1>2. <<"exit">> \in Seq(Atoms) /\ Holds(<<"exit">>, "exit")
  BY OneMessage DEF Atoms
<1> QED
  BY <1>1, <1>2, TakesHolds

\* An open socket stays with the session that will close it.
LEMMA SocketStep ==
  ASSUME TypeOK, Connected, SocketOwned, [Next]_vars
  PROVE  Connected' /\ SocketOwned'
<1> USE DEF mainVars, serverVars, connVars, mudVars
<1>1. ASSUME UNCHANGED <<session, m_connection, sock, mail>>
      PROVE  Connected' /\ SocketOwned'
  BY <1>1 DEF Connected, SocketOwned
<1>2. ASSUME Conversing
      PROVE  Connected' /\ SocketOwned'
  <2>1. Connected'
    BY <1>2 DEF Conversing, Connected
  <2>2. SocketOwned'
    BY <1>2 DEF Conversing, SocketOwned, TypeOK
  <2> QED
    BY <2>1, <2>2
<1>3. CASE Interrupt \/ MainStartTimeout \/ MainSeesSignal \/ MainKills \/ MainDone
           \/ MainStarted \/ MainKillEnds
  BY <1>1, <1>3 DEF Interrupt, MainStartTimeout, MainSeesSignal, MainKills, MainDone,
       MainStarted, MainKillEnds
<1>4. CASE ServerStarts \/ ServerStartFails \/ ServerIgnoresAccept
           \/ ServerAcceptsNobody \/ ServerGoodbye \/ ServerExit
  BY <1>1, <1>4 DEF ServerStarts, ServerStartFails, ServerIgnoresAccept,
       ServerAcceptsNobody, ServerGoodbye, ServerExit
<1>5. ASSUME NEW c \in Clients, ServerAccepts(c)
      PROVE  Connected' /\ SocketOwned'
  <2>1. LowestFree \in Fds /\ sock[LowestFree] = Free
    BY <1>5, LowestFreeIsFree DEF ServerAccepts
  <2>2. PICK g \in Fds : g = LowestFree
    BY <2>1
  <2>3. /\ session[c] = "none" /\ session' = [session EXCEPT ![c] = "new"]
        /\ m_connection' = [m_connection EXCEPT ![c] = g]
        /\ sock' = [sock EXCEPT ![g] = c]
        /\ mail' = [mail EXCEPT ![c] = <<>>]
    BY <1>5, <2>2 DEF ServerAccepts
  <2>4. Connected'
    BY <2>3 DEF Connected, TypeOK
  <2>5. ~Holds(<<>>, "exit")
    BY DEF Holds
  <2>6. SocketOwned'
    <3> SUFFICES ASSUME NEW f \in Fds, sock'[f] # Free
                 PROVE  /\ session'[sock'[f]] \in {"new", "up"} /\ m_connection'[sock'[f]] = f
                        /\ ~Holds(mail'[sock'[f]], "exit")
      BY DEF SocketOwned
    <3>1. CASE f = g
      BY <2>3, <2>5, <3>1 DEF TypeOK
    <3>2. CASE f # g
      <4>1. sock'[f] = sock[f] /\ sock[f] \in Clients /\ session[sock[f]] \in {"new", "up"}
        BY <2>3, <3>2 DEF TypeOK, SocketOwned
      <4>2. sock[f] # c
        BY <2>3, <4>1
      <4> QED
        BY <2>3, <4>1, <4>2 DEF TypeOK, SocketOwned
    <3> QED
      BY <3>1, <3>2
  <2> QED
    BY <2>4, <2>6
<1>a. ASSUME NEW c \in Clients, ServerRegisters(c)
      PROVE  Connected' /\ SocketOwned'
  <2>1. /\ session[c] = "new" /\ session' = [session EXCEPT ![c] = "up"]
        /\ UNCHANGED <<m_connection, sock, mail>>
    BY <1>a DEF ServerRegisters
  <2> QED
    BY <2>1 DEF Connected, SocketOwned, TypeOK
<1>6. ASSUME NEW c \in Clients,
             ConnWelcome(c) \/ ConnPrompt(c) \/ PollIdle(c) \/ PollReads(c) \/ PromptArrives(c)
               \/ MainQuits(c) \/ ServerWelcomes(c)
      PROVE  Connected' /\ SocketOwned'
  BY <1>2, <1>6, Converses
<1>7. ASSUME NEW c \in Clients, ConnGoodbye(c)
      PROVE  Connected' /\ SocketOwned'
  <2>1. /\ session[c] = "up" /\ UNCHANGED <<session, m_connection>>
        /\ \A d \in Clients : d # c => mail'[d] = mail[d]
    BY <1>7, SaysGoodbye
  <2>2. sock' = [sock EXCEPT ![m_connection[c]] = Free]
    BY <1>7 DEF ConnGoodbye
  <2>3. SocketOwned'
    <3> SUFFICES ASSUME NEW f \in Fds, sock'[f] # Free
                 PROVE  /\ session'[sock'[f]] \in {"new", "up"} /\ m_connection'[sock'[f]] = f
                        /\ ~Holds(mail'[sock'[f]], "exit")
      BY DEF SocketOwned
    <3>1. f # m_connection[c] /\ sock'[f] = sock[f] /\ sock[f] \in Clients
      BY <2>2 DEF TypeOK
    <3>2. /\ session[sock[f]] \in {"new", "up"} /\ m_connection[sock[f]] = f
          /\ ~Holds(mail[sock[f]], "exit")
      BY <3>1 DEF SocketOwned
    <3>3. sock[f] # c
      BY <3>1, <3>2
    <3> QED
      BY <2>1, <3>1, <3>2, <3>3
  <2> QED
    BY <2>1, <2>3 DEF Connected
<1>8. ASSUME NEW c \in Clients, ConnExit(c)
      PROVE  Connected' /\ SocketOwned'
  <2>1. /\ session[c] = "up" /\ mail[c] # <<>> /\ Head(mail[c]) = "exit"
        /\ session' = [session EXCEPT ![c] = "ending"]
        /\ mail' = [mail EXCEPT ![c] = <<>>]
        /\ UNCHANGED <<m_connection, sock>>
    BY <1>8 DEF ConnExit, Gets
  <2>2. Holds(mail[c], "exit")
    BY <2>1, TakenHolds DEF TypeOK
  <2>3. \A f \in Fds : sock[f] # c
    BY <2>2, FreeAssumption DEF SocketOwned
  <2> QED
    BY <2>1, <2>3 DEF Connected, SocketOwned, TypeOK
<1>9. ASSUME NEW c \in Clients, SessionEnds(c)
      PROVE  Connected' /\ SocketOwned'
  <2>1. /\ session[c] = "ending" /\ session' = [session EXCEPT ![c] = "down"]
        /\ UNCHANGED <<m_connection, sock, mail>>
    BY <1>9 DEF SessionEnds
  <2> QED
    BY <2>1 DEF Connected, SocketOwned, TypeOK
<1>10. CASE StorageExit \/ RecorderExit \/ UNCHANGED vars
  BY <1>1, <1>10 DEF StorageExit, RecorderExit, vars
<1> QED
  BY <1>3, <1>4, <1>5, <1>6, <1>7, <1>8, <1>9, <1>10, <1>a
     DEF Next, Main, ServerActor, ConnectionActor
-----------------------------------------------------------------------------
(***************************************************************************)
(* The server's mailbox and its answers to main.                           *)
(***************************************************************************)
\* StartServer has been handled when the server has handled anything.
LEMMA ServerHears ==
  ASSUME TypeOK, StartFirst, NEW a \in ServerAtoms, Hears(a)
  PROVE  /\ Holds(inbox, a)
         /\ Tail(inbox) \in Seq(ServerAtoms)
         /\ ~Holds(Tail(inbox), "StartServer")
         /\ \A x : Holds(Tail(inbox), x) => Holds(inbox, x)
<1>1. inbox \in Seq(ServerAtoms) /\ inbox # <<>> /\ Head(inbox) = a
  BY DEF TypeOK, Hears, ServerAtoms
<1>2. InFront(inbox, "StartServer")
  BY DEF StartFirst
<1>3. Tail(inbox) \in Seq(ServerAtoms) /\ Holds(inbox, a) /\ ~Holds(Tail(inbox), "StartServer")
  BY <1>1, <1>2, TakenHolds, HeadTailProperties
<1>4. \A x : Holds(Tail(inbox), x) => Holds(inbox, x)
  BY <1>1, TakenHolds
<1> QED
  BY <1>3, <1>4

\* The server sends itself e afterwards.
LEMMA ServerGoesOn ==
  ASSUME TypeOK, StartFirst, NEW a \in ServerAtoms, Hears(a),
         NEW e \in ServerAtoms \ {"StartServer"}, inbox' = Append(Tail(inbox), e)
  PROVE  /\ ~Holds(inbox', "StartServer") /\ InFront(inbox', "StartServer")
         /\ \A x : Holds(inbox', x) => Holds(inbox, x) \/ x = e
<1>1. /\ Tail(inbox) \in Seq(ServerAtoms) /\ ~Holds(Tail(inbox), "StartServer")
      /\ \A x : Holds(Tail(inbox), x) => Holds(inbox, x)
  BY ServerHears
<1>2. \A x : Holds(inbox', x) <=> Holds(Tail(inbox), x) \/ e = x
  BY <1>1, AppendedHolds
<1>3. ~Holds(inbox', "StartServer")
  BY <1>1, <1>2
<1>4. InFront(inbox', "StartServer")
  BY <1>3 DEF Holds, InFront
<1> QED
  BY <1>1, <1>2, <1>3, <1>4

\* StartServer comes first, and what the answers mean.
LEMMA InboxStep ==
  ASSUME TypeOK, StartFirst, Answered, [Next]_vars
  PROVE  StartFirst' /\ Answered'
<1> USE DEF mainVars, serverVars, connVars, mudVars
<1>1. ASSUME UNCHANGED <<inbox, accepting, answer, stage, kill_result, m_sockfd>>,
             \A c \in Clients : session[c] = "none" => session'[c] = "none"
      PROVE  StartFirst' /\ Answered'
  BY <1>1 DEF StartFirst, Answered
<1>2. ASSUME UNCHANGED <<inbox, accepting, session, m_sockfd>>,
             answer' = NoAnswer,
             kill_result' = "true" =>
               kill_result = "true" \/ (stage = "killing" /\ answer # NoAnswer)
      PROVE  StartFirst' /\ Answered'
  <2>1. answer' # "errno" /\ answer' # "true"
    BY <1>2 DEF NoAnswer
  <2>2. StartFirst'
    BY <1>2, <2>1 DEF StartFirst
  <2>3. Answered'
    BY <1>2, <2>1 DEF Answered
  <2> QED
    BY <2>2, <2>3
<1>3. CASE Interrupt \/ StorageExit \/ RecorderExit \/ UNCHANGED vars
  BY <1>1, <1>3 DEF Interrupt, StorageExit, RecorderExit, vars
<1>4. CASE MainStarted
  <2>1. UNCHANGED <<inbox, accepting, session, m_sockfd>> /\ answer' = NoAnswer
    BY <1>4 DEF MainStarted
  <2>2. kill_result' = "true" => kill_result = "true"
    BY <1>4 DEF MainStarted
  <2> QED
    BY <1>2, <2>1, <2>2
<1>5. CASE MainStartTimeout \/ MainSeesSignal \/ MainDone
  <2>1. UNCHANGED <<inbox, accepting, session, m_sockfd, answer, kill_result>>
    BY <1>5 DEF MainStartTimeout, MainSeesSignal, MainDone
  <2>2. answer' = NoAnswer
    BY <1>5 DEF MainStartTimeout, MainSeesSignal, MainDone, Answered
  <2> QED
    BY <1>2, <2>1, <2>2
<1>6. CASE MainKills
  <2>1. /\ answer = NoAnswer
        /\ UNCHANGED <<accepting, session, m_sockfd, answer, kill_result>>
        /\ inbox' = ToServer("GoodbyeServer")
    BY <1>6 DEF MainKills, Answered
  <2>2. inbox \in Seq(ServerAtoms) /\ "GoodbyeServer" \in ServerAtoms
    BY DEF TypeOK, ServerAtoms
  <2>3. /\ InFront(inbox, "StartServer") =>
             InFront(Append(inbox, "GoodbyeServer"), "StartServer")
        /\ Holds(Append(inbox, "GoodbyeServer"), "StartServer") => Holds(inbox, "StartServer")
    BY <2>2, AppendedHolds
  <2>4. Holds(Append(inbox, "GoodbyeServer"), "AcceptConnection") =>
          Holds(inbox, "AcceptConnection")
    BY <2>2, AppendedHolds
  <2>5. /\ InFront(inbox, "StartServer") => InFront(inbox', "StartServer")
        /\ Holds(inbox', "StartServer") => Holds(inbox, "StartServer")
        /\ Holds(inbox', "AcceptConnection") => Holds(inbox, "AcceptConnection")
    BY <2>1, <2>3, <2>4 DEF ToServer
  <2> QED
    BY <2>1, <2>5 DEF StartFirst, Answered, NoAnswer
<1>7. CASE MainKillEnds
  <2>1. /\ UNCHANGED <<inbox, accepting, session, m_sockfd>> /\ answer' = NoAnswer
        /\ stage = "killing" /\ kill_result' = IF answer = NoAnswer THEN "false" ELSE "true"
    BY <1>7 DEF MainKillEnds
  <2> QED
    BY <1>2, <2>1
<1>8. CASE ServerStarts
  <2>1. /\ Hears("StartServer") /\ inbox' = Append(Tail(inbox), "AcceptConnection")
        /\ answer' = IF stage = "starting" THEN "ok" ELSE answer
        /\ UNCHANGED <<accepting, session, stage, kill_result>>
    BY <1>8 DEF ServerStarts
  <2>2. Holds(inbox, "StartServer")
    BY <2>1, ServerHears DEF ServerAtoms
  <2>3. ~Holds(inbox', "StartServer") /\ InFront(inbox', "StartServer")
    BY <2>1, ServerGoesOn DEF ServerAtoms
  <2>4. answer' # "errno"
    BY <2>1, <2>2 DEF StartFirst
  <2> QED
    BY <2>1, <2>2, <2>3, <2>4 DEF StartFirst, Answered
<1>9. CASE ServerStartFails
  <2>1. /\ Hears("StartServer") /\ inbox' = Tail(inbox)
        /\ answer' = IF stage = "starting" THEN "errno" ELSE answer
        /\ UNCHANGED <<accepting, session, stage, kill_result>>
    BY <1>9 DEF ServerStartFails
  <2>2. /\ Holds(inbox, "StartServer") /\ ~Holds(inbox', "StartServer")
        /\ Holds(inbox', "AcceptConnection") => Holds(inbox, "AcceptConnection")
    BY <2>1, ServerHears DEF ServerAtoms
  <2>3. InFront(inbox', "StartServer")
    BY <2>2 DEF Holds, InFront
  <2> QED
    BY <2>1, <2>2, <2>3 DEF StartFirst, Answered
<1>10. ASSUME Hears("AcceptConnection"), UNCHANGED <<answer, stage, kill_result, m_sockfd>>,
              ~Holds(inbox', "StartServer")
       PROVE  StartFirst' /\ Answered'
  <2>1. Holds(inbox, "AcceptConnection")
    BY <1>10, ServerHears DEF ServerAtoms
  <2>2. InFront(inbox', "StartServer")
    BY <1>10 DEF Holds, InFront
  <2>3. answer' # "errno"
    BY <1>10, <2>1 DEF StartFirst
  <2> QED
    BY <1>10, <2>2, <2>3 DEF StartFirst, Answered
<1>11. CASE ServerIgnoresAccept
  <2>1. /\ Hears("AcceptConnection") /\ inbox' = Tail(inbox)
        /\ UNCHANGED <<answer, stage, kill_result, m_sockfd>>
    BY <1>11 DEF ServerIgnoresAccept
  <2>2. ~Holds(inbox', "StartServer")
    BY <2>1, ServerHears DEF ServerAtoms
  <2> QED
    BY <1>10, <2>1, <2>2
<1>a. ASSUME NEW c \in Clients, ServerAccepts(c)
      PROVE  StartFirst' /\ Answered'
  <2>1. /\ Hears("AcceptConnection") /\ inbox' = Tail(inbox)
        /\ UNCHANGED <<answer, stage, kill_result, m_sockfd>>
    BY <1>a DEF ServerAccepts
  <2>2. ~Holds(inbox', "StartServer")
    BY <2>1, ServerHears DEF ServerAtoms
  <2> QED
    BY <1>10, <2>1, <2>2
<1>b. ASSUME NEW c \in Clients, ServerRegisters(c)
      PROVE  StartFirst' /\ Answered'
  <2>1. /\ UNCHANGED <<inbox, accepting, answer, stage, kill_result, m_sockfd>>
        /\ session[c] = "new" /\ session' = [session EXCEPT ![c] = "up"]
    BY <1>b DEF ServerRegisters
  <2> QED
    BY <1>1, <2>1 DEF TypeOK
<1>c. ASSUME NEW c \in Clients, ServerWelcomes(c)
      PROVE  StartFirst' /\ Answered'
  <2>1. /\ accepting # {} /\ inbox' = Append(inbox, "AcceptConnection")
        /\ UNCHANGED <<answer, stage, kill_result, m_sockfd>>
    BY <1>c DEF ServerWelcomes
  <2>2. ~Holds(inbox, "StartServer") /\ answer # "errno"
    BY <2>1 DEF StartFirst
  <2>3. inbox \in Seq(ServerAtoms) /\ "AcceptConnection" \in ServerAtoms
    BY DEF TypeOK, ServerAtoms
  <2>4. ~Holds(inbox', "StartServer")
    BY <2>1, <2>2, <2>3, AppendedHolds
  <2>5. InFront(inbox', "StartServer")
    BY <2>4 DEF Holds, InFront
  <2> QED
    BY <2>1, <2>2, <2>4, <2>5 DEF StartFirst, Answered
<1>12. CASE ServerAcceptsNobody
  <2>1. /\ Hears("AcceptConnection") /\ inbox' = Append(Tail(inbox), "AcceptConnection")
        /\ UNCHANGED <<answer, stage, kill_result, m_sockfd>>
    BY <1>12 DEF ServerAcceptsNobody
  <2>2. ~Holds(inbox', "StartServer")
    BY <2>1, ServerGoesOn DEF ServerAtoms
  <2> QED
    BY <1>10, <2>1, <2>2
<1>13. CASE ServerGoodbye
  <2>1. /\ Hears("GoodbyeServer") /\ inbox' = Append(Tail(inbox), "exit") /\ m_sockfd' = 0
        /\ answer' = IF stage = "killing" THEN "true" ELSE answer
        /\ UNCHANGED <<accepting, session, stage, kill_result>>
    BY <1>13 DEF ServerGoodbye
  <2>2. /\ ~Holds(inbox', "StartServer") /\ InFront(inbox', "StartServer")
        /\ Holds(inbox', "AcceptConnection") => Holds(inbox, "AcceptConnection")
    BY <2>1, ServerGoesOn DEF ServerAtoms
  <2> QED
    BY <2>1, <2>2 DEF StartFirst, Answered
<1>14. CASE ServerExit
  <2>1. inbox' = <<>> /\ UNCHANGED <<accepting, session, m_sockfd, answer, stage, kill_result>>
    BY <1>14 DEF ServerExit
  <2>2. \A x : ~Holds(inbox', x) /\ InFront(inbox', x)
    BY <2>1 DEF Holds, InFront
  <2> QED
    BY <2>1, <2>2 DEF StartFirst, Answered
<1>15. ASSUME NEW c \in Clients,
              ConnWelcome(c) \/ ConnPrompt(c) \/ PollIdle(c) \/ PollReads(c) \/ PromptArrives(c)
                \/ ConnGoodbye(c) \/ MainQuits(c)
       PROVE  StartFirst' /\ Answered'
  BY <1>1, <1>15 DEF ConnWelcome, ConnPrompt, PollIdle, PollReads, PromptArrives, ConnGoodbye,
       MainQuits
<1>16. ASSUME NEW c \in Clients, ConnExit(c) \/ SessionEnds(c)
       PROVE  StartFirst' /\ Answered'
  <2>1. /\ UNCHANGED <<inbox, accepting, answer, stage, kill_result, m_sockfd>>
        /\ session[c] # "none"
        /\ session' = [session EXCEPT ![c] = "ending"] \/ session' = [session EXCEPT ![c] = "down"]
    BY <1>16 DEF ConnExit, SessionEnds, Gets
  <2> QED
    BY <1>1, <2>1 DEF TypeOK
<1> QED
  BY <1>3, <1>4, <1>5, <1>6, <1>7, <1>8, <1>9, <1>11, <1>12, <1>13, <1>14, <1>15, <1>16,
     <1>a, <1>b, <1>c DEF Next, Main, ServerActor, ConnectionActor
-----------------------------------------------------------------------------
(***************************************************************************)
(* Whom main tells to close.                                               *)
(***************************************************************************)
\* A session is in the registry until it is about to exit, and main's copy of the
\* registry misses nobody but the late ones.
LEMMA ToldStep ==
  ASSUME TypeOK, Registered, StartFirst, Answered, Told, [Next]_vars
  PROVE  Registered' /\ Told'
<1> USE DEF mainVars, serverVars, connVars, mudVars
<1>1. ASSUME UNCHANGED <<stage, todo, session, mail, registry, late>>
      PROVE  Registered' /\ Told'
  BY <1>1 DEF Registered, Told
<1>2. ASSUME Conversing, UNCHANGED <<stage, todo, late>>
      PROVE  Registered' /\ Told'
  BY <1>2 DEF Conversing, Registered, Told
<1>3. CASE Interrupt \/ StorageExit \/ RecorderExit \/ UNCHANGED vars
  BY <1>1, <1>3 DEF Interrupt, StorageExit, RecorderExit, vars
<1>4. CASE ServerStarts \/ ServerStartFails \/ ServerIgnoresAccept
           \/ ServerAcceptsNobody \/ ServerGoodbye \/ ServerExit
  BY <1>1, <1>4 DEF ServerStarts, ServerStartFails, ServerIgnoresAccept,
       ServerAcceptsNobody, ServerGoodbye, ServerExit
<1>5. CASE MainStarted
  <2>1. stage = "starting" /\ UNCHANGED <<todo, session, mail, registry, late>>
    BY <1>5 DEF MainStarted
  <2>2. CASE answer = "ok"
    <3>1. stage' = "running"
      BY <1>5, <2>2 DEF MainStarted
    <3> QED
      BY <2>1, <3>1 DEF Registered, Told
  <2>3. CASE answer # "ok"
    <3>1. answer = "errno"
      BY <1>5, <2>1, <2>3 DEF MainStarted, Answered, TypeOK
    <3>2. stage' = "ending" /\ \A c \in Clients : session[c] = "none"
      BY <1>5, <2>3, <3>1 DEF MainStarted, StartFirst
    <3> QED
      BY <2>1, <3>2 DEF Registered, Told
  <2> QED
    BY <2>2, <2>3
<1>6. CASE MainStartTimeout \/ MainDone
  <2>1. /\ stage # "quitting" /\ stage' \in {"running", "done"}
        /\ UNCHANGED <<todo, session, mail, registry, late>>
    BY <1>6 DEF MainStartTimeout, MainDone
  <2> QED
    BY <2>1 DEF Registered, Told
<1>7. CASE MainSeesSignal
  BY <1>7 DEF MainSeesSignal, Registered, Told
<1>8. ASSUME NEW c \in Clients, MainQuits(c)
      PROVE  Registered' /\ Told'
  <2>1. /\ stage = "quitting" /\ todo' = todo \ {c} /\ UNCHANGED <<stage, late>>
        /\ mail' = IF session[c] = "up"
                     THEN [mail EXCEPT ![c] = Append(@, "GoodbyeConnection")] ELSE mail
    BY <1>8 DEF MainQuits
  <2>2. Conversing
    BY <1>8, Converses
  <2>3. session[c] = "up" => Holds(mail'[c], "GoodbyeConnection")
    <3>1. mail[c] \in Seq(Atoms) /\ "GoodbyeConnection" \in Atoms
      BY DEF TypeOK, Atoms
    <3>2. Holds(Append(mail[c], "GoodbyeConnection"), "GoodbyeConnection")
      BY <3>1, AppendedHolds
    <3> QED
      BY <2>1, <3>2 DEF TypeOK
  <2>4. Registered'
    BY <2>2 DEF Conversing, Registered
  <2>5. Told'
    BY <2>1, <2>2, <2>3 DEF Conversing, Told
  <2> QED
    BY <2>4, <2>5
<1>9. CASE MainKills
  BY <1>9 DEF MainKills, Registered, Told
<1>10. CASE MainKillEnds
  <2>1. /\ stage = "killing" /\ stage' = "ending"
        /\ UNCHANGED <<todo, session, mail, registry, late>>
    BY <1>10 DEF MainKillEnds
  <2> QED
    BY <2>1 DEF Registered, Told
<1>a. ASSUME NEW c \in Clients, ServerAccepts(c)
      PROVE  Registered' /\ Told'
  <2>1. /\ session' = [session EXCEPT ![c] = "new"]
        /\ mail' = [mail EXCEPT ![c] = <<>>]
        /\ UNCHANGED <<stage, todo, registry, late>>
    BY <1>a DEF ServerAccepts
  <2>2. /\ \A d \in Clients : d # c => session'[d] = session[d] /\ mail'[d] = mail[d]
        /\ session'[c] # "up"
    BY <2>1 DEF TypeOK
  <2>3. Registered'
    BY <2>1, <2>2 DEF Registered
  <2>4. Told'
    BY <2>1, <2>2 DEF Told
  <2> QED
    BY <2>3, <2>4
<1>11. ASSUME NEW c \in Clients, ServerRegisters(c)
       PROVE  Registered' /\ Told'
  <2>1. /\ session' = [session EXCEPT ![c] = "up"]
        /\ mail' = mail
        /\ registry' = registry \cup {c}
        /\ late' = IF Snapshot THEN late \cup {c} ELSE late
        /\ UNCHANGED <<stage, todo>>
    BY <1>11 DEF ServerRegisters
  <2>2. /\ \A d \in Clients : d # c => session'[d] = session[d] /\ mail'[d] = mail[d]
        /\ late \subseteq late'
        /\ stage \in {"quitting", "killing", "ending"} => c \in late'
    BY <2>1 DEF TypeOK, Snapshot
  <2>3. Registered'
    BY <2>1, <2>2 DEF Registered
  <2>4. Told'
    <3>1. stage' # "quitting" => todo' = {}
      BY <2>1 DEF Told
    <3>2. ASSUME NEW d \in Clients, stage \in {"quitting", "killing", "ending"},
                 session'[d] = "up"
          PROVE  \/ Holds(mail'[d], "GoodbyeConnection") \/ Holds(mail'[d], "exit")
                 \/ d \in late' \/ d \in todo'
      BY <2>1, <2>2, <3>2 DEF Told
    <3> QED
      BY <2>1, <3>1, <3>2 DEF Told
  <2> QED
    BY <2>3, <2>4
<1>12. ASSUME NEW c \in Clients,
              ConnWelcome(c) \/ ConnPrompt(c) \/ PollIdle(c) \/ PollReads(c) \/ PromptArrives(c)
                \/ ServerWelcomes(c)
       PROVE  Registered' /\ Told'
  <2>1. UNCHANGED <<stage, todo, late>>
    BY <1>12 DEF ConnWelcome, ConnPrompt, PollIdle, PollReads, PromptArrives, ServerWelcomes
  <2>2. Conversing
    BY <1>12, Converses
  <2> QED
    BY <1>2, <2>1, <2>2
<1>13. ASSUME NEW c \in Clients, ConnGoodbye(c)
       PROVE  Registered' /\ Told'
  <2>1. UNCHANGED <<stage, todo, late>>
    BY <1>13 DEF ConnGoodbye
  <2>2. /\ UNCHANGED session /\ registry' = registry \ {c} /\ Holds(mail'[c], "exit")
        /\ \A d \in Clients : d # c => mail'[d] = mail[d]
    BY <1>13, SaysGoodbye
  <2>3. Registered'
    BY <2>1, <2>2 DEF Registered
  <2>4. Told'
    BY <2>1, <2>2 DEF Told
  <2> QED
    BY <2>3, <2>4
<1>14. ASSUME NEW c \in Clients, ConnExit(c) \/ SessionEnds(c)
       PROVE  Registered' /\ Told'
  <2>1. /\ UNCHANGED <<stage, todo, late, registry>> /\ session'[c] # "up"
        /\ \A d \in Clients : d # c => session'[d] = session[d] /\ mail'[d] = mail[d]
    <3>1. CASE ConnExit(c)
      BY <3>1 DEF ConnExit, TypeOK
    <3>2. CASE SessionEnds(c)
      BY <3>2 DEF SessionEnds, TypeOK
    <3> QED
      BY <1>14, <3>1, <3>2
  <2>2. Registered'
    BY <2>1 DEF Registered
  <2>3. Told'
    BY <2>1 DEF Told
  <2> QED
    BY <2>2, <2>3
<1> QED
  BY <1>3, <1>4, <1>5, <1>6, <1>7, <1>8, <1>9, <1>10, <1>11, <1>12, <1>13, <1>14,
     <1>a DEF Next, Main, ServerActor, ConnectionActor
-----------------------------------------------------------------------------
(***************************************************************************)
(* The theorems.                                                           *)
(***************************************************************************)
\* The invariant holds when caf_main has sent StartServer, and every step of main,
\* of the server and of every session keeps it.
THEOREM ServerInvariant == Spec => [](TypeOK /\ ServerInv)
<1> USE DEF Init, NoAnswer
<1>1. Init => TypeOK
  <2> SUFFICES ASSUME Init
               PROVE  TypeOK
    OBVIOUS
  <2>1. <<>> \in Seq(Atoms)
    OBVIOUS
  <2>2. inbox \in Seq({"StartServer", "AcceptConnection", "GoodbyeServer", "exit"})
    OBVIOUS
  <2>3. reads \in 0..MaxReads
    BY FdAssumption
  <2>4. sock \in [Fds -> Clients \cup {Free}] /\ m_connection \in [Clients -> Fds \cup {0}]
    OBVIOUS
  <2> QED
    BY <2>1, <2>2, <2>3, <2>4 DEF TypeOK, Stages
<1>2. Init => RefsCounted /\ ToldLast
  <2> SUFFICES ASSUME Init
               PROVE  RefsCounted /\ ToldLast
    OBVIOUS
  <2>1. Sharing = {}
    BY DEF Sharing
  <2> QED
    BY <2>1, FS_EmptySet DEF RefsCounted, ToldLast
<1>3. Init => Connected /\ SocketOwned /\ Registered /\ Told
  BY DEF Connected, SocketOwned, Registered, Told
<1>4. Init => StartFirst /\ Answered
  BY DEF StartFirst, Answered, Holds, InFront
<1>5. TypeOK /\ ServerInv /\ [Next]_vars => (TypeOK /\ ServerInv)'
  BY TypeStep, RefsStep, SocketStep, InboxStep, ToldStep DEF ServerInv
<1> QED
  BY <1>1, <1>2, <1>3, <1>4, <1>5, PTL DEF Spec, ServerInv

\* Every variable of the process keeps its type: a descriptor that is closed is one
\* of the kernel's, no reference is released that nobody holds, no result of
\* kill_server is used uninitialized.
THEOREM ServerTypes == Spec => []TypeOK
BY ServerInvariant, PTL

\* MudSystem's destructor runs when main, the server and all sessions have let go of
\* it, however many sessions there were and whenever they were accepted.
THEOREM MudLast == Spec => []MudOutlivesUsers
<1>1. TypeOK /\ ServerInv => MudOutlivesUsers
  <2> SUFFICES ASSUME TypeOK, ServerInv, storage # "up" \/ recorder # "up"
               PROVE  /\ stage \in {"ending", "done"} /\ server = "down"
                      /\ \A c \in Clients : session[c] \in {"none", "down"}
    BY DEF MudOutlivesUsers
  <2>1. RefsCounted /\ mud_refs = 0
    BY DEF ServerInv, ToldLast
  <2>2. stage \in {"ending", "done"} /\ server # "up" /\ Sharing = {}
    BY <2>1, RefsPositive
  <2> QED
    BY <2>2 DEF TypeOK, Sharing
<1> QED
  BY <1>1, ServerInvariant, PTL

\* ConnectionActor closes its descriptor before it exits, and nobody opens it again
\* on its behalf.
THEOREM AllSocketsClosed == Spec => []SocketsClosed
<1>1. ServerInv => SocketsClosed
  BY DEF ServerInv, SocketOwned, SocketsClosed
<1> QED
  BY <1>1, ServerInvariant, PTL

\* quit_connection_actors misses only the sessions that enter the registry after it
\* was copied, although the server is accepting all the while.
THEOREM OnlyLateOrphans == Spec => []OrphansAreLate
<1>1. ServerInv => OrphansAreLate
  BY DEF ServerInv, Told, OrphansAreLate, InMail, Holds
<1> QED
  BY <1>1, ServerInvariant, PTL

\* GoodbyeServer closes the listening socket before its answer is sent, and no
\* StartServer is left to open it again: after a successful kill_server the server
\* accepts nobody.
THEOREM KilledAcceptsNobody == Spec => NobodyAfterKill
<1>1. TypeOK /\ ServerInv /\ [Next]_vars =>
        [kill_result = "true" =>
           \A c \in Clients : session[c] = "none" => session'[c] = "none"]_vars
  <2> SUFFICES ASSUME TypeOK, ServerInv, Next, kill_result = "true",
                      NEW c \in Clients, session[c] = "none"
               PROVE  session'[c] = "none"
    OBVIOUS
  <2>1. m_sockfd = 0
    BY DEF ServerInv, Answered
  <2> USE DEF mainVars, serverVars, connVars, mudVars
  <2>2. CASE Interrupt \/ StorageExit \/ RecorderExit
    BY <2>2 DEF Interrupt, StorageExit, RecorderExit
  <2>3. CASE Main
    <3>1. UNCHANGED session
      BY <2>3 DEF Main, MainStarted, MainStartTimeout, MainSeesSignal, MainQuits, MainKills,
           MainKillEnds, MainDone
    <3> QED
      BY <3>1
  <2>4. CASE ServerActor
    <3>1. ASSUME NEW d \in Clients, ServerAccepts(d)
          PROVE  FALSE
      BY <2>1, <3>1 DEF ServerAccepts
    <3>2. ASSUME NEW d \in Clients, ServerRegisters(d)
          PROVE  session'[c] = "none"
      BY <3>2 DEF ServerRegisters, TypeOK
    <3>3. ASSUME NEW d \in Clients, ServerWelcomes(d)
          PROVE  session'[c] = "none"
      BY <3>3 DEF ServerWelcomes
    <3>4. CASE \/ ServerStarts \/ ServerStartFails \/ ServerIgnoresAccept
               \/ ServerAcceptsNobody \/ ServerGoodbye \/ ServerExit
      BY <3>4 DEF ServerStarts, ServerStartFails, ServerIgnoresAccept, ServerAcceptsNobody,
           ServerGoodbye, ServerExit
    <3> QED
      BY <2>4, <3>1, <3>2, <3>3, <3>4 DEF ServerActor
  <2>5. ASSUME NEW d \in Clients, ConnectionActor(d) \/ PromptArrives(d) \/ SessionEnds(d)
        PROVE  session'[c] = "none"
    <3>1. \/ UNCHANGED session
          \/ session[d] # "none" /\ \E e \in {"ending", "down"} : session' = [session EXCEPT ![d] = e]
      BY <2>5 DEF ConnectionActor, PromptArrives, SessionEnds, ConnWelcome, ConnPrompt, PollIdle,
           PollReads, ConnGoodbye, ConnExit, Gets
    <3> QED
      BY <3>1 DEF TypeOK
  <2> QED
    BY <2>2, <2>3, <2>4, <2>5 DEF Next
<1> QED
  BY <1>1, ServerInvariant, PTL DEF Spec, NobodyAfterKill
=============================================================================
