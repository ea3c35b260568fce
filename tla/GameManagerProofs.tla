------------------------- MODULE GameManagerProofs -------------------------
(***************************************************************************)
(* How the entities follow the game, for any number of levels and closes.  *)
(*                                                                         *)
(* update compares two rounds, and the words it compares may be older than *)
(* the state of the game.  What ties them together is that a load takes    *)
(* longer than a round: once update has seen a load, that is, read the     *)
(* words from beginning to end while the game was loading, whatever it     *)
(* knows belongs to this load.  Knows says what that is.  Flags says which *)
(* entities may be on at each point of a round.                            *)
(***************************************************************************)
EXTENDS GameManager, TLAPS

Index == 1 .. 4
InEvent == pc \in EnterSteps \cup ExitSteps

\* Entity k processes packets, and not because of what its flag held at first.
On(k) == processing[Entities[k]] /\ (k = 2 => initialised)

\* The game is in a load that a round of update has seen, or in its level.
Seen == game \in {"loading", "spawning", "level"} /\ load = "seen"

\* MainPlayer and OtherPlayer have their pointers into this level.
Fresh(k) == processing[Entities[k]] /\ ptrs[Entities[k]] = level
AllFresh == \A k \in 1 .. 2 : Entities[k] \in unheard \/ Fresh(k)

\* Where the update thread is, and which comparison has taken it there.
Control ==
    /\ main = "constructing" => listeners < 4
    /\ InEvent => i <= last /\ last <= listeners
    /\ pc = "push" => i = 2
    /\ pc = "flag" => i \in 1 .. 2
    /\ pc = "unflag" => i = 3
    /\ pc \in EnterSteps => Entering
    /\ pc \in ExitSteps => Exiting
    /\ pc \in EnterSteps => \A k \in Index : k > last => Entities[k] \in unheard

\* A round that sees a load reads both words as false.
Polling ==
    /\ LoadedWord => load = "seen"
    /\ load = "polling" =>
          /\ pc \notin {"top", "done"}
          /\ pc # "loaded" => ~cur.loaded
          /\ game = "loading" /\ pc \notin {"loaded", "fully"} => ~cur.fully

\* What update knows of a load that it has seen.
Knows ==
    Seen =>
        /\ prev.loaded => LoadedWord
        /\ prev.fully => game = "level" /\ AllFresh
        /\ pc \notin {"top", "loaded", "done"} =>
              /\ prev.loaded => cur.loaded
              /\ cur.loaded => LoadedWord
        /\ pc \notin {"top", "loaded", "fully", "done"} =>
              /\ prev.fully => cur.fully
              /\ cur.fully => game = "level"
        /\ pc \in EnterSteps => \A k \in 1 .. 2 : k < i => Fresh(k)
        /\ pc = "flag" => ptrs[Entities[i]] = level
        /\ pc = "end" /\ cur.fully => AllFresh

\* Which entities may be on.
Flags ==
    \A k \in Index :
        On(k) =>
            /\ k <= listeners
            /\ pc \in ExitSteps => i <= k /\ k <= last
            /\ pc \in {"top", "loaded", "fully", "decide"} =>
                  half \/ (prev.loaded /\ (Seen => prev.fully))
            /\ pc \in {"fully", "decide"} => half \/ prev.fully \/ ~cur.loaded
            /\ pc \in EnterSteps /\ i <= k => half \/ ~cur.loaded
            /\ pc = "end" => StillHalf \/ (cur.loaded /\ (Seen => cur.fully))

\* A reader that has not been overtaken by exitLevel holds a player that is on.
Holder == reader = "holding" /\ ~stalled => processing["OtherPlayer"]

\* LevelEntity is off only after isSentExitLevel has been reset.
Announcer ==
    ~overlap /\ (~processing["LevelEntity"] \/ pc = "unflag") =>
        ~isSent /\ sender = "idle"

IInv == TypeOK /\ Control /\ Polling /\ Knows /\ Flags /\ Holder /\ Announcer

-----------------------------------------------------------------------------

LEMMA EntityFacts ==
    /\ Len(Entities) = 4
    /\ Entity = {Entities[k] : k \in Index}
    /\ Entities[1] = "MainPlayer"
    /\ Entities[2] = "OtherPlayer"
    /\ Entities[3] = "LevelEntity"
    /\ Entities[4] = "PodnitiiPredmet"
    /\ \A k \in Index : Entities[k] \in Entity
BY DEF Entities, Entity, Index

LEMMA WordTypes == TypeOK => LoadedWord \in BOOLEAN /\ FullyWord \in BOOLEAN
<1> SUFFICES ASSUME TypeOK PROVE LoadedWord \in BOOLEAN /\ FullyWord \in BOOLEAN
  OBVIOUS
<1>1. LoadedWord \in BOOLEAN
  BY DEF LoadedWord
<1>2. CASE game = "closed"
  BY <1>1, <1>2 DEF FullyWord
<1>3. CASE game = "menu"
  BY <1>1, <1>3 DEF FullyWord, TypeOK
<1>4. CASE game \notin {"closed", "menu"}
  BY <1>1, <1>4 DEF FullyWord
<1> QED BY <1>2, <1>3, <1>4

LEMMA InitIInv == Init => IInv
<1> SUFFICES ASSUME Init PROVE IInv
  OBVIOUS
<1>1. PICK junk \in BOOLEAN : processing = [e \in Entity |-> e = "OtherPlayer" /\ junk]
  BY DEF Init
<1>2. processing \in [Entity -> BOOLEAN]
  BY <1>1
<1>3. /\ game \in {"closed", "menu"} /\ load = "unseen" /\ pc = "top"
      /\ prev = [loaded |-> FALSE, fully |-> FALSE]
      /\ cur = [loaded |-> FALSE, fully |-> FALSE]
      /\ initialised = FALSE /\ listeners = 0
  BY DEF Init
<1>4. prev \in Words /\ cur \in Words
  BY <1>3 DEF Words
<1>5. /\ level \in 0 .. MaxLevels
      /\ closes \in 0 .. MaxCloses
      /\ menuWord \in BOOLEAN
      /\ listeners \in 0 .. 4 /\ i \in 1 .. 4 /\ last \in 0 .. 4
      /\ ptrs \in [{"MainPlayer", "OtherPlayer"} -> 0 .. MaxLevels]
  BY GameAssumption DEF Init
<1>6. /\ stopThread = FALSE /\ main = "constructing"
      /\ isSent = FALSE /\ reader = "idle" /\ sender = "idle"
      /\ alive = TRUE /\ unheard = {}
      /\ half = FALSE /\ stalled = FALSE /\ overlap = FALSE
  BY DEF Init
<1>7. TypeOK
  BY <1>2, <1>3, <1>4, <1>5, <1>6, EntityFacts DEF TypeOK
<1>8. Control /\ Polling /\ Knows /\ Holder /\ Announcer
  BY <1>3, <1>6
  DEF Control, Polling, Knows, Holder, Announcer, InEvent, Seen, EnterSteps,
      ExitSteps, LoadedWord
<1>9. \A k \in Index : ~On(k)
  <2> SUFFICES ASSUME NEW k \in Index, k # 2 PROVE ~processing[Entities[k]]
    BY <1>3 DEF On
  <2>1. Entities[k] \in Entity /\ Entities[k] # "OtherPlayer"
    BY EntityFacts DEF Index
  <2> QED BY <1>1, <2>1
<1> QED BY <1>7, <1>8, <1>9 DEF IInv, Flags

-----------------------------------------------------------------------------
(* Each conjunct is preserved by every step. *)

LEMMA NextType == IInv /\ Next => TypeOK'
<1> SUFFICES ASSUME IInv, Next PROVE TypeOK'
  OBVIOUS
<1> USE GameAssumption, EntityFacts
    DEF IInv, TypeOK, gameVars, startVars, pollVars, entityVars, threadVars,
        historyVars, EnterSteps, ExitSteps
<1>1. CASE Game
  BY <1>1 DEF Game, OpenGame, CloseGame, QuitLevel, StartLoad, FinishLoad
<1>2. CASE AddListeners
  BY <1>2 DEF AddListeners, Control
<1>3. CASE Stop \/ Join
  BY <1>3 DEF Stop, Join
<1>4. CASE Poll
  BY <1>4 DEF Poll
<1>5. CASE ReadLoaded \/ ReadFully
  <2>1. cur' \in Words
    BY <1>5, WordTypes DEF ReadLoaded, ReadFully, Words
  <2> QED BY <1>5, <2>1 DEF ReadLoaded, ReadFully
<1>6. CASE Decide
  BY <1>6 DEF Decide, AfterEnter, Index
<1>7. CASE EnterReads \/ EnterPushes
  BY <1>7 DEF EnterReads, EnterPushes, Found
<1>8. CASE EnterFlags
  BY <1>8 DEF EnterFlags, Returns, AfterEnter, Index
<1>9. CASE ExitResets
  <2>1. overlap' \in BOOLEAN
    BY <1>9 DEF ExitResets
  <2> QED BY <1>9, <2>1 DEF ExitResets
<1>10. CASE ExitFlags
  <2>1. stalled' \in BOOLEAN /\ initialised' \in BOOLEAN
    BY <1>10 DEF ExitFlags
  <2> QED BY <1>10, <2>1 DEF ExitFlags, Returns, Index
<1>11. CASE EndRound
  <2>1. half' \in BOOLEAN
    BY <1>11 DEF EndRound, StillHalf
  <2> QED BY <1>11, <2>1 DEF EndRound
<1>12. CASE ProcessThread
  BY <1>12 DEF ProcessThread, ReaderTakes, ReaderApplies
<1>13. CASE SendThread
  BY <1>13 DEF SendThread, SenderChecks, SenderTests, SenderAnnounces
<1> QED
  BY <1>1, <1>2, <1>3, <1>4, <1>5, <1>6, <1>7, <1>8, <1>9, <1>10, <1>11, <1>12,
     <1>13 DEF Next, UpdateThread

\* Where the update thread is.
LEMMA NextControl == IInv /\ Next => Control'
<1> SUFFICES ASSUME IInv, Next PROVE Control'
  OBVIOUS
<1> USE EntityFacts
    DEF IInv, TypeOK, Words, Control, InEvent, Entering, Exiting, Index,
        gameVars, startVars, pollVars, entityVars,
        threadVars, historyVars, EnterSteps, ExitSteps
<1>1. CASE Game
  BY <1>1 DEF Game, OpenGame, CloseGame, QuitLevel, StartLoad, FinishLoad
<1>2. CASE AddListeners \/ Stop \/ Join
  BY <1>2 DEF AddListeners, Stop, Join
<1>3. CASE Poll
  BY <1>3 DEF Poll
<1>4. CASE ReadLoaded
  BY <1>4 DEF ReadLoaded
<1>5. CASE ReadFully
  BY <1>5 DEF ReadFully
<1>6. CASE Decide
  BY <1>6 DEF Decide, AfterEnter
<1>7. CASE EnterReads \/ EnterPushes
  BY <1>7 DEF EnterReads, EnterPushes, Found
<1>8. CASE EnterFlags
  BY <1>8 DEF EnterFlags, Returns, AfterEnter
<1>9. CASE ExitResets
  BY <1>9 DEF ExitResets
<1>10. CASE ExitFlags
  BY <1>10 DEF ExitFlags, Returns
<1>11. CASE EndRound
  BY <1>11 DEF EndRound
<1>12. CASE ProcessThread \/ SendThread
  BY <1>12 DEF ProcessThread, SendThread, ReaderTakes, ReaderApplies,
     SenderChecks, SenderTests, SenderAnnounces
<1> QED
  BY <1>1, <1>2, <1>3, <1>4, <1>5, <1>6, <1>7, <1>8, <1>9, <1>10, <1>11,
     <1>12 DEF Next, UpdateThread

\* What a round that sees a load reads.
LEMMA NextPolling == IInv /\ Next => Polling'
<1> SUFFICES ASSUME IInv, Next PROVE Polling'
  OBVIOUS
<1> USE EntityFacts
    DEF IInv, TypeOK, Words, Polling, LoadedWord, FullyWord,
        gameVars, startVars, pollVars, entityVars,
        threadVars, historyVars, EnterSteps, ExitSteps
<1>1. CASE Game
  BY <1>1 DEF Game, OpenGame, CloseGame, QuitLevel, StartLoad, FinishLoad
<1>2. CASE AddListeners \/ Stop \/ Join
  BY <1>2 DEF AddListeners, Stop, Join
<1>3. CASE Poll
  BY <1>3 DEF Poll
<1>4. CASE ReadLoaded
  BY <1>4 DEF ReadLoaded
<1>5. CASE ReadFully
  BY <1>5 DEF ReadFully
<1>6. CASE Decide
  BY <1>6 DEF Decide, AfterEnter
<1>7. CASE EnterReads \/ EnterPushes
  BY <1>7 DEF EnterReads, EnterPushes, Found
<1>8. CASE EnterFlags
  BY <1>8 DEF EnterFlags, Returns, AfterEnter
<1>9. CASE ExitResets
  BY <1>9 DEF ExitResets
<1>10. CASE ExitFlags
  BY <1>10 DEF ExitFlags, Returns
<1>11. CASE EndRound
  BY <1>11 DEF EndRound
<1>12. CASE ProcessThread \/ SendThread
  BY <1>12 DEF ProcessThread, SendThread, ReaderTakes, ReaderApplies,
     SenderChecks, SenderTests, SenderAnnounces
<1> QED
  BY <1>1, <1>2, <1>3, <1>4, <1>5, <1>6, <1>7, <1>8, <1>9, <1>10, <1>11,
     <1>12 DEF Next, UpdateThread

\* What update knows of a load it has seen: the game cannot leave the load unseen,
\* and an event enter of this load sets the pointers into this level.
LEMMA NextKnows == IInv /\ Next => Knows'
<1> SUFFICES ASSUME IInv, Next PROVE Knows'
  OBVIOUS
<1> USE EntityFacts
    DEF IInv, TypeOK, Words, Control, Polling, Knows, InEvent, Seen, Fresh,
        AllFresh, Index, LoadedWord, FullyWord, Entering, Exiting,
        gameVars, startVars, pollVars, entityVars,
        threadVars, historyVars, EnterSteps, ExitSteps
<1>1. CASE Game
  BY <1>1 DEF Game, OpenGame, CloseGame, QuitLevel, StartLoad, FinishLoad
<1>2. CASE AddListeners \/ Stop \/ Join
  BY <1>2 DEF AddListeners, Stop, Join
<1>3. CASE Poll
  BY <1>3 DEF Poll
<1>4. CASE ReadLoaded
  BY <1>4 DEF ReadLoaded
<1>5. CASE ReadFully
  BY <1>5 DEF ReadFully
<1>6. CASE Decide
  BY <1>6 DEF Decide, AfterEnter
<1>7. CASE EnterReads \/ EnterPushes
  BY <1>7 DEF EnterReads, EnterPushes, Found
<1>8. CASE EnterFlags
  BY <1>8 DEF EnterFlags, Returns, AfterEnter
<1>9. CASE ExitResets
  BY <1>9 DEF ExitResets
<1>10. CASE ExitFlags
  BY <1>10 DEF ExitFlags, Returns
<1>11. CASE EndRound
  BY <1>11 DEF EndRound
<1>12. CASE ProcessThread \/ SendThread
  BY <1>12 DEF ProcessThread, SendThread, ReaderTakes, ReaderApplies,
     SenderChecks, SenderTests, SenderAnnounces
<1> QED
  BY <1>1, <1>2, <1>3, <1>4, <1>5, <1>6, <1>7, <1>8, <1>9, <1>10, <1>11,
     <1>12 DEF Next, UpdateThread

\* Which entities are on: the last listener of an event exit is reached with all
\* others off, and an event enter finds them off unless the level is half entered.
LEMMA NextFlags == IInv /\ Next => Flags'
<1> SUFFICES ASSUME IInv, Next PROVE Flags'
  OBVIOUS
<1> USE EntityFacts
    DEF IInv, TypeOK, Words, Control, Polling, Knows, Flags, InEvent, On, Seen,
        Index, LoadedWord, FullyWord, Entering, Exiting, StillHalf,
        gameVars, startVars, pollVars, entityVars,
        threadVars, historyVars, EnterSteps, ExitSteps
<1>1. CASE Game
  BY <1>1 DEF Game, OpenGame, CloseGame, QuitLevel, StartLoad, FinishLoad
<1>2. CASE AddListeners \/ Stop \/ Join
  BY <1>2 DEF AddListeners, Stop, Join
<1>3. CASE Poll
  BY <1>3 DEF Poll
<1>4. CASE ReadLoaded
  BY <1>4 DEF ReadLoaded
<1>5. CASE ReadFully
  BY <1>5 DEF ReadFully
<1>6. CASE Decide
  BY <1>6 DEF Decide, AfterEnter
<1>7. CASE EnterReads \/ EnterPushes
  BY <1>7 DEF EnterReads, EnterPushes, Found
<1>8. CASE EnterFlags
  BY <1>8 DEF EnterFlags, Returns, AfterEnter
<1>9. CASE ExitResets
  BY <1>9 DEF ExitResets
<1>10. CASE ExitFlags
  BY <1>10 DEF ExitFlags, Returns
<1>11. CASE EndRound
  BY <1>11 DEF EndRound
<1>12. CASE ProcessThread \/ SendThread
  BY <1>12 DEF ProcessThread, SendThread, ReaderTakes, ReaderApplies,
     SenderChecks, SenderTests, SenderAnnounces
<1> QED
  BY <1>1, <1>2, <1>3, <1>4, <1>5, <1>6, <1>7, <1>8, <1>9, <1>10, <1>11,
     <1>12 DEF Next, UpdateThread


\* Neither the reader nor the sender is overtaken unnoticed.
LEMMA NextThreads == IInv /\ Next => Holder' /\ Announcer'
<1> SUFFICES ASSUME IInv, Next PROVE Holder' /\ Announcer'
  OBVIOUS
<1> USE EntityFacts
    DEF IInv, TypeOK, Control, Holder, Announcer, Index, gameVars, startVars,
        pollVars, entityVars, threadVars, historyVars, EnterSteps, ExitSteps
<1>1. CASE Game \/ AddListeners \/ Stop \/ Join
  BY <1>1 DEF Game, OpenGame, CloseGame, QuitLevel, StartLoad, FinishLoad,
     AddListeners, Stop, Join
<1>2. CASE Poll \/ ReadLoaded \/ ReadFully \/ EndRound
  BY <1>2 DEF Poll, ReadLoaded, ReadFully, EndRound
<1>3. CASE Decide
  BY <1>3 DEF Decide, AfterEnter
<1>4. CASE EnterReads \/ EnterPushes
  BY <1>4 DEF EnterReads, EnterPushes
<1>5. CASE EnterFlags
  BY <1>5 DEF EnterFlags, Returns, AfterEnter
<1>6. CASE ExitResets
  BY <1>6 DEF ExitResets
<1>7. CASE ExitFlags
  BY <1>7 DEF ExitFlags, Returns
<1>8. CASE ProcessThread
  BY <1>8 DEF ProcessThread, ReaderTakes, ReaderApplies
<1>9. CASE SendThread
  BY <1>9 DEF SendThread, SenderChecks, SenderTests, SenderAnnounces
<1> QED
  BY <1>1, <1>2, <1>3, <1>4, <1>5, <1>6, <1>7, <1>8, <1>9 DEF Next, UpdateThread

LEMMA NextIInv == IInv /\ [Next]_vars => IInv'
<1>1. IInv /\ UNCHANGED vars => IInv'
  BY DEF IInv, TypeOK, Control, Polling, Knows, Flags, Holder, Announcer, InEvent,
     On, Seen, Fresh, AllFresh, LoadedWord, Entering, Exiting, StillHalf, vars,
     gameVars, startVars, pollVars, entityVars, threadVars, historyVars
<1> QED
  BY <1>1, NextType, NextControl, NextPolling, NextKnows, NextFlags, NextThreads
  DEF IInv

THEOREM Invariance == Spec => []IInv
BY InitIInv, NextIInv, PTL DEF Spec

-----------------------------------------------------------------------------

\* The words, the flags and the pointers keep their types, and the event loop walks
\* over listeners that exist.
THEOREM TypeCorrect == Spec => []TypeOK
<1>1. IInv => TypeOK
  BY DEF IInv
<1> QED BY <1>1, Invariance, PTL

\* Outside a level no entity processes packets, whatever rounds fell between the
\* changes of the two words.
THEOREM OffSafety == Spec => []OffOutsideLevels
<1>1. IInv => OffOutsideLevels
  BY EntityFacts DEF IInv, TypeOK, Flags, On, OffOutsideLevels, Index
<1> QED BY <1>1, Invariance, PTL

\* In a level update has seen, no entity holds pointers into an earlier one.
THEOREM PointerSafety == Spec => []FreshPointers
<1>1. IInv => FreshPointers
  <2> SUFFICES ASSUME IInv, pc = "top", prev.fully, game = "level",
                      NEW e \in {"MainPlayer", "OtherPlayer"} \ unheard
               PROVE  processing[e] /\ ptrs[e] = level
    BY DEF FreshPointers, IInv, TypeOK
  <2>1. AllFresh
    BY DEF IInv, Polling, Knows, Seen, LoadedWord
  <2> QED BY <2>1, EntityFacts DEF AllFresh, Fresh
<1> QED BY <1>1, Invariance, PTL

\* enterNewLevel does not rebuild otherPlayers under a reader, but for the three
\* cases PlayersRebuiltUnread names.
THEOREM RebuildSafety == Spec => []PlayersRebuiltUnread
<1>1. IInv => PlayersRebuiltUnread
  BY EntityFacts DEF IInv, TypeOK, Flags, Holder, On, Index, EnterSteps,
     PlayersRebuiltUnread, HalfEntered
<1> QED BY <1>1, Invariance, PTL

\* A level is entered with isSentExitLevel false, but for a writePacket that
\* overlapped the last exitLevel.
THEOREM AnnounceSafety == Spec => []LevelIsAnnounced
<1>1. IInv => LevelIsAnnounced
  BY EntityFacts DEF IInv, TypeOK, Flags, Announcer, On, Index, EnterSteps,
     LevelIsAnnounced, HalfEntered
<1> QED BY <1>1, Invariance, PTL
=============================================================================
