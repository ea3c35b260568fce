---------------------------- MODULE GameManager ----------------------------
(***************************************************************************)
(* How the client follows the game: GameManager::update polls two words of *)
(* the game's memory and turns their changes into the events enterNewLevel *)
(* and exitLevel of the entities, while Client::processPacket applies      *)
(* packets to the fake players (OtherPlayer::readPacket) and               *)
(* Client::sendPacket asks the entities for packets                        *)
(* (LevelEntity::writePacket).                                             *)
(*                                                                         *)
(* Three threads of the client and the game itself take steps.  Nothing is *)
(* locked: the flags processPackets are all that keeps a packet from being *)
(* applied through pointers into a level that is gone.                     *)
(*                                                                         *)
(* wasHobbitOpen is false from the start and is only ever assigned         *)
(* isHobbitOpen where that is false: eventOpenGame and eventCloseGame are  *)
(* never called, and the model has no step for them.                       *)
(***************************************************************************)
EXTENDS Integers, Sequences

CONSTANTS
    MaxLevels,     \* bound: levels the player loads
    MaxCloses,     \* bound: how often the game is closed
    FullyAtMenu    \* what getLevelFullyLoaded may return while no level is loaded

ASSUME GameAssumption ==
    /\ MaxLevels \in Nat
    /\ MaxCloses \in Nat
    /\ FullyAtMenu \subseteq BOOLEAN /\ FullyAtMenu # {}

\* ClientEntitiesList, in the order in which the listeners are added.
Entities == <<"MainPlayer", "OtherPlayer", "LevelEntity", "PodnitiiPredmet">>
Entity == {Entities[k] : k \in 1 .. Len(Entities)}

VARIABLES
    game,         \* closed, menu, loading, spawning (all but fully loaded), level
    level,        \* number of the level the game loads or has loaded
    closes,       \* times the game has been closed
    menuWord,     \* getLevelFullyLoaded at the menu
    load,         \* whether update has polled during this load
    listeners,    \* entities whose listeners have been added
    stopThread,
    main,         \* the thread that owns the GameManager
    pc,           \* where the update thread is
    i,            \* the listener it calls
    last,         \* the last one of this event
    prev,         \* previousLevelLoaded, previousLevelFullyLoaded
    cur,          \* currentLevelLoaded, currentLevelFullyLoaded
    processing,   \* processPackets of each entity
    ptrs,         \* the level an entity's pointers lead into, 0 if none
    isSent,       \* LevelEntity::isSentExitLevel
    reader,       \* where the process thread is in OtherPlayer::readPacket
    sender,       \* where the send thread is in LevelEntity::writePacket
    alive,        \* no undefined behaviour has ended the process
    initialised,  \* history: OtherPlayer::processPackets has been assigned
    unheard,      \* history: entities that missed the last eventEnterNewLevel
    half,         \* history: an event enter stands that no poll has seen loaded
    stalled,      \* history: the reader has held its player since exitLevel
    overlap       \* history: the send thread was in writePacket during exitLevel

gameVars == <<game, level, closes, menuWord>>
startVars == <<listeners, stopThread, main>>
pollVars == <<pc, i, last, prev, cur>>
entityVars == <<processing, ptrs, isSent>>
threadVars == <<reader, sender>>
historyVars == <<initialised, unheard, half, stalled, overlap>>
vars == <<gameVars, load, startVars, pollVars, entityVars, threadVars, alive,
          historyVars>>

Words == [loaded : BOOLEAN, fully : BOOLEAN]

EnterSteps == {"enter", "push", "flag"}
ExitSteps == {"exit", "unflag"}

TypeOK ==
    /\ game \in {"closed", "menu", "loading", "spawning", "level"}
    /\ level \in 0 .. MaxLevels
    /\ closes \in 0 .. MaxCloses
    /\ menuWord \in BOOLEAN
    /\ load \in {"unseen", "polling", "seen"}
    /\ listeners \in 0 .. Len(Entities)
    /\ stopThread \in BOOLEAN
    /\ main \in {"constructing", "running", "joining", "joined"}
    /\ pc \in {"top", "loaded", "fully", "decide", "end", "done"}
                  \cup EnterSteps \cup ExitSteps
    /\ i \in 1 .. Len(Entities)
    /\ last \in 0 .. Len(Entities)
    /\ prev \in Words
    /\ cur \in Words
    /\ processing \in [Entity -> BOOLEAN]
    /\ ptrs \in [{"MainPlayer", "OtherPlayer"} -> 0 .. MaxLevels]
    /\ isSent \in BOOLEAN
    /\ reader \in {"idle", "holding"}
    /\ sender \in {"idle", "checked", "announcing"}
    /\ {alive, initialised, half, stalled, overlap} \subseteq BOOLEAN
    /\ unheard \subseteq Entity

\* OtherPlayer::processPackets has no initialiser: it holds anything.
Init ==
    /\ game \in {"closed", "menu"}
    /\ level = 0
    /\ closes = 0
    /\ menuWord \in FullyAtMenu
    /\ load = "unseen"
    /\ listeners = 0
    /\ stopThread = FALSE
    /\ main = "constructing"
    /\ pc = "top"
    /\ i = 1
    /\ last = 0
    /\ prev = [loaded |-> FALSE, fully |-> FALSE]
    /\ cur = [loaded |-> FALSE, fully |-> FALSE]
    /\ \E junk \in BOOLEAN :
          processing = [e \in Entity |-> e = "OtherPlayer" /\ junk]
    /\ ptrs = [e \in {"MainPlayer", "OtherPlayer"} |-> 0]
    /\ isSent = FALSE
    /\ reader = "idle"
    /\ sender = "idle"
    /\ alive = TRUE
    /\ initialised = FALSE
    /\ unheard = {}
    /\ half = FALSE
    /\ stalled = FALSE
    /\ overlap = FALSE

-----------------------------------------------------------------------------
(* The game: not part of this program; all the client sees are the words *)

\* readData(0x00760354), and the negation of readData(0x0076035C).  A read that
\* fails gives 0.
LoadedWord == game \in {"spawning", "level"}
FullyWord == CASE game = "closed" -> TRUE
               [] game = "menu"   -> menuWord
               [] OTHER           -> game = "level"

\* The player starts the game, or closes it.
OpenGame ==
    /\ game = "closed"
    /\ game' = "menu"
    /\ UNCHANGED <<level, closes, menuWord, load, startVars, pollVars,
                   entityVars, threadVars, alive, historyVars>>
CloseGame ==
    /\ game # "closed"
    /\ closes < MaxCloses
    /\ game' = "closed"
    /\ closes' = closes + 1
    /\ UNCHANGED <<level, menuWord, load, startVars, pollVars, entityVars,
                   threadVars, alive, historyVars>>

\* The player goes back to the menu.
QuitLevel ==
    /\ game = "level"
    /\ game' = "menu"
    /\ UNCHANGED <<level, closes, menuWord, load, startVars, pollVars,
                   entityVars, threadVars, alive, historyVars>>

\* A level is loaded, from the menu or from another level.
StartLoad ==
    /\ game \in {"menu", "level"}
    /\ level < MaxLevels
    /\ game' = "loading"
    /\ level' = level + 1
    /\ load' = "unseen"
    /\ UNCHANGED <<closes, menuWord, startVars, pollVars, entityVars,
                   threadVars, alive, historyVars>>

\* A load takes longer than one round of update: seconds against 10 ms.
FinishLoad ==
    /\ \/ game = "loading" /\ load = "seen" /\ game' \in {"spawning", "level"}
       \/ game = "spawning" /\ game' = "level"
    /\ UNCHANGED <<level, closes, menuWord, load, startVars, pollVars,
                   entityVars, threadVars, alive, historyVars>>

-----------------------------------------------------------------------------
(* The thread that constructs and destroys the GameClientManager *)

\* The base class starts the update thread; then the listeners are added, to
\* vectors that an event may be walking over.
AddListeners ==
    /\ alive
    /\ main = "constructing"
    /\ listeners' = listeners + 1
    /\ main' = IF listeners' = Len(Entities) THEN "running" ELSE main
    /\ alive' \in BOOLEAN
    /\ alive' \/ pc \in EnterSteps \cup ExitSteps
    /\ UNCHANGED <<gameVars, load, stopThread, pollVars, entityVars,
                   threadVars, historyVars>>

\* ~Client has joined the other threads; ~GameManager tells this one to stop, and
\* joins it.
Stop ==
    /\ alive
    /\ main = "running"
    /\ reader = "idle"
    /\ sender = "idle"
    /\ main' = "joining"
    /\ stopThread' = TRUE
    /\ UNCHANGED <<gameVars, load, listeners, pollVars, entityVars,
                   threadVars, alive, historyVars>>
Join ==
    /\ alive
    /\ main = "joining"
    /\ pc = "done"
    /\ main' = "joined"
    /\ UNCHANGED <<gameVars, load, listeners, stopThread, pollVars, entityVars,
                   threadVars, alive, historyVars>>

-----------------------------------------------------------------------------
(* The update thread: a round reads the words one after the other *)

\* while (!stopThread), and isGameOpen.  A closed game ends the round.
Poll ==
    /\ alive
    /\ pc = "top"
    /\ pc' = IF stopThread THEN "done"
             ELSE IF game = "closed" THEN "top" ELSE "loaded"
    /\ load' = IF ~stopThread /\ game = "loading" /\ load = "unseen"
                 THEN "polling" ELSE load
    /\ UNCHANGED <<gameVars, startVars, i, last, prev, cur, entityVars,
                   threadVars, alive, historyVars>>

\* getLevelLoaded, then getLevelFullyLoaded.
ReadLoaded ==
    /\ alive
    /\ pc = "loaded"
    /\ cur' = [cur EXCEPT !.loaded = LoadedWord]
    /\ pc' = "fully"
    /\ UNCHANGED <<gameVars, load, startVars, i, last, prev, entityVars,
                   threadVars, alive, historyVars>>
ReadFully ==
    /\ alive
    /\ pc = "fully"
    /\ cur' = [cur EXCEPT !.fully = FullyWord]
    /\ pc' = "decide"
    /\ UNCHANGED <<gameVars, load, startVars, i, last, prev, entityVars,
                   threadVars, alive, historyVars>>

\* Mutations of Entering: the level counts as entered when it is loaded, not when
\* it is fully loaded; only if it was not loaded in the round before.
EnteringLoaded == ~prev.loaded /\ cur.loaded
EnteringFromUnloaded == ~prev.fully /\ cur.fully /\ ~prev.loaded
Entering == ~prev.fully /\ cur.fully

\* Mutation of Exiting: both words have to be false.
ExitingBoth == prev.loaded /\ ~cur.loaded /\ ~cur.fully
Exiting == prev.loaded /\ ~cur.loaded

\* What follows the comparison of the first word, and of the second.
AfterEnter == IF Exiting /\ listeners > 0 THEN "exit" ELSE "end"

\* eventEnterNewLevel fires, for the listeners added so far; or eventExitLevel
\* alone; or none.
Decide ==
    /\ alive
    /\ pc = "decide"
    /\ i' = 1
    /\ last' = listeners
    /\ pc' = IF Entering /\ listeners > 0 THEN "enter" ELSE AfterEnter
    /\ unheard' = IF Entering
                    THEN {Entities[k] : k \in listeners + 1 .. Len(Entities)}
                    ELSE unheard
    /\ UNCHANGED <<gameVars, load, startVars, prev, cur, entityVars, threadVars,
                   alive, initialised, half, stalled, overlap>>

\* Mutation of Returns: one listener too many.
ReturnsLate(next) ==
    IF i <= last
      THEN i' = i + 1 /\ pc' = next /\ UNCHANGED last
      ELSE /\ i' = 1
           /\ last' = IF next = "enter" THEN listeners ELSE last
           /\ pc' = IF next = "enter" THEN AfterEnter ELSE "end"

\* The listener returns; after the last one eventExitLevel may follow.
Returns(next) ==
    IF i < last
      THEN i' = i + 1 /\ pc' = next /\ UNCHANGED last
      ELSE /\ i' = 1
           /\ last' = IF next = "enter" THEN listeners ELSE last
           /\ pc' = IF next = "enter" THEN AfterEnter ELSE "end"

\* What readPtrs finds: the objects of the level, or nothing.
Found == IF game = "level" THEN level ELSE 0

\* MainPlayer and OtherPlayer call readPtrs first, the others have nothing to read.
\* OtherPlayer clears the vector of its players and makes new ones.
EnterReads ==
    /\ alive
    /\ pc = "enter"
    /\ Entities[i] \in {"MainPlayer", "OtherPlayer"}
    /\ IF Entities[i] = "MainPlayer"
         THEN ptrs' = [ptrs EXCEPT !["MainPlayer"] = Found] /\ pc' = "flag"
         ELSE ptrs' = [ptrs EXCEPT !["OtherPlayer"] = 0] /\ pc' = "push"
    /\ UNCHANGED <<gameVars, load, startVars, i, last, prev, cur, processing,
                   isSent, threadVars, alive, historyVars>>
EnterPushes ==
    /\ alive
    /\ pc = "push"
    /\ ptrs' = [ptrs EXCEPT !["OtherPlayer"] = Found]
    /\ pc' = "flag"
    /\ UNCHANGED <<gameVars, load, startVars, i, last, prev, cur, processing,
                   isSent, threadVars, alive, historyVars>>

\* processPackets = true
EnterFlags ==
    /\ alive
    /\ \/ pc = "flag"
       \/ pc = "enter" /\ Entities[i] \notin {"MainPlayer", "OtherPlayer"}
    /\ processing' = [processing EXCEPT ![Entities[i]] = TRUE]
    /\ initialised' = (initialised \/ Entities[i] = "OtherPlayer")
    /\ Returns("enter")
    /\ UNCHANGED <<gameVars, load, startVars, prev, cur, ptrs, isSent,
                   threadVars, alive, unheard, half, stalled, overlap>>

\* Mutation of ExitResets: isSentExitLevel is left as it is.
ExitForgets ==
    /\ alive
    /\ pc = "exit"
    /\ Entities[i] = "LevelEntity"
    /\ pc' = "unflag"
    /\ overlap' = (sender \in {"checked", "announcing"})
    /\ UNCHANGED <<gameVars, load, startVars, i, last, prev, cur, entityVars,
                   threadVars, alive, initialised, unheard, half, stalled>>

\* LevelEntity::exitLevel: isSentExitLevel = false comes first.
ExitResets ==
    /\ alive
    /\ pc = "exit"
    /\ Entities[i] = "LevelEntity"
    /\ isSent' = FALSE
    /\ pc' = "unflag"
    /\ overlap' = (sender \in {"checked", "announcing"})
    /\ UNCHANGED <<gameVars, load, startVars, i, last, prev, cur, processing,
                   ptrs, threadVars, alive, initialised, unheard, half, stalled>>

\* processPackets = false
ExitFlags ==
    /\ alive
    /\ pc = "unflag" \/ (pc = "exit" /\ Entities[i] # "LevelEntity")
    /\ processing' = [processing EXCEPT ![Entities[i]] = FALSE]
    /\ IF Entities[i] = "OtherPlayer"
         THEN initialised' = TRUE /\ stalled' = (reader = "holding")
         ELSE UNCHANGED <<initialised, stalled>>
    /\ Returns("exit")
    /\ UNCHANGED <<gameVars, load, startVars, prev, cur, ptrs, isSent,
                   threadVars, alive, unheard, half, overlap>>

\* An event enter fired in a round that read the level as not loaded, and no round
\* since has found the level or its end.
StillHalf ==
    /\ half \/ (Entering /\ ~cur.loaded)
    /\ ~Exiting
    /\ ~(cur.loaded /\ cur.fully)

\* Mutation of EndRound: previousLevelFullyLoaded is not kept.
EndRoundForgetting ==
    /\ alive
    /\ pc = "end"
    /\ pc' = "top"
    /\ prev' = [cur EXCEPT !.fully = FALSE]
    /\ load' = IF load = "polling" THEN "seen" ELSE load
    /\ half' = StillHalf
    /\ UNCHANGED <<gameVars, startVars, i, last, cur, entityVars, threadVars,
                   alive, initialised, unheard, stalled, overlap>>

\* The words become the previous ones.
EndRound ==
    /\ alive
    /\ pc = "end"
    /\ pc' = "top"
    /\ prev' = cur
    /\ load' = IF load = "polling" THEN "seen" ELSE load
    /\ half' = StillHalf
    /\ UNCHANGED <<gameVars, startVars, i, last, cur, entityVars, threadVars,
                   alive, initialised, unheard, stalled, overlap>>

-----------------------------------------------------------------------------
(* The process thread: GameClientManager::readPacket, OtherPlayer::readPacket *)

\* The thread is started when all is constructed.  isGameOpen and processPackets
\* are tested, and a reference into otherPlayers is taken.
ReaderTakes ==
    /\ alive
    /\ main = "running"
    /\ reader = "idle"
    /\ game # "closed"
    /\ processing["OtherPlayer"]
    /\ reader' = "holding"
    /\ stalled' = FALSE
    /\ UNCHANGED <<gameVars, load, startVars, pollVars, entityVars, sender,
                   alive, initialised, unheard, half, overlap>>

\* The position, the rotation and the animation are written.
ReaderApplies ==
    /\ alive
    /\ reader = "holding"
    /\ reader' = "idle"
    /\ UNCHANGED <<gameVars, load, startVars, pollVars, entityVars, sender,
                   alive, historyVars>>

-----------------------------------------------------------------------------
(* The send thread: GameClientManager::writePacket, LevelEntity::writePacket *)

\* isGameOpen, and if (!processPackets) return
SenderChecks ==
    /\ alive
    /\ main = "running"
    /\ sender = "idle"
    /\ game # "closed"
    /\ processing["LevelEntity"]
    /\ sender' = "checked"
    /\ overlap' = (overlap \/ pc = "unflag")
    /\ UNCHANGED <<gameVars, load, startVars, pollVars, entityVars, reader,
                   alive, initialised, unheard, half, stalled>>

\* if (!isSentExitLevel)
SenderTests ==
    /\ alive
    /\ sender = "checked"
    /\ sender' = IF isSent THEN "idle" ELSE "announcing"
    /\ UNCHANGED <<gameVars, load, startVars, pollVars, entityVars, reader,
                   alive, historyVars>>

\* The level has been put into a packet: isSentExitLevel = true.
SenderAnnounces ==
    /\ alive
    /\ sender = "announcing"
    /\ sender' = "idle"
    /\ isSent' = TRUE
    /\ UNCHANGED <<gameVars, load, startVars, pollVars, processing, ptrs,
                   reader, alive, historyVars>>

-----------------------------------------------------------------------------

Game == OpenGame \/ CloseGame \/ QuitLevel \/ StartLoad \/ FinishLoad

UpdateThread == \/ Poll
                \/ ReadLoaded
                \/ ReadFully
                \/ Decide
                \/ EnterReads
                \/ EnterPushes
                \/ EnterFlags
                \/ ExitResets
                \/ ExitFlags
                \/ EndRound

ProcessThread == ReaderTakes \/ ReaderApplies

SendThread == SenderChecks \/ SenderTests \/ SenderAnnounces

Next == \/ Game
        \/ AddListeners
        \/ Stop
        \/ Join
        \/ UpdateThread
        \/ ProcessThread
        \/ SendThread

Spec == Init /\ [][Next]_vars

\* The update thread is never blocked.
Fairness == WF_vars(UpdateThread) /\ WF_vars(Join)

LiveSpec == Spec /\ Fairness

-----------------------------------------------------------------------------
(* Properties *)

\* This event enter, or the one before it, comes from a round that read the level
\* as not loaded: the game was closed in that round, or never was in a level.
HalfEntered == half \/ ~cur.loaded

\* When the level was last read as not loaded, no entity processes packets: every
\* end of a level that matters is noticed, although update only samples the
\* words and reads them at different times.  The exceptions are an event enter of
\* a round that read the level as not loaded, since no fall of that word follows
\* it, and the flag of OtherPlayer before anything has been assigned to it.
OffOutsideLevels ==
    pc = "top" /\ ~prev.loaded /\ ~half =>
        \A e \in Entity : processing[e] => e = "OtherPlayer" /\ ~initialised

\* While the game is in the level update last saw fully loaded, every entity that
\* heard of it processes packets, and has its pointers into that level, not into
\* an earlier one.
FreshPointers ==
    pc = "top" /\ prev.fully /\ game = "level" =>
        \A e \in DOMAIN ptrs \ unheard : processing[e] /\ ptrs[e] = level

\* enterNewLevel clears and refills otherPlayers, unlocked, while the process
\* thread may hold a reference into it.  That it does not is owed to exitLevel,
\* which has cleared processPackets a whole load before.  What can still go wrong:
\* the end of the level before was never noticed, one packet took longer than a
\* load, or processPackets was read before anything had been assigned to it.
PlayersRebuiltUnread ==
    pc \in {"enter", "push"} /\ Entities[i] = "OtherPlayer" /\ reader = "holding" =>
        HalfEntered \/ stalled \/ ~initialised

\* When a level is entered, isSentExitLevel is false, so that LevelEntity will
\* announce it.  The send thread tests processPackets and isSentExitLevel and sets
\* the latter, exitLevel resets both in that order, and neither is atomic: only a
\* writePacket that overlaps exitLevel can leave the next level unannounced.
LevelIsAnnounced ==
    pc = "enter" /\ Entities[i] = "LevelEntity" /\ isSent => HalfEntered \/ overlap

\* A level in which the player stays is noticed by every entity, whatever update
\* missed before.
CatchesUp ==
    \A n \in 1 .. MaxLevels :
        (game = "level" /\ level = n) ~>
            \/ \A e \in DOMAIN ptrs \ unheard : processing[e] /\ ptrs[e] = n
            \/ game # "level" \/ level # n
            \/ stopThread \/ ~alive

\* GameManager.h:125 says "new level" of the rise of getLevelFullyLoaded.  A read
\* that fails gives 0, which getLevelFullyLoaded negates: when the game is closed
\* between isGameOpen and that read, the entities enter a level that is not there.
EnterMeansLevel == [][pc = "fully" /\ Entering' => game = "level"]_vars
=============================================================================
