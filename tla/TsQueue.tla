------------------------------- MODULE TsQueue -------------------------------
(***************************************************************************)
(* NetworkManager/tsqueue.h as the server uses it for m_qMessagesIn:       *)
(* producers call push_back (the handlers of the io context), the update   *)
(* thread calls wait, empty and pop_front (UpdateServer and Update), and   *)
(* main stops the update thread and joins it.                              *)
(*                                                                         *)
(* Every mutex acquisition is a step.  A critical section that does one    *)
(* thing and takes no other lock (empty, pop_front) is one step, enabled   *)
(* when the mutex is free.                                                 *)
(***************************************************************************)
EXTENDS Integers, Sequences, FiniteSets

CONSTANTS
    Producers,  \* threads that push
    Numbers,    \* bound: a producer numbers its packets modulo Numbers
    MaxQueue    \* bound: no push starts when this many packets are queued

ASSUME TsQueueAssumption ==
    /\ Numbers \in Nat \ {0}
    /\ MaxQueue \in Nat \ {0}
    /\ {"update", "free"} \cap Producers = {}

Item == Producers \X (0 .. Numbers - 1)
NoItem == <<>>
Free == "free"
Threads == Producers \cup {"update"}

VARIABLES
    deqQueue,     \* the queue itself
    muxQueue,     \* who holds muxQueue
    muxBlocking,  \* who holds muxBlocking
    pushing,      \* where each producer is in push_back
    number,       \* number of the next packet of each producer
    pc,           \* where the update thread is
    last,         \* the packet it popped last
    stopThreads,  \* m_stopThreads: TRUE while the update thread is to run
    main          \* where main is

vars == <<deqQueue, muxQueue, muxBlocking, pushing, number, pc, last,
          stopThreads, main>>

PushPCs == {"idle", "locked", "placed", "blocking"}
PCs == {"loop", "check", "block", "wait", "sleep", "woken", "drain", "pop",
        "handle", "done"}

TypeOK ==
    /\ deqQueue \in Seq(Item)
    /\ muxQueue \in Producers \cup {Free}
    /\ muxBlocking \in Threads \cup {Free}
    /\ pushing \in [Producers -> PushPCs]
    /\ number \in [Producers -> 0 .. Numbers - 1]
    /\ pc \in PCs
    /\ last \in Item \cup {NoItem}
    /\ stopThreads \in BOOLEAN
    /\ main \in {"input", "join", "exited"}

\* main has set m_stopThreads before it starts the thread.
Init ==
    /\ deqQueue = <<>>
    /\ muxQueue = Free
    /\ muxBlocking = Free
    /\ pushing = [p \in Producers |-> "idle"]
    /\ number = [p \in Producers |-> 0]
    /\ pc = "loop"
    /\ last = NoItem
    /\ stopThreads = TRUE
    /\ main = "input"

-----------------------------------------------------------------------------
(* push_back *)

PushLock(p) ==
    /\ pushing[p] = "idle"
    /\ muxQueue = Free
    /\ Len(deqQueue) < MaxQueue
    /\ muxQueue' = p
    /\ pushing' = [pushing EXCEPT ![p] = "locked"]
    /\ UNCHANGED <<deqQueue, muxBlocking, number, pc, last, stopThreads, main>>

\* Mutation of PushEmplace: emplace_front.
PushFront(p) ==
    /\ pushing[p] = "locked"
    /\ deqQueue' = <<<<p, number[p]>>>> \o deqQueue
    /\ number' = [number EXCEPT ![p] = (@ + 1) % Numbers]
    /\ pushing' = [pushing EXCEPT ![p] = "placed"]
    /\ UNCHANGED <<muxQueue, muxBlocking, pc, last, stopThreads, main>>

PushEmplace(p) ==
    /\ pushing[p] = "locked"
    /\ deqQueue' = Append(deqQueue, <<p, number[p]>>)
    /\ number' = [number EXCEPT ![p] = (@ + 1) % Numbers]
    /\ pushing' = [pushing EXCEPT ![p] = "placed"]
    /\ UNCHANGED <<muxQueue, muxBlocking, pc, last, stopThreads, main>>

PushBlock(p) ==
    /\ pushing[p] = "placed"
    /\ muxBlocking = Free
    /\ muxBlocking' = p
    /\ pushing' = [pushing EXCEPT ![p] = "blocking"]
    /\ UNCHANGED <<deqQueue, muxQueue, number, pc, last, stopThreads, main>>

\* Mutation of PushNotify: nobody is notified.
PushQuietly(p) ==
    /\ pushing[p] = "blocking"
    /\ muxBlocking' = Free
    /\ muxQueue' = Free
    /\ pushing' = [pushing EXCEPT ![p] = "idle"]
    /\ UNCHANGED <<deqQueue, number, pc, last, stopThreads, main>>

\* notify_one, then both locks go out of scope.
PushNotify(p) ==
    /\ pushing[p] = "blocking"
    /\ pc' = IF pc = "sleep" THEN "woken" ELSE pc
    /\ muxBlocking' = Free
    /\ muxQueue' = Free
    /\ pushing' = [pushing EXCEPT ![p] = "idle"]
    /\ UNCHANGED <<deqQueue, number, last, stopThreads, main>>

-----------------------------------------------------------------------------
(* The update thread *)

\* Mutation of Loop: the flag is not tested again.
LoopForever ==
    /\ pc = "loop"
    /\ pc' = "check"
    /\ UNCHANGED <<deqQueue, muxQueue, muxBlocking, pushing, number, last,
                   stopThreads, main>>

\* UpdateServer: while (m_stopThreads) Update(-1, true)
Loop ==
    /\ pc = "loop"
    /\ pc' = IF stopThreads THEN "check" ELSE "done"
    /\ UNCHANGED <<deqQueue, muxQueue, muxBlocking, pushing, number, last,
                   stopThreads, main>>

\* wait: while (empty())
WaitCheck ==
    /\ pc = "check"
    /\ muxQueue = Free
    /\ pc' = IF deqQueue = <<>> THEN "block" ELSE "drain"
    /\ UNCHANGED <<deqQueue, muxQueue, muxBlocking, pushing, number, last,
                   stopThreads, main>>

\* Mutation of WaitLock: wait locks the mutex of the queue.
WaitLockQueue ==
    /\ pc = "block"
    /\ muxQueue = Free
    /\ muxQueue' = "update"
    /\ pc' = "wait"
    /\ UNCHANGED <<deqQueue, muxBlocking, pushing, number, last, stopThreads,
                   main>>

WaitLock ==
    /\ pc = "block"
    /\ muxBlocking = Free
    /\ muxBlocking' = "update"
    /\ pc' = "wait"
    /\ UNCHANGED <<deqQueue, muxQueue, pushing, number, last, stopThreads, main>>

\* cvBlocking.wait releases muxBlocking and sleeps.
WaitSleep ==
    /\ pc = "wait"
    /\ muxBlocking' = Free
    /\ pc' = "sleep"
    /\ UNCHANGED <<deqQueue, muxQueue, pushing, number, last, stopThreads, main>>

SpuriousWakeup ==
    /\ pc = "sleep"
    /\ pc' = "woken"
    /\ UNCHANGED <<deqQueue, muxQueue, muxBlocking, pushing, number, last,
                   stopThreads, main>>

\* Mutation of WaitReturn: the lock outlives the iteration.
WaitReturnLocked ==
    /\ pc = "woken"
    /\ muxBlocking = Free
    /\ muxBlocking' = "update"
    /\ pc' = "check"
    /\ UNCHANGED <<deqQueue, muxQueue, pushing, number, last, stopThreads, main>>

\* cvBlocking.wait takes muxBlocking again; the scope ends and releases it.
WaitReturn ==
    /\ pc = "woken"
    /\ muxBlocking = Free
    /\ pc' = "check"
    /\ UNCHANGED <<deqQueue, muxQueue, muxBlocking, pushing, number, last,
                   stopThreads, main>>

\* Mutation of Drain: a packet is popped without a test.
DrainBlindly ==
    /\ pc = "drain"
    /\ muxQueue = Free
    /\ pc' = "pop"
    /\ UNCHANGED <<deqQueue, muxQueue, muxBlocking, pushing, number, last,
                   stopThreads, main>>

\* Update: while (!m_qMessagesIn.empty())
Drain ==
    /\ pc = "drain"
    /\ muxQueue = Free
    /\ pc' = IF deqQueue = <<>> THEN "loop" ELSE "pop"
    /\ UNCHANGED <<deqQueue, muxQueue, muxBlocking, pushing, number, last,
                   stopThreads, main>>

PopFront ==
    /\ pc = "pop"
    /\ muxQueue = Free
    /\ last' = Head(deqQueue)
    /\ deqQueue' = Tail(deqQueue)
    /\ pc' = "handle"
    /\ UNCHANGED <<muxQueue, muxBlocking, pushing, number, stopThreads, main>>

\* OnRecievePacket; module Server has its steps.
Handle ==
    /\ pc = "handle"
    /\ pc' = "drain"
    /\ UNCHANGED <<deqQueue, muxQueue, muxBlocking, pushing, number, last,
                   stopThreads, main>>

-----------------------------------------------------------------------------
(* main *)

\* A 'q' has been read.
Stop ==
    /\ main = "input"
    /\ stopThreads' = FALSE
    /\ main' = "join"
    /\ UNCHANGED <<deqQueue, muxQueue, muxBlocking, pushing, number, pc, last>>

Join ==
    /\ main = "join"
    /\ pc = "done"
    /\ main' = "exited"
    /\ UNCHANGED <<deqQueue, muxQueue, muxBlocking, pushing, number, pc, last,
                   stopThreads>>

-----------------------------------------------------------------------------

PushStep(p) == PushEmplace(p) \/ PushBlock(p) \/ PushNotify(p)
UpdateStep == \/ Loop \/ WaitCheck \/ WaitLock \/ WaitSleep \/ WaitReturn
              \/ Drain \/ PopFront \/ Handle

Next == \/ \E p \in Producers : PushLock(p) \/ PushStep(p)
        \/ UpdateStep
        \/ SpuriousWakeup
        \/ Stop
        \/ Join

Spec == Init /\ [][Next]_vars

\* A thread that can run does run; nothing makes a client send a packet, a
\* wait return without a notification or the operator type 'q'.
Fairness ==
    /\ \A p \in Producers : WF_vars(PushStep(p))
    /\ WF_vars(UpdateStep)
    /\ WF_vars(Join)

LiveSpec == Spec /\ Fairness

-----------------------------------------------------------------------------
(* Properties *)

\* The queue is a FIFO: nothing is lost, repeated or reordered between
\* push_back and pop_front, however the critical sections interleave.
Abstract == INSTANCE Fifo WITH queue <- deqQueue
IsFifo == Abstract!FifoSpec

\* pop_front takes the front of a deque that is not empty: no other thread can
\* empty it between Update's test and the pop.
PopsFromNonEmpty == pc = "pop" => deqQueue # <<>>

\* A push always gets through: push_back holds muxQueue while it waits for
\* muxBlocking, and wait never asks for muxQueue while it holds muxBlocking.
PushReturns ==
    \A p \in Producers : (pushing[p] # "idle") ~> (pushing[p] = "idle")

\* A push that finds the update thread asleep gets the queue handled: a thread
\* that sleeps on packets it missed does so only until the next push.
NextPushRepairs ==
    (pc = "sleep" /\ \E p \in Producers : pushing[p] = "blocking")
        ~> (pc = "handle")

\* Server.cpp:109 says that an update is bounced to everyone.  A packet pushed
\* between wait's empty() and its cvBlocking.wait notifies nobody, and is left
\* in the queue until another one arrives.
QueuedIsHandled ==
    (stopThreads /\ deqQueue # <<>>) ~> (pc = "handle" \/ ~stopThreads)

\* After a 'q' the next packet ends the server: an update thread asleep in wait
\* does not look at m_stopThreads, but once it has handled what is queued it
\* does not go back to sleep, and main's join returns.
NextPacketStops ==
    (main = "join" /\ pc = "handle") ~> (main = "exited" \/ pc = "pop")
=============================================================================
