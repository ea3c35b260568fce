--------------------------- MODULE TsQueueProofs ---------------------------
(***************************************************************************)
(* tsqueue implements a FIFO for any number of producers and any bounds.   *)
(*                                                                         *)
(* The refinement needs one thing that is not visible in a single step:    *)
(* when the update thread reaches pop_front, the deque is not empty.       *)
(* Update tested it in an earlier critical section, and since then other   *)
(* threads had muxQueue; but the update thread is the only one that pops.  *)
(***************************************************************************)
EXTENDS TsQueue, TLAPS

IInv == TypeOK /\ PopsFromNonEmpty

LEMMA ItemFacts ==
    /\ NoItem \notin Item
    /\ \A p \in Producers : \A n \in 0 .. Numbers - 1 : <<p, n>> \in Item
    /\ \A n \in 0 .. Numbers - 1 : (n + 1) % Numbers \in 0 .. Numbers - 1
BY TsQueueAssumption DEF Item, NoItem

LEMMA InitIInv == Init => IInv
BY TsQueueAssumption DEF Init, IInv, TypeOK, PopsFromNonEmpty, PushPCs, PCs

LEMMA NextIInv == IInv /\ [Next]_vars => IInv'
<1> SUFFICES ASSUME IInv, [Next]_vars PROVE IInv'
  OBVIOUS
<1> USE DEF IInv, TypeOK, PopsFromNonEmpty, PushPCs, PCs, Threads
<1>1. ASSUME NEW p \in Producers, PushLock(p) PROVE IInv'
  BY <1>1 DEF PushLock
<1>2. ASSUME NEW p \in Producers, PushEmplace(p) PROVE IInv'
  <2>1. <<p, number[p]>> \in Item
    BY ItemFacts
  <2>2. deqQueue' \in Seq(Item) /\ deqQueue' # <<>>
    BY <1>2, <2>1 DEF PushEmplace
  <2>3. number' \in [Producers -> 0 .. Numbers - 1]
    BY <1>2, ItemFacts DEF PushEmplace
  <2> QED BY <1>2, <2>2, <2>3 DEF PushEmplace
<1>3. ASSUME NEW p \in Producers, PushBlock(p) PROVE IInv'
  BY <1>3 DEF PushBlock
<1>4. ASSUME NEW p \in Producers, PushNotify(p) PROVE IInv'
  BY <1>4 DEF PushNotify
<1>5. CASE Loop
  BY <1>5 DEF Loop
<1>6. CASE WaitCheck
  BY <1>6 DEF WaitCheck
<1>7. CASE WaitLock \/ WaitSleep
  BY <1>7 DEF WaitLock, WaitSleep
<1>8. CASE SpuriousWakeup \/ WaitReturn
  BY <1>8 DEF SpuriousWakeup, WaitReturn
<1>9. CASE Drain
  BY <1>9 DEF Drain
<1>10. CASE PopFront
  <2>1. deqQueue # <<>> /\ deqQueue \in Seq(Item)
    BY <1>10 DEF PopFront
  <2>2. Head(deqQueue) \in Item /\ Tail(deqQueue) \in Seq(Item)
    BY <2>1
  <2> QED BY <1>10, <2>2 DEF PopFront
<1>11. CASE Handle
  BY <1>11 DEF Handle
<1>12. CASE Stop \/ Join
  BY <1>12 DEF Stop, Join
<1>13. CASE UNCHANGED vars
  BY <1>13 DEF vars
<1> QED
  BY <1>1, <1>2, <1>3, <1>4, <1>5, <1>6, <1>7, <1>8, <1>9, <1>10, <1>11, <1>12,
     <1>13 DEF Next, PushStep, UpdateStep

THEOREM Invariance == Spec => []IInv
BY InitIInv, NextIInv, PTL DEF Spec

\* The deque holds packets and nothing else, each lock has at most one owner, and
\* a packet's number keeps within its bound, for any set of pushing threads.
THEOREM TypeCorrect == Spec => []TypeOK
<1>1. IInv => TypeOK
  BY DEF IInv
<1> QED BY <1>1, Invariance, PTL

\* Update never calls pop_front on an empty deque, which would be undefined.
THEOREM PopSafety == Spec => []PopsFromNonEmpty
<1>1. IInv => PopsFromNonEmpty
  BY DEF IInv
<1> QED BY <1>1, Invariance, PTL

-----------------------------------------------------------------------------

LEMMA InitFifo == Init => Abstract!FifoInit
BY DEF Init, Abstract!FifoInit

LEMMA NextFifo ==
    IInv /\ [Next]_vars => [Abstract!FifoNext]_<<deqQueue, last>>
<1> SUFFICES ASSUME IInv, [Next]_vars
             PROVE  [Abstract!FifoNext]_<<deqQueue, last>>
  OBVIOUS
<1>1. ASSUME NEW p \in Producers, PushEmplace(p)
      PROVE  Abstract!FifoNext
  <2>1. <<p, number[p]>> \in Item
    BY ItemFacts DEF IInv, TypeOK
  <2>2. Abstract!Push(<<p, number[p]>>)
    BY <1>1 DEF PushEmplace, Abstract!Push
  <2> QED BY <2>1, <2>2 DEF Abstract!FifoNext
<1>2. CASE PopFront
  <2>1. Abstract!Take
    BY <1>2 DEF PopFront, IInv, PopsFromNonEmpty, Abstract!Take
  <2> QED BY <2>1 DEF Abstract!FifoNext
<1>3. CASE ~PopFront /\ ~ \E p \in Producers : PushEmplace(p)
  <2>1. UNCHANGED <<deqQueue, last>>
    BY <1>3 DEF Next, PushStep, UpdateStep, PushLock, PushBlock, PushNotify,
       Loop, WaitCheck, WaitLock, WaitSleep, SpuriousWakeup, WaitReturn, Drain,
       Handle, Stop, Join, vars
  <2> QED BY <2>1
<1> QED BY <1>1, <1>2, <1>3

\* tsqueue implements Fifo: what push_back was given is what pop_front returns,
\* once and in order, for any set of pushing threads.
THEOREM Refinement == Spec => IsFifo
<1>1. Init => Abstract!FifoInit
  BY InitFifo
<1>2. IInv /\ [Next]_vars => [Abstract!FifoNext]_<<deqQueue, last>>
  BY NextFifo
<1> QED BY <1>1, <1>2, Invariance, PTL DEF Spec, IsFifo, Abstract!FifoSpec
=============================================================================
