-------------------------------- MODULE Fifo --------------------------------
(***************************************************************************)
(* What m_qMessagesIn promises to the io thread and the update thread, and *)
(* a connection to its two ends: a packet that has been pushed is handed   *)
(* out once, in the order of the pushes, and nothing else is.  TsQueue     *)
(* implements it with two mutexes and a condition variable, Connection     *)
(* with chains of asynchronous reads and writes on either side.            *)
(***************************************************************************)
EXTENDS Sequences

CONSTANTS Item, NoItem

VARIABLES
    queue,  \* pushed and not yet taken
    last    \* what was taken last

FifoInit == queue = <<>> /\ last = NoItem

Push(x) == queue' = Append(queue, x) /\ UNCHANGED last
Take == queue # <<>> /\ last' = Head(queue) /\ queue' = Tail(queue)

FifoNext == Take \/ \E x \in Item : Push(x)

FifoSpec == FifoInit /\ [][FifoNext]_<<queue, last>>
=============================================================================
