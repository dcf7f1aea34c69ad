------------------------------ MODULE Mailbox ------------------------------
(***************************************************************************)
(* What a sleeping thread's queue promises, whichever primitive the thread *)
(* sleeps on: the reader gets the messages in the order in which they were *)
(* put, each once, and as long as there is one it will come for it.        *)
(* WorkerWait and MasterWakeup implement it.                               *)
(***************************************************************************)
EXTENDS Naturals, Sequences

VARIABLES
    box,   \* the messages that were put and not yet taken
    taken  \* the messages the reader has taken, in order

vars == <<box, taken>>

Init == box = <<>> /\ taken = <<>>

\* Messages are put behind those that wait.
Put ==
    /\ Len(box') > Len(box)
    /\ SubSeq(box', 1, Len(box)) = box
    /\ taken' = taken

\* The reader empties the queue.
Take == box # <<>> /\ taken' = taken \o box /\ box' = <<>>

Next == Take \/ Put

\* What may happen to the messages: none is lost, doubled or overtaken.
SafeSpec == Init /\ [][Next]_vars

\* And the reader comes for them.
Spec == SafeSpec /\ WF_vars(Take)
============================================================================
