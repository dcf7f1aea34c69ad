------------------------------- MODULE Actor -------------------------------
(***************************************************************************)
(* What the runtime promises to the author of a service, whatever threads  *)
(* and queues are behind it (the life cycle a-j in the head comment of     *)
(* src/src/lucy/core/master.c, seen from the service): the entry is called *)
(* by one thread only, for one message at a time; a service that closes    *)
(* gets one more message, its last; then it is freed and never runs again. *)
(***************************************************************************)
EXTENDS Integers

CONSTANTS Services, Threads, NoThread

VARIABLES
    state,    \* state[s]: what the service is doing
    owner,    \* owner[s]: the thread that runs it, once one has
    quitting  \* quitting[s]: the service has closed itself

vars == <<state, owner, quitting>>

Init ==
    /\ state \in [Services -> {"none", "ready"}]
    /\ owner = [s \in Services |-> NoThread]
    /\ quitting = [s \in Services |-> FALSE]

\* A service is created and started; its memory may make it quit at once.
Create(s) ==
    /\ state[s] = "none"
    /\ state' = [state EXCEPT ![s] = "ready"]
    /\ \E q \in BOOLEAN : quitting' = [quitting EXCEPT ![s] = q]
    /\ UNCHANGED owner

\* Thread t calls the entry of a ready service that has not quit, ...
Enter(s, t) ==
    /\ state[s] = "ready"
    /\ ~quitting[s]
    /\ owner[s] \in {NoThread, t}
    /\ state' = [state EXCEPT ![s] = "busy"]
    /\ owner' = [owner EXCEPT ![s] = t]
    /\ UNCHANGED quitting

\* ... which may close the service, ...
Quit(s) ==
    /\ state[s] \in {"busy", "last"}
    /\ quitting' = [quitting EXCEPT ![s] = TRUE]
    /\ UNCHANGED <<state, owner>>

\* ... and returns.
Leave(s) ==
    /\ state[s] = "busy"
    /\ state' = [state EXCEPT ![s] = "ready"]
    /\ UNCHANGED <<owner, quitting>>

\* Thread t gives the service its last message.
Finish(s, t) ==
    /\ state[s] = "ready"
    /\ owner[s] \in {NoThread, t}
    /\ state' = [state EXCEPT ![s] = "last"]
    /\ owner' = [owner EXCEPT ![s] = t]
    /\ UNCHANGED quitting

Free(s) ==
    /\ state[s] = "last"
    /\ state' = [state EXCEPT ![s] = "freed"]
    /\ UNCHANGED <<owner, quitting>>

Next ==
    \E s \in Services :
      \/ Create(s) \/ Quit(s) \/ Leave(s) \/ Free(s)
      \/ \E t \in Threads : Enter(s, t) \/ Finish(s, t)

Spec == Init /\ [][Next]_vars
============================================================================
