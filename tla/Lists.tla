------------------------------- MODULE Lists -------------------------------
(***************************************************************************)
(* What the intrusive lists of the runtime promise: sequences of objects,  *)
(* no object being twice in them.  Storage, which has the pointers of      *)
(* src/src/lucy/core/queue.c and of the service table of master.c,         *)
(* implements it.                                                          *)
(***************************************************************************)
EXTENDS Integers, Sequences, SequencesExt

CONSTANTS Objects, Queues, Chains

VARIABLE content    \* content[l]: the objects of list l, in order

Init == content = [l \in Queues \union Chains |-> <<>>]

\* The objects that are in no list of c.
Unlisted(c) == Objects \ UNION {ToSet(c[l]) : l \in DOMAIN c}

\* A queue grows at its end, loses its front, or has its front go to its end.
QueueChanges(c, q, s) ==
    \/ \E o \in Unlisted(c) : s = Append(c[q], o)
    \/ c[q] # <<>> /\ s \in {Tail(c[q]), Append(Tail(c[q]), Head(c[q]))}

\* A chain of the hash table grows at its front, and loses any element.
ChainChanges(c, h, s) ==
    \/ \E o \in Unlisted(c) : s = <<o>> \o c[h]
    \/ \E i \in DOMAIN c[h] : s = RemoveAt(c[h], i)

\* The lists turn from c to d: one changes, or everything in one queue is
\* appended to another.
Step(c, d) ==
    LET changed == {l \in DOMAIN c : c[l] # d[l]}
    IN  \/ \E l \in changed :
             /\ changed = {l}
             /\ IF l \in Queues THEN QueueChanges(c, l, d[l]) ELSE ChainChanges(c, l, d[l])
        \/ \E q, r \in changed \intersect Queues :
             /\ changed = {q, r} /\ q # r
             /\ d[q] = c[q] \o c[r] /\ d[r] = <<>>

Next == Step(content, content')

Spec == Init /\ [][Next]_content
=============================================================================
