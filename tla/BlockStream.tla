------------------------------ MODULE BlockStream ------------------------------
(***************************************************************************)
(* What the card and the DAQ loop promise together: every channel is a     *)
(* lossless first-in first-out stream of data blocks, at most Room blocks  *)
(* deep, from the optical link to the event builder, restarted empty at    *)
(* every run.  FilarRing implements it with the request and acknowledge    *)
(* FIFOs of the card, a ring of memory buffers and a 4-bit entry count.    *)
(***************************************************************************)
EXTENDS Naturals, Sequences

CONSTANTS
    Chan,   \* the channels of the card
    Room    \* how many blocks may wait on one channel

VARIABLES
    waiting,    \* waiting[c]: the blocks received and not yet assembled, oldest first
    received,   \* received[c]: the number of blocks received in this run
    taken       \* taken[c]: the number of blocks assembled in this run

vars == <<waiting, received, taken>>

Init ==
    /\ waiting = [c \in Chan |-> <<>>]
    /\ received = [c \in Chan |-> 0]
    /\ taken = [c \in Chan |-> 0]

\* The link delivers the next block of c.
Receive(c) ==
    /\ Len(waiting[c]) < Room
    /\ received' = [received EXCEPT ![c] = @ + 1]
    /\ waiting' = [waiting EXCEPT ![c] = Append(@, received[c] + 1)]
    /\ UNCHANGED taken

\* The event builder takes the oldest block of c, which is the next in number.
Take(c) ==
    /\ waiting[c] # <<>>
    /\ Head(waiting[c]) = taken[c] + 1
    /\ waiting' = [waiting EXCEPT ![c] = Tail(@)]
    /\ taken' = [taken EXCEPT ![c] = @ + 1]
    /\ UNCHANGED received

\* A new run starts with nothing waiting.
Restart ==
    /\ waiting' = [c \in Chan |-> <<>>]
    /\ received' = [c \in Chan |-> 0]
    /\ taken' = [c \in Chan |-> 0]

Next == Restart \/ \E c \in Chan : Receive(c) \/ Take(c)

Spec == Init /\ [][Next]_vars
================================================================================
