------------------------------- MODULE SharedDoc -------------------------------
(***************************************************************************)
(* What a synced document promises, without sockets, frames or memory:     *)
(* authors make operations and see them at once, a durable store takes     *)
(* them in order and never gives one up, and every client integrates more  *)
(* and more of what the authors made, never less.                          *)
(***************************************************************************)
EXTENDS Naturals

CONSTANT Client

VARIABLES
    made,    \* operations each author has made
    stored,  \* of each author, how many are durable
    shown    \* of each author, how many each client has integrated

vars == <<made, stored, shown>>

Init ==
    /\ made = [a \in Client |-> 0]
    /\ stored = [a \in Client |-> 0]
    /\ shown = [c \in Client |-> [a \in Client |-> 0]]

\* An author makes an operation, at once visible to itself.
Make(a) ==
    /\ made' = [made EXCEPT ![a] = @ + 1]
    /\ shown' = [shown EXCEPT ![a][a] = @ + 1]
    /\ UNCHANGED stored

\* Some operations become durable.
Store ==
    /\ UNCHANGED <<made, shown>>
    /\ LET before == stored
           after == stored'
       IN  /\ after # before
           /\ \A a \in Client : after[a] \in before[a]..made[a]

\* A client learns of operations of other authors.
Show(c) ==
    /\ UNCHANGED made
    /\ shown'[c] # shown[c]
    /\ \A b \in Client \ {c} : shown'[b] = shown[b]
    /\ shown'[c][c] = shown[c][c]
    /\ \A a \in Client \ {c} : shown'[c][a] \in shown[c][a]..made[a]
    /\ UNCHANGED stored

Next == Store \/ \E c \in Client : Make(c) \/ Show(c)

Spec == Init /\ [][Next]_vars
=============================================================================
