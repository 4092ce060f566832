------------------------------- MODULE MCDocSync -------------------------------
(* Instances of DocSync for TLC: two clients, a writes twice and b once or     *)
(* not at all.  With a third socket the writing and the losses come in the     *)
(* orders of a plan, so that clients reconnect before they converge.           *)
EXTENDS DocSync, TLC

CONSTANTS a, b

TwoAndOne == a :> 2 @@ b :> 1
OneWriter == a :> 2 @@ b :> 0

VARIABLE plan

Written(c) == replica[c].clock[c]
NoLoss == UNCHANGED losses
TwoSockets == Len(owner') <= 2
OfflineFirst == NoLoss /\ (owner' # <<>> => \A c \in Client : Written(c)' = EditsOf[c])

\* The first socket, of a, brings what a wrote offline; nothing else happens.
FirstOnly ==
    /\ NoLoss /\ UNCHANGED replica[b]
    /\ owner' \in {<<>>, <<a>>} /\ (owner' # <<>> => UNCHANGED Written(a))
    /\ clientSide'[1] # "closed" /\ connections \subseteq connections'
InSync == Written(a) > 0 /\ doc.clock[a] = Written(a) /\ up[1] = <<>> /\ down[1] = <<>>

Allowed ==
    \/ plan = "two sockets" /\ TwoSockets
    \/ plan = "offline first" /\ OfflineFirst
    \/ plan = "first only" /\ FirstOnly
    \/ plan = "then writing" /\ NoLoss
    \/ plan = "then losses" /\ Written(a) = EditsOf[a]

MCInit == Init /\ plan \in {"two sockets", "offline first", "first only"}
MCNext ==
    /\ Next /\ Allowed
    /\ plan' = IF plan = "first only" /\ InSync'
               THEN IF Written(a)' = EditsOf[a] THEN "then losses" ELSE "then writing"
               ELSE plan
MCSpec == MCInit /\ [][MCNext]_<<vars, plan>> /\ Fairness
=============================================================================
