------------------------------- MODULE Tunnel -------------------------------
(***************************************************************************)
(* What a circuit promises to the two people at its ends, with the relays, *)
(* the layers and the handshakes forgotten: the destination gets a client's *)
(* messages in the order they were typed, none twice and none invented, and *)
(* the client is shown answers to messages that were delivered, in order.   *)
(* A circuit may stop at any point: nothing here must happen.               *)
(* Module Circuit is shown to implement this specification.                 *)
(***************************************************************************)
EXTENDS Naturals, Sequences

CONSTANT Clients

VARIABLES
    sent,       \* sent[c]      : how many messages client c was asked to send
    delivered,  \* delivered[c] : the messages of c its destination received
    shown       \* shown[c]     : the answers shown to the user of client c

vars == <<sent, delivered, shown>>

Init == /\ sent = [c \in Clients |-> 0]
        /\ delivered = [c \in Clients |-> << >>]
        /\ shown = [c \in Clients |-> << >>]

\* The user types message number sent[c] + 1.
Send(c) == /\ sent' = [sent EXCEPT ![c] = @ + 1]
           /\ UNCHANGED <<delivered, shown>>

\* The destination receives the oldest message it has not received yet.
Deliver(c) == /\ Len(delivered[c]) < sent[c]
              /\ delivered' = [delivered EXCEPT ![c] = Append(@, Len(@) + 1)]
              /\ UNCHANGED <<sent, shown>>

\* The number of the last message of c whose answer was shown.
LastShown(c) == IF shown[c] = << >> THEN 0 ELSE shown[c][Len(shown[c])].n

\* The user is shown the answer to a later message of his own; answers in
\* between may have been lost.
Show(c) == /\ \E n \in (LastShown(c) + 1) .. Len(delivered[c]) :
                 shown' = [shown EXCEPT ![c] = Append(@, [from |-> c, n |-> n])]
           /\ UNCHANGED <<sent, delivered>>

Next == \E c \in Clients : Send(c) \/ Deliver(c) \/ Show(c)

Spec == Init /\ [][Next]_vars
=============================================================================
