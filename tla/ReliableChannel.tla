-------------------------- MODULE ReliableChannel --------------------------
(***************************************************************************)
(* What a pair of PersistentProtocol objects promises to the code above it *)
(* (IMessagePassingProtocol): whatever happens to the sockets underneath,  *)
(* every message handed to send() at one end comes out of onMessage at the *)
(* other end once, in order, and no other message does.                    *)
(***************************************************************************)
EXTENDS Naturals, Sequences

CONSTANTS
    Data,       \* the message payloads
    MaxSends    \* bound: messages sent by each end

VARIABLES
    sent,       \* sent[e]: what was handed to send() at end e, oldest first
    delivered   \* delivered[e]: what onMessage fired at end e, oldest first

vars == <<sent, delivered>>

Ends == {"client", "server"}

Peer(e) == IF e = "client" THEN "server" ELSE "client"

Init ==
    /\ sent = [e \in Ends |-> <<>>]
    /\ delivered = [e \in Ends |-> <<>>]

Send(e, d) ==
    /\ Len(sent[e]) < MaxSends
    /\ sent' = [sent EXCEPT ![e] = Append(@, d)]
    /\ UNCHANGED delivered

\* End e is handed the oldest message of its peer it has not seen yet.
Deliver(e) ==
    /\ Len(delivered[e]) < Len(sent[Peer(e)])
    /\ delivered' = [delivered EXCEPT ![e] = Append(@, sent[Peer(e)][Len(@) + 1])]
    /\ UNCHANGED sent

Next == \E e \in Ends : Deliver(e) \/ \E d \in Data : Send(e, d)

Spec == Init /\ [][Next]_vars

=============================================================================
