---------------------------- MODULE PacketStream ----------------------------
(***************************************************************************)
(* What the server promises the client about the packets it sends, until   *)
(* the output of the socket overflows: the bytes arrive in the order in    *)
(* which the packets were sent, none missing, none twice, and the headers  *)
(* were encrypted in that order, so that the cipher of the client keeps up. *)
(* As long as the connection is open, everything sent arrives.             *)
(***************************************************************************)
EXTENDS Naturals, Sequences

CONSTANT Sizes      \* the sizes a packet can have, header included

VARIABLES
    sent,       \* the bytes of the packets sent, <<number of the packet, index>>
    count,      \* how many packets these are
    received,   \* the bytes the client has read
    open,
    overflowed  \* nothing is promised any more

streamVars == <<sent, count, received, open, overflowed>>

PacketBytes(n, size) == [i \in 1..size |-> <<n, i>>]

Init ==
    /\ sent = << >>
    /\ count = 0
    /\ received = << >>
    /\ open = TRUE
    /\ overflowed = FALSE

Send ==
    /\ open
    /\ count' = count + 1
    /\ \E size \in Sizes : sent' = sent \o PacketBytes(count', size)
    /\ UNCHANGED <<received, open, overflowed>>

Receive ==
    /\ Len(received) < Len(sent)
    /\ received' = Append(received, sent[Len(received) + 1])
    /\ UNCHANGED <<sent, count, open, overflowed>>

\* What the client has not read by then may be lost.
Close ==
    /\ open
    /\ open' = FALSE
    /\ UNCHANGED <<sent, count, received, overflowed>>

\* After an overflow sent, count and received mean nothing.
Overflow == overflowed' = TRUE

Next ==
    \/ Overflow
    \/ ~overflowed /\ (Send \/ Receive \/ Close)

Fairness == WF_streamVars(open /\ ~overflowed /\ Receive)

Spec == Init /\ [][Next]_streamVars /\ Fairness
=============================================================================
