---------------------------- MODULE AsduTransfer ----------------------------
(***************************************************************************)
(* What the IEC 104 link promises the two stations of a session: a pipe of *)
(* ASDUs in each direction that loses, doubles and reorders nothing, and   *)
(* that never holds more than Limit ASDUs on their way.  A session may end *)
(* at any moment, and the next one starts from nothing.                    *)
(***************************************************************************)
EXTENDS Integers, Sequences

CONSTANTS
    End,        \* the two ends of the link
    Other,      \* Other[e]: the opposite end
    Message,    \* what may be sent
    Limit       \* most messages an end may have on their way

VARIABLES
    sent,       \* sent[e]: messages transmitted by e in this session
    delivered   \* delivered[e]: messages handed to the user of e

Nothing == [e \in End |-> <<>>]

TransferInit == sent = Nothing /\ delivered = Nothing

\* e transmits some messages at once, as long as no more than Limit travel.
Transmit(e) ==
    /\ sent' \in [End -> Seq(Message)]
    /\ Len(sent[e]) <= Len(sent'[e])
    /\ SubSeq(sent'[e], 1, Len(sent[e])) = sent[e]
    /\ Len(sent'[e]) <= Len(delivered[Other[e]]) + Limit
    /\ \A d \in End \ {e} : sent'[d] = sent[d]
    /\ delivered' = delivered

\* The user of e is given the oldest message it has not been given.
Deliver(e) ==
    /\ Len(delivered[e]) < Len(sent[Other[e]])
    /\ delivered' = [delivered EXCEPT ![e] = Append(@, sent[Other[e]][Len(@) + 1])]
    /\ sent' = sent

NewSession == sent' = Nothing /\ delivered' = Nothing

TransferNext == NewSession \/ \E e \in End : Transmit(e) \/ Deliver(e)

TransferSpec == TransferInit /\ [][TransferNext]_<<sent, delivered>>
=============================================================================
