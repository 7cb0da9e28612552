-------------------------------- MODULE Delivery --------------------------------
(***************************************************************************)
(* What one connection of the server promises about the messages its       *)
(* client writes, without bytes, chunks or buffers.                        *)
(*                                                                         *)
(*   open      the messages are dispatched, one after the other            *)
(*   refused   the next message is invalid, and was answered by an error   *)
(*   lost      part of the stream was dropped: what is dispatched from now *)
(*             on may be any message, or none that was sent                *)
(***************************************************************************)
EXTENDS Naturals, Sequences

VARIABLES
    sent,        \* the messages written: is each one valid?
    delivered,   \* the messages dispatched, by number; 0 for none that was sent
    refused,     \* error replies
    state        \* "open", "refused" or "lost"

vars == <<sent, delivered, refused, state>>

Init == sent = << >> /\ delivered = << >> /\ refused = 0 /\ state = "open"

Send(valid) ==
    /\ sent' = Append(sent, valid)
    /\ UNCHANGED <<delivered, refused, state>>

\* The only message that may come next is the one behind those delivered.
Due == Len(delivered) + 1

Deliver ==
    /\ state = "open" /\ Due <= Len(sent) /\ sent[Due]
    /\ delivered' = Append(delivered, Due)
    /\ UNCHANGED <<sent, refused, state>>

Refuse ==
    /\ state = "open" /\ Due <= Len(sent) /\ ~sent[Due]
    /\ refused' = refused + 1 /\ state' = "refused"
    /\ UNCHANGED <<sent, delivered>>

Lose ==
    /\ state' = "lost"
    /\ UNCHANGED <<sent, delivered, refused>>

DeliverAny ==
    /\ state = "lost"
    /\ \E m \in 0..Len(sent) : delivered' = Append(delivered, m)
    /\ UNCHANGED <<sent, refused, state>>

Next ==
    \/ \E valid \in BOOLEAN : Send(valid)
    \/ Deliver \/ Refuse \/ Lose \/ DeliverAny

Spec == Init /\ [][Next]_vars
===============================================================================
