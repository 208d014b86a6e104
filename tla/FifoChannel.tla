----------------------------- MODULE FifoChannel -----------------------------
(***************************************************************************)
(* What the encrypted channel of CMSTCPConnection promises the layer above *)
(* it: packet bodies come out unchanged, each at most once, in the order   *)
(* they were composed; and while the channel stays up all of them come     *)
(* out.                                                                    *)
(***************************************************************************)
EXTENDS Naturals, Sequences

CONSTANT Bodies         \* the packet bodies that may be composed

VARIABLES sent,         \* bodies handed to the channel
          delivered,    \* bodies the other end has queued for its session
          up            \* FALSE once either end or the network has failed

vars == <<sent, delivered, up>>

Init == sent = << >> /\ delivered = << >> /\ up = TRUE

Send == /\ \E b \in Bodies : sent' = Append(sent, b)
        /\ UNCHANGED <<delivered, up>>

Deliver == /\ Len(delivered) < Len(sent)
           /\ delivered' = Append(delivered, sent[Len(delivered) + 1])
           /\ UNCHANGED <<sent, up>>

Fail == up' = FALSE /\ UNCHANGED <<sent, delivered>>

Next == Send \/ Deliver \/ Fail

\* What the channel never does.
Safety == Init /\ [][Next]_vars

\* Delivery is owed only by a channel that is still up.
Fairness == WF_vars(up /\ Deliver)

Spec == Safety /\ Fairness
=============================================================================
