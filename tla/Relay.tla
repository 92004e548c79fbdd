-------------------------------- MODULE Relay --------------------------------
(***************************************************************************)
(* What the COPY state promises the two ends of a connection: while the    *)
(* connection is up, each end is given a growing prefix of what the other  *)
(* end sent, and after it is down nothing more.  It does not promise that  *)
(* everything sent arrives.                                                *)
(***************************************************************************)
EXTENDS Integers, Sequences

CONSTANTS Side,         \* the two ends
          Other(_),     \* the opposite end
          Payload       \* the whole stream each end would like to send

VARIABLES sent,         \* how much of its payload an end has sent
          delivered,    \* what an end has been given
          up            \* the connection is being relayed

Init ==
    /\ sent \in [Side -> Nat]
    /\ \A s \in Side : sent[s] <= Len(Payload[s])
    /\ delivered = [s \in Side |-> <<>>]
    /\ up = TRUE

Send(s) ==
    /\ sent' \in [Side -> Nat]
    /\ sent'[s] > sent[s] /\ sent'[s] <= Len(Payload[s])
    /\ \A t \in Side \ {s} : sent'[t] = sent[t]
    /\ UNCHANGED <<delivered, up>>

(* The bytes that follow those already delivered, and possibly the last *)
Deliver(s) ==
    /\ up
    /\ \E n \in Len(delivered[s]) + 1 .. sent[Other(s)] :
           delivered' = [delivered EXCEPT ![s] = SubSeq(Payload[Other(s)], 1, n)]
    /\ up' \in BOOLEAN
    /\ sent' = sent

Finish ==
    /\ up
    /\ up' = FALSE
    /\ UNCHANGED <<sent, delivered>>

Next == Finish \/ \E s \in Side : Send(s) \/ Deliver(s)

Spec == Init /\ [][Next]_<<sent, delivered, up>>
=============================================================================
