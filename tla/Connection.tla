----------------------------- MODULE Connection -----------------------------
(***************************************************************************)
(* What a TcpConnection promises its user: it comes up once and goes down at *)
(* most once, what it accepted reaches the wire in order, and the end of the *)
(* stream is sent only behind the last byte accepted.                        *)
(***************************************************************************)
EXTENDS Naturals, Sequences

VARIABLES
    life,            \* "new", "up", "closing" for writes, "down"
    notified,        \* how many times the user was told: up, and down
    sent,            \* the bytes accepted from the user
    delivered,       \* those given to the network
    finished         \* the end of the stream was given to the network

vars == <<life, notified, sent, delivered, finished>>

Init ==
    /\ life = "new"
    /\ notified = [up |-> 0, down |-> 0]
    /\ sent = <<>>
    /\ delivered = <<>>
    /\ finished = FALSE

ComeUp ==
    /\ life = "new"
    /\ life' = "up"
    /\ notified' = [notified EXCEPT !.up = @ + 1]
    /\ UNCHANGED <<sent, delivered, finished>>

\* The network takes more of what was accepted, from where it stopped.
Progress ==
    \E n \in Len(delivered) .. Len(sent') : delivered' = SubSeq(sent', 1, n)

Send ==
    /\ life = "up"
    /\ Len(sent') > Len(sent)
    /\ SubSeq(sent', 1, Len(sent)) = sent
    /\ Progress
    /\ UNCHANGED <<life, notified, finished>>

Flush ==
    /\ life \in {"up", "closing"}
    /\ UNCHANGED sent
    /\ Progress
    /\ UNCHANGED <<life, notified, finished>>

StopSending ==
    /\ life = "up"
    /\ life' = "closing"
    /\ finished' \in {FALSE, delivered = sent}
    /\ UNCHANGED <<notified, sent, delivered>>

Finish ==
    /\ life = "closing"
    /\ delivered = sent
    /\ finished' = TRUE
    /\ UNCHANGED <<life, notified, sent, delivered>>

GoDown ==
    /\ life \in {"up", "closing"}
    /\ life' = "down"
    /\ notified' = [notified EXCEPT !.down = @ + 1]
    /\ UNCHANGED <<sent, delivered, finished>>

Next == ComeUp \/ Send \/ Flush \/ StopSending \/ Finish \/ GoDown

Spec == Init /\ [][Next]_vars

=============================================================================
