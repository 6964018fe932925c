------------------------------ MODULE Delivery ------------------------------
(***************************************************************************)
(* What the reliable agent loop promises for an inbound message, without   *)
(* workers, retries, circuit breaker or idempotency store: a message is    *)
(* acknowledged to the broker only once it has an outcome, and the only    *)
(* outcome that leaves no trace (no response, no dead letter) is kept for  *)
(* messages that fail validation.                                          *)
(***************************************************************************)
CONSTANTS
    Msgs,      \* inbound messages
    Invalid    \* messages whose content validation rejects

VARIABLES
    published, \* messages answered on the outbound topic
    dead,      \* messages published on the dead-letter topic
    aborted,   \* messages dropped as RetryExhausted without a dead letter
    acked      \* messages acknowledged to the inbound transport

vars == <<published, dead, aborted, acked>>

Init ==
    /\ published = {}
    /\ dead = {}
    /\ aborted = {}
    /\ acked = {}

Respond(m) ==
    /\ published' = published \cup {m}
    /\ UNCHANGED <<dead, aborted, acked>>

DeadLetter(m) ==
    /\ dead' = dead \cup {m}
    /\ UNCHANGED <<published, aborted, acked>>

Abort(m) ==
    /\ m \in Invalid
    /\ aborted' = aborted \cup {m}
    /\ acked' = acked \cup {m}
    /\ UNCHANGED <<published, dead>>

Ack(m) ==
    /\ m \in published \cup dead
    /\ acked' = acked \cup {m}
    /\ UNCHANGED <<published, dead, aborted>>

Next == \E m \in Msgs : Respond(m) \/ DeadLetter(m) \/ Abort(m) \/ Ack(m)

Spec == Init /\ [][Next]_vars
=============================================================================
