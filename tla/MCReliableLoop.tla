--------------------------- MODULE MCReliableLoop ---------------------------
(* Small instances of ReliableLoop for TLC. *)
EXTENDS ReliableLoop, TLC

CONSTANTS m1, m2, bad, w1, w2

\* bad arrives as a message whose producer never set the attempt counter; m2,
\* where it is used, arrives with more attempts than the policy allows.
MCHeaderAttempt ==
    [m \in Msgs |-> IF m = bad THEN 0 ELSE IF m = m2 THEN MaxAttempts + 1 ELSE 1]
=============================================================================
