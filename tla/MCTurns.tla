------------------------------ MODULE MCTurns ------------------------------
(* Three requests at a time: three from one visitor of the web site, or a   *)
(* WhatsApp message that Twilio delivers twice beside another message of    *)
(* the same sender.  A budget of one token, turns that cost at most one.    *)
EXTENDS Turns, TLC

CONSTANTS q1, q2, q3, visitor, sender, m1, m2

MCRequests == {q1, q2, q3}
MCSessions == {visitor, sender}
MCSids == {m1, m2}
WebTraffic == [r \in MCRequests |-> [sid |-> Web, session |-> visitor]]
PhoneTraffic ==
    [r \in MCRequests |-> [sid |-> IF r = q3 THEN m2 ELSE m1, session |-> sender]]
MCTraffic == {WebTraffic, PhoneTraffic}

\* q1 and q2 carry the same in either case.
Symmetry == Permutations({q1, q2})
=============================================================================
