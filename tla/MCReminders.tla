---------------------------- MODULE MCReminders ----------------------------
(* Two appointments with one reminder rule each, of which one has a contact *)
(* that can be reached by email, and two workers that sweep.                *)
EXTENDS Reminders

CONSTANTS a1, a2, k1, s1, s2

MCAppts == {a1, a2}
MCReachable == {a1}
MCRules == {k1}
MCSweepers == {s1, s2}
=============================================================================
