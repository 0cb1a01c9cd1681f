---------------------------- MODULE MCHostGovernor ----------------------------
(***************************************************************************)
(* Instances of HostGovernor for TLC.                                      *)
(***************************************************************************)
EXTENDS HostGovernor

MCHosts == {"a", "b"}

\* Three tasks in a ring of overlapping needs.
MCHostsOf == [t \in Tasks |-> CASE t = 1 -> {"a"} [] t = 2 -> {"a", "b"} [] OTHER -> {"b"}]

\* Host a was answered 429 with a cooldown of a second and a half.
MCEarlier ==
  [h \in Hosts |-> IF h = "a" THEN <<[contour |-> Direct, verdict |-> "hard", until |-> 3]>>
                   ELSE <<>>]
=============================================================================
