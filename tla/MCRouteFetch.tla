----------------------------- MODULE MCRouteFetch -----------------------------
(* Two proxies or none; the main thread and a worker at the same host, which may
   answer well, with thin content, with a 403 or not at all.  Whole seconds, and
   the shortest cooldowns that differ.                                      *)
EXTENDS RouteFetch

MCCooldowns == [RATE_LIMIT |-> 1, CHALLENGE_LOOP |-> 2, HARD_BAN |-> 2, SHADOW_THROTTLE |-> 1,
                gate |-> 1]
MCHostsOf == [f \in Fetchers |-> {"www"}]
MCRoutes == {<<"hybrid", "browser_allowed">>}
MCDefault == [RATE_LIMIT |-> 1, block |-> 1]
MCSymmetry == Permutations(Labels)
Page(code, marks, usable) == [code |-> code, marks |-> marks, usable |-> usable]
MCPages == {Page("200", {}, TRUE), Page("200", {"thin"}, FALSE), Page("403", {}, FALSE),
            Page("error", {}, FALSE)}
=============================================================================
