-------------------------- MODULE MCRequiredSources --------------------------
(* Three deployments of two sources each, so that every source is searched and
   each pair has one that may be deferred.                                   *)
EXTENDS RequiredSources

MCOrders == {<<"rusprofile", "list_org">>, <<"zachestnyibiznes", "bicotender">>,
             <<"spark", "checko">>}

\* Failures that are transient for all, for one source, for none of them.
MCFailures == {Failure("request_error", "connect_timeout"), Failure("request_error", "read_timeout"),
               Failure("http_503", "none"), Failure("bot_gate", "none")}

\* An empty list, rows behind a static marker, a refusal.
MCTenderPages == {p \in Pages : Plausible(p) /\ p.transport \in {"ok", "bot_gate", "http_403"}
                                /\ p.total # "some" /\ ~p.registration /\ p.marker # "captcha"}

=============================================================================
