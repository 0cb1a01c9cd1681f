---------------------------- MODULE SourceStatus ----------------------------
(* What the outcome of a source's search means (src/company_enrichment_core.py,
   src/app/runtime/required_source_deferred.py, src/app/runtime/concurrency.py):
   whether it stops the run, whether it may be deferred, what the result says
   of a contact field.

   A failed request is the status the shared client gives it and, for
   request_error, what its message says.                                    *)
EXTENDS Naturals

Policy(s) ==
  CASE s \in {"spark", "zachestnyibiznes"} -> "direct-default"
    [] s = "rusprofile"                    -> "session-bound"
    [] s = "list_org"                      -> "offline-only"
    [] s \in {"checko", "bicotender"}      -> "proxy-bound"

Required == {"list_org", "rusprofile", "spark", "zachestnyibiznes", "checko"}

Operational == {"success", "ok", "not_found", "mismatch"}
BlockedStatuses == {"auth_failed", "blocked", "blocked_no_proxy", "bot_gate",
                    "cooldown_active", "rate_limited", "source_disabled_after_block"}
HttpErrors == {"http_403", "http_404", "http_503"}

\* source_result_requires_run_fail_fast.
FailFast(s, status) ==
  /\ s \in Required
  /\ status \notin Operational
  /\ \/ status = "guest" /\ Policy(s) \in {"session-bound", "proxy-bound"}
     \/ status \in BlockedStatuses \cup HttpErrors
                   \cup {"request_error", "invalid_url", "not_configured"}

-----------------------------------------------------------------------------
(* Deferral of a required source. *)

ConnectTimeout == "connect_timeout"
Timeouts == {ConnectTimeout, "read_timeout"}
TransientDetails == Timeouts \cup {"reset", "tls_eof", "dns"}

SystemicStop == BlockedStatuses \cup {"invalid_url", "not_configured"}

\* _status_is_source_wide_stop.
SourceWide(s, status) ==
  \/ status \in SystemicStop
  \/ s = "checko" /\ Policy(s) # "proxy-bound"
  \/ status = "guest" /\ Policy(s) \in {"session-bound", "proxy-bound"}

\* _is_approved_blocked_transient and _is_deferable_transient.
ApprovedBlocked(s, status, detail) ==
  /\ s = "zachestnyibiznes" /\ status = "blocked" /\ detail = ConnectTimeout

Transient(s, status, detail) ==
  \/ status = "request_error" /\ detail \in TransientDetails
  \/ status = "http_503"
  \/ s = "zachestnyibiznes" /\ status = "http_403" /\ detail \in TransientDetails

\* classify_required_source_outcome without its cap.
Deferable(s, status, detail) ==
  \/ ApprovedBlocked(s, status, detail)
  \/ ~SourceWide(s, status) /\ Transient(s, status, detail)

\* deferred_required_source_cap.
CapFor(rows) == LET percent == (rows * 2 + 99) \div 100 IN IF percent > 2 THEN percent ELSE 2

-----------------------------------------------------------------------------
(* What a result says of its phones: the field is one of the contact fields. *)

\* finalize_source_availability.  items: what the page had, explicit: what the
\* source has said of the field.
Finalized(status, items, explicit) ==
  IF status \in BlockedStatuses                THEN "blocked"
  ELSE IF status \in {"mismatch", "not_found"} THEN "absent"
  ELSE IF explicit = "blocked"                 THEN "blocked"
  ELSE IF items = "open"                       THEN "open"
  ELSE IF "masked" \in {items, explicit}       THEN "masked"
  ELSE "absent"

-----------------------------------------------------------------------------
(* How often a source repeats a request: rusprofile and zachestnyibiznes once,
   checko twice in all through its proxy, spark up to three times.          *)

Failure(status, detail) == [status |-> status, detail |-> detail]
Failures == {Failure("request_error", d) : d \in TransientDetails \cup {"other"}}
            \cup {Failure(x, "none") : x \in HttpErrors \cup
                     {"bot_gate", "rate_limited", "cooldown_active", "blocked_no_proxy"}}

Attempts(s, f) ==
  CASE s = "rusprofile" /\ (f.detail \in TransientDetails \/ f.status = "http_503")        -> 2
    [] s = "zachestnyibiznes" /\ (f.detail \in Timeouts \cup {"reset"} \/ f.status = "http_403") -> 2
    [] s = "checko" /\ f.detail \in Timeouts \cup {"reset"}                                -> 2
    [] s = "spark" /\ f.detail = "read_timeout"                                            -> 3
    [] s = "spark" /\ f.detail \in {"tls_eof", "reset"}                                    -> 2
    [] OTHER                                                                               -> 1

=============================================================================
