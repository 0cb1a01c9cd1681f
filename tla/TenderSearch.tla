---------------------------- MODULE TenderSearch ----------------------------
(* The public tender list of bicotender (src/app/sources/bicotender.py): a
   query by INN, then one query per keyword batch unless the first says there is
   nothing, each read for what the list page shows and whether it may be
   believed.

   A page is what its evidence says: the transport's error, whether the query is
   echoed, rows, the total it prints, the markers on it and a redirect to the
   registration.  Titles, dates and prices of the rows are left out.        *)
EXTENDS Naturals

NoTotal == "none"

Pages == [transport : {"ok", "bot_gate", "http_403", "http_503", "request_error"},
          applied : BOOLEAN, rows : BOOLEAN, total : {NoTotal, "zero", "some"},
          marker : {"none", "captcha", "login", "hard"}, registration : BOOLEAN]

\* A page without content where none came back.
Plausible(p) ==
  /\ p.transport \in {"http_403", "http_503", "request_error"} =>
       ~p.applied /\ ~p.rows /\ p.total = NoTotal /\ p.marker = "none" /\ ~p.registration
  /\ p.rows => p.total # "zero"
  /\ p.registration => p.marker # "hard" /\ ~p.rows /\ p.total = NoTotal
  /\ p.transport = "bot_gate" => p.marker # "none"

\* _evidence_count.
CountIsZero(p) == p.total = "zero" \/ (p.total = NoTotal /\ ~p.rows)

\* assess_bicotender_public_access.
Access(p) ==
  IF p.transport = "http_403" \/ p.registration            THEN "blocked"
  ELSE IF p.applied /\ p.rows                              THEN "usable"
  ELSE IF p.applied /\ CountIsZero(p) /\ p.marker # "hard" THEN "usable"
  ELSE IF p.marker = "hard"                                THEN "blocked"
  ELSE IF p.marker # "none"                                THEN "ambiguous"
  ELSE "review"

\* _static_marker_bot_gate_has_usable_public_list.
GateIsStatic(p) == p.transport = "bot_gate" /\ Access(p) = "usable" /\ p.marker \in {"captcha", "login"}

\* The errors an evidence ends up with: of the transport, of the access, of the
\* status itself.
HasError(p) ==
  \/ p.transport # "ok" /\ ~GateIsStatic(p)
  \/ Access(p) \in {"blocked", "ambiguous"}

\* classify_bicotender_signal.
Class(p) ==
  IF HasError(p)                        THEN "source_error"
  ELSE IF ~p.applied                    THEN "review"
  ELSE IF p.marker = "login" /\ ~p.rows THEN "blocked_public_limit"
  ELSE IF CountIsZero(p)                THEN "no_signal"
  ELSE "visible_items"

\* build_bicotender_query_plan: the batches are left out when the list is empty.
BatchesSkipped(p) == p.applied /\ ~HasError(p) /\ ~p.rows

NewSearch == [batch |-> 0, errors |-> FALSE, rows |-> FALSE, classes |-> {}]
AfterPage(t, p) ==
  [batch |-> t.batch + 1, errors |-> t.errors \/ HasError(p), rows |-> t.rows \/ p.rows,
   classes |-> IF t.batch = 0 THEN {} ELSE t.classes \cup {Class(p)}]

Issues == {"source_error", "blocked_public_limit"}

\* Nothing follows a failed first query or an empty list.
EndsAfter(t, p, batches) ==
  IF t.batch = 0 THEN Class(p) = "source_error" \/ BatchesSkipped(p) ELSE t.batch = batches

\* _combine_batch_classifications and _bicotender_source_result_status, t after
\* the last page.
SearchStatus(t) ==
  IF t.batch = 1 THEN IF t.errors THEN "source_issue" ELSE "success"
  ELSE IF t.classes \cap Issues = {} THEN "success"
  ELSE IF t.rows THEN "partial_success" ELSE "source_issue"

=============================================================================
