------------------------------ MODULE ContentReview ----------------------------
(* What a content record is worth as a lead: the rules
   (app/site_intelligence/relevance.py), the question put to the language model
   where the rules are in doubt (OpenAIDecider of company_enrichment_core.py,
   app/llm/openai_responses.py, app/llm/pricing.py) and the lead cards made of
   the answers.  Scores are in thousandths.  The budget of the model is a
   record of the calls made by the run and by this company, how many of the
   company's answers had a known cost and how many had not, and the sum.  That
   of the run is kept by the same rule.                                      *)
EXTENDS Integers, Sequences, SequencesExt, FiniteSets, FiniteSetsExt

CONSTANTS Lead,      \* of a text: the points of its words, whether one is a strong
                     \* signal, the lead family it speaks of or "", its date and title
          SectionOf, \* of a route family: the section its pages are guessed to be
          RunCap, CompanyCap,   \* OPENAI_MAX_CALLS_PER_RUN, .._PER_COMPANY
          LlmEnabled

ASSUME ContentReviewAssumption ==
  /\ RunCap \in Nat /\ CompanyCap \in Nat /\ LlmEnabled \in BOOLEAN
  /\ \A t \in DOMAIN Lead : Lead[t].points \in Int /\ Lead[t].strong \in BOOLEAN

-----------------------------------------------------------------------------
(* The rules. *)

LeadFamilies == {"procurement", "surplus/realization", "direct_sale", "docs/certificates"}
CorporateSections == {"about", "homepage", "news", "contacts"}
OfferSections == {"procurement", "tenders", "documents"}
Relevant == {"maybe_relevant", "likely_relevant"}

SectionGuess(r) == IF r.kind = "document" THEN "documents" ELSE SectionOf[r.family]

\* classify_content_record, the score
RelevanceScore(r) ==
  LET section == SectionGuess(r)
      words == Lead[r.text].points
      raw == words + (IF r.family \in LeadFamilies THEN 100 ELSE 0)
               + (CASE section \in OfferSections -> 150 [] section = "news" -> 50 [] OTHER -> 0)
      score == Max({0, Min({1000, raw})})
  IN  IF section \in CorporateSections /\ ~Lead[r.text].strong THEN Min({250, score}) ELSE score

\* classify_content_record
Classified(r) ==
  LET read == r.status = "success" /\ r.text # ""
      score == IF read THEN RelevanceScore(r) ELSE 0
  IN  [r EXCEPT !.score = score,
                !.label = IF ~read             THEN "irrelevant"
                          ELSE IF score >= 700 THEN "likely_relevant"
                          ELSE IF score >= 350 THEN "maybe_relevant"
                          ELSE "irrelevant"]

\* _infer_lead_family, infer_lead_type_from_record
LeadType(r) ==
  IF r.text # "" /\ Lead[r.text].family # "" THEN Lead[r.text].family
  ELSE IF r.family \in LeadFamilies          THEN r.family
  ELSE IF SectionGuess(r) = "documents"      THEN "document"
  ELSE IF SectionGuess(r) = "news"           THEN "news"
  ELSE "unknown"

\* should_use_llm_record_review
NeedsRecordReview(r) == r.status = "success" /\ r.label = "maybe_relevant" /\ r.text # ""

-----------------------------------------------------------------------------
(* An answer of the model.  It says what came back: no answer at all ("lost"),
   or the parsed object, the refusal, how it was cut short, and the text.    *)

\* _parse_output_text_json
TextReason(text) == CASE text = "json"   -> "parsed_ok"
                      [] text = "array"  -> "json_root_not_object"
                      [] text = "broken" -> "malformed_json"
                      [] OTHER           -> "non_json_text"

\* parse_openai_response
ParseReason(a) ==
  LET parsedFailure == CASE a.parsed = "empty" -> "empty_parsed"
                         [] a.parsed = "wrong" -> "parsed_wrong_type"
                         [] OTHER              -> ""
  IN  IF a.parsed = "object"                   THEN "parsed_ok"
      ELSE IF a.refusal                        THEN "refusal"
      ELSE IF a.cut = "max_output_tokens"      THEN "incomplete_max_output_tokens"
      ELSE IF a.cut = "content_filter"         THEN "incomplete_content_filter"
      ELSE IF a.cut # ""                       THEN "missing_output"
      ELSE IF a.text = ""                      THEN IF parsedFailure # "" THEN parsedFailure
                                                    ELSE "missing_output"
      ELSE IF TextReason(a.text) = "parsed_ok" THEN "parsed_ok"
      ELSE IF parsedFailure # ""               THEN parsedFailure
      ELSE TextReason(a.text)

RetriedReasons == [site_decision |-> {"incomplete_max_output_tokens"},
                   content_review |-> {"incomplete_max_output_tokens", "non_json_text",
                                       "refusal", "malformed_json", "missing_output"}]

-----------------------------------------------------------------------------
(* Budget and cost. *)

Unknown == -1
NewBudget == [made |-> 0, mine |-> 0, known |-> 0, unknown |-> 0, cost |-> 0]

\* _reserve_call_slot: why there is no slot, or ""
Reserve(l) == IF l.made >= RunCap          THEN "run_cap_exhausted"
              ELSE IF l.mine >= CompanyCap THEN "company_cap_exhausted"
              ELSE ""
Take(l) == [l EXCEPT !.made = @ + 1, !.mine = @ + 1]

\* calculate_usage_cost_usd: an answer without token counts, or none, costs an
\* unknown amount
Cost(a) == IF a.lost \/ ~a.counted THEN Unknown ELSE 1

\* _consume_llm_cost: what is unknown once stays so
Plus(sum, c) == IF sum = Unknown \/ c = Unknown THEN Unknown ELSE sum + c
Charge(l, a) == [l EXCEPT !.known = IF Cost(a) = Unknown THEN @ ELSE @ + 1,
                          !.unknown = IF Cost(a) = Unknown THEN @ + 1 ELSE @,
                          !.cost = Plus(@, Cost(a))]

Outcome(l, status, reason, answers, word) ==
  [llm |-> l, status |-> status, reason |-> reason, answers |-> answers, word |-> word]

\* an answer that ends the question
Final(l, a, n) ==
  IF a.lost THEN Outcome(l, "failed", "request_exception", n, <<>>)
  ELSE IF ParseReason(a) = "parsed_ok" THEN Outcome(l, "completed", "", n, <<a.word>>)
  ELSE Outcome(l, "failed", ParseReason(a), n, <<>>)

Retried(question, a) == ~a.lost /\ ParseReason(a) \in RetriedReasons[question]

\* Mutant of Ask: the second attempt runs on the slot of the first
AskAgainForFree(l, question, first, second) ==
  LET once == Charge(Take(l), first)
  IN  IF Reserve(l) # "" THEN Outcome(l, "skipped", Reserve(l), 0, <<>>)
      ELSE IF Retried(question, first) THEN Final(Charge(once, second), second, 2)
      ELSE Final(once, first, 1)

\* decide, judge_content_record from the budget on: one more attempt, for a
\* slot of its own, after an answer that a retry may mend
Ask(l, question, first, second) ==
  LET once == Charge(Take(l), first)
  IN  IF ~LlmEnabled                    THEN Outcome(l, "skipped", "llm_disabled", 0, <<>>)
      ELSE IF Reserve(l) # ""           THEN Outcome(l, "skipped", Reserve(l), 0, <<>>)
      ELSE IF ~Retried(question, first) THEN Final(once, first, 1)
      ELSE IF Reserve(once) # ""        THEN Outcome(once, "skipped", Reserve(once), 1, <<>>)
      ELSE Final(Charge(Take(once), second), second, 2)

\* judge_content_record: only the records of a trusted site are sent
JudgeRecord(l, r, first, second) ==
  IF LlmEnabled /\ r.trust # "trusted"
  THEN Outcome(l, "skipped", "site_not_trusted", 0, <<>>)
  ELSE Ask(l, "content_review", first, second)

\* what the pipeline makes of the answer; 600 is the least confidence heard
Relabelled(r, word) ==
  IF word.confidence < 600 THEN r
  ELSE [r EXCEPT !.label = word.label, !.score = Max({@, word.confidence})]

-----------------------------------------------------------------------------
(* Lead cards. *)

Headline(r) == IF r.text = "" THEN <<"", r.url>> ELSE <<Lead[r.text].date, Lead[r.text].title>>
CardKey(r) == <<LeadType(r), Headline(r)>>
MayLead(r) == /\ r.label \in Relevant
              /\ SectionGuess(r) \in CorporateSections => r.label = "likely_relevant"

\* build_lead_cards: from the first record of each key that may lead; the card
\* names the company's primary domain, whatever site the record is of
LeadCards(recs, primary) ==
  LET leads == {i \in DOMAIN recs : MayLead(recs[i])}
      first == {i \in leads : \A j \in leads : CardKey(recs[j]) = CardKey(recs[i]) => i <= j}
      Card(r) == [key |-> CardKey(r), site |-> primary, source |-> r.url,
                  confidence |-> r.score]
  IN  FlattenSeq([i \in DOMAIN recs |-> IF i \in first THEN <<Card(recs[i])>> ELSE <<>>])

\* build_site_refresh_plans: of the candidates that were probed under that name
Cadence(plan) ==
  CASE plan.class \in {"A", "B", "C"} /\ plan.worth = "true" -> "daily"
    [] plan.class \in {"D", "E"} \/ plan.worth = "limited"    -> "weekly"
    [] OTHER                                                  -> "monthly"
================================================================================
