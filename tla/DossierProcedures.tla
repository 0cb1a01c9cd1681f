-------------------------- MODULE DossierProcedures --------------------------
(***************************************************************************)
(* What a dossier is made of, and how its procedure records keep pointing  *)
(* at its material (app/dossier/assembly.py, procedures.py): the records   *)
(* are built from lead cards by url, and bound again to the material each  *)
(* time the dossier is written or read, because the paths and the files    *)
(* they name have changed in between.                                      *)
(*                                                                         *)
(* An item is a page or a document; its evidence reference carries the     *)
(* same identity, so one record stands for both.  A record is known by its *)
(* references: the fields that are merged without a choice (type, status,  *)
(* title, metadata) are left out.                                          *)
(***************************************************************************)
EXTENDS Naturals, FiniteSetsExt, SequencesExt

CONSTANT None  \* an empty string

\* type "page" or "document", url, name (the file name of the document), sum
\* (its checksum), fp (content_fingerprint), local (the downloaded copy is
\* still there), file (dossier_file: its place in the revision, None before).
Item(type, url, name, sum, fp, local) ==
  [type |-> type, url |-> url, name |-> name, sum |-> sum, fp |-> fp,
   local |-> local, file |-> None]

\* _document_record_locator, _evidence_reference_locator: the first it has.
Locator(i) ==
  IF i.sum # None THEN i.sum ELSE IF i.fp # None THEN i.fp
  ELSE IF i.file # None THEN i.file ELSE i.url

\* _document_record_locators, _evidence_reference_locators
Locators(i) == {Locator(i), i.fp, i.file} \ {None}

\* _document_record_to_ref, _evidence_reference_to_ref
Ref(i) == [type |-> i.type, url |-> i.url, file |-> i.file,
           locator |-> Locator(i), sum |-> i.sum]

\* _content_record_key
Key(i) == <<i.type, i.fp, i.url, i.name>>

\* build_company_dossier, _merge_unique_items: of the pages and of the documents
\* the first of each content stays, at its place among the material.
Assemble(items) ==
  Restrict(items, {n \in DOMAIN items : \A m \in 1..(n - 1) : Key(items[m]) # Key(items[n])})

\* _has_meaningful_value, _procedure_has_dossier_refs: a record that refers to
\* nothing in the dossier is dropped; _merge_procedure_record: records with the
\* same references are one.
Referring(records) == {r \in records : r.evidence # {} \/ r.documents # {}}

\* _resolve_evidence_refs, _resolve_document_refs: what the cited items are.
RecordOf(cited) ==
  [evidence |-> {Ref(i) : i \in cited},
   documents |-> {Ref(i) : i \in {j \in cited : j.type = "document"}}]

Citing(urls, prints, items) ==
  RecordOf({i \in ToSet(items) : i.url \in urls \/ Locators(i) \cap prints # {}})

\* _procedure_from_lead_card: a card cites the urls it was read from.
FromCards(lead, items) == {Citing(urls, {}, items) : urls \in lead.cards}

\* _procedure_from_lead_evidence: an item of evidence cites a url, a fingerprint
\* or both.
FromEvidence(lead, items) ==
  {Citing({e.url} \ {None}, {e.fp} \ {None}, items) : e \in lead.evidence}

\* _procedure_from_lead_assembly_summary: the fingerprints of what is relevant.
FromSummary(lead, items) == {Citing({}, lead.prints, items)}

\* build_procedure_records: the summary stands in when nothing else led to a
\* record.
BuildRecords(lead, items) ==
  LET records == Referring(FromCards(lead, items) \cup FromEvidence(lead, items))
  IN  IF records # {} \/ lead.prints = {} THEN records
      ELSE Referring(FromSummary(lead, items))

\* _resolve_unique_tier_match: the first tier with a match decides, and it
\* decides for nothing when it has several.
UniqueTier(tiers) ==
  {ref \in UNION Range(tiers) : \E n \in DOMAIN tiers :
     tiers[n] = {ref} /\ \A m \in 1..(n - 1) : tiers[m] = {}}

\* _match_evidence_references, _match_document_records: by file, by locator
\* unless it only repeats a weaker name, by checksum, by url.
Matches(ref, pool) ==
  LET weak == ref.locator \in {ref.sum, ref.url, ref.file}
  IN  UniqueTier(<<{Ref(j) : j \in {i \in pool : ref.file # None /\ i.file = ref.file}},
                   {Ref(j) : j \in {i \in pool : ~weak /\ ref.locator \in Locators(i)}},
                   {Ref(j) : j \in {i \in pool : ref.sum # None /\ i.sum = ref.sum}},
                   {Ref(j) : j \in {i \in pool : ref.url # None /\ i.url = ref.url}}>>)

\* rebind_procedure_records
Rebind(records, items) ==
  LET pool == ToSet(items)
      documents == {i \in pool : i.type = "document"}
  IN  Referring({[evidence |-> UNION {Matches(ref, pool) : ref \in r.evidence},
                  documents |-> UNION {Matches(ref, documents) : ref \in r.documents}]
                 : r \in records})
================================================================================
