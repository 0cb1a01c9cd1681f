------------------------------ MODULE SiteDocuments ----------------------------
(* The document queue of one crawl of a company's sites
   (app/site_intelligence/attachments.py) and the unpacking of what it
   downloads (app/documents/attachments.py).  The queue is shared by all sites
   of the crawl: it is a record of the urls and checksums seen, the slots and
   bytes used and the slots used by each type.                               *)
EXTENDS Integers, Sequences, SequencesExt, FiniteSets, FiniteSetsExt

CONSTANTS File,           \* of a document url: the file it names
          Content,        \* of a file: checksum, size, format, members, readable
          Type,           \* of a document url: _document_type_key
          MaxLinksPerPage, MaxQueueItems, MaxItemBytes, MaxTotalBytes, MaxPerType,
          MaxArchiveDepth

Files == DOMAIN Content
DirectFormats == {"pdf"}
ArchiveFormats == {"zip"}
FailureStatuses == {"archive_depth_exceeded", "archive_extract_failed",
                    "archive_member_blocked", "archive_member_depth_exceeded",
                    "archive_member_extract_failed", "archive_member_unsupported",
                    "extract_failed", "request_error", "unsupported_format"}
SuccessStatuses == {"archive_empty", "archive_extracted", "archive_member_extracted", "extracted"}

ASSUME SiteDocumentsAssumption ==
  /\ MaxQueueItems \in Nat \ {0} /\ MaxLinksPerPage \in Nat \ {0}
  /\ MaxArchiveDepth \in Nat \ {0} /\ MaxTotalBytes \in Nat
  /\ \A u \in DOMAIN File : File[u] \in Files
  /\ \A f \in Files : /\ Content[f].members \in Seq(Files \cup {"unsafe"})
                       /\ Content[f].size \in Nat

NewQueue == [urls |-> {}, sums |-> {}, items |-> 0, bytes |-> 0, types |-> <<>>]
TypeCount(q, t) == Len(SelectSeq(q.types, LAMBDA x : x = t))

\* a ledger entry: what became of one file
Entry(url, f, depth, status) ==
  [url |-> url, sum |-> IF f = "" THEN "" ELSE Content[f].sum,
   size |-> IF f = "" THEN 0 ELSE Content[f].size,
   depth |-> depth, status |-> status, queue |-> "queued"]

-----------------------------------------------------------------------------
(* Unpacking.  An archive may hold archives, even a copy of itself. *)

\* _extract_file_record, the status of _process_local_path
Kind(depth, member, top) == IF depth > 0 THEN member ELSE top

\* _process_local_path and _expand_archive for a file `rest` levels above the
\* depth limit: the entry of the file, then those of its members, of which
\* `below` are one level deeper
Unpacked(f, rest, below) ==
  LET c == Content[f]
      depth == MaxArchiveDepth - rest
      Alone(status) == <<Entry(f, f, depth, status)>>
      blocked == FlattenSeq([i \in DOMAIN c.members |->
                   IF c.members[i] # "unsafe" THEN <<>>
                   ELSE <<Entry(f, "", depth + 1, "archive_member_blocked")>>])
      inner == FlattenSeq([i \in DOMAIN c.members |->
                 IF c.members[i] = "unsafe" THEN <<>> ELSE below[c.members[i]]])
      good == \E e \in ToSet(inner) : e.status \notin FailureStatuses
  IN  IF c.format \in DirectFormats
        THEN Alone(IF c.readable THEN Kind(depth, "archive_member_extracted", "extracted")
                   ELSE Kind(depth, "archive_member_extract_failed", "extract_failed"))
      ELSE IF c.format \notin DirectFormats \cup ArchiveFormats
        THEN Alone(Kind(depth, "archive_member_unsupported", "unsupported_format"))
      ELSE IF rest = 0
        THEN Alone(Kind(depth, "archive_member_depth_exceeded", "archive_depth_exceeded"))
      ELSE IF ~c.readable
        THEN Alone(Kind(depth, "archive_member_extract_failed", "archive_extract_failed"))
               \o blocked
      ELSE Alone(IF good THEN "archive_extracted" ELSE "archive_empty") \o blocked \o inner

Unpack[rest \in 0 .. MaxArchiveDepth] ==
  [f \in Files |-> Unpacked(f, rest, IF rest = 0 THEN <<>> ELSE Unpack[rest - 1])]

\* acquire_from_url and ingest_response
Acquire(url, answered) ==
  IF ~answered THEN <<Entry(url, "", 0, "request_error")>>
  ELSE LET all == Unpack[MaxArchiveDepth][File[url]]
       IN  <<[all[1] EXCEPT !.url = url]>> \o Tail(all)

-----------------------------------------------------------------------------
(* The queue. *)

\* _skip_attachment_record
Skip(url, f, status) ==
  <<[Entry(url, f, 0, status) EXCEPT !.queue = "skipped"]>>

\* _admit_candidate: why a candidate gets no slot, or ""
Refused(q, url) ==
  IF url \in q.urls                                               THEN "duplicate_url"
  ELSE IF q.items >= MaxQueueItems                                THEN "count_cap"
  ELSE IF MaxPerType > 0 /\ TypeCount(q, Type[url]) >= MaxPerType THEN "type_cap"
  ELSE ""

\* Mutant of Admit: the address is not noted
AdmitUnseen(q, url) == [q EXCEPT !.items = @ + 1, !.types = Append(@, Type[url])]
Admit(q, url) == [q EXCEPT !.urls = @ \cup {url}, !.items = @ + 1,
                           !.types = Append(@, Type[url])]

\* _finalize_candidate_records: q and the entries that stay
FinalizeRecords(q, url, entries) ==
  LET first == entries[1]
      f == IF first.sum = "" THEN "" ELSE File[url]
      Settled(e) == [e EXCEPT !.queue = IF e.status \in SuccessStatuses THEN "acquired"
                                        ELSE "processed"]
  IN  IF MaxItemBytes > 0 /\ first.size > MaxItemBytes
        THEN [queue |-> q, entries |-> Skip(url, f, "heavy_skipped")]
      ELSE IF MaxTotalBytes > 0 /\ q.bytes + first.size > MaxTotalBytes
        THEN [queue |-> q, entries |-> Skip(url, f, "budget_skipped")]
      ELSE IF first.sum # "" /\ first.sum \in q.sums
        THEN [queue |-> q, entries |-> Skip(url, f, "duplicate_checksum")]
      ELSE [queue |-> [q EXCEPT !.bytes = @ + first.size,
                                !.sums = IF first.sum = "" THEN @ ELSE @ \cup {first.sum}],
            entries |-> [i \in DOMAIN entries |-> Settled(entries[i])]]

\* one candidate, asked for by its url
Collect(q, url, answered) ==
  IF Refused(q, url) # "" THEN [queue |-> q, entries |-> Skip(url, "", Refused(q, url))]
  ELSE FinalizeRecords(Admit(q, url), url, Acquire(url, answered))

\* collect_from_direct_response: the response is there already, and is weighed
\* before it is unpacked
CollectDirect(q, url) ==
  IF Refused(q, url) # "" THEN [queue |-> q, entries |-> Skip(url, "", Refused(q, url))]
  ELSE IF MaxItemBytes > 0 /\ Content[File[url]].size > MaxItemBytes
       THEN [queue |-> Admit(q, url), entries |-> Skip(url, "", "heavy_skipped")]
  ELSE FinalizeRecords(Admit(q, url), url, Acquire(url, TRUE))

\* collect_from_html_response: links over the page's cap come first, unasked;
\* the dead ones do not answer
CollectLinks(q, urls, dead) ==
  LET cut == Min({MaxLinksPerPage, Len(urls)})
      over == FlattenSeq([i \in 1 .. Len(urls) - cut |->
                            Skip(urls[cut + i], "", "page_link_cap")])
      after[n \in 0 .. cut] ==
        IF n = 0 THEN [queue |-> q, entries |-> over]
        ELSE LET r == Collect(after[n - 1].queue, urls[n], urls[n] \notin dead)
             IN  [queue |-> r.queue, entries |-> after[n - 1].entries \o r.entries]
  IN  after[cut]

-----------------------------------------------------------------------------
(* What the queue of a crawl owes its records: the bytes it charged are those
   of the files it kept, within the cap; no file is kept twice; a file dropped
   as a duplicate of another's content left that content in the records; and
   nothing was unpacked below the depth limit.                               *)
QueueIsHonest(q, entries) ==
  LET kept == {i \in DOMAIN entries : entries[i].queue # "skipped" /\ entries[i].depth = 0}
      dup == {i \in DOMAIN entries : entries[i].status = "duplicate_checksum"}
      charged[n \in 0 .. Len(entries)] ==
        IF n = 0 THEN 0
        ELSE charged[n - 1] + (IF n \in kept THEN entries[n].size ELSE 0)
  IN  /\ q.bytes = charged[Len(entries)]
      /\ MaxTotalBytes > 0 => q.bytes <= MaxTotalBytes
      /\ q.items <= MaxQueueItems /\ q.items = Len(q.types)
      /\ Cardinality(kept) <= q.items
      /\ \A i, j \in kept : i # j => /\ entries[i].url # entries[j].url
                                     /\ entries[i].sum = "" \/ entries[i].sum # entries[j].sum
      /\ \A i \in dup : \E j \in kept : j < i /\ entries[j].sum = entries[i].sum
      /\ \A i \in DOMAIN entries : entries[i].depth <= MaxArchiveDepth
================================================================================
