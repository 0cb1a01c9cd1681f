----------------------------- MODULE DossierStore -----------------------------
(***************************************************************************)
(* The dossiers of one company on disk (app/dossier/store.py): a directory *)
(* per company with one directory per revision, the company manifest and   *)
(* the pointer to the latest revision.  A write is a series of files, none *)
(* of them replaced atomically; a process killed in between leaves the one *)
(* it was writing torn, and readers and later writers have to cope.        *)
(*                                                                         *)
(* A directory is named after the company when it is created, and found by *)
(* the company's id afterwards, whatever the company is called by then.    *)
(* Revision ids and stored_at are taken to grow with time (the clock does  *)
(* not step back), so a revision is known by its position.  The copies of  *)
(* attachments that an earlier revision keeps are a source only for a      *)
(* dossier that was loaded from the store, which nothing in this           *)
(* repository writes again: they are left out.                             *)
(***************************************************************************)
EXTENDS DossierProcedures

CONSTANT Names  \* what the company is called, in one admission or another

VARIABLES dirs,    \* company_dossiers: directories by the name they were given
          writing  \* the write in progress: the local variables of write()

\* A manifest or a pointer file.
Absent == [st |-> "absent", value |-> None]
Torn == [st |-> "torn", value |-> None]
Whole(value) == [st |-> "whole", value |-> value]

NoDirectory == [revisions |-> <<>>, company |-> Absent, latest |-> Absent]
Idle == [at |-> "idle", dir |-> None, name |-> None]

StoreInit == /\ dirs = [n \in Names |-> NoDirectory]
             /\ writing = Idle

----------------------------------------------------------------------------
(* Reading *)

\* _valid_revision_manifests: revisions whose revision.json can be read.
Visible(d) == {r \in DOMAIN d.revisions : "revision" \in d.revisions[r].files}

\* Mutant of KnownDirectories: a directory is known by its manifest only.
ManifestDirectories == {n \in Names : dirs[n].company.st = "whole"}

\* _find_company_directories: by the manifest, or as the revisions tell when
\* the manifest cannot be read (_recover_company_manifest_from_revisions).
KnownDirectories == {n \in Names : dirs[n].company.st = "whole" \/ Visible(dirs[n]) # {}}

\* _validate_archive_bindings: the manifest and the snapshot agree, both ways.
BindingsHold(rev) ==
  /\ \A e \in rev.archive : \A i \in e.items : rev.items[i].file = e.file
  /\ \A i \in DOMAIN rev.items :
       rev.items[i].file # None => \E e \in rev.archive : i \in e.items

\* _archive_manifest_lookup, _resolve_hydrated_path: every file is there.
FilesThere(rev) ==
  /\ \A e \in rev.archive : e.file \in DOMAIN rev.attached
  /\ \A i \in DOMAIN rev.items : rev.items[i].file # None =>
       \E e \in rev.archive : e.file = rev.items[i].file

\* load does not raise.
Loads(d, r) ==
  /\ r \in Visible(d)
  /\ {"archive", "snapshot"} \subseteq d.revisions[r].files
  /\ BindingsHold(d.revisions[r])
  /\ FilesThere(d.revisions[r])

\* load: the records are bound again to what was read.
Loaded(d, r) == [d.revisions[r] EXCEPT !.records = Rebind(@, d.revisions[r].items)]

\* Mutant of LatestOf: any directory under revisions may be the newest.
LatestAnyhow(d) == IF d.latest.st = "whole" THEN d.latest.value ELSE Len(d.revisions)

\* load_latest: the revision latest.json names, or the newest that can be seen
\* when it cannot be read; 0 for FileNotFoundError.  Every revision written
\* here is archive-aware, so a failure to load it is raised.
LatestOf(d) ==
  IF d.latest.st = "whole" THEN d.latest.value
  ELSE IF Visible(d) = {} THEN 0
  ELSE CHOOSE r \in Visible(d) : \A q \in Visible(d) : q <= r

----------------------------------------------------------------------------
(* Writing *)

\* Mutant of CopyOf: the name of a copy is always the plain one.
PlainCopy(items, i) == IF items[i].type = "document" /\ items[i].local
                       THEN <<items[i].name, None>> ELSE None

\* _materialize_attachment, _target_filename_from_parts: the copy of item i is
\* shared by the items with the same downloaded file (downloads are named by
\* checksum and file name), and takes its plain name unless another file has.
CopyOf(items, i) ==
  LET copied == {j \in DOMAIN items : items[j].type = "document" /\ items[j].local}
      named == {j \in copied : items[j].name = items[i].name}
      same == {j \in named : items[j].sum = items[i].sum}
  IN  IF i \notin copied THEN None
      ELSE IF \E other \in named : \A j \in same : other < j
      THEN <<items[i].name, items[i].sum>>
      ELSE <<items[i].name, None>>

\* The snapshot of a dossier whose documents have been copied.
WithFiles(items) == [i \in DOMAIN items |-> [items[i] EXCEPT !.file = CopyOf(items, i)]]

\* The content of each copied file, the last one written under its name.
Copies(items) ==
  LET files == {CopyOf(items, i) : i \in DOMAIN items} \ {None}
      Final(f) == CHOOSE i \in DOMAIN items : CopyOf(items, i) = f
                   /\ \A j \in DOMAIN items : CopyOf(items, j) = f => j <= i
  IN  [f \in files |-> items[Final(f)].sum]

\* _record_archive_file, _archive_manifest_entries
ArchiveOf(items) ==
  {[file |-> f, items |-> {i \in DOMAIN items : items[i].file = f}] :
     f \in {items[i].file : i \in DOMAIN items} \ {None}}

\* write up to _next_revision_id: the directory, and a new revision in it.  With
\* two directories known it would raise (_raise_ambiguous_company_write).
Begin(name, items, lead, gen) ==
  LET dir == IF KnownDirectories = {} THEN name ELSE CHOOSE n \in KnownDirectories : TRUE
      assembled == Assemble(items)
      revision == [gen |-> gen, items |-> assembled, attached |-> <<>>, archive |-> {},
                   records |-> BuildRecords(lead, assembled), files |-> {}]
  IN  /\ writing.at = "idle"
      /\ Cardinality(KnownDirectories) <= 1
      /\ dirs' = [dirs EXCEPT ![dir].revisions = Append(@, revision)]
      /\ writing' = [at |-> "attachments", dir |-> dir, name |-> name]

\* The revision that is written (_next_revision_id).
Newest == Len(dirs[writing.dir].revisions)

\* _copy_local_attachments, _refresh_procedure_records
CopyAttachments ==
  LET revision == dirs[writing.dir].revisions[Newest]
      items == WithFiles(revision.items)
  IN  /\ writing.at = "attachments"
      /\ dirs' = [dirs EXCEPT ![writing.dir].revisions[Newest] =
                    [gen |-> revision.gen, items |-> items,
                     attached |-> Copies(revision.items), archive |-> ArchiveOf(items),
                     records |-> Rebind(revision.records, items), files |-> revision.files]]
      /\ writing' = [writing EXCEPT !.at = "snapshot"]

\* _write_json of the files of the revision, in this order.
After == [snapshot |-> "archive", archive |-> "revision", revision |-> "company"]
WriteFile ==
  /\ writing.at \in DOMAIN After
  /\ dirs' = [dirs EXCEPT ![writing.dir].revisions[Newest].files = @ \cup {writing.at}]
  /\ writing' = [writing EXCEPT !.at = After[writing.at]]

\* company_store.json, with the current name of the company.
WriteCompany ==
  /\ writing.at = "company"
  /\ dirs' = [dirs EXCEPT ![writing.dir].company = Whole(writing.name)]
  /\ writing' = [writing EXCEPT !.at = "latest"]

WriteLatest ==
  /\ writing.at = "latest"
  /\ dirs' = [dirs EXCEPT ![writing.dir].latest = Whole(Newest)]
  /\ writing' = [writing EXCEPT !.at = "written"]

Write == CopyAttachments \/ WriteFile \/ WriteCompany \/ WriteLatest

\* The process stops while it writes: the file it was writing may be torn.  A
\* torn file of the revision itself cannot be read, as if it were not there.
Stop ==
  /\ writing' = Idle
  /\ \/ UNCHANGED dirs
     \/ /\ writing.at \in {"company", "latest"}
        /\ dirs' = [dirs EXCEPT ![writing.dir] =
                      IF writing.at = "company" THEN [@ EXCEPT !.company = Torn]
                                                ELSE [@ EXCEPT !.latest = Torn]]
================================================================================
