----------------------------- MODULE LedgerDossier -----------------------------
(***************************************************************************)
(* The ledger of a run together with the dossier store: the main thread    *)
(* stores a result by building and writing the company's dossier first and *)
(* recording the reference to it with the result in the state file         *)
(* (persist_completed_company_result, progress.py).  The two are files of  *)
(* their own, so a crash may fall between them, and the company is then    *)
(* completed again by the next session, under the name and with the        *)
(* material it has by then.                                                *)
(*                                                                         *)
(* The dossier is that of one company among those of the run: the          *)
(* directories of two companies have nothing in common, their names start  *)
(* with the INN.                                                           *)
(***************************************************************************)
EXTENDS RunLedger

CONSTANTS Company,   \* the company of the dossier
          None, Names,
          Materials  \* what sources and crawl may yield for it at a build: its
                     \* name then, the items and the lead

VARIABLES dirs, writing,
          ref        \* dossier_ref of the stored result

dossier == <<dirs, writing, ref>>
NoRef == [dir |-> None, revision |-> 0]

Store == INSTANCE DossierStore

\* The material is items as they were downloaded, under one of the names; the
\* name of a downloaded file holds its checksum.
IsItem(i) ==
  /\ i = Store!Item(i.type, i.url, i.name, i.sum, i.fp, i.local)
  /\ i.local => i.sum # None

ASSUME DossierAssumption ==
  /\ Company \in Companies
  /\ \A m \in Materials : /\ m.name \in Names
                         /\ Len(m.items) \in Nat /\ DOMAIN m.items = 1..Len(m.items)
                         /\ \A n \in DOMAIN m.items : IsItem(m.items[n])

\* Its result is about to be stored, and its dossier is built and written first.
Storing == pc = "result" /\ Inn = Company /\ cur.keep # 0

\* build_and_store_company_dossier, up to the creation of the revision.
BuildDossier ==
  /\ Storing
  /\ \E m \in Materials : Store!Begin(m.name, m.items, m.lead, cur.keep)
  /\ UNCHANGED <<vars, ref>>

WriteDossier ==
  /\ Storing
  /\ Store!Write
  /\ UNCHANGED <<vars, ref>>

\* upsert, once the dossier is written.
StoreWithDossier ==
  /\ Storing
  /\ writing.at = "written"
  /\ StoreResult
  /\ ref' = [dir |-> writing.dir, revision |-> Store!Newest]
  /\ writing' = Store!Idle
  /\ UNCHANGED dirs

\* The other steps of the thread; the result may be dropped by a fresh start.
LedgerStep ==
  /\ ~Storing
  /\ Step
  /\ ref' = IF result'[Company] = 0 THEN NoRef ELSE ref
  /\ UNCHANGED <<dirs, writing>>

\* The start of a session, a deferral, and the failures between or during the
\* writes of a dossier.
Outside ==
  /\ StartResume \/ StartRetry \/ StartFresh \/ DeferRow \/ Crash \/ Interrupt
  /\ IF writing.at = "idle" THEN UNCHANGED <<dirs, writing>> ELSE Store!Stop
  /\ UNCHANGED ref

LDInit == /\ Init
          /\ Store!StoreInit
          /\ ref = NoRef

LDNext == BuildDossier \/ WriteDossier \/ StoreWithDossier \/ LedgerStep \/ Outside

LDSpec == LDInit /\ [][LDNext]_<<vars, dossier>>

----------------------------------------------------------------------------
(* Properties *)

\* What was admitted is recoverable through retries and crashes too, and a
\* dossier_ref never dangles: the revision it names can be loaded, holds the
\* material the stored result was built from, and is in the only directory of
\* the company, where load_latest finds it or a newer one.  (A result promoted
\* from a checkpoint by a resume has no dossier_ref, progress.py:3193-3206.)
ReferenceHolds ==
  /\ AdmittedIsRecoverable
  /\ ref # NoRef =>
       /\ Store!KnownDirectories = {ref.dir}
       /\ Store!Loads(dirs[ref.dir], ref.revision)
       /\ dirs[ref.dir].revisions[ref.revision].gen = result[Company]
       /\ Store!LatestOf(dirs[ref.dir]) >= ref.revision

\* Whenever it is killed and whatever the company is called next, the writer
\* never ends up with a second directory, nor a reader with a revision that
\* cannot be loaded while the pointer to the latest one is torn or behind.
DirectoryIsSound ==
  /\ Cardinality(Store!KnownDirectories) <= 1
  /\ \A n \in Store!KnownDirectories : Store!Loads(dirs[n], Store!LatestOf(dirs[n]))

\* A reader gets what was written: in every revision it can load, each document
\* has the content it had when it was downloaded, and no procedure record is
\* lost or bound to something else by being read.
ReadIsWritten ==
  \A n \in Names : \A r \in {q \in DOMAIN dirs[n].revisions : Store!Loads(dirs[n], q)} :
    LET written == dirs[n].revisions[r]
        read == Store!Loaded(dirs[n], r)
    IN  /\ read.records = written.records
        /\ \A i \in DOMAIN read.items : read.items[i].file # None =>
             written.attached[read.items[i].file] = read.items[i].sum
================================================================================
