--------------------------- MODULE MCLedgerDossier ---------------------------
(* Model checking of LedgerDossier: one company that changes its name, and  *)
(* material with a document under two urls, two documents of one file name, *)
(* a download that is gone, and a page cited next to its document.          *)
EXTENDS LedgerDossier

Page(url, fp) == Store!Item("page", url, None, None, fp, FALSE)
Doc(url, name, sum) == Store!Item("document", url, name, sum, sum, TRUE)
Lost(url, name, sum) == Store!Item("document", url, name, sum, sum, FALSE)
NoLead == [cards |-> {}, evidence |-> {}, prints |-> {}]

MCMaterials ==
  {[name |-> "before", items |-> <<Page("u1", "p1"), Doc("u2", "tender", "s1"), Doc("u3", "tender", "s2")>>,
    lead |-> [NoLead EXCEPT !.cards = {{"u1"}, {"u2", "u3"}}]],
   [name |-> "after", items |-> <<Doc("u1", "tender", "s1"), Doc("u2", "tender", "s1"), Lost("u3", "price", "s3"),
                Doc("u1", "tender", "s1")>>,
    lead |-> [NoLead EXCEPT !.cards = {{"u2"}},
                            !.evidence = {[url |-> "u3", fp |-> "s3"], [url |-> None, fp |-> "s1"]}]],
   [name |-> "after", items |-> <<Page("u1", "p1"), Page("u1", "p2")>>,
    lead |-> [NoLead EXCEPT !.prints = {"p2"}]]}
================================================================================
