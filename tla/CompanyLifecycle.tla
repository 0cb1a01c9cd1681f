-------------------------- MODULE CompanyLifecycle --------------------------
(***************************************************************************)
(* What the progress ledger promises about a company of a run, whatever    *)
(* happens to the process (RunLedger implements it): a company waits until *)
(* it is admitted, is open while there is work left for it, and is settled *)
(* only together with a stored result.  Nothing is ever taken back, except *)
(* by a fresh run, which takes everything back at once.                    *)
(***************************************************************************)
CONSTANT Companies

VARIABLES stage,   \* where each company is
          stored   \* companies with a result that survives a crash

vars == <<stage, stored>>

Init == /\ stage = [c \in Companies |-> "waiting"]
        /\ stored = {}

Open == {c \in Companies : stage[c] = "open"}

\* The sources of a company are in, and there is work to do.
Admit(c) == /\ stage[c] = "waiting"
            /\ stage' = [stage EXCEPT ![c] = "open"]
            /\ UNCHANGED stored

\* Results of open companies are stored, before their work is acknowledged.
Store == /\ \E new \in SUBSET Open : stored' = stored \cup new
         /\ UNCHANGED stage

\* The last work of a company is acknowledged.
Settle(c) == /\ stage[c] = "open"
             /\ stage' = [stage EXCEPT ![c] = "settled"]
             /\ stored' = stored \cup {c}

\* A fresh run starts over.
Restart == /\ stage' = [c \in Companies |-> "waiting"]
           /\ stored' = {}

Next == \/ \E c \in Companies : Admit(c) \/ Settle(c)
        \/ Store
        \/ Restart

Spec == Init /\ [][Next]_vars
=============================================================================
