------------------------------ MODULE HostMemory ------------------------------
(***************************************************************************)
(* The attempts a run remembers of each host (app/runtime/host_memory.py)  *)
(* and what the host governor reads from them before a host is touched     *)
(* (resolve_host_governor_preflight in app/runtime/host_governor.py).      *)
(*                                                                         *)
(* An attempt went through a contour, a proxy label or the direct one, and *)
(* its verdict is what the reader makes of its status, tags and cooldown:  *)
(*   clear  a success, which settles the debt of its contour;              *)
(*   hard   a 429, a 403, a bot gate or a challenge;                       *)
(*   soft   no such tag, but a cooldown;                                   *)
(*   mute   none of these.                                                 *)
(* until is the end of its cooldown (its timestamp when it has none).      *)
(* Times are ticks, Second of them to a second: cooldowns are rounded to   *)
(* whole seconds.                                                          *)
(***************************************************************************)
EXTENDS Integers, Sequences, FiniteSetsExt

CONSTANTS Labels,      \* proxy labels
          LedgerLimit, \* HOST_MEMORY_LEDGER_LIMIT
          Second       \* ticks in a second

Direct == "__direct__"
Contours == Labels \cup {Direct}
Verdicts == {"clear", "hard", "soft", "mute"}

ASSUME HostMemoryAssumption ==
  /\ Direct \notin Labels
  /\ LedgerLimit \in Nat \ {0}
  /\ Second \in Nat \ {0}

\* update_host_memory_from_event_payload: the newest attempts are kept.
Newest(all) == SubSeq(all, Max({1, Len(all) - LedgerLimit + 1}), Len(all))
Remember(attempts, attempt) == Newest(Append(attempts, attempt))

\* Mutant of Active: a success through any contour settles the debt.
ActiveAnywhere(attempts) ==
  {i \in DOMAIN attempts :
     /\ attempts[i].verdict \in {"hard", "soft"}
     /\ \A j \in (i + 1)..Len(attempts) : attempts[j].verdict # "clear"}

\* active_governor_signal_outcomes: the attempts with a signal that no later
\* attempt of their contour cleared.  Later means later in the ledger: the
\* timestamps are not compared.
Active(attempts) ==
  {i \in DOMAIN attempts :
     /\ attempts[i].verdict \in {"hard", "soft"}
     /\ \A j \in (i + 1)..Len(attempts) :
          attempts[j].contour = attempts[i].contour => attempts[j].verdict # "clear"}

\* recent_governor_signal_proxy_labels
SignalLabels(attempts) == {attempts[i].contour : i \in Active(attempts)} \ {Direct}

\* The labels preflight tells the fetcher to avoid: for each label only its
\* newest active attempt counts.
Avoided(attempts) ==
  {c \in SignalLabels(attempts) :
     attempts[Max({i \in Active(attempts) : attempts[i].contour = c})].verdict = "hard"}

\* int(round(x)), in ticks: to whole seconds, halves to the even one.
Rounded(ticks) ==
  LET s == ticks \div Second
      r == 2 * (ticks % Second)
  IN  Second * IF r > Second \/ (r = Second /\ s % 2 = 1) THEN s + 1 ELSE s

\* cooldown_remaining_seconds of the preflight.
CooldownLeft(attempts, now) ==
  Rounded(Max({0} \cup {attempts[i].until - now : i \in Active(attempts)}))
=============================================================================
