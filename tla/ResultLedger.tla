----------------------------- MODULE ResultLedger -----------------------------
(***************************************************************************)
(* What both managers promise about results, with nothing said of pods,    *)
(* containers, goroutines or phones.  A finished test is claimed, its row  *)
(* stored (or refused by sqlite), its phone rebooted, and the verdict of   *)
(* the reboot written to its row and to no other.  LocalManager and        *)
(* HubManager each map their state to this one.                            *)
(***************************************************************************)
EXTENDS Naturals, Sequences

CONSTANTS
  Claims,   \* what can be claimed: finished tests
  Lives     \* for each run of the process that may crash, its claims

VARIABLES
  stage,   \* how far each claim has come
  ledger   \* the rows of the store

ledgerSpecVars == <<stage, ledger>>

Stages == {"open", "claimed", "stored", "rebooting", "closed"}
Verdicts == {"ok", "failed"}
Entry == [claim : Claims, boot : Verdicts \cup {"none"}]

LedgerTypeOK ==
  /\ stage \in [Claims -> Stages]
  /\ ledger \in Seq(Entry)

Init ==
  /\ stage = [c \in Claims |-> "open"]
  /\ ledger = <<>>

Advance(c, from, to) ==
  /\ stage[c] = from
  /\ stage' = [stage EXCEPT ![c] = to]

\* Somebody takes the test; nobody else can afterwards.
Claim(c) == Advance(c, "open", "claimed") /\ UNCHANGED ledger

\* The row is stored, or refused and then never stored.
Store(c) ==
  /\ Advance(c, "claimed", "stored")
  /\ \/ ledger' = Append(ledger, [claim |-> c, boot |-> "none"])
     \/ UNCHANGED ledger

Reboot(c) == Advance(c, "stored", "rebooting") /\ UNCHANGED ledger

\* The reboot ends and its verdict reaches the row of this claim, if there is one.
Finish(c, v) ==
  /\ Advance(c, "rebooting", "closed")
  /\ ledger' = [k \in DOMAIN ledger |->
                  IF ledger[k].claim = c THEN [ledger[k] EXCEPT !.boot = v] ELSE ledger[k]]

\* A crash closes the claims of its run of the process, all of them, where they
\* stand.
Crash(life) ==
  /\ stage' = [c \in Claims |-> IF c \in life THEN "closed" ELSE stage[c]]
  /\ UNCHANGED ledger

\* Every step takes a claim further.
Next ==
  /\ stage' # stage
  /\ \/ \E c \in Claims : Claim(c) \/ Store(c) \/ Reboot(c) \/ \E v \in Verdicts : Finish(c, v)
     \/ \E life \in Lives : Crash(life)

Spec == Init /\ [][Next]_ledgerSpecVars

\* A claim has one row at most, and none before it is stored.
OneRowPerClaim ==
  /\ \A j, k \in DOMAIN ledger : ledger[j].claim = ledger[k].claim => j = k
  /\ \A k \in DOMAIN ledger : stage[ledger[k].claim] \notin {"open", "claimed"}
=============================================================================
