--------------------------- MODULE ResultLedgerProofs ---------------------------
(***************************************************************************)
(* What follows from the promise alone, and so holds of both managers.     *)
(***************************************************************************)
EXTENDS ResultLedger, TLAPS

LedgerInv == LedgerTypeOK /\ OneRowPerClaim

\* What is in a ledger.
LEMMA Rows ==
  ASSUME LedgerTypeOK
  PROVE  /\ DOMAIN ledger = 1..Len(ledger)
         /\ Len(ledger) \in Nat
         /\ \A k \in DOMAIN ledger : ledger[k] \in Entry /\ ledger[k].claim \in Claims
<1>1. \A e \in Entry : e.claim \in Claims
  BY DEF Entry
<1> QED
  BY <1>1 DEF LedgerTypeOK

\* The row a claim stores is its first.
LEMMA StoreStep ==
  ASSUME LedgerInv, NEW c \in Claims, Store(c)
  PROVE  LedgerInv'
<1> USE DEF LedgerInv, LedgerTypeOK, OneRowPerClaim, Store, Advance
<1> DEFINE row == [claim |-> c, boot |-> "none"]
<1>1. stage' \in [Claims -> Stages] /\ stage[c] = "claimed"
      /\ \A d \in Claims : stage'[d] = IF d = c THEN "stored" ELSE stage[d]
  BY DEF Stages
<1>2. \A k \in DOMAIN ledger : ledger[k].claim \in Claims /\ ledger[k].claim # c
  BY <1>1, Rows
<1>3. row \in Entry /\ row.claim = c
  BY DEF Entry
<1> HIDE DEF row
<1>4. CASE UNCHANGED ledger
  BY <1>1, <1>2, <1>4
<1>5. CASE ledger' = Append(ledger, row)
  <2>1. /\ ledger' \in Seq(Entry)
        /\ DOMAIN ledger = 1..Len(ledger)
        /\ DOMAIN ledger' = 1..(Len(ledger) + 1)
        /\ Len(ledger) \in Nat
        /\ \A k \in DOMAIN ledger : ledger'[k] = ledger[k]
        /\ ledger'[Len(ledger) + 1] = row
    BY <1>3, <1>5
  <2>2. \A k \in DOMAIN ledger' : k \in DOMAIN ledger \/ k = Len(ledger) + 1
    BY <2>1
  <2>3. \A j, k \in DOMAIN ledger' : ledger'[j].claim = ledger'[k].claim => j = k
    BY <1>2, <1>3, <2>1, <2>2
  <2>4. \A k \in DOMAIN ledger' : stage'[ledger'[k].claim] \notin {"open", "claimed"}
    BY <1>1, <1>2, <1>3, <2>1, <2>2
  <2> QED
    BY <1>1, <2>1, <2>3, <2>4
<1> QED
  BY <1>4, <1>5 DEF row

\* A verdict changes no claim of a row.
LEMMA FinishStep ==
  ASSUME LedgerInv, NEW c \in Claims, NEW v \in Verdicts, Finish(c, v)
  PROVE  LedgerInv'
<1> USE DEF LedgerInv, LedgerTypeOK, OneRowPerClaim, Finish, Advance
<1>1. stage' \in [Claims -> Stages] /\ stage[c] = "rebooting"
      /\ \A d \in Claims : stage'[d] = IF d = c THEN "closed" ELSE stage[d]
  BY DEF Stages
<1>2. /\ DOMAIN ledger' = DOMAIN ledger
      /\ \A k \in DOMAIN ledger :
           ledger'[k] = IF ledger[k].claim = c THEN [ledger[k] EXCEPT !.boot = v] ELSE ledger[k]
  OBVIOUS
<1>3. \A e \in Entry : /\ [e EXCEPT !.boot = v] \in Entry
                       /\ [e EXCEPT !.boot = v].claim = e.claim
  BY DEF Entry
<1>4. /\ DOMAIN ledger = 1..Len(ledger)
      /\ Len(ledger) \in Nat
      /\ \A k \in DOMAIN ledger : ledger[k] \in Entry /\ ledger[k].claim \in Claims
  BY Rows
<1>5. \A k \in DOMAIN ledger : ledger'[k] \in Entry /\ ledger'[k].claim = ledger[k].claim
  BY <1>2, <1>3, <1>4
<1>6. ledger' \in Seq(Entry)
  BY <1>2, <1>4, <1>5
<1> QED
  BY <1>1, <1>2, <1>4, <1>5, <1>6

\* A claim that advances without its row keeps what it has.
LEMMA AdvanceStep ==
  ASSUME LedgerInv, UNCHANGED ledger, stage' \in [Claims -> Stages],
         \A d \in Claims : stage[d] \notin {"open", "claimed"} => stage'[d] \notin {"open", "claimed"}
  PROVE  LedgerInv'
<1>1. \A k \in DOMAIN ledger : ledger[k].claim \in Claims
  BY Rows DEF LedgerInv
<1> QED
  BY <1>1 DEF LedgerInv, LedgerTypeOK, OneRowPerClaim

\* A finished test has one row in the store at most, and has it only from the moment it
\* is stored: the promise that lets UpdateBoot address a row by the id of its test.
THEOREM AtMostOneRow == Spec => [](LedgerTypeOK /\ OneRowPerClaim)
<1>1. Init => LedgerInv
  BY DEF Init, LedgerInv, LedgerTypeOK, OneRowPerClaim, Stages
<1>2. LedgerInv /\ [Next]_ledgerSpecVars => LedgerInv'
  <2>1. ASSUME LedgerInv, UNCHANGED ledgerSpecVars PROVE LedgerInv'
    BY <2>1 DEF LedgerInv, LedgerTypeOK, OneRowPerClaim, ledgerSpecVars
  <2>2. ASSUME LedgerInv, NEW c \in Claims, Claim(c) \/ Reboot(c) PROVE LedgerInv'
    <3>1. /\ UNCHANGED ledger
          /\ stage' \in [Claims -> Stages]
          /\ \A d \in Claims : stage'[d] # stage[d] => stage'[d] \in {"claimed", "rebooting"}
          /\ \A d \in Claims : stage'[d] = "claimed" => stage[d] \in {"open", "claimed"}
      BY <2>2 DEF LedgerInv, LedgerTypeOK, Claim, Reboot, Advance, Stages
    <3>2. \A d \in Claims :
            stage[d] \notin {"open", "claimed"} => stage'[d] \notin {"open", "claimed"}
      BY <3>1
    <3> QED
      BY <2>2, <3>1, <3>2, AdvanceStep
  <2>3. ASSUME LedgerInv, NEW life \in Lives, Crash(life) PROVE LedgerInv'
    <3>1. /\ UNCHANGED ledger
          /\ stage' \in [Claims -> Stages]
          /\ \A d \in Claims : stage'[d] = IF d \in life THEN "closed" ELSE stage[d]
      BY <2>3 DEF LedgerInv, LedgerTypeOK, Crash, Stages
    <3> QED
      BY <2>3, <3>1, AdvanceStep
  <2> QED
    BY <2>1, <2>2, <2>3, StoreStep, FinishStep DEF Next
<1> QED
  BY <1>1, <1>2, PTL DEF Spec, LedgerInv
=============================================================================
