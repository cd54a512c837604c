---------------------------- MODULE PayoutEscrow ----------------------------
(***************************************************************************)
(* What the cooperative promises about one withdrawal, independent of the  *)
(* tables it is spread over: an amount is set aside once, may be adjusted  *)
(* only until an officer has agreed to it, and then leaves the escrow      *)
(* exactly once, either paid in full after agreement or given back.        *)
(***************************************************************************)
EXTENDS Naturals

CONSTANTS Payouts, Amounts

VARIABLES
    phase,    \* "none", "held", "agreed", "paid" or "returned"
    amount

escrowVars == <<phase, amount>>

Init ==
    /\ phase = [p \in Payouts |-> "none"]
    /\ amount = [p \in Payouts |-> 0]

Hold(p, a) ==
    /\ phase[p] = "none"
    /\ phase' = [phase EXCEPT ![p] = "held"]
    /\ amount' = [amount EXCEPT ![p] = a]

Adjust(p, a) ==
    /\ phase[p] = "held"
    /\ amount' = [amount EXCEPT ![p] = a]
    /\ UNCHANGED phase

Agree(p) ==
    /\ phase[p] = "held"
    /\ phase' = [phase EXCEPT ![p] = "agreed"]
    /\ UNCHANGED amount

Pay(p) ==
    /\ phase[p] = "agreed"
    /\ phase' = [phase EXCEPT ![p] = "paid"]
    /\ UNCHANGED amount

\* Several payouts may be given back together.
GiveBack(ps) ==
    /\ \A p \in ps : phase[p] \in {"held", "agreed"}
    /\ phase' = [p \in Payouts |-> IF p \in ps THEN "returned" ELSE phase[p]]
    /\ UNCHANGED amount

Next ==
    \/ \E p \in Payouts :
          \/ \E a \in Amounts : Hold(p, a) \/ Adjust(p, a)
          \/ Agree(p) \/ Pay(p)
    \/ \E ps \in SUBSET Payouts : GiveBack(ps)

Spec == Init /\ [][Next]_escrowVars
=============================================================================
