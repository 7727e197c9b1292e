---------------------------- MODULE OneShotCode -----------------------------
(***************************************************************************)
(* What an authorization code promises: it is given out once, consumed     *)
(* once, and redeemed for tokens at most once, and only after it was       *)
(* consumed.  A consumed code may also never be redeemed.                  *)
(***************************************************************************)
EXTENDS Naturals

CONSTANT Codes

VARIABLES
  status,      \* code -> "none", "open" or "consumed"
  redemptions  \* code -> how often tokens were issued for it

vars == <<status, redemptions>>

Init ==
  /\ status = [c \in Codes |-> "none"]
  /\ redemptions = [c \in Codes |-> 0]

Move(c, from, to) ==
  /\ status[c] = from
  /\ status' = [status EXCEPT ![c] = to]
  /\ UNCHANGED redemptions

Redeem(c) ==
  /\ status[c] = "consumed" /\ redemptions[c] = 0
  /\ redemptions' = [redemptions EXCEPT ![c] = 1]
  /\ UNCHANGED status

Next == \E c \in Codes :
  \/ Move(c, "none", "open")
  \/ Move(c, "open", "consumed")
  \/ Redeem(c)

Spec == Init /\ [][Next]_vars
=============================================================================
