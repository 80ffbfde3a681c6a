----------------------------- MODULE MCBilling -----------------------------
(***************************************************************************)
(* TLC's instance of the accounts: Billing, which includes SignIn, and     *)
(* AccountData, which looks inside the deletion the other two take in one  *)
(* step.  A behaviour runs the former or the latter; the part that does    *)
(* not run stays as it began.                                              *)
(***************************************************************************)
EXTENDS Billing, AccountData, TLC

VARIABLE part   \* the part this behaviour runs

mcVars == <<part, signInVars, billingVars, accountVars>>

Bounds(a, c, e) == [accounts |-> a, customers |-> c, events |-> e]

(* Three accounts show every way two people's sign-ins meet.  A behaviour  *)
(* with payments has one account, which may be deleted: with one customer  *)
(* and the three events of a subscription's life, or with two customers.   *)
AccountsOrPayments == {Bounds(3, 0, 0), Bounds(1, 1, 3), Bounds(1, 2, 1)}

(* The two components meet only in the deletion of an account.  A payment  *)
(* starts when no sign-in is in flight, and after it accounts are only     *)
(* deleted.                                                                *)
Apart ==
  \/ /\ UNCHANGED signInVars
     /\ \A s \in Slots : login[s].at = "idle"
  \/ /\ UNCHANGED billingVars
     /\ \/ stripe = <<>> /\ \A s \in Slots : checkout[s].at = "idle"
        \/ UNCHANGED <<login, tokens>>

MCInit ==
  /\ BillingInit /\ AccountInit
  /\ \/ part = "accounts"
     \/ part = "data" /\ budget = (CHOOSE b \in Budgets : TRUE)

MCNext ==
  \/ /\ part = "accounts" /\ UNCHANGED <<part, accountVars>>
     /\ BillingNext /\ Apart
  \/ /\ part = "data" /\ UNCHANGED <<part, signInVars, billingVars>>
     /\ AccountNext

MCSpec == MCInit /\ [][MCNext]_mcVars

AccountSymmetry ==
  Permutations(People) \union Permutations(Slots) \union Permutations(Hooks)
=============================================================================
