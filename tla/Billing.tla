------------------------------ MODULE Billing ------------------------------
(***************************************************************************)
(* Subscriptions (app/api/routes/subscriptions.py) of the accounts of      *)
(* SignIn: the checkout that creates a Stripe customer, and the webhook    *)
(* that copies what Stripe reports into users.subscription_status.         *)
(*                                                                         *)
(* Stripe is external and modelled from its use here: a customer may have  *)
(* several checkout sessions and subscriptions, every change of a          *)
(* subscription is an event, and an event is sent until it is answered, so *)
(* it may arrive more than once, late, or beside another one.              *)
(***************************************************************************)
EXTENDS SignIn, Sequences

CONSTANTS
  Budgets,      \* bounds: on accounts, Stripe customers, Stripe's events
  Hooks         \* webhook requests in flight at once

ASSUME BillingAssumption ==
  Budgets \subseteq [accounts : Nat, customers : Nat, events : Nat]

VARIABLES
  budget,       \* the bounds this behaviour keeps to
  billing,      \* billing[i]: customer and status columns of users' row i
  checkout,     \* checkout[s]: the checkout request in slot s
  stripe,       \* stripe[c]: what Stripe knows of customer c
  outbox,       \* events Stripe has not had an answer to
  events,       \* events sent so far
  hook,         \* hook[h]: the webhook request h
  muddled       \* muddled[c]: why c's status need not follow Stripe's

billingVars ==
  <<budget, billing, checkout, stripe, outbox, events, hook, muddled>>

NoCustomer == 0
Customers == DOMAIN stripe

EventTypes == {"completed", "deleted", "payment_failed"}

NotAsked == [at |-> "idle", id |-> 0, customer |-> NoCustomer]
NoHook == [at |-> "idle", event |-> 0, id |-> 0, type |-> "none",
           was |-> "none"]

-----------------------------------------------------------------------------
(* create_checkout.                                                        *)

(* The user is loaded by get_required_user; with a customer the session    *)
(* is created at once, whether or not a subscription is active already.    *)
BeginCheckout(s, p, i) ==
  /\ checkout[s].at = "idle"
  /\ Authenticated(p, i)
  /\ checkout' = [checkout EXCEPT ![s] =
       [at |-> IF billing[i].customer = NoCustomer THEN "create"
               ELSE "session",
        id |-> i, customer |-> billing[i].customer]]
  /\ UNCHANGED <<budget, billing, stripe, outbox, events, hook, muddled>>

(* stripe.Customer.create                                                  *)
CreateCustomer(s) ==
  /\ checkout[s].at = "create"
  /\ Len(stripe) < budget.customers
  /\ stripe' = Append(stripe, [of |-> checkout[s].id, open |-> 0,
                               active |-> 0, past_due |-> 0])
  /\ checkout' = [checkout EXCEPT ![s].at = "store",
                                  ![s].customer = Len(stripe) + 1]
  /\ muddled' = Append(muddled, {})
  /\ UNCHANGED <<budget, billing, outbox, events, hook>>

(* Faulty variant: the new customer is used and not stored.                *)
ForgetCustomer(s) ==
  /\ checkout[s].at = "store"
  /\ checkout' = [checkout EXCEPT ![s].at = "session"]
  /\ UNCHANGED <<budget, billing, stripe, outbox, events, hook, muddled>>

(* user.stripe_customer_id := the new customer, committed.  It replaces    *)
(* the customer another checkout stored meanwhile.                         *)
StoreCustomer(s) ==
  LET q   == checkout[s]
      old == billing[q.id].customer
  IN /\ q.at = "store"
     /\ Exists(q.id)
     /\ billing' = [billing EXCEPT ![q.id].customer = q.customer]
     /\ checkout' = [checkout EXCEPT ![s].at = "session"]
     /\ muddled' = IF old = NoCustomer THEN muddled
                   ELSE [c \in Customers |->
                           IF c \in {old, q.customer}
                           THEN muddled[c] \union {"overlap"} ELSE muddled[c]]
     /\ UNCHANGED <<budget, stripe, outbox, events, hook>>

(* stripe.checkout.Session.create: one more session the customer can pay   *)
(* in; the model keeps whether there is one.                               *)
CreateSession(s) ==
  LET c == checkout[s].customer
  IN /\ checkout[s].at = "session"
     /\ stripe' = [stripe EXCEPT ![c].open = 1]
     /\ checkout' = [checkout EXCEPT ![s] = NotAsked]
     /\ UNCHANGED <<budget, billing, outbox, events, hook, muddled>>

(* Stripe or the commit fails (the account may be gone), or the process    *)
(* stops: the answer is 500.                                               *)
CheckoutFails(s) ==
  /\ checkout[s].at # "idle"
  /\ checkout' = [checkout EXCEPT ![s] = NotAsked]
  /\ UNCHANGED <<budget, billing, stripe, outbox, events, hook, muddled>>

-----------------------------------------------------------------------------
(* Stripe.                                                                 *)

Live(c) == stripe[c].active + stripe[c].past_due

Send(type, c) ==
  /\ events < budget.events
  /\ events' = events + 1
  /\ outbox' = outbox \union
                 {[n |-> events + 1, type |-> type, customer |-> c]}

StripeStep == UNCHANGED <<budget, billing, checkout, hook>>

(* The customer pays in a checkout session, perhaps for a second           *)
(* subscription beside the first.                                          *)
Pay(c) ==
  /\ stripe[c].open = 1
  /\ stripe' = [stripe EXCEPT ![c].open = 0, ![c].active = @ + 1]
  /\ muddled' = IF Live(c) = 0 THEN muddled
                ELSE [muddled EXCEPT ![c] = @ \union {"double"}]
  /\ Send("completed", c)
  /\ StripeStep

(* A subscription ends: cancelled in the portal, or never paid again.      *)
End(c, field) ==
  /\ stripe[c][field] > 0
  /\ stripe' = [stripe EXCEPT ![c][field] = @ - 1]
  /\ Send("deleted", c)
  /\ StripeStep /\ UNCHANGED muddled

(* A renewal is not paid.                                                  *)
PaymentFails(c) ==
  /\ stripe[c].active > 0
  /\ stripe' = [stripe EXCEPT ![c].active = @ - 1, ![c].past_due = @ + 1]
  /\ Send("payment_failed", c)
  /\ StripeStep /\ UNCHANGED muddled

(* The renewal is paid at last: the webhook has no branch for what Stripe  *)
(* sends then.                                                             *)
Recovers(c) ==
  /\ stripe[c].past_due > 0
  /\ stripe' = [stripe EXCEPT ![c].past_due = @ - 1, ![c].active = @ + 1]
  /\ muddled' = [muddled EXCEPT ![c] = @ \union {"recovery"}]
  /\ StripeStep /\ UNCHANGED <<outbox, events>>

-----------------------------------------------------------------------------
(* stripe_webhook.                                                         *)

HolderOf(c) == {i \in Accounts : billing[i].customer = c}

(* Faulty variant: the end of a subscription is not handled.               *)
StatusOfNoCancel(type) == IF type = "payment_failed" THEN "past_due"
                                                     ELSE "active"

StatusOf(type) == CASE type = "completed"      -> "active"
                    [] type = "deleted"        -> "cancelled"
                    [] type = "payment_failed" -> "past_due"

(* An older event of the customer is unanswered or still being handled.    *)
Overtakes(e) ==
  \/ \E o \in outbox : o.customer = e.customer /\ o.n < e.n
  \/ \E h \in Hooks : /\ hook[h].at # "idle" /\ hook[h].event < e.n
                      /\ hook[h].id \in HolderOf(e.customer)

(* The request is verified and finds the account of the customer.  If      *)
(* there is none the answer is "ok" all the same.                          *)
Receive(h, e) ==
  /\ hook[h].at = "idle"
  /\ \/ \E i \in HolderOf(e.customer) :
          /\ hook' = [hook EXCEPT ![h] = [at |-> "found", event |-> e.n,
                                          id |-> i, type |-> e.type,
                                          was |-> billing[i].status]]
          /\ UNCHANGED outbox
     \/ /\ HolderOf(e.customer) = {}
        /\ outbox' = outbox \ {e}
        /\ UNCHANGED hook
  /\ muddled' = IF Overtakes(e)
                THEN [muddled EXCEPT ![e.customer] = @ \union {"order"}]
                ELSE muddled
  /\ UNCHANGED <<budget, billing, checkout, stripe, events>>

(* The commit, which writes only a status other than the one loaded.       *)
(* Stripe may or may not see the answer.                                   *)
Record(h) ==
  LET q == hook[h]
  IN /\ q.at = "found"
     /\ \/ q.was = StatusOf(q.type) /\ UNCHANGED billing
        \/ /\ q.was # StatusOf(q.type) /\ Exists(q.id)
           /\ billing' = [billing EXCEPT ![q.id].status = StatusOf(q.type)]
     /\ hook' = [hook EXCEPT ![h] = NoHook]
     /\ outbox' \in {outbox, {e \in outbox : e.n # q.event}}
     /\ UNCHANGED <<budget, checkout, stripe, events, muddled>>

(* The commit fails or the process stops: Stripe will send again.          *)
HookFails(h) ==
  /\ hook[h].at # "idle"
  /\ hook' = [hook EXCEPT ![h] = NoHook]
  /\ UNCHANGED <<budget, billing, checkout, stripe, outbox, events, muddled>>

-----------------------------------------------------------------------------
BillingInit ==
  /\ SignInInit
  /\ budget \in Budgets
  /\ billing = [i \in AccountIds |-> [customer |-> NoCustomer,
                                      status |-> "none"]]
  /\ checkout = [s \in Slots |-> NotAsked]
  /\ stripe = <<>> /\ muddled = <<>>
  /\ outbox = {} /\ events = 0
  /\ hook = [h \in Hooks |-> NoHook]

BillingStep ==
  \/ \E s \in Slots :
       \/ \E p \in People, i \in AccountIds : BeginCheckout(s, p, i)
       \/ CreateCustomer(s) \/ StoreCustomer(s) \/ CreateSession(s)
       \/ CheckoutFails(s)
  \/ \E c \in Customers :
       \/ Pay(c) \/ PaymentFails(c) \/ Recovers(c)
       \/ \E field \in {"active", "past_due"} : End(c, field)
  \/ \E h \in Hooks :
       \/ \E e \in outbox : Receive(h, e)
       \/ Record(h) \/ HookFails(h)

(* The two components share the process and the table of accounts; they    *)
(* write different columns.                                                *)
BillingNext ==
  \/ /\ SignInNext
     /\ made' <= budget.accounts
     /\ UNCHANGED billingVars
  \/ /\ BillingStep
     /\ UNCHANGED signInVars

BillingSpec == BillingInit /\ [][BillingNext]_<<signInVars, billingVars>>

-----------------------------------------------------------------------------
(* Nothing is on its way to the account.                                   *)
Settled(c) ==
  /\ \A e \in outbox : e.customer # c
  /\ \A h \in Hooks : hook[h].at = "idle"

(* When every event has been answered in order, an account is "active"     *)
(* exactly while its customer has a subscription in force, "past_due"      *)
(* exactly while it owes a renewal, whatever was repeated or lost on the   *)
(* way.  The four exceptions are what the webhook gets wrong: events out   *)
(* of order, a second subscription, a renewal paid late, and a customer    *)
(* replaced by an overlapping checkout (subscriptions.py:107-131).         *)
StatusFollowsStripe ==
  \A c \in Customers : Settled(c) /\ muddled[c] = {} =>
    \A i \in HolderOf(c) :
      /\ billing[i].status = "active" <=> stripe[c].active > 0
      /\ billing[i].status = "past_due" <=> stripe[c].past_due > 0

(* Whoever pays is known to the webhook: the customer of a live            *)
(* subscription is the one its account holds, unless two checkouts of the  *)
(* account overlapped or the account was deleted, which leaves the         *)
(* subscription running (subscriptions.py:50-58, users.py:135).            *)
PaymentReachesAccount ==
  \A c \in Customers : Live(c) > 0 =>
    \/ billing[stripe[c].of].customer = c
    \/ "overlap" \in muddled[c]
    \/ ~ Exists(stripe[c].of)
=============================================================================
