------------------------------ MODULE Billing ------------------------------
(***************************************************************************)
(* The paid plan of the cloud edition (billing.py, api/billing.py,         *)
(* store/billing_store.py): the row cloud_subscriptions follows the        *)
(* subscriptions that Stripe keeps, by webhook events which Stripe sends   *)
(* in any order, more than once and again after an error; the row          *)
(* cloud_transform_usage makes a user wait between two transforms.         *)
(*                                                                         *)
(* One user, whom nothing keeps from checking out again: one row stands    *)
(* for all subscriptions.  Every statement of the database is a step; a    *)
(* row loaded into a session is written back column by column, and only    *)
(* the columns whose value changed.  Stripe and its clock are external.    *)
(***************************************************************************)
EXTENDS Integers, Sequences, FiniteSets

CONSTANTS
  Hooks,          \* handlers of the webhook and of the cancel endpoint
  Gates,          \* requests that ask to run a transform
  Subs,           \* subscriptions the user may come to have
  None,
  Period,         \* length of a paid period
  FreeCooldown,   \* free_transform_cooldown_seconds
  PaidCooldown,   \* paid_transform_cooldown_seconds
  MaxTime,        \* bound: the clock
  MaxVersion,     \* bound: changes of the subscription at Stripe
  MaxFailures     \* bound: deliveries and calls that fail

ASSUME BillingAssumption ==
  /\ Period \in Nat \ {0} /\ FreeCooldown \in Nat /\ PaidCooldown \in Nat
  /\ MaxTime \in Nat /\ MaxVersion \in Nat /\ MaxFailures \in Nat
  /\ Subs # {} /\ None \notin Hooks \cup Gates \cup Nat

VARIABLES
  now,
  stripe,     \* each subscription at Stripe
  latest,     \* history: the state of the one that changed last
  paidUntil,  \* history: the latest end of a period that was active
  mail,       \* events Stripe has not seen accepted
  row,        \* the row of cloud_subscriptions, or None
  newest,     \* history: the version of Stripe's state the row was last given
  flaws,      \* history: "older", an older state was written over a newer;
              \* "mixed", a row was left with columns of two writers;
              \* "endless", a state that does not tell the end of its period
              \* was written;
              \* "halfway", one of two deliveries of an event failed on its
              \* way, and the other was accepted
  hook,       \* where each handler stands
  usage,      \* last_transform_run_at, or None when there is no row
  holder,     \* who holds the lock on the usage row
  gate,       \* where each request stands in enforce_transform_run_policy
  admissions, \* history: the runs of the free plan
  failures

stripeVars == <<now, stripe, latest, paidUntil, mail, failures>>
rowVars    == <<row, newest, flaws, hook>>
gateVars   == <<usage, holder, gate, admissions>>
billingVars == <<stripeVars, rowVars, gateVars>>

Times == 0 .. MaxTime + Period + 1

\* The states of a subscription, by all that have been before it; what Stripe
\* reports of it may or may not tell the end of the period.
State(sub, status, end, told, cancel, version) ==
  [sub |-> sub, status |-> status, end |-> end, told |-> told, cancel |-> cancel, version |-> version]

\* The columns of the row that are followed; 0 is no period end.
Row(sub, status, end, cancel) == [sub |-> sub, status |-> status, end |-> end, cancel |-> cancel]

Columns(s) == Row(s.sub, s.status, IF s.told THEN s.end ELSE 0, s.cancel)

Completed(sub) == Row(sub, "checkout_completed", 0, FALSE)

\* What the states of a subscription, the columns of the row and the events of
\* Stripe are; None is none of them.
StripeStates == [sub : Subs, status : {"none", "active", "canceled"}, end : Nat, told : BOOLEAN,
                 cancel : BOOLEAN, version : Nat]
PlanRows     == [sub : Subs, status : {"checkout_completed", "active", "canceled"}, end : Nat,
                 cancel : BOOLEAN]
StripeEvents == [sub : Subs, state : StripeStates \cup {None}]

ASSUME NoneAssumption == None \notin StripeStates \cup PlanRows \cup StripeEvents

IdleHook == [pc |-> "idle", event |-> None, got |-> None, loaded |-> None]
IdleGate == [pc |-> "idle", free |-> TRUE, found |-> FALSE, at |-> 0]

BillingInit ==
  /\ now = 0
  /\ stripe = [s \in Subs |-> State(s, "none", 0, TRUE, FALSE, 0)]
  /\ latest \in {stripe[s] : s \in Subs}
  /\ paidUntil = 0 /\ mail = {} /\ failures = 0
  /\ row = None /\ newest = 0 /\ flaws = {}
  /\ hook = [h \in Hooks |-> IdleHook]
  /\ usage = None /\ holder = None
  /\ gate = [g \in Gates |-> IdleGate]
  /\ admissions = <<>>

-----------------------------------------------------------------------------
(***************************************************************************)
(* Stripe.                                                                 *)
(***************************************************************************)
\* Events of a subscription carry its state, those of a checkout its name.
Subscription(v) == [sub |-> v.sub, state |-> v]
CheckoutDone(s) == [sub |-> s, state |-> None]

\* A subscription changes and the events are sent.
Becomes(v, events) ==
  /\ latest.version < MaxVersion
  /\ stripe' = [stripe EXCEPT ![v.sub] = v] /\ latest' = v
  /\ mail' = mail \cup events \cup {Subscription(v)}
  /\ paidUntil' = IF v.status = "active" /\ v.end > paidUntil THEN v.end ELSE paidUntil

Next1 == latest.version + 1

\* create_checkout_session sent the user to Stripe, who paid there, whatever
\* else is being paid for.
Checkout(s) ==
  /\ stripe[s].status = "none"
  /\ \E told \in BOOLEAN :
       Becomes(State(s, "active", now + Period, told, FALSE, Next1), {CheckoutDone(s)})
  /\ UNCHANGED <<now, failures, rowVars, gateVars>>

\* The period is over: it is renewed, unless the user has cancelled or does
\* not pay; or Stripe ends the subscription at once.
Renew(s) ==
  /\ stripe[s].status = "active" /\ now = stripe[s].end /\ ~ stripe[s].cancel
  /\ Becomes(State(s, "active", now + Period, stripe[s].told, FALSE, Next1), {})
  /\ UNCHANGED <<now, failures, rowVars, gateVars>>

Lapse(s) ==
  /\ stripe[s].status = "active"
  /\ Becomes(State(s, "canceled", stripe[s].end, stripe[s].told, stripe[s].cancel, Next1), {})
  /\ UNCHANGED <<now, failures, rowVars, gateVars>>

Tick ==
  /\ now < MaxTime
  /\ \A s \in Subs : ~ (stripe[s].status = "active" /\ now = stripe[s].end)
  /\ now' = now + 1
  /\ UNCHANGED <<stripe, latest, paidUntil, mail, failures, rowVars, gateVars>>

-----------------------------------------------------------------------------
(***************************************************************************)
(* The webhook, and the cancel endpoint.                                   *)
(***************************************************************************)
Go(h, fields) == hook' = [hook EXCEPT ![h] = fields]
EndHook(h)    == Go(h, IdleHook)

\* An event names the user in its metadata, or the user is found by the
\* customer of the row.
Deliver(h, e) ==
  /\ hook[h].pc = "idle" /\ e \in mail
  /\ Go(h, [IdleHook EXCEPT !.pc = "load", !.event = e, !.got = e.state])
  /\ UNCHANGED <<stripeVars, row, newest, flaws, gateVars>>

\* BillingStore.upsert_subscription: the row is loaded,
LoadRow(h) ==
  /\ hook[h].pc = "load"
  /\ Go(h, [hook[h] EXCEPT !.pc = "write", !.loaded = row])
  /\ UNCHANGED <<stripeVars, row, newest, flaws, gateVars>>

Wanted(h) == IF hook[h].got = None THEN Completed(hook[h].event.sub) ELSE Columns(hook[h].got)

\* the columns that differ from what was loaded are written over the row,
Written(loaded, wanted, there) ==
  [c \in DOMAIN wanted |-> IF loaded # None /\ loaded[c] = wanted[c] THEN there[c] ELSE wanted[c]]

\* and a row that somebody else has inserted meanwhile is an error.
Conflict(h) == hook[h].loaded = None /\ row # None

\* Stripe takes an event off its list once it has the answer of a handler.
Accept(h) ==
  \/ mail' = mail \ {hook[h].event} /\ UNCHANGED failures
  \/ failures < MaxFailures /\ failures' = failures + 1 /\ UNCHANGED mail

\* The state of a subscription is written and the event accepted; after a
\* completed checkout Stripe is asked for the subscription it made.
WriteRow(h) ==
  LET there == IF row = None THEN Wanted(h) ELSE row
      new   == Written(hook[h].loaded, Wanted(h), there)
  IN /\ hook[h].pc = "write" /\ ~ Conflict(h)
     /\ row' = new
     /\ IF hook[h].got = None
        THEN /\ Go(h, [hook[h] EXCEPT !.pc = "ask", !.loaded = new])
             /\ UNCHANGED <<mail, failures, newest, flaws>>
        ELSE /\ EndHook(h) /\ Accept(h)
             /\ newest' = hook[h].got.version
             /\ flaws' = flaws \cup {f \in {"older", "mixed", "endless"} :
                                      \/ f = "older" /\ hook[h].got.version < newest
                                      \/ f = "mixed" /\ new # Wanted(h)
                                      \/ f = "endless" /\ ~ hook[h].got.told}
     /\ UNCHANGED <<now, stripe, latest, paidUntil, gateVars>>

Ask(h) ==
  /\ hook[h].pc = "ask"
  /\ Go(h, [hook[h] EXCEPT !.pc = "write", !.got = stripe[hook[h].event.sub]])
  /\ UNCHANGED <<stripeVars, row, newest, flaws, gateVars>>

\* Mutant: a failure is answered like a success.
HookFailsQuietly(h) ==
  /\ hook[h].pc = "ask" /\ failures < MaxFailures /\ failures' = failures + 1
  /\ EndHook(h)
  /\ mail' = mail \ {hook[h].event}
  /\ UNCHANGED <<now, stripe, latest, paidUntil, row, newest, flaws, gateVars>>

\* A conflict, or a call of Stripe that fails: the event is sent again,
\* unless another delivery of it has been accepted.
HookFails(h) ==
  /\ \/ hook[h].pc = "write" /\ Conflict(h) /\ UNCHANGED failures
     \/ hook[h].pc \in {"ask", "cancel"} /\ failures < MaxFailures /\ failures' = failures + 1
  /\ EndHook(h)
  /\ flaws' = flaws \cup {f \in {"halfway"} : hook[h].pc = "ask" /\ hook[h].event \notin mail}
  /\ UNCHANGED <<now, stripe, latest, paidUntil, mail, row, newest, gateVars>>

\* cancel_supporter_subscription: a row that is not active is refused, one
\* that is to end answered; otherwise Stripe is told, and its answer written.
Cancel(h) ==
  /\ hook[h].pc = "idle"
  /\ row # None /\ row.status = "active" /\ ~ row.cancel
  /\ Go(h, [IdleHook EXCEPT !.pc = "cancel", !.loaded = row])
  /\ UNCHANGED <<stripeVars, row, newest, flaws, gateVars>>

Cancelled(h) ==
  /\ hook[h].pc = "cancel"
  /\ LET v == stripe[hook[h].loaded.sub]
         w == [v EXCEPT !.cancel = TRUE, !.version = Next1]
     IN IF v.status = "active" /\ ~ v.cancel
        THEN Becomes(w, {}) /\ Go(h, [hook[h] EXCEPT !.pc = "write", !.got = w])
        ELSE /\ Go(h, [hook[h] EXCEPT !.pc = "write", !.got = v])
             /\ UNCHANGED <<stripe, latest, mail, paidUntil>>
  /\ UNCHANGED <<now, failures, row, newest, flaws, gateVars>>

-----------------------------------------------------------------------------
(***************************************************************************)
(* enforce_transform_run_policy                                            *)
(***************************************************************************)
\* Mutant: an active row counts whatever its end.
PaidWhileActive == row # None /\ row.status = "active"

\* BillingStore.is_user_paid
Paid == row # None /\ row.status = "active" /\ (row.end = 0 \/ row.end > now)

Pass(g, fields) == gate' = [gate EXCEPT ![g] = fields]
Admit(g)  == Pass(g, [gate[g] EXCEPT !.pc = "admitted"])
Refuse(g) == Pass(g, [gate[g] EXCEPT !.pc = "refused"])

\* The plan of the user is read; a plan with no cool-down needs no row,
\* except that the use of the free plan is recorded all the same.
ReadPlan(g) ==
  LET wait == IF Paid THEN PaidCooldown ELSE FreeCooldown
      next == IF wait > 0 THEN "look" ELSE IF Paid THEN "admitted" ELSE "touch"
  IN /\ gate[g].pc = "plan"
     /\ Pass(g, [gate[g] EXCEPT !.pc = next, !.free = ~ Paid])
     /\ UNCHANGED <<stripeVars, rowVars, usage, holder, admissions>>

\* Mutant: the row is read without a lock.
LockNot(g) == UNCHANGED holder

\* get_usage_for_update waits for the row and keeps it locked to the end.
Lock(g) == /\ usage # None => holder = None
           /\ holder' = IF usage # None THEN g ELSE holder

Cooldown(g) == IF gate[g].free THEN FreeCooldown ELSE PaidCooldown

Look(g) ==
  /\ gate[g].pc = "look"
  /\ Lock(g)
  /\ IF usage = None THEN Pass(g, [gate[g] EXCEPT !.pc = "touch", !.found = FALSE])
     ELSE Pass(g, [gate[g] EXCEPT !.found = TRUE, !.at = now,
                     !.pc = IF usage + Cooldown(g) > now THEN "late" ELSE "record"])
  /\ UNCHANGED <<stripeVars, rowVars, usage, admissions>>

\* Mutant: the refusal leaves the session open.
TooSoonHeld(g) ==
  /\ gate[g].pc = "late"
  /\ Refuse(g)
  /\ UNCHANGED <<stripeVars, rowVars, usage, holder, admissions>>

TooSoon(g) ==
  /\ gate[g].pc = "late"
  /\ Refuse(g) /\ holder' = None
  /\ UNCHANGED <<stripeVars, rowVars, usage, admissions>>

\* touch_transform_usage looks again, for a row to change or none to insert.
Touch(g) ==
  /\ gate[g].pc = "touch"
  /\ Lock(g)
  /\ Pass(g, [gate[g] EXCEPT !.pc = IF usage = None THEN "insert" ELSE "record", !.at = now])
  /\ UNCHANGED <<stripeVars, rowVars, usage, admissions>>

Entry(g) == [at |-> gate[g].at, found |-> gate[g].found]
Recorded(g) == admissions' = IF gate[g].free THEN Append(admissions, Entry(g)) ELSE admissions

Record(g) ==
  /\ gate[g].pc = "record"
  /\ usage' = gate[g].at
  /\ holder' = None
  /\ Admit(g) /\ Recorded(g)
  /\ UNCHANGED <<stripeVars, rowVars>>

\* An insert that finds the row of another is an error.
Insert(g) ==
  /\ gate[g].pc = "insert"
  /\ IF usage = None THEN usage' = gate[g].at /\ Admit(g) /\ Recorded(g)
     ELSE Refuse(g) /\ UNCHANGED <<usage, admissions>>
  /\ UNCHANGED <<stripeVars, rowVars, holder>>

Enforce(g) == ReadPlan(g) \/ Look(g) \/ TooSoon(g) \/ Touch(g) \/ Record(g) \/ Insert(g)

BillingNext ==
  \/ \E s \in Subs : Checkout(s) \/ Renew(s) \/ Lapse(s)
  \/ Tick
  \/ \E h \in Hooks : \/ \E e \in mail : Deliver(h, e)
                      \/ LoadRow(h) \/ WriteRow(h) \/ Ask(h) \/ HookFails(h)
                      \/ Cancel(h) \/ Cancelled(h)
  \/ \E g \in Gates : Enforce(g)

-----------------------------------------------------------------------------
(***************************************************************************)
(* Properties.                                                             *)
(***************************************************************************)
\* billing_store.py:43-50: whatever order, repetition and failures the events
\* of all subscriptions meet, and whoever writes columns into the middle of
\* another, a row with an end holds the user to be paid only while a period
\* lasts that Stripe had as active: an end that was missed costs no more than
\* the rest of a period.  A row with no end holds the user to be paid for as
\* long as it is active; it comes about in two ways only, from a state that
\* told no end (billing.py:234-241) and from columns of two writers.
PaidMeansPaidFor ==
  Paid => IF row.end # 0 THEN now < paidUntil ELSE {"endless", "mixed"} \cap flaws # {}

\* api/billing.py:139-167: once Stripe has no event left and no handler runs,
\* the row shows the subscription that has changed last, also after a checkout
\* whose inquiry failed and was tried again, unless an older state was written
\* over a newer, be it of another subscription.
SubscriptionSettles ==
  flaws \subseteq {"endless"} /\ mail = {} /\ (\A h \in Hooks : hook[h].pc = "idle") /\ latest.version > 0
    => row = Columns(latest)

\* billing.py:103-153, README.md:436: two runs of the free plan are a
\* cool-down apart, however many requests come at once, except for requests
\* that looked before the first run of the user was recorded.
CooldownKept ==
  \A i, j \in 1 .. Len(admissions) :
    i < j /\ admissions[j].found => admissions[j].at >= admissions[i].at + FreeCooldown
=============================================================================
