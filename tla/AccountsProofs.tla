--------------------------- MODULE AccountsProofs ---------------------------
(***************************************************************************)
(* Theorems about Accounts and Billing, for any number of requests,        *)
(* handlers and events: the cool-down of the free plan, that who is paid   *)
(* was paid for, that the subscription shows what Stripe has in the end,   *)
(* and that what overlapping requests leave behind is the word of the last *)
(* of them.                                                                *)
(***************************************************************************)
EXTENDS Accounts, FiniteSetTheorems, TLAPS

-----------------------------------------------------------------------------
(***************************************************************************)
(* The cool-down.                                                          *)
(***************************************************************************)
GatePcs == {"idle", "plan", "look", "late", "touch", "record", "insert", "admitted", "refused"}

\* The requests, as far as the policy sees them: it is asked by those that
\* stand there.
AtPolicy ==
  /\ req = [c \in Clients |-> [pc |-> req[c].pc, ask |-> req[c].ask, saw |-> req[c].saw]]
  /\ \A c \in Clients : req[c].pc = "policy" <=> gate[c].pc # "idle"

Entries == [at : Nat, found : BOOLEAN]

GateType ==
  /\ now \in Nat
  /\ usage \in Nat \cup {None}
  /\ gate \in [Gates -> [pc : GatePcs, free : BOOLEAN, found : BOOLEAN, at : Nat]]
  /\ admissions \in Seq(Entries)

\* Who is past the look at the row holds its lock, and nobody else does; who
\* found it long enough unused will record a time that much later.
LockKept ==
  \A g \in Gates :
    /\ gate[g].at <= now
    /\ gate[g].found => gate[g].pc \in {"late", "record", "admitted", "refused"}
    /\ gate[g].pc \in {"late", "record"} => /\ holder = g /\ usage # None
                                            /\ usage <= gate[g].at
    /\ gate[g].pc = "record" /\ gate[g].found /\ gate[g].free
         => usage + FreeCooldown <= gate[g].at

\* The row has the time of the last run.
UsageIsLast ==
  /\ usage # None => usage <= now
  /\ \A i \in 1 .. Len(admissions) : usage # None /\ admissions[i].at <= usage

GateInv == AtPolicy /\ GateType /\ LockKept /\ UsageIsLast /\ CooldownKept

LEMMA GateInit == AccountsInit => GateInv
<1> SUFFICES ASSUME AccountsInit PROVE GateInv
  OBVIOUS
<1>1. AtPolicy
  BY DEF AccountsInit, BillingInit, AtPolicy, Idle, IdleGate, Clients
<1>2. GateType
  BY DEF AccountsInit, BillingInit, GateType, IdleGate, GatePcs
<1>3. LockKept
  BY DEF AccountsInit, BillingInit, LockKept, IdleGate
<1>4. UsageIsLast /\ CooldownKept
  BY BillingAssumption DEF AccountsInit, BillingInit, UsageIsLast, CooldownKept
<1> QED
  BY <1>1, <1>2, <1>3, <1>4 DEF GateInv

\* A step that changes neither the requests nor the use of the plan; time may
\* pass.
LEMMA GateUntouched ==
  ASSUME GateInv, now' \in Nat, now <= now',
         UNCHANGED <<usage, holder, gate, admissions>>, AtPolicy'
  PROVE  GateInv'
<1>1. GateType'
  BY DEF GateInv, GateType
<1>2. LockKept'
  BY DEF GateInv, GateType, LockKept
<1>3. UsageIsLast'
  BY DEF GateInv, GateType, UsageIsLast
<1>4. CooldownKept'
  BY DEF GateInv, CooldownKept
<1> QED
  BY <1>1, <1>2, <1>3, <1>4 DEF GateInv

\* Stripe and the webhook.
LEMMA GateStripe ==
  ASSUME GateInv, UNCHANGED req,
         \/ \E s \in Subs : Checkout(s) \/ Renew(s) \/ Lapse(s)
         \/ Tick
         \/ \E h \in Hooks : \/ \E e \in mail : Deliver(h, e)
                             \/ LoadRow(h) \/ WriteRow(h) \/ Ask(h) \/ HookFails(h)
                             \/ Cancel(h) \/ Cancelled(h)
  PROVE  GateInv'
<1>1. UNCHANGED <<usage, holder, gate, admissions>> /\ (now' = now \/ now' = now + 1)
  <2>1. CASE (\E s \in Subs : Checkout(s) \/ Renew(s) \/ Lapse(s)) \/ Tick
    BY <2>1 DEF Checkout, Renew, Lapse, Tick, gateVars
  <2>2. CASE \E h \in Hooks : \/ \E e \in mail : Deliver(h, e)
                              \/ LoadRow(h) \/ WriteRow(h) \/ Ask(h) \/ HookFails(h)
                              \/ Cancel(h) \/ Cancelled(h)
    BY <2>2 DEF Deliver, LoadRow, WriteRow, Ask, HookFails, Cancel, Cancelled,
                gateVars, stripeVars
  <2> QED
    BY <2>1, <2>2
<1>2. now' \in Nat /\ now <= now'
  BY <1>1 DEF GateInv, GateType
<1>3. AtPolicy'
  BY <1>1 DEF GateInv, AtPolicy
<1> QED
  BY <1>1, <1>2, <1>3, GateUntouched

\* A request on its way to the policy, or to something else.
LEMMA GateMove ==
  ASSUME GateInv, NEW c \in Clients, UNCHANGED billingVars,
         req[c].pc # "policy", NEW r, r.pc # "policy",
         r = [pc |-> r.pc, ask |-> r.ask, saw |-> r.saw],
         req' = [req EXCEPT ![c] = r]
  PROVE  GateInv'
<1>1. UNCHANGED <<usage, holder, gate, admissions>> /\ now' \in Nat /\ now <= now'
  BY DEF GateInv, GateType, billingVars, gateVars, stripeVars
<1>2. AtPolicy'
  BY <1>1 DEF GateInv, AtPolicy
<1> QED
  BY <1>1, <1>2, GateUntouched
LEMMA AtPolicyMoved ==
  ASSUME AtPolicy, NEW c \in Clients, DOMAIN gate = Gates, NEW r, NEW s,
         r = [pc |-> r.pc, ask |-> r.ask, saw |-> r.saw],
         r.pc = "policy" <=> s.pc # "idle",
         req' = [req EXCEPT ![c] = r], gate' = [gate EXCEPT ![c] = s]
  PROVE  AtPolicy'
<1>1. DOMAIN gate' = Gates /\ gate'[c] = s /\ \A x \in Gates \ {c} : gate'[x] = gate[x]
  BY DEF Clients
<1>2. req'[c] = r /\ \A x \in Clients \ {c} : req'[x] = req[x]
  BY DEF AtPolicy
<1>3. \A x \in Clients : req'[x].pc = "policy" <=> gate'[x].pc # "idle"
  BY <1>1, <1>2 DEF AtPolicy, Clients
<1>4. req' = [x \in Clients |-> [pc |-> req'[x].pc, ask |-> req'[x].ask, saw |-> req'[x].saw]]
  BY DEF AtPolicy
<1> QED
  BY <1>3, <1>4 DEF AtPolicy

\* A request comes to the policy, or leaves it.
LEMMA GatePassed ==
  ASSUME GateInv, NEW c \in Clients, ReadKey(c) \/ Leave(c)
  PROVE  GateInv'
<1>1. gate[c].pc \notin {"late", "record"} /\ (gate[c].pc = "idle" => ~ gate[c].found)
  <2>1. CASE ReadKey(c)
    BY <2>1 DEF ReadKey, GateInv, AtPolicy, Clients, LockKept
  <2>2. CASE Leave(c)
    BY <2>2 DEF Leave
  <2> QED
    BY <2>1, <2>2
<1>2. UNCHANGED <<usage, holder, admissions, now>>
  BY DEF ReadKey, Leave, stripeVars
<1>3. CASE ReadKey(c) /\ gate' = gate
  <2>1. req[c].pc = "key" /\ gate[c].pc = "idle"
    BY <1>3 DEF ReadKey, GateInv, AtPolicy
  <2>2. PICK r : /\ req' = [req EXCEPT ![c] = r] /\ r.pc # "policy"
                 /\ r = [pc |-> r.pc, ask |-> r.ask, saw |-> r.saw]
    <3>1. CASE keys = {}
      <4>1. req' = [req EXCEPT ![c] = Idle]
        BY <1>3, <3>1 DEF ReadKey, Fail, End
      <4>2. Idle.pc # "policy" /\ Idle = [pc |-> Idle.pc, ask |-> Idle.ask, saw |-> Idle.saw]
        BY DEF Idle
      <4> QED
        BY <4>1, <4>2
    <3>2. CASE keys # {}
      BY <1>3, <2>1, <3>2 DEF ReadKey, GateInv, GateType, Clients
    <3> QED
      BY <3>1, <3>2
  <2>3. gate' = [gate EXCEPT ![c] = gate[c]] /\ DOMAIN gate = Gates
    BY <1>3 DEF GateInv, GateType
  <2>4. AtPolicy'
    BY <2>1, <2>2, <2>3, AtPolicyMoved DEF GateInv
  <2> QED
    BY <1>2, <1>3, <2>4, GateUntouched DEF GateInv, GateType
<1>4. CASE ReadKey(c) /\ gate' # gate
  <2>1. /\ gate' = [gate EXCEPT ![c].pc = "plan"]
        /\ req' = [req EXCEPT ![c].pc = "policy"]
        /\ gate[c].pc = "idle"
    BY <1>4 DEF ReadKey, Move, GateInv, AtPolicy
  <2>2. AtPolicy'
    <3> DEFINE r == [pc |-> "policy", ask |-> req[c].ask, saw |-> req[c].saw]
               s == [gate[c] EXCEPT !.pc = "plan"]
    <3>1. req' = [req EXCEPT ![c] = r]
      <4>1. req[c] = [pc |-> req[c].pc, ask |-> req[c].ask, saw |-> req[c].saw]
        BY DEF GateInv, AtPolicy
      <4>2. [req[c] EXCEPT !.pc = "policy"] = r
        BY <4>1
      <4>3. req' = [req EXCEPT ![c] = [req[c] EXCEPT !.pc = "policy"]]
        BY <2>1
      <4> QED
        BY <4>2, <4>3
    <3>2. gate' = [gate EXCEPT ![c] = s] /\ DOMAIN gate = Gates /\ s.pc = "plan"
      BY <2>1 DEF GateInv, GateType, Clients
    <3> QED
      BY <3>1, <3>2, AtPolicyMoved DEF GateInv
  <2>3. GateType'
    BY <1>2, <2>1 DEF GateInv, GateType, GatePcs, Clients
  <2>4. LockKept'
    BY <1>1, <1>2, <2>1 DEF GateInv, GateType, LockKept, Clients
  <2>5. UsageIsLast' /\ CooldownKept'
    BY <1>2 DEF GateInv, UsageIsLast, CooldownKept
  <2> QED
    BY <2>2, <2>3, <2>4, <2>5 DEF GateInv
<1>5. CASE Leave(c)
  <2>1. gate' = [gate EXCEPT ![c] = IdleGate] /\ req' = [req EXCEPT ![c] = Idle]
    BY <1>5 DEF Leave, Fail, End
  <2>2. AtPolicy'
    BY <2>1 DEF GateInv, AtPolicy, GateType, Clients, Idle, IdleGate
  <2>3. GateType'
    BY <1>2, <2>1 DEF GateInv, GateType, GatePcs, Clients, IdleGate
  <2>4. LockKept'
    BY <1>1, <1>2, <2>1 DEF GateInv, GateType, LockKept, Clients, IdleGate
  <2>5. UsageIsLast' /\ CooldownKept'
    BY <1>2 DEF GateInv, UsageIsLast, CooldownKept
  <2> QED
    BY <2>2, <2>3, <2>4, <2>5 DEF GateInv
<1> QED
  BY <1>3, <1>4, <1>5

\* The plan is read, or the wait is too short.
LEMMA GatePlan ==
  ASSUME GateInv, UNCHANGED req, NEW g \in Gates, ReadPlan(g) \/ TooSoon(g)
  PROVE  GateInv'
<1>1. UNCHANGED <<usage, admissions, now>>
  BY DEF ReadPlan, TooSoon, stripeVars
<1>2. PICK pc \in {"look", "admitted", "touch", "refused"}, free \in BOOLEAN :
        /\ gate' = [gate EXCEPT ![g] = [gate[g] EXCEPT !.pc = pc, !.free = free]]
        /\ gate[g].found => pc = "refused"
  <2>1. CASE ReadPlan(g)
    BY <2>1 DEF ReadPlan, Pass, GateInv, GateType, LockKept, Paid
  <2>2. CASE TooSoon(g)
    <3>1. gate' = [gate EXCEPT ![g] = [gate[g] EXCEPT !.pc = "refused", !.free = gate[g].free]]
      BY <2>2 DEF TooSoon, Refuse, Pass, GateInv, GateType
    <3> QED
      BY <3>1 DEF GateInv, GateType
  <2> QED
    BY <2>1, <2>2
<1>3. \A x \in Gates \ {g} : gate[x].pc \in {"late", "record"} => holder' = holder
  <2>1. CASE ReadPlan(g)
    BY <2>1 DEF ReadPlan
  <2>2. CASE TooSoon(g)
    BY <2>2 DEF TooSoon, GateInv, LockKept
  <2> QED
    BY <2>1, <2>2
<1>4. gate[g].pc # "idle"
  BY DEF ReadPlan, TooSoon
<1>5. AtPolicy'
  BY <1>2, <1>4 DEF GateInv, AtPolicy, GateType, Clients
<1>6. GateType'
  BY <1>1, <1>2 DEF GateInv, GateType, GatePcs
<1>7. LockKept'
  BY <1>1, <1>2, <1>3 DEF GateInv, GateType, LockKept
<1>8. UsageIsLast' /\ CooldownKept'
  BY <1>1 DEF GateInv, UsageIsLast, CooldownKept
<1> QED
  BY <1>5, <1>6, <1>7, <1>8 DEF GateInv

\* Who locks the row finds that nobody is past it.
LEMMA LockAlone ==
  ASSUME GateInv, NEW g \in Gates, Lock(g), NEW x \in Gates
  PROVE  gate[x].pc \notin {"late", "record"}
  BY BillingAssumption DEF GateInv, LockKept, Lock

\* A request that takes the lock, or finds no row.
LEMMA GateLooked ==
  ASSUME GateInv, UNCHANGED <<req, usage, admissions, now>>, NEW g \in Gates, Lock(g),
         gate[g].pc # "idle",
         NEW pc \in GatePcs \ {"idle"}, NEW found \in BOOLEAN, NEW at \in Nat,
         gate' = [gate EXCEPT ![g] = [gate[g] EXCEPT !.pc = pc, !.found = found, !.at = at]],
         at <= now, found => pc \in {"late", "record"},
         pc \in {"late", "record"} => usage # None /\ at = now,
         found /\ pc = "record" => usage + Cooldown(g) <= now
  PROVE  GateInv'
<1>1. /\ \A x \in Gates : gate[x].pc \notin {"late", "record"}
      /\ usage # None => holder' = g /\ usage \in Nat /\ usage <= now
  BY LockAlone DEF Lock, GateInv, GateType, UsageIsLast
<1>2. AtPolicy'
  BY DEF GateInv, AtPolicy, GateType, Clients
<1>3. GateType'
  BY DEF GateInv, GateType, GatePcs
<1>4. ASSUME NEW x \in Gates, x # g
      PROVE  /\ gate'[x].at <= now'
             /\ gate'[x].found => gate'[x].pc \in {"late", "record", "admitted", "refused"}
             /\ gate'[x].pc \notin {"late", "record"}
  <2>1. gate'[x] = gate[x]
    BY <1>4 DEF GateInv, GateType
  <2> QED
    BY <1>1, <2>1 DEF GateInv, LockKept
<1>5. /\ gate'[g].pc = pc /\ gate'[g].found = found /\ gate'[g].at = at
      /\ gate'[g].free = gate[g].free
  BY DEF GateInv, GateType
<1>6. pc = "record" /\ found /\ gate[g].free => usage + FreeCooldown <= at
  BY DEF Cooldown
<1>7. LockKept'
  <2>1. /\ gate'[g].at <= now'
        /\ gate'[g].found => gate'[g].pc \in {"late", "record", "admitted", "refused"}
        /\ gate'[g].pc \in {"late", "record"} => /\ holder' = g /\ usage' # None
                                                 /\ usage' <= gate'[g].at
        /\ gate'[g].pc = "record" /\ gate'[g].found /\ gate'[g].free
             => usage' + FreeCooldown <= gate'[g].at
    BY <1>1, <1>5, <1>6
  <2> QED
    BY <1>4, <2>1 DEF LockKept
<1>8. UsageIsLast' /\ CooldownKept'
  BY DEF GateInv, UsageIsLast, CooldownKept
<1> QED
  BY <1>2, <1>3, <1>7, <1>8 DEF GateInv

LEMMA GateLook ==
  ASSUME GateInv, UNCHANGED req, NEW g \in Gates, Look(g) \/ Touch(g)
  PROVE  GateInv'
<1>1. /\ UNCHANGED <<usage, admissions, now, req>> /\ Lock(g)
      /\ gate[g].pc \in {"look", "touch"}
  BY DEF Look, Touch, stripeVars
<1>2. /\ ~ gate[g].found /\ gate[g].at \in Nat /\ gate[g].at <= now
      /\ now \in Nat /\ now <= now
  BY <1>1 DEF GateInv, LockKept, GateType
<1>3. CASE Look(g) /\ usage = None
  <2>1. gate' = [gate EXCEPT ![g] = [gate[g] EXCEPT !.pc = "touch", !.found = FALSE,
                                                    !.at = gate[g].at]]
    BY <1>3 DEF Look, Pass, GateInv, GateType
  <2> QED
    BY <1>1, <1>2, <2>1, GateLooked DEF GatePcs
<1>4. CASE Look(g) /\ usage # None
  <2>1. PICK pc \in {"late", "record"} :
          /\ gate' = [gate EXCEPT ![g] = [gate[g] EXCEPT !.pc = pc, !.found = TRUE, !.at = now]]
          /\ pc = IF usage + Cooldown(g) > now THEN "late" ELSE "record"
    <3>1. DEFINE pc == IF usage + Cooldown(g) > now THEN "late" ELSE "record"
    <3>2. gate' = [gate EXCEPT ![g] = [gate[g] EXCEPT !.pc = pc, !.found = TRUE, !.at = now]]
      BY <1>4 DEF Look, Pass, GateInv, GateType
    <3> QED
      BY <3>2
  <2>2. usage \in Nat /\ Cooldown(g) \in Nat
    BY <1>4, BillingAssumption DEF GateInv, GateType, Cooldown
  <2>3. pc = "record" => usage + Cooldown(g) <= now
    BY <1>2, <2>1, <2>2
  <2> QED
    BY <1>1, <1>2, <1>4, <2>1, <2>3, GateLooked DEF GatePcs
<1>5. CASE Touch(g)
  <2> DEFINE pc == IF usage = None THEN "insert" ELSE "record"
  <2>1. gate' = [gate EXCEPT ![g] = [gate[g] EXCEPT !.pc = pc, !.found = FALSE, !.at = now]]
    <3>1. gate' = [gate EXCEPT ![g] = [gate[g] EXCEPT !.pc = pc, !.at = now]]
      BY <1>5 DEF Touch, Pass
    <3>2. gate[g] \in [pc : GatePcs, free : BOOLEAN, found : BOOLEAN, at : Nat]
      BY DEF GateInv, GateType
    <3>3. [gate[g] EXCEPT !.pc = pc, !.at = now]
            = [gate[g] EXCEPT !.pc = pc, !.found = FALSE, !.at = now]
      BY <1>2, <3>2
    <3> QED
      BY <3>1, <3>3
  <2>2. pc \in GatePcs \ {"idle"} /\ (pc \in {"late", "record"} => usage # None)
    BY DEF GatePcs
  <2> HIDE DEF pc
  <2> QED
    BY <1>1, <1>2, <2>1, <2>2, GateLooked
<1> QED
  BY <1>1, <1>3, <1>4, <1>5

\* A run of the free plan is recorded at the time the row is given.
LEMMA GateRecord ==
  ASSUME GateInv, UNCHANGED req, NEW g \in Gates, Record(g) \/ Insert(g)
  PROVE  GateInv'
<1>1. now' = now /\ gate[g].pc \in {"record", "insert"}
  BY DEF Record, Insert, stripeVars
<1>2. CASE Insert(g) /\ usage # None
  <2>1. /\ gate' = [gate EXCEPT ![g] = [gate[g] EXCEPT !.pc = "refused"]]
        /\ UNCHANGED <<usage, holder, admissions>>
    BY <1>2 DEF Insert, Refuse, Pass
  <2>2. AtPolicy'
    BY <1>1, <2>1 DEF GateInv, AtPolicy, GateType, Clients
  <2>3. GateType'
    BY <1>1, <2>1 DEF GateInv, GateType, GatePcs
  <2>4. LockKept'
    BY <1>1, <2>1 DEF GateInv, GateType, LockKept
  <2>5. UsageIsLast' /\ CooldownKept'
    BY <1>1, <2>1 DEF GateInv, UsageIsLast, CooldownKept
  <2> QED
    BY <2>2, <2>3, <2>4, <2>5 DEF GateInv
<1>3. CASE Record(g) \/ (Insert(g) /\ usage = None)
  <2>1. /\ gate' = [gate EXCEPT ![g] = [gate[g] EXCEPT !.pc = "admitted"]]
        /\ usage' = gate[g].at
        /\ Recorded(g)
    BY <1>3 DEF Record, Insert, Admit, Pass
  <2>2. /\ gate[g].at \in Nat /\ gate[g].at <= now
        /\ usage' # None
        /\ usage # None => usage \in Nat /\ usage <= gate[g].at
    BY <1>3, <2>1, BillingAssumption DEF Record, GateInv, GateType, LockKept
  <2>3. \A x \in Gates \ {g} : gate[x].pc \notin {"late", "record"}
    BY <1>3 DEF Record, GateInv, LockKept
  <2>4. AtPolicy'
    BY <1>1, <2>1 DEF GateInv, AtPolicy, GateType, Clients
  <2>5. GateType'
    <3>1. Entry(g) \in Entries
      BY DEF Entry, Entries, GateInv, GateType
    <3>2. admissions' \in Seq(Entries)
      <4>1. admissions' = Append(admissions, Entry(g)) \/ admissions' = admissions
        BY <2>1 DEF Recorded
      <4>2. admissions \in Seq(Entries)
        BY DEF GateInv, GateType
      <4> QED
        BY <3>1, <4>1, <4>2
    <3> QED
      BY <1>1, <2>1, <2>2, <3>2 DEF GateInv, GateType, GatePcs
  <2>6. LockKept'
    BY <1>1, <2>1, <2>3 DEF GateInv, GateType, LockKept
  <2>7. ASSUME NEW i \in 1 .. Len(admissions)
        PROVE  /\ admissions[i].at \in Nat /\ admissions[i].at <= usage
               /\ usage # None
    <3>1. admissions[i] \in Entries
      BY DEF GateInv, GateType
    <3> QED
      BY <3>1 DEF GateInv, UsageIsLast, Entries
  <2>8. \/ admissions' = admissions
        \/ /\ gate[g].free
           /\ admissions' = Append(admissions, Entry(g))
    BY <2>1 DEF Recorded
  <2>9. /\ \A i \in 1 .. Len(admissions') :
             \/ i \in 1 .. Len(admissions) /\ admissions'[i] = admissions[i]
             \/ /\ gate[g].free /\ admissions'[i] = Entry(g)
                /\ i = Len(admissions) + 1
        /\ Len(admissions') \in {Len(admissions), Len(admissions) + 1}
    BY <2>8 DEF GateInv, GateType
  <2>10. UsageIsLast'
    BY <1>1, <2>1, <2>2, <2>7, <2>9 DEF UsageIsLast, Entry
  <2>11. ASSUME NEW i \in 1 .. Len(admissions'), NEW j \in 1 .. Len(admissions'),
                i < j, admissions'[j].found
         PROVE  admissions'[j].at >= admissions'[i].at + FreeCooldown
    <3>0. Len(admissions) \in Nat
      BY DEF GateInv, GateType
    <3>1. i \in 1 .. Len(admissions) /\ admissions'[i] = admissions[i]
      BY <2>9, <2>11, <3>0
    <3>2. CASE j \in 1 .. Len(admissions) /\ admissions'[j] = admissions[j]
      BY <2>11, <3>1, <3>2 DEF GateInv, CooldownKept
    <3>3. CASE gate[g].free /\ admissions'[j] = Entry(g)
      <4>1. gate[g].found /\ admissions'[j].at = gate[g].at
        BY <2>11, <3>3 DEF Entry
      <4>2. Record(g)
        BY <1>3, <4>1 DEF GateInv, LockKept, Insert
      <4>3. usage + FreeCooldown <= gate[g].at
        BY <3>3, <4>1, <4>2 DEF Record, GateInv, LockKept
      <4>4. usage \in Nat /\ admissions[i].at \in Nat /\ admissions[i].at <= usage
        BY <2>2, <2>7, <3>1
      <4> QED
        BY <2>2, <3>1, <4>1, <4>3, <4>4, BillingAssumption
    <3> QED
      BY <2>9, <3>2, <3>3
  <2>12. CooldownKept'
    BY <2>11 DEF CooldownKept
  <2> QED
    BY <2>4, <2>5, <2>6, <2>10, <2>12 DEF GateInv
<1> QED
  BY <1>2, <1>3
\* Two columns of a request are changed.
LEMMA PlaceAndValue ==
  ASSUME NEW r, r = [pc |-> r.pc, ask |-> r.ask, saw |-> r.saw], NEW pc, NEW v
  PROVE  /\ [r EXCEPT !.pc = pc, !.saw = v] = [pc |-> pc, ask |-> r.ask, saw |-> v]
         /\ [r EXCEPT !.pc = pc, !.ask = v] = [pc |-> pc, ask |-> v, saw |-> r.saw]
         /\ [r EXCEPT !.saw = v, !.pc = pc] = [pc |-> pc, ask |-> r.ask, saw |-> v]
<1> DEFINE q == [r EXCEPT !.pc = pc]
           s == [r EXCEPT !.saw = v]
<1>1. q = [pc |-> pc, ask |-> r.ask, saw |-> r.saw]
  OBVIOUS
<1>2. s = [pc |-> r.pc, ask |-> r.ask, saw |-> v]
  OBVIOUS
<1>3. /\ [q EXCEPT !.saw = v] = [pc |-> pc, ask |-> r.ask, saw |-> v]
      /\ [q EXCEPT !.ask = v] = [pc |-> pc, ask |-> v, saw |-> r.saw]
  <2> HIDE DEF q
  <2> QED
    BY <1>1
<1>4. [s EXCEPT !.pc = pc] = [pc |-> pc, ask |-> r.ask, saw |-> v]
  <2> HIDE DEF s
  <2> QED
    BY <1>2
<1>5. /\ [r EXCEPT !.pc = pc, !.saw = v] = [q EXCEPT !.saw = v]
      /\ [r EXCEPT !.pc = pc, !.ask = v] = [q EXCEPT !.ask = v]
      /\ [r EXCEPT !.saw = v, !.pc = pc] = [s EXCEPT !.pc = pc]
  OBVIOUS
<1> QED
  BY <1>3, <1>4, <1>5

LEMMA Arriving ==
  ASSUME NEW a
  PROVE  [Idle EXCEPT !.pc = "auth", !.ask = a] = [pc |-> "auth", ask |-> a, saw |-> None]
<1> DEFINE q == [Idle EXCEPT !.pc = "auth"]
<1>1. q = [pc |-> "auth", ask |-> None, saw |-> None]
  BY DEF Idle
<1>2. [q EXCEPT !.ask = a] = [pc |-> "auth", ask |-> a, saw |-> None]
  <2> HIDE DEF q
  <2> QED
    BY <1>1
<1> QED
  BY <1>2

\* Every step of a request before the policy, or beside it, gives the request
\* another place; none of them touches the plan.
LEMMA RequestMoves ==
  ASSUME AtPolicy, NEW c \in Clients,
         \/ \E a \in Requests : Arrive(c, a)
         \/ ReadProfile(c) \/ InsertProfile(c) \/ RereadProfile(c)
         \/ ReadProject(c) \/ ReadMember(c) \/ Create(c) \/ Load(c) \/ Write(c)
         \/ SaveKey(c) \/ ForgetKey(c) \/ ReadPreference(c)
  PROVE  /\ UNCHANGED billingVars
         /\ req[c].pc # "policy"
         /\ \E r : /\ req' = [req EXCEPT ![c] = r] /\ r.pc # "policy"
                   /\ r = [pc |-> r.pc, ask |-> r.ask, saw |-> r.saw]
<1> DEFINE Place(r) == /\ req' = [req EXCEPT ![c] = r] /\ r.pc # "policy"
                       /\ r = [pc |-> r.pc, ask |-> r.ask, saw |-> r.saw]
<1>0. req[c] = [pc |-> req[c].pc, ask |-> req[c].ask, saw |-> req[c].saw]
  BY DEF AtPolicy
<1>1. ASSUME Fail(c) \/ Answer(c)
      PROVE  Place(Idle)
  BY <1>1 DEF Fail, Answer, End, Idle
<1>2. ASSUME NEW pc, pc # "policy", Move(c, pc)
      PROVE  Place([req[c] EXCEPT !.pc = pc])
  BY <1>0, <1>2 DEF Move
<1>3. CASE \E a \in Requests : Arrive(c, a)
  <2>1. PICK a \in Requests : Arrive(c, a)
    BY <1>3
  <2>2. Place([Idle EXCEPT !.pc = "auth", !.ask = a])
    <3> DEFINE r == [Idle EXCEPT !.pc = "auth", !.ask = a]
    <3>1. req' = [req EXCEPT ![c] = r]
      BY <2>1 DEF Arrive
    <3>2. r = [pc |-> "auth", ask |-> a, saw |-> None]
      BY Arriving
    <3> HIDE DEF r
    <3>3. Place(r)
      BY <3>1, <3>2
    <3> QED
      BY <3>3 DEF r
  <2> QED
    BY <2>1, <2>2 DEF Arrive
<1>4. CASE ReadProfile(c) \/ InsertProfile(c) \/ RereadProfile(c)
  <2>1. PICK pc \in {"load", "project", "insert", "reread", "turned_away"} : Move(c, pc)
    BY <1>4 DEF ReadProfile, InsertProfile, RereadProfile, FirstCheck
  <2>2. Place([req[c] EXCEPT !.pc = pc])
    BY <1>2, <2>1
  <2> QED
    BY <1>4, <2>2 DEF ReadProfile, InsertProfile, RereadProfile
<1>5. CASE ReadProject(c)
  <2>1. UNCHANGED billingVars /\ req[c].pc # "policy"
    BY <1>5 DEF ReadProject
  <2>2. CASE Fail(c)
    BY <1>1, <2>1, <2>2
  <2>3. CASE ~ Fail(c)
    <3>1. PICK pc \in {"load", "member"} :
            req' = [req EXCEPT ![c].saw = project, ![c].pc = pc]
      BY <1>5, <2>3 DEF ReadProject
    <3>2. Place([req[c] EXCEPT !.saw = project, !.pc = pc])
      <4> DEFINE r == [req[c] EXCEPT !.saw = project, !.pc = pc]
      <4>1. r = [pc |-> pc, ask |-> req[c].ask, saw |-> project]
        BY <1>0, PlaceAndValue
      <4>2. req' = [req EXCEPT ![c] = r]
        BY <3>1
      <4> HIDE DEF r
      <4>3. Place(r)
        BY <4>1, <4>2
      <4> QED
        BY <4>3 DEF r
    <3> QED
      BY <2>1, <3>2
  <2> QED
    BY <2>2, <2>3
<1>6. CASE ReadMember(c) \/ Create(c) \/ ReadPreference(c)
  <2>1. UNCHANGED billingVars /\ req[c].pc # "policy"
    BY <1>6 DEF ReadMember, Create, ReadPreference
  <2>2. \/ Fail(c)
        \/ \E pc \in {"preference", "load", "key"} : Move(c, pc)
    BY <1>6 DEF ReadMember, Create, ReadPreference
  <2> QED
    BY <1>1, <1>2, <2>1, <2>2
<1>7. CASE Load(c)
  <2>1. UNCHANGED billingVars /\ req[c].pc # "policy"
    BY <1>7 DEF Load
  <2>2. \/ Fail(c) \/ Move(c, "create")
        \/ req' = [req EXCEPT ![c].pc = "write", ![c].saw = Loaded(c)]
    BY <1>7 DEF Load
  <2>3. ASSUME req' = [req EXCEPT ![c].pc = "write", ![c].saw = Loaded(c)]
        PROVE  Place([req[c] EXCEPT !.pc = "write", !.saw = Loaded(c)])
    <3> DEFINE r == [req[c] EXCEPT !.pc = "write", !.saw = Loaded(c)]
    <3>1. r = [pc |-> "write", ask |-> req[c].ask, saw |-> Loaded(c)]
      BY <1>0, PlaceAndValue
    <3>2. req' = [req EXCEPT ![c] = r]
      BY <2>3
    <3> HIDE DEF r
    <3>3. Place(r)
      BY <3>1, <3>2
    <3> QED
      BY <3>3 DEF r
  <2> QED
    BY <1>1, <1>2, <2>1, <2>2, <2>3
<1>8. CASE Write(c) \/ SaveKey(c) \/ ForgetKey(c)
  <2>1. UNCHANGED billingVars /\ req[c].pc # "policy"
    BY <1>8 DEF Write, SaveKey, ForgetKey
  <2>2. Fail(c) \/ Answer(c)
    BY <1>8 DEF Write, SaveKey, ForgetKey
  <2> QED
    BY <1>1, <2>1, <2>2
<1> QED
  BY <1>3, <1>4, <1>5, <1>6, <1>7, <1>8

LEMMA GateStep == GateInv /\ [AccountsNext]_vars => GateInv'
<1> SUFFICES ASSUME GateInv, [AccountsNext]_vars PROVE GateInv'
  OBVIOUS
<1>1. ASSUME NEW c \in Clients, NEW a \in Requests, Arrive(c, a)
      PROVE  GateInv'
  BY <1>1, RequestMoves, GateMove DEF GateInv
<1>2. ASSUME NEW c \in Clients, Handle(c)
      PROVE  GateInv'
  <2>1. CASE ReadKey(c) \/ Leave(c)
    BY <2>1, GatePassed
  <2>2. CASE ~ (ReadKey(c) \/ Leave(c))
    BY <1>2, <2>2, RequestMoves, GateMove DEF Handle, GateInv
  <2> QED
    BY <2>1, <2>2
<1>3. CASE BillingNext /\ UNCHANGED accountVars
  <2>1. UNCHANGED req
    BY <1>3 DEF accountVars
  <2>2. ASSUME NEW g \in Gates, Enforce(g)
        PROVE  GateInv'
    BY <2>1, <2>2, GatePlan, GateLook, GateRecord DEF Enforce
  <2> QED
    BY <1>3, <2>1, <2>2, GateStripe DEF BillingNext
<1>4. CASE UNCHANGED vars
  <2>1. AtPolicy'
    BY <1>4 DEF vars, accountVars, billingVars, gateVars, GateInv, AtPolicy
  <2> QED
    BY <1>4, <2>1, GateUntouched
    DEF vars, billingVars, gateVars, stripeVars, GateInv, GateType
<1> QED
  BY <1>1, <1>2, <1>3, <1>4 DEF AccountsNext

\* Two runs of the free plan are a cool-down apart, for any number of requests
\* at once, any cool-down and whatever Stripe and the webhook do meanwhile.
THEOREM RunsAreApart == Spec => []CooldownKept
<1>1. AccountsInit => GateInv
  BY GateInit
<1>2. GateInv /\ [AccountsNext]_vars => GateInv'
  BY GateStep
<1>3. GateInv => CooldownKept
  BY DEF GateInv
<1> QED
  BY <1>1, <1>2, <1>3, PTL DEF Spec
-----------------------------------------------------------------------------
(***************************************************************************)
(* The row of the plan follows the subscription.                           *)
(***************************************************************************)
HookStates == [pc : {"idle", "load", "write", "ask", "cancel"},
               event : StripeEvents \cup {None}, got : StripeStates \cup {None},
               loaded : PlanRows \cup {None}]

BillType ==
  /\ now \in Nat /\ paidUntil \in Nat
  /\ stripe \in [Subs -> StripeStates] /\ latest \in StripeStates
  /\ mail \subseteq StripeEvents
  /\ row \in PlanRows \cup {None}
  /\ newest \in Nat
  /\ hook \in [Hooks -> HookStates]

Begun(s) == stripe[s].status # "none"

\* A state that Stripe has, or had before one with a later version.
Genuine(s) ==
  /\ s.status # "none" /\ s.end > 0 /\ s.end <= paidUntil /\ Begun(s.sub)
  /\ s.version > 0 /\ s.version <= latest.version
  /\ s.version = latest.version => s = latest

GenuineEvent(e) == Begun(e.sub) /\ (e.state # None => e = Subscription(e.state) /\ Genuine(e.state))

OfCheckout(e) == e # None /\ e.state = None

\* A row of a subscription that there is or was, and an end of a period.
Grounded(r) == Begun(r.sub) /\ r.end <= paidUntil

\* Before the first checkout there is nothing.
StripeSound ==
  /\ latest.version > 0 => Genuine(latest)
  /\ latest.version = 0 => mail = {} /\ row = None /\ \A h \in Hooks : hook[h].pc = "idle"
  /\ \A s \in Subs : stripe[s].sub = s /\ (Begun(s) => Genuine(stripe[s]))

MailSound == \A e \in mail : GenuineEvent(e)

\* What a handler holds comes from Stripe: the state of its event, or the
\* answer to its inquiry, which comes after the row has been loaded.
HookSound(k) ==
  /\ k.event # None => GenuineEvent(k.event)
  /\ k.got # None => Genuine(k.got)
  /\ k.loaded # None => Grounded(k.loaded)
  /\ k.event # None /\ k.event.state # None => k.got = k.event.state /\ k.pc # "ask"
  /\ k.pc = "ask" => OfCheckout(k.event)
  /\ k.pc = "cancel" => k.event = None /\ k.loaded # None
  /\ k.pc = "write" /\ k.got = None => OfCheckout(k.event)
  /\ k.pc = "load" => k.event # None /\ (k.event.state = None => k.got = None)
  /\ OfCheckout(k.event) /\ (k.pc = "ask" \/ k.got # None) => k.loaded # None

HooksSound == \A h \in Hooks : HookSound(hook[h])

\* Columns of one state: a row without an end is that of a checkout.
SoundRow(r) ==
  \/ r.status = "checkout_completed" /\ r.end = 0
  \/ r.status \in {"active", "canceled"} /\ r.end > 0

RowsSound ==
  /\ row # None => Grounded(row)
  /\ {"endless", "mixed"} \cap flaws = {} =>
       /\ row # None => SoundRow(row)
       /\ \A h \in Hooks : hook[h].loaded # None => SoundRow(hook[h].loaded)

\* Nothing has been written that was older, or in part, or given up halfway.
Clean == flaws \subseteq {"endless"}

\* The last state at Stripe is still to come, or was the last to be written;
NewestSound ==
  /\ newest <= latest.version
  /\ Clean /\ latest.version > 0 =>
       Subscription(latest) \in mail \/ newest = latest.version

\* it is shown then, unless a handler of a checkout is to write the row again.
Rewriting(h) ==
  \/ hook[h].pc = "ask"
  \/ hook[h].pc = "write" /\ OfCheckout(hook[h].event) /\ hook[h].got # None

Shown ==
  Clean /\ latest.version > 0 /\ newest = latest.version =>
    \/ row = Columns(latest)
    \/ \E e \in mail : OfCheckout(e)
    \/ \E h \in Hooks : Rewriting(h)

BillInv == BillType /\ StripeSound /\ MailSound /\ HooksSound /\ RowsSound /\ NewestSound /\ Shown

LEMMA BillInit == AccountsInit => BillInv
<1> SUFFICES ASSUME AccountsInit PROVE BillInv
  OBVIOUS
<1>1. BillingInit /\ None \notin StripeEvents
  BY NoneAssumption DEF AccountsInit
<1>2. /\ \A s \in Subs : /\ stripe[s] \in StripeStates /\ stripe[s].sub = s
                         /\ stripe[s].status = "none" /\ stripe[s].version = 0
      /\ latest \in StripeStates /\ latest.version = 0
  <2>1. ASSUME NEW s \in Subs
        PROVE  /\ stripe[s] = State(s, "none", 0, TRUE, FALSE, 0)
               /\ stripe[s] \in StripeStates /\ stripe[s].sub = s
               /\ stripe[s].status = "none" /\ stripe[s].version = 0
    BY <1>1 DEF BillingInit, State, StripeStates
  <2>2. PICK s \in Subs : latest = stripe[s]
    BY <1>1 DEF BillingInit
  <2> QED
    BY <2>1, <2>2
<1>3. \A h \in Hooks : /\ hook[h] = IdleHook /\ hook[h].pc = "idle" /\ hook[h].event = None
                       /\ hook[h].got = None /\ hook[h].loaded = None
  BY <1>1 DEF BillingInit, IdleHook
<1>4. BillType
  <2>1. stripe \in [Subs -> StripeStates]
    BY <1>1, <1>2 DEF BillingInit
  <2>2. IdleHook \in HookStates
    BY DEF IdleHook, HookStates
  <2> QED
    BY <1>1, <1>2, <2>1, <2>2 DEF BillingInit, BillType
<1>5. StripeSound /\ MailSound
  <2>1. mail = {} /\ row = None
    BY <1>1 DEF BillingInit
  <2>2. ~ latest.version > 0
    BY ONLY <1>2
  <2>3. \A s \in Subs : stripe[s].sub = s /\ ~ Begun(s)
    BY <1>2 DEF Begun
  <2> QED
    BY <1>3, <2>1, <2>2, <2>3 DEF StripeSound, MailSound
<1>6. HooksSound
  BY <1>3 DEF HooksSound, HookSound, OfCheckout
<1>7. RowsSound /\ NewestSound /\ Shown
  BY <1>1, <1>2, <1>3 DEF BillingInit, RowsSound, NewestSound, Shown
<1> QED
  BY <1>4, <1>5, <1>6, <1>7 DEF BillInv

\* A step that leaves the plan and its subscriptions alone.
LEMMA BillUntouched ==
  ASSUME BillInv, UNCHANGED <<stripe, latest, paidUntil, mail, row, newest, flaws, hook>>, now' \in Nat
  PROVE  BillInv'
<1>1. BillType'
  BY DEF BillInv, BillType
<1>2. StripeSound' /\ MailSound' /\ HooksSound'
  BY DEF BillInv, StripeSound, MailSound, HooksSound, HookSound, GenuineEvent, Genuine, Begun, Grounded
<1>3. RowsSound' /\ NewestSound' /\ Shown'
  BY DEF BillInv, RowsSound, SoundRow, NewestSound, Shown, Rewriting, Grounded, Begun, Clean
<1> QED
  BY <1>1, <1>2, <1>3 DEF BillInv

\* A subscription changes, or none: what was true before stays so.
Onward ==
  /\ paidUntil <= paidUntil' /\ (latest' = latest \/ latest'.version = latest.version + 1)
  /\ \A s \in Subs : Begun(s) => Begun(s)'

LEMMA StillGenuine ==
  ASSUME BillType, BillType', Onward, NEW s \in StripeStates, Genuine(s)
  PROVE  Genuine(s)'
  BY DEF BillType, StripeStates, Genuine, Onward

LEMMA StillGenuineEvent ==
  ASSUME BillType, BillType', Onward, NEW e \in StripeEvents, GenuineEvent(e)
  PROVE  GenuineEvent(e)'
<1>1. e.sub \in Subs /\ Begun(e.sub)'
  BY DEF GenuineEvent, Onward, StripeEvents
<1>2. ASSUME e.state # None
      PROVE  e = Subscription(e.state) /\ Genuine(e.state)'
  <2>1. e.state \in StripeStates /\ Genuine(e.state) /\ e = Subscription(e.state)
    BY <1>2 DEF GenuineEvent, StripeEvents
  <2>2. Genuine(e.state)'
    BY <2>1, StillGenuine
  <2> QED
    BY <2>1, <2>2
<1> QED
  BY <1>1, <1>2 DEF GenuineEvent

LEMMA StillGrounded ==
  ASSUME BillType, BillType', Onward, NEW r \in PlanRows, Grounded(r)
  PROVE  Grounded(r)'
<1>1. r.sub \in Subs /\ r.end \in Nat /\ paidUntil \in Nat /\ paidUntil' \in Nat
  BY DEF PlanRows, BillType
<1> QED
  BY <1>1 DEF Grounded, Onward

LEMMA StillSound ==
  ASSUME BillType, BillType', Onward, NEW k \in HookStates, HookSound(k)
  PROVE  HookSound(k)'
<1>1. k.event # None => GenuineEvent(k.event)'
  BY StillGenuineEvent DEF HookSound, HookStates
<1>2. k.got # None => Genuine(k.got)'
  BY StillGenuine DEF HookSound, HookStates
<1>3. k.loaded # None => Grounded(k.loaded)'
  BY StillGrounded DEF HookSound, HookStates
<1> QED
  BY <1>1, <1>2, <1>3 DEF HookSound, OfCheckout

\* A subscription changes, and the answer to a cancellation may carry it.
LEMMA BillBecomes ==
  ASSUME BillInv, NEW s \in StripeStates, NEW events \in SUBSET {CheckoutDone(s.sub)},
         Becomes(s, events), UNCHANGED <<row, newest, flaws, now>>,
         s.status # "none", s.end > 0, s.version = latest.version + 1,
         s.status = "active" \/ s.end <= paidUntil,
         BillType',
         NEW hooks \in SUBSET Hooks,
         \A h \in Hooks \ hooks : hook'[h] = hook[h],
         \A h \in hooks : /\ hook'[h].got = s /\ hook'[h].event = None
                          /\ hook'[h].pc = "write" /\ hook'[h].loaded = hook[h].loaded
  PROVE  BillInv'
<1>0. s.sub \in Subs /\ s.end \in Nat /\ s.version \in Nat /\ latest.version \in Nat
  BY DEF BillInv, BillType, StripeStates
<1>1. /\ stripe' = [stripe EXCEPT ![s.sub] = s] /\ latest' = s
      /\ mail' = mail \cup events \cup {Subscription(s)}
      /\ paidUntil \in Nat /\ paidUntil' \in Nat /\ paidUntil <= paidUntil' /\ s.end <= paidUntil'
      /\ latest.version < s.version
  BY <1>0 DEF Becomes, BillInv, BillType
<1>2. /\ stripe'[s.sub] = s /\ \A x \in Subs \ {s.sub} : stripe'[x] = stripe[x]
  BY <1>0, <1>1 DEF BillInv, BillType
<1>3. Begun(s.sub)' /\ Onward /\ BillType
  BY <1>0, <1>1, <1>2 DEF Begun, Onward, BillInv
<1>4. Genuine(s)'
  BY <1>0, <1>1, <1>3 DEF Genuine
<1>5. StripeSound'
  <2>1. ASSUME NEW x \in Subs
        PROVE  stripe'[x].sub = x /\ (Begun(x)' => Genuine(stripe[x])')
    <3>1. CASE x = s.sub
      BY <1>2, <1>4, <3>1
    <3>2. CASE x # s.sub
      <4>1. stripe'[x] = stripe[x] /\ stripe[x] \in StripeStates /\ stripe[x].sub = x
        BY <1>2, <3>2 DEF BillInv, BillType, StripeSound
      <4>2. PICK v \in StripeStates : v = stripe[x]
        BY <4>1
      <4>3. Begun(x) => Genuine(v)
        BY <4>2 DEF BillInv, StripeSound
      <4>4. Begun(x)' => Begun(x)
        BY <4>1 DEF Begun
      <4>5. Begun(x)' => Genuine(v)'
        BY <1>3, <4>3, <4>4, StillGenuine
      <4> QED
        BY <4>1, <4>2, <4>5
    <3> QED
      BY <3>1, <3>2
  <2>2. latest' = s /\ ~ s.version = 0
    BY <1>0, <1>1
  <2> QED
    BY <1>4, <2>1, <2>2 DEF StripeSound
<1>6. MailSound'
  <2>1. GenuineEvent(Subscription(s))'
    BY <1>3, <1>4 DEF GenuineEvent, Subscription
  <2>2. ASSUME NEW e \in mail PROVE GenuineEvent(e)'
    BY <1>3, StillGenuineEvent DEF BillInv, BillType, MailSound
  <2>3. ASSUME NEW e \in events PROVE GenuineEvent(e)'
    BY <1>3 DEF GenuineEvent, CheckoutDone
  <2> QED
    BY <1>1, <2>1, <2>2, <2>3 DEF MailSound
<1>7. HooksSound'
  <2>1. ASSUME NEW k \in HookStates, HookSound(k)
        PROVE  HookSound(k)'
    BY <1>3, <2>1, StillSound
  <2>2. s # None
    BY NoneAssumption
  <2>3. ASSUME NEW h \in hooks
        PROVE  HookSound(hook[h])'
    <3>1. PICK k, o \in HookStates : k = hook'[h] /\ o = hook[h]
      BY DEF BillInv, BillType
    <3>2. HookSound(o)'
      BY <2>1, <3>1 DEF BillInv, HooksSound
    <3>3. k.event = None /\ k.got = s /\ k.pc = "write" /\ k.loaded = o.loaded
      BY <3>1
    <3>4. HookSound(k)'
      BY <1>4, <2>2, <3>2, <3>3 DEF HookSound, OfCheckout
    <3> QED
      BY <3>1, <3>4
  <2> QED
    <3>1. ASSUME NEW h \in Hooks \ hooks
          PROVE  HookSound(hook[h])'
      <4>1. PICK k \in HookStates : k = hook[h] /\ k = hook'[h]
        BY DEF BillInv, BillType
      <4>2. HookSound(k)'
        BY <2>1, <4>1 DEF BillInv, HooksSound
      <4> QED
        BY <4>1, <4>2
    <3> QED
      BY <2>3, <3>1 DEF HooksSound
<1>8. RowsSound'
  <2>1. row # None => Grounded(row)'
    BY <1>3, StillGrounded DEF BillInv, BillType, RowsSound
  <2> QED
    BY <2>1 DEF BillInv, BillType, HookStates, RowsSound, SoundRow
<1>9. NewestSound' /\ Shown'
  BY <1>0, <1>1 DEF BillInv, BillType, NewestSound, Shown
<1> QED
  BY <1>5, <1>6, <1>7, <1>8, <1>9 DEF BillInv

\* A handler goes on and nothing else changes.
LEMMA BillGo ==
  ASSUME BillInv, UNCHANGED <<now, stripe, latest, paidUntil, mail, row, newest, flaws>>,
         NEW h \in Hooks, NEW k \in HookStates, hook' = [hook EXCEPT ![h] = k],
         HookSound(k), latest.version > 0, k.loaded \in {None, row, hook[h].loaded},
         Rewriting(h) => k.pc = "write" /\ OfCheckout(k.event) /\ k.got # None
  PROVE  BillInv'
<1>1. /\ hook'[h] = k /\ \A x \in Hooks \ {h} : hook'[x] = hook[x]
      /\ \A x \in Hooks : hook[x] \in HookStates /\ HookSound(hook[x])
  BY DEF BillInv, BillType, HooksSound
<1>2. BillType'
  BY DEF BillInv, BillType
<1>3. StripeSound' /\ MailSound'
  BY <1>1 DEF BillInv, StripeSound, MailSound, GenuineEvent, Genuine, Begun
<1>4. HooksSound'
  <2>1. ASSUME NEW x \in HookStates, HookSound(x)
        PROVE  HookSound(x)'
    BY <2>1 DEF HookSound, GenuineEvent, Genuine, Begun, Grounded
  <2> QED
    BY <1>1, <2>1 DEF HooksSound
<1>5. RowsSound'
  BY <1>1 DEF BillInv, RowsSound, SoundRow, Grounded, Begun
<1>6. NewestSound'
  BY DEF BillInv, NewestSound, Clean
<1>7. Shown'
  <2>1. ASSUME NEW x \in Hooks, Rewriting(x)
        PROVE  Rewriting(x)'
    <3>1. CASE x = h
      BY <1>1, <2>1, <3>1 DEF Rewriting
    <3>2. CASE x # h
      BY <1>1, <2>1, <3>2 DEF Rewriting
    <3> QED
      BY <3>1, <3>2
  <2> QED
    BY <2>1 DEF BillInv, Shown, Clean
<1> QED
  BY <1>2, <1>3, <1>4, <1>5, <1>6, <1>7 DEF BillInv

\* While a handler runs, an event is under way or the row is there, there is or
\* was a subscription.
LEMMA Subscribed ==
  ASSUME BillInv, mail # {} \/ row # None \/ \E h \in Hooks : hook[h].pc # "idle"
  PROVE  latest.version > 0 /\ Genuine(latest)
  BY DEF BillInv, BillType, StripeStates, StripeSound

\* A state a subscription comes to.
LEMMA StateIs ==
  ASSUME NEW s \in Subs, NEW status \in {"active", "canceled"}, NEW end \in Nat, NEW told \in BOOLEAN,
         NEW cancel \in BOOLEAN, NEW version \in Nat
  PROVE  \E v \in StripeStates : /\ v = State(s, status, end, told, cancel, version)
                                 /\ v.sub = s /\ v.status = status /\ v.end = end /\ v.version = version
<1> DEFINE v == State(s, status, end, told, cancel, version)
<1>1. v \in StripeStates /\ v.sub = s /\ v.status = status /\ v.end = end /\ v.version = version
  BY DEF State, StripeStates
<1>2. PICK w : w = v
  OBVIOUS
<1> QED
  BY <1>1, <1>2

LEMMA BillStripe ==
  ASSUME BillInv, NEW x \in Subs, Checkout(x) \/ Renew(x) \/ Lapse(x)
  PROVE  BillInv'
<1>1. /\ now \in Nat /\ paidUntil \in Nat /\ Period \in Nat \ {0}
      /\ stripe[x] \in StripeStates /\ latest.version \in Nat
      /\ UNCHANGED <<row, newest, flaws, now, hook>>
  BY BillingAssumption DEF BillInv, BillType, StripeStates, Checkout, Renew, Lapse, rowVars
<1>2. Next1 \in Nat /\ Next1 = latest.version + 1
  BY <1>1 DEF Next1
<1>3. PICK n \in Nat : n = now + Period /\ n > 0
  BY <1>1
<1> DEFINE Is(s, status, end) == s.sub = x /\ s.status = status /\ s.end = end /\ s.version = Next1
<1>11. ASSUME NEW told \in BOOLEAN
       PROVE  \E s \in StripeStates :
                s = State(x, "active", n, told, FALSE, Next1) /\ Is(s, "active", n)
  <2>1. PICK no \in BOOLEAN : no = FALSE
    OBVIOUS
  <2>2. PICK status \in {"active", "canceled"} : status = "active"
    OBVIOUS
  <2>3. \E v \in StripeStates : /\ v = State(x, status, n, told, no, Next1)
                                /\ v.sub = x /\ v.status = status /\ v.end = n /\ v.version = Next1
    BY ONLY <1>2, StateIs, <1>11, <2>1, <2>2, x \in Subs, n \in Nat
  <2> QED
    BY <2>1, <2>2, <2>3
<1>4. \E s \in StripeStates : \E events \in SUBSET {CheckoutDone(s.sub)} :
        /\ Becomes(s, events)
        /\ s.status # "none" /\ s.end > 0 /\ s.version = latest.version + 1
        /\ s.status = "active" \/ s.end <= paidUntil
  <2>1. CASE Checkout(x)
    <3>1. PICK told \in BOOLEAN :
            Becomes(State(x, "active", n, told, FALSE, Next1), {CheckoutDone(x)})
      BY <1>3, <2>1 DEF Checkout
    <3>2. PICK s \in StripeStates :
            s = State(x, "active", n, told, FALSE, Next1) /\ Is(s, "active", n)
      BY <1>11
    <3> QED
      BY <1>2, <1>3, <3>1, <3>2
  <2>2. CASE Renew(x)
    <3>1. stripe[x].told \in BOOLEAN
      BY <1>1 DEF StripeStates
    <3>2. PICK s \in StripeStates :
            s = State(x, "active", n, stripe[x].told, FALSE, Next1) /\ Is(s, "active", n)
      BY <1>11, <3>1
    <3>3. Becomes(s, {})
      BY <1>3, <2>2, <3>2 DEF Renew
    <3> QED
      BY <1>2, <1>3, <3>2, <3>3
  <2>3. CASE Lapse(x)
    <3>1. /\ stripe[x].told \in BOOLEAN /\ stripe[x].cancel \in BOOLEAN /\ stripe[x].end \in Nat
      BY <1>1 DEF StripeStates
    <3>2. stripe[x].end > 0 /\ stripe[x].end <= paidUntil
      BY <2>3 DEF Lapse, BillInv, StripeSound, Begun, Genuine
    <3>3. PICK s \in StripeStates :
            /\ s = State(x, "canceled", stripe[x].end, stripe[x].told, stripe[x].cancel, Next1)
            /\ s.sub = x /\ s.status = "canceled" /\ s.end = stripe[x].end /\ s.version = Next1
      BY <1>2, <3>1, StateIs
    <3>4. Becomes(s, {})
      BY <2>3, <3>3 DEF Lapse
    <3> QED
      BY <1>2, <3>2, <3>3, <3>4
  <2> QED
    BY <2>1, <2>2, <2>3
<1>9. PICK s \in StripeStates : \E events \in SUBSET {CheckoutDone(s.sub)} :
        /\ Becomes(s, events)
        /\ s.status # "none" /\ s.end > 0 /\ s.version = latest.version + 1
        /\ s.status = "active" \/ s.end <= paidUntil
  BY <1>4
<1>10. PICK events \in SUBSET {CheckoutDone(s.sub)} :
        /\ Becomes(s, events)
        /\ s.status # "none" /\ s.end > 0 /\ s.version = latest.version + 1
        /\ s.status = "active" \/ s.end <= paidUntil
  BY <1>9
<1>5. /\ paidUntil' = IF s.status = "active" /\ s.end > paidUntil THEN s.end ELSE paidUntil
      /\ mail' = mail \cup events \cup {Subscription(s)}
      /\ stripe' = [stripe EXCEPT ![s.sub] = s] /\ latest' = s
  BY <1>10 DEF Becomes
<1>6. BillType'
  <2>1. Subscription(s) \in StripeEvents /\ CheckoutDone(s.sub) \in StripeEvents /\ s.end \in Nat
    BY <1>10 DEF Subscription, CheckoutDone, StripeEvents, StripeStates
  <2> QED
    BY <1>1, <1>10, <1>5, <2>1 DEF BillInv, BillType
<1> DEFINE none == {h \in Hooks : FALSE}
<1>7. none \in SUBSET Hooks /\ \A h \in Hooks \ none : hook'[h] = hook[h]
  BY <1>1
<1>8. \A h \in none : /\ hook'[h].got = s /\ hook'[h].event = None
                      /\ hook'[h].pc = "write" /\ hook'[h].loaded = hook[h].loaded
  OBVIOUS
<1> HIDE DEF none
<1> QED
  BY <1>1, <1>10, <1>6, <1>7, <1>8, BillBecomes

\* An idle handler takes an event, or the cancellation of a row.
LEMMA FromIdle ==
  ASSUME NEW e, NEW s, NEW r
  PROVE  /\ [IdleHook EXCEPT !.pc = "load", !.event = e, !.got = s]
              = [pc |-> "load", event |-> e, got |-> s, loaded |-> None]
         /\ [IdleHook EXCEPT !.pc = "cancel", !.loaded = r]
              = [pc |-> "cancel", event |-> None, got |-> None, loaded |-> r]
<1> DEFINE one == [IdleHook EXCEPT !.pc = "load"]
           two == [one EXCEPT !.event = e]
           other == [IdleHook EXCEPT !.pc = "cancel"]
<1>1. one = [pc |-> "load", event |-> None, got |-> None, loaded |-> None]
  BY DEF IdleHook
<1>2. other = [pc |-> "cancel", event |-> None, got |-> None, loaded |-> None]
  BY DEF IdleHook
<1>3. two = [pc |-> "load", event |-> e, got |-> None, loaded |-> None]
  <2> HIDE DEF one
  <2> QED
    BY <1>1
<1>4. [two EXCEPT !.got = s] = [pc |-> "load", event |-> e, got |-> s, loaded |-> None]
  <2> HIDE DEF two
  <2> QED
    BY <1>3
<1>5. [other EXCEPT !.loaded = r] = [pc |-> "cancel", event |-> None, got |-> None, loaded |-> r]
  <2> HIDE DEF other
  <2> QED
    BY <1>2
<1> QED
  BY <1>4, <1>5

LEMMA BillHandlers ==
  ASSUME BillInv, NEW h \in Hooks,
         (\E e \in mail : Deliver(h, e)) \/ LoadRow(h) \/ Ask(h) \/ Cancel(h)
  PROVE  BillInv'
<1>1. UNCHANGED <<now, stripe, latest, paidUntil, mail, row, newest, flaws>>
  BY DEF Deliver, LoadRow, Ask, Cancel, stripeVars
<1>2. /\ hook[h] \in HookStates /\ HookSound(hook[h]) /\ row \in PlanRows \cup {None}
      /\ None \notin StripeStates \cup PlanRows \cup StripeEvents
      /\ row # None => Grounded(row)
  BY NoneAssumption DEF BillInv, BillType, HooksSound, RowsSound
<1>3. latest.version > 0
  BY Subscribed DEF Deliver, LoadRow, Ask, Cancel
<1>4. CASE \E e \in mail : Deliver(h, e)
  <2>1. PICK e \in mail : Deliver(h, e)
    BY <1>4
  <2>2. e \in StripeEvents /\ GenuineEvent(e)
    BY DEF BillInv, BillType, MailSound
  <2> DEFINE k == [pc |-> "load", event |-> e, got |-> e.state, loaded |-> None]
  <2>3. hook' = [hook EXCEPT ![h] = k] /\ hook[h].pc = "idle"
    BY <2>1, FromIdle DEF Deliver, Go
  <2>4. k \in HookStates /\ k.loaded = None
    BY <2>2 DEF HookStates, StripeEvents
  <2>5. HookSound(k)
    BY <1>2, <2>2 DEF HookSound, GenuineEvent, OfCheckout
  <2> HIDE DEF k
  <2> QED
    BY <1>1, <1>3, <2>3, <2>4, <2>5, BillGo DEF Rewriting
<1>5. CASE LoadRow(h)
  <2> DEFINE k == [hook[h] EXCEPT !.pc = "write", !.loaded = row]
  <2>1. hook' = [hook EXCEPT ![h] = k] /\ hook[h].pc = "load"
    BY <1>5 DEF LoadRow, Go
  <2>2. /\ k \in HookStates /\ k.pc = "write" /\ k.loaded = row
        /\ k.event = hook[h].event /\ k.got = hook[h].got
    BY <1>2 DEF HookStates
  <2> HIDE DEF k
  <2>3. HookSound(k)
    BY <1>2, <2>1, <2>2 DEF HookSound, OfCheckout
  <2> QED
    BY <1>1, <1>3, <2>1, <2>2, <2>3, BillGo DEF Rewriting
<1>6. CASE Ask(h)
  <2>1. OfCheckout(hook[h].event) /\ hook[h].event \in StripeEvents /\ GenuineEvent(hook[h].event)
    BY <1>2, <1>6 DEF Ask, HookSound, HookStates, OfCheckout
  <2>2. PICK v \in StripeStates : v = stripe[hook[h].event.sub] /\ Genuine(v)
    BY <2>1 DEF BillInv, BillType, StripeSound, GenuineEvent, StripeEvents
  <2> DEFINE k == [hook[h] EXCEPT !.pc = "write", !.got = v]
  <2>3. hook' = [hook EXCEPT ![h] = k] /\ hook[h].pc = "ask"
    BY <1>6, <2>2 DEF Ask, Go
  <2>4. /\ k \in HookStates /\ k.pc = "write" /\ k.got = v
        /\ k.event = hook[h].event /\ k.loaded = hook[h].loaded
    BY <1>2, <2>2 DEF HookStates
  <2> HIDE DEF k
  <2>5. HookSound(k) /\ OfCheckout(k.event) /\ k.got # None
    BY <1>2, <2>1, <2>2, <2>3, <2>4 DEF HookSound, OfCheckout
  <2> QED
    BY <1>1, <1>3, <2>3, <2>4, <2>5, BillGo DEF Rewriting
<1>7. CASE Cancel(h)
  <2> DEFINE k == [pc |-> "cancel", event |-> None, got |-> None, loaded |-> row]
  <2>1. hook' = [hook EXCEPT ![h] = k] /\ hook[h].pc = "idle" /\ row # None
    BY <1>7, FromIdle DEF Cancel, Go
  <2>2. k \in HookStates /\ k.loaded = row
    BY <1>2 DEF HookStates
  <2>3. HookSound(k)
    BY <1>2, <2>1 DEF HookSound, OfCheckout
  <2> HIDE DEF k
  <2> QED
    BY <1>1, <1>3, <2>1, <2>2, <2>3, BillGo DEF Rewriting
<1> QED
  BY <1>4, <1>5, <1>6, <1>7

LEMMA BillCancelled ==
  ASSUME BillInv, NEW h \in Hooks, Cancelled(h)
  PROVE  BillInv'
<1>1. /\ UNCHANGED <<now, row, newest, flaws>>
      /\ hook[h] \in HookStates /\ HookSound(hook[h])
      /\ hook[h].pc = "cancel" /\ hook[h].event = None /\ hook[h].loaded # None
      /\ None \notin StripeStates /\ Grounded(hook[h].loaded)
  BY NoneAssumption
  DEF Cancelled, BillInv, BillType, HooksSound, HookSound
<1>2. latest.version > 0 /\ latest.version \in Nat
  BY <1>1, Subscribed DEF BillInv, BillType, StripeStates
<1>3. PICK v \in StripeStates : v = stripe[hook[h].loaded.sub] /\ Genuine(v) /\ v.sub \in Subs
  BY <1>1 DEF BillInv, BillType, StripeSound, Grounded, HookStates, PlanRows
<1>4. CASE v.status = "active" /\ ~ v.cancel
  <2>1. PICK s : s = [v EXCEPT !.cancel = TRUE, !.version = Next1]
    OBVIOUS
  <2>2. /\ s \in StripeStates /\ s.status = "active" /\ s.end = v.end /\ s.end \in Nat
        /\ s.version = latest.version + 1 /\ s.sub = v.sub
    <3>1. Next1 \in Nat /\ Next1 = latest.version + 1
      BY <1>2 DEF Next1
    <3>2. PICK w : w = [v EXCEPT !.cancel = TRUE]
      OBVIOUS
    <3>3. /\ w \in StripeStates /\ w.status = v.status /\ w.end = v.end /\ w.sub = v.sub
      BY <1>3, <3>2 DEF StripeStates
    <3>4. s = [w EXCEPT !.version = Next1]
      BY <2>1, <3>2
    <3>5. /\ s \in StripeStates /\ s.status = w.status /\ s.end = w.end /\ s.sub = w.sub
          /\ s.version = Next1
      BY <3>1, <3>3, <3>4 DEF StripeStates
    <3> QED
      BY <1>4, <3>1, <3>3, <3>5 DEF StripeStates
  <2> DEFINE k == [hook[h] EXCEPT !.pc = "write", !.got = s]
  <2>3. Becomes(s, {}) /\ hook' = [hook EXCEPT ![h] = k]
    BY <1>3, <1>4, <2>1 DEF Cancelled, Go
  <2>4. /\ k \in HookStates /\ k.pc = "write" /\ k.got = s /\ k.event = None
        /\ k.loaded = hook[h].loaded
    BY <1>1, <2>2 DEF HookStates
  <2> HIDE DEF k
  <2>5. /\ hook'[h] = k
        /\ \A x \in Hooks \ {h} : hook'[x] = hook[x]
        /\ hook' \in [Hooks -> HookStates]
    BY <2>3, <2>4 DEF BillInv, BillType
  <2>6. /\ stripe' = [stripe EXCEPT ![s.sub] = s] /\ latest' = s
        /\ mail' = mail \cup {Subscription(s)}
        /\ paidUntil' = IF s.status = "active" /\ s.end > paidUntil THEN s.end ELSE paidUntil
    BY <2>3 DEF Becomes
  <2>7. s.end > 0 /\ s.status # "none"
    BY <1>3, <2>2 DEF Genuine
  <2>8. BillType'
    <3>1. Subscription(s) \in StripeEvents
      BY <1>3, <2>2 DEF Subscription, StripeEvents
    <3> QED
      BY <1>1, <2>2, <2>5, <2>6, <3>1 DEF BillInv, BillType
  <2>9. \A x \in {h} : /\ hook'[x].got = s /\ hook'[x].event = None
                       /\ hook'[x].pc = "write" /\ hook'[x].loaded = hook[x].loaded
    BY <2>4, <2>5
  <2>10. {} \in SUBSET {CheckoutDone(s.sub)} /\ {h} \in SUBSET Hooks
    OBVIOUS
  <2> QED
    BY <1>1, <2>2, <2>3, <2>5, <2>7, <2>8, <2>9, <2>10, BillBecomes
<1>5. CASE ~ (v.status = "active" /\ ~ v.cancel)
  <2> DEFINE k == [hook[h] EXCEPT !.pc = "write", !.got = v]
  <2>1. /\ hook' = [hook EXCEPT ![h] = k]
        /\ UNCHANGED <<now, stripe, latest, paidUntil, mail, row, newest, flaws>>
    BY <1>3, <1>5 DEF Cancelled, Go
  <2>2. /\ k \in HookStates /\ k.pc = "write" /\ k.got = v /\ k.event = None
        /\ k.loaded = hook[h].loaded
    BY <1>1, <1>3 DEF HookStates
  <2> HIDE DEF k
  <2>3. HookSound(k)
    BY <1>1, <1>3, <2>2 DEF HookSound, OfCheckout
  <2> QED
    BY <1>1, <1>2, <2>1, <2>2, <2>3, BillGo DEF Rewriting
<1> QED
  BY <1>4, <1>5

\* An idle handler holds nothing.
LEMMA IdleSound == IdleHook \in HookStates /\ HookSound(IdleHook) /\ IdleHook.loaded = None
  BY DEF IdleHook, HookStates, HookSound, OfCheckout

LEMMA BillHookFails ==
  ASSUME BillInv, NEW h \in Hooks, HookFails(h)
  PROVE  BillInv'
<1>1. /\ UNCHANGED <<now, stripe, latest, paidUntil, mail, row, newest>>
      /\ hook' = [hook EXCEPT ![h] = IdleHook]
      /\ flaws \subseteq flaws' /\ flaws' \subseteq flaws \cup {"halfway"}
      /\ hook[h].pc \in {"write", "ask", "cancel"}
      /\ hook[h].pc = "write" => hook[h].loaded = None
      /\ hook[h].pc = "ask" /\ hook[h].event \notin mail => "halfway" \in flaws'
  BY DEF HookFails, EndHook, Go, Conflict
<1>2. /\ hook'[h] = IdleHook /\ \A x \in Hooks \ {h} : hook'[x] = hook[x]
      /\ \A x \in Hooks : hook[x] \in HookStates /\ HookSound(hook[x])
  BY <1>1 DEF BillInv, BillType, HooksSound
<1>3. BillType'
  BY <1>1, IdleSound DEF BillInv, BillType
<1>4. latest.version > 0
  BY <1>1, Subscribed
<1>5. StripeSound' /\ MailSound'
  BY <1>1, <1>4 DEF BillInv, StripeSound, MailSound, GenuineEvent, Genuine, Begun
<1>6. HooksSound'
  <2>1. ASSUME NEW x \in HookStates, HookSound(x)
        PROVE  HookSound(x)'
    BY <1>1, <2>1 DEF HookSound, GenuineEvent, Genuine, Begun, Grounded
  <2> QED
    BY <1>2, <2>1, IdleSound DEF HooksSound
<1>7. RowsSound'
  BY <1>1, <1>2, IdleSound DEF BillInv, RowsSound, SoundRow, Grounded, Begun
<1>8. NewestSound'
  BY <1>1 DEF BillInv, NewestSound, Clean
<1>9. Shown'
  <2> SUFFICES ASSUME Clean', latest.version > 0, newest = latest.version,
                      row # Columns(latest), ~ \E e \in mail : OfCheckout(e)
               PROVE  \E x \in Hooks : Rewriting(x)'
    BY <1>1 DEF Shown, OfCheckout
  <2>1. Clean /\ "halfway" \notin flaws'
    BY <1>1 DEF Clean
  <2>2. PICK x \in Hooks : Rewriting(x)
    BY <2>1 DEF BillInv, Shown
  <2>3. x # h
    BY <1>1, <1>2, <2>1, <2>2 DEF Rewriting, HookSound
  <2> QED
    BY <1>2, <2>2, <2>3 DEF Rewriting, OfCheckout
<1> QED
  BY <1>3, <1>5, <1>6, <1>7, <1>8, <1>9 DEF BillInv

\* A row that is written is a row, and is sound when the columns were loaded from
\* a sound row and those of a completed checkout are written over one.
LEMMA WrittenRow ==
  ASSUME NEW loaded \in PlanRows \cup {None}, NEW wanted \in PlanRows, NEW there \in PlanRows
  PROVE  /\ Written(loaded, wanted, there) \in PlanRows
         /\ \A c \in {"sub", "status", "end", "cancel"} :
              Written(loaded, wanted, there)[c]
                = IF loaded # None /\ loaded[c] = wanted[c] THEN there[c] ELSE wanted[c]
<1> DEFINE w == Written(loaded, wanted, there)
<1>1. DOMAIN wanted = {"sub", "status", "end", "cancel"}
  BY DEF PlanRows
<1>2. w = [c \in {"sub", "status", "end", "cancel"} |->
             IF loaded # None /\ loaded[c] = wanted[c] THEN there[c] ELSE wanted[c]]
  BY <1>1 DEF Written
<1>3. /\ w["status"] \in {"checkout_completed", "active", "canceled"} /\ w["sub"] \in Subs
      /\ w["end"] \in Nat /\ w["cancel"] \in BOOLEAN
  BY <1>2 DEF PlanRows
<1>4. w \in PlanRows
  <2> HIDE DEF w
  <2>1. w = [sub |-> w["sub"], status |-> w["status"], end |-> w["end"], cancel |-> w["cancel"]]
    BY <1>2
  <2> QED
    BY <1>3, <2>1 DEF PlanRows
<1> QED
  BY <1>2, <1>4

\* What is written comes from Stripe or from the row.
LEMMA WantedRow ==
  ASSUME BillInv, NEW h \in Hooks, hook[h].pc = "write"
  PROVE  /\ Wanted(h) \in PlanRows /\ Grounded(Wanted(h))
         /\ hook[h].got = None => /\ Wanted(h).status = "checkout_completed" /\ Wanted(h).end = 0
                                  /\ OfCheckout(hook[h].event)
         /\ hook[h].got # None => /\ Wanted(h) = Columns(hook[h].got)
                                  /\ hook[h].got \in StripeStates /\ Genuine(hook[h].got)
                                  /\ hook[h].got.told => SoundRow(Wanted(h))
<1>1. hook[h] \in HookStates /\ HookSound(hook[h]) /\ paidUntil \in Nat
  BY DEF BillInv, BillType, HooksSound
<1>2. CASE hook[h].got = None
  <2>1. OfCheckout(hook[h].event) /\ hook[h].event \in StripeEvents /\ GenuineEvent(hook[h].event)
    BY <1>1, <1>2 DEF HookSound, HookStates, OfCheckout
  <2>2. PICK s \in Subs : s = hook[h].event.sub /\ Begun(s)
    BY <2>1 DEF GenuineEvent, StripeEvents
  <2>3. PICK w : w = Wanted(h) /\ w = Row(s, "checkout_completed", 0, FALSE)
    BY <1>2, <2>2 DEF Wanted, Completed
  <2>4. w \in PlanRows /\ w.sub = s /\ w.status = "checkout_completed" /\ w.end = 0
    BY <2>3 DEF Row, PlanRows
  <2>5. Grounded(w)
    BY <1>1, <2>2, <2>4 DEF Grounded
  <2> QED
    BY <1>2, <2>1, <2>3, <2>4, <2>5
<1>3. CASE hook[h].got # None
  <2>1. PICK got \in StripeStates : got = hook[h].got /\ Genuine(got)
    BY <1>1, <1>3 DEF HookStates, HookSound
  <2>2. PICK n \in Nat : n = (IF got.told THEN got.end ELSE 0) /\ n <= paidUntil
    BY <1>1, <2>1 DEF StripeStates, Genuine
  <2>3. PICK w : w = Wanted(h) /\ w = Columns(got) /\ w = Row(got.sub, got.status, n, got.cancel)
    BY <1>3, <2>1, <2>2 DEF Wanted, Columns
  <2>4. w \in PlanRows /\ w.sub = got.sub /\ w.status = got.status /\ w.end = n
    BY <2>1, <2>3 DEF Row, PlanRows, StripeStates, Genuine
  <2>5. Grounded(w) /\ (got.told => SoundRow(w))
    BY <2>1, <2>2, <2>4 DEF Grounded, Genuine, SoundRow, StripeStates
  <2> QED
    BY <1>3, <2>1, <2>3, <2>4, <2>5
<1> QED
  BY <1>2, <1>3

LEMMA BillWriteRow ==
  ASSUME BillInv, NEW h \in Hooks, WriteRow(h)
  PROVE  BillInv'
<1>0. /\ hook[h].pc = "write" /\ (hook[h].loaded = None => row = None)
      /\ UNCHANGED <<now, stripe, latest, paidUntil>>
  BY DEF WriteRow, Conflict
<1>1. PICK wanted \in PlanRows : wanted = Wanted(h) /\ Grounded(wanted)
  BY <1>0, WantedRow
<1>2. /\ \A x \in Hooks : hook[x] \in HookStates /\ HookSound(hook[x])
      /\ row \in PlanRows \cup {None} /\ newest \in Nat /\ latest \in StripeStates
      /\ None \notin PlanRows \cup StripeStates \cup StripeEvents
      /\ row # None => Grounded(row)
  BY NoneAssumption DEF BillInv, BillType, HooksSound, RowsSound
<1>3. PICK there \in PlanRows : there = (IF row = None THEN wanted ELSE row) /\ Grounded(there)
  BY <1>1, <1>2
<1>4. PICK loaded \in PlanRows \cup {None} : loaded = hook[h].loaded
  BY <1>2 DEF HookStates
<1>5. PICK new : new = Written(loaded, wanted, there)
  OBVIOUS
<1>6. row' = new
  BY <1>1, <1>3, <1>4, <1>5 DEF WriteRow
<1>7. /\ new \in PlanRows
      /\ \A c \in {"sub", "status", "end", "cancel"} :
           new[c] = IF loaded # None /\ loaded[c] = wanted[c] THEN there[c] ELSE wanted[c]
  BY <1>5, WrittenRow
<1>8. Grounded(new)
  BY <1>1, <1>3, <1>7 DEF Grounded
<1>9. latest.version > 0
  BY <1>0, Subscribed
<1>10. \A r \in PlanRows : Grounded(r) => Grounded(r)'
  BY <1>0 DEF Grounded, Begun
<1>11. ASSUME NEW x \in HookStates, HookSound(x)
       PROVE  HookSound(x)'
  BY <1>0, <1>11 DEF HookSound, GenuineEvent, Genuine, Begun, Grounded
<1>12. CASE hook[h].got = None
  <2>1. wanted.status = "checkout_completed" /\ wanted.end = 0 /\ OfCheckout(hook[h].event)
    BY <1>0, <1>1, <1>12, WantedRow
  <2>2. {"endless", "mixed"} \cap flaws = {} => SoundRow(new)
    <3>1. /\ new.status = IF loaded # None /\ loaded.status = "checkout_completed"
                          THEN there.status ELSE "checkout_completed"
          /\ new.end = IF loaded # None /\ loaded.end = 0 THEN there.end ELSE 0
      BY <1>7, <2>1
    <3>2. CASE loaded = None
      BY <3>1, <3>2 DEF SoundRow
    <3>3. ASSUME loaded # None, {"endless", "mixed"} \cap flaws = {}
          PROVE  SoundRow(new)
      <4>1. SoundRow(loaded) /\ (row # None => SoundRow(row))
        BY <1>4, <3>3 DEF BillInv, RowsSound
      <4>2. SoundRow(there)
        BY <1>3, <2>1, <4>1 DEF SoundRow
      <4>3. loaded.status = "checkout_completed" <=> loaded.end = 0
        BY <4>1 DEF SoundRow
      <4> QED
        BY <3>1, <3>3, <4>2, <4>3 DEF SoundRow
    <3> QED
      BY <3>2, <3>3
  <2>3. PICK k : k = [hook[h] EXCEPT !.pc = "ask", !.loaded = new]
    OBVIOUS
  <2>4. hook' = [hook EXCEPT ![h] = k] /\ UNCHANGED <<mail, newest, flaws>>
    BY <1>6, <1>12, <2>3 DEF WriteRow, Go
  <2>5. /\ k \in HookStates /\ k.pc = "ask" /\ k.loaded = new
        /\ k.event = hook[h].event /\ k.got = None
    BY <1>2, <1>7, <1>12, <2>3 DEF HookStates
  <2>6. HookSound(k)
    BY <1>2, <1>7, <1>8, <2>1, <2>5 DEF HookSound, OfCheckout
  <2>7. hook'[h] = k /\ \A x \in Hooks \ {h} : hook'[x] = hook[x]
    BY <2>4 DEF BillInv, BillType
  <2>8. BillType'
    BY <1>0, <1>6, <1>7, <2>4, <2>5 DEF BillInv, BillType
  <2>9. StripeSound' /\ MailSound'
    BY <1>0, <1>9, <2>4 DEF BillInv, StripeSound, MailSound, GenuineEvent, Genuine, Begun
  <2>10. HooksSound'
    BY <1>2, <1>11, <2>5, <2>6, <2>7 DEF HooksSound
  <2>11. RowsSound'
    <3>1. Grounded(new)'
      BY <1>7, <1>8, <1>10
    <3>2. PICK r : r = new /\ ({"endless", "mixed"} \cap flaws = {} => SoundRow(r)) /\ Grounded(r)'
      BY <2>2, <3>1
    <3> QED
      BY <1>6, <2>4, <2>5, <2>7, <3>2 DEF BillInv, RowsSound, SoundRow
  <2>12. NewestSound'
    BY <1>0, <2>4 DEF BillInv, NewestSound, Clean
  <2>13. Shown'
    BY <2>5, <2>7 DEF Shown, Rewriting
  <2> QED
    BY <2>8, <2>9, <2>10, <2>11, <2>12, <2>13 DEF BillInv
<1>13. CASE hook[h].got # None
  <2>1. PICK got \in StripeStates :
          /\ got = hook[h].got /\ Genuine(got) /\ wanted = Columns(got)
          /\ got.told => SoundRow(wanted)
    BY <1>0, <1>1, <1>13, WantedRow
  <2>2. /\ hook' = [hook EXCEPT ![h] = IdleHook]
        /\ mail' = mail \ {hook[h].event} \/ mail' = mail
        /\ newest' = got.version
        /\ flaws \subseteq flaws'
        /\ got.version < newest => "older" \in flaws'
        /\ row' # wanted => "mixed" \in flaws'
        /\ ~ got.told => "endless" \in flaws'
    BY <1>1, <1>13, <2>1 DEF WriteRow, EndHook, Go, Accept
  <2>3. /\ hook'[h] = IdleHook /\ \A x \in Hooks \ {h} : hook'[x] = hook[x]
        /\ mail' \subseteq mail
    BY <2>2 DEF BillInv, BillType
  <2>4. got.version \in Nat /\ got.version <= latest.version /\ latest.version \in Nat
    BY <1>2, <2>1 DEF StripeStates, Genuine
  <2>5. BillType'
    BY <1>0, <1>6, <1>7, <2>2, <2>3, <2>4, IdleSound DEF BillInv, BillType
  <2>6. StripeSound' /\ MailSound'
    BY <1>0, <1>9, <2>3 DEF BillInv, StripeSound, MailSound, GenuineEvent, Genuine, Begun
  <2>7. HooksSound'
    BY <1>2, <1>11, <2>3, IdleSound DEF HooksSound
  <2>8. RowsSound'
    <3>1. Grounded(new)'
      BY <1>7, <1>8, <1>10
    <3>2. PICK r : r = new /\ Grounded(r)' /\ ({"endless", "mixed"} \cap flaws' = {} => SoundRow(r))
      BY <1>6, <2>1, <2>2, <3>1
    <3> QED
      BY <1>6, <2>2, <2>3, <3>2, IdleSound DEF BillInv, RowsSound, SoundRow
  <2>9. ASSUME Clean'
        PROVE  newest <= got.version /\ row' = Columns(got) /\ Clean
    BY <1>2, <2>1, <2>2, <2>4, <2>9 DEF Clean
  <2>10. NewestSound'
    <3>1. ASSUME Clean', Subscription(latest) \in mail, Subscription(latest) \notin mail'
          PROVE  newest' = latest.version
      <4>1. hook[h].event = Subscription(latest)
        BY <2>2, <3>1
      <4>2. hook[h].event # None /\ hook[h].event.state # None
        BY <1>2, <3>1, <4>1 DEF BillInv, BillType, Subscription
      <4>3. got = hook[h].event.state
        BY <1>2, <2>1, <4>2 DEF HookSound
      <4> QED
        BY <2>2, <4>1, <4>3 DEF Subscription
    <3>2. ASSUME Clean', newest = latest.version
          PROVE  newest' = latest.version
      BY <2>2, <2>4, <2>9, <3>2
    <3> QED
      BY <1>0, <1>9, <2>2, <2>4, <2>9, <3>1, <3>2 DEF BillInv, NewestSound
  <2>11. Shown'
    <3> SUFFICES ASSUME Clean', newest' = latest'.version
                 PROVE  row' = Columns(latest')
      BY DEF Shown
    <3>1. got = latest
      BY <1>0, <2>1, <2>2 DEF Genuine
    <3> QED
      BY <1>0, <2>9, <3>1
  <2> QED
    BY <2>5, <2>6, <2>7, <2>8, <2>10, <2>11 DEF BillInv
<1> QED
  BY <1>12, <1>13

LEMMA BillStep == BillInv /\ [AccountsNext]_vars => BillInv'
<1> SUFFICES ASSUME BillInv, [AccountsNext]_vars PROVE BillInv'
  OBVIOUS
<1>1. CASE /\ UNCHANGED <<stripe, latest, paidUntil, mail, row, newest, flaws, hook>>
           /\ now' = now \/ now' = now + 1
  BY <1>1, BillUntouched DEF BillInv, BillType
<1>2. ASSUME NEW c \in Clients, (\E a \in Requests : Arrive(c, a)) \/ Handle(c)
      PROVE  UNCHANGED <<stripe, latest, paidUntil, mail, row, newest, flaws, hook, now>>
  BY <1>2 DEF Arrive, Handle, ReadProfile, InsertProfile, RereadProfile, ReadProject, ReadMember,
              Create, Load, Write, SaveKey, ForgetKey, ReadPreference, ReadKey, Leave,
              billingVars, stripeVars, rowVars
<1>3. ASSUME NEW g \in Gates, Enforce(g)
      PROVE  UNCHANGED <<stripe, latest, paidUntil, mail, row, newest, flaws, hook, now>>
  BY <1>3 DEF Enforce, ReadPlan, Look, TooSoon, Touch, Record, Insert, stripeVars, rowVars
<1>4. CASE Tick
  BY <1>1, <1>4 DEF Tick, rowVars
<1>5. CASE \E s \in Subs : Checkout(s) \/ Renew(s) \/ Lapse(s)
  BY <1>5, BillStripe
<1>6. ASSUME NEW h \in Hooks,
             \/ \E e \in mail : Deliver(h, e)
             \/ LoadRow(h) \/ WriteRow(h) \/ Ask(h) \/ HookFails(h) \/ Cancel(h) \/ Cancelled(h)
      PROVE  BillInv'
  BY <1>6, BillHandlers, BillWriteRow, BillHookFails, BillCancelled
<1>7. CASE UNCHANGED vars
  BY <1>1, <1>7 DEF vars, billingVars, stripeVars, rowVars
<1> QED
  BY <1>1, <1>2, <1>3, <1>4, <1>5, <1>6, <1>7 DEF AccountsNext, BillingNext

\* A row with an end holds its user to be paid only while a period lasts that
\* Stripe had as active, for any order, repetition and failure of the events,
\* any number of subscriptions and handlers and any length of a period; a row
\* without one comes of a state that tells none, or of two writers.
THEOREM PaidIsPaidFor == Spec => []PaidMeansPaidFor
<1>1. AccountsInit => BillInv
  BY BillInit
<1>2. BillInv /\ [AccountsNext]_vars => BillInv'
  BY BillStep
<1>3. BillInv => PaidMeansPaidFor
  <2> SUFFICES ASSUME BillInv, Paid
               PROVE  IF row.end # 0 THEN now < paidUntil ELSE {"endless", "mixed"} \cap flaws # {}
    BY DEF PaidMeansPaidFor
  <2>1. /\ row \in PlanRows /\ row.status = "active" /\ row.end <= paidUntil
        /\ row.end = 0 \/ row.end > now
        /\ now \in Nat /\ paidUntil \in Nat
    BY DEF Paid, BillInv, BillType, RowsSound, Grounded
  <2>2. {"endless", "mixed"} \cap flaws = {} => row.end # 0
    BY <2>1 DEF Paid, BillInv, RowsSound, SoundRow, PlanRows
  <2>3. row.end # 0 => now < paidUntil
    BY <2>1 DEF PlanRows
  <2> QED
    BY <2>2, <2>3
<1> QED
  BY <1>1, <1>2, <1>3, PTL DEF Spec

\* Once everything Stripe has sent is accepted, the row shows the subscription
\* that has changed last, however many the user has come to have.
THEOREM SubscriptionsSettle == Spec => []SubscriptionSettles
<1>1. AccountsInit => BillInv
  BY BillInit
<1>2. BillInv /\ [AccountsNext]_vars => BillInv'
  BY BillStep
<1>3. BillInv => SubscriptionSettles
  BY DEF BillInv, NewestSound, Shown, Rewriting, SubscriptionSettles, Clean
<1> QED
  BY <1>1, <1>2, <1>3, PTL DEF Spec
-----------------------------------------------------------------------------
(***************************************************************************)
(* What many requests at once leave behind.                                *)
(***************************************************************************)
KeyRows == [id : RowIds, secret : Secrets]

\* The tables; no two rows of keys have the same id.
TablesSound ==
  /\ profiles \subseteq Users /\ project \in {"private", "public", None}
  /\ role \in Roles \cup {None} /\ enabled \in {"on", "off", None} /\ marked \in {"yes", None}
  /\ keys \subseteq KeyRows /\ IsFiniteSet(keys)
  /\ \A j, k \in keys : j.id = k.id => j = k
  /\ DOMAIN said = Subjects

\* What a request has passed: a profile is looked for again only when it is
\* there, and what is loaded and written is a row.
RequestSound(r) ==
  /\ r.pc # "turned_away"
  /\ r.pc # "idle" => r.ask \in Requests
  /\ r.pc = "reread" => r.ask.who \in profiles
  /\ r.pc = "create" => r.ask.op = "add"
  /\ r.pc \in {"load", "write"} => r.ask.subject # None
  /\ r.pc = "write" /\ r.ask.subject = "keys" => r.saw \subseteq KeyRows

\* A request that holds a copy of a row, which is that of the project from the
\* check of the role on.
Holds(r, x) ==
  /\ r.ask.subject = x
  /\ r.pc \in IF x = "project" THEN {"member", "load", "write"} ELSE {"write"}

Current(x) == IF x = "keys" THEN keys ELSE Value(x)

\* The rows about a project that is deleted are of no concern.
Lives(x) == x \in {"role", "marked"} => project # None

\* A copy that is old is one that an answered request has overtaken;
Overtaken(r) ==
  \A x \in Subjects : Lives(x) /\ r.pc # "idle" /\ Holds(r, x) /\ r.saw # Current(x) => said[x] # {}

\* what is found is at all times the word of the last requests, not only when
\* they are over;
Settled(x) == Lives(x) => Found(x) \subseteq IF said[x] = {} THEN before[x] ELSE said[x]

\* and ids that are in use, or have been seen, are fewer than the rows: each of
\* them came with a request that is over, but for the first.
Busy == {c \in Clients : req[c].pc # "idle"}

IdsUsed(used) ==
  /\ Ids(keys) \subseteq used
  /\ \A c \in Clients : req[c].pc = "write" /\ req[c].ask.subject = "keys" => Ids(req[c].saw) \subseteq used
  /\ Cardinality(used) + Cardinality(Busy) <= asked + 1

IdsCounted ==
  /\ asked \in Nat /\ asked <= MaxRequests /\ IsFiniteSet(Busy)
  /\ \E used \in SUBSET RowIds : IsFiniteSet(used) /\ IdsUsed(used)

WordInv ==
  /\ TablesSound
  /\ \A c \in Clients : RequestSound(req[c]) /\ Overtaken(req[c])
  /\ \A x \in Subjects : Settled(x)
  /\ IdsCounted

\* Who holds the lock is past the look at the row, and every time is within
\* the bounds of the clock and the period.
HolderSound == holder # None => holder \in Gates /\ gate[holder].pc \in {"late", "record"}

Horizon == MaxTime + Period

EndsWithin == now <= MaxTime /\ paidUntil <= Horizon

\* What each kind of request is about, and what it wants.
LEMMA RequestFacts ==
  ASSUME NEW a \in Requests
  PROVE  /\ a.who \in Users
         /\ a.subject \in Subjects \cup {None}
         /\ a.subject = None <=> a.op = "run"
         /\ a.op = "add" => a.subject = "role"
         /\ a.op = "bookmark" => a.subject = "marked"
         /\ a.op = "delete" => a.subject = "project" /\ a.want = None
         /\ a.op \in {"save", "forget"} <=> a.subject = "keys"
         /\ a.op = "save" => a.want \in Secrets
         /\ a.op = "forget" => a.want = None
         /\ a.op \in {"plugin", "unbookmark"} => a.subject \in {"enabled", "marked"}
         /\ a.subject = "role" => a.want \in Roles \cup {None}
         /\ a.subject = "project" => a.want \in {"public", "private", None}
         /\ a.subject = "marked" => a.want \in {"yes", None}
         /\ a.subject = "enabled" => a.want \in {"on", "off"}
  BY AccountsAssumption DEF Requests, Request, Users, Subjects

\* There is an id at all.
LEMMA RowsToSpare == \E i : i \in RowIds
<1>1. CASE RowIds = {}
  BY <1>1, RowsAssumption, AccountsAssumption, FS_EmptySet
<1> QED
  BY <1>1

\* Nothing has been answered yet, and one row of keys is there at most.
LEMMA WordStart == AccountsInit => WordInv
<1> SUFFICES ASSUME AccountsInit PROVE WordInv
  OBVIOUS
<1>1. PICK i : i \in RowIds /\ (keys = {} \/ \E s \in Secrets : keys = {KeyRow(i, s)})
  <2>1. (CHOOSE i \in RowIds : TRUE) \in RowIds
    BY RowsToSpare
  <2> QED
    BY <2>1 DEF AccountsInit
<1>2. keys \subseteq KeyRows /\ IsFiniteSet(keys) /\ Ids(keys) \subseteq {i}
  <2>1. CASE keys = {}
    BY <2>1, FS_EmptySet DEF Ids
  <2>2. CASE keys # {}
    <3>1. PICK s \in Secrets : keys = {KeyRow(i, s)}
      BY <1>1, <2>2
    <3>2. IsFiniteSet(keys)
      BY <3>1, FS_Singleton
    <3> QED
      BY <1>1, <3>1, <3>2 DEF KeyRow, KeyRows, Ids
  <2> QED
    BY <2>1, <2>2
<1>3. TablesSound
  BY <1>1, <1>2, AccountsAssumption DEF AccountsInit, TablesSound, Users, KeyRow
<1>4. \A c \in Clients : req[c] = Idle /\ req[c].pc = "idle"
  BY DEF AccountsInit, Idle
<1>5. \A c \in Clients : RequestSound(req[c]) /\ Overtaken(req[c])
  BY <1>4 DEF RequestSound, Overtaken
<1>6. \A x \in Subjects : Settled(x)
  BY DEF AccountsInit, Settled
<1>7. IdsCounted
  <2>1. Busy = {}
    BY <1>4 DEF Busy
  <2>2. /\ IsFiniteSet({i}) /\ Cardinality({i}) = 1
        /\ IsFiniteSet(Busy) /\ Cardinality(Busy) = 0
    BY <2>1, FS_Singleton, FS_EmptySet
  <2>3. {i} \in SUBSET RowIds /\ asked = 0
    BY <1>1 DEF AccountsInit
  <2>4. IdsUsed({i})
    BY <1>2, <1>4, <2>2, <2>3 DEF IdsUsed
  <2> QED
    BY <2>2, <2>3, <2>4, AccountsAssumption DEF IdsCounted
<1> QED
  BY <1>3, <1>5, <1>6, <1>7 DEF WordInv

\* A step of a request that answers nothing.
LEMMA WordMove ==
  ASSUME WordInv, NEW c \in Clients, DOMAIN req = Clients, NEW r,
         req[c].pc # "idle", req' = [req EXCEPT ![c] = r],
         UNCHANGED <<project, role, enabled, marked, keys, said, batch>>,
         profiles \subseteq profiles', profiles' \subseteq Users,
         RequestSound(r)', Overtaken(r)',
         r.pc = "write" /\ r.ask.subject = "keys" => Ids(r.saw) \subseteq Ids(keys)
  PROVE  WordInv'
<1>1. TablesSound'
  BY DEF WordInv, TablesSound
<1>2. req'[c] = r /\ \A d \in Clients \ {c} : req'[d] = req[d]
  OBVIOUS
<1>3. ASSUME NEW d \in Clients
      PROVE  RequestSound(req[d])' /\ Overtaken(req[d])'
  <2>1. CASE d = c
    BY <1>2, <2>1 DEF RequestSound, Overtaken, Holds
  <2>2. CASE d # c
    <3>1. req'[d] = req[d] /\ RequestSound(req[d]) /\ Overtaken(req[d])
      BY <1>2, <2>2 DEF WordInv
    <3> QED
      BY <3>1 DEF RequestSound, Overtaken, Holds, Lives, Current, Value
  <2> QED
    BY <2>1, <2>2
<1>4. \A x \in Subjects : Settled(x)'
  BY DEF WordInv, Settled, Lives, Found, Value, batch
<1>5. IdsCounted'
  <2>1. PICK used \in SUBSET RowIds : IsFiniteSet(used) /\ IdsUsed(used)
    BY DEF WordInv, IdsCounted
  <2>2. Busy' \in SUBSET Busy
    BY <1>2 DEF Busy
  <2>3. IsFiniteSet(Busy') /\ Cardinality(Busy') <= Cardinality(Busy) /\ Cardinality(Busy') \in Nat
    BY <2>2, FS_Subset, FS_CardinalityType DEF WordInv, IdsCounted
  <2>4. Cardinality(used) \in Nat /\ Cardinality(Busy) \in Nat /\ asked' = asked /\ asked \in Nat
    BY <2>1, FS_CardinalityType DEF WordInv, IdsCounted, batch
  <2>5. IdsUsed(used)'
    <3>1. Cardinality(used) + Cardinality(Busy)' <= asked' + 1
      BY <2>1, <2>3, <2>4 DEF IdsUsed
    <3>2. \A d \in Clients : req'[d].pc = "write" /\ req'[d].ask.subject = "keys"
                               => Ids(req'[d].saw) \subseteq used
      BY <1>2, <2>1 DEF IdsUsed
    <3> QED
      BY <2>1, <3>1, <3>2 DEF IdsUsed, Ids
  <2> QED
    BY <2>1, <2>3, <2>4, <2>5 DEF WordInv, IdsCounted
<1> QED
  BY <1>1, <1>3, <1>4, <1>5 DEF WordInv

\* A request arrives.
LEMMA WordArrive ==
  ASSUME WordInv, AtPolicy, NEW c \in Clients, NEW a \in Requests, Arrive(c, a)
  PROVE  WordInv'
<1>1. /\ UNCHANGED <<profiles, project, role, enabled, marked, keys>>
      /\ asked' = asked + 1 /\ asked < MaxRequests /\ req[c].pc = "idle"
  BY DEF Arrive, tables
<1>2. PICK r : r = [pc |-> "auth", ask |-> a, saw |-> None] /\ req' = [req EXCEPT ![c] = r]
  BY Arriving DEF Arrive
<1>3. req'[c] = r /\ r.pc = "auth" /\ r.ask = a /\ \A d \in Clients \ {c} : req'[d] = req[d]
  BY <1>2 DEF AtPolicy
<1>4. TablesSound'
  BY <1>1 DEF WordInv, TablesSound, Arrive
<1>5. ASSUME NEW d \in Clients
      PROVE  RequestSound(req[d])' /\ Overtaken(req[d])'
  <2>1. CASE d = c
    BY <1>3, <2>1 DEF RequestSound, Overtaken, Holds
  <2>2. CASE d # c
    <3>1. req'[d] = req[d] /\ RequestSound(req[d]) /\ Overtaken(req[d])
      BY <1>3, <2>2 DEF WordInv
    <3>2. ASSUME NEW x \in Subjects, req[d].pc # "idle", Holds(req[d], x)
          PROVE  said'[x] = said[x]
      BY <3>2 DEF Arrive, About, Holds
    <3>3. RequestSound(req[d])'
      BY <1>1, <3>1 DEF RequestSound
    <3> QED
      BY <1>1, <3>1, <3>2, <3>3 DEF Overtaken, Holds, Lives, Current, Value
  <2> QED
    BY <2>1, <2>2
<1>6. ASSUME NEW x \in Subjects
      PROVE  Settled(x)'
  <2>1. Found(x)' = Found(x) /\ Lives(x)' = Lives(x)
    BY <1>1 DEF Found, Value, Lives
  <2>2. CASE About(x) = {}
    BY <2>1, <2>2 DEF Arrive, Settled
  <2>3. CASE About(x) # {}
    BY <2>1, <2>3 DEF Arrive, Settled, WordInv
  <2> QED
    BY <2>2, <2>3
<1>7. IdsCounted'
  <2>1. PICK used \in SUBSET RowIds : IsFiniteSet(used) /\ IdsUsed(used)
    BY DEF WordInv, IdsCounted
  <2>2. Busy' = Busy \cup {c} /\ c \notin Busy
    BY <1>1, <1>3 DEF Busy
  <2>3. IsFiniteSet(Busy') /\ Cardinality(Busy') = Cardinality(Busy) + 1 /\ Cardinality(Busy) \in Nat
    BY <2>2, FS_AddElement, FS_CardinalityType DEF WordInv, IdsCounted
  <2>4. Cardinality(used) \in Nat /\ asked \in Nat
    BY <2>1, FS_CardinalityType DEF WordInv, IdsCounted
  <2>5. IdsUsed(used)'
    <3>1. Cardinality(used) + Cardinality(Busy)' <= asked' + 1
      BY <1>1, <2>1, <2>3, <2>4 DEF IdsUsed
    <3>2. \A d \in Clients : req'[d].pc = "write" /\ req'[d].ask.subject = "keys"
                               => Ids(req'[d].saw) \subseteq used
      BY <1>3, <2>1 DEF IdsUsed
    <3> QED
      BY <1>1, <2>1, <3>1, <3>2 DEF IdsUsed, Ids
  <2>6. asked' \in Nat /\ asked' <= MaxRequests
    BY <1>1, <2>4, AccountsAssumption
  <2> QED
    BY <2>1, <2>3, <2>5, <2>6 DEF IdsCounted
<1> QED
  BY <1>4, <1>5, <1>6, <1>7 DEF WordInv
\* A request is answered, with what it has done to its subject.
LEMMA WordAnswer ==
  ASSUME WordInv, AtPolicy, NEW c \in Clients, NEW s \in Subjects, NEW want, NEW i \in RowIds,
         req[c].pc = "write", req' = [req EXCEPT ![c] = Idle],
         said' = [said EXCEPT ![s] = @ \cup {want}],
         UNCHANGED <<profiles, batch>>, TablesSound', Settled(s)',
         \A x \in Subjects \ {s} : Current(x)' = Current(x) \/ ~ Lives(x)',
         \A x \in Subjects : Lives(x)' => Lives(x),
         Ids(keys') \subseteq Ids(keys) \cup {i}
  PROVE  WordInv'
<1>1. req'[c] = Idle /\ \A d \in Clients \ {c} : req'[d] = req[d]
  BY DEF AtPolicy
<1>2. /\ \A x \in Subjects \ {s} : said'[x] = said[x]
      /\ said'[s] # {}
  BY DEF WordInv, TablesSound
<1>3. ASSUME NEW d \in Clients
      PROVE  RequestSound(req[d])' /\ Overtaken(req[d])'
  <2>1. CASE d = c
    BY <1>1, <2>1 DEF RequestSound, Overtaken, Idle
  <2>2. CASE d # c
    <3>1. req'[d] = req[d] /\ RequestSound(req[d]) /\ Overtaken(req[d])
      BY <1>1, <2>2 DEF WordInv
    <3>2. RequestSound(req[d])'
      BY <3>1 DEF RequestSound
    <3>3. ASSUME NEW x \in Subjects, Lives(x)', req[d].pc # "idle", Holds(req[d], x),
                 req[d].saw # Current(x)'
          PROVE  said'[x] # {}
      <4>1. CASE x = s
        BY <1>2, <4>1
      <4>2. CASE x # s
        <5>1. Current(x)' = Current(x) /\ Lives(x)
          BY <3>3, <4>2
        <5>2. said[x] # {}
          BY <3>1, <3>3, <5>1 DEF Overtaken
        <5> QED
          BY <1>2, <4>2, <5>2
      <4> QED
        BY <4>1, <4>2
    <3>4. Overtaken(req[d])'
      BY <3>1, <3>3 DEF Overtaken, Holds
    <3> QED
      BY <3>2, <3>4
  <2> QED
    BY <2>1, <2>2
<1>4. ASSUME NEW x \in Subjects
      PROVE  Settled(x)'
  <2>1. CASE x = s
    BY <2>1
  <2>2. CASE x # s
    <3> SUFFICES ASSUME Lives(x)'
                 PROVE  Found(x)' \subseteq IF said'[x] = {} THEN before'[x] ELSE said'[x]
      BY DEF Settled
    <3>1. Current(x)' = Current(x) /\ Lives(x) /\ said'[x] = said[x] /\ before' = before
      BY <1>2, <2>2 DEF batch
    <3>2. Found(x)' = Found(x)
      BY <3>1 DEF Current, Found
    <3> QED
      BY <3>1, <3>2 DEF WordInv, Settled
  <2> QED
    BY <2>1, <2>2
<1>5. IdsCounted'
  <2>1. PICK used \in SUBSET RowIds : IsFiniteSet(used) /\ IdsUsed(used)
    BY DEF WordInv, IdsCounted
  <2> DEFINE more == used \cup {i}
  <2>2. Busy' = Busy \ {c} /\ c \in Busy
    BY <1>1 DEF Busy, Idle
  <2>3. IsFiniteSet(Busy') /\ Cardinality(Busy') = Cardinality(Busy) - 1 /\ Cardinality(Busy) \in Nat
    BY <2>2, FS_RemoveElement, FS_CardinalityType DEF WordInv, IdsCounted
  <2>4. /\ IsFiniteSet(more) /\ more \in SUBSET RowIds
        /\ Cardinality(more) <= Cardinality(used) + 1
        /\ Cardinality(used) \in Nat /\ Cardinality(more) \in Nat
        /\ asked \in Nat /\ asked' = asked /\ asked <= MaxRequests
    <3>1. IsFiniteSet(more) /\ Cardinality(more) \in {Cardinality(used), Cardinality(used) + 1}
      BY <2>1, FS_AddElement
    <3>2. Cardinality(used) \in Nat
      BY <2>1, FS_CardinalityType
    <3> QED
      BY <3>1, <3>2 DEF WordInv, IdsCounted, batch
  <2>5. Cardinality(Busy') \in Nat
    BY <2>3, FS_CardinalityType
  <2>6. Cardinality(more) + Cardinality(Busy') <= asked + 1
    BY <2>1, <2>3, <2>4, <2>5 DEF IdsUsed
  <2>7. Ids(keys)' \subseteq more
    BY <2>1 DEF IdsUsed, Ids
  <2>8. \A d \in Clients : req'[d].pc = "write" /\ req'[d].ask.subject = "keys"
                             => Ids(req'[d].saw) \subseteq more
    BY <1>1, <2>1 DEF IdsUsed, Idle
  <2> HIDE DEF more
  <2>9. IdsUsed(more)'
    BY <2>4, <2>6, <2>7, <2>8 DEF IdsUsed, Ids
  <2> QED
    BY <2>3, <2>4, <2>9 DEF IdsCounted
<1> QED
  BY <1>3, <1>4, <1>5 DEF WordInv
\* A request that is refused changes nothing but its own place.
LEMMA WordFail ==
  ASSUME WordInv, AtPolicy, NEW c \in Clients, req[c].pc # "idle", Fail(c),
         UNCHANGED <<project, role, enabled, marked, keys, batch>>,
         profiles \subseteq profiles', profiles' \subseteq Users
  PROVE  WordInv'
<1>1. PICK r : r = Idle
  OBVIOUS
<1>2. req' = [req EXCEPT ![c] = r] /\ said' = said /\ r.pc = "idle" /\ DOMAIN req = Clients
  BY <1>1 DEF Fail, End, Idle, AtPolicy
<1>3. RequestSound(r)' /\ Overtaken(r)'
  BY <1>2 DEF RequestSound, Overtaken
<1> QED
  BY <1>2, <1>3, WordMove

\* A request goes on to a place where nothing new is held.
LEMMA WordGo ==
  ASSUME WordInv, AtPolicy, NEW c \in Clients, req[c].pc # "idle",
         NEW pc \in {"load", "project", "insert", "reread", "preference", "key", "policy", "create"},
         Move(c, pc),
         pc = "reread" => req[c].ask.who \in profiles',
         pc = "create" => req[c].ask.op = "add",
         pc = "load" => /\ req[c].ask.subject # None
                        /\ req[c].ask.subject = "project" => req[c].pc = "member",
         UNCHANGED <<project, role, enabled, marked, keys, said, batch>>,
         profiles \subseteq profiles', profiles' \subseteq Users
  PROVE  WordInv'
<1>1. PICK r : r = [pc |-> pc, ask |-> req[c].ask, saw |-> req[c].saw]
  OBVIOUS
<1>2. req' = [req EXCEPT ![c] = r]
  <2>1. req[c] = [pc |-> req[c].pc, ask |-> req[c].ask, saw |-> req[c].saw]
    BY DEF AtPolicy
  <2>2. [req[c] EXCEPT !.pc = pc] = r
    BY <1>1, <2>1
  <2>3. req' = [req EXCEPT ![c] = [req[c] EXCEPT !.pc = pc]]
    BY DEF Move
  <2> QED
    BY <2>2, <2>3
<1>3. r.pc = pc /\ r.ask = req[c].ask /\ r.saw = req[c].saw /\ DOMAIN req = Clients
  BY <1>1 DEF AtPolicy
<1>4. RequestSound(req[c]) /\ Overtaken(req[c])
  BY DEF WordInv
<1>5. RequestSound(r)'
  BY <1>3, <1>4 DEF RequestSound
<1>6. Overtaken(r)'
  <2> SUFFICES ASSUME NEW x \in Subjects, Lives(x)', Holds(r, x), r.saw # Current(x)'
               PROVE  said'[x] # {}
    BY DEF Overtaken, Holds
  <2>1. x = "project" /\ pc = "load" /\ r.ask.subject = "project"
    BY <1>3 DEF Holds
  <2>2. Holds(req[c], x) /\ Lives(x) /\ Current(x)' = Current(x)
    BY <1>3, <2>1 DEF Holds, Lives, Current, Value
  <2> QED
    BY <1>3, <1>4, <2>2 DEF Overtaken
<1> QED
  BY <1>2, <1>3, <1>5, <1>6, WordMove

\* The checks of a request, up to the policy.
LEMMA WordChecks ==
  ASSUME WordInv, AtPolicy, NEW c \in Clients,
         \/ ReadProfile(c) \/ InsertProfile(c) \/ RereadProfile(c) \/ ReadMember(c) \/ Create(c)
         \/ ReadPreference(c) \/ ReadKey(c) \/ Leave(c)
  PROVE  WordInv'
<1> DEFINE a == req[c].ask
<1>1. /\ RequestSound(req[c]) /\ profiles \subseteq Users /\ Guest \in Users
      /\ req[c].pc # "idle" => a \in Requests
  BY DEF WordInv, TablesSound, RequestSound, Users
<1>2. ASSUME a \in Requests
      PROVE  /\ FirstCheck(a) \in {"load", "project"} /\ a.who \in Users
             /\ FirstCheck(a) = "load" => a.subject # None /\ a.subject # "project"
  <2> HIDE DEF a
  <2>1. a.op = "save" \/ a.op = "forget" \/ a.op \in {"plugin", "unbookmark"} \/ FirstCheck(a) = "project"
    BY DEF FirstCheck
  <2> QED
    BY <1>2, <2>1, RequestFacts, AccountsAssumption DEF FirstCheck
<1>3. CASE ReadProfile(c)
  <2>1. /\ req[c].pc # "idle" /\ UNCHANGED <<profiles, project, role, enabled, marked, keys, said, batch>>
        /\ Move(c, IF a.who \in profiles THEN FirstCheck(a) ELSE "insert")
    BY <1>3 DEF ReadProfile, tables
  <2> HIDE DEF a
  <2>2. CASE a.who \in profiles
    <3>1. Move(c, FirstCheck(a))
      BY <2>1, <2>2
    <3> QED
      BY <1>1, <1>2, <2>1, <3>1, WordGo DEF a
  <2>3. CASE a.who \notin profiles
    <3>1. Move(c, "insert")
      BY <2>1, <2>3
    <3> QED
      BY <1>1, <2>1, <3>1, WordGo
  <2> QED
    BY <2>2, <2>3
<1>4. CASE InsertProfile(c)
  <2>1. /\ req[c].pc # "idle" /\ UNCHANGED <<project, role, enabled, marked, keys, said, batch>>
        /\ profiles' = profiles \cup {a.who}
        /\ Move(c, IF a.who \in profiles THEN "reread" ELSE FirstCheck(a))
    BY <1>4 DEF InsertProfile
  <2>2. profiles \subseteq profiles' /\ profiles' \subseteq Users /\ a.who \in profiles'
    BY <1>1, <1>2, <2>1
  <2> HIDE DEF a
  <2>3. CASE a.who \in profiles
    <3>1. Move(c, "reread")
      BY <2>1, <2>3
    <3> QED
      BY <1>1, <2>1, <2>2, <3>1, WordGo DEF a
  <2>4. CASE a.who \notin profiles
    <3>1. Move(c, FirstCheck(a))
      BY <2>1, <2>4
    <3> QED
      BY <1>1, <1>2, <2>1, <2>2, <3>1, WordGo DEF a
  <2> QED
    BY <2>3, <2>4
<1>5. CASE RereadProfile(c)
  <2>1. /\ req[c].pc = "reread" /\ UNCHANGED <<profiles, project, role, enabled, marked, keys, said, batch>>
        /\ Move(c, IF a.who \in profiles THEN FirstCheck(a) ELSE "turned_away")
    BY <1>5 DEF RereadProfile, tables
  <2>2. a.who \in profiles
    BY <1>1, <2>1 DEF RequestSound
  <2> HIDE DEF a
  <2>3. Move(c, FirstCheck(a))
    BY <2>1, <2>2
  <2> QED
    BY <1>1, <1>2, <2>1, <2>3, WordGo DEF a
<1>6. CASE ReadMember(c)
  <2>1. /\ req[c].pc = "member" /\ UNCHANGED <<profiles, project, role, enabled, marked, keys, batch>>
        /\ \/ Fail(c)
           \/ Move(c, IF a.op = "run" THEN "preference" ELSE "load") /\ UNCHANGED said
    BY <1>6 DEF ReadMember, tables
  <2>2. CASE Fail(c)
    BY <1>1, <2>1, <2>2, WordFail
  <2>3. CASE ~ Fail(c) /\ a.op = "run"
    <3>1. Move(c, "preference") /\ UNCHANGED said
      BY <2>1, <2>3
    <3> QED
      BY <1>1, <2>1, <3>1, WordGo
  <2>4. CASE ~ Fail(c) /\ a.op # "run"
    <3>1. Move(c, "load") /\ UNCHANGED said
      BY <2>1, <2>4
    <3>2. a.subject # None
      <4> HIDE DEF a
      <4> QED
        BY <1>1, <2>1, <2>4, RequestFacts
    <3> QED
      BY <1>1, <2>1, <3>1, <3>2, WordGo
  <2> QED
    BY <2>2, <2>3, <2>4
<1>7. CASE Create(c)
  <2>1. /\ req[c].pc = "create" /\ UNCHANGED <<project, role, enabled, marked, keys, batch>>
        /\ profiles \subseteq profiles' /\ profiles' \subseteq Users
        /\ Fail(c) \/ (Move(c, "load") /\ UNCHANGED said)
    BY <1>1, <1>7 DEF Create
  <2>2. a.op = "add" /\ a \in Requests
    BY <1>1, <2>1 DEF RequestSound
  <2>3. a.subject # None /\ a.subject # "project"
    <3> HIDE DEF a
    <3> QED
      BY <2>2, RequestFacts, AccountsAssumption
  <2> QED
    BY <2>1, <2>3, WordFail, WordGo
<1>8. CASE ReadPreference(c)
  <2>1. /\ req[c].pc = "preference" /\ UNCHANGED <<profiles, project, role, enabled, marked, keys, batch>>
        /\ Fail(c) \/ (Move(c, "key") /\ UNCHANGED said)
    BY <1>8 DEF ReadPreference, tables
  <2> QED
    BY <1>1, <2>1, WordFail, WordGo
<1>9. CASE ReadKey(c)
  <2>1. /\ req[c].pc = "key" /\ UNCHANGED <<profiles, project, role, enabled, marked, keys, batch>>
        /\ Fail(c) \/ (Move(c, "policy") /\ UNCHANGED said)
    BY <1>9 DEF ReadKey, tables
  <2> QED
    BY <1>1, <2>1, WordFail, WordGo
<1>10. CASE Leave(c)
  <2>1. /\ req[c].pc = "policy" /\ UNCHANGED <<profiles, project, role, enabled, marked, keys, batch>>
        /\ Fail(c)
    BY <1>10 DEF Leave, tables
  <2> QED
    BY <1>1, <2>1, WordFail
<1> QED
  BY <1>3, <1>4, <1>5, <1>6, <1>7, <1>8, <1>9, <1>10
\* The project is read, and its copy kept.
LEMMA WordProject ==
  ASSUME WordInv, AtPolicy, NEW c \in Clients, ReadProject(c)
  PROVE  WordInv'
<1> DEFINE a == req[c].ask
<1>1. /\ req[c].pc = "project" /\ RequestSound(req[c]) /\ a \in Requests /\ profiles \subseteq Users
      /\ UNCHANGED <<profiles, project, role, enabled, marked, keys, batch>>
      /\ DOMAIN req = Clients
  BY DEF ReadProject, WordInv, TablesSound, RequestSound, tables, AtPolicy
<1>2. CASE Fail(c)
  BY <1>1, <1>2, WordFail
<1>3. CASE ~ Fail(c)
  <2>1. PICK pc : /\ pc = IF a.op = "bookmark" THEN "load" ELSE "member"
                  /\ req' = [req EXCEPT ![c].saw = project, ![c].pc = pc]
                  /\ UNCHANGED said
    BY <1>3 DEF ReadProject
  <2>2. PICK r : r = [pc |-> pc, ask |-> a, saw |-> project]
    OBVIOUS
  <2>3. req' = [req EXCEPT ![c] = r]
    <3>1. req[c] = [pc |-> req[c].pc, ask |-> req[c].ask, saw |-> req[c].saw]
      BY DEF AtPolicy
    <3>2. [req[c] EXCEPT !.saw = project, !.pc = pc] = r
      BY <2>2, <3>1, PlaceAndValue
    <3>3. req' = [req EXCEPT ![c] = [req[c] EXCEPT !.saw = project, !.pc = pc]]
      BY <2>1
    <3> QED
      BY <3>2, <3>3
  <2>4. /\ r.pc \in {"load", "member"} /\ r.ask = a /\ r.saw = project
        /\ r.pc = "load" => a.op = "bookmark"
    BY <2>1, <2>2
  <2>5. r.pc = "load" => a.subject = "marked"
    <3> HIDE DEF a
    <3> QED
      BY <1>1, <2>4, RequestFacts
  <2>6. RequestSound(r)'
    BY <1>1, <2>4, <2>5, AccountsAssumption DEF RequestSound
  <2>7. Overtaken(r)'
    <3>1. ASSUME NEW x \in Subjects, Holds(r, x)
          PROVE  r.saw = Current(x)'
      BY <1>1, <2>4, <3>1 DEF Holds, Current, Value
    <3> QED
      BY <3>1 DEF Overtaken, Holds
  <2> QED
    BY <1>1, <2>1, <2>3, <2>4, <2>6, <2>7, WordMove
<1> QED
  BY <1>2, <1>3

\* The row is loaded, or all the rows.
LEMMA WordLoad ==
  ASSUME WordInv, AtPolicy, NEW c \in Clients, Load(c)
  PROVE  WordInv'
<1> DEFINE a == req[c].ask
<1>1. /\ req[c].pc = "load" /\ RequestSound(req[c]) /\ Overtaken(req[c]) /\ a \in Requests
      /\ a.subject # None /\ profiles \subseteq Users /\ keys \subseteq KeyRows
      /\ UNCHANGED <<profiles, project, role, enabled, marked, keys, batch>>
      /\ DOMAIN req = Clients
  BY DEF Load, WordInv, TablesSound, RequestSound, tables, AtPolicy
<1>2. CASE Fail(c)
  BY <1>1, <1>2, WordFail
<1>3. CASE a.op = "add" /\ Move(c, "create") /\ UNCHANGED said
  BY <1>1, <1>3, WordGo
<1>4. CASE req' = [req EXCEPT ![c].pc = "write", ![c].saw = Loaded(c)] /\ UNCHANGED said
  <2>1. PICK v : v = Loaded(c)
    OBVIOUS
  <2>2. PICK r : r = [pc |-> "write", ask |-> a, saw |-> v]
    OBVIOUS
  <2>3. req' = [req EXCEPT ![c] = r]
    <3>1. req[c] = [pc |-> req[c].pc, ask |-> req[c].ask, saw |-> req[c].saw]
      BY DEF AtPolicy
    <3>2. [req[c] EXCEPT !.pc = "write", !.saw = v] = r
      BY <2>2, <3>1, PlaceAndValue
    <3>3. req' = [req EXCEPT ![c] = [req[c] EXCEPT !.pc = "write", !.saw = v]]
      BY <1>4, <2>1
    <3> QED
      BY <3>2, <3>3
  <2>4. r.pc = "write" /\ r.ask = a /\ r.saw = v
    BY <2>2
  <2>5. /\ a.subject = "keys" => v = keys
        /\ a.subject = "project" => v = req[c].saw
        /\ a.subject \notin {"keys", "project"} => v = Value(a.subject)
    BY <2>1 DEF Loaded
  <2>6. RequestSound(r)'
    BY <1>1, <2>4, <2>5 DEF RequestSound
  <2>7. Overtaken(r)'
    <3> SUFFICES ASSUME NEW x \in Subjects, Lives(x)', x = a.subject, v # Current(x)'
                 PROVE  said'[x] # {}
      BY <2>4 DEF Overtaken, Holds
    <3>1. Current(x)' = Current(x) /\ Lives(x)
      BY <1>1 DEF Current, Value, Lives
    <3>2. x = "project" /\ v = req[c].saw
      BY <2>5, <3>1 DEF Current
    <3>3. Holds(req[c], x)
      BY <1>1, <3>2 DEF Holds
    <3> QED
      BY <1>1, <1>4, <3>1, <3>2, <3>3 DEF Overtaken
  <2> QED
    BY <1>1, <1>4, <2>3, <2>4, <2>5, <2>6, <2>7, WordMove
<1> QED
  BY <1>2, <1>3, <1>4 DEF Load

\* A row is written, or a preference that cannot be written answered.
LEMMA WordWrite ==
  ASSUME WordInv, AtPolicy, NEW c \in Clients, Write(c)
  PROVE  WordInv'
<1>0. PICK a, saw, s : a = req[c].ask /\ saw = req[c].saw /\ s = a.subject
  OBVIOUS
<1>1. /\ req[c].pc = "write" /\ s # "keys"
      /\ RequestSound(req[c]) /\ Overtaken(req[c]) /\ a \in Requests
      /\ s # None /\ profiles \subseteq Users
      /\ UNCHANGED <<profiles, keys, batch>>
  BY <1>0 DEF Write, WordInv, TablesSound, RequestSound
<1>2. /\ s \in Subjects
      /\ a.op = "delete" => s = "project" /\ a.want = None
      /\ s = "role" => a.want \in Roles \cup {None}
      /\ s = "project" => a.want \in {"public", "private", None}
      /\ s = "marked" => a.want \in {"yes", None}
      /\ s = "enabled" => a.want \in {"on", "off"}
  BY <1>0, <1>1, RequestFacts
<1>3. CASE Fail(c) /\ UNCHANGED <<project, role, enabled, marked>>
  BY <1>1, <1>3, WordFail
<1>4. CASE Answer(c) /\ (Commits(a, saw) => Store(a, saw))
        /\ (~ Commits(a, saw) => s = "enabled" /\ UNCHANGED <<project, role, enabled, marked>>)
  <2>1. /\ req' = [req EXCEPT ![c] = Idle]
        /\ said' = [said EXCEPT ![s] = @ \cup {a.want}]
    BY <1>0, <1>1, <1>4 DEF Answer, End
  <2> DEFINE v == Stored(a, saw)
  <2>2. CASE Commits(a, saw)
    <3>1. /\ project' = IF s = "project" THEN v ELSE project
          /\ role'    = IF a.op = "delete" THEN None ELSE IF s = "role" THEN v ELSE role
          /\ marked'  = IF a.op = "delete" THEN None ELSE IF s = "marked" THEN v ELSE marked
          /\ enabled' = IF s = "enabled" THEN v ELSE enabled
      BY <1>0, <1>4, <2>2 DEF Store, Kept, Value
    <3>2. /\ v \in {Value(s), a.want}
          /\ v # a.want => saw = a.want
          /\ a.want = None => v = None
          /\ s = "project" /\ a.want # None => project # None
      BY <1>0, <2>2 DEF Stored, Commits, Value
    <3> HIDE DEF v
    <3>3. TablesSound'
      <4>1. /\ TablesSound /\ profiles' = profiles /\ keys' = keys /\ DOMAIN said' = DOMAIN said
            /\ Value("role") = role /\ Value("marked") = marked
            /\ Value("enabled") = enabled /\ Value("project") = project
        BY <1>1, <2>1 DEF WordInv, Value
      <4>2. /\ s = "role" => v \in Roles \cup {None}
            /\ s = "project" => v \in {"public", "private", None}
            /\ s = "marked" => v \in {"yes", None}
            /\ s = "enabled" => v \in {"on", "off", None}
        BY <1>2, <3>2, <4>1 DEF TablesSound
      <4> QED
        BY <3>1, <4>1, <4>2 DEF TablesSound
    <3>4. ASSUME NEW x \in Subjects
          PROVE  Lives(x)' => Lives(x)
      <4>1. project = None => project' = None
        BY <3>1, <3>2 DEF Value
      <4> QED
        BY <4>1 DEF Lives
    <3>5. ASSUME NEW x \in Subjects \ {s}
          PROVE  Current(x)' = Current(x) \/ ~ Lives(x)'
      <4>1. CASE a.op = "delete"
        <5>1. project' = None /\ s = "project"
          BY <1>2, <3>1, <3>2, <4>1
        <5> QED
          BY <1>1, <3>1, <5>1 DEF Lives, Current, Value, Subjects
      <4>2. CASE a.op # "delete"
        BY <1>1, <3>1, <4>2 DEF Current, Value, Subjects
      <4> QED
        BY <4>1, <4>2
    <3>6. Lives(s)' => Value(s)' = v
      BY <1>1, <1>2, <3>1 DEF Value, Subjects
    <3>7. Settled(s)'
      <4> SUFFICES ASSUME Lives(s)'
                   PROVE  Found(s)' \subseteq said'[s] /\ said'[s] # {}
        BY DEF Settled
      <4>1. said'[s] = said[s] \cup {a.want} /\ Found(s)' = {v} /\ Found(s) = {Value(s)}
        BY <1>1, <1>2, <2>1, <3>6 DEF WordInv, TablesSound, Found
      <4>2. CASE v = a.want
        BY <4>1, <4>2
      <4>3. CASE v # a.want
        <5>1. v = Value(s) /\ saw = a.want
          BY <3>2, <4>3
        <5>2. said[s] # {}
          BY <1>0, <1>1, <1>2, <3>4, <4>3, <5>1 DEF Overtaken, Holds, Current
        <5> QED
          BY <1>2, <3>4, <4>1, <5>1, <5>2 DEF WordInv, Settled
      <4> QED
        BY <4>2, <4>3
    <3>8. PICK i : i \in RowIds
      BY RowsToSpare
    <3>9. Ids(keys') \subseteq Ids(keys) \cup {i}
      BY <1>1 DEF Ids
    <3> QED
      BY <1>1, <1>2, <2>1, <3>3, <3>4, <3>5, <3>7, <3>8, <3>9, WordAnswer
  <2>3. CASE ~ Commits(a, saw)
    <3>1. /\ s = "enabled" /\ UNCHANGED <<project, role, enabled, marked>>
          /\ saw # enabled
      BY <1>0, <1>4, <2>3 DEF Commits, Value
    <3>2. TablesSound'
      BY <1>1, <2>1, <3>1 DEF WordInv, TablesSound
    <3>3. \A x \in Subjects : Current(x)' = Current(x) /\ Lives(x)' = Lives(x)
      BY <1>1, <3>1 DEF Current, Value, Lives
    <3>4. Settled(s)'
      <4>1. Found(s)' = Found(s) /\ said'[s] = said[s] \cup {a.want}
        BY <1>1, <1>2, <2>1, <3>1 DEF WordInv, TablesSound, Found, Value
      <4>2. Lives(s) /\ Current(s) = enabled
        BY <3>1 DEF Lives, Current, Value
      <4>3. said[s] # {}
        BY <1>0, <1>1, <1>2, <3>1, <4>2 DEF Overtaken, Holds
      <4> QED
        BY <1>2, <4>1, <4>2, <4>3 DEF WordInv, Settled
    <3>5. PICK i : i \in RowIds
      BY RowsToSpare
    <3>6. Ids(keys') \subseteq Ids(keys) \cup {i}
      BY <1>1 DEF Ids
    <3> QED
      BY <1>1, <1>2, <2>1, <3>2, <3>3, <3>4, <3>5, <3>6, WordAnswer
  <2> QED
    BY <2>2, <2>3
<1> QED
  BY <1>0, <1>3, <1>4 DEF Write
\* There is an id that no row has or had, as far as requests have seen them.
LEMMA NewIdIsNew ==
  ASSUME WordInv, NEW c \in Clients, req[c].pc # "idle"
  PROVE  NewId \in RowIds /\ NewId \notin Ids(keys)
<1>1. PICK used \in SUBSET RowIds : IsFiniteSet(used) /\ IdsUsed(used)
  BY DEF WordInv, IdsCounted
<1>2. /\ Cardinality(used) \in Nat /\ Cardinality(Busy) \in Nat /\ asked \in Nat /\ asked <= MaxRequests
      /\ Cardinality(Busy) > 0
  <2>1. c \in Busy /\ IsFiniteSet(Busy)
    BY DEF Busy, WordInv, IdsCounted
  <2>2. Cardinality(Busy) \in Nat /\ Cardinality(Busy) # 0
    BY <2>1, FS_CardinalityType, FS_EmptySet
  <2> QED
    BY <1>1, <2>2, FS_CardinalityType DEF WordInv, IdsCounted
<1>3. PICK i \in RowIds : i \notin used
  <2> SUFFICES ASSUME RowIds \subseteq used PROVE FALSE
    OBVIOUS
  <2>1. IsFiniteSet(RowIds) /\ Cardinality(RowIds) <= Cardinality(used) /\ Cardinality(RowIds) \in Nat
    BY <1>1, FS_Subset, FS_CardinalityType
  <2> QED
    BY <1>1, <1>2, <2>1, RowsAssumption, AccountsAssumption DEF IdsUsed
<1>4. \A d \in Clients : /\ i \notin Ids(keys)
                         /\ req[d].pc = "write" /\ req[d].ask.subject = "keys" => i \notin Ids(req[d].saw)
  BY <1>1, <1>3 DEF IdsUsed
<1> QED
  BY <1>3, <1>4 DEF NewId

\* Rows of keys are replaced by others that say what is answered.
LEMMA WordKeys ==
  ASSUME WordInv, AtPolicy, NEW c \in Clients, NEW want, NEW i \in RowIds, NEW rows,
         req[c].pc = "write", req[c].ask.subject = "keys", want = req[c].ask.want,
         NEW saw, saw = req[c].saw, Answer(c),
         UNCHANGED <<profiles, project, role, enabled, marked, batch>>,
         rows \subseteq KeyRows, IsFiniteSet(rows), \A j, k \in rows : j.id = k.id => j = k,
         keys' = rows, Ids(rows) \subseteq Ids(keys) \cup {i},
         Visible(rows) \subseteq Visible(keys) \cup {want},
         saw = keys => Visible(rows) \subseteq {want}
  PROVE  WordInv'
<1>1. req' = [req EXCEPT ![c] = Idle] /\ said' = [said EXCEPT !["keys"] = @ \cup {want}]
  BY AccountsAssumption DEF Answer, End
<1>2. TablesSound'
  BY <1>1 DEF WordInv, TablesSound
<1>3. Settled("keys")'
  <2>1. said'["keys"] = said["keys"] \cup {want}
    BY <1>1 DEF WordInv, TablesSound, Subjects
  <2>2. Found("keys")' = Visible(rows) /\ Found("keys") = Visible(keys)
    BY DEF Found
  <2>3. CASE saw = keys
    BY <2>1, <2>2, <2>3 DEF Settled
  <2>4. CASE saw # keys
    <3>1. Lives("keys") /\ Holds(req[c], "keys") /\ Current("keys") = keys /\ "keys" \in Subjects
      BY DEF Lives, Holds, Current, Subjects
    <3>2. said["keys"] # {}
      BY <2>4, <3>1 DEF WordInv, Overtaken
    <3>3. Found("keys") \subseteq said["keys"]
      BY <3>1, <3>2 DEF WordInv, Settled
    <3> QED
      BY <2>1, <2>2, <3>3 DEF Settled
  <2> QED
    BY <2>3, <2>4
<1>4. /\ \A x \in Subjects \ {"keys"} : Current(x)' = Current(x)
      /\ \A x \in Subjects : Lives(x)' = Lives(x)
      /\ "keys" \in Subjects
  BY DEF Current, Value, Lives, Subjects
<1>5. Ids(keys') \subseteq Ids(keys) \cup {i}
  OBVIOUS
<1> QED
  BY <1>1, <1>2, <1>3, <1>4, <1>5, WordAnswer

\* A row of keys is added to those that are left.
LEMMA OneKeyMore ==
  ASSUME TablesSound, NEW i \in RowIds, NEW s \in Secrets,
         NEW left, left \subseteq keys, i \notin Ids(left),
         NEW rows, rows = left \cup {KeyRow(i, s)}
  PROVE  /\ rows \subseteq KeyRows /\ IsFiniteSet(rows)
         /\ \A j, k \in rows : j.id = k.id => j = k
         /\ Ids(rows) \subseteq Ids(keys) \cup {i}
         /\ Visible(rows) \subseteq Visible(keys) \cup {s}
         /\ left = {} => Visible(rows) \subseteq {s}
<1>1. KeyRow(i, s).id = i /\ KeyRow(i, s).secret = s /\ KeyRow(i, s) \in KeyRows
  BY DEF KeyRow, KeyRows
<1>2. IsFiniteSet(left)
  BY FS_Subset DEF TablesSound
<1>3. rows \subseteq KeyRows /\ IsFiniteSet(rows)
  BY <1>1, <1>2, FS_AddElement DEF TablesSound
<1>4. \A j, k \in rows : j.id = k.id => j = k
  BY <1>1 DEF TablesSound, Ids
<1>5. Ids(rows) \subseteq Ids(keys) \cup {i}
  BY <1>1 DEF Ids
<1>6. rows # {} /\ Visible(rows) = {k.secret : k \in rows}
  BY DEF Visible
<1>7. \A v \in Visible(rows) : v = s \/ \E k \in keys : v = k.secret /\ k \in left
  BY <1>1, <1>6
<1>8. keys # {} => Visible(keys) = {k.secret : k \in keys}
  BY DEF Visible
<1> QED
  BY <1>3, <1>4, <1>5, <1>7, <1>8

\* A key is saved: the rows that were seen become one.
LEMMA WordSave ==
  ASSUME WordInv, AtPolicy, NEW c \in Clients, SaveKey(c)
  PROVE  WordInv'
<1>1. PICK a, saw : a = req[c].ask /\ saw = req[c].saw
  OBVIOUS
<1>2. /\ req[c].pc = "write" /\ a.op = "save" /\ a \in Requests
      /\ UNCHANGED <<profiles, project, role, enabled, marked, batch>>
      /\ TablesSound /\ profiles \subseteq Users
  BY <1>1 DEF SaveKey, WordInv, TablesSound, RequestSound
<1>3. a.subject = "keys" /\ a.want \in Secrets /\ saw \subseteq KeyRows
  <2>1. a.subject = "keys" /\ a.want \in Secrets
    BY <1>2, RequestFacts
  <2> QED
    BY <1>1, <1>2, <2>1 DEF WordInv, RequestSound
<1>4. CASE Fail(c) /\ UNCHANGED keys
  BY <1>2, <1>4, WordFail
<1>5. CASE saw = {} /\ keys' = keys \cup {KeyRow(NewId, a.want)} /\ Answer(c)
  <2>1. PICK i, rows : i = NewId /\ rows = keys \cup {KeyRow(i, a.want)}
    OBVIOUS
  <2>2. i \in RowIds /\ i \notin Ids(keys)
    BY <1>2, <2>1, NewIdIsNew
  <2>3. PICK s \in Secrets : s = a.want
    BY <1>3
  <2>4. /\ rows \subseteq KeyRows /\ IsFiniteSet(rows)
        /\ \A j, k \in rows : j.id = k.id => j = k
        /\ Ids(rows) \subseteq Ids(keys) \cup {i}
        /\ Visible(rows) \subseteq Visible(keys) \cup {a.want}
        /\ keys = {} => Visible(rows) \subseteq {a.want}
    BY <1>2, <2>1, <2>2, <2>3, OneKeyMore
  <2>5. keys' = rows
    BY <1>5, <2>1
  <2> QED
    BY <1>1, <1>2, <1>3, <1>5, <2>2, <2>4, <2>5, WordKeys
<1>6. ASSUME NEW first \in saw, keys' = Without(saw) \cup {KeyRow(first.id, a.want)}, Answer(c)
      PROVE  WordInv'
  <2>1. PICK i, left, rows : /\ i = first.id /\ left = Without(saw)
                             /\ rows = left \cup {KeyRow(i, a.want)}
    OBVIOUS
  <2>2. /\ left = {k \in keys : k.id \notin Ids(saw)} /\ i \in RowIds
        /\ i \notin Ids(left)
        /\ saw = keys => left = {}
    BY <1>3, <2>1 DEF Without, Ids, KeyRows
  <2>3. /\ rows \subseteq KeyRows /\ IsFiniteSet(rows)
        /\ \A j, k \in rows : j.id = k.id => j = k
        /\ Ids(rows) \subseteq Ids(keys) \cup {i}
        /\ Visible(rows) \subseteq Visible(keys) \cup {a.want}
        /\ left = {} => Visible(rows) \subseteq {a.want}
    <3>1. left \subseteq keys
      BY <2>2
    <3>2. PICK s \in Secrets : s = a.want
      BY <1>3
    <3>3. TablesSound /\ i \in RowIds /\ i \notin Ids(left) /\ rows = left \cup {KeyRow(i, s)}
      BY <1>2, <2>1, <2>2, <3>2
    <3>4. /\ rows \subseteq KeyRows /\ IsFiniteSet(rows)
          /\ \A j, k \in rows : j.id = k.id => j = k
          /\ Ids(rows) \subseteq Ids(keys) \cup {i}
          /\ Visible(rows) \subseteq Visible(keys) \cup {s}
          /\ left = {} => Visible(rows) \subseteq {s}
      BY ONLY <3>1, <3>3, OneKeyMore
    <3> QED
      BY <3>2, <3>4
  <2>4. keys' = rows
    BY <1>6, <2>1
  <2> QED
    BY <1>1, <1>2, <1>3, <1>6, <2>2, <2>3, <2>4, WordKeys
<1> QED
  BY <1>1, <1>4, <1>5, <1>6 DEF SaveKey

\* A key is forgotten: the rows that were seen are deleted.
LEMMA WordForget ==
  ASSUME WordInv, AtPolicy, NEW c \in Clients, ForgetKey(c)
  PROVE  WordInv'
<1>1. PICK a, saw, rows : a = req[c].ask /\ saw = req[c].saw /\ rows = Without(saw)
  OBVIOUS
<1>2. /\ req[c].pc = "write" /\ a.op = "forget" /\ a \in Requests
      /\ UNCHANGED <<profiles, project, role, enabled, marked, batch>>
      /\ TablesSound /\ keys' = rows /\ Answer(c)
  BY <1>1 DEF ForgetKey, WordInv, RequestSound
<1>3. a.subject = "keys" /\ a.want = None
  BY <1>2, RequestFacts
<1>4. rows \subseteq keys /\ (saw = keys => rows = {})
  BY <1>1 DEF Without, Ids
<1>5. rows \subseteq KeyRows /\ IsFiniteSet(rows) /\ \A j, k \in rows : j.id = k.id => j = k
  BY <1>2, <1>4, FS_Subset DEF TablesSound
<1>6. Ids(rows) \subseteq Ids(keys)
  BY <1>4 DEF Ids
<1>7. Visible(rows) \subseteq Visible(keys) \cup {a.want} /\ (saw = keys => Visible(rows) \subseteq {a.want})
  BY <1>3, <1>4 DEF Visible
<1>8. PICK i : i \in RowIds
  BY RowsToSpare
<1> QED
  BY <1>1, <1>2, <1>3, <1>5, <1>6, <1>7, <1>8, WordKeys

\* Every step keeps the word of the last requests.
LEMMA WordStep == WordInv /\ GateInv /\ [AccountsNext]_vars => WordInv'
<1> SUFFICES ASSUME WordInv, AtPolicy, [AccountsNext]_vars PROVE WordInv'
  BY DEF GateInv
<1>1. CASE UNCHANGED accountVars
  <2>1. /\ UNCHANGED <<profiles, project, role, enabled, marked, keys, req, said, before, asked>>
    BY <1>1 DEF accountVars
  <2>2. TablesSound'
    BY <2>1 DEF WordInv, TablesSound
  <2>3. \A c \in Clients : RequestSound(req[c])' /\ Overtaken(req[c])'
    BY <2>1 DEF WordInv, RequestSound, Overtaken, Holds, Current, Value, Lives
  <2>4. \A x \in Subjects : Settled(x)'
    BY <2>1 DEF WordInv, Settled, Found, Value, Lives
  <2>5. IdsCounted'
    BY <2>1 DEF WordInv, IdsCounted, IdsUsed, Busy, Ids
  <2> QED
    BY <2>2, <2>3, <2>4, <2>5 DEF WordInv
<1>2. ASSUME NEW c \in Clients, NEW a \in Requests, Arrive(c, a)
      PROVE  WordInv'
  BY <1>2, WordArrive
<1>3. ASSUME NEW c \in Clients, Handle(c)
      PROVE  WordInv'
  BY <1>3, WordChecks, WordProject, WordLoad, WordWrite, WordSave, WordForget DEF Handle
<1> QED
  BY <1>1, <1>2, <1>3 DEF AccountsNext, vars
-----------------------------------------------------------------------------
(***************************************************************************)
(* The lock on the usage row, and the bounds of time.                      *)
(***************************************************************************)
\* The lock is taken and given back by who looks at the row.
LEMMA HolderStep == HolderSound /\ GateInv /\ [AccountsNext]_vars => HolderSound'
<1> SUFFICES ASSUME HolderSound, GateInv, [AccountsNext]_vars PROVE HolderSound'
  OBVIOUS
<1>0. gate \in [Gates -> [pc : GatePcs, free : BOOLEAN, found : BOOLEAN, at : Nat]]
  BY DEF GateInv, GateType
<1>1. CASE UNCHANGED <<holder, gate>>
  BY <1>1 DEF HolderSound
<1>2. ASSUME NEW c \in Gates, NEW pc, NEW free, NEW found, NEW at,
             gate' = [gate EXCEPT ![c] = [pc |-> pc, free |-> free, found |-> found, at |-> at]],
             gate[c].pc \notin {"late", "record"}, holder' = holder
      PROVE  HolderSound'
  BY <1>0, <1>2 DEF HolderSound
<1>3. ASSUME NEW c \in Clients, Handle(c)
      PROVE  HolderSound'
  <2>1. CASE ReadKey(c)
    <3>1. req[c].pc = "key" /\ holder' = holder
      BY <2>1 DEF ReadKey
    <3>2. gate[c].pc = "idle"
      BY <3>1 DEF GateInv, AtPolicy
    <3>3. gate' = gate \/ gate' = [gate EXCEPT ![c].pc = "plan"]
      BY <2>1 DEF ReadKey
    <3> QED
      BY <1>0, <3>1, <3>2, <3>3 DEF HolderSound, Clients
  <2>2. CASE Leave(c)
    <3>1. gate' = [gate EXCEPT ![c] = IdleGate] /\ holder' = holder
          /\ gate[c].pc \in {"admitted", "refused"}
      BY <2>2 DEF Leave
    <3> QED
      BY <1>0, <3>1 DEF HolderSound, Clients
  <2>3. CASE ~ (ReadKey(c) \/ Leave(c))
    <3>1. UNCHANGED billingVars
      BY <1>3, <2>3 DEF Handle, ReadProfile, InsertProfile, RereadProfile, ReadProject, ReadMember,
                        Create, Load, Write, SaveKey, ForgetKey, ReadPreference
    <3> QED
      BY <1>1, <3>1 DEF billingVars, gateVars
  <2> QED
    BY <2>1, <2>2, <2>3
<1>4. ASSUME NEW c \in Clients, NEW a \in Requests, Arrive(c, a)
      PROVE  HolderSound'
  BY <1>1, <1>4 DEF Arrive, billingVars, gateVars
<1>5. ASSUME NEW g \in Gates, Enforce(g)
      PROVE  HolderSound'
  <2>1. CASE ReadPlan(g) \/ Insert(g)
    <3>1. /\ holder' = holder /\ gate[g].pc \in {"plan", "insert"}
          /\ \A x \in Gates \ {g} : gate'[x] = gate[x]
      BY <1>0, <2>1 DEF ReadPlan, Insert, Pass, Admit, Refuse
    <3> QED
      BY <3>1 DEF HolderSound
  <2>2. CASE TooSoon(g) \/ Record(g)
    BY <2>2 DEF TooSoon, Record, HolderSound
  <2>3. CASE Look(g) \/ Touch(g)
    <3>1. /\ gate[g].pc \in {"look", "touch"} /\ Lock(g)
          /\ \A x \in Gates \ {g} : gate'[x] = gate[x]
          /\ usage # None => gate'[g].pc \in {"late", "record"}
      BY <1>0, <2>3 DEF Look, Touch, Pass
    <3> QED
      BY <3>1 DEF HolderSound, Lock
  <2> QED
    BY <1>5, <2>1, <2>2, <2>3 DEF Enforce
<1>6. CASE Tick \/ \E s \in Subs : Checkout(s) \/ Renew(s) \/ Lapse(s)
  BY <1>1, <1>6 DEF Checkout, Renew, Lapse, Tick, gateVars
<1>7. ASSUME NEW h \in Hooks,
             \/ \E e \in mail : Deliver(h, e)
             \/ LoadRow(h) \/ WriteRow(h) \/ Ask(h) \/ HookFails(h) \/ Cancel(h) \/ Cancelled(h)
      PROVE  HolderSound'
  BY <1>1, <1>7 DEF Deliver, LoadRow, WriteRow, Ask, HookFails, Cancel, Cancelled, gateVars
<1>8. CASE UNCHANGED vars
  BY <1>1, <1>8 DEF vars, billingVars, gateVars
<1> QED
  BY <1>3, <1>4, <1>5, <1>6, <1>7, <1>8 DEF AccountsNext, BillingNext

\* A period begins now, or is one that was paid for.
LEMMA EndsStripe ==
  ASSUME EndsWithin, UNCHANGED now, NEW s, NEW events, Becomes(s, events), s.end <= Horizon
  PROVE  EndsWithin'
  BY DEF Becomes, EndsWithin, Horizon

\* No step makes up a time.
LEMMA EndsStep == EndsWithin /\ BillInv /\ [AccountsNext]_vars => EndsWithin'
<1> SUFFICES ASSUME EndsWithin, BillInv, [AccountsNext]_vars PROVE EndsWithin'
  OBVIOUS
<1>0. /\ now \in Nat /\ paidUntil \in Nat /\ stripe \in [Subs -> StripeStates]
      /\ MaxTime \in Nat /\ Period \in Nat /\ Horizon = MaxTime + Period
  BY BillingAssumption DEF BillInv, BillType, Horizon
<1>1. CASE UNCHANGED <<now, paidUntil>>
  BY <1>1 DEF EndsWithin, Horizon
<1>2. ASSUME NEW c \in Clients, (\E a \in Requests : Arrive(c, a)) \/ Handle(c)
      PROVE  UNCHANGED <<now, paidUntil>>
  BY <1>2 DEF Arrive, Handle, ReadProfile, InsertProfile, RereadProfile, ReadProject, ReadMember,
              Create, Load, Write, SaveKey, ForgetKey, ReadPreference, ReadKey, Leave,
              billingVars, stripeVars
<1>3. ASSUME NEW g \in Gates, Enforce(g)
      PROVE  UNCHANGED <<now, paidUntil>>
  BY <1>3 DEF Enforce, ReadPlan, Look, TooSoon, Touch, Record, Insert, stripeVars
<1>4. CASE Tick
  <2>1. /\ now' = now + 1 /\ now < MaxTime /\ UNCHANGED paidUntil
    BY <1>4 DEF Tick
  <2> QED
    BY <1>0, <2>1 DEF EndsWithin, Horizon
<1>5. ASSUME NEW x \in Subs, Checkout(x) \/ Renew(x) \/ Lapse(x)
      PROVE  EndsWithin'
  <2>1. \E s, events : Becomes(s, events) /\ s.end \in {now + Period, stripe[x].end}
                       /\ (s.end = now + Period \/ Lapse(x))
    <3>1. CASE Checkout(x)
      BY <3>1 DEF Checkout, State
    <3>2. CASE Renew(x)
      BY <3>2 DEF Renew, State
    <3>3. CASE Lapse(x)
      BY <3>3 DEF Lapse, State
    <3> QED
      BY <1>5, <3>1, <3>2, <3>3
  <2>2. PICK s, events : /\ Becomes(s, events) /\ s.end \in {now + Period, stripe[x].end}
                         /\ s.end = now + Period \/ Lapse(x)
    BY <2>1
  <2>3. now + Period <= Horizon
    BY <1>0 DEF EndsWithin
  <2>4. Lapse(x) => stripe[x].end <= Horizon
    <3>1. Lapse(x) => stripe[x].end \in Nat /\ stripe[x].end <= paidUntil
      BY <1>0 DEF Lapse, BillInv, StripeSound, Begun, Genuine, StripeStates
    <3> QED
      BY <1>0, <3>1 DEF EndsWithin
  <2>5. s.end <= Horizon
    BY <2>2, <2>3, <2>4
  <2>6. UNCHANGED now
    BY <1>5 DEF Checkout, Renew, Lapse
  <2> QED
    BY <2>2, <2>5, <2>6, EndsStripe
<1>6. ASSUME NEW h \in Hooks, (\E e \in mail : Deliver(h, e)) \/ LoadRow(h) \/ WriteRow(h)
                                \/ Ask(h) \/ Cancel(h) \/ HookFails(h)
      PROVE  UNCHANGED <<now, paidUntil>>
  BY <1>6 DEF Deliver, LoadRow, WriteRow, Ask, Cancel, HookFails, stripeVars
<1>7. ASSUME NEW h \in Hooks, Cancelled(h)
      PROVE  EndsWithin'
  <2>1. PICK v \in StripeStates : v = stripe[hook[h].loaded.sub] /\ v.end <= paidUntil
    <3>1. hook[h] \in HookStates /\ HookSound(hook[h]) /\ hook[h].loaded # None
      BY <1>7 DEF Cancelled, BillInv, BillType, HooksSound, HookSound
    <3>2. Grounded(hook[h].loaded) /\ hook[h].loaded \in PlanRows
      BY <3>1 DEF HookSound, HookStates
    <3> QED
      BY <3>2 DEF Grounded, BillInv, BillType, StripeSound, Genuine, PlanRows
  <2>2. CASE v.status = "active" /\ ~ v.cancel
    <3>1. PICK s : s = [v EXCEPT !.cancel = TRUE, !.version = Next1]
      OBVIOUS
    <3>2. s.end = v.end /\ v.end \in Nat
      BY <3>1 DEF StripeStates
    <3>3. Becomes(s, {}) /\ UNCHANGED now
      BY <1>7, <2>1, <2>2, <3>1 DEF Cancelled
    <3>4. s.end <= Horizon
      BY <1>0, <2>1, <3>2 DEF EndsWithin
    <3> QED
      BY <3>3, <3>4, EndsStripe
  <2>3. CASE ~ (v.status = "active" /\ ~ v.cancel)
    BY <1>1, <1>7, <2>1, <2>3 DEF Cancelled
  <2> QED
    BY <2>2, <2>3
<1>8. CASE UNCHANGED vars
  BY <1>1, <1>8 DEF vars, billingVars, stripeVars
<1> QED
  BY <1>1, <1>2, <1>3, <1>4, <1>5, <1>6, <1>7, <1>8 DEF AccountsNext, BillingNext
\* Rows with different ids are as many as the ids.
LEMMA IdsAsManyAsKeys ==
  ASSUME TablesSound
  PROVE  Cardinality(Ids(keys)) = Cardinality(keys)
<1> DEFINE f == [k \in keys |-> k.id]
<1>1. f \in Bijection(keys, Ids(keys))
  <2>1. f \in [keys -> Ids(keys)]
    BY DEF Ids
  <2>2. \A j, k \in keys : f[j] = f[k] => j = k
    BY DEF TablesSound
  <2>3. \A i \in Ids(keys) : \E k \in keys : f[k] = i
    BY DEF Ids
  <2> HIDE DEF f
  <2> QED
    BY <2>1, <2>2, <2>3 DEF Bijection, Injection, Surjection, IsInjective
<1>2. ExistsBijection(keys, Ids(keys))
  BY <1>1 DEF ExistsBijection
<1> QED
  BY <1>2, FS_Bijection DEF TablesSound

\* The types follow from the invariants.
LEMMA TypesFollow ==
  ASSUME WordInv, GateInv, BillInv, HolderSound, EndsWithin
  PROVE  TypeOK
<1>1. /\ MaxTime \in Nat /\ Period \in Nat /\ Times = 0 .. MaxTime + Period + 1
      /\ None \notin PlanRows /\ None \notin Nat
  BY BillingAssumption, NoneAssumption DEF Times
<1>2. usage \in Times \cup {None}
  BY <1>1 DEF GateInv, GateType, UsageIsLast, EndsWithin
<1>3. row # None => row.status \in {"checkout_completed", "active", "canceled"} /\ row.end \in Times
  <2> SUFFICES ASSUME row # None
               PROVE  row.status \in {"checkout_completed", "active", "canceled"} /\ row.end \in Times
    OBVIOUS
  <2>1. row \in PlanRows /\ Grounded(row)
    BY DEF BillInv, BillType, RowsSound
  <2>2. row.end \in Nat /\ row.end <= MaxTime + Period /\ paidUntil \in Nat
    BY <1>1, <2>1 DEF PlanRows, Grounded, EndsWithin, Horizon, BillInv, BillType
  <2> QED
    BY <1>1, <2>1, <2>2 DEF PlanRows
<1>4. Cardinality(Ids(keys)) = Cardinality(keys)
  BY IdsAsManyAsKeys DEF WordInv
<1>5. \A c \in Clients : gate[c].pc # "idle" <=> req[c].pc = "policy"
  BY DEF GateInv, AtPolicy
<1> QED
  BY <1>2, <1>3, <1>4, <1>5 DEF WordInv, TablesSound, HolderSound, KeyRows, TypeOK

\* The tables, the requests and the plan are well formed.
THEOREM AccountTypesHold == Spec => []TypeOK
<1> DEFINE Inv == WordInv /\ GateInv /\ BillInv /\ HolderSound /\ EndsWithin
<1>1. AccountsInit => Inv
  <2>1. AccountsInit => HolderSound
    BY DEF AccountsInit, BillingInit, HolderSound
  <2>2. AccountsInit => EndsWithin
    BY BillingAssumption DEF AccountsInit, BillingInit, EndsWithin, Horizon, State, IdleHook
  <2> QED
    BY <2>1, <2>2, WordStart, GateInit, BillInit
<1>2. Inv /\ [AccountsNext]_vars => Inv'
  BY WordStep, GateStep, BillStep, HolderStep, EndsStep
<1>3. Inv => TypeOK
  BY TypesFollow
<1> QED
  BY <1>1, <1>2, <1>3, PTL DEF Spec

\* Whatever requests overlap, and in whatever order their statements come:
\* nobody is turned away, and what is found in the end is the word of one of
\* the last, whatever the number of requests, keys and roles.
THEOREM RequestsDoSettle == Spec => []RequestsSettle
<1> DEFINE Inv == WordInv /\ GateInv
<1>1. AccountsInit => Inv
  BY WordStart, GateInit
<1>2. Inv /\ [AccountsNext]_vars => Inv'
  BY WordStep, GateStep
<1>3. Inv => NobodyIsTurnedAway /\ LastWordStands
  BY DEF WordInv, RequestSound, NobodyIsTurnedAway, LastWordStands, Settled, Lives
<1>4. Spec => [](NobodyIsTurnedAway /\ LastWordStands)
  BY <1>1, <1>2, <1>3, PTL DEF Spec
<1>5. TypeOK /\ (NobodyIsTurnedAway /\ LastWordStands) => RequestsSettle
  BY DEF RequestsSettle
<1> QED
  BY <1>4, <1>5, AccountTypesHold, PTL
=============================================================================
