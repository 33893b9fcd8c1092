------------------------------ MODULE Revenue ------------------------------
(***************************************************************************)
(* revenue-service: an earning is created once per reference, claimed by   *)
(* one of the goroutines that may process it, split by the rule in force   *)
(* and paid out as two credits asked of botpay over NATS request/reply.    *)
(* The NATS listener, REST requests and the worker loop run side by side;  *)
(* requests are lost or answered late, database calls fail, the process    *)
(* dies between any two of its steps.                                      *)
(*                                                                         *)
(* botpay's side of a credit is one step: it is Store.AddCredit, which     *)
(* WalletStore shows to book a reference once.                             *)
(***************************************************************************)
EXTENDS Integers, Sequences, FiniteSets, FiniteSetsExt

CONSTANTS
    Events,        \* the earnings that services report
    RefOf,         \* RefOf[e]: the reference of e, or NoRef
    TotalOf,       \* TotalOf[e]: its amount in nano
    TypeOf,        \* TypeOf[e]: its RevenueType, which need not have a rule
    HasOwner,      \* the events that name an owner
    Listeners,     \* goroutines that run CreateAndProcess
    Worker,        \* the goroutine of RunWorker
    Percents,      \* Percents[t]: the owner percentages of type t; NoRule for no rule
                   \* (updateRule checks that the two percentages add up to 100, not
                   \* that either is one: 150 and -50 are a rule)
    BatchLimit,    \* how many pending earnings one batch lists
    Lossy,         \* nano amounts n with int64(float64(n)/1e9 * 1e9) = n - 1; the least is 15
    NoRef, NoRule,
    MaxDeliveries, \* bound: how often one event is reported
    MaxChanges,    \* bound: changes an administrator makes
    MaxFaults      \* bound: failed database calls and crashes

Goroutines == Listeners \cup {Worker}
Types == {TypeOf[e] : e \in Events}
Rules == {r \in [Types -> UNION {Percents[t] : t \in Types}] : \A t \in Types : r[t] \in Percents[t]}

ASSUME RevenueAssumption ==
    /\ Events # {} /\ TotalOf \in [Events -> Nat] /\ HasOwner \subseteq Events
    /\ Worker \notin Listeners
    /\ Percents \in [Types -> SUBSET (Int \cup {NoRule})]
    /\ BatchLimit \in Nat \ {0}
    /\ Lossy \subseteq Nat \ {0, 1}
    /\ {MaxDeliveries, MaxChanges, MaxFaults} \subseteq Nat

VARIABLES
    earning,    \* the earnings table, by creation
    rule,       \* by type: OwnerPercent of the active rule, or NoRule
    platform,   \* a default platform wallet is set
    pc, event, cur, share, \* per goroutine: where it is, what it handles, the owner's share
    batch,      \* what is left of the worker's batch, taken oldest first
    requests,   \* credits asked and not yet served
    replies,    \* credits answered and not yet read
    credits,    \* the credits botpay booked
    delivered, changes, faults

tableVars == <<earning, rule, platform>>
localVars == <<pc, event, cur, share>>
netVars == <<requests, replies, credits>>
boundVars == <<delivered, changes, faults>>
vars == <<tableVars, localVars, batch, netVars, boundVars>>

Init ==
    /\ earning = << >>
    /\ rule \in Rules
    /\ platform = TRUE
    /\ pc = [g \in Goroutines |-> "idle"]
    /\ event \in [Goroutines -> {CHOOSE e \in Events : TRUE}]
    /\ cur = [g \in Goroutines |-> 0]
    /\ share = [g \in Goroutines |-> 0]
    /\ batch = {}
    /\ requests = {} /\ replies = {} /\ credits = {}
    /\ delivered = [e \in Events |-> 0] /\ changes = 0 /\ faults = 0

Goto(g, label) == pc' = [pc EXCEPT ![g] = label]

-----------------------------------------------------------------------------
(* An event arrives, by NATS or by REST, perhaps again.  CreateAndProcess  *)
(* refuses amounts that are not positive.                                  *)
Deliver(g, e) ==
    /\ pc[g] = "idle" /\ delivered[e] < MaxDeliveries /\ TotalOf[e] > 0
    /\ delivered' = [delivered EXCEPT ![e] = @ + 1]
    /\ event' = [event EXCEPT ![g] = e]
    /\ Goto(g, IF RefOf[e] = NoRef THEN "create" ELSE "lookup")
    /\ UNCHANGED <<tableVars, cur, share, batch, netVars, changes, faults>>

\* Mutant: the lookup never finds anything.
KnownNever(ref) == FALSE

(* Store.FindEarningByRefID.                                               *)
Known(ref) == \E n \in DOMAIN earning : earning[n].ref = ref

Lookup(g) ==
    /\ pc[g] = "lookup"
    /\ Goto(g, IF Known(RefOf[event[g]]) THEN "idle" ELSE "create")
    /\ UNCHANGED <<tableVars, event, cur, share, batch, netVars, boundVars>>

(* The id the database gives the next earning.                             *)
NewId == Len(earning) + 1

(* Store.CreateEarning of what CreateAndProcess puts together.             *)
WithNew(e) ==
    Append(earning, [ref |-> RefOf[e], total |-> TotalOf[e], type |-> TypeOf[e],
                     hasOwner |-> e \in HasOwner, status |-> "pending", owner |-> 0, platform |-> 0])

Create(g) ==
    /\ pc[g] = "create"
    /\ earning' = WithNew(event[g])
    /\ cur' = [cur EXCEPT ![g] = NewId]
    /\ Goto(g, "rule")
    /\ UNCHANGED <<rule, platform, event, share, batch, netVars, boundVars>>

\* Mutant: the worker lists the earnings that failed.
ListPendingFailed == {n \in DOMAIN earning : earning[n].status = "failed"}

(* The rows of Store.ListPendingEarnings.                                  *)
ListPending == {n \in DOMAIN earning : earning[n].status = "pending"}

(* processBatch lists a batch, the oldest BatchLimit pending earnings, and *)
(* then processes one after another.                                       *)
ListBatch ==
    /\ pc[Worker] = "idle" /\ batch = {}
    /\ batch' = {n \in ListPending : Cardinality({m \in ListPending : m < n}) < BatchLimit}
    /\ UNCHANGED <<tableVars, localVars, netVars, boundVars>>

TakeEarning ==
    /\ pc[Worker] = "idle"
    /\ \E n \in batch :
          /\ \A m \in batch : n <= m
          /\ cur' = [cur EXCEPT ![Worker] = n]
          /\ batch' = batch \ {n}
    /\ Goto(Worker, "rule")
    /\ UNCHANGED <<tableVars, event, share, netVars, boundVars>>

-----------------------------------------------------------------------------
(* Store.GetRule, of the type of earning n.                                *)
RuleOf(n) == rule[earning[n].type]

(* ProcessEarning: the rule is read and the split computed; the platform   *)
(* gets the rest.  Without a rule the earning stays pending.  int64 cuts   *)
(* toward zero, and the rest of more than the total is negative.           *)
OwnerShare(total, percent) ==
    IF percent < 0 THEN -((total * (-percent)) \div 100) ELSE (total * percent) \div 100

ReadRule(g) ==
    /\ pc[g] = "rule"
    /\ IF RuleOf(cur[g]) = NoRule
       THEN Goto(g, "idle") /\ UNCHANGED share
       ELSE /\ share' = [share EXCEPT ![g] = OwnerShare(earning[cur[g]].total, RuleOf(cur[g]))]
            /\ Goto(g, "claim")
    /\ UNCHANGED <<tableVars, event, cur, batch, netVars, boundVars>>

\* Mutant: the update does not look at the status.
ClaimableAlways(n) == TRUE

(* The condition of MarkProcessing's UPDATE.                               *)
Claimable(n) == earning[n].status = "pending"

WithStatus(n, status) == [earning EXCEPT ![n].status = status]

Claim(g) ==
    /\ pc[g] = "claim"
    /\ IF Claimable(cur[g])
       THEN /\ earning' = WithStatus(cur[g], "processing")
            /\ Goto(g, IF share[g] > 0 /\ earning[cur[g]].hasOwner THEN "owner" ELSE "platform")
       ELSE Goto(g, "idle") /\ UNCHANGED earning
    /\ UNCHANGED <<rule, platform, event, cur, share, batch, netVars, boundVars>>

(* natspayclient.Credit under the reference of the earning and the role,   *)
(* to the wallet of the owner, of the platform, or of Telegram id zero.    *)
(* The amount travels as a float of TON and botpay truncates it to nano.   *)
Credit(n, role, amount) ==
    [id |-> n, role |-> role, amount |-> IF amount \in Lossy THEN amount - 1 ELSE amount]

Ask(g, role, amount) ==
    /\ requests' = requests \cup {Credit(cur[g], role, amount)}
    /\ UNCHANGED <<replies, credits>>

PayOwner(g) ==
    /\ pc[g] = "owner"
    /\ Ask(g, "owner", share[g])
    /\ Goto(g, "awaitOwner")
    /\ UNCHANGED <<tableVars, event, cur, share, batch, boundVars>>

Rest(g) == earning[cur[g]].total - share[g]

PayPlatform(g) ==
    /\ pc[g] = "platform"
    /\ IF Rest(g) > 0 /\ platform
       THEN Ask(g, "platform", Rest(g)) /\ Goto(g, "awaitPlatform")
       ELSE Goto(g, "done") /\ UNCHANGED netVars
    /\ UNCHANGED <<tableVars, event, cur, share, batch, boundVars>>

Answered(g, roles) == \E m \in replies : m.id = cur[g] /\ m.role \in roles

(* The answer of botpay is read.                                           *)
Receive(g) ==
    /\ \/ pc[g] = "awaitOwner" /\ Answered(g, {"owner"}) /\ Goto(g, "platform")
       \/ pc[g] = "awaitPlatform" /\ Answered(g, {"platform", "zero"}) /\ Goto(g, "done")
    /\ UNCHANGED <<tableVars, event, cur, share, batch, netVars, boundVars>>

\* Mutant: a failed payment of the owner is only logged.
GiveUpSoft(g) ==
    /\ \/ pc[g] = "awaitOwner" /\ Goto(g, "platform")
       \/ pc[g] = "awaitPlatform" /\ Goto(g, "done")
    /\ UNCHANGED <<tableVars, event, cur, share, batch, netVars, boundVars>>

\* Mutant: the error is returned and the earning not marked.
GiveUpUnmarked(g) ==
    /\ \/ pc[g] = "awaitOwner" /\ Goto(g, "idle")
       \/ pc[g] = "awaitPlatform" /\ Goto(g, "done")
    /\ UNCHANGED <<tableVars, event, cur, share, batch, netVars, boundVars>>

(* No answer in time, or an error.  The request may still be served later. *)
(* The platform's credit is a soft error.                                  *)
GiveUp(g) ==
    /\ \/ pc[g] = "awaitOwner" /\ Goto(g, "fail")
       \/ pc[g] = "awaitPlatform" /\ Goto(g, "done")
    /\ UNCHANGED <<tableVars, event, cur, share, batch, netVars, boundVars>>

MarkFailed(g) ==
    /\ pc[g] = "fail"
    /\ earning' = WithStatus(cur[g], "failed")
    /\ Goto(g, "idle")
    /\ UNCHANGED <<rule, platform, event, cur, share, batch, netVars, boundVars>>

WithResult(n, owner) ==
    [earning EXCEPT ![n] = [@ EXCEPT !.status = "done", !.owner = owner,
                                     !.platform = earning[n].total - owner]]

MarkDone(g) ==
    /\ pc[g] = "done"
    /\ earning' = WithResult(cur[g], share[g])
    /\ Goto(g, "idle")
    /\ UNCHANGED <<rule, platform, event, cur, share, batch, netVars, boundVars>>

-----------------------------------------------------------------------------
(* botpay serves a request: handleCredit, idempotent in the reference.     *)
Serve(m) ==
    /\ m \in requests
    /\ requests' = requests \ {m}
    /\ credits' = (IF \E c \in credits : c.id = m.id /\ c.role = m.role
                   THEN credits ELSE credits \cup {m})
    /\ replies' = replies \cup {m}
    /\ UNCHANGED <<tableVars, localVars, batch, boundVars>>

(* Core NATS does not store messages.                                      *)
Lose(m) ==
    /\ m \in requests
    /\ requests' = requests \ {m}
    /\ UNCHANGED <<tableVars, localVars, batch, replies, credits, boundVars>>

(* updateRule replaces the rule; setPlatformWallet clears the old default  *)
(* and sets the new one in two statements.                                 *)
Administer ==
    /\ changes < MaxChanges
    /\ changes' = changes + 1
    /\ \/ (\E t \in Types : \E p \in Percents[t] \ {rule[t]} : rule' = [rule EXCEPT ![t] = p])
          /\ UNCHANGED platform
       \/ platform' = ~platform /\ UNCHANGED rule
    /\ UNCHANGED <<earning, localVars, batch, netVars, delivered, faults>>

(* A database call fails and the goroutine returns its error; MarkFailed's *)
(* own error is not looked at.  A write whose answer was lost has taken    *)
(* effect.                                                                 *)
CallFails(g) ==
    /\ faults < MaxFaults
    /\ faults' = faults + 1
    /\ pc[g] \in {"lookup", "create", "rule", "claim", "fail", "done"}
    /\ \/ UNCHANGED earning
       \/ pc[g] = "create" /\ earning' = WithNew(event[g])
       \/ pc[g] = "claim" /\ Claimable(cur[g]) /\ earning' = WithStatus(cur[g], "processing")
       \/ pc[g] = "fail" /\ earning' = WithStatus(cur[g], "failed")
       \/ pc[g] = "done" /\ earning' = WithResult(cur[g], share[g])
    /\ Goto(g, "idle")
    /\ UNCHANGED <<rule, platform, event, cur, share, batch, netVars, delivered, changes>>

(* GetPlatformWallet fails: it returns an empty wallet with its error, the *)
(* error is ignored and the platform's share credited to Telegram id zero, *)
(* for which botpay makes a wallet.                                        *)
WalletUnread(g) ==
    /\ faults < MaxFaults
    /\ faults' = faults + 1
    /\ pc[g] = "platform" /\ Rest(g) > 0
    /\ Ask(g, "zero", Rest(g))
    /\ Goto(g, "awaitPlatform")
    /\ UNCHANGED <<tableVars, event, cur, share, batch, delivered, changes>>

(* The process dies and restarts.  Requests under way stay under way.      *)
Crash ==
    /\ faults < MaxFaults
    /\ faults' = faults + 1
    /\ pc' = [g \in Goroutines |-> "idle"]
    /\ batch' = {} /\ replies' = {}
    /\ UNCHANGED <<tableVars, event, cur, share, requests, credits, delivered, changes>>

Process(g) ==
    \/ Lookup(g) \/ Create(g) \/ ReadRule(g) \/ Claim(g) \/ PayOwner(g) \/ PayPlatform(g)
    \/ Receive(g) \/ GiveUp(g) \/ MarkFailed(g) \/ MarkDone(g)

Next ==
    \/ \E g \in Listeners, e \in Events : Deliver(g, e)
    \/ ListBatch \/ TakeEarning
    \/ \E g \in Goroutines : Process(g) \/ CallFails(g) \/ WalletUnread(g)
    \/ \E m \in requests : Serve(m) \/ Lose(m)
    \/ Administer \/ Crash

Spec == Init /\ [][Next]_vars

(* The ticker keeps the worker going and every goroutine goes on: a        *)
(* request ends with its answer or its timeout.                            *)
FairSpec ==
    /\ Spec
    /\ WF_vars(ListBatch) /\ WF_vars(TakeEarning)
    /\ \A g \in Goroutines : WF_vars(Process(g))

-----------------------------------------------------------------------------
Labels == {"idle", "lookup", "create", "rule", "claim", "owner", "awaitOwner",
           "platform", "awaitPlatform", "done", "fail"}

Earnings == [ref : {RefOf[e] : e \in Events}, total : Nat, type : Types,
             hasOwner : BOOLEAN, status : {"pending", "processing", "done", "failed"}, owner : Int, platform : Int]

Credits == [id : Nat \ {0}, role : {"owner", "platform", "zero"}, amount : Nat]

(* Every variable has its type, and goroutines work on earnings there are. *)
TypeOK ==
    /\ earning \in Seq(Earnings) /\ rule \in Rules /\ platform \in BOOLEAN
    /\ pc \in [Goroutines -> Labels] /\ event \in [Goroutines -> Events]
    /\ cur \in [Goroutines -> Nat] /\ share \in [Goroutines -> Int]
    /\ \A g \in Goroutines : pc[g] \notin {"idle", "lookup", "create"} => cur[g] \in DOMAIN earning
    /\ batch \subseteq DOMAIN earning
    /\ requests \subseteq Credits /\ replies \subseteq Credits /\ credits \subseteq Credits
    /\ delivered \in [Events -> Nat] /\ changes \in Nat /\ faults \in Nat

Paying(g) == pc[g] \in {"owner", "awaitOwner", "platform", "awaitPlatform", "done", "fail"}

(* MarkProcessing is the lock: however listeners, the worker's stale batch *)
(* and restarts overlap, one goroutine at a time pays an earning out.      *)
OnePayer ==
    \A g, h \in Goroutines : g # h /\ Paying(g) /\ Paying(h) => cur[g] # cur[h]

CreditsOf(n) == {c \in credits : c.id = n}

(* What a rule gives the side of an earning that a credit is for.          *)
PartOf(n, percent, role) ==
    LET owner == OwnerShare(earning[n].total, percent)
    IN  IF role = "owner" THEN owner ELSE earning[n].total - owner

(* What was credited for an earning is one split of its total: at most one *)
(* credit for the owner and one for the rest, and they are the parts of    *)
(* one rule, but for the nano a float may lose, although rules change at   *)
(* any time, requests are served after their sender gave up, and the two   *)
(* parts are credited separately.                                          *)
PaidBySplit ==
    \A n \in DOMAIN earning :
        /\ \A c, d \in CreditsOf(n) : (c.role = "owner") = (d.role = "owner") => c = d
        /\ CreditsOf(n) # {} =>
              \E percent \in Percents[earning[n].type] \ {NoRule} :
                  \A c \in CreditsOf(n) : PartOf(n, percent, c.role) - c.amount \in {0, 1}

(* An earning never pays out more than its total.  Nothing in updateRule   *)
(* sees to that: a rule of 150 and -50 percent pays the owner more.        *)
PaidWithinTotal ==
    \A n \in DOMAIN earning : MapThenSumSet(LAMBDA c : c.amount, CreditsOf(n)) <= earning[n].total

(* A done earning has paid its owner: a timeout or a crash between the     *)
(* owner's credit and the end never looks like success.                    *)
DoneIsPaid ==
    \A n \in DOMAIN earning :
        earning[n].status = "done" /\ earning[n].hasOwner /\ earning[n].owner > 0 =>
            \E c \in CreditsOf(n) : c.role = "owner"

(* A claimed earning is being paid out, done or failed.  Only a fault, a   *)
(* crash after MarkProcessing or the lost end of a payout, leaves one in   *)
(* processing with nobody at work, where nothing looks for it again.       *)
StrandedByFault ==
    \A n \in DOMAIN earning :
        earning[n].status = "processing" =>
            faults > 0 \/ \E g \in Goroutines : Paying(g) /\ cur[g] = n

(* FindEarningByRefID's comment: a replayed event is not paid again, for   *)
(* one reference has one earning.                                          *)
EarningOncePerRef ==
    \A m, n \in DOMAIN earning :
        earning[m].ref = earning[n].ref /\ earning[m].ref # NoRef => m = n

(* Earning.OwnerNano is the owner's share: what the owner was credited.    *)
RecordedIsPaid ==
    \A n \in DOMAIN earning, c \in credits :
        c.id = n /\ c.role = "owner" /\ earning[n].status = "done" => c.amount = earning[n].owner

(* The batch of the worker never gets to earning n: its type has no rule,  *)
(* or a batch is filled by older earnings whose types have none.           *)
OutOfReach(n) ==
    \/ RuleOf(n) = NoRule
    \/ Cardinality({m \in 1..(n - 1) : earning[m].status = "pending" /\ RuleOf(m) = NoRule})
           >= BatchLimit

(* No earning stays pending within the worker's reach: one whose creator   *)
(* crashed or failed before its claim is picked up by a batch, although    *)
(* batches are limited and list the oldest first.                          *)
PendingIsProcessed ==
    \A n \in 1..(MaxDeliveries * Cardinality(Events)) :
        (n \in DOMAIN earning /\ earning[n].status = "pending") ~>
            n \in DOMAIN earning /\ (earning[n].status # "pending" \/ OutOfReach(n))
=============================================================================
