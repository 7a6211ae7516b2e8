---------------------------- MODULE Entitlement ----------------------------
(***************************************************************************)
(* What a user's token says of the tenant: the Cognito trigger             *)
(* src/src/handlers/pre-token-generation/index.js, next to everything that *)
(* changes what it reads.  Each login or refresh runs the trigger, whose   *)
(* one query reads the tenant with its newest active subscription.         *)
(*                                                                         *)
(* Subscriptions are inserted by create-subscription (module               *)
(* CreateSubscription), with the period and the price of BillingPeriod; no *)
(* handler changes one, or a tenant, later: operators do.                  *)
(***************************************************************************)
EXTENDS BillingPeriod, FiniteSets

CONSTANTS
    Users,
    Tenants,
    NoTenant,
    TenantPlans,        \* values of tenants.plan
    Statuses,           \* values of tenants.status
    Overrides,          \* tenants with settings.featureOverrides
    Dates,              \* the days that are looked at
    Offers,             \* the pairs <<plan, cycle>> subscribed to
    MaxSubscriptions,   \* bound on the subscriptions of a tenant
    NoDetails,          \* the query returned no row
    FaultSets           \* the environments considered, each a set of fault names

(***************************************************************************)
(* pool_fails, query_fails: the call throws; so does every query once the  *)
(* database role is subject to the policy of subscriptions, which wants a  *)
(* tenant that querySystem does not set.  timeout: Lambda or Cognito gives *)
(* up on the trigger.  overlap: two requests of one tenant both pass the   *)
(* check of create-subscription.                                           *)
(***************************************************************************)
FaultNames == {"pool_fails", "query_fails", "timeout", "overlap"}

\* What the query returns of a tenant that has a row.
TenantDetails ==
    [tenant_plan : TenantPlans, tenant_status : Statuses, tenant_overrides : BOOLEAN,
     subscription_plan : PlanIds \cup {"null"}]

\* What the trigger writes for tenant_status when it has no row to read it from.
Reasons == {"unknown", "not_found", "error"}

ASSUME EntitlementAssumption ==
    /\ NoTenant \notin Tenants
    /\ NoDetails \notin TenantDetails
    /\ "active" \in Statuses
    /\ Statuses \cap Reasons = {}    \* tenants_status_check (001_initial_schema.sql:52)
    /\ Overrides \subseteq Tenants
    /\ Dates \subseteq [year : 1970..2100, month : 1..12, day : 1..31]
    /\ \A date \in Dates : date.day <= DaysIn(date.year, date.month)
    /\ Offers \subseteq PlanIds \X Cycles
    /\ MaxSubscriptions \in Nat
    /\ FaultSets \subseteq SUBSET FaultNames

VARIABLES
    faults,          \* the environment of this behaviour, it never changes
    today,           \* a date of Dates
    tenants,         \* tenants inserted so far
    plan, status,    \* their columns
    subscriptions,   \* rows of the table subscriptions
    attribute,       \* custom:tenant_id of each user, or NoTenant; never changes
    pc,              \* what the trigger does next for each user
    details,         \* what its latest query returned
    claims,          \* claims of the user's latest token
    truths           \* history: <<plan, status>> of the tenant, or NoDetails, at
                     \* every moment since the run of the trigger began

tenantVars == <<tenants, plan, status>>
loginVars == <<attribute, pc, details, claims, truths>>
vars == <<faults, today, tenantVars, subscriptions, loginVars>>

\* Tiers of PLAN_FEATURES, each of which stands for its features.
PLAN_FEATURES == {"free", "starter", "professional", "enterprise"}
DEFAULT_PLAN == "free"

Subscriptions ==
    [tenant : Tenants, plan_id : PlanIds, billing_cycle : Cycles,
     date : Dates, end : Nat, amount : Nat, status : {"active", "canceled"}]

Claims ==
    [plan_tier : TenantPlans \cup PlanIds \cup {DEFAULT_PLAN},
     tenant_status : Statuses \cup Reasons,
     features : PLAN_FEATURES, overridden : BOOLEAN]

Default(reason) ==
    [plan_tier |-> DEFAULT_PLAN, tenant_status |-> reason,
     features |-> DEFAULT_PLAN, overridden |-> FALSE]

TypeOK ==
    /\ faults \in FaultSets
    /\ today \in Dates
    /\ tenants \subseteq Tenants
    /\ plan \in [Tenants -> TenantPlans]
    /\ status \in [Tenants -> Statuses]
    /\ \A s \in subscriptions : s \in Subscriptions /\ s.tenant \in tenants
    /\ attribute \in [Users -> Tenants \cup {NoTenant}]
    /\ pc \in [Users -> {"out", "start", "pool", "query", "resolve", "in", "blocked"}]
    /\ details \in [Users -> TenantDetails \cup {NoDetails}]
    /\ claims \in [Users -> Claims]
    /\ truths \in [Users -> SUBSET (((TenantPlans \cup PlanIds) \X Statuses) \cup {NoDetails})]

----------------------------------------------------------------------------
\* getTenantDetails: the rows ORDER BY s.created_at DESC LIMIT 1 may return.

Active(t) == {s \in subscriptions : s.tenant = t /\ s.status = "active"}

NewestForgotten(t) == Active(t)                    \* Slip: no ORDER BY.
Newest(t) ==
    {s \in Active(t) : \A other \in Active(t) : DayNumber(other.date) <= DayNumber(s.date)}

Rows(t) ==
    IF t \notin tenants THEN {NoDetails}
    ELSE [tenant_plan : {plan[t]}, tenant_status : {status[t]},
          tenant_overrides : {t \in Overrides},
          subscription_plan : IF Active(t) = {} THEN {"null"}
                              ELSE {s.plan_id : s \in Newest(t)}]

ResolveEffectivePlan(row) ==
    IF row.subscription_plan # "null" THEN row.subscription_plan ELSE row.tenant_plan

ResolveFeatures(tier) == IF tier \in PLAN_FEATURES THEN tier ELSE DEFAULT_PLAN

\* Reference: what a tenant is entitled to, by its rows as they are now.
Truth(t) ==
    IF t \notin tenants THEN {NoDetails}
    ELSE LET due == {s \in subscriptions : s.tenant = t /\ s.status = "active"}
             last == {s \in due : ~\E later \in due :
                         DayNumber(later.date) > DayNumber(s.date)}
         IN  (IF due = {} THEN {plan[t]} ELSE {s.plan_id : s \in last}) \X {status[t]}

Running(u) == pc[u] \in {"start", "pool", "query", "resolve"}
Witness ==
    truths' = [u \in Users |->
        IF Running(u) THEN truths[u] \cup Truth(attribute[u])' ELSE truths[u]]

----------------------------------------------------------------------------

Init ==
    /\ faults \in FaultSets
    /\ today \in Dates
    /\ tenants = {}
    /\ plan \in [Tenants -> TenantPlans]
    /\ status = [t \in Tenants |-> "active"]
    /\ subscriptions = {}
    /\ attribute \in [Users -> Tenants \cup {NoTenant}]
    /\ pc = [u \in Users |-> "out"]
    /\ details = [u \in Users |-> NoDetails]
    /\ claims = [u \in Users |-> Default("unknown")]
    /\ truths = [u \in Users |-> {}]

\* Login or refresh: Cognito invokes the trigger.
Login(u) ==
    /\ pc[u] \in {"out", "in"}
    /\ pc' = [pc EXCEPT ![u] = "start"]
    /\ truths' = [truths EXCEPT ![u] = Truth(attribute[u])]
    /\ UNCHANGED <<faults, today, tenantVars, subscriptions, attribute, details, claims>>

Goto(u, s) ==
    /\ pc' = [pc EXCEPT ![u] = s]
    /\ UNCHANGED <<faults, today, tenantVars, subscriptions, attribute>>

Return(u, s) ==
    /\ Goto(u, s)
    /\ details' = [details EXCEPT ![u] = NoDetails]
    /\ truths' = [truths EXCEPT ![u] = {}]

Issue(u, c) == Return(u, "in") /\ claims' = [claims EXCEPT ![u] = c]

Start(u) ==
    /\ pc[u] = "start"
    /\ IF attribute[u] = NoTenant
       THEN Issue(u, Default("unknown"))
       ELSE Goto(u, "pool") /\ UNCHANGED <<details, claims, truths>>

GetPool(u) ==
    /\ pc[u] = "pool"
    /\ Goto(u, "query")
    /\ UNCHANGED <<details, claims, truths>>

Fetch(u) ==
    /\ pc[u] = "query"
    /\ \E row \in Rows(attribute[u]) : details' = [details EXCEPT ![u] = row]
    /\ Goto(u, "resolve")
    /\ UNCHANGED <<claims, truths>>

Resolve(u) ==
    /\ pc[u] = "resolve"
    /\ IF details[u] = NoDetails
       THEN Issue(u, Default("not_found"))
       ELSE LET tier == ResolveEffectivePlan(details[u])
            IN  Issue(u, [plan_tier |-> tier, tenant_status |-> details[u].tenant_status,
                          features |-> ResolveFeatures(tier),
                          overridden |-> details[u].tenant_overrides])

\* Slip: getPool before the try block.
CatchThrows(u) ==
    \/ pc[u] = "pool" /\ "pool_fails" \in faults /\ Return(u, "blocked") /\ UNCHANGED claims
    \/ pc[u] = "query" /\ "query_fails" \in faults /\ Issue(u, Default("error"))

Catch(u) ==
    /\ \/ pc[u] = "pool" /\ "pool_fails" \in faults
       \/ pc[u] = "query" /\ "query_fails" \in faults
    /\ Issue(u, Default("error"))

\* There is no token, and the user is not logged in.
Timeout(u) ==
    /\ "timeout" \in faults /\ Running(u)
    /\ Return(u, "out")
    /\ UNCHANGED claims

----------------------------------------------------------------------------

CreateTenant(t) ==
    /\ t \notin tenants
    /\ tenants' = tenants \cup {t}
    /\ UNCHANGED <<faults, today, plan, status, subscriptions, attribute, pc, details, claims>>
    /\ Witness

\* An operator suspends, deletes or restores a tenant.
SetStatus(t, s) ==
    /\ t \in tenants /\ status[t] # s
    /\ status' = [status EXCEPT ![t] = s]
    /\ UNCHANGED <<faults, today, tenants, plan, subscriptions, attribute, pc, details, claims>>
    /\ Witness

PeriodEndDays(date, c) == DayNumber(date) + 30 * BILLING_CYCLES[c]
                                         \* Slip: a month is 30 days.
PeriodEnd(date, c) == CalculatePeriodEnd(date, c)

\* Days a row may bear that is committed today: created_at and the start of the
\* period are taken before the insert, perhaps before midnight.
TakenOn == {date \in Dates : DayNumber(today) - DayNumber(date) \in {0, 1}}

\* The transaction of create-subscription commits, perhaps after one of another
\* request that took its time later.
Subscribe(t, p, c) ==
    /\ t \in tenants
    /\ Active(t) = {} \/ "overlap" \in faults
    /\ Cardinality({s \in subscriptions : s.tenant = t}) < MaxSubscriptions
    /\ \E date \in TakenOn :
          subscriptions' = subscriptions \cup
             {[tenant |-> t, plan_id |-> p, billing_cycle |-> c, date |-> date,
               end |-> PeriodEnd(date, c), amount |-> Amount(p, c),
               status |-> "active"]}
    /\ UNCHANGED <<faults, today, tenantVars, attribute, pc, details, claims>>
    /\ Witness

\* An operator ends a subscription.
Cancel(s) ==
    /\ s.status = "active"
    /\ subscriptions' = (subscriptions \ {s}) \cup {[s EXCEPT !.status = "canceled"]}
    /\ UNCHANGED <<faults, today, tenantVars, attribute, pc, details, claims>>
    /\ Witness

\* Logins take seconds, days pass between them.
NextDay ==
    /\ \A u \in Users : ~Running(u)
    /\ \E date \in Dates : DayNumber(date) > DayNumber(today) /\ today' = date
    /\ UNCHANGED <<faults, tenantVars, subscriptions, loginVars>>

Trigger(u) == Start(u) \/ GetPool(u) \/ Fetch(u) \/ Resolve(u) \/ Catch(u) \/ Timeout(u)

Next ==
    \/ \E u \in Users : Login(u) \/ Trigger(u)
    \/ \E t \in Tenants :
        \/ CreateTenant(t)
        \/ \E s \in Statuses : SetStatus(t, s)
        \/ \E offer \in Offers : Subscribe(t, offer[1], offer[2])
    \/ \E s \in subscriptions : Cancel(s)
    \/ NextDay

Spec == Init /\ [][Next]_vars

\* Cognito waits for the trigger, and the trigger runs.
FairSpec == Spec /\ \A u \in Users : WF_vars(Trigger(u))

----------------------------------------------------------------------------

Defaulted(u) == claims[u].tenant_status \in Reasons

\* The claims of a new token were true of the tenant, all at one moment, since
\* the login began: no caching (pre-token-generation/index.js:30), the newest
\* active subscription before the plan of the tenant.  They are the default
\* only for a user or tenant that has no row, or when a call failed, and the
\* default grants nothing but the free plan.
TrueOf(u) ==
    /\ ~Defaulted(u)' => <<claims'[u].plan_tier, claims'[u].tenant_status>> \in truths[u]
    /\ Defaulted(u)' => claims'[u].plan_tier = "free" /\ claims'[u].features = "free"
    /\ claims'[u].tenant_status \in {"unknown", "not_found"} => NoDetails \in truths[u]
    /\ claims'[u].tenant_status = "error" => faults \cap {"pool_fails", "query_fails"} # {}
ClaimsWereTrue == [][\A u \in Users : Running(u) /\ pc'[u] = "in" => TrueOf(u)]_vars

\* Authentication is never blocked (pre-token-generation/index.js:247): unless
\* it runs out of time, every login ends with a token, whatever fails.
LoginsSucceed ==
    \A u \in Users : pc[u] = "start" /\ "timeout" \notin faults ~> pc[u] = "in"

\* A period ends on its day of the month, or at the start of the next month if
\* that is too short; a subscription that starts later ends at most two days
\* earlier, and a longer one of the same day ends later and costs more, but
\* less per month.
PeriodsFit == \A s, other \in subscriptions : Fits(s, other)

\* The feature matrix (README.md:994) has a column for each plan on offer, by
\* its name: a subscriber's token has the features of the plan it pays for.
Column == [Free |-> "free", Starter |-> "starter",
           Professional |-> "professional", Enterprise |-> "enterprise"]
PaidFeatures ==
    \A u \in Users :
        pc[u] = "in" /\ ~Defaulted(u) /\ claims[u].plan_tier \in PlanIds
            => claims[u].features = Column[PLANS[claims[u].plan_tier].name]
=============================================================================
