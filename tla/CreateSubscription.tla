------------------------- MODULE CreateSubscription -------------------------
(***************************************************************************)
(* POST /v1/subscriptions: createSubscriptionHandler                       *)
(* (src/src/handlers/create-subscription/index.js) inside withMiddleware   *)
(* (src/src/shared/middleware.js), run by any number of concurrent         *)
(* requests against one table.  The handler reads the tenant's active      *)
(* subscription, then inserts a row in a transaction of its own, then      *)
(* publishes the event, and answers; every call may fail.                  *)
(*                                                                         *)
(* A subscription is named by the request that inserted it (subscriptionId *)
(* is a fresh UUID) and stays active: no code cancels one.                 *)
(***************************************************************************)
EXTENDS Naturals

CONSTANTS
    Requests,      \* HTTP requests, retries of a client included
    Tenants,
    TenantOf,      \* the tenant_id claim of each request
    Verdicts,      \* of each request, what it may turn out to be: 401 without
                   \* claims, 403 without a tenant, 400 without a JSON body,
                   \* 0 with all of them
    BadBody,       \* requests whose body the schema or PLANS rejects
    BadCycle,      \* requests whose billing cycle calculatePeriodEnd rejects
    FaultSets      \* the environments considered, each a set of fault names

(***************************************************************************)
(* <call>_fails: the call throws and did nothing.  <call>_reply_lost: it   *)
(* took effect, but the handler sees an error.  crash: the Lambda times    *)
(* out or dies and the handler answers nothing.  schema_fails: SSM does    *)
(* not give the schema that no earlier request has cached.                 *)
(***************************************************************************)
FaultNames ==
    {"schema_fails", "check_fails", "insert_fails", "insert_reply_lost",
     "publish_fails", "publish_reply_lost", "crash"}

ASSUME SubscriptionAssumption ==
    /\ TenantOf \in [Requests -> Tenants]
    /\ Verdicts \in [Requests -> SUBSET {0, 400, 401, 403}]
    /\ BadBody \subseteq Requests
    /\ BadCycle \subseteq Requests
    /\ FaultSets \subseteq SUBSET FaultNames

VARIABLES
    faults,         \* the environment of this behaviour, it never changes
    pc,             \* what each request does next
    answer,         \* status code of its response, 0 for none
    subscriptions,  \* requests whose row was committed, all of them active
    published,      \* requests whose subscription.created event SNS accepted
    endedBefore     \* history: the requests of its tenant that had ended when
                    \* each request arrived

vars == <<faults, pc, answer, subscriptions, published, endedBefore>>

Steps == {"idle", "validate", "check", "insert", "publish", "done"}

TypeOK ==
    /\ faults \in FaultSets
    /\ pc \in [Requests -> Steps]
    /\ answer \in [Requests -> {0, 201, 400, 401, 403, 409, 500}]
    /\ subscriptions \subseteq Requests
    /\ published \subseteq Requests
    /\ endedBefore \in [Requests -> SUBSET Requests]

Init ==
    /\ faults \in FaultSets
    /\ pc = [r \in Requests |-> "idle"]
    /\ answer = [r \in Requests |-> 0]
    /\ subscriptions = {}
    /\ published = {}
    /\ endedBefore = [r \in Requests |-> {}]

Goto(r, s) ==
    /\ pc' = [pc EXCEPT ![r] = s]
    /\ UNCHANGED <<faults, answer, endedBefore>>

\* AppError keeps its status, anything else that is thrown becomes a 500.
Answer(r, code) ==
    /\ pc' = [pc EXCEPT ![r] = "done"]
    /\ answer' = [answer EXCEPT ![r] = code]
    /\ UNCHANGED <<faults, endedBefore>>

Arrive(r) ==
    /\ pc[r] = "idle"
    /\ pc' = [pc EXCEPT ![r] = "validate"]
    /\ endedBefore' = [endedBefore EXCEPT
          ![r] = {s \in Requests : TenantOf[s] = TenantOf[r] /\ pc[s] = "done"}]
    /\ UNCHANGED <<faults, answer, subscriptions, published>>

\* extractTenantContext, parseAndValidateBody and the lookup in PLANS.
Validate(r) ==
    /\ pc[r] = "validate"
    /\ \E verdict \in Verdicts[r] :
          IF verdict # 0 THEN Answer(r, verdict)
          ELSE IF r \in BadBody THEN Answer(r, 400) ELSE Goto(r, "check")
    /\ UNCHANGED <<subscriptions, published>>

\* getSchemaValidator throws, which is no AppError.
ValidateError(r) ==
    /\ pc[r] = "validate" /\ 0 \in Verdicts[r] /\ "schema_fails" \in faults
    /\ Answer(r, 500)
    /\ UNCHANGED <<subscriptions, published>>

\* Rows the SELECT ... status IN ('active', 'trialing') returns.
ExistingNone(r) == {}                                  \* Slip: no check.
ExistingAnyTenant(r) == subscriptions                  \* Slip: no tenant_id.
Existing(r) == {s \in subscriptions : TenantOf[s] = TenantOf[r]}

\* Slip: what exists is a success, as it is for the keys of ingest-event.
CheckIdempotent(r) ==
    /\ pc[r] = "check"
    /\ IF Existing(r) # {} THEN Answer(r, 200)
       ELSE IF r \in BadCycle THEN Answer(r, 400) ELSE Goto(r, "insert")
    /\ UNCHANGED <<subscriptions, published>>

\* The period is computed, and its cycle judged, only after the check.
Check(r) ==
    /\ pc[r] = "check"
    /\ IF Existing(r) # {} THEN Answer(r, 409)
       ELSE IF r \in BadCycle THEN Answer(r, 400) ELSE Goto(r, "insert")
    /\ UNCHANGED <<subscriptions, published>>

CheckError(r) ==
    /\ pc[r] = "check" /\ "check_fails" \in faults
    /\ Answer(r, 500)
    /\ UNCHANGED <<subscriptions, published>>

\* transactionWithTenant commits; no constraint involves other rows.
Insert(r) ==
    /\ pc[r] = "insert"
    /\ subscriptions' = subscriptions \cup {r}
    /\ Goto(r, "publish")
    /\ UNCHANGED published

InsertError(r) ==
    /\ pc[r] = "insert"
    /\ \/ "insert_fails" \in faults /\ UNCHANGED subscriptions
       \/ "insert_reply_lost" \in faults /\ subscriptions' = subscriptions \cup {r}
    /\ Answer(r, 500)
    /\ UNCHANGED published

\* Slip: the event is not published, as without SNS_TOPIC_ARN.
PublishSkipped(r) ==
    /\ pc[r] = "publish"
    /\ Answer(r, 201)
    /\ UNCHANGED <<subscriptions, published>>

Publish(r) ==
    /\ pc[r] = "publish"
    /\ published' = published \cup {r}
    /\ Answer(r, 201)
    /\ UNCHANGED subscriptions

\* Nothing undoes the committed row.
PublishError(r) ==
    /\ pc[r] = "publish"
    /\ \/ "publish_fails" \in faults /\ UNCHANGED published
       \/ "publish_reply_lost" \in faults /\ published' = published \cup {r}
    /\ Answer(r, 500)
    /\ UNCHANGED subscriptions

\* The Lambda times out or dies: the handler answers nothing.  A commit that is
\* in flight then counts as Insert, and the request ends when it is over.
Crash(r) ==
    /\ "crash" \in faults
    /\ pc[r] \notin {"idle", "done"}
    /\ Answer(r, 0)
    /\ UNCHANGED <<subscriptions, published>>

Serve(r) ==
    \/ Validate(r) \/ ValidateError(r) \/ Check(r) \/ CheckError(r)
    \/ Insert(r) \/ InsertError(r) \/ Publish(r) \/ PublishError(r)

Next == \E r \in Requests : Arrive(r) \/ Serve(r) \/ Crash(r)

Spec == Init /\ [][Next]_vars

\* A request that arrived is served until it is answered or killed.
FairSpec == Spec /\ \A r \in Requests : WF_vars(Serve(r))

----------------------------------------------------------------------------

\* One active subscription per tenant (create-subscription/index.js:12), as far
\* as the check achieves it: two subscriptions of one tenant come from
\* requests that overlapped in time, never from one sent after the other had
\* ended, be it with a success, an error or a timeout.
DuplicatesOnlyByOverlap ==
    \A r, s \in subscriptions :
        TenantOf[r] = TenantOf[s] => r \notin endedBefore[s]

\* No event announces a subscription that is not committed: consumers find the
\* row their invoice refers to (invoices.subscription_id).
EventsHaveRow == published \subseteq subscriptions

\* A 201 means the row exists and its event is out; any
\* other but a 500 that the request left nothing behind, a 409 also that another
\* request of the tenant did.  A 500 may mean anything.
AnswersTruthful ==
    \A r \in Requests :
        /\ answer[r] = 201 => r \in subscriptions \cap published
        /\ answer[r] \in {400, 401, 403, 409} => r \notin subscriptions \cup published
        /\ answer[r] = 409 => \E s \in subscriptions : TenantOf[s] = TenantOf[r]

\* Faults that separate the two writes of the handler, row and event.
Separating == {"insert_reply_lost", "publish_fails", "crash"}

\* Without them, a subscription whose request has ended has been announced.
CommittedIsAnnounced ==
    faults \cap Separating = {} =>
        \A r \in subscriptions : pc[r] = "done" => r \in published

\* A tenant that sends a valid request ends up with a subscription, its own or
\* the one it conflicts with, and with an answer.  Only without faults.
EventuallySubscribed ==
    \A r \in Requests \ (BadBody \cup BadCycle) :
        pc[r] = "validate" /\ Verdicts[r] = {0} /\ faults = {} ~>
            /\ answer[r] \in {201, 409}
            /\ \E s \in subscriptions : TenantOf[s] = TenantOf[r]
=============================================================================
