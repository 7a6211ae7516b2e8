----------------------------- MODULE DbSession -----------------------------
(***************************************************************************)
(* src/src/shared/db.js as deployed, behind the RDS Proxy: the pool and    *)
(* the credentials a warm Lambda container keeps, and the transaction that *)
(* queryWithTenant and transactionWithTenant put around their statements.  *)
(* The proxy lends a server session to a client connection for the length  *)
(* of a transaction (session_pinning_filters, terraform/environments/dev/  *)
(* main.tf:332), so consecutive transactions of different tenants share    *)
(* one session, and what a transaction leaves in it the next one finds.    *)
(*                                                                         *)
(* A container runs one invocation, and an invocation one call, at a time. *)
(***************************************************************************)
EXTENDS Naturals

CONSTANTS
    Containers,      \* Lambda execution environments
    Tenants,
    NoTenant,        \* app.tenant_id unset; the tenant of querySystem
    Sessions,        \* server sessions of the proxy
    NoSession,
    PoolMax,         \* Pool option max
    MaxStatements,   \* bound on the statements of a transaction
    MaxRotations,    \* bound on the rotations of the secret
    FaultSets        \* the environments considered, each a set of fault names

(***************************************************************************)
(* secret_fails, connect_fails, query_fails: the call is refused.          *)
(* commit_reply_lost: it took effect and the connection broke.             *)
(* connection_lost: a connection breaks at any time.  crash: the Lambda    *)
(* times out or dies.  rotate: Secrets Manager changes the password.       *)
(***************************************************************************)
FaultNames ==
    {"secret_fails", "connect_fails", "query_fails", "commit_reply_lost",
     "connection_lost", "crash", "rotate"}

ASSUME SessionAssumption ==
    /\ NoTenant \notin Tenants
    /\ NoSession \notin Sessions
    /\ PoolMax \in Nat \ {0}
    /\ MaxStatements \in Nat \ {0}
    /\ MaxRotations \in Nat
    /\ FaultSets \subseteq SUBSET FaultNames

VARIABLES
    faults,     \* the environment of this behaviour, it never changes
    password,   \* version of the password the proxy accepts
    pc,         \* what each container does next
    tenant,     \* tenant of its call, NoTenant for querySystem
    size,       \* number of statements of its call
    ran,        \* statements executed so far
    stored,     \* statements of its latest call that are durable
    answer,     \* outcome of its latest call
    born,       \* history: the password's version when its process started
    secret,     \* version in _cachedSecret and _pool, 0 before they are set
    idle,       \* clients waiting in the pool
    used,       \* clients checked out of the pool
    cut,        \* the connection at hand is broken and nobody noticed yet
    session,    \* the server session its connection has borrowed
    setting,    \* app.tenant_id in each server session
    orphans     \* sessions in the transaction of a client that is gone

poolVars == <<secret, idle, used, cut>>
serverVars == <<session, setting, orphans>>
callVars == <<tenant, size, ran>>
vars == <<faults, password, pc, callVars, stored, answer, born, poolVars, serverVars>>

Transactional == {"begin", "config", "query", "commit"}
Steps == {"ready", "pool", "connect", "system", "rollback", "release"} \cup Transactional

TypeOK ==
    /\ faults \in FaultSets
    /\ password \in 1..(MaxRotations + 1)
    /\ pc \in [Containers -> Steps]
    /\ tenant \in [Containers -> Tenants \cup {NoTenant}]
    /\ size \in [Containers -> 0..MaxStatements]
    /\ ran \in [Containers -> 0..MaxStatements]
    /\ stored \in [Containers -> 0..MaxStatements]
    /\ answer \in [Containers -> {"none", "ok", "error", "refused"}]
    /\ born \in [Containers -> 1..password]
    /\ secret \in [Containers -> 0..password]
    /\ idle \in [Containers -> 0..PoolMax]
    /\ used \in [Containers -> 0..PoolMax]
    /\ cut \in [Containers -> BOOLEAN]
    /\ session \in [Containers -> Sessions \cup {NoSession}]
    /\ setting \in [Sessions -> Tenants \cup {NoTenant}]
    /\ orphans \subseteq Sessions

Init ==
    /\ faults \in FaultSets
    /\ password = 1
    /\ pc = [c \in Containers |-> "ready"]
    /\ tenant = [c \in Containers |-> NoTenant]
    /\ size = [c \in Containers |-> 0]
    /\ ran = [c \in Containers |-> 0]
    /\ stored = [c \in Containers |-> 0]
    /\ answer = [c \in Containers |-> "none"]
    /\ born = [c \in Containers |-> 1]
    /\ secret = [c \in Containers |-> 0]
    /\ idle = [c \in Containers |-> 0]
    /\ used = [c \in Containers |-> 0]
    /\ cut = [c \in Containers |-> FALSE]
    /\ session = [c \in Containers |-> NoSession]
    /\ setting = [s \in Sessions |-> NoTenant]
    /\ orphans = {}

Goto(c, s) == pc' = [pc EXCEPT ![c] = s]
Finish(c, a) ==
    /\ Goto(c, "ready")
    /\ answer' = [answer EXCEPT ![c] = a]

----------------------------------------------------------------------------
\* The call: getPool, then pool.connect.

Call(c, t, n) ==
    /\ pc[c] = "ready"
    /\ t = NoTenant => n = 1
    /\ Goto(c, "pool")
    /\ tenant' = [tenant EXCEPT ![c] = t]
    /\ size' = [size EXCEPT ![c] = n]
    /\ ran' = [ran EXCEPT ![c] = 0]
    /\ stored' = [stored EXCEPT ![c] = 0]
    /\ answer' = [answer EXCEPT ![c] = "none"]
    /\ UNCHANGED <<faults, password, born, poolVars, serverVars>>

FetchedPrevious == IF password > 1 THEN password - 1 ELSE password
                            \* Slip: the version staged AWSPREVIOUS.
Fetched == password

GetPool(c) ==
    /\ pc[c] = "pool"
    /\ secret' = [secret EXCEPT ![c] = IF @ = 0 THEN Fetched ELSE @]
    /\ Goto(c, "connect")
    /\ UNCHANGED <<faults, password, callVars, stored, answer, born, idle, used, cut, serverVars>>

\* Nothing is cached, so that the next call fetches again.
GetPoolError(c) ==
    /\ pc[c] = "pool" /\ secret[c] = 0 /\ "secret_fails" \in faults
    /\ Finish(c, "error")
    /\ UNCHANGED <<faults, password, callVars, stored, born, poolVars, serverVars>>

Connected(c) == Goto(c, IF tenant[c] = NoTenant THEN "system" ELSE "begin")

Reuse(c) ==
    /\ pc[c] = "connect" /\ idle[c] > 0
    /\ idle' = [idle EXCEPT ![c] = @ - 1]
    /\ used' = [used EXCEPT ![c] = @ + 1]
    /\ Connected(c)
    /\ UNCHANGED <<faults, password, callVars, stored, answer, born, secret, cut, serverVars>>

\* An exhausted pool would make connect wait; ClientsReturned excludes it.
Open(c) ==
    /\ pc[c] = "connect" /\ idle[c] = 0 /\ used[c] < PoolMax
    /\ secret[c] = password
    /\ used' = [used EXCEPT ![c] = @ + 1]
    /\ Connected(c)
    /\ UNCHANGED <<faults, password, callVars, stored, answer, born, secret, idle, cut, serverVars>>

\* The password is that of an earlier version; the pool keeps it all the same.
Refused(c) ==
    /\ pc[c] = "connect" /\ idle[c] = 0 /\ used[c] < PoolMax
    /\ secret[c] # password
    /\ Finish(c, "refused")
    /\ UNCHANGED <<faults, password, callVars, stored, born, poolVars, serverVars>>

Unreachable(c) ==
    /\ pc[c] = "connect" /\ idle[c] = 0 /\ "connect_fails" \in faults
    /\ Finish(c, "error")
    /\ UNCHANGED <<faults, password, callVars, stored, born, poolVars, serverVars>>

----------------------------------------------------------------------------
\* BEGIN, set_config(..., true), the statements, COMMIT.

FreeSessions == Sessions \ ({session[c] : c \in Containers} \cup orphans)

Begin(c) ==
    /\ pc[c] = "begin" /\ ~cut[c]
    /\ \E s \in FreeSessions : session' = [session EXCEPT ![c] = s]
    /\ Goto(c, "config")
    /\ UNCHANGED <<faults, password, callVars, stored, answer, born, poolVars, setting, orphans>>

SetConfig(c) ==
    /\ pc[c] = "config" /\ ~cut[c]
    /\ setting' = [setting EXCEPT ![session[c]] = tenant[c]]
    /\ Goto(c, "query")
    /\ UNCHANGED <<faults, password, callVars, stored, answer, born, poolVars, session, orphans>>

\* Slip: every statement commits by itself.
QueryAutocommits(c) ==
    /\ pc[c] = "query" /\ ~cut[c]
    /\ ran' = [ran EXCEPT ![c] = @ + 1]
    /\ stored' = [stored EXCEPT ![c] = ran[c] + 1]
    /\ Goto(c, IF ran[c] + 1 = size[c] THEN "commit" ELSE "query")
    /\ UNCHANGED <<faults, password, tenant, size, answer, born, poolVars, serverVars>>

Query(c) ==
    /\ pc[c] = "query" /\ ~cut[c]
    /\ ran' = [ran EXCEPT ![c] = @ + 1]
    /\ Goto(c, IF ran[c] + 1 = size[c] THEN "commit" ELSE "query")
    /\ UNCHANGED <<faults, password, tenant, size, stored, answer, born, poolVars, serverVars>>

QueryError(c) ==
    /\ pc[c] = "query" /\ ~cut[c] /\ "query_fails" \in faults
    /\ Goto(c, "rollback")
    /\ UNCHANGED <<faults, password, callVars, stored, answer, born, poolVars, serverVars>>

\* A statement on a broken connection throws.
StatementError(c) ==
    /\ pc[c] \in Transactional /\ cut[c]
    /\ Goto(c, "rollback")
    /\ UNCHANGED <<faults, password, callVars, stored, answer, born, poolVars, serverVars>>

\* Slip: set_config(..., false), which outlives the transaction.
LeftBehindSetting(s) == setting[s]
\* What COMMIT leaves of a setting that is local to the transaction.
LeftBehind(s) == NoTenant

Commit(c) ==
    /\ pc[c] = "commit" /\ ~cut[c]
    /\ stored' = [stored EXCEPT ![c] = size[c]]
    /\ answer' = [answer EXCEPT ![c] = "ok"]
    /\ setting' = [setting EXCEPT ![session[c]] = LeftBehind(session[c])]
    /\ session' = [session EXCEPT ![c] = NoSession]
    /\ Goto(c, "release")
    /\ UNCHANGED <<faults, password, callVars, born, poolVars, orphans>>

CommitReplyLost(c) ==
    /\ pc[c] = "commit" /\ ~cut[c] /\ "commit_reply_lost" \in faults
    /\ stored' = [stored EXCEPT ![c] = size[c]]
    /\ setting' = [setting EXCEPT ![session[c]] = LeftBehind(session[c])]
    /\ session' = [session EXCEPT ![c] = NoSession]
    /\ cut' = [cut EXCEPT ![c] = TRUE]
    /\ Goto(c, "rollback")
    /\ UNCHANGED <<faults, password, callVars, answer, born, secret, idle, used, orphans>>

Rollback(c) ==
    /\ pc[c] = "rollback" /\ ~cut[c]
    /\ setting' = [setting EXCEPT ![session[c]] = NoTenant]
    /\ session' = [session EXCEPT ![c] = NoSession]
    /\ answer' = [answer EXCEPT ![c] = "error"]
    /\ Goto(c, "release")
    /\ UNCHANGED <<faults, password, callVars, stored, born, poolVars, orphans>>

\* Slip: release in the try and catch blocks, not in finally: the ROLLBACK
\* that throws skips it.
RollbackErrorLeaks(c) ==
    /\ pc[c] = "rollback" /\ cut[c]
    /\ cut' = [cut EXCEPT ![c] = FALSE]
    /\ Finish(c, "error")
    /\ UNCHANGED <<faults, password, callVars, stored, born, secret, idle, used, serverVars>>

\* ROLLBACK throws too and hides the first error; finally runs all the same.
RollbackError(c) ==
    /\ pc[c] = "rollback" /\ cut[c]
    /\ answer' = [answer EXCEPT ![c] = "error"]
    /\ Goto(c, "release")
    /\ UNCHANGED <<faults, password, callVars, stored, born, poolVars, serverVars>>

\* Slip: released in the catch block and again in finally.
CheckInTwice(c, broken) ==
    /\ used' = [used EXCEPT ![c] = IF broken THEN @ - 2 ELSE @ - 1]
    /\ idle' = [idle EXCEPT ![c] = IF broken THEN @ ELSE @ + 1]
    /\ cut' = [cut EXCEPT ![c] = FALSE]

\* The pool drops a client whose connection has broken, else keeps it.
CheckIn(c, broken) ==
    /\ used' = [used EXCEPT ![c] = @ - 1]
    /\ idle' = [idle EXCEPT ![c] = IF broken THEN @ ELSE @ + 1]
    /\ cut' = [cut EXCEPT ![c] = FALSE]

Release(c) ==
    /\ pc[c] = "release"
    /\ CheckIn(c, cut[c])
    /\ Goto(c, "ready")
    /\ UNCHANGED <<faults, password, callVars, stored, answer, born, secret, serverVars>>

----------------------------------------------------------------------------
\* pool.query of querySystem: one statement outside of any transaction, on the
\* session at hand; pg drops the client after any error.

SystemQuery(c) ==
    /\ pc[c] = "system" /\ ~cut[c] /\ FreeSessions # {}
    /\ stored' = [stored EXCEPT ![c] = 1]
    /\ CheckIn(c, FALSE)
    /\ Finish(c, "ok")
    /\ UNCHANGED <<faults, password, callVars, born, secret, serverVars>>

SystemQueryError(c) ==
    /\ pc[c] = "system"
    /\ \/ (cut[c] \/ "query_fails" \in faults) /\ UNCHANGED stored
       \/ /\ ~cut[c] /\ "commit_reply_lost" \in faults /\ FreeSessions # {}
          /\ stored' = [stored EXCEPT ![c] = 1]
    /\ CheckIn(c, TRUE)
    /\ Finish(c, "error")
    /\ UNCHANGED <<faults, password, callVars, born, secret, serverVars>>

----------------------------------------------------------------------------
\* The environment.

\* The session of a client that is gone stays in its transaction for a while.
Orphan(c) ==
    /\ orphans' = orphans \cup ({session[c]} \ {NoSession})
    /\ session' = [session EXCEPT ![c] = NoSession]
    /\ UNCHANGED setting

Abort(s) ==
    /\ s \in orphans
    /\ orphans' = orphans \ {s}
    /\ setting' = [setting EXCEPT ![s] = NoTenant]
    /\ UNCHANGED <<faults, password, pc, callVars, stored, answer, born, poolVars, session>>

\* A connection breaks.  The pool removes an idle client when the event loop
\* tells it; in a frozen container it only finds out at the next statement.
LoseConnection(c) ==
    /\ "connection_lost" \in faults /\ ~cut[c] /\ idle[c] + used[c] > 0
    /\ cut' = [cut EXCEPT ![c] = TRUE]
    /\ Orphan(c)
    /\ UNCHANGED <<faults, password, pc, callVars, stored, answer, born, secret, idle, used>>

\* idleTimeoutMillis, the proxy's idle_client_timeout, or a noticed break.
CloseIdle(c) ==
    /\ pc[c] # "connect" /\ idle[c] > 0
    /\ idle' = [idle EXCEPT ![c] = 0]
    /\ cut' = [cut EXCEPT ![c] = FALSE]
    /\ UNCHANGED <<faults, password, pc, callVars, stored, answer, born, secret, used, serverVars>>

\* The process ends, and the next call of this environment starts a new one.
Restart(c) ==
    /\ IF pc[c] = "ready" THEN secret[c] # 0 ELSE "crash" \in faults
    /\ Finish(c, "none")
    /\ born' = [born EXCEPT ![c] = password]
    /\ secret' = [secret EXCEPT ![c] = 0]
    /\ idle' = [idle EXCEPT ![c] = 0]
    /\ used' = [used EXCEPT ![c] = 0]
    /\ cut' = [cut EXCEPT ![c] = FALSE]
    /\ Orphan(c)
    /\ UNCHANGED <<faults, password, callVars, stored>>

Rotate ==
    /\ "rotate" \in faults /\ password <= MaxRotations
    /\ password' = password + 1
    /\ UNCHANGED <<faults, pc, callVars, stored, answer, born, poolVars, serverVars>>

Borrow(c) == Begin(c) \/ SystemQuery(c)

Step(c) ==
    \/ GetPool(c) \/ GetPoolError(c)
    \/ Reuse(c) \/ Open(c) \/ Refused(c) \/ Unreachable(c)
    \/ Borrow(c) \/ SetConfig(c) \/ Query(c) \/ QueryError(c) \/ StatementError(c)
    \/ Commit(c) \/ CommitReplyLost(c) \/ Rollback(c) \/ RollbackError(c)
    \/ Release(c) \/ SystemQueryError(c)

Next ==
    \/ \E c \in Containers :
        \/ \E t \in Tenants \cup {NoTenant}, n \in 1..MaxStatements : Call(c, t, n)
        \/ Step(c) \/ LoseConnection(c) \/ CloseIdle(c) \/ Restart(c)
    \/ \E s \in Sessions : Abort(s)
    \/ Rotate

Spec == Init /\ [][Next]_vars

\* A call goes on or is killed; the server notices that a client is gone; the
\* proxy lends freed sessions to those who wait for one in turn.
FairSpec ==
    /\ Spec
    /\ \A c \in Containers : WF_vars(Step(c)) /\ SF_vars(Borrow(c))
    /\ \A s \in Sessions : WF_vars(Abort(s))

----------------------------------------------------------------------------

\* Row-level security sees the tenant of the call whose statement runs, and no
\* other: app.tenant_id is set when a statement runs (db.js:160-169), and every
\* session the proxy lends on, to a system query for instance, has none left.
TenantScoped ==
    /\ \A c \in Containers : pc[c] = "query" /\ ~cut[c] =>
          setting[session[c]] = tenant[c] /\ tenant[c] \in Tenants
    /\ \A s \in FreeSessions : setting[s] = NoTenant

\* No path out of a call keeps a client, not even the ROLLBACK that throws
\* (db.js:172-177): a container between two calls has none checked out, and it
\* never owns more than one, so that the pool's max is never what a call waits
\* for.
ClientsReturned ==
    \A c \in Containers :
        /\ pc[c] = "ready" => used[c] = 0
        /\ idle[c] + used[c] <= 1

\* In an environment that can do nothing but rotate the password, the only
\* calls that fail are those of a process older than the last rotation, whose
\* cached credentials (db.js:68) no new connection is opened with.
RefusedOnlyAfterRotation ==
    faults \subseteq {"rotate"} =>
        \A c \in Containers :
            answer[c] \in {"error", "refused"} => answer[c] = "refused" /\ born[c] < password

\* How much of the call is durable.
Effect(c) ==
    IF stored[c] = 0 THEN "none" ELSE IF stored[c] = size[c] THEN "all" ELSE "some"

Phase(c) ==
    IF pc[c] # "ready" THEN "running"
    ELSE IF answer[c] = "refused" THEN "error" ELSE answer[c]

Atomic == INSTANCE AtomicCall WITH
    lossy <- "commit_reply_lost" \in faults,
    phase <- [c \in Containers |-> Phase(c)],
    effect <- [c \in Containers |-> Effect(c)]

\* queryWithTenant, transactionWithTenant and querySystem (db.js:156-215) are
\* the atomic calls the handlers take them for, whatever breaks in between.
CallsAreAtomic == Atomic!Spec

\* Every call comes to an end, though sessions are shared and clients die in
\* the middle of their transactions.
CallsEnd == \A c \in Containers : pc[c] = "pool" ~> pc[c] = "ready"
=============================================================================
