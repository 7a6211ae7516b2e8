-------------------------- MODULE DbSessionProofs --------------------------
(***************************************************************************)
(* Theorems about DbSession, for every number of containers, tenants and   *)
(* server sessions, every size of pool and transaction, and for every      *)
(* environment.                                                            *)
(***************************************************************************)
EXTENDS DbSession, TLAPS

\* The container has a client of the pool in its hands.
Owning(c) == pc[c] \in Transactional \cup {"system", "rollback", "release"}

\* One client at most, and only of a client can the connection be broken.
PoolInv ==
    \A c \in Containers :
        /\ used[c] = IF Owning(c) THEN 1 ELSE 0
        /\ idle[c] + used[c] <= 1
        /\ cut[c] => idle[c] + used[c] = 1

\* The transaction of container c is open.
Holding(c) == pc[c] \in {"config", "query", "commit", "rollback"} /\ ~cut[c]

\* A session is in one transaction at a time: of a container, or of a client
\* that is gone.
SessionInv ==
    \A c \in Containers :
        /\ session[c] \in IF Holding(c) THEN Sessions \ orphans ELSE {NoSession}
        /\ \A d \in Containers : Holding(c) /\ session[d] = session[c] => d = c

\* Where a call is tells which of its statements ran, and how it was called.
CallInv ==
    \A c \in Containers :
        /\ pc[c] # "ready" => size[c] >= 1
        /\ pc[c] \in {"pool", "connect", "begin", "config"} => ran[c] = 0
        /\ pc[c] = "query" => ran[c] < size[c]
        /\ pc[c] = "system" => tenant[c] = NoTenant
        /\ Owning(c) /\ pc[c] # "system" => tenant[c] \in Tenants
        /\ pc[c] \in {"pool", "connect"} /\ tenant[c] = NoTenant => size[c] = 1
        /\ pc[c] = "system" => size[c] = 1

TInv == TypeOK /\ PoolInv /\ SessionInv /\ CallInv

LEMMA TInvInit == Init => TInv
BY SessionAssumption
DEF Init, TInv, TypeOK, PoolInv, Owning, SessionInv, Holding, CallInv, Steps,
    Transactional

LEMMA TInvNext == TInv /\ [Next]_vars => TInv'
<1> SUFFICES ASSUME TInv, [Next]_vars PROVE TInv'
  OBVIOUS
<1> USE SessionAssumption DEF TInv, TypeOK, PoolInv, Owning, SessionInv, Holding, CallInv,
       Steps, Transactional, poolVars, serverVars, callVars
<1>1. ASSUME NEW c \in Containers, NEW t \in Tenants \cup {NoTenant},
              NEW n \in 1..MaxStatements, Call(c, t, n) PROVE TInv'
  BY <1>1 DEF Call, Goto
<1>2. ASSUME NEW c \in Containers, GetPool(c) PROVE TInv'
  BY <1>2 DEF GetPool, Goto, Fetched
<1>3. ASSUME NEW c \in Containers, GetPoolError(c) PROVE TInv'
  BY <1>3 DEF GetPoolError, Finish, Goto
<1>4. ASSUME NEW c \in Containers, Reuse(c) PROVE TInv'
  BY <1>4 DEF Reuse, Connected, Goto
<1>5. ASSUME NEW c \in Containers, Open(c) PROVE TInv'
  BY <1>5 DEF Open, Connected, Goto
<1>6. ASSUME NEW c \in Containers, Refused(c) PROVE TInv'
  BY <1>6 DEF Refused, Finish, Goto
<1>7. ASSUME NEW c \in Containers, Unreachable(c) PROVE TInv'
  BY <1>7 DEF Unreachable, Finish, Goto
<1>8. ASSUME NEW c \in Containers, Begin(c) PROVE TInv'
  BY <1>8 DEF Begin, FreeSessions, Goto
<1>9. ASSUME NEW c \in Containers, SetConfig(c) PROVE TInv'
  BY <1>9 DEF SetConfig, Goto
<1>10. ASSUME NEW c \in Containers, Query(c) PROVE TInv'
  <2>1. ran[c] + 1 \in 0..MaxStatements /\ ran[c] + 1 <= size[c]
    BY <1>10 DEF Query
  <2>2. ran' \in [Containers -> 0..MaxStatements]
    BY <1>10, <2>1 DEF Query
  <2>3. TypeOK'
    BY <1>10, <2>2 DEF Query, Goto
  <2>4. CallInv'
    BY <1>10, <2>1 DEF Query, Goto
  <2>5. PoolInv' /\ SessionInv'
    BY <1>10 DEF Query, Goto
  <2>6. QED
    BY <2>3, <2>4, <2>5
<1>11. ASSUME NEW c \in Containers, QueryError(c) PROVE TInv'
  BY <1>11 DEF QueryError, Goto
<1>12. ASSUME NEW c \in Containers, StatementError(c) PROVE TInv'
  BY <1>12 DEF StatementError, Transactional, Goto
<1>13. ASSUME NEW c \in Containers, Commit(c) PROVE TInv'
  BY <1>13 DEF Commit, LeftBehind, Goto
<1>14. ASSUME NEW c \in Containers, CommitReplyLost(c) PROVE TInv'
  BY <1>14 DEF CommitReplyLost, LeftBehind, Goto
<1>15. ASSUME NEW c \in Containers, Rollback(c) PROVE TInv'
  BY <1>15 DEF Rollback, Goto
<1>16. ASSUME NEW c \in Containers, RollbackError(c) PROVE TInv'
  BY <1>16 DEF RollbackError, Goto
<1>17. ASSUME NEW c \in Containers, Release(c) PROVE TInv'
  BY <1>17 DEF Release, CheckIn, Goto
<1>18. ASSUME NEW c \in Containers, SystemQuery(c) PROVE TInv'
  BY <1>18 DEF SystemQuery, CheckIn, Finish, Goto
<1>19. ASSUME NEW c \in Containers, SystemQueryError(c) PROVE TInv'
  BY <1>19 DEF SystemQueryError, CheckIn, Finish, Goto
<1>20. ASSUME NEW c \in Containers, LoseConnection(c) PROVE TInv'
  BY <1>20 DEF LoseConnection, Orphan
<1>21. ASSUME NEW c \in Containers, CloseIdle(c) PROVE TInv'
  BY <1>21 DEF CloseIdle
<1>22. ASSUME NEW c \in Containers, Restart(c) PROVE TInv'
  BY <1>22 DEF Restart, Orphan, Finish, Goto
<1>23. ASSUME NEW s \in Sessions, Abort(s) PROVE TInv'
  BY <1>23 DEF Abort
<1>24. ASSUME Rotate PROVE TInv'
  BY <1>24 DEF Rotate
<1>25. CASE UNCHANGED vars
  BY <1>25 DEF vars
<1>26. QED
  BY <1>1, <1>2, <1>3, <1>4, <1>5, <1>6, <1>7, <1>8, <1>9, <1>10,
     <1>11, <1>12, <1>13, <1>14, <1>15, <1>16, <1>17, <1>18, <1>19, <1>20,
     <1>21, <1>22, <1>23, <1>24, <1>25
     DEF Next, Step, Borrow

\* The state stays well-typed; the pool never holds more than max clients.
THEOREM TypeCorrect == Spec => []TypeOK
<1>1. TInv => TypeOK
  BY DEF TInv
<1>2. QED
  BY TInvInit, TInvNext, <1>1, PTL DEF Spec

\* No path out of a call keeps a client (db.js:172-177), in every environment.
THEOREM ClientsReturnedHolds == Spec => []ClientsReturned
<1>1. TInv => ClientsReturned
  BY DEF TInv, PoolInv, Owning, Transactional, ClientsReturned
<1>2. QED
  BY TInvInit, TInvNext, <1>1, PTL DEF Spec

----------------------------------------------------------------------------
(***************************************************************************)
(* Tenants.  What a transaction leaves in its session the next one finds,  *)
(* so the setting has to be gone whenever the session is free.             *)
(***************************************************************************)

\* From set_config to COMMIT the session of a call has the call's tenant.
ScopedInv ==
    /\ \A c \in Containers : pc[c] \in {"query", "commit"} /\ ~cut[c] =>
          setting[session[c]] = tenant[c]
    /\ \A s \in FreeSessions : setting[s] = NoTenant

LEMMA ScopedInvInit == Init => ScopedInv
BY DEF Init, ScopedInv, FreeSessions

LEMMA ScopedInvNext == TInv /\ ScopedInv /\ [Next]_vars => ScopedInv'
<1> SUFFICES ASSUME TInv, ScopedInv, [Next]_vars PROVE ScopedInv'
  OBVIOUS
<1> USE SessionAssumption DEF TInv, TypeOK, SessionInv, Holding, CallInv, Owning,
       Transactional, poolVars, serverVars, callVars, ScopedInv, FreeSessions
<1>1. ASSUME NEW c \in Containers, NEW t \in Tenants \cup {NoTenant},
              NEW n \in 1..MaxStatements, Call(c, t, n) PROVE ScopedInv'
  BY <1>1 DEF Call, Goto
<1>2. ASSUME NEW c \in Containers, GetPool(c) PROVE ScopedInv'
  BY <1>2 DEF GetPool, Goto, Fetched
<1>3. ASSUME NEW c \in Containers, GetPoolError(c) PROVE ScopedInv'
  BY <1>3 DEF GetPoolError, Finish, Goto
<1>4. ASSUME NEW c \in Containers, Reuse(c) PROVE ScopedInv'
  BY <1>4 DEF Reuse, Connected, Goto
<1>5. ASSUME NEW c \in Containers, Open(c) PROVE ScopedInv'
  BY <1>5 DEF Open, Connected, Goto
<1>6. ASSUME NEW c \in Containers, Refused(c) PROVE ScopedInv'
  BY <1>6 DEF Refused, Finish, Goto
<1>7. ASSUME NEW c \in Containers, Unreachable(c) PROVE ScopedInv'
  BY <1>7 DEF Unreachable, Finish, Goto
<1>8. ASSUME NEW c \in Containers, Begin(c) PROVE ScopedInv'
  BY <1>8 DEF Begin, FreeSessions, Goto
<1>9. ASSUME NEW c \in Containers, SetConfig(c) PROVE ScopedInv'
  BY <1>9 DEF SetConfig, Goto
<1>10. ASSUME NEW c \in Containers, Query(c) PROVE ScopedInv'
  BY <1>10 DEF Query, Goto
<1>11. ASSUME NEW c \in Containers, QueryError(c) PROVE ScopedInv'
  BY <1>11 DEF QueryError, Goto
<1>12. ASSUME NEW c \in Containers, StatementError(c) PROVE ScopedInv'
  BY <1>12 DEF StatementError, Transactional, Goto
<1>13. ASSUME NEW c \in Containers, Commit(c) PROVE ScopedInv'
  BY <1>13 DEF Commit, LeftBehind, Goto
<1>14. ASSUME NEW c \in Containers, CommitReplyLost(c) PROVE ScopedInv'
  BY <1>14 DEF CommitReplyLost, LeftBehind, Goto
<1>15. ASSUME NEW c \in Containers, Rollback(c) PROVE ScopedInv'
  BY <1>15 DEF Rollback, Goto
<1>16. ASSUME NEW c \in Containers, RollbackError(c) PROVE ScopedInv'
  BY <1>16 DEF RollbackError, Goto
<1>17. ASSUME NEW c \in Containers, Release(c) PROVE ScopedInv'
  BY <1>17 DEF Release, CheckIn, Goto
<1>18. ASSUME NEW c \in Containers, SystemQuery(c) PROVE ScopedInv'
  BY <1>18 DEF SystemQuery, CheckIn, Finish, Goto
<1>19. ASSUME NEW c \in Containers, SystemQueryError(c) PROVE ScopedInv'
  BY <1>19 DEF SystemQueryError, CheckIn, Finish, Goto
<1>20. ASSUME NEW c \in Containers, LoseConnection(c) PROVE ScopedInv'
  BY <1>20 DEF LoseConnection, Orphan
<1>21. ASSUME NEW c \in Containers, CloseIdle(c) PROVE ScopedInv'
  BY <1>21 DEF CloseIdle, PoolInv
<1>22. ASSUME NEW c \in Containers, Restart(c) PROVE ScopedInv'
  BY <1>22 DEF Restart, Orphan, Finish, Goto
<1>23. ASSUME NEW s \in Sessions, Abort(s) PROVE ScopedInv'
  BY <1>23 DEF Abort
<1>24. ASSUME Rotate PROVE ScopedInv'
  BY <1>24 DEF Rotate
<1>25. CASE UNCHANGED vars
  BY <1>25 DEF vars
<1>26. QED
  BY <1>1, <1>2, <1>3, <1>4, <1>5, <1>6, <1>7, <1>8, <1>9, <1>10,
     <1>11, <1>12, <1>13, <1>14, <1>15, <1>16, <1>17, <1>18, <1>19, <1>20,
     <1>21, <1>22, <1>23, <1>24, <1>25
     DEF Next, Step, Borrow

\* Row-level security sees the tenant of the call and no other (db.js:160-169),
\* and a session that is lent on has none left, however many calls, containers
\* and tenants share it and whatever connections break.
THEOREM TenantScopedHolds == Spec => []TenantScoped
<1>1. TInv /\ ScopedInv => TenantScoped
  BY DEF TInv, CallInv, Owning, Transactional, ScopedInv, TenantScoped
<1>2. QED
  BY TInvInit, TInvNext, ScopedInvInit, ScopedInvNext, <1>1, PTL DEF Spec

----------------------------------------------------------------------------
(***************************************************************************)
(* Credentials, where nothing fails but the password may change.           *)
(***************************************************************************)

OnlyRotations == faults \subseteq {"rotate"}

\* What a process has cached is no older than the process.
CachedSinceStart ==
    \A c \in Containers :
        /\ secret[c] # 0 => born[c] <= secret[c]
        /\ pc[c] = "connect" => secret[c] # 0

\* Nothing breaks and no call is rolled back.
Unbroken ==
    OnlyRotations =>
        \A c \in Containers : ~cut[c] /\ pc[c] # "rollback" /\ answer[c] # "error"

RInv == CachedSinceStart /\ Unbroken /\ RefusedOnlyAfterRotation

LEMMA RInvInit == Init => RInv
BY DEF Init, RInv, CachedSinceStart, Unbroken, RefusedOnlyAfterRotation

LEMMA RInvNext == TInv /\ RInv /\ [Next]_vars => RInv'
<1> SUFFICES ASSUME TInv, RInv, [Next]_vars PROVE RInv'
  OBVIOUS
<1> USE SessionAssumption DEF TInv, TypeOK, PoolInv, poolVars, serverVars, callVars, RInv,
       CachedSinceStart, Unbroken, RefusedOnlyAfterRotation, OnlyRotations
<1>1. ASSUME NEW c \in Containers, NEW t \in Tenants \cup {NoTenant},
              NEW n \in 1..MaxStatements, Call(c, t, n) PROVE RInv'
  BY <1>1 DEF Call, Goto
<1>2. ASSUME NEW c \in Containers, GetPool(c) PROVE RInv'
  BY <1>2 DEF GetPool, Goto, Fetched
<1>3. ASSUME NEW c \in Containers, GetPoolError(c) PROVE RInv'
  BY <1>3 DEF GetPoolError, Finish, Goto
<1>4. ASSUME NEW c \in Containers, Reuse(c) PROVE RInv'
  BY <1>4 DEF Reuse, Connected, Goto
<1>5. ASSUME NEW c \in Containers, Open(c) PROVE RInv'
  BY <1>5 DEF Open, Connected, Goto
<1>6. ASSUME NEW c \in Containers, Refused(c) PROVE RInv'
  BY <1>6 DEF Refused, Finish, Goto
<1>7. ASSUME NEW c \in Containers, Unreachable(c) PROVE RInv'
  BY <1>7 DEF Unreachable, Finish, Goto
<1>8. ASSUME NEW c \in Containers, Begin(c) PROVE RInv'
  BY <1>8 DEF Begin, FreeSessions, Goto
<1>9. ASSUME NEW c \in Containers, SetConfig(c) PROVE RInv'
  BY <1>9 DEF SetConfig, Goto
<1>10. ASSUME NEW c \in Containers, Query(c) PROVE RInv'
  BY <1>10 DEF Query, Goto
<1>11. ASSUME NEW c \in Containers, QueryError(c) PROVE RInv'
  BY <1>11 DEF QueryError, Goto
<1>12. ASSUME NEW c \in Containers, StatementError(c) PROVE RInv'
  BY <1>12 DEF StatementError, Transactional, Goto
<1>13. ASSUME NEW c \in Containers, Commit(c) PROVE RInv'
  BY <1>13 DEF Commit, LeftBehind, Goto
<1>14. ASSUME NEW c \in Containers, CommitReplyLost(c) PROVE RInv'
  BY <1>14 DEF CommitReplyLost, LeftBehind, Goto
<1>15. ASSUME NEW c \in Containers, Rollback(c) PROVE RInv'
  BY <1>15 DEF Rollback, Goto
<1>16. ASSUME NEW c \in Containers, RollbackError(c) PROVE RInv'
  BY <1>16 DEF RollbackError, Goto
<1>17. ASSUME NEW c \in Containers, Release(c) PROVE RInv'
  BY <1>17 DEF Release, CheckIn, Goto
<1>18. ASSUME NEW c \in Containers, SystemQuery(c) PROVE RInv'
  BY <1>18 DEF SystemQuery, CheckIn, Finish, Goto
<1>19. ASSUME NEW c \in Containers, SystemQueryError(c) PROVE RInv'
  BY <1>19 DEF SystemQueryError, CheckIn, Finish, Goto
<1>20. ASSUME NEW c \in Containers, LoseConnection(c) PROVE RInv'
  BY <1>20 DEF LoseConnection, Orphan
<1>21. ASSUME NEW c \in Containers, CloseIdle(c) PROVE RInv'
  BY <1>21 DEF CloseIdle
<1>22. ASSUME NEW c \in Containers, Restart(c) PROVE RInv'
  BY <1>22 DEF Restart, Orphan, Finish, Goto
<1>23. ASSUME NEW s \in Sessions, Abort(s) PROVE RInv'
  BY <1>23 DEF Abort
<1>24. ASSUME Rotate PROVE RInv'
  BY <1>24 DEF Rotate
<1>25. CASE UNCHANGED vars
  BY <1>25 DEF vars
<1>26. QED
  BY <1>1, <1>2, <1>3, <1>4, <1>5, <1>6, <1>7, <1>8, <1>9, <1>10,
     <1>11, <1>12, <1>13, <1>14, <1>15, <1>16, <1>17, <1>18, <1>19, <1>20,
     <1>21, <1>22, <1>23, <1>24, <1>25
     DEF Next, Step, Borrow

\* A rotation is the only thing that makes calls fail by itself, and it fails
\* only those of processes older than it (db.js:68-125).
THEOREM RefusedOnlyAfterRotationHolds == Spec => []RefusedOnlyAfterRotation
<1>1. RInv => RefusedOnlyAfterRotation
  BY DEF RInv
<1>2. QED
  BY TInvInit, TInvNext, RInvInit, RInvNext, <1>1, PTL DEF Spec

----------------------------------------------------------------------------
(***************************************************************************)
(* The call as the handlers see it: as a whole or not at all.  The commit  *)
(* is the step that takes effect; all others start or end the call, or are *)
(* stuttering steps.                                                       *)
(***************************************************************************)

Lossy == "commit_reply_lost" \in faults

\* Before its commit nothing of a call is durable, afterwards all of it; an
\* error after the commit takes a lost reply.
EffectInv ==
    \A c \in Containers :
        /\ stored[c] \in {0, size[c]}
        /\ pc[c] \in {"pool", "connect", "system"} \cup Transactional => stored[c] = 0
        /\ pc[c] = "rollback" => stored[c] = 0 \/ Lossy
        /\ pc[c] = "release" =>
              \/ answer[c] = "ok" /\ stored[c] = size[c]
              \/ answer[c] = "error" /\ (stored[c] = 0 \/ Lossy)

LEMMA EffectInvInit == Init => EffectInv
BY DEF Init, EffectInv, Transactional

LEMMA EffectInvNext == TInv /\ EffectInv /\ [Next]_vars => EffectInv'
<1> SUFFICES ASSUME TInv, EffectInv, [Next]_vars PROVE EffectInv'
  OBVIOUS
<1> USE SessionAssumption DEF TInv, TypeOK, PoolInv, CallInv, Owning, Transactional,
       poolVars, serverVars, callVars, EffectInv, Lossy
<1>1. ASSUME NEW c \in Containers, NEW t \in Tenants \cup {NoTenant},
              NEW n \in 1..MaxStatements, Call(c, t, n) PROVE EffectInv'
  BY <1>1 DEF Call, Goto
<1>2. ASSUME NEW c \in Containers, GetPool(c) PROVE EffectInv'
  BY <1>2 DEF GetPool, Goto, Fetched
<1>3. ASSUME NEW c \in Containers, GetPoolError(c) PROVE EffectInv'
  BY <1>3 DEF GetPoolError, Finish, Goto
<1>4. ASSUME NEW c \in Containers, Reuse(c) PROVE EffectInv'
  BY <1>4 DEF Reuse, Connected, Goto
<1>5. ASSUME NEW c \in Containers, Open(c) PROVE EffectInv'
  BY <1>5 DEF Open, Connected, Goto
<1>6. ASSUME NEW c \in Containers, Refused(c) PROVE EffectInv'
  BY <1>6 DEF Refused, Finish, Goto
<1>7. ASSUME NEW c \in Containers, Unreachable(c) PROVE EffectInv'
  BY <1>7 DEF Unreachable, Finish, Goto
<1>8. ASSUME NEW c \in Containers, Begin(c) PROVE EffectInv'
  BY <1>8 DEF Begin, FreeSessions, Goto
<1>9. ASSUME NEW c \in Containers, SetConfig(c) PROVE EffectInv'
  BY <1>9 DEF SetConfig, Goto
<1>10. ASSUME NEW c \in Containers, Query(c) PROVE EffectInv'
  BY <1>10 DEF Query, Goto
<1>11. ASSUME NEW c \in Containers, QueryError(c) PROVE EffectInv'
  BY <1>11 DEF QueryError, Goto
<1>12. ASSUME NEW c \in Containers, StatementError(c) PROVE EffectInv'
  BY <1>12 DEF StatementError, Transactional, Goto
<1>13. ASSUME NEW c \in Containers, Commit(c) PROVE EffectInv'
  BY <1>13 DEF Commit, LeftBehind, Goto
<1>14. ASSUME NEW c \in Containers, CommitReplyLost(c) PROVE EffectInv'
  BY <1>14 DEF CommitReplyLost, LeftBehind, Goto
<1>15. ASSUME NEW c \in Containers, Rollback(c) PROVE EffectInv'
  BY <1>15 DEF Rollback, Goto
<1>16. ASSUME NEW c \in Containers, RollbackError(c) PROVE EffectInv'
  BY <1>16 DEF RollbackError, Goto
<1>17. ASSUME NEW c \in Containers, Release(c) PROVE EffectInv'
  BY <1>17 DEF Release, CheckIn, Goto
<1>18. ASSUME NEW c \in Containers, SystemQuery(c) PROVE EffectInv'
  BY <1>18 DEF SystemQuery, CheckIn, Finish, Goto
<1>19. ASSUME NEW c \in Containers, SystemQueryError(c) PROVE EffectInv'
  BY <1>19 DEF SystemQueryError, CheckIn, Finish, Goto
<1>20. ASSUME NEW c \in Containers, LoseConnection(c) PROVE EffectInv'
  BY <1>20 DEF LoseConnection, Orphan
<1>21. ASSUME NEW c \in Containers, CloseIdle(c) PROVE EffectInv'
  BY <1>21 DEF CloseIdle
<1>22. ASSUME NEW c \in Containers, Restart(c) PROVE EffectInv'
  BY <1>22 DEF Restart, Orphan, Finish, Goto
<1>23. ASSUME NEW s \in Sessions, Abort(s) PROVE EffectInv'
  BY <1>23 DEF Abort
<1>24. ASSUME Rotate PROVE EffectInv'
  BY <1>24 DEF Rotate
<1>25. CASE UNCHANGED vars
  BY <1>25 DEF vars
<1>26. QED
  BY <1>1, <1>2, <1>3, <1>4, <1>5, <1>6, <1>7, <1>8, <1>9, <1>10,
     <1>11, <1>12, <1>13, <1>14, <1>15, <1>16, <1>17, <1>18, <1>19, <1>20,
     <1>21, <1>22, <1>23, <1>24, <1>25
     DEF Next, Step, Borrow

\* The refinement mapping of Atomic.
Phases == [c \in Containers |-> Phase(c)]
Effects == [c \in Containers |-> Effect(c)]

AtomicStep(c) ==
    \/ Atomic!Start(c) \/ Atomic!Apply(c) \/ Atomic!Return(c) \/ Atomic!Throw(c)
    \/ Atomic!ApplyAndReturn(c) \/ Atomic!Die(c)

Mapped ==
    \/ \E c \in Containers : AtomicStep(c)
    \/ UNCHANGED <<Lossy, Phases, Effects>>

LEMMA TakesEffect ==
    ASSUME TypeOK, NEW c \in Containers, size[c] # 0, UNCHANGED size,
           stored' = [stored EXCEPT ![c] = size[c]]
    PROVE  Effects' = [Effects EXCEPT ![c] = "all"]
<1>1. stored'[c] = size'[c] /\ stored'[c] # 0
  BY DEF TypeOK
<1>2. Effect(c)' = "all"
  BY <1>1 DEF Effect
<1>3. ASSUME NEW d \in Containers, d # c PROVE Effect(d)' = Effect(d)
  BY <1>3 DEF TypeOK, Effect
<1>4. QED
  BY <1>2, <1>3 DEF Effects

LEMMA Completes ==
    ASSUME TypeOK, NEW c \in Containers, pc[c] = "release", answer[c] = "ok",
           stored[c] = size[c], size[c] # 0
    PROVE  Phases[c] = "running" /\ Effects[c] = "all"
BY DEF TypeOK, Phases, Phase, Effects, Effect

LEMMA AtomicSteps == TInv /\ EffectInv /\ [Next]_vars => Mapped
<1> SUFFICES ASSUME TInv, EffectInv, [Next]_vars PROVE Mapped
  OBVIOUS
<1> USE DEF TInv, TypeOK, CallInv, Transactional, EffectInv, Lossy, poolVars, serverVars,
       callVars, Phases, Effects, Phase, Effect
<1>1. ASSUME NEW c \in Containers, NEW t \in Tenants \cup {NoTenant},
              NEW n \in 1..MaxStatements, Call(c, t, n) PROVE Mapped
  <2>1. Phases[c] # "running"
    BY <1>1 DEF Call, Goto
  <2>2. Phases' = [Phases EXCEPT ![c] = "running"]
    BY <1>1 DEF Call, Goto
  <2>3. Effects' = [Effects EXCEPT ![c] = "none"]
    BY <1>1 DEF Call, Goto
  <2>4. UNCHANGED Lossy
    BY <1>1 DEF Call, Goto
  <2>5. Atomic!Start(c)
    BY <2>1, <2>2, <2>3, <2>4 DEF Atomic!Start
  <2>6. QED
    BY <2>5 DEF Mapped, AtomicStep
<1>2. ASSUME NEW c \in Containers, GetPool(c) PROVE Mapped
  BY <1>2 DEF GetPool, Goto, Fetched, Mapped
<1>3. ASSUME NEW c \in Containers, GetPoolError(c) PROVE Mapped
  <2>1. Phases[c] = "running" /\ Effects[c] = "none"
    BY <1>3 DEF GetPoolError, Finish, Goto
  <2>2. Phases' = [Phases EXCEPT ![c] = "error"]
    BY <1>3 DEF GetPoolError, Finish, Goto
  <2>3. Effects' = Effects
    BY <1>3 DEF GetPoolError, Finish, Goto
  <2>4. UNCHANGED Lossy
    BY <1>3 DEF GetPoolError, Finish, Goto
  <2>5. Atomic!Throw(c)
    BY <2>1, <2>2, <2>3, <2>4 DEF Atomic!Throw
  <2>6. QED
    BY <2>5 DEF Mapped, AtomicStep
<1>4. ASSUME NEW c \in Containers, Reuse(c) PROVE Mapped
  BY <1>4 DEF Reuse, Connected, Goto, Mapped
<1>5. ASSUME NEW c \in Containers, Open(c) PROVE Mapped
  BY <1>5 DEF Open, Connected, Goto, Mapped
<1>6. ASSUME NEW c \in Containers, Refused(c) PROVE Mapped
  <2>1. Phases[c] = "running" /\ Effects[c] = "none"
    BY <1>6 DEF Refused, Finish, Goto
  <2>2. Phases' = [Phases EXCEPT ![c] = "error"]
    BY <1>6 DEF Refused, Finish, Goto
  <2>3. Effects' = Effects
    BY <1>6 DEF Refused, Finish, Goto
  <2>4. UNCHANGED Lossy
    BY <1>6 DEF Refused, Finish, Goto
  <2>5. Atomic!Throw(c)
    BY <2>1, <2>2, <2>3, <2>4 DEF Atomic!Throw
  <2>6. QED
    BY <2>5 DEF Mapped, AtomicStep
<1>7. ASSUME NEW c \in Containers, Unreachable(c) PROVE Mapped
  <2>1. Phases[c] = "running" /\ Effects[c] = "none"
    BY <1>7 DEF Unreachable, Finish, Goto
  <2>2. Phases' = [Phases EXCEPT ![c] = "error"]
    BY <1>7 DEF Unreachable, Finish, Goto
  <2>3. Effects' = Effects
    BY <1>7 DEF Unreachable, Finish, Goto
  <2>4. UNCHANGED Lossy
    BY <1>7 DEF Unreachable, Finish, Goto
  <2>5. Atomic!Throw(c)
    BY <2>1, <2>2, <2>3, <2>4 DEF Atomic!Throw
  <2>6. QED
    BY <2>5 DEF Mapped, AtomicStep
<1>8. ASSUME NEW c \in Containers, Begin(c) PROVE Mapped
  BY <1>8 DEF Begin, FreeSessions, Goto, Mapped
<1>9. ASSUME NEW c \in Containers, SetConfig(c) PROVE Mapped
  BY <1>9 DEF SetConfig, Goto, Mapped
<1>10. ASSUME NEW c \in Containers, Query(c) PROVE Mapped
  BY <1>10 DEF Query, Goto, Mapped
<1>11. ASSUME NEW c \in Containers, QueryError(c) PROVE Mapped
  BY <1>11 DEF QueryError, Goto, Mapped
<1>12. ASSUME NEW c \in Containers, StatementError(c) PROVE Mapped
  BY <1>12 DEF StatementError, Transactional, Goto, Mapped
<1>13. ASSUME NEW c \in Containers, Commit(c) PROVE Mapped
  <2>1. Phases[c] = "running" /\ Effects[c] = "none"
    BY <1>13 DEF Commit, LeftBehind, Goto
  <2>2. Phases' = Phases
    BY <1>13 DEF Commit, LeftBehind, Goto
  <2>3. Effects' = [Effects EXCEPT ![c] = "all"]
    <3>1. size[c] # 0 /\ UNCHANGED size /\ stored' = [stored EXCEPT ![c] = size[c]]
      BY <1>13 DEF Commit, LeftBehind, Goto
    <3>2. QED
      BY <3>1, TakesEffect
  <2>4. UNCHANGED Lossy
    BY <1>13 DEF Commit, LeftBehind, Goto
  <2>5. Atomic!Apply(c)
    BY <2>1, <2>2, <2>3, <2>4 DEF Atomic!Apply
  <2>6. QED
    BY <2>5 DEF Mapped, AtomicStep
<1>14. ASSUME NEW c \in Containers, CommitReplyLost(c) PROVE Mapped
  <2>1. Phases[c] = "running" /\ Effects[c] = "none"
    BY <1>14 DEF CommitReplyLost, LeftBehind, Goto
  <2>2. Phases' = Phases
    BY <1>14 DEF CommitReplyLost, LeftBehind, Goto
  <2>3. Effects' = [Effects EXCEPT ![c] = "all"]
    <3>1. size[c] # 0 /\ UNCHANGED size /\ stored' = [stored EXCEPT ![c] = size[c]]
      BY <1>14 DEF CommitReplyLost, LeftBehind, Goto
    <3>2. QED
      BY <3>1, TakesEffect
  <2>4. UNCHANGED Lossy
    BY <1>14 DEF CommitReplyLost, LeftBehind, Goto
  <2>5. Atomic!Apply(c)
    BY <2>1, <2>2, <2>3, <2>4 DEF Atomic!Apply
  <2>6. QED
    BY <2>5 DEF Mapped, AtomicStep
<1>15. ASSUME NEW c \in Containers, Rollback(c) PROVE Mapped
  BY <1>15 DEF Rollback, Goto, Mapped
<1>16. ASSUME NEW c \in Containers, RollbackError(c) PROVE Mapped
  BY <1>16 DEF RollbackError, Goto, Mapped
<1>17. ASSUME NEW c \in Containers, Release(c) PROVE Mapped
  <2>1. Effects' = Effects /\ UNCHANGED Lossy
    BY <1>17 DEF Release, CheckIn, Goto
  <2>2. CASE answer[c] = "ok"
    <3>1. Phases[c] = "running" /\ Effects[c] = "all"
      <4>1. size[c] # 0 /\ stored[c] = size[c] /\ pc[c] = "release"
        BY <1>17, <2>2 DEF Release
      <4>2. QED
        BY <2>2, <4>1, Completes
    <3>2. Phases' = [Phases EXCEPT ![c] = "ok"]
      BY <1>17, <2>2 DEF Release, CheckIn, Goto
    <3>3. QED
      BY <2>1, <3>1, <3>2 DEF Mapped, AtomicStep, Atomic!Return
  <2>3. CASE answer[c] = "error"
    <3>1. Phases[c] = "running" /\ Phases' = [Phases EXCEPT ![c] = "error"]
      BY <1>17, <2>3 DEF Release, CheckIn, Goto
    <3>2. Effects[c] = "none" \/ Lossy
      BY <1>17, <2>3 DEF Release
    <3>3. QED
      BY <2>1, <3>1, <3>2 DEF Mapped, AtomicStep, Atomic!Throw
  <2>4. QED
    BY <1>17, <2>2, <2>3 DEF Release
<1>18. ASSUME NEW c \in Containers, SystemQuery(c) PROVE Mapped
  <2>1. Phases[c] = "running" /\ Effects[c] = "none"
    BY <1>18 DEF SystemQuery, CheckIn, Finish, Goto
  <2>2. Phases' = [Phases EXCEPT ![c] = "ok"]
    BY <1>18 DEF SystemQuery, CheckIn, Finish, Goto
  <2>3. Effects' = [Effects EXCEPT ![c] = "all"]
    <3>1. size[c] = 1
      BY <1>18 DEF SystemQuery
    <3>2. UNCHANGED size /\ stored' = [stored EXCEPT ![c] = 1]
      BY <1>18 DEF SystemQuery
    <3>3. size[c] # 0 /\ stored' = [stored EXCEPT ![c] = size[c]]
      BY <3>1, <3>2
    <3>4. QED
      BY <3>2, <3>3, TakesEffect
  <2>4. UNCHANGED Lossy
    BY <1>18 DEF SystemQuery, CheckIn, Finish, Goto
  <2>5. Atomic!ApplyAndReturn(c)
    BY <2>1, <2>2, <2>3, <2>4 DEF Atomic!ApplyAndReturn
  <2>6. QED
    BY <2>5 DEF Mapped, AtomicStep
<1>19. ASSUME NEW c \in Containers, SystemQueryError(c) PROVE Mapped
  <2>1. Phases[c] = "running" /\ Effects[c] = "none" /\ UNCHANGED Lossy
    BY <1>19 DEF SystemQueryError, CheckIn, Finish, Goto
  <2>2. Phases' = [Phases EXCEPT ![c] = "error"]
    BY <1>19 DEF SystemQueryError, CheckIn, Finish, Goto
  <2>3. CASE UNCHANGED stored
    <3>1. Effects' = Effects
      BY <1>19, <2>3 DEF SystemQueryError, CheckIn, Finish, Goto
    <3>2. QED
      BY <2>1, <2>2, <3>1 DEF Mapped, AtomicStep, Atomic!Throw
  <2>4. CASE Lossy /\ stored' = [stored EXCEPT ![c] = 1]
    <3>1. Effects' = [Effects EXCEPT ![c] = "all"]
      <4>1. size[c] = 1
        BY <1>19 DEF SystemQueryError
      <4>2. UNCHANGED size
        BY <1>19 DEF SystemQueryError
      <4>3. size[c] # 0 /\ stored' = [stored EXCEPT ![c] = size[c]]
        BY <2>4, <4>1
      <4>4. QED
        BY <4>2, <4>3, TakesEffect
    <3>2. QED
      BY <2>1, <2>2, <2>4, <3>1 DEF Mapped, AtomicStep, Atomic!ApplyAndReturn
  <2>5. QED
    BY <1>19, <2>3, <2>4 DEF SystemQueryError
<1>20. ASSUME NEW c \in Containers, LoseConnection(c) PROVE Mapped
  BY <1>20 DEF LoseConnection, Orphan, Mapped
<1>21. ASSUME NEW c \in Containers, CloseIdle(c) PROVE Mapped
  BY <1>21 DEF CloseIdle, Mapped
<1>22. ASSUME NEW c \in Containers, Restart(c) PROVE Mapped
  <2>1. Phases' = [Phases EXCEPT ![c] = "none"] /\ Effects' = Effects /\ UNCHANGED Lossy
    BY <1>22 DEF Restart, Orphan, Finish, Goto
  <2>2. QED
    BY <2>1 DEF Mapped, AtomicStep, Atomic!Die
<1>23. ASSUME NEW s \in Sessions, Abort(s) PROVE Mapped
  BY <1>23 DEF Abort, Mapped
<1>24. ASSUME Rotate PROVE Mapped
  BY <1>24 DEF Rotate, Mapped
<1>25. CASE UNCHANGED vars
  BY <1>25 DEF vars, Mapped
<1>26. QED
  BY <1>1, <1>2, <1>3, <1>4, <1>5, <1>6, <1>7, <1>8, <1>9, <1>10,
     <1>11, <1>12, <1>13, <1>14, <1>15, <1>16, <1>17, <1>18, <1>19, <1>20,
     <1>21, <1>22, <1>23, <1>24, <1>25
     DEF Next, Step, Borrow

\* queryWithTenant, transactionWithTenant and querySystem (db.js:156-215)
\* implement the atomic call, in every environment: a statement never takes
\* effect without the others, an ok is never false, and an error after a
\* commit takes a reply that was lost.
THEOREM CallsAreAtomicHolds == Spec => CallsAreAtomic
<1>1. Init => Atomic!Init
  BY DEF Init, Atomic!Init, Phase, Effect
<1>2. TInv /\ EffectInv /\ [Next]_vars => [Atomic!Next]_(Atomic!vars)
  BY AtomicSteps DEF Mapped, AtomicStep, Atomic!Next, Atomic!vars, Lossy, Phases, Effects
<1>3. QED
  BY TInvInit, TInvNext, EffectInvInit, EffectInvNext, <1>1, <1>2, PTL
  DEF Spec, CallsAreAtomic, Atomic!Spec

----------------------------------------------------------------------------
(***************************************************************************)
(* What a handler may conclude from the answer of a call.                  *)
(***************************************************************************)

AnswersTrue ==
    \A c \in Containers :
        /\ Effects[c] # "some"
        /\ Phases[c] = "ok" => Effects[c] = "all"
        /\ Phases[c] = "error" => Effects[c] = "none" \/ Lossy

LEMMA AnswersTrueInit == Atomic!Init => AnswersTrue
BY DEF Atomic!Init, AnswersTrue, Phases, Effects

LEMMA AnswersTrueNext == AnswersTrue /\ [Atomic!Next]_(Atomic!vars) => AnswersTrue'
<1> SUFFICES ASSUME AnswersTrue, [Atomic!Next]_(Atomic!vars) PROVE AnswersTrue'
  OBVIOUS
<1>1. Phases = [c \in Containers |-> Phases[c]] /\ Effects = [c \in Containers |-> Effects[c]]
  BY DEF Phases, Effects
<1> USE DEF AnswersTrue
<1>2. ASSUME NEW c \in Containers, AtomicStep(c) PROVE AnswersTrue'
  <2>1. /\ UNCHANGED Lossy
        /\ \/ Phases[c] # "running" /\ Phases' = [Phases EXCEPT ![c] = "running"]
              /\ Effects' = [Effects EXCEPT ![c] = "none"]
           \/ Phases[c] = "running" /\ Effects' = [Effects EXCEPT ![c] = "all"]
              /\ UNCHANGED Phases
           \/ Effects[c] = "all" /\ Phases' = [Phases EXCEPT ![c] = "ok"] /\ UNCHANGED Effects
           \/ (Effects[c] = "none" \/ Lossy) /\ Phases' = [Phases EXCEPT ![c] = "error"]
              /\ UNCHANGED Effects
           \/ /\ Effects' = [Effects EXCEPT ![c] = "all"]
              /\ \/ Phases' = [Phases EXCEPT ![c] = "ok"]
                 \/ Lossy /\ Phases' = [Phases EXCEPT ![c] = "error"]
           \/ Phases' = [Phases EXCEPT ![c] = "none"] /\ UNCHANGED Effects
    BY <1>2 DEF AtomicStep, Atomic!Start, Atomic!Apply, Atomic!Return, Atomic!Throw,
                Atomic!ApplyAndReturn, Atomic!Die, Phases, Effects, Lossy
  <2>2. QED
    BY <1>1, <2>1
<1>3. CASE UNCHANGED Atomic!vars
  <2>1. UNCHANGED <<Lossy, Phases, Effects>>
    BY <1>3 DEF Atomic!vars, Lossy, Phases, Effects
  <2>2. QED
    BY <2>1
<1>4. QED
  BY <1>2, <1>3 DEF Atomic!Next, AtomicStep

\* In every environment the statements of a call are durable all or none, when
\* it returns rows they all are, and when it throws none is, unless a reply to
\* a commit can be lost: what the handlers build on.
THEOREM AnswersAreTrueHolds ==
    Spec => [](\A c \in Containers :
                 /\ stored[c] \in {0, size[c]}
                 /\ pc[c] = "ready" /\ answer[c] = "ok" => stored[c] = size[c]
                 /\ pc[c] = "ready" /\ answer[c] \in {"error", "refused"} =>
                       stored[c] = 0 \/ "commit_reply_lost" \in faults)
<1>1. AnswersTrue =>
          \A c \in Containers :
             /\ stored[c] \in {0, size[c]}
             /\ pc[c] = "ready" /\ answer[c] = "ok" => stored[c] = size[c]
             /\ pc[c] = "ready" /\ answer[c] \in {"error", "refused"} =>
                   stored[c] = 0 \/ "commit_reply_lost" \in faults
  <2> SUFFICES ASSUME AnswersTrue, NEW c \in Containers
               PROVE  /\ stored[c] \in {0, size[c]}
                      /\ pc[c] = "ready" /\ answer[c] = "ok" => stored[c] = size[c]
                      /\ pc[c] = "ready" /\ answer[c] \in {"error", "refused"} =>
                            stored[c] = 0 \/ "commit_reply_lost" \in faults
    OBVIOUS
  <2>1. /\ Effect(c) # "some"
        /\ Phase(c) = "ok" => Effect(c) = "all"
        /\ Phase(c) = "error" => Effect(c) = "none" \/ Lossy
    BY DEF AnswersTrue, Phases, Effects
  <2>2. QED
    BY <2>1 DEF Phase, Effect, Lossy
<1>2. QED
  BY CallsAreAtomicHolds, AnswersTrueInit, AnswersTrueNext, <1>1, PTL
  DEF CallsAreAtomic, Atomic!Spec
=============================================================================
