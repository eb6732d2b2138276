------------------------ MODULE LocalJobQueueProofs ------------------------
(***************************************************************************)
(* Theorems about LocalJobQueue, for any jobs, cells, keys, types, workers,*)
(* attempt budget, lease duration and delays.                              *)
(***************************************************************************)
EXTENDS LocalJobQueue, SqlJobsProofs

-----------------------------------------------------------------------------
(* Type correctness.                                                        *)

\* Columns, workers and history keep their types in every behaviour, and a row
\* exists exactly for the jobs that have a state (the ubeeq_jobs table).
THEOREM TypeCorrect == Spec => []TypeOK
  <1>1. Init => TypeOK
    BY NoLeaseAssumption, SqlJobsAssumption DEF Init, TypeOK, JobState
  <1>2. TypeOK /\ [Next]_vars => TypeOK'
    <2> SUFFICES ASSUME TypeOK, [Next]_vars PROVE TypeOK'
      OBVIOUS
    <2> USE SqlJobsAssumption, NoLeaseAssumption
    <2>1. ASSUME NEW w \in Workers, LeaseDeadLetter(w) PROVE TypeOK'
      BY <2>1 DEF TypeOK, LeaseDeadLetter, Lapse, ExpiredAt, Rows, JobState, history
    <2>2. ASSUME NEW w \in Workers, LeaseReclaim(w) PROVE TypeOK'
      BY <2>2 DEF TypeOK, LeaseReclaim, Lapse, ExpiredAt, Rows, JobState, history
    <2>3. ASSUME NEW w \in Workers, LeaseClaim(w) PROVE TypeOK'
      <3>1. PICK id \in Leasable(w, stamp[w]) :
              /\ state' = [state EXCEPT ![id] = "leased"]
              /\ attempt' = [attempt EXCEPT ![id] = @ + 1]
              /\ leaseToken' = [leaseToken EXCEPT ![id] = issued + 1]
              /\ leaseExpiresAt' = [leaseExpiresAt EXCEPT ![id] = stamp[w] + LeaseDuration]
              /\ lease' = [lease EXCEPT ![w] =
                   [id |-> id, token |-> issued + 1, until |-> stamp[w] + LeaseDuration]]
        BY <2>3 DEF LeaseClaim
      <3>2. id \in Ids /\ request[id] # NoRequest
        BY DEF Leasable, Rows
      <3>3. [id |-> id, token |-> issued + 1, until |-> stamp[w] + LeaseDuration] \in Lease
        BY <3>2 DEF TypeOK, Lease
      <3>4. QED
        BY <2>3, <3>1, <3>2, <3>3 DEF TypeOK, LeaseClaim, JobState, history
    <2>4. ASSUME NEW w \in Workers, LeaseNone(w) PROVE TypeOK'
      BY <2>4 DEF TypeOK, LeaseNone, row, history
    <2>5. ASSUME NEW w \in Workers,
                 \/ Complete(w) \/ DeadLetter(w) \/ LeaseLost(w) \/ Crash(w)
                 \/ \E delay \in Delays : Retry(w, delay)
          PROVE  TypeOK'
      BY <2>5, AnswerType
    <2>9. ASSUME NEW r \in Requests, EnqueueFound(r) PROVE TypeOK'
      BY <2>9 DEF TypeOK, EnqueueFound, Answer, RowOf, Rows, row
    <2>10. ASSUME NEW r \in Requests, EnqueueMissing(r) PROVE TypeOK'
      BY <2>10 DEF TypeOK, EnqueueMissing, row, history
    <2>11. ASSUME NEW r \in Requests, NEW delay \in Delays, EnqueueInsert(r, delay)
           PROVE TypeOK'
      <3>1. CASE \E id \in Ids \ Rows : Insert(r, id, delay) /\ Answer(r, id)
        <4>1. PICK id \in Ids \ Rows : Insert(r, id, delay) /\ Answer(r, id)
          BY <3>1
        <4>2. now + delay \in Nat
          BY DEF TypeOK
        <4>3. QED
          BY <2>11, <4>1, <4>2 DEF TypeOK, EnqueueInsert, Insert, Answer, Rows, JobState
      <3>2. CASE (\E id \in RowOf(r) : Answer(r, id)) /\ UNCHANGED row
        BY <2>11, <3>2 DEF TypeOK, EnqueueInsert, Answer, RowOf, Rows, row
      <3>3. QED
        BY <2>11, <3>1, <3>2 DEF EnqueueInsert
    <2>12. ASSUME NEW id \in Ids, Operator(id) PROVE TypeOK'
      BY <2>12, OperatorType DEF Operator
    <2>14. CASE Tick
      BY <2>14 DEF TypeOK, Tick, row, history
    <2>15. CASE UNCHANGED vars
      BY <2>15 DEF TypeOK, vars, row, history
    <2>16. QED
      BY <2>1, <2>2, <2>3, <2>4, <2>5, <2>9, <2>10, <2>11, <2>12, <2>14, <2>15
         DEF Next, Worker, Enqueue
  <1>3. QED
    BY <1>1, <1>2, PTL DEF Spec

-----------------------------------------------------------------------------
(* Fencing.                                                                 *)

\* What lapses was a lease that had run out.
LEMMA FenceLapses ==
  ASSUME TypeOK, TypeOK', FenceInv, NEW jobs \in SUBSET Ids,
         NEW outcome \in {"dead_lettered", "retry_scheduled"},
         \A id \in jobs : state[id] = "leased" /\ leaseExpiresAt[id] <= now,
         Lapse(jobs, outcome),
         \A v \in Workers : stamp'[v] <= now,
         \A v \in Workers : pc'[v] = "work" <=> pc[v] = "work"
  PROVE  FenceInv'
  <1>1. \A id \in jobs : state'[id] # "leased" /\ leaseToken'[id] <= issued
    BY DEF Lapse, TypeOK
  <1>2. \A id \in Ids \ jobs : /\ state'[id] = state[id] /\ leaseToken'[id] = leaseToken[id]
                              /\ leaseExpiresAt'[id] = leaseExpiresAt[id]
    BY DEF Lapse
  <1>3. UNCHANGED <<now, issued, lease>>
    BY DEF Lapse
  <1>4. QED
    BY <1>1, <1>2, <1>3, FenceLapse

\* Every step of the queue keeps the tokens and the live leases in order.
LEMMA FenceInductive == Spec => []FenceInv
  <1>1. Init => FenceInv
    BY DEF Init, FenceInv, TokensFence, LiveLeaseKept, LiveLeasesDisjoint, Live, Working
  <1>2. TypeOK /\ TypeOK' /\ FenceInv /\ [Next]_vars => FenceInv'
    <2> SUFFICES ASSUME TypeOK, TypeOK', FenceInv, [Next]_vars PROVE FenceInv'
      OBVIOUS
    <2> USE SqlJobsAssumption
    <2>1. ASSUME NEW w \in Workers, LeaseDeadLetter(w) PROVE FenceInv'
      <3> DEFINE jobs == {id \in ExpiredAt(w, now) : Exhausted(id)}
      <3>1. jobs \in SUBSET Ids /\ \A id \in jobs : state[id] = "leased" /\ leaseExpiresAt[id] <= now
        BY DEF ExpiredAt, Rows
      <3>2. Lapse(jobs, "dead_lettered")
        BY <2>1 DEF LeaseDeadLetter
      <3>3. \A v \in Workers : stamp'[v] <= now /\ (pc'[v] = "work" <=> pc[v] = "work")
        BY <2>1 DEF LeaseDeadLetter, TypeOK, FenceInv, TokensFence
      <3> HIDE DEF jobs
      <3>4. QED
        BY <3>1, <3>2, <3>3, FenceLapses
    <2>2. ASSUME NEW w \in Workers, LeaseReclaim(w) PROVE FenceInv'
      <3> DEFINE jobs == ExpiredAt(w, stamp[w])
      <3>1. jobs \in SUBSET Ids /\ \A id \in jobs : state[id] = "leased" /\ leaseExpiresAt[id] <= now
        <4>1. \A id \in jobs : id \in Ids /\ state[id] = "leased" /\ leaseExpiresAt[id] <= stamp[w]
          BY DEF ExpiredAt, Rows
        <4>2. stamp[w] <= now /\ stamp[w] \in Nat /\ now \in Nat
          BY DEF FenceInv, TokensFence, TypeOK
        <4>3. \A id \in Ids : leaseExpiresAt[id] \in Nat
          BY DEF TypeOK
        <4> HIDE DEF jobs
        <4>4. ASSUME NEW id \in jobs PROVE leaseExpiresAt[id] <= now
          <5>1. leaseExpiresAt[id] \in Nat /\ leaseExpiresAt[id] <= stamp[w]
            BY <4>1, <4>3
          <5>2. QED
            BY <4>2, <5>1
        <4>5. QED
          BY <4>1, <4>4
      <3>2. Lapse(jobs, "retry_scheduled")
        BY <2>2 DEF LeaseReclaim
      <3>3. \A v \in Workers : stamp'[v] <= now /\ (pc'[v] = "work" <=> pc[v] = "work")
        BY <2>2 DEF LeaseReclaim, TypeOK, FenceInv, TokensFence
      <3> HIDE DEF jobs
      <3>4. QED
        BY <3>1, <3>2, <3>3, FenceLapses
    <2>3. ASSUME NEW w \in Workers, LeaseClaim(w) PROVE FenceInv'
      <3> DEFINE until == stamp[w] + LeaseDuration
      <3>1. PICK id \in Ids :
              /\ state[id] \in {"queued", "retry_scheduled"}
              /\ state' = [state EXCEPT ![id] = "leased"]
              /\ leaseToken' = [leaseToken EXCEPT ![id] = issued + 1]
              /\ leaseExpiresAt' = [leaseExpiresAt EXCEPT ![id] = until]
              /\ lease' = [lease EXCEPT ![w] = [id |-> id, token |-> issued + 1, until |-> until]]
        BY <2>3 DEF LeaseClaim, Leasable, Rows
      <3>2. /\ pc[w] # "work" /\ pc' = [pc EXCEPT ![w] = "work"]
            /\ issued' = issued + 1 /\ now' = now /\ stamp' = stamp
        BY <2>3 DEF LeaseClaim
      <3>3. until \in Nat
        BY DEF TypeOK
      <3> HIDE DEF until
      <3>4. /\ state'[id] = "leased" /\ leaseToken'[id] = issued + 1 /\ leaseExpiresAt'[id] = until
            /\ \A i \in Ids \ {id} : /\ state'[i] = state[i] /\ leaseToken'[i] = leaseToken[i]
                                    /\ leaseExpiresAt'[i] = leaseExpiresAt[i]
        BY <3>1 DEF TypeOK
      <3> DEFINE none == {i \in Ids : FALSE}
      <3>5. none \in SUBSET Ids /\ \A i : i \notin none
        OBVIOUS
      <3> HIDE DEF none
      <3>6. /\ \A i \in none : state[i] = "leased" /\ leaseExpiresAt[i] <= now
            /\ \A i \in none \ {id} : state'[i] # "leased" /\ leaseToken'[i] <= issued
            /\ \A i \in Ids \ (none \cup {id}) : /\ state'[i] = state[i] /\ leaseToken'[i] = leaseToken[i]
                                                /\ leaseExpiresAt'[i] = leaseExpiresAt[i]
        BY <3>4, <3>5
      <3>7. /\ state'[id] = "leased" /\ leaseToken'[id] = issued + 1 /\ leaseExpiresAt'[id] = until
            /\ state[id] \in {"queued", "retry_scheduled"} /\ none \in SUBSET Ids
            /\ lease' = [lease EXCEPT ![w] = [id |-> id, token |-> issued + 1, until |-> until]]
        BY <3>1, <3>4, <3>5
      <3>8. QED
        BY <3>2, <3>3, <3>6, <3>7, FenceTake
    <2>4. ASSUME NEW w \in Workers, LeaseNone(w) PROVE FenceInv'
      BY <2>4, FenceIdle DEF LeaseNone, row, FenceInv, TokensFence, TypeOK
    <2>5. ASSUME NEW w \in Workers,
                 \/ Complete(w) \/ DeadLetter(w) \/ LeaseLost(w) \/ Crash(w)
                 \/ \E delay \in Delays : Retry(w, delay)
          PROVE  FenceInv'
      BY <2>5, FenceAnswer
    <2>8. ASSUME NEW r \in Requests, EnqueueFound(r) \/ EnqueueMissing(r) PROVE FenceInv'
      BY <2>8, FenceIdle
         DEF EnqueueFound, EnqueueMissing, Answer, row, FenceInv, TokensFence, TypeOK
    <2>9. ASSUME NEW r \in Requests, NEW delay \in Delays, EnqueueInsert(r, delay)
          PROVE FenceInv'
      <3>1. CASE \E id \in Ids \ Rows : Insert(r, id, delay) /\ Answer(r, id)
        <4>1. PICK id \in Ids \ Rows : Insert(r, id, delay) /\ Answer(r, id)
          BY <3>1
        <4>2. state[id] = "absent"
          BY <4>1 DEF TypeOK, Rows
        <4>3. QED
          BY <4>1, <4>2, FenceUnleased DEF Insert, Answer
      <3>2. CASE (\E id \in RowOf(r) : Answer(r, id)) /\ UNCHANGED row
        BY <3>2, FenceIdle DEF Answer, row, FenceInv, TokensFence, TypeOK
      <3>3. QED
        BY <2>9, <3>1, <3>2 DEF EnqueueInsert
    <2>10. ASSUME NEW id \in Ids, Operator(id) PROVE FenceInv'
      BY <2>10, FenceOperator DEF Operator
    <2>12. CASE Tick
      <3>1. now' = now + 1 /\ UNCHANGED <<state, leaseToken, leaseExpiresAt, issued, lease, pc, stamp>>
        BY <2>12 DEF Tick, row
      <3>2. \A w \in Workers : stamp'[w] <= now'
        BY <3>1 DEF FenceInv, TokensFence, TypeOK
      <3>3. QED
        BY <3>1, <3>2, FenceIdle DEF TypeOK
    <2>13. CASE UNCHANGED vars
      BY <2>13, FenceIdle DEF vars, row, FenceInv, TokensFence, TypeOK
    <2>14. QED
      BY <2>1, <2>2, <2>3, <2>4, <2>5, <2>8, <2>9, <2>10, <2>12, <2>13
         DEF Next, Worker, Enqueue
  <1>3. QED
    BY <1>1, <1>2, TypeCorrect, PTL DEF Spec

\* A slow worker's lease, as long as it has not run out, is lost to nothing but
\* a cancellation, whatever other workers, callers and operators do.
THEOREM LeaseKept == Spec => []LiveLeaseKept
  <1>1. FenceInv => LiveLeaseKept
    BY DEF FenceInv
  <1>2. QED
    BY <1>1, FenceInductive, PTL

\* Two processes never both hold a live lease of one job, and a live lease is
\* lost to nothing but a cancellation, however the three statements of the
\* lease() calls, the answers, the crashes and the clock interleave.
THEOREM Fencing == Spec => [](LiveLeaseKept /\ LiveLeasesDisjoint)
  <1>1. FenceInv => LiveLeaseKept /\ LiveLeasesDisjoint
    BY DEF FenceInv
  <1>2. QED
    BY <1>1, FenceInductive, PTL

-----------------------------------------------------------------------------
(* The attempt budget.                                                      *)

\* Why the budget holds: a job that can be leased has an attempt left, and so
\* has every lease that a lease() call is about to reclaim.  The last conjunct
\* is the bound on how long such a call may take, the one before it depends on
\* it: a lease granted meanwhile must not have expired at this call's timestamp.
BudgetInv ==
  /\ \A id \in Ids : attempt[id] <= MaxAttempts + recoveries[id]
  /\ \A id \in Ids : state[id] = "queued" => attempt[id] < MaxAttempts + recoveries[id]
  /\ \A id \in Ids : state[id] = "retry_scheduled" => attempt[id] < MaxAttempts
  /\ \A id \in Ids : state[id] = "absent" => attempt[id] = 0
  /\ \A w \in Workers : pc[w] = "reclaim" =>
       \A id \in ExpiredAt(w, stamp[w]) : ~Exhausted(id)
  /\ \A w \in Workers : pc[w] \in {"reclaim", "claim"} => now - stamp[w] <= MaxPause

\* Steps that touch neither the budget nor an expiry, and start no call.
LEMMA BudgetIdle ==
  ASSUME TypeOK, BudgetInv,
         UNCHANGED <<request, state, attempt, leaseExpiresAt, stamp, recoveries, now>>,
         \A w \in Workers : pc'[w] \in {"reclaim", "claim"} => pc'[w] = pc[w]
  PROVE  BudgetInv'
  BY DEF BudgetInv, TypeOK, ExpiredAt, Exhausted, Rows

\* A change that leases nothing and takes no attempt keeps the budget when what
\* it makes leasable has an attempt left.
LEMMA BudgetMove ==
  ASSUME TypeOK, TypeOK', BudgetInv,
         UNCHANGED <<attempt, now, stamp>>,
         \A w \in Workers : pc'[w] \in {"reclaim", "claim"} => pc'[w] = pc[w],
         \A id \in Ids : recoveries'[id] >= recoveries[id],
         \A id \in Ids : request[id] # NoRequest => request'[id] = request[id],
         \A id \in Ids : state'[id] = "leased" =>
           state[id] = "leased" /\ leaseExpiresAt'[id] = leaseExpiresAt[id],
         \A id \in Ids : state'[id] # state[id] =>
           /\ state'[id] # "absent"
           /\ state'[id] = "queued" => attempt[id] < MaxAttempts + recoveries'[id]
           /\ state'[id] = "retry_scheduled" => attempt[id] < MaxAttempts
  PROVE  BudgetInv'
  <1> USE SqlJobsAssumption
  <1>1. \A w \in Workers : pc'[w] = "reclaim" =>
          \A id \in ExpiredAt(w, stamp[w])' : ~Exhausted(id)'
    BY DEF BudgetInv, TypeOK, ExpiredAt, Exhausted, Rows
  <1>2. \A id \in Ids : attempt'[id] <= MaxAttempts + recoveries'[id]
    BY DEF BudgetInv, TypeOK
  <1>3. \A id \in Ids : state'[id] = "queued" => attempt'[id] < MaxAttempts + recoveries'[id]
    BY DEF BudgetInv, TypeOK
  <1>4. QED
    BY <1>1, <1>2, <1>3 DEF BudgetInv, TypeOK

\* Of the expired leases that remain after the first statement of a lease()
\* call none has spent its last attempt.
LEMMA BudgetDeadLetter ==
  ASSUME TypeOK, TypeOK', BudgetInv, NEW w \in Workers, LeaseDeadLetter(w)
  PROVE  BudgetInv'
  <1> DEFINE jobs == {id \in ExpiredAt(w, now) : Exhausted(id)}
  <1>1. /\ state' = [id \in Ids |-> IF id \in jobs THEN "dead_lettered" ELSE state[id]]
        /\ leaseExpiresAt' = [id \in Ids |-> IF id \in jobs THEN 0 ELSE leaseExpiresAt[id]]
        /\ pc' = [pc EXCEPT ![w] = "reclaim"] /\ stamp' = [stamp EXCEPT ![w] = now]
        /\ UNCHANGED <<request, attempt, now, recoveries>>
    BY DEF LeaseDeadLetter, Lapse, history
  <1>2. \A v \in Workers : pc'[v] = "reclaim" =>
          \A id \in ExpiredAt(v, stamp[v])' : ~Exhausted(id)'
    <2> SUFFICES ASSUME NEW v \in Workers, pc'[v] = "reclaim",
                        NEW id \in ExpiredAt(v, stamp[v])'
                 PROVE  ~Exhausted(id)
      BY <1>1 DEF Exhausted
    <2>1. /\ id \in Rows /\ request[id].cell = CellOf[v] /\ id \notin jobs
          /\ state[id] = "leased" /\ leaseExpiresAt[id] <= stamp'[v]
      BY <1>1 DEF ExpiredAt, Rows
    <2>2. CASE v = w
      BY <1>1, <2>1, <2>2 DEF ExpiredAt, TypeOK
    <2>3. CASE v # w
      BY <1>1, <2>1, <2>3 DEF ExpiredAt, TypeOK, BudgetInv
    <2>4. QED
      BY <2>2, <2>3
  <1>3. \A v \in Workers : pc'[v] \in {"reclaim", "claim"} => now' - stamp'[v] <= MaxPause
    BY <1>1, MaxPauseAssumption DEF BudgetInv, TypeOK
  <1>4. QED
    BY <1>1, <1>2, <1>3 DEF BudgetInv, TypeOK, ExpiredAt, Rows

\* What the second statement gives back has an attempt left.
LEMMA BudgetReclaim ==
  ASSUME TypeOK, TypeOK', BudgetInv, NEW w \in Workers, LeaseReclaim(w)
  PROVE  BudgetInv'
  <1> DEFINE jobs == ExpiredAt(w, stamp[w])
  <1>1. /\ state' = [id \in Ids |-> IF id \in jobs THEN "retry_scheduled" ELSE state[id]]
        /\ leaseExpiresAt' = [id \in Ids |-> IF id \in jobs THEN 0 ELSE leaseExpiresAt[id]]
        /\ pc' = [pc EXCEPT ![w] = "claim"] /\ pc[w] = "reclaim"
        /\ UNCHANGED <<request, attempt, now, recoveries, stamp>>
    BY DEF LeaseReclaim, Lapse, history
  <1>2. \A id \in jobs : attempt[id] < MaxAttempts
    BY <1>1, SqlJobsAssumption DEF BudgetInv, Exhausted, TypeOK, ExpiredAt, Rows
  <1>3. \A v \in Workers : pc'[v] = "reclaim" =>
          \A id \in ExpiredAt(v, stamp[v])' : ~Exhausted(id)'
    BY <1>1 DEF BudgetInv, TypeOK, ExpiredAt, Exhausted, Rows
  <1>4. \A v \in Workers : pc'[v] \in {"reclaim", "claim"} => now' - stamp'[v] <= MaxPause
    BY <1>1 DEF BudgetInv, TypeOK
  <1>5. QED
    BY <1>1, <1>2, <1>3, <1>4 DEF BudgetInv, TypeOK

\* A claim spends an attempt that was left, and the lease it grants has not
\* expired at the timestamp of any other call under way.
LEMMA BudgetClaim ==
  ASSUME MaxPause < LeaseDuration, TypeOK, TypeOK', TokensFence, BudgetInv,
         NEW w \in Workers, LeaseClaim(w)
  PROVE  BudgetInv'
  <1> USE SqlJobsAssumption, MaxPauseAssumption
  <1>1. PICK id \in Leasable(w, stamp[w]) :
          /\ state' = [state EXCEPT ![id] = "leased"]
          /\ attempt' = [attempt EXCEPT ![id] = @ + 1]
          /\ leaseExpiresAt' = [leaseExpiresAt EXCEPT ![id] = stamp[w] + LeaseDuration]
    BY DEF LeaseClaim
  <1>2. id \in Ids /\ state[id] \in {"queued", "retry_scheduled"}
    BY DEF Leasable, Rows
  <1>3. /\ pc[w] = "claim" /\ pc' = [pc EXCEPT ![w] = "work"]
        /\ UNCHANGED <<request, now, stamp, recoveries>>
    BY DEF LeaseClaim, history
  <1>4. attempt[id] + 1 <= MaxAttempts + recoveries[id]
    BY <1>2 DEF BudgetInv, TypeOK
  <1>5. \A v \in Workers : stamp[v] < stamp[w] + LeaseDuration
    BY <1>3 DEF BudgetInv, TypeOK, TokensFence
  <1>6. \A v \in Workers : pc'[v] = "reclaim" =>
          \A i \in ExpiredAt(v, stamp[v])' : ~Exhausted(i)'
    <2> SUFFICES ASSUME NEW v \in Workers, pc'[v] = "reclaim",
                        NEW i \in ExpiredAt(v, stamp[v])'
                 PROVE  ~Exhausted(i)'
      OBVIOUS
    <2>1. i \in Ids /\ leaseExpiresAt'[i] <= stamp[v] /\ pc[v] = "reclaim"
      BY <1>3 DEF ExpiredAt, Rows, TypeOK
    <2>2. i # id
      BY <1>1, <1>2, <1>5, <2>1 DEF TypeOK
    <2>3. i \in ExpiredAt(v, stamp[v]) /\ attempt'[i] = attempt[i]
      BY <1>1, <1>2, <1>3, <2>1, <2>2 DEF ExpiredAt, Rows, TypeOK
    <2>4. QED
      BY <2>1, <2>3 DEF BudgetInv, Exhausted
  <1>7. \A v \in Workers : pc'[v] \in {"reclaim", "claim"} => now' - stamp'[v] <= MaxPause
    BY <1>3 DEF BudgetInv, TypeOK
  <1>8. QED
    BY <1>1, <1>2, <1>3, <1>4, <1>6, <1>7 DEF BudgetInv, TypeOK

\* Every step keeps the budget when a lease outlives any lease() call.
LEMMA BudgetInductive ==
  ASSUME MaxPause < LeaseDuration
  PROVE  Spec => []BudgetInv
  <1>1. Init => BudgetInv
    BY SqlJobsAssumption DEF Init, BudgetInv
  <1>2. TypeOK /\ TypeOK' /\ FenceInv /\ BudgetInv /\ [Next]_vars => BudgetInv'
    <2> SUFFICES ASSUME TypeOK, TypeOK', FenceInv, BudgetInv, [Next]_vars PROVE BudgetInv'
      OBVIOUS
    <2> USE SqlJobsAssumption
    <2>1. ASSUME NEW w \in Workers, LeaseDeadLetter(w) PROVE BudgetInv'
      BY <2>1, BudgetDeadLetter
    <2>2. ASSUME NEW w \in Workers, LeaseReclaim(w) PROVE BudgetInv'
      BY <2>2, BudgetReclaim
    <2>3. ASSUME NEW w \in Workers, LeaseClaim(w) PROVE BudgetInv'
      BY <2>3, BudgetClaim DEF FenceInv
    <2>4. ASSUME NEW w \in Workers, LeaseNone(w) PROVE BudgetInv'
      BY <2>4, BudgetIdle DEF LeaseNone, row, history, TypeOK
    <2>5. ASSUME NEW w \in Workers,
                 NEW outcome \in {"completed", "retry_scheduled", "dead_lettered"},
                 Settle(w, outcome), outcome = "retry_scheduled" => ~Exhausted(lease[w].id)
          PROVE  BudgetInv'
      <3>1. FreedType(w)
        BY <2>5, SettleType
      <3>2. PICK id \in Ids : /\ state' = [state EXCEPT ![id] = outcome]
                              /\ leaseExpiresAt' = [leaseExpiresAt EXCEPT ![id] = 0]
                              /\ outcome = "retry_scheduled" => attempt[id] < MaxAttempts
        <4>1. PICK id \in Ids : id = lease[w].id
          BY <3>1 DEF FreedType, Rows
        <4>2. outcome = "retry_scheduled" => ~(attempt[id] >= MaxAttempts)
          BY <2>5, <4>1 DEF Exhausted
        <4>3. outcome = "retry_scheduled" => attempt[id] < MaxAttempts
          BY <4>2 DEF TypeOK
        <4>4. /\ state' = [state EXCEPT ![id] = outcome]
              /\ leaseExpiresAt' = [leaseExpiresAt EXCEPT ![id] = 0]
          BY <2>5, <4>1 DEF Settle
        <4>5. QED
          BY <4>3, <4>4
      <3>3. /\ UNCHANGED <<request, attempt, now, stamp, recoveries>>
            /\ \A v \in Workers : pc'[v] \in {"reclaim", "claim"} => pc'[v] = pc[v]
        BY <2>5 DEF Settle, Release, TypeOK
      <3>4. QED
        BY <3>2, <3>3, BudgetMove DEF TypeOK
    <2>6. ASSUME NEW w \in Workers, Complete(w) \/ DeadLetter(w) PROVE BudgetInv'
      BY <2>5, <2>6 DEF Complete, DeadLetter
    <2>7. ASSUME NEW w \in Workers, NEW delay \in Delays, Retry(w, delay) PROVE BudgetInv'
      BY <2>5, <2>7 DEF Retry
    <2>8. ASSUME NEW w \in Workers, LeaseLost(w) \/ Crash(w) PROVE BudgetInv'
      BY <2>8, BudgetIdle DEF LeaseLost, Crash, Release, row, TypeOK
    <2>9. ASSUME NEW r \in Requests, EnqueueFound(r) \/ EnqueueMissing(r) PROVE BudgetInv'
      BY <2>9, BudgetIdle DEF EnqueueFound, EnqueueMissing, Answer, row, history
    <2>10. ASSUME NEW r \in Requests, NEW delay \in Delays, EnqueueInsert(r, delay)
           PROVE BudgetInv'
      <3>1. CASE \E id \in Ids \ Rows : Insert(r, id, delay) /\ Answer(r, id)
        <4>1. PICK id \in Ids \ Rows : Insert(r, id, delay) /\ Answer(r, id)
          BY <3>1
        <4>2. state[id] = "absent" /\ attempt[id] = 0
          BY <4>1 DEF TypeOK, Rows, BudgetInv
        <4>3. /\ state' = [state EXCEPT ![id] = "queued"] /\ request' = [request EXCEPT ![id] = r]
              /\ UNCHANGED <<attempt, leaseExpiresAt, now, stamp, pc, recoveries>>
          BY <4>1 DEF Insert, Answer
        <4>4. request[id] = NoRequest
          BY <4>1 DEF Rows
        <4>5. QED
          BY <4>2, <4>3, <4>4, BudgetMove DEF TypeOK
      <3>2. CASE (\E id \in RowOf(r) : Answer(r, id)) /\ UNCHANGED row
        BY <3>2, BudgetIdle DEF Answer, row
      <3>3. QED
        BY <2>10, <3>1, <3>2 DEF EnqueueInsert
    <2>11. ASSUME NEW id \in Ids, Cancel(id) PROVE BudgetInv'
      BY <2>11, BudgetMove DEF Cancel, TypeOK, history
    <2>12. ASSUME NEW id \in Ids, NEW delay \in Delays, Recover(id, delay) PROVE BudgetInv'
      <3>1. /\ state' = [state EXCEPT ![id] = "queued"]
            /\ leaseExpiresAt' = [leaseExpiresAt EXCEPT ![id] = 0]
            /\ recoveries' = [recoveries EXCEPT ![id] = @ + 1]
            /\ UNCHANGED <<request, attempt, now, stamp, pc>>
        BY <2>12 DEF Recover
      <3>2. attempt[id] < MaxAttempts + recoveries'[id]
        BY <3>1 DEF BudgetInv, TypeOK
      <3>3. \A i \in Ids : recoveries'[i] >= recoveries[i]
        BY <3>1 DEF TypeOK
      <3>4. /\ state'[id] = "queued" /\ leaseExpiresAt'[id] = 0
            /\ \A i \in Ids : i # id => state'[i] = state[i] /\ leaseExpiresAt'[i] = leaseExpiresAt[i]
        BY <3>1 DEF TypeOK
      <3>5. QED
        BY <3>1, <3>2, <3>3, <3>4, BudgetMove
    <2>13. CASE Tick
      <3>1. \A w \in Workers : pc[w] \in {"reclaim", "claim"} => now' - stamp[w] <= MaxPause
        BY <2>13, MaxPauseAssumption DEF Tick, TypeOK
      <3>2. UNCHANGED <<request, state, attempt, leaseExpiresAt, pc, stamp, recoveries>>
        BY <2>13 DEF Tick, row, history
      <3>3. QED
        BY <3>1, <3>2 DEF BudgetInv, TypeOK, ExpiredAt, Exhausted, Rows
    <2>14. CASE UNCHANGED vars
      BY <2>14, BudgetIdle DEF vars, row, history
    <2>15. QED
      BY <2>1, <2>2, <2>3, <2>4, <2>6, <2>7, <2>8, <2>9, <2>10, <2>11, <2>12,
         <2>13, <2>14 DEF Next, Worker, Enqueue, Operator
  <1>3. QED
    BY <1>1, <1>2, TypeCorrect, FenceInductive, PTL DEF Spec

\* Crashed, lapsed and reported attempts together never exceed maxAttempts but
\* for one more per recovery, as long as no lease() call is stopped for a whole
\* lease between its statements.
THEOREM BoundedRetries ==
  ASSUME MaxPause < LeaseDuration
  PROVE  Spec => []AttemptsBounded
  <1>1. BudgetInv => AttemptsBounded
    BY DEF BudgetInv, AttemptsBounded
  <1>2. QED
    BY <1>1, BudgetInductive, PTL

-----------------------------------------------------------------------------
(* Ends are final, and a key has one job.                                   *)

LEMMA EndsFinal ==
  ASSUME TypeOK, [Next]_vars
  PROVE  EndsKept
  <1>1. ASSUME NEW w \in Workers, LeaseDeadLetter(w) \/ LeaseReclaim(w) PROVE EndsKept
    BY <1>1 DEF EndsKept, LeaseDeadLetter, LeaseReclaim, Lapse, ExpiredAt, Rows, TypeOK, history
  <1>2. ASSUME NEW w \in Workers, LeaseClaim(w) PROVE EndsKept
    <2>1. PICK id \in Leasable(w, stamp[w]) : state' = [state EXCEPT ![id] = "leased"]
      BY <1>2 DEF LeaseClaim
    <2>2. id \in Ids /\ state[id] \in {"queued", "retry_scheduled"}
      BY DEF Leasable, Rows
    <2>3. QED
      BY <1>2, <2>1, <2>2 DEF EndsKept, LeaseClaim, TypeOK, history
  <1>3. ASSUME NEW w \in Workers,
               \/ Complete(w) \/ DeadLetter(w) \/ LeaseLost(w) \/ Crash(w)
               \/ \E delay \in Delays : Retry(w, delay)
        PROVE  EndsKept
    BY <1>3, EndsAnswer
  <1>5. ASSUME NEW w \in Workers, LeaseNone(w) PROVE EndsKept
    BY <1>5 DEF EndsKept, LeaseNone, row, history
  <1>6. ASSUME NEW r \in Requests, Enqueue(r) PROVE EndsKept
    <2>1. CASE UNCHANGED <<state, completions>>
      BY <2>1 DEF EndsKept
    <2>2. ASSUME NEW id \in Ids \ Rows, NEW delay \in Delays,
                 Insert(r, id, delay), Answer(r, id)
          PROVE  EndsKept
      BY <2>2 DEF EndsKept, Insert, Answer, Rows, TypeOK
    <2>3. QED
      BY <1>6, <2>1, <2>2
         DEF Enqueue, EnqueueFound, EnqueueMissing, EnqueueInsert, Answer, row, history
  <1>7. ASSUME NEW id \in Ids, Operator(id) PROVE EndsKept
    BY <1>7, EndsOperator DEF Operator
  <1>8. CASE Tick \/ UNCHANGED vars
    BY <1>8 DEF EndsKept, Tick, vars, row, history
  <1>9. QED
    BY <1>1, <1>2, <1>3, <1>5, <1>6, <1>7, <1>8 DEF Next, Worker

\* A job is completed at most once, and stays completed or cancelled.
THEOREM OneCompletion == Spec => []CompletedOnce
  <1>1. Init => CompletedOnce
    BY DEF Init, CompletedOnce
  <1>2. TypeOK /\ CompletedOnce /\ [Next]_vars => CompletedOnce'
    BY EndsFinal, EndsOnce
  <1>3. QED
    BY <1>1, <1>2, TypeCorrect, PTL DEF Spec

\* recover() and late answers revive neither cancelled nor completed jobs.
THEOREM EndsStand == Spec => NeverRevived
  <1>1. TypeOK /\ [Next]_vars => [EndsKept]_vars
    BY EndsFinal
  <1>2. [EndsKept]_vars => [NoneRevived]_vars
    BY EndsNotRevived
  <1>3. QED
    BY <1>1, <1>2, TypeCorrect, PTL DEF Spec, NeverRevived

\* Two processes that enqueue one key at the same time get the same job.
THEOREM OneJobPerKey == Spec => []EnqueueIdempotent
  <1>1. Init => KeysInv
    BY DEF Init, KeysInv, Rows
  <1>2. TypeOK /\ KeysInv /\ [Next]_vars => KeysInv'
    <2> SUFFICES ASSUME TypeOK, KeysInv, [Next]_vars PROVE KeysInv'
      OBVIOUS
    <2>1. CASE UNCHANGED <<request, answers>>
      BY <2>1, KeysIdle
    <2>2. ASSUME NEW r \in Requests, NEW id \in RowOf(r), Answer(r, id), UNCHANGED request
          PROVE  KeysInv'
      BY <2>2, KeysAnswer DEF Answer, RowOf
    <2>3. ASSUME NEW r \in Requests, NEW id \in Ids \ Rows, NEW delay \in Delays,
                 RowOf(r) = {}, Insert(r, id, delay), Answer(r, id)
          PROVE  KeysInv'
      BY <2>3, KeysInsert DEF Insert, Answer, RowOf
    <2>4. ASSUME NEW w \in Workers, Worker(w) \/ Crash(w) PROVE UNCHANGED <<request, answers>>
      BY <2>4, KeysWorker DEF Worker, LeaseDeadLetter, LeaseReclaim, Lapse, LeaseClaim, LeaseNone,
         row, history
    <2>5. ASSUME NEW id \in Ids, Operator(id) PROVE UNCHANGED <<request, answers>>
      BY <2>5, KeysOperator DEF Operator
    <2>6. CASE Tick \/ UNCHANGED vars
      BY <2>1, <2>6 DEF Tick, vars, row, history
    <2>7. ASSUME NEW r \in Requests, Enqueue(r) PROVE KeysInv'
      BY <2>1, <2>2, <2>3, <2>7
         DEF Enqueue, EnqueueFound, EnqueueMissing, EnqueueInsert, row, history
    <2>8. QED
      BY <2>1, <2>4, <2>5, <2>6, <2>7 DEF Next
  <1>3. QED
    BY <1>1, <1>2, KeysIdempotent, TypeCorrect, PTL DEF Spec

-----------------------------------------------------------------------------
(* Cells are isolated.                                                      *)

\* A worker is never handed a job of another cell or of a type it does not
\* handle, whatever else is enqueued while it works.
THEOREM Isolation == Spec => []CellIsolation
  <1>1. Init => CellIsolation
    BY DEF Init, CellIsolation
  <1>2. TypeOK /\ TypeOK' /\ CellIsolation /\ [Next]_vars => CellIsolation'
    <2> SUFFICES ASSUME TypeOK, TypeOK', CellIsolation, [Next]_vars PROVE CellIsolation'
      OBVIOUS
    <2>1. ASSUME \A id \in Rows : request'[id] = request[id],
                 \A w \in Workers : pc'[w] = "work" => pc[w] = "work" /\ lease'[w] = lease[w]
          PROVE  CellIsolation'
      <3> SUFFICES ASSUME NEW w \in Workers, pc'[w] = "work"
                   PROVE  LET r == request'[lease'[w].id]
                          IN  /\ r # NoRequest
                              /\ r.cell = CellOf[w]
                              /\ TypesOf[w] # {} => r.type \in TypesOf[w]
        BY DEF CellIsolation
      <3>1. pc[w] = "work" /\ lease'[w] = lease[w]
        BY <2>1
      <3>2. PICK id \in Ids : id = lease[w].id
        BY <3>1 DEF TypeOK, Lease
      <3>3. request[id] # NoRequest
        BY <3>1, <3>2 DEF CellIsolation
      <3>4. request'[id] = request[id]
        BY <2>1, <3>3 DEF Rows
      <3>5. QED
        BY <3>1, <3>2, <3>4 DEF CellIsolation
    <2>2. ASSUME NEW w \in Workers, LeaseClaim(w) PROVE CellIsolation'
      <3>1. PICK id \in Ids : /\ InScope(w, id)
                              /\ lease' = [lease EXCEPT ![w] =
                                   [id |-> id, token |-> issued + 1, until |-> stamp[w] + LeaseDuration]]
        BY <2>2 DEF LeaseClaim, Leasable, Rows
      <3>2. pc' = [pc EXCEPT ![w] = "work"] /\ UNCHANGED request
        BY <2>2 DEF LeaseClaim
      <3>3. lease'[w].id = id /\ \A v \in Workers : v # w => lease'[v] = lease[v] /\ pc'[v] = pc[v]
        BY <3>1, <3>2 DEF TypeOK
      <3>4. QED
        BY <3>1, <3>2, <3>3 DEF CellIsolation, InScope, Rows
    <2>3. ASSUME NEW w \in Workers, Worker(w) \/ Crash(w), ~LeaseClaim(w) PROVE CellIsolation'
      <3>1. UNCHANGED request
        BY <2>3 DEF Worker, Crash, LeaseDeadLetter, LeaseReclaim, Lapse, LeaseNone,
           Complete, Retry, DeadLetter, Settle, LeaseLost, Release, row
      <3>2. \A v \in Workers : pc'[v] = "work" => pc[v] = "work" /\ lease'[v] = lease[v]
        BY <2>3 DEF Worker, Crash, LeaseDeadLetter, LeaseReclaim, Lapse, LeaseNone,
           Complete, Retry, DeadLetter, Settle, LeaseLost, Release, TypeOK
      <3>3. QED
        BY <2>1, <3>1, <3>2
    <2>4. ASSUME NEW r \in Requests, Enqueue(r) PROVE CellIsolation'
      <3>1. UNCHANGED <<pc, lease>>
        BY <2>4 DEF Enqueue, EnqueueFound, EnqueueMissing, EnqueueInsert, Answer, history
      <3>2. \A id \in Rows : request'[id] = request[id]
        BY <2>4 DEF Enqueue, EnqueueFound, EnqueueMissing, EnqueueInsert, Insert, row, Rows, TypeOK
      <3>3. QED
        BY <2>1, <3>1, <3>2
    <2>5. ASSUME (\E id \in Ids : Operator(id)) \/ Tick \/ UNCHANGED vars PROVE CellIsolation'
      BY <2>1, <2>5 DEF Operator, Cancel, Recover, Tick, vars, row
    <2>6. QED
      BY <2>2, <2>3, <2>4, <2>5 DEF Next
  <1>3. QED
    BY <1>1, <1>2, TypeCorrect, PTL DEF Spec

-----------------------------------------------------------------------------
(* The queue implements JobLifecycle.                                       *)

Holder == [id \in Ids |-> IF state[id] = "leased" THEN leaseToken[id] ELSE 0]
Budgets == [id \in Ids |-> Budget(id)]
LifecycleStep == Lifecycle!Next \/ UNCHANGED Lifecycle!vars

\* Rows that keep their state, token and attempt look the same to the lifecycle.
LEMMA StutterStep ==
  ASSUME UNCHANGED <<state, leaseToken, attempt, issued>>
  PROVE  LifecycleStep
  BY DEF LifecycleStep, Lifecycle!vars, Budget, Left

\* Several leases lapse at once.
LEMMA LapseStep ==
  ASSUME TypeOK, NEW jobs \in SUBSET Ids,
         NEW outcome \in {"dead_lettered", "retry_scheduled"},
         \A id \in jobs : state[id] = "leased",
         \A id \in jobs : Exhausted(id) <=> outcome = "dead_lettered",
         Lapse(jobs, outcome)
  PROVE  Lifecycle!Lapse(jobs)
  <1> USE SqlJobsAssumption
  <1>1. \A id \in jobs : Budget(id) > 0 <=> outcome = "retry_scheduled"
    BY DEF Exhausted, Budget, Left, TypeOK
  <1>2. state' = [id \in Ids |-> IF id \notin jobs THEN state[id]
                                 ELSE IF Budgets[id] > 0 THEN "retry_scheduled"
                                                         ELSE "dead_lettered"]
    BY <1>1 DEF Lapse, Budgets
  <1>3. Holder' = [id \in Ids |-> IF id \in jobs THEN 0 ELSE Holder[id]]
    BY DEF Lapse, Holder
  <1>4. Budgets' = Budgets
    BY DEF Lapse, Budgets, Budget, Left
  <1>5. QED
    BY <1>2, <1>3, <1>4 DEF Lapse, Lifecycle!Lapse, Holder, Budgets

\* The holder settles its job.
LEMMA SettleStep ==
  ASSUME TypeOK, NEW w \in Workers,
         NEW outcome \in {"completed", "retry_scheduled", "dead_lettered"},
         Settle(w, outcome), outcome = "retry_scheduled" => ~Exhausted(lease[w].id)
  PROVE  \E id \in Ids : Lifecycle!Settle(id, Holder[id], outcome)
  <1> USE SqlJobsAssumption
  <1>1. FreedType(w)
    BY SettleType
  <1>2. PICK id \in Ids : id = lease[w].id
    BY <1>1 DEF FreedType, Rows
  <1>3. /\ state[id] = "leased"
        /\ state' = [state EXCEPT ![id] = outcome]
        /\ leaseToken' = [leaseToken EXCEPT ![id] = 0]
        /\ UNCHANGED <<attempt, issued>>
        /\ outcome = "retry_scheduled" => ~Exhausted(id)
    BY <1>2 DEF Settle, Holds, Release
  <1>4. outcome = "retry_scheduled" => Budgets[id] > 0
    BY <1>3 DEF Exhausted, Budgets, Budget, Left, TypeOK
  <1>5. Holder' = [Holder EXCEPT ![id] = 0]
    BY <1>3 DEF Holder, TypeOK
  <1>6. Budgets' = IF outcome = "completed" THEN [Budgets EXCEPT ![id] = 0] ELSE Budgets
    BY <1>3 DEF Budgets, Budget, Left, TypeOK
  <1>7. QED
    BY <1>3, <1>4, <1>5, <1>6 DEF Lifecycle!Settle, Holder, Budgets

\* A claim grants a fresh lease and spends an attempt that was left.
LEMMA ClaimStep ==
  ASSUME TypeOK, BudgetInv, NEW w \in Workers, LeaseClaim(w)
  PROVE  \E id \in Ids : Lifecycle!Claim(id)
  <1> USE SqlJobsAssumption
  <1>1. PICK id \in Leasable(w, stamp[w]) :
          /\ state' = [state EXCEPT ![id] = "leased"]
          /\ attempt' = [attempt EXCEPT ![id] = @ + 1]
          /\ leaseToken' = [leaseToken EXCEPT ![id] = issued + 1]
    BY DEF LeaseClaim
  <1>2. id \in Ids /\ state[id] \in {"queued", "retry_scheduled"} /\ issued' = issued + 1
    BY DEF Leasable, Rows, LeaseClaim
  <1>3. Budgets[id] > 0 /\ Budget(id)' = Budget(id) - 1
    BY <1>1, <1>2 DEF BudgetInv, Budgets, Budget, Left, TypeOK
  <1>4. Holder' = [Holder EXCEPT ![id] = issued + 1]
    BY <1>1, <1>2 DEF Holder, TypeOK
  <1>5. Budgets' = [Budgets EXCEPT ![id] = Budgets[id] - 1]
    <2>1. \A i \in Ids : i # id => Budget(i)' = Budget(i)
      BY <1>1 DEF Budget, Left, TypeOK
    <2>2. QED
      BY <1>2, <1>3, <2>1 DEF Budgets
  <1>6. QED
    BY <1>1, <1>2, <1>3, <1>4, <1>5 DEF Lifecycle!Claim, Holder, Budgets

\* An insert, a cancellation or a recovery moves one job.
LEMMA MoveStep ==
  ASSUME TypeOK, BudgetInv, NEW id \in Ids,
         NEW to \in {"queued", "cancelled"},
         to = "queued" => state[id] \in {"absent", "retry_scheduled", "dead_lettered"},
         to = "cancelled" => state[id] # "absent",
         state' = [state EXCEPT ![id] = to],
         leaseToken' = leaseToken \/ leaseToken' = [leaseToken EXCEPT ![id] = 0],
         UNCHANGED <<attempt, issued>>
  PROVE  Lifecycle!Enqueue(id) \/ Lifecycle!Cancel(id) \/ Lifecycle!Recover(id)
  <1> USE SqlJobsAssumption
  <1>1. \A i \in Ids : i # id => Budget(i)' = Budget(i)
    BY DEF Budget, Left, TypeOK
  <1>2. CASE to = "cancelled"
    <2>1. Holder' = [Holder EXCEPT ![id] = 0]
      BY <1>2 DEF Holder, TypeOK
    <2>2. Budgets' = [Budgets EXCEPT ![id] = 0]
      BY <1>1, <1>2 DEF Budgets, Budget, TypeOK
    <2>3. QED
      BY <1>2, <2>1, <2>2 DEF Lifecycle!Cancel, Holder, Budgets
  <1>3. CASE to = "queued"
    <2>1. Holder' = Holder
      BY <1>3 DEF Holder, TypeOK
    <2>2. Budget(id)' = IF Left(id) = 0 THEN 1 ELSE Left(id)
      BY <1>3 DEF Budget, Left, TypeOK
    <2>3. CASE state[id] = "absent"
      <3>1. Budget(id)' = MaxAttempts
        BY <2>2, <2>3 DEF BudgetInv, Left
      <3>2. Budgets' = [Budgets EXCEPT ![id] = MaxAttempts]
        BY <1>1, <3>1 DEF Budgets
      <3>3. QED
        BY <1>3, <2>1, <2>3, <3>2 DEF Lifecycle!Enqueue, Holder, Budgets
    <2>4. CASE state[id] # "absent"
      <3>1. Budget(id) = Left(id)
        BY <1>3, <2>4 DEF Budget
      <3>2. Budgets' = [Budgets EXCEPT ![id] = IF Budgets[id] = 0 THEN 1 ELSE Budgets[id]]
        BY <1>1, <2>2, <3>1 DEF Budgets
      <3>3. QED
        BY <1>3, <2>1, <2>4, <3>2 DEF Lifecycle!Recover, Holder, Budgets
    <2>5. QED
      BY <2>3, <2>4
  <1>4. QED
    BY <1>2, <1>3

\* A queue in which nothing was enqueued is a lifecycle in which nothing was.
LEMMA InitialStep ==
  ASSUME Init
  PROVE  Lifecycle!Init
  BY DEF Init, Lifecycle!Init, Holder, Budgets, Budget

\* Every step of the queue is a step of the lifecycle, or changes nothing of it.
LEMMA NextStep ==
  ASSUME TypeOK, BudgetInv, [Next]_vars
  PROVE  LifecycleStep
  <1> USE SqlJobsAssumption
  <1>0. ASSUME NEW jobs \in SUBSET Ids,
               NEW outcome \in {"dead_lettered", "retry_scheduled"},
               Lapse(jobs, outcome),
               \A id \in jobs : state[id] = "leased",
               \A id \in jobs : Exhausted(id) <=> outcome = "dead_lettered"
        PROVE  LifecycleStep
    <2>1. Lifecycle!Lapse(jobs)
      BY <1>0, LapseStep
    <2>2. Lifecycle!Next
      BY <2>1 DEF Lifecycle!Next
    <2>3. QED
      BY <2>2 DEF LifecycleStep
  <1>1. ASSUME NEW w \in Workers, LeaseDeadLetter(w)
        PROVE  LifecycleStep
    <2>1. PICK jobs \in SUBSET Ids : /\ Lapse(jobs, "dead_lettered")
                                     /\ \A id \in jobs : state[id] = "leased" /\ Exhausted(id)
      BY <1>1 DEF LeaseDeadLetter, ExpiredAt, Rows
    <2>2. QED
      BY <1>0, <2>1
  <1>2. ASSUME NEW w \in Workers, LeaseReclaim(w)
        PROVE  LifecycleStep
    <2>1. PICK jobs \in SUBSET Ids : /\ Lapse(jobs, "retry_scheduled")
                                     /\ \A id \in jobs : state[id] = "leased" /\ ~Exhausted(id)
      BY <1>2 DEF LeaseReclaim, ExpiredAt, Rows, BudgetInv
    <2>2. QED
      BY <1>0, <2>1
  <1>3. ASSUME NEW w \in Workers, LeaseClaim(w)
        PROVE  LifecycleStep
    BY <1>3, ClaimStep DEF LifecycleStep, Lifecycle!Next
  <1>4. ASSUME NEW w \in Workers,
               NEW outcome \in {"completed", "retry_scheduled", "dead_lettered"},
               Settle(w, outcome), outcome = "retry_scheduled" => ~Exhausted(lease[w].id)
        PROVE  LifecycleStep
    BY <1>4, SettleStep DEF LifecycleStep, Lifecycle!Next, Holder
  <1>5. ASSUME NEW w \in Workers, Complete(w) \/ DeadLetter(w)
        PROVE  LifecycleStep
    BY <1>4, <1>5 DEF Complete, DeadLetter
  <1>6. ASSUME NEW w \in Workers, NEW delay \in Delays, Retry(w, delay)
        PROVE  LifecycleStep
    BY <1>4, <1>6 DEF Retry
  <1>7. ASSUME NEW w \in Workers, LeaseNone(w) \/ LeaseLost(w) \/ Crash(w)
        PROVE  LifecycleStep
    BY <1>7, StutterStep DEF LeaseNone, LeaseLost, Crash, Release, row
  <1>8. ASSUME NEW r \in Requests, EnqueueFound(r) \/ EnqueueMissing(r)
        PROVE  LifecycleStep
    BY <1>8, StutterStep DEF EnqueueFound, EnqueueMissing, Answer, row
  <1>9. ASSUME NEW id \in Ids, Lifecycle!Enqueue(id) \/ Lifecycle!Cancel(id) \/ Lifecycle!Recover(id)
        PROVE  LifecycleStep
    BY <1>9 DEF LifecycleStep, Lifecycle!Next
  <1>10. ASSUME NEW r \in Requests, NEW delay \in Delays, EnqueueInsert(r, delay)
         PROVE  LifecycleStep
    <2>1. CASE \E id \in Ids \ Rows : Insert(r, id, delay) /\ Answer(r, id)
      <3>1. PICK id \in Ids \ Rows : Insert(r, id, delay) /\ Answer(r, id)
        BY <2>1
      <3>2. /\ state[id] = "absent" /\ state' = [state EXCEPT ![id] = "queued"]
            /\ UNCHANGED <<leaseToken, attempt, issued>>
        BY <3>1 DEF Insert, Answer, TypeOK, Rows
      <3>3. QED
        BY <1>9, <3>2, MoveStep
    <2>2. CASE (\E id \in RowOf(r) : Answer(r, id)) /\ UNCHANGED row
      BY <2>2, StutterStep DEF Answer, row
    <2>3. QED
      BY <1>10, <2>1, <2>2 DEF EnqueueInsert
  <1>11. ASSUME NEW id \in Ids, Cancel(id)
         PROVE  LifecycleStep
    <2>1. /\ state[id] # "absent" /\ state' = [state EXCEPT ![id] = "cancelled"]
          /\ UNCHANGED <<leaseToken, attempt, issued>>
      BY <1>11 DEF Cancel, TypeOK, Rows
    <2>2. QED
      BY <1>9, <2>1, MoveStep
  <1>12. ASSUME NEW id \in Ids, NEW delay \in Delays, Recover(id, delay)
         PROVE  LifecycleStep
    <2>1. /\ state[id] \in {"retry_scheduled", "dead_lettered"}
          /\ state' = [state EXCEPT ![id] = "queued"]
          /\ leaseToken' = [leaseToken EXCEPT ![id] = 0]
          /\ UNCHANGED <<attempt, issued>>
      BY <1>12 DEF Recover
    <2>2. QED
      BY <1>9, <2>1, MoveStep
  <1>13. CASE Tick \/ UNCHANGED vars
    BY <1>13, StutterStep DEF Tick, vars, row
  <1>14. QED
    BY <1>1, <1>2, <1>3, <1>5, <1>6, <1>7, <1>8, <1>10, <1>11, <1>12, <1>13
       DEF Next, Worker, Enqueue, Operator

\* The SQLite queue implements the job lifecycle: to anyone who looks at the
\* states, the holders and the budgets of the jobs, the statements of the
\* adapter are the atomic operations of JobLifecycle.
THEOREM Implements ==
  ASSUME MaxPause < LeaseDuration
  PROVE  Spec => ImplementsLifecycle
  <1>1. TypeOK /\ BudgetInv /\ [Next]_vars => [Lifecycle!Next]_(Lifecycle!vars)
    BY NextStep DEF LifecycleStep
  <1>2. QED
    BY <1>1, InitialStep, TypeCorrect, BudgetInductive, PTL
       DEF Spec, ImplementsLifecycle, Lifecycle!Spec
=============================================================================
