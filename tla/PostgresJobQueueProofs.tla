------------------------ MODULE PostgresJobQueueProofs ------------------------
(***************************************************************************)
(* Theorems about PostgresJobQueue, for any jobs, cells, keys, types,      *)
(* workers, attempt budget, lease duration, delays and transaction lengths.*)
(* AttemptsBounded is not among them: the code does not keep it.           *)
(***************************************************************************)
EXTENDS PostgresJobQueue, SqlJobsProofs

-----------------------------------------------------------------------------
(* What the lease() transaction does to the rows.                           *)

Answering(w) ==
  \/ Complete(w) \/ DeadLetter(w) \/ LeaseLost(w) \/ Crash(w)
  \/ \E delay \in Delays : Retry(w, delay)

\* The rows given back had been leased, and their leases have run out.
LEMMA ReclaimedExpired ==
  ASSUME TypeOK, NEW w \in Workers, NEW at \in Began
  PROVE  /\ at \in Nat /\ at <= now
         /\ Reclaimed(w, at) \in SUBSET Ids
         /\ \A id \in Reclaimed(w, at) :
              state[id] = "leased" /\ leaseExpiresAt[id] <= now /\ request[id] # NoRequest
  <1>1. at \in Nat /\ at <= now
    BY DEF Began, TypeOK
  <1>2. \A id \in Reclaimed(w, at) :
          /\ id \in Ids /\ request[id] # NoRequest
          /\ state[id] = "leased" /\ leaseExpiresAt[id] <= at
    BY DEF Reclaimed, ExpiredAt, Rows
  <1>3. ASSUME NEW id \in Reclaimed(w, at) PROVE leaseExpiresAt[id] <= now
    <2>1. leaseExpiresAt[id] \in Nat /\ leaseExpiresAt[id] <= at /\ now \in Nat
      BY <1>2 DEF TypeOK
    <2>2. QED
      BY <1>1, <2>1
  <1>4. QED
    BY <1>1, <1>2, <1>3

\* Rows after the transaction of a call that takes the jobs of a set.
LeasedRows(jobs, claimed, until) ==
  /\ \A id \in claimed : /\ state'[id] = "leased" /\ leaseToken'[id] = issued + 1
                         /\ leaseExpiresAt'[id] = until /\ attempt'[id] = attempt[id] + 1
  /\ \A id \in jobs \ claimed : /\ state'[id] = "retry_scheduled" /\ leaseToken'[id] = 0
                                /\ leaseExpiresAt'[id] = 0 /\ attempt'[id] = attempt[id]
  /\ \A id \in Ids \ (jobs \cup claimed) :
       /\ state'[id] = state[id] /\ leaseToken'[id] = leaseToken[id]
       /\ leaseExpiresAt'[id] = leaseExpiresAt[id] /\ attempt'[id] = attempt[id]

LEMMA RowsLeased ==
  ASSUME TypeOK, NEW w \in Workers, NEW at \in Began, NEW claimed \in SUBSET Ids,
         LeaseRows(w, at, claimed)
  PROVE  LeasedRows(Reclaimed(w, at), claimed, at + LeaseDuration)
  <1> DEFINE jobs == Reclaimed(w, at)
  <1>1. jobs \in SUBSET Ids
    BY ReclaimedExpired
  <1>2. /\ state' = [id \in Ids |-> IF id \in claimed THEN "leased"
                                    ELSE IF id \in jobs \ claimed THEN "retry_scheduled" ELSE state[id]]
        /\ leaseToken' = [id \in Ids |-> IF id \in claimed THEN issued + 1
                                         ELSE IF id \in jobs \ claimed THEN 0 ELSE leaseToken[id]]
        /\ leaseExpiresAt' = [id \in Ids |-> IF id \in claimed THEN at + LeaseDuration
                                ELSE IF id \in jobs \ claimed THEN 0 ELSE leaseExpiresAt[id]]
        /\ attempt' = [id \in Ids |-> IF id \in claimed THEN attempt[id] + 1 ELSE attempt[id]]
    BY DEF LeaseRows
  <1> HIDE DEF jobs
  <1>3. LeasedRows(jobs, claimed, at + LeaseDuration)
    BY <1>1, <1>2 DEF LeasedRows
  <1>4. QED
    BY <1>3 DEF jobs

\* The rows keep their types, and none appears or goes.
LEMMA RowsType ==
  ASSUME TypeOK, NEW w \in Workers, NEW at \in Began, NEW claimed \in SUBSET Rows,
         LeaseRows(w, at, claimed)
  PROVE  /\ request' = request
         /\ state' \in [Ids -> JobState \cup {"absent"}]
         /\ \A id \in Ids : state'[id] = "absent" <=> request[id] = NoRequest
         /\ attempt' \in [Ids -> Nat] /\ availableAt' \in [Ids -> Nat]
         /\ leaseToken' \in [Ids -> Nat] /\ leaseExpiresAt' \in [Ids -> Nat]
  <1> USE SqlJobsAssumption
  <1> DEFINE jobs == Reclaimed(w, at)
  <1>0. claimed \in SUBSET Ids
    BY DEF Rows
  <1>1. /\ at \in Nat /\ jobs \in SUBSET Ids
        /\ \A id \in jobs : state[id] = "leased" /\ request[id] # NoRequest
    BY ReclaimedExpired
  <1>2. LeasedRows(jobs, claimed, at + LeaseDuration)
    BY <1>0, RowsLeased
  <1>3. /\ request' = request
        /\ DOMAIN state' = Ids /\ DOMAIN leaseToken' = Ids /\ DOMAIN leaseExpiresAt' = Ids
        /\ state' = [id \in Ids |-> state'[id]] /\ leaseToken' = [id \in Ids |-> leaseToken'[id]]
        /\ leaseExpiresAt' = [id \in Ids |-> leaseExpiresAt'[id]]
        /\ attempt' = [id \in Ids |-> attempt'[id]]
        /\ availableAt' = [id \in Ids |-> IF id \in jobs THEN at ELSE availableAt[id]]
    BY DEF LeaseRows, DueAt
  <1> HIDE DEF jobs
  <1>4. \A id \in claimed : request[id] # NoRequest
    BY DEF Rows
  <1>5. \A id \in Ids : /\ state'[id] \in JobState \cup {"absent"}
                        /\ state'[id] = "absent" <=> request[id] = NoRequest
    BY <1>1, <1>2, <1>4 DEF LeasedRows, TypeOK, JobState
  <1>6. \A id \in Ids : attempt'[id] \in Nat /\ leaseToken'[id] \in Nat /\ leaseExpiresAt'[id] \in Nat
    BY <1>1, <1>2 DEF LeasedRows, TypeOK
  <1>7. availableAt' \in [Ids -> Nat]
    BY <1>1, <1>3 DEF TypeOK
  <1>8. QED
    BY <1>3, <1>5, <1>6, <1>7

\* The job a call takes: any of the unlocked candidates that comes first.
LEMMA TakenOne ==
  ASSUME TypeOK, NEW w \in Workers, NEW at \in Began, NEW free \in SUBSET Candidates(w, at),
         LeaseTaken(w, at, free)
  PROVE  \E id \in Rows :
           /\ InScope(w, id)
           /\ state[id] \in {"queued", "retry_scheduled"} \/ id \in Reclaimed(w, at)
           /\ LeaseRows(w, at, {id})
           /\ lease' = [lease EXCEPT ![w] =
                [id |-> id, token |-> issued + 1, until |-> at + LeaseDuration]]
  BY DEF LeaseTaken, Candidates

-----------------------------------------------------------------------------
(* Type correctness.                                                        *)

\* Rows, workers and history keep their types in every behaviour.
THEOREM TypeCorrect == Spec => []TypeOK
  <1> USE SqlJobsAssumption, NoLeaseAssumption
  <1>1. Init => TypeOK
    BY DEF Init, TypeOK, JobState
  <1>2. TypeOK /\ [Next]_vars => TypeOK'
    <2> SUFFICES ASSUME TypeOK, [Next]_vars PROVE TypeOK'
      OBVIOUS
    <2>1. ASSUME NEW w \in Workers, NEW at \in Began, NEW free \in SUBSET Candidates(w, at),
                 LeaseTaken(w, at, free)
          PROVE  TypeOK'
      <3>1. PICK id \in Rows : /\ LeaseRows(w, at, {id})
                               /\ lease' = [lease EXCEPT ![w] =
                                    [id |-> id, token |-> issued + 1, until |-> at + LeaseDuration]]
        BY <2>1, TakenOne
      <3>2. at \in Nat /\ id \in Ids
        BY ReclaimedExpired DEF Rows
      <3>3. [id |-> id, token |-> issued + 1, until |-> at + LeaseDuration] \in Lease
        BY <3>2 DEF TypeOK, Lease
      <3>4. {id} \in SUBSET Rows
        OBVIOUS
      <3>5. /\ request' = request
            /\ state' \in [Ids -> JobState \cup {"absent"}]
            /\ \A i \in Ids : state'[i] = "absent" <=> request[i] = NoRequest
            /\ attempt' \in [Ids -> Nat] /\ availableAt' \in [Ids -> Nat]
            /\ leaseToken' \in [Ids -> Nat] /\ leaseExpiresAt' \in [Ids -> Nat]
        BY <3>1, <3>4, RowsType
      <3>6. /\ issued' = issued + 1 /\ pc' = [pc EXCEPT ![w] = "work"]
            /\ UNCHANGED <<now, stamp, asked, answers, recoveries, completions>>
        BY <2>1 DEF LeaseTaken, history
      <3>7. /\ lease' \in [Workers -> Lease \cup {NoLease}] /\ lease'[w] # NoLease
            /\ \A v \in Workers : v # w => lease'[v] = lease[v]
        BY <3>1, <3>3 DEF TypeOK
      <3>8. /\ pc' \in [Workers -> {"idle", "reclaim", "claim", "work"}]
            /\ \A v \in Workers : pc'[v] = "work" <=> lease'[v] # NoLease
        BY <3>6, <3>7 DEF TypeOK
      <3>9. /\ now' \in Nat /\ issued' \in Nat /\ stamp' \in [Workers -> Nat]
            /\ asked' \subseteq Requests /\ answers' \in [Requests -> SUBSET Ids]
            /\ recoveries' \in [Ids -> Nat] /\ completions' \in [Ids -> Nat]
        BY <3>6 DEF TypeOK
      <3>10. QED
        BY <3>5, <3>7, <3>8, <3>9 DEF TypeOK
    <2>2. ASSUME NEW w \in Workers, NEW at \in Began, NEW free \in SUBSET Candidates(w, at),
                 LeaseNone(w, at, free)
          PROVE  TypeOK'
      <3>1. LeaseRows(w, at, {}) /\ {} \in SUBSET Rows
            /\ UNCHANGED <<now, issued, pc, stamp, lease, asked, answers, recoveries, completions>>
        BY <2>2 DEF LeaseNone, history
      <3>2. /\ request' = request
            /\ state' \in [Ids -> JobState \cup {"absent"}]
            /\ \A i \in Ids : state'[i] = "absent" <=> request[i] = NoRequest
            /\ attempt' \in [Ids -> Nat] /\ availableAt' \in [Ids -> Nat]
            /\ leaseToken' \in [Ids -> Nat] /\ leaseExpiresAt' \in [Ids -> Nat]
        BY <3>1, RowsType
      <3>3. QED
        BY <3>1, <3>2 DEF TypeOK
    <2>3. ASSUME NEW w \in Workers, Answering(w) PROVE TypeOK'
      BY <2>3, AnswerType DEF Answering
    <2>4. ASSUME NEW r \in Requests, NEW delay \in Delays, Enqueue(r, delay) PROVE TypeOK'
      <3>1. CASE UNCHANGED row /\ \E id \in Rows : answers' = [answers EXCEPT ![r] = @ \cup {id}]
        BY <2>4, <3>1 DEF Enqueue, TypeOK, Rows, row
      <3>2. ASSUME NEW id \in Ids \ Rows,
                   /\ request' = [request EXCEPT ![id] = r]
                   /\ state' = [state EXCEPT ![id] = "queued"]
                   /\ availableAt' = [availableAt EXCEPT ![id] = now + delay]
                   /\ answers' = [answers EXCEPT ![r] = @ \cup {id}],
                   UNCHANGED <<attempt, leaseToken, leaseExpiresAt>>
            PROVE  TypeOK'
        <4>1. now + delay \in Nat
          BY DEF TypeOK
        <4>2. UNCHANGED <<now, issued, pc, stamp, lease, asked, recoveries, completions>>
          BY <2>4 DEF Enqueue
        <4>3. QED
          BY <3>2, <4>1, <4>2 DEF TypeOK, Rows, JobState
      <3>3. QED
        BY <2>4, <3>1, <3>2 DEF Enqueue
    <2>5. ASSUME NEW id \in Ids, Cancel(id) \/ \E delay \in Delays : Recover(id, delay)
          PROVE  TypeOK'
      BY <2>5, OperatorType
    <2>6. CASE Tick \/ UNCHANGED vars
      BY <2>6 DEF Tick, vars, row, history, TypeOK
    <2>7. QED
      BY <2>1, <2>2, <2>3, <2>4, <2>5, <2>6 DEF Next, LeaseCall, Worker, Answering
  <1>3. QED
    BY <1>1, <1>2, PTL DEF Spec

-----------------------------------------------------------------------------
(* Fencing.                                                                 *)

LEMMA FenceTaken ==
  ASSUME TypeOK, TypeOK', FenceInv, NEW w \in Workers, NEW at \in Began,
         NEW free \in SUBSET Candidates(w, at), LeaseTaken(w, at, free)
  PROVE  FenceInv'
  <1> USE SqlJobsAssumption
  <1> DEFINE until == at + LeaseDuration
             jobs == Reclaimed(w, at)
  <1>1. PICK id \in Rows :
          /\ state[id] \in {"queued", "retry_scheduled"} \/ id \in jobs
          /\ LeaseRows(w, at, {id})
          /\ lease' = [lease EXCEPT ![w] = [id |-> id, token |-> issued + 1, until |-> until]]
    BY TakenOne
  <1>2. id \in Ids /\ {id} \in SUBSET Ids
    BY DEF Rows
  <1>3. LeasedRows(jobs, {id}, until)
    BY <1>1, <1>2, RowsLeased
  <1>4. /\ at \in Nat /\ jobs \in SUBSET Ids
        /\ \A i \in jobs : state[i] = "leased" /\ leaseExpiresAt[i] <= now
    BY ReclaimedExpired
  <1>5. until \in Nat
    BY <1>4
  <1>6. /\ pc[w] # "work" /\ pc' = [pc EXCEPT ![w] = "work"]
        /\ issued' = issued + 1 /\ now' = now /\ stamp' = stamp
    BY DEF LeaseTaken
  <1> HIDE DEF jobs, until
  <1>7. \A i \in jobs \ {id} : state'[i] # "leased" /\ leaseToken'[i] <= issued
    BY <1>3 DEF LeasedRows, TypeOK
  <1>8. /\ state'[id] = "leased" /\ leaseToken'[id] = issued + 1 /\ leaseExpiresAt'[id] = until
        /\ \A i \in Ids \ (jobs \cup {id}) : /\ state'[i] = state[i] /\ leaseToken'[i] = leaseToken[i]
                                             /\ leaseExpiresAt'[i] = leaseExpiresAt[i]
    BY <1>3 DEF LeasedRows
  <1>9. QED
    BY <1>1, <1>2, <1>4, <1>5, <1>6, <1>7, <1>8, FenceTake

LEMMA FenceNone ==
  ASSUME TypeOK, TypeOK', FenceInv, NEW w \in Workers, NEW at \in Began,
         NEW free \in SUBSET Candidates(w, at), LeaseNone(w, at, free)
  PROVE  FenceInv'
  <1> DEFINE jobs == Reclaimed(w, at)
  <1>1. LeaseRows(w, at, {}) /\ {} \in SUBSET Ids /\ UNCHANGED <<now, issued, pc, stamp, lease>>
    BY DEF LeaseNone
  <1>2. LeasedRows(jobs, {}, at + LeaseDuration)
    BY <1>1, RowsLeased
  <1>3. /\ jobs \in SUBSET Ids
        /\ \A i \in jobs : state[i] = "leased" /\ leaseExpiresAt[i] <= now
    BY ReclaimedExpired
  <1> HIDE DEF jobs
  <1>4. /\ \A i \in jobs : state'[i] # "leased" /\ leaseToken'[i] <= issued
        /\ \A i \in Ids \ jobs : /\ state'[i] = state[i] /\ leaseToken'[i] = leaseToken[i]
                                 /\ leaseExpiresAt'[i] = leaseExpiresAt[i]
    BY <1>2 DEF LeasedRows, TypeOK
  <1>5. \A v \in Workers : stamp'[v] <= now
    BY <1>1 DEF FenceInv, TokensFence
  <1>6. QED
    BY <1>1, <1>3, <1>4, <1>5, FenceLapse

LEMMA FenceInductive == Spec => []FenceInv
  <1>1. Init => FenceInv
    BY DEF Init, FenceInv, TokensFence, LiveLeaseKept, LiveLeasesDisjoint, Live, Working
  <1>2. TypeOK /\ TypeOK' /\ FenceInv /\ [Next]_vars => FenceInv'
    <2> SUFFICES ASSUME TypeOK, TypeOK', FenceInv, [Next]_vars PROVE FenceInv'
      OBVIOUS
    <2>1. ASSUME NEW w \in Workers, LeaseCall(w) PROVE FenceInv'
      BY <2>1, FenceTaken, FenceNone DEF LeaseCall
    <2>2. ASSUME NEW w \in Workers, Answering(w) PROVE FenceInv'
      BY <2>2, FenceAnswer DEF Answering
    <2>3. ASSUME NEW r \in Requests, NEW delay \in Delays, Enqueue(r, delay) PROVE FenceInv'
      <3>1. UNCHANGED <<leaseToken, leaseExpiresAt, now, issued, pc, stamp, lease>>
        BY <2>3 DEF Enqueue, row
      <3>2. CASE UNCHANGED state
        BY <3>1, <3>2, FenceIdle DEF FenceInv, TokensFence, TypeOK
      <3>3. CASE \E id \in Ids \ Rows : state' = [state EXCEPT ![id] = "queued"]
        <4>1. PICK id \in Ids : state[id] = "absent" /\ state' = [state EXCEPT ![id] = "queued"]
          BY <3>3 DEF Rows, TypeOK
        <4>2. QED
          BY <3>1, <4>1, FenceUnleased
      <3>4. QED
        BY <2>3, <3>2, <3>3 DEF Enqueue, row
    <2>4. ASSUME NEW id \in Ids, Cancel(id) \/ \E delay \in Delays : Recover(id, delay)
          PROVE  FenceInv'
      BY <2>4, FenceOperator
    <2>5. CASE Tick
      <3>1. now' = now + 1 /\ UNCHANGED <<state, leaseToken, leaseExpiresAt, issued, lease, pc, stamp>>
        BY <2>5 DEF Tick, row
      <3>2. \A w \in Workers : stamp'[w] <= now'
        BY <3>1 DEF FenceInv, TokensFence, TypeOK
      <3>3. QED
        BY <3>1, <3>2, FenceIdle DEF TypeOK
    <2>6. CASE UNCHANGED vars
      BY <2>6, FenceIdle DEF vars, row, FenceInv, TokensFence, TypeOK
    <2>7. QED
      BY <2>1, <2>2, <2>3, <2>4, <2>5, <2>6 DEF Next, Worker, Answering
  <1>3. QED
    BY <1>1, <1>2, TypeCorrect, PTL DEF Spec

\* While a lease has not run out its row carries its token, or was cancelled,
\* however far the time of another worker's transaction is behind the clock.
THEOREM LeaseKept == Spec => []LiveLeaseKept
  <1>1. FenceInv => LiveLeaseKept
    BY DEF FenceInv
  <1>2. QED
    BY <1>1, FenceInductive, PTL

\* Two workers never both hold a live lease of one row.
THEOREM Fencing == Spec => []LiveLeasesDisjoint
  <1>1. FenceInv => LiveLeasesDisjoint
    BY DEF FenceInv
  <1>2. QED
    BY <1>1, FenceInductive, PTL

-----------------------------------------------------------------------------
(* Ends are final, and a key has one job.                                   *)

LEMMA EndsFinal ==
  ASSUME TypeOK, [Next]_vars
  PROVE  EndsKept
  <1>1. ASSUME NEW w \in Workers, LeaseCall(w) PROVE EndsKept
    <2>1. PICK at \in Began : \E free \in SUBSET Candidates(w, at) :
            LeaseTaken(w, at, free) \/ LeaseNone(w, at, free)
      BY <1>1 DEF LeaseCall
    <2> DEFINE jobs == Reclaimed(w, at)
    <2>2. PICK claimed \in SUBSET Ids :
            /\ LeaseRows(w, at, claimed) /\ UNCHANGED completions
            /\ \A id \in claimed : state[id] \in {"queued", "retry_scheduled"} \/ id \in jobs
      <3>1. PICK free \in SUBSET Candidates(w, at) :
              LeaseTaken(w, at, free) \/ LeaseNone(w, at, free)
        BY <2>1
      <3>2. CASE LeaseTaken(w, at, free)
        <4>1. PICK id \in Rows : /\ state[id] \in {"queued", "retry_scheduled"} \/ id \in jobs
                                 /\ LeaseRows(w, at, {id})
          BY <3>2, TakenOne
        <4>2. {id} \in SUBSET Ids
          BY DEF Rows
        <4>3. QED
          BY <3>2, <4>1, <4>2 DEF LeaseTaken, history
      <3>3. CASE LeaseNone(w, at, free)
        <4>1. LeaseRows(w, at, {}) /\ {} \in SUBSET Ids /\ UNCHANGED completions
          BY <3>3 DEF LeaseNone, history
        <4>2. QED
          BY <4>1
      <3>4. QED
        BY <3>1, <3>2, <3>3
    <2>3. LeasedRows(jobs, claimed, at + LeaseDuration)
      BY <2>2, RowsLeased
    <2>4. \A id \in jobs : state[id] = "leased"
      BY ReclaimedExpired
    <2> HIDE DEF jobs
    <2>5. \A id \in Ids : state'[id] # state[id] =>
            state[id] \in {"queued", "retry_scheduled", "leased"}
      BY <2>2, <2>3, <2>4 DEF LeasedRows
    <2>6. QED
      BY <2>2, <2>5 DEF EndsKept
  <1>2. ASSUME NEW w \in Workers, Answering(w) PROVE EndsKept
    BY <1>2, EndsAnswer DEF Answering
  <1>3. ASSUME NEW r \in Requests, NEW delay \in Delays, Enqueue(r, delay) PROVE EndsKept
    <2>1. CASE UNCHANGED <<state, completions>>
      BY <2>1 DEF EndsKept
    <2>2. ASSUME NEW id \in Ids \ Rows, state' = [state EXCEPT ![id] = "queued"],
                 UNCHANGED completions
          PROVE  EndsKept
      BY <2>2 DEF EndsKept, Rows, TypeOK
    <2>3. QED
      BY <1>3, <2>1, <2>2 DEF Enqueue, row
  <1>4. ASSUME NEW id \in Ids, Cancel(id) \/ \E delay \in Delays : Recover(id, delay)
        PROVE  EndsKept
    BY <1>4, EndsOperator
  <1>5. CASE Tick \/ UNCHANGED vars
    BY <1>5 DEF EndsKept, Tick, vars, row, history
  <1>6. QED
    BY <1>1, <1>2, <1>3, <1>4, <1>5 DEF Next, Worker, Answering

\* A job is completed at most once, and stays completed or cancelled.
THEOREM OneCompletion == Spec => []CompletedOnce
  <1>1. Init => CompletedOnce
    BY DEF Init, CompletedOnce
  <1>2. TypeOK /\ CompletedOnce /\ [Next]_vars => CompletedOnce'
    BY EndsFinal, EndsOnce
  <1>3. QED
    BY <1>1, <1>2, TypeCorrect, PTL DEF Spec

\* No reclaim, late answer or recovery revives a finished job.
THEOREM EndsStand == Spec => NeverRevived
  <1>1. TypeOK /\ [Next]_vars => [NoneRevived]_vars
    BY EndsFinal, EndsNotRevived
  <1>2. QED
    BY <1>1, TypeCorrect, PTL DEF Spec, NeverRevived

\* Two callers that upsert one key at the same time are answered with one job.
THEOREM OneJobPerKey == Spec => []EnqueueIdempotent
  <1>1. Init => KeysInv
    BY DEF Init, KeysInv, Rows
  <1>2. TypeOK /\ KeysInv /\ [Next]_vars => KeysInv'
    <2> SUFFICES ASSUME TypeOK, KeysInv, [Next]_vars PROVE KeysInv'
      OBVIOUS
    <2>1. CASE UNCHANGED <<request, answers>>
      BY <2>1, KeysIdle
    <2>2. ASSUME NEW r \in Requests, NEW delay \in Delays, Enqueue(r, delay) PROVE KeysInv'
      <3>1. ASSUME NEW id \in Rows, SameKey(request[id], r), UNCHANGED row,
                   answers' = [answers EXCEPT ![r] = @ \cup {id}]
            PROVE  KeysInv'
        BY <3>1, KeysAnswer DEF row
      <3>2. ASSUME {id \in Rows : SameKey(request[id], r)} = {}, NEW id \in Ids \ Rows,
                   request' = [request EXCEPT ![id] = r],
                   answers' = [answers EXCEPT ![r] = @ \cup {id}]
            PROVE  KeysInv'
        BY <3>2, KeysInsert
      <3>3. QED
        BY <2>2, <3>1, <3>2 DEF Enqueue
    <2>3. ASSUME NEW w \in Workers, LeaseCall(w) \/ Answering(w) PROVE UNCHANGED <<request, answers>>
      BY <2>3, KeysWorker DEF LeaseCall, LeaseTaken, LeaseNone, LeaseRows, Answering, history
    <2>4. ASSUME NEW id \in Ids, Cancel(id) \/ \E delay \in Delays : Recover(id, delay)
          PROVE  UNCHANGED <<request, answers>>
      BY <2>4, KeysOperator
    <2>5. CASE Tick \/ UNCHANGED vars
      BY <2>1, <2>5 DEF Tick, vars, row, history
    <2>6. QED
      BY <2>1, <2>2, <2>3, <2>4, <2>5 DEF Next, Worker, Answering
  <1>3. QED
    BY <1>1, <1>2, KeysIdempotent, TypeCorrect, PTL DEF Spec
=============================================================================
