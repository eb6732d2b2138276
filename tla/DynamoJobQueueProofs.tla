------------------------ MODULE DynamoJobQueueProofs ------------------------
(***************************************************************************)
(* Theorems about DynamoJobQueue, for any jobs, cells, keys, types,        *)
(* workers, attempt budget, lease duration, delays and page size.          *)
(***************************************************************************)
EXTENDS DynamoJobQueue, SqlJobsProofs

-----------------------------------------------------------------------------
(* What a step of lease() does.                                             *)

\* The item a claim takes, and the columns it leaves in it.
Claimed(w, c) ==
  /\ c \in seen[w] /\ c.id \in Ids
  /\ pc[w] = "claim" /\ Claimable(w, c)
  /\ state' = [state EXCEPT ![c.id] = "leased"]
  /\ attempt' = [attempt EXCEPT ![c.id] = @ + 1]
  /\ leaseToken' = [leaseToken EXCEPT ![c.id] = issued + 1]
  /\ leaseExpiresAt' = [leaseExpiresAt EXCEPT ![c.id] = stamp[w] + LeaseDuration]
  /\ lease' = [lease EXCEPT ![w] =
       [id |-> c.id, token |-> issued + 1, until |-> stamp[w] + LeaseDuration]]
  /\ issued' = issued + 1
  /\ pc' = [pc EXCEPT ![w] = "work"]
  /\ revision' = [revision EXCEPT ![c.id] = @ + 1]
  /\ seen' = [seen EXCEPT ![w] = {}]
  /\ UNCHANGED <<request, availableAt, now, stamp, asked, answers, recoveries, completions>>

LEMMA ClaimTakes ==
  ASSUME DynamoTypeOK, NEW w \in Workers, LeaseClaim(w)
  PROVE  \E c \in seen[w] : Claimed(w, c)
  BY DEF LeaseClaim, Claimed, Written, Claimable, InScope, Rows, history

\* The expired item of a spent job, which lease() ends.
Ended(w, c) ==
  /\ c \in seen[w] /\ c.id \in Ids
  /\ pc[w] = "claim" /\ Spent(w, c)
  /\ state' = [state EXCEPT ![c.id] = "dead_lettered"]
  /\ leaseExpiresAt' = [leaseExpiresAt EXCEPT ![c.id] = 0]
  /\ revision' = [revision EXCEPT ![c.id] = @ + 1]
  /\ seen' = [seen EXCEPT ![w] = @ \ {c}]
  /\ UNCHANGED <<request, attempt, availableAt, leaseToken, now, issued, pc, stamp,
                 lease, asked, answers, recoveries, completions>>

LEMMA DeadLetterEnds ==
  ASSUME DynamoTypeOK, NEW w \in Workers, LeaseDeadLetter(w)
  PROVE  \E c \in seen[w] : Ended(w, c)
  BY DEF LeaseDeadLetter, Ended, Written, Spent, InScope, Rows, history

Answering(w) ==
  \/ Complete(w) \/ DeadLetter(w) \/ LeaseLost(w) \/ Crash(w)
  \/ \E delay \in Delays : Retry(w, delay)

\* A worker's answer is one of SqlJobs, on the revision it read.
LEMMA AnswerIsSql ==
  ASSUME NEW w \in Workers,
         \/ AwsComplete(w) \/ AwsDeadLetter(w) \/ AwsLeaseLost(w) \/ AwsCrash(w)
         \/ \E delay \in Delays : AwsRetry(w, delay)
  PROVE  Answering(w)
  BY DEF Answering, AwsComplete, AwsDeadLetter, AwsLeaseLost, AwsCrash, AwsRetry

-----------------------------------------------------------------------------
(* Type correctness.                                                        *)

LEMMA ItemWritten ==
  ASSUME DynamoTypeOK, NEW id \in Ids, revision' = [revision EXCEPT ![id] = @ + 1]
  PROVE  revision' \in [Ids -> Nat]
  BY DEF DynamoTypeOK

LEMMA PageRead ==
  ASSUME DynamoTypeOK, NEW w \in Workers,
         \/ seen' = [seen EXCEPT ![w] = {}]
         \/ \E c : seen' = [seen EXCEPT ![w] = @ \ {c}]
  PROVE  seen' \in [Workers -> SUBSET [id : Ids, rev : Nat]]
  <1>1. ASSUME NEW left \in SUBSET [id : Ids, rev : Nat], seen' = [seen EXCEPT ![w] = left]
        PROVE  seen' \in [Workers -> SUBSET [id : Ids, rev : Nat]]
    BY <1>1 DEF DynamoTypeOK
  <1>2. seen[w] \in SUBSET [id : Ids, rev : Nat]
    BY DEF DynamoTypeOK
  <1>3. \A c : seen[w] \ {c} \in SUBSET [id : Ids, rev : Nat]
    BY <1>2
  <1>4. {} \in SUBSET [id : Ids, rev : Nat]
    OBVIOUS
  <1>5. QED
    BY <1>1, <1>3, <1>4

\* Items, workers and the candidates of the calls under way keep their types.
THEOREM TypeCorrect == DynamoSpec => []DynamoTypeOK
  <1> USE SqlJobsAssumption, NoLeaseAssumption, DynamoAssumption
  <1>1. DynamoInit => DynamoTypeOK
    BY DEF DynamoInit, Init, DynamoTypeOK, TypeOK, JobState
  <1>2. DynamoTypeOK /\ [Next]_dynamoVars => DynamoTypeOK'
    <2> SUFFICES ASSUME DynamoTypeOK, [Next]_dynamoVars PROVE DynamoTypeOK'
      OBVIOUS
    <2>0. TypeOK
      BY DEF DynamoTypeOK
    <2>1. ASSUME NEW w \in Workers, LeaseList(w) PROVE DynamoTypeOK'
      <3>1. PICK page \in SUBSET Page :
              seen' = [seen EXCEPT ![w] = {[id |-> id, rev |-> revision[id]] : id \in page}]
        BY <2>1 DEF LeaseList
      <3>2. {[id |-> id, rev |-> revision[id]] : id \in page} \in SUBSET [id : Ids, rev : Nat]
        <4>1. \A id \in page : [id |-> id, rev |-> revision[id]] \in [id : Ids, rev : Nat]
          BY DEF DynamoTypeOK, Page, Rows
        <4>2. QED
          BY <4>1
      <3>3. seen' \in [Workers -> SUBSET [id : Ids, rev : Nat]]
        BY <3>1, <3>2 DEF DynamoTypeOK
      <3>4. TypeOK' /\ UNCHANGED revision
        BY <2>0, <2>1 DEF LeaseList, TypeOK, row, history
      <3>5. QED
        BY <3>3, <3>4 DEF DynamoTypeOK
    <2>2. ASSUME NEW w \in Workers, LeaseDeadLetter(w) PROVE DynamoTypeOK'
      <3>1. PICK c \in seen[w] : Ended(w, c)
        BY <2>2, DeadLetterEnds
      <3>2. state[c.id] = "leased" /\ request[c.id] # NoRequest
        BY <3>1, <2>0 DEF Ended, Spent, Expired, TypeOK
      <3>3. TypeOK'
        BY <2>0, <3>1, <3>2 DEF Ended, TypeOK, JobState
      <3>4. revision' \in [Ids -> Nat]
        BY <3>1, ItemWritten DEF Ended
      <3>5. seen' \in [Workers -> SUBSET [id : Ids, rev : Nat]]
        BY <3>1, PageRead DEF Ended
      <3>6. QED
        BY <3>3, <3>4, <3>5 DEF DynamoTypeOK
    <2>3. ASSUME NEW w \in Workers, LeaseClaim(w) PROVE DynamoTypeOK'
      <3>1. PICK c \in seen[w] : Claimed(w, c)
        BY <2>3, ClaimTakes
      <3>2. request[c.id] # NoRequest
        BY <3>1 DEF Claimed, Claimable, InScope, Rows
      <3>3. [id |-> c.id, token |-> issued + 1, until |-> stamp[w] + LeaseDuration] \in Lease
        BY <2>0, <3>1 DEF Claimed, TypeOK, Lease
      <3>4. TypeOK'
        <4>1. PICK id \in Ids : id = c.id
          BY <3>1 DEF Claimed
        <4>2. stamp[w] + LeaseDuration \in Nat
          BY <2>0 DEF TypeOK
        <4>3. /\ state' = [state EXCEPT ![id] = "leased"]
              /\ attempt' = [attempt EXCEPT ![id] = @ + 1]
              /\ leaseToken' = [leaseToken EXCEPT ![id] = issued + 1]
              /\ leaseExpiresAt' = [leaseExpiresAt EXCEPT ![id] = stamp[w] + LeaseDuration]
              /\ request[id] # NoRequest
          BY <3>1, <3>2, <4>1 DEF Claimed
        <4>4. lease' \in [Workers -> Lease \cup {NoLease}] /\ lease'[w] # NoLease
              /\ \A v \in Workers : v # w => lease'[v] = lease[v]
          BY <2>0, <3>1, <3>3 DEF Claimed, TypeOK
        <4>5. /\ pc' = [pc EXCEPT ![w] = "work"] /\ issued' = issued + 1
              /\ UNCHANGED <<request, availableAt, now, stamp, asked, answers, recoveries, completions>>
          BY <3>1 DEF Claimed
        <4>6. /\ state' \in [Ids -> JobState \cup {"absent"}]
              /\ attempt' \in [Ids -> Nat]
              /\ leaseToken' \in [Ids -> Nat]
              /\ leaseExpiresAt' \in [Ids -> Nat]
          <5>1. state' \in [Ids -> JobState \cup {"absent"}]
            BY <2>0, <4>3 DEF TypeOK, JobState
          <5>2. attempt' \in [Ids -> Nat]
            BY <2>0, <4>3 DEF TypeOK
          <5>3. leaseToken' \in [Ids -> Nat]
            BY <2>0, <4>3 DEF TypeOK
          <5>4. leaseExpiresAt' \in [Ids -> Nat]
            BY <2>0, <4>2, <4>3 DEF TypeOK
          <5>5. QED
            BY <5>1, <5>2, <5>3, <5>4
        <4>7. \A i \in Ids : state'[i] = "absent" <=> request'[i] = NoRequest
          BY <2>0, <4>3, <4>5 DEF TypeOK
        <4>8. /\ pc' \in [Workers -> {"idle", "reclaim", "claim", "work"}]
              /\ \A v \in Workers : pc'[v] = "work" <=> lease'[v] # NoLease
          BY <2>0, <4>4, <4>5 DEF TypeOK
        <4>9. QED
          BY <2>0, <4>4, <4>5, <4>6, <4>7, <4>8 DEF TypeOK
      <3>5. revision' \in [Ids -> Nat]
        BY <3>1, ItemWritten DEF Claimed
      <3>6. seen' \in [Workers -> SUBSET [id : Ids, rev : Nat]]
        BY <3>1, PageRead DEF Claimed
      <3>7. QED
        BY <3>4, <3>5, <3>6 DEF DynamoTypeOK
    <2>4. ASSUME NEW w \in Workers, LeasePass(w) PROVE DynamoTypeOK'
      BY <2>0, <2>4 DEF LeasePass, DynamoTypeOK, TypeOK, vars, row, history
    <2>5. ASSUME NEW w \in Workers, LeaseNone(w) PROVE DynamoTypeOK'
      BY <2>0, <2>5 DEF LeaseNone, DynamoTypeOK, TypeOK, row, history
    <2>6. ASSUME NEW w \in Workers,
                 \/ AwsComplete(w) \/ AwsDeadLetter(w) \/ AwsLeaseLost(w) \/ AwsCrash(w)
                 \/ \E delay \in Delays : AwsRetry(w, delay)
          PROVE  DynamoTypeOK'
      <3>1. TypeOK'
        BY <2>0, <2>6, AnswerIsSql, AnswerType DEF Answering
      <3>2. revision' \in [Ids -> Nat]
        BY <2>6 DEF AwsComplete, AwsDeadLetter, AwsLeaseLost, AwsCrash, AwsRetry, Written,
           DynamoTypeOK
      <3>3. seen' \in [Workers -> SUBSET [id : Ids, rev : Nat]]
        BY <2>6 DEF AwsComplete, AwsDeadLetter, AwsLeaseLost, AwsCrash, AwsRetry, DynamoTypeOK
      <3>4. QED
        BY <3>1, <3>2, <3>3 DEF DynamoTypeOK
    <2>7. ASSUME NEW r \in Requests, EnqueueFound(r) PROVE DynamoTypeOK'
      BY <2>0, <2>7 DEF EnqueueFound, DynamoTypeOK, TypeOK, row, history
    <2>8. ASSUME NEW r \in Requests, EnqueueMissing(r) PROVE DynamoTypeOK'
      BY <2>0, <2>8 DEF EnqueueMissing, DynamoTypeOK, TypeOK, row, history
    <2>9. ASSUME NEW r \in Requests, NEW delay \in Delays, EnqueueCreate(r, delay)
          PROVE  DynamoTypeOK'
      <3>1. PICK id \in Ids : id = IdOf[r]
        OBVIOUS
      <3>2. CASE id \in Rows
        BY <2>0, <2>9, <3>1, <3>2 DEF EnqueueCreate, DynamoTypeOK, TypeOK, row
      <3>3. CASE id \notin Rows
        <4>1. Put(r, delay)
          BY <2>9, <3>1, <3>3 DEF EnqueueCreate
        <4>2. now + delay \in Nat
          BY <2>0 DEF TypeOK
        <4>3. TypeOK'
          BY <2>0, <2>9, <3>1, <4>1, <4>2 DEF Put, EnqueueCreate, TypeOK, JobState
        <4>4. revision' \in [Ids -> Nat] /\ UNCHANGED seen
          BY <2>9, <4>1 DEF Put, EnqueueCreate, DynamoTypeOK
        <4>5. QED
          BY <4>3, <4>4 DEF DynamoTypeOK
      <3>4. QED
        BY <3>2, <3>3
    <2>10. ASSUME NEW id \in Ids, AwsCancel(id) PROVE DynamoTypeOK'
      <3>1. TypeOK'
        BY <2>0, <2>10 DEF AwsCancel, TypeOK, Rows, JobState, history
      <3>2. QED
        BY <2>10, <3>1 DEF AwsCancel, Written, DynamoTypeOK
    <2>11. ASSUME NEW id \in Ids, NEW delay \in Delays, AwsRecover(id, delay)
           PROVE  DynamoTypeOK'
      <3>1. TypeOK'
        BY <2>0, <2>11, OperatorType DEF AwsRecover
      <3>2. QED
        BY <2>11, <3>1 DEF AwsRecover, Written, DynamoTypeOK
    <2>12. CASE Tick \/ UNCHANGED dynamoVars
      BY <2>0, <2>12 DEF Tick, dynamoVars, vars, DynamoTypeOK, TypeOK, row, history
    <2>13. QED
      BY <2>1, <2>2, <2>3, <2>4, <2>5, <2>6, <2>7, <2>8, <2>9, <2>10, <2>11, <2>12
         DEF Next, Worker, Enqueue
  <1>3. QED
    BY <1>1, <1>2, PTL DEF DynamoSpec

-----------------------------------------------------------------------------
(* Fencing.                                                                 *)

\* A claim takes a job that waits or whose lease had run out when the call began.
LEMMA FenceClaimed ==
  ASSUME DynamoTypeOK, TypeOK', FenceInv, NEW w \in Workers, NEW c \in seen[w], Claimed(w, c)
  PROVE  FenceInv'
  <1> USE SqlJobsAssumption
  <1> DEFINE until == stamp[w] + LeaseDuration
  <1>0. TypeOK
    BY DEF DynamoTypeOK
  <1>1. PICK id \in Ids : id = c.id
    BY DEF Claimed
  <1>2. \/ state[id] = "leased" /\ leaseExpiresAt[id] <= stamp[w]
        \/ state[id] \in {"queued", "retry_scheduled"}
    BY <1>1 DEF Claimed, Claimable, Expired, Available
  <1>3. /\ state'[id] = "leased" /\ leaseToken'[id] = issued + 1 /\ leaseExpiresAt'[id] = until
        /\ \A i \in Ids \ {id} : /\ state'[i] = state[i] /\ leaseToken'[i] = leaseToken[i]
                                /\ leaseExpiresAt'[i] = leaseExpiresAt[i]
    BY <1>0, <1>1 DEF Claimed, TypeOK
  <1>4. /\ lease' = [lease EXCEPT ![w] = [id |-> id, token |-> issued + 1, until |-> until]]
        /\ pc[w] # "work" /\ pc' = [pc EXCEPT ![w] = "work"]
        /\ issued' = issued + 1 /\ now' = now /\ stamp' = stamp
    BY <1>1 DEF Claimed
  <1>5. until \in Nat
    BY <1>0 DEF TypeOK
  <1> HIDE DEF until
  <1> DEFINE jobs == {i \in {id} : state[i] = "leased"}
  <1>6. jobs \in SUBSET Ids /\ (\A i \in jobs : i = id /\ state[i] = "leased")
        /\ (id \in jobs \/ state[id] \in {"queued", "retry_scheduled"})
    BY <1>2
  <1> HIDE DEF jobs
  <1>7. \A i \in jobs : leaseExpiresAt[i] <= now
    <2>1. stamp[w] <= now /\ stamp[w] \in Nat /\ now \in Nat /\ leaseExpiresAt[id] \in Nat
      BY <1>0 DEF FenceInv, TokensFence, TypeOK
    <2>2. state[id] = "leased" => leaseExpiresAt[id] <= now
      BY <1>2, <2>1
    <2>3. QED
      BY <1>6, <2>2
  <1>8. QED
    BY <1>0, <1>3, <1>4, <1>5, <1>6, <1>7, FenceTake

LEMMA FenceEnded ==
  ASSUME DynamoTypeOK, TypeOK', FenceInv, NEW w \in Workers, NEW c \in seen[w], Ended(w, c)
  PROVE  FenceInv'
  <1>0. TypeOK
    BY DEF DynamoTypeOK
  <1>1. PICK id \in Ids : id = c.id
    BY DEF Ended
  <1>2. state[id] = "leased" /\ leaseExpiresAt[id] <= now
    <2>1. state[id] = "leased" /\ leaseExpiresAt[id] <= stamp[w]
      BY <1>1 DEF Ended, Spent, Expired
    <2>2. stamp[w] <= now /\ stamp[w] \in Nat /\ now \in Nat /\ leaseExpiresAt[id] \in Nat
      BY <1>0 DEF FenceInv, TokensFence, TypeOK
    <2>3. QED
      BY <2>1, <2>2
  <1>3. state'[id] # "leased" /\ leaseToken'[id] <= issued
    BY <1>0, <1>1 DEF Ended, TypeOK, FenceInv, TokensFence
  <1>4. \A i \in Ids \ {id} : /\ state'[i] = state[i] /\ leaseToken'[i] = leaseToken[i]
                              /\ leaseExpiresAt'[i] = leaseExpiresAt[i]
    BY <1>0, <1>1 DEF Ended, TypeOK
  <1>5. /\ UNCHANGED <<now, issued, lease, pc>>
        /\ \A v \in Workers : stamp'[v] <= now
    BY DEF Ended, FenceInv, TokensFence
  <1>6. {id} \in SUBSET Ids
    OBVIOUS
  <1>7. QED
    BY <1>0, <1>2, <1>3, <1>4, <1>5, <1>6, FenceLapse

\* A put creates an item where there was none.
LEMMA FencePut ==
  ASSUME TypeOK, FenceInv, NEW r \in Requests, NEW delay \in Delays,
         IdOf[r] \notin Rows, EnqueueCreate(r, delay)
  PROVE  FenceInv'
  <1>1. PICK id \in Ids : id = IdOf[r]
    BY DynamoAssumption
  <1>2. state[id] = "absent"
    BY <1>1 DEF Rows, TypeOK
  <1>3. /\ state' = [state EXCEPT ![id] = "queued"]
        /\ leaseToken' = [leaseToken EXCEPT ![id] = 0]
        /\ leaseExpiresAt' = [leaseExpiresAt EXCEPT ![id] = 0]
        /\ UNCHANGED <<now, issued, pc, stamp, lease>>
    BY <1>1 DEF EnqueueCreate, Put
  <1>4. QED
    BY <1>2, <1>3, FenceUnleased

\* The conditional writes keep the tokens and the live leases in order.
LEMMA FenceInductive == DynamoSpec => []FenceInv
  <1>1. DynamoInit => FenceInv
    BY DEF DynamoInit, Init, FenceInv, TokensFence, LiveLeaseKept, LiveLeasesDisjoint, Live, Working
  <1>2. DynamoTypeOK /\ DynamoTypeOK' /\ FenceInv /\ [Next]_dynamoVars => FenceInv'
    <2> SUFFICES ASSUME DynamoTypeOK, DynamoTypeOK', FenceInv, [Next]_dynamoVars PROVE FenceInv'
      OBVIOUS
    <2>0. TypeOK /\ TypeOK'
      BY DEF DynamoTypeOK
    <2> DEFINE idle == /\ UNCHANGED <<state, leaseToken, leaseExpiresAt, issued, lease, now>>
                       /\ \A w \in Workers : stamp'[w] <= now
                       /\ \A w \in Workers : pc'[w] = "work" => pc[w] = "work"
    <2>1. idle => FenceInv'
      BY <2>0, FenceIdle DEF TypeOK
    <2>2. ASSUME NEW w \in Workers, LeaseList(w) PROVE idle
      BY <2>0, <2>2 DEF LeaseList, row, TypeOK, FenceInv, TokensFence
    <2>3. ASSUME NEW w \in Workers, LeasePass(w) \/ LeaseNone(w) PROVE idle
      BY <2>0, <2>3 DEF LeasePass, LeaseNone, vars, row, TypeOK, FenceInv, TokensFence
    <2>4. ASSUME NEW r \in Requests, EnqueueFound(r) \/ EnqueueMissing(r) PROVE idle
      BY <2>0, <2>4 DEF EnqueueFound, EnqueueMissing, row, TypeOK, FenceInv, TokensFence
    <2>5. CASE UNCHANGED dynamoVars
      <3>1. idle
        BY <2>5 DEF dynamoVars, vars, row, FenceInv, TokensFence
      <3>2. QED
        BY <2>1, <3>1
    <2>6. ASSUME NEW w \in Workers, LeaseDeadLetter(w) PROVE FenceInv'
      BY <2>0, <2>6, DeadLetterEnds, FenceEnded
    <2>7. ASSUME NEW w \in Workers, LeaseClaim(w) PROVE FenceInv'
      BY <2>0, <2>7, ClaimTakes, FenceClaimed
    <2>8. ASSUME NEW w \in Workers,
                 \/ AwsComplete(w) \/ AwsDeadLetter(w) \/ AwsLeaseLost(w) \/ AwsCrash(w)
                 \/ \E delay \in Delays : AwsRetry(w, delay)
          PROVE  FenceInv'
      BY <2>0, <2>8, AnswerIsSql, FenceAnswer DEF Answering
    <2>9. ASSUME NEW r \in Requests, NEW delay \in Delays, EnqueueCreate(r, delay) PROVE FenceInv'
      <3>1. CASE IdOf[r] \in Rows
        <4>1. idle
          BY <2>9, <3>1 DEF EnqueueCreate, row, FenceInv, TokensFence
        <4>2. QED
          BY <2>1, <4>1
      <3>2. CASE IdOf[r] \notin Rows
        BY <2>0, <2>9, <3>2, FencePut
      <3>3. QED
        BY <3>1, <3>2
    <2>10. ASSUME NEW id \in Ids, AwsCancel(id) PROVE FenceInv'
      BY <2>0, <2>10, FenceUnleased DEF AwsCancel
    <2>11. ASSUME NEW id \in Ids, NEW delay \in Delays, AwsRecover(id, delay) PROVE FenceInv'
      BY <2>0, <2>11, FenceOperator DEF AwsRecover
    <2>12. CASE Tick
      <3>1. now' = now + 1 /\ UNCHANGED <<state, leaseToken, leaseExpiresAt, issued, lease, pc, stamp>>
        BY <2>12 DEF Tick, row
      <3>2. \A w \in Workers : stamp'[w] <= now'
        BY <2>0, <3>1 DEF FenceInv, TokensFence, TypeOK
      <3>3. QED
        BY <2>0, <3>1, <3>2, FenceIdle DEF TypeOK
    <2> HIDE DEF idle
    <2>13. QED
      BY <2>1, <2>2, <2>3, <2>4, <2>5, <2>6, <2>7, <2>8, <2>9, <2>10, <2>11, <2>12
         DEF Next, Worker, Enqueue
  <1>3. QED
    BY <1>1, <1>2, TypeCorrect, PTL DEF DynamoSpec

\* While a lease has not run out its item carries its token, or was cancelled:
\* stale pages of the index and writes on old revisions take nothing away.
THEOREM LeaseKept == DynamoSpec => []LiveLeaseKept
  <1>1. FenceInv => LiveLeaseKept
    BY DEF FenceInv
  <1>2. QED
    BY <1>1, FenceInductive, PTL

\* Two workers never both hold a live lease of one item.
THEOREM Fencing == DynamoSpec => []LiveLeasesDisjoint
  <1>1. FenceInv => LiveLeasesDisjoint
    BY DEF FenceInv
  <1>2. QED
    BY <1>1, FenceInductive, PTL

-----------------------------------------------------------------------------
(* The attempt budget.                                                      *)

\* An item that waits has an attempt left; one put back by an operator has at
\* least the one the recovery gave it.
BudgetInv ==
  \A id \in Ids :
    /\ attempt[id] <= MaxAttempts + recoveries[id]
    /\ state[id] = "queued" => attempt[id] < MaxAttempts + recoveries[id]
    /\ state[id] = "retry_scheduled" => attempt[id] < MaxAttempts

\* A step that takes no attempt keeps the budget when what it puts back has one.
LEMMA BudgetMove ==
  ASSUME TypeOK, TypeOK', BudgetInv,
         \A id \in Ids : attempt'[id] = attempt[id] /\ recoveries'[id] >= recoveries[id],
         \A id \in Ids : state'[id] # state[id] =>
           /\ state'[id] = "queued" => attempt[id] < MaxAttempts + recoveries'[id]
           /\ state'[id] = "retry_scheduled" => attempt[id] < MaxAttempts
  PROVE  BudgetInv'
  BY SqlJobsAssumption DEF BudgetInv, TypeOK

\* An expired item is claimed only when an attempt is left.
LEMMA BudgetClaimed ==
  ASSUME TypeOK, TypeOK', BudgetInv, NEW w \in Workers, NEW c \in seen[w], Claimed(w, c)
  PROVE  BudgetInv'
  <1> USE SqlJobsAssumption
  <1>1. PICK id \in Ids : id = c.id
    BY DEF Claimed
  <1>2. \/ ~(attempt[id] >= MaxAttempts)
        \/ state[id] \in {"queued", "retry_scheduled"}
    BY <1>1 DEF Claimed, Claimable, Available, Exhausted
  <1>3. attempt[id] + 1 <= MaxAttempts + recoveries[id]
    BY <1>2 DEF BudgetInv, TypeOK
  <1>4. /\ state' = [state EXCEPT ![id] = "leased"]
        /\ attempt' = [attempt EXCEPT ![id] = @ + 1]
        /\ UNCHANGED recoveries
    BY <1>1 DEF Claimed
  <1>5. QED
    BY <1>3, <1>4 DEF BudgetInv, TypeOK

LEMMA BudgetAnswer ==
  ASSUME TypeOK, TypeOK', BudgetInv, NEW w \in Workers, Answering(w)
  PROVE  BudgetInv'
  <1> USE SqlJobsAssumption
  <1>1. ASSUME NEW outcome \in {"completed", "retry_scheduled", "dead_lettered"},
               Settle(w, outcome), outcome = "retry_scheduled" => ~Exhausted(lease[w].id)
        PROVE  BudgetInv'
    <2>1. FreedType(w)
      BY <1>1, SettleType
    <2>2. PICK id \in Ids : id = lease[w].id
      BY <2>1 DEF FreedType, Rows
    <2>3. outcome = "retry_scheduled" => ~(attempt[id] >= MaxAttempts)
      BY <1>1, <2>2 DEF Exhausted
    <2>4. outcome = "retry_scheduled" => attempt[id] < MaxAttempts
      BY <2>3 DEF TypeOK
    <2>5. state' = [state EXCEPT ![id] = outcome] /\ UNCHANGED <<attempt, recoveries>>
      BY <1>1, <2>2 DEF Settle, Release
    <2>6. \A i \in Ids : i # id => state'[i] = state[i]
      BY <2>5 DEF TypeOK
    <2>7. QED
      BY <2>4, <2>5, <2>6, BudgetMove DEF TypeOK
  <1>2. CASE Complete(w) \/ DeadLetter(w)
    BY <1>1, <1>2 DEF Complete, DeadLetter
  <1>3. ASSUME NEW delay \in Delays, Retry(w, delay) PROVE BudgetInv'
    BY <1>1, <1>3 DEF Retry
  <1>4. CASE LeaseLost(w) \/ Crash(w)
    <2>1. UNCHANGED <<state, attempt, recoveries>>
      BY <1>4 DEF LeaseLost, Crash, Release, row
    <2>2. QED
      BY <2>1, BudgetMove DEF TypeOK
  <1>5. QED
    BY <1>2, <1>3, <1>4 DEF Answering

LEMMA BudgetInductive == DynamoSpec => []BudgetInv
  <1> USE SqlJobsAssumption
  <1>1. DynamoInit => BudgetInv
    BY DEF DynamoInit, Init, BudgetInv
  <1>2. DynamoTypeOK /\ DynamoTypeOK' /\ BudgetInv /\ [Next]_dynamoVars => BudgetInv'
    <2> SUFFICES ASSUME DynamoTypeOK, DynamoTypeOK', BudgetInv, [Next]_dynamoVars PROVE BudgetInv'
      OBVIOUS
    <2>0. TypeOK /\ TypeOK'
      BY DEF DynamoTypeOK
    <2>1. ASSUME UNCHANGED <<state, attempt, recoveries>> PROVE BudgetInv'
      BY <2>1 DEF BudgetInv
    <2>2. ASSUME NEW w \in Workers, LeaseList(w) \/ LeasePass(w) \/ LeaseNone(w) PROVE BudgetInv'
      BY <2>1, <2>2 DEF LeaseList, LeasePass, LeaseNone, vars, row, history
    <2>3. ASSUME NEW w \in Workers, LeaseDeadLetter(w) PROVE BudgetInv'
      <3>1. PICK c \in seen[w] : Ended(w, c)
        BY <2>0, <2>3, DeadLetterEnds
      <3>2. /\ state' = [state EXCEPT ![c.id] = "dead_lettered"] /\ c.id \in Ids
            /\ UNCHANGED <<attempt, recoveries>>
        BY <3>1 DEF Ended
      <3>3. QED
        BY <2>0, <3>2, BudgetMove DEF TypeOK
    <2>4. ASSUME NEW w \in Workers, LeaseClaim(w) PROVE BudgetInv'
      BY <2>0, <2>4, ClaimTakes, BudgetClaimed
    <2>5. ASSUME NEW w \in Workers,
                 \/ AwsComplete(w) \/ AwsDeadLetter(w) \/ AwsLeaseLost(w) \/ AwsCrash(w)
                 \/ \E delay \in Delays : AwsRetry(w, delay)
          PROVE  BudgetInv'
      BY <2>0, <2>5, AnswerIsSql, BudgetAnswer
    <2>6. ASSUME NEW r \in Requests, EnqueueFound(r) \/ EnqueueMissing(r) PROVE BudgetInv'
      BY <2>1, <2>6 DEF EnqueueFound, EnqueueMissing, row, history
    <2>7. ASSUME NEW r \in Requests, NEW delay \in Delays, EnqueueCreate(r, delay) PROVE BudgetInv'
      <3>1. CASE IdOf[r] \in Rows
        BY <2>1, <2>7, <3>1 DEF EnqueueCreate, row
      <3>2. CASE IdOf[r] \notin Rows
        <4>1. PICK id \in Ids : id = IdOf[r]
          BY DynamoAssumption
        <4>2. /\ state' = [state EXCEPT ![id] = "queued"]
              /\ attempt' = [attempt EXCEPT ![id] = 0] /\ UNCHANGED recoveries
          BY <2>7, <3>2, <4>1 DEF EnqueueCreate, Put
        <4>3. QED
          BY <2>0, <4>2 DEF BudgetInv, TypeOK
      <3>3. QED
        BY <3>1, <3>2
    <2>8. ASSUME NEW id \in Ids, AwsCancel(id) PROVE BudgetInv'
      <3>1. state' = [state EXCEPT ![id] = "cancelled"] /\ UNCHANGED <<attempt, recoveries>>
        BY <2>8 DEF AwsCancel, history
      <3>2. QED
        BY <2>0, <3>1, BudgetMove DEF TypeOK
    <2>9. ASSUME NEW id \in Ids, NEW delay \in Delays, AwsRecover(id, delay) PROVE BudgetInv'
      <3>1. /\ state' = [state EXCEPT ![id] = "queued"]
            /\ recoveries' = [recoveries EXCEPT ![id] = @ + 1] /\ UNCHANGED attempt
        BY <2>9 DEF AwsRecover, Recover
      <3>2. QED
        BY <2>0, <3>1 DEF BudgetInv, TypeOK
    <2>10. CASE Tick \/ UNCHANGED dynamoVars
      BY <2>1, <2>10 DEF Tick, dynamoVars, vars, row, history
    <2>11. QED
      BY <2>2, <2>3, <2>4, <2>5, <2>6, <2>7, <2>8, <2>9, <2>10 DEF Next, Worker, Enqueue
  <1>3. QED
    BY <1>1, <1>2, TypeCorrect, PTL DEF DynamoSpec

\* Crashed, expired and reported attempts of a job together never exceed its
\* maxAttempts but for one more per recovery, however late a page is acted on.
THEOREM BoundedRetries == DynamoSpec => []AttemptsBounded
  <1>1. BudgetInv => AttemptsBounded
    BY DEF BudgetInv, AttemptsBounded
  <1>2. QED
    BY <1>1, BudgetInductive, PTL

-----------------------------------------------------------------------------
(* Ends are final, and a key has one job.                                   *)

LEMMA EndsFinal ==
  ASSUME DynamoTypeOK, [Next]_dynamoVars
  PROVE  EndsKept
  <1>0. TypeOK
    BY DEF DynamoTypeOK
  <1>1. ASSUME NEW w \in Workers, LeaseList(w) \/ LeasePass(w) \/ LeaseNone(w) PROVE EndsKept
    BY <1>1 DEF EndsKept, LeaseList, LeasePass, LeaseNone, vars, row, history
  <1>2. ASSUME NEW w \in Workers, LeaseDeadLetter(w) PROVE EndsKept
    <2>1. PICK c \in seen[w] : Ended(w, c)
      BY <1>2, DeadLetterEnds
    <2>2. PICK id \in Ids : id = c.id
      BY <2>1 DEF Ended
    <2>3. /\ state[id] = "leased" /\ state' = [state EXCEPT ![id] = "dead_lettered"]
          /\ UNCHANGED completions
      BY <2>1, <2>2 DEF Ended, Spent, Expired
    <2>4. QED
      BY <1>0, <2>3 DEF EndsKept, TypeOK
  <1>3. ASSUME NEW w \in Workers, LeaseClaim(w) PROVE EndsKept
    <2>1. PICK c \in seen[w] : Claimed(w, c)
      BY <1>3, ClaimTakes
    <2>2. PICK id \in Ids : id = c.id
      BY <2>1 DEF Claimed
    <2>3. /\ state[id] \in {"leased", "queued", "retry_scheduled"}
          /\ state' = [state EXCEPT ![id] = "leased"] /\ UNCHANGED completions
      BY <2>1, <2>2 DEF Claimed, Claimable, Expired, Available
    <2>4. QED
      BY <1>0, <2>3 DEF EndsKept, TypeOK
  <1>4. ASSUME NEW w \in Workers,
               \/ AwsComplete(w) \/ AwsDeadLetter(w) \/ AwsLeaseLost(w) \/ AwsCrash(w)
               \/ \E delay \in Delays : AwsRetry(w, delay)
        PROVE  EndsKept
    BY <1>0, <1>4, AnswerIsSql, EndsAnswer DEF Answering
  <1>5. ASSUME NEW r \in Requests, Enqueue(r) PROVE EndsKept
    <2>1. CASE UNCHANGED <<state, completions>>
      BY <2>1 DEF EndsKept
    <2>2. ASSUME NEW delay \in Delays, EnqueueCreate(r, delay), IdOf[r] \notin Rows PROVE EndsKept
      <3>1. PICK id \in Ids : id = IdOf[r]
        BY DynamoAssumption
      <3>2. /\ state[id] = "absent" /\ state' = [state EXCEPT ![id] = "queued"]
            /\ UNCHANGED completions
        BY <1>0, <2>2, <3>1 DEF EnqueueCreate, Put, Rows, TypeOK
      <3>3. QED
        BY <1>0, <3>2 DEF EndsKept, TypeOK
    <2>3. QED
      BY <1>5, <2>1, <2>2
         DEF Enqueue, EnqueueFound, EnqueueMissing, EnqueueCreate, row, history
  <1>6. ASSUME NEW id \in Ids, AwsCancel(id) PROVE EndsKept
    BY <1>0, <1>6 DEF EndsKept, AwsCancel, TypeOK, history
  <1>7. ASSUME NEW id \in Ids, NEW delay \in Delays, AwsRecover(id, delay) PROVE EndsKept
    BY <1>0, <1>7, EndsOperator DEF AwsRecover
  <1>8. CASE Tick \/ UNCHANGED dynamoVars
    BY <1>8 DEF EndsKept, Tick, dynamoVars, vars, row, history
  <1>9. QED
    BY <1>1, <1>2, <1>3, <1>4, <1>5, <1>6, <1>7, <1>8 DEF Next, Worker

\* A job is completed at most once, and stays completed or cancelled: the
\* revision of the item decides between two answers.
THEOREM OneCompletion == DynamoSpec => []CompletedOnce
  <1>1. DynamoInit => CompletedOnce
    BY DEF DynamoInit, Init, CompletedOnce
  <1>2. DynamoTypeOK /\ CompletedOnce /\ [Next]_dynamoVars => CompletedOnce'
    BY EndsFinal, EndsOnce DEF DynamoTypeOK
  <1>3. QED
    BY <1>1, <1>2, TypeCorrect, PTL DEF DynamoSpec

\* No late claim, answer, recovery or put revives a finished job.
THEOREM EndsStand == DynamoSpec => NeverRevived
  <1>1. DynamoTypeOK /\ [Next]_dynamoVars => [NoneRevived]_vars
    BY EndsFinal, EndsNotRevived
  <1>2. QED
    BY <1>1, TypeCorrect, PTL DEF DynamoSpec, NeverRevived

\* The item of a key is the one its hash names, for the item itself and for
\* everybody who was answered.
HashInv ==
  /\ \A id \in Rows : IdOf[request[id]] = id
  /\ \A r \in Requests : answers[r] \subseteq {IdOf[r]}

\* Two callers that enqueue one key at the same time get the same job, as long
\* as no two keys share a hash (DynamoAssumption).
THEOREM OneJobPerKey == DynamoSpec => []EnqueueIdempotent
  <1> USE DynamoAssumption
  <1>1. DynamoInit => HashInv
    BY DEF DynamoInit, Init, HashInv, Rows
  <1>2. DynamoTypeOK /\ HashInv /\ [Next]_dynamoVars => HashInv'
    <2> SUFFICES ASSUME DynamoTypeOK, HashInv, [Next]_dynamoVars PROVE HashInv'
      OBVIOUS
    <2>0. TypeOK
      BY DEF DynamoTypeOK
    <2>1. ASSUME UNCHANGED <<request, answers>> PROVE HashInv'
      BY <2>1 DEF HashInv, Rows
    <2>2. ASSUME NEW r \in Requests, answers' = [answers EXCEPT ![r] = @ \cup {IdOf[r]}]
          PROVE  \A s \in Requests : answers'[s] \subseteq {IdOf[s]}
      BY <2>0, <2>2 DEF HashInv, TypeOK
    <2>3. ASSUME NEW r \in Requests, Enqueue(r) PROVE HashInv'
      <3>1. CASE EnqueueFound(r)
        BY <2>2, <3>1 DEF EnqueueFound, row, HashInv, Rows
      <3>2. CASE EnqueueMissing(r)
        BY <2>1, <3>2 DEF EnqueueMissing, row, history
      <3>3. ASSUME NEW delay \in Delays, EnqueueCreate(r, delay) PROVE HashInv'
        <4>1. PICK id \in Ids : id = IdOf[r]
          OBVIOUS
        <4>2. \/ UNCHANGED request
              \/ request' = [request EXCEPT ![id] = r]
          BY <3>3, <4>1 DEF EnqueueCreate, Put, row
        <4>3. \A i \in Rows' : IdOf[request'[i]] = i
          BY <2>0, <4>1, <4>2 DEF HashInv, Rows, TypeOK
        <4>4. QED
          BY <2>2, <3>3, <4>3 DEF EnqueueCreate, HashInv
      <3>4. QED
        BY <2>3, <3>1, <3>2, <3>3 DEF Enqueue
    <2>4. ASSUME NEW w \in Workers, Worker(w) \/ AwsCrash(w) PROVE HashInv'
      <3>1. CASE Answering(w)
        BY <2>1, <3>1, KeysWorker DEF Answering
      <3>2. CASE LeaseList(w) \/ LeaseDeadLetter(w) \/ LeaseClaim(w) \/ LeasePass(w) \/ LeaseNone(w)
        BY <2>1, <3>2 DEF LeaseList, LeaseDeadLetter, LeaseClaim, LeasePass, LeaseNone,
           vars, row, history
      <3>3. QED
        BY <2>4, <3>1, <3>2, AnswerIsSql DEF Worker
    <2>5. ASSUME NEW id \in Ids, AwsCancel(id) PROVE HashInv'
      BY <2>1, <2>5 DEF AwsCancel, history
    <2>6. ASSUME NEW id \in Ids, NEW delay \in Delays, AwsRecover(id, delay) PROVE HashInv'
      BY <2>1, <2>6, KeysOperator DEF AwsRecover
    <2>7. CASE Tick \/ UNCHANGED dynamoVars
      BY <2>1, <2>7 DEF Tick, dynamoVars, vars, row, history
    <2>8. QED
      BY <2>3, <2>4, <2>5, <2>6, <2>7 DEF Next
  <1>3. HashInv => EnqueueIdempotent
    BY DEF HashInv, EnqueueIdempotent
  <1>4. QED
    BY <1>1, <1>2, <1>3, TypeCorrect, PTL DEF DynamoSpec
=============================================================================
