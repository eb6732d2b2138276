---------------------------- MODULE SqlJobsProofs ----------------------------
(***************************************************************************)
(* What the proofs about the three job queues share: the lemmas about the  *)
(* statements of SqlJobs (settling, cancelling, recovering) and about any  *)
(* statement that lets leases lapse or takes a job.                        *)
(***************************************************************************)
EXTENDS SqlJobs, TLAPS

-----------------------------------------------------------------------------
(* Type correctness.                                                        *)

\* What a settled lease leaves: well-typed rows and a free worker.
FreedType(w) ==
  /\ lease[w] \in Lease /\ lease[w].id \in Rows
  /\ request' = request /\ attempt' = attempt
  /\ state' \in [Ids -> JobState \cup {"absent"}]
  /\ \A id \in Ids : state'[id] = "absent" <=> request[id] = NoRequest
  /\ leaseToken' \in [Ids -> Nat]
  /\ leaseExpiresAt' \in [Ids -> Nat]
  /\ pc' \in [Workers -> {"idle", "reclaim", "claim", "work"}]
  /\ lease' \in [Workers -> Lease \cup {NoLease}]
  /\ \A v \in Workers : pc'[v] = "work" <=> lease'[v] # NoLease
  /\ UNCHANGED <<now, issued, stamp, asked, answers, recoveries>>

\* Whatever the outcome, settling (transition()) keeps the rows well-typed.
LEMMA SettleType ==
  ASSUME TypeOK, NEW w \in Workers,
         NEW outcome \in {"completed", "retry_scheduled", "dead_lettered"},
         Settle(w, outcome)
  PROVE  FreedType(w)
  <1>1. lease[w] \in Lease
    BY DEF TypeOK, Settle
  <1>2. lease[w].id \in Rows
    BY <1>1 DEF TypeOK, Settle, Holds, Lease, Rows
  <1>3. QED
    BY <1>1, <1>2, NoLeaseAssumption DEF FreedType, TypeOK, Settle, Release, JobState, Rows

\* A worker's answer, its death and an operator's call keep every type.
LEMMA AnswerType ==
  ASSUME TypeOK, NEW w \in Workers,
         \/ Complete(w) \/ DeadLetter(w) \/ LeaseLost(w) \/ Crash(w)
         \/ \E delay \in Delays : Retry(w, delay)
  PROVE  TypeOK'
  <1> USE SqlJobsAssumption
  <1>1. CASE Complete(w)
    <2>1. Settle(w, "completed") /\ UNCHANGED availableAt
      BY <1>1 DEF Complete
    <2>2. FreedType(w)
      BY <2>1, SettleType
    <2>3. completions' = [completions EXCEPT ![lease[w].id] = @ + 1]
      BY <1>1 DEF Complete
    <2>4. completions' \in [Ids -> Nat]
      <3>1. PICK id \in Ids : completions' = [completions EXCEPT ![id] = @ + 1]
        BY <2>2, <2>3 DEF FreedType, Rows
      <3>2. QED
        BY <3>1 DEF TypeOK
    <2>5. QED
      BY <2>1, <2>2, <2>4 DEF FreedType, TypeOK
  <1>2. ASSUME NEW delay \in Delays, Retry(w, delay) PROVE TypeOK'
    <2>1. PICK outcome \in {"completed", "retry_scheduled", "dead_lettered"} :
            Settle(w, outcome)
      BY <1>2 DEF Retry
    <2>2. FreedType(w)
      BY <2>1, SettleType
    <2>3. now + delay \in Nat
      BY DEF TypeOK
    <2>4. availableAt' \in [Ids -> Nat] /\ UNCHANGED completions
      BY <1>2, <2>2, <2>3 DEF FreedType, Rows, TypeOK, Retry
    <2>5. QED
      BY <2>2, <2>4 DEF FreedType, TypeOK
  <1>3. CASE DeadLetter(w)
    <2>1. Settle(w, "dead_lettered") /\ UNCHANGED <<availableAt, completions>>
      BY <1>3 DEF DeadLetter
    <2>2. FreedType(w)
      BY <2>1, SettleType
    <2>3. QED
      BY <2>1, <2>2 DEF FreedType, TypeOK
  <1>4. CASE LeaseLost(w) \/ Crash(w)
    BY <1>4 DEF TypeOK, LeaseLost, Crash, Release, row
  <1>5. QED
    BY <1>1, <1>2, <1>3, <1>4

LEMMA OperatorType ==
  ASSUME TypeOK, NEW id \in Ids,
         Cancel(id) \/ \E delay \in Delays : Recover(id, delay)
  PROVE  TypeOK'
  <1> USE SqlJobsAssumption
  <1>1. CASE Cancel(id)
    BY <1>1 DEF TypeOK, Cancel, Rows, JobState, history
  <1>2. ASSUME NEW delay \in Delays, Recover(id, delay) PROVE TypeOK'
    BY <1>2 DEF TypeOK, Recover, JobState
  <1>3. QED
    BY <1>1, <1>2

-----------------------------------------------------------------------------
(* Fencing.                                                                 *)

Working(w) == pc[w] = "work"

\* What ties a worker's lease to the row: tokens are drawn once, no two
\* workers hold the same one, and a leased row that carries a worker's token is
\* the row of its job, with the expiry the worker was told.
TokensFence ==
  /\ \A w \in Workers : stamp[w] <= now
  /\ \A id \in Ids : leaseToken[id] <= issued
  /\ \A w \in Workers : Working(w) => lease[w].token <= issued
  /\ \A v, w \in Workers :
       v # w /\ Working(v) /\ Working(w) => lease[v].token # lease[w].token
  /\ \A w \in Workers, id \in Ids :
       Working(w) /\ state[id] = "leased" /\ leaseToken[id] = lease[w].token
         => id = lease[w].id /\ leaseExpiresAt[id] = lease[w].until

FenceInv == TokensFence /\ LiveLeaseKept /\ LiveLeasesDisjoint

\* Nothing can be said against fencing when no row, no lease and no token
\* changes: time can only end leases.
LEMMA FenceIdle ==
  ASSUME TypeOK, FenceInv,
         UNCHANGED <<state, leaseToken, leaseExpiresAt, issued, lease>>,
         now' \in Nat, now' >= now,
         \A w \in Workers : stamp'[w] <= now',
         \A w \in Workers : pc'[w] = "work" => pc[w] = "work"
  PROVE  FenceInv'
  <1>1. TokensFence'
    BY DEF FenceInv, TokensFence, Working, TypeOK
  <1>2. \A w \in Workers : Live(w)' => Live(w)
    BY DEF Live, TypeOK, Lease
  <1>3. QED
    BY <1>1, <1>2 DEF FenceInv, LiveLeaseKept, LiveLeasesDisjoint, TypeOK

\* A worker that ends its lease, by an answer or by dying, fences nobody out.
LEMMA FenceRelease ==
  ASSUME TypeOK, FenceInv, NEW w \in Workers, Release(w),
         UNCHANGED <<state, leaseToken, leaseExpiresAt>>
  PROVE  FenceInv'
  <1>1. TokensFence'
    BY DEF FenceInv, TokensFence, Working, TypeOK, Release
  <1>2. \A v \in Workers : Live(v)' => v # w /\ Live(v) /\ lease'[v] = lease[v]
    BY DEF Live, TypeOK, Release
  <1>3. QED
    BY <1>1, <1>2 DEF FenceInv, LiveLeaseKept, LiveLeasesDisjoint, TypeOK, Release

\* The holder settles its own row: the others' leases are on other rows.
LEMMA FenceSettle ==
  ASSUME TypeOK, FenceInv, NEW w \in Workers,
         NEW outcome \in {"completed", "retry_scheduled", "dead_lettered"},
         Settle(w, outcome)
  PROVE  FenceInv'
  <1> DEFINE id == lease[w].id
  <1>1. FreedType(w)
    BY SettleType
  <1>2. id \in Ids /\ Working(w) /\ state[id] = "leased" /\ leaseToken[id] = lease[w].token
    BY <1>1 DEF FreedType, Rows, Settle, Holds, Working
  <1>3. \A v \in Workers : Working(v)' => v # w /\ Working(v) /\ lease'[v] = lease[v]
    BY DEF Working, TypeOK, Settle, Release
  <1>4. TokensFence'
    BY <1>2, <1>3 DEF FenceInv, TokensFence, Working, TypeOK, Settle, Release
  <1>5. \A v \in Workers : Live(v)' => v # w /\ Live(v) /\ lease'[v] = lease[v]
    BY <1>3 DEF Live, Working, Settle, Release
  <1>6. \A v \in Workers : Live(v)' => lease[v].id # id
    BY <1>2, <1>5 DEF FenceInv, TokensFence, LiveLeaseKept, Working, Live
  <1>7. LiveLeaseKept'
    BY <1>2, <1>5, <1>6 DEF FenceInv, LiveLeaseKept, TypeOK, Settle
  <1>8. LiveLeasesDisjoint'
    BY <1>5 DEF FenceInv, LiveLeasesDisjoint
  <1>9. QED
    BY <1>4, <1>7, <1>8 DEF FenceInv

\* Lapsed rows carried leases that had run out, so no live lease was on them.
LEMMA FenceLapse ==
  ASSUME TypeOK, TypeOK', FenceInv, NEW jobs \in SUBSET Ids,
         \A id \in jobs : /\ state[id] = "leased" /\ leaseExpiresAt[id] <= now
                         /\ state'[id] # "leased" /\ leaseToken'[id] <= issued,
         \A id \in Ids \ jobs : /\ state'[id] = state[id]
                               /\ leaseToken'[id] = leaseToken[id]
                               /\ leaseExpiresAt'[id] = leaseExpiresAt[id],
         UNCHANGED <<now, issued, lease>>,
         \A v \in Workers : stamp'[v] <= now,
         \A v \in Workers : pc'[v] = "work" <=> pc[v] = "work"
  PROVE  FenceInv'
  <1>1. TokensFence'
    BY DEF FenceInv, TokensFence, Working, TypeOK
  <1>2. \A v \in Workers : Live(v)' <=> Live(v)
    BY DEF Live
  <1>3. \A v \in Workers : Live(v) => lease[v] \in Lease /\ lease[v].id \notin jobs
    <2> SUFFICES ASSUME NEW v \in Workers, Live(v), lease[v].id \in jobs PROVE FALSE
      BY DEF Live, TypeOK
    <2>1. lease[v] \in Lease
      BY DEF Live, TypeOK
    <2>2. state[lease[v].id] = "leased" /\ leaseToken[lease[v].id] = lease[v].token
      BY DEF FenceInv, LiveLeaseKept
    <2>3. leaseExpiresAt[lease[v].id] = lease[v].until
      BY <2>1, <2>2 DEF FenceInv, TokensFence, Working, Live, Lease
    <2>4. QED
      BY <2>1, <2>3 DEF Live, TypeOK, Lease
  <1>4. LiveLeaseKept'
    BY <1>2, <1>3 DEF FenceInv, LiveLeaseKept, TypeOK, Lease
  <1>5. LiveLeasesDisjoint'
    BY <1>2 DEF FenceInv, LiveLeasesDisjoint
  <1>6. QED
    BY <1>1, <1>4, <1>5 DEF FenceInv

\* A worker takes, under a token nobody has, a job that nobody is leased or
\* whose lease has run out; other expired leases may lapse in the same step.
LEMMA FenceTake ==
  ASSUME TypeOK, TypeOK', FenceInv, NEW w \in Workers, NEW id \in Ids,
         NEW jobs \in SUBSET Ids, NEW until \in Nat,
         \A i \in jobs : state[i] = "leased" /\ leaseExpiresAt[i] <= now,
         id \in jobs \/ state[id] \in {"queued", "retry_scheduled"},
         \A i \in jobs \ {id} : state'[i] # "leased" /\ leaseToken'[i] <= issued,
         \A i \in Ids \ (jobs \cup {id}) : /\ state'[i] = state[i]
                                         /\ leaseToken'[i] = leaseToken[i]
                                         /\ leaseExpiresAt'[i] = leaseExpiresAt[i],
         state'[id] = "leased", leaseToken'[id] = issued + 1, leaseExpiresAt'[id] = until,
         lease' = [lease EXCEPT ![w] = [id |-> id, token |-> issued + 1, until |-> until]],
         pc[w] # "work", pc' = [pc EXCEPT ![w] = "work"],
         issued' = issued + 1, now' = now, stamp' = stamp
  PROVE  FenceInv'
  <1>1. lease'[w].id = id /\ lease'[w].token = issued + 1 /\ lease'[w].until = until
    BY DEF TypeOK
  <1>2. \A v \in Workers : v # w /\ Working(v)' =>
          Working(v) /\ lease'[v] = lease[v] /\ lease[v] \in Lease /\ lease[v].token <= issued
    BY DEF Working, TypeOK, FenceInv, TokensFence
  <1>3. TokensFence'
    <2>1. \A v \in Workers : stamp'[v] <= now'
      BY DEF FenceInv, TokensFence
    <2>2. \A i \in Ids : leaseToken'[i] <= issued'
      BY DEF FenceInv, TokensFence, TypeOK
    <2>3. \A v \in Workers : Working(v)' => lease'[v].token <= issued'
      BY <1>1, <1>2 DEF TypeOK, Lease
    <2>4. \A u, v \in Workers : u # v /\ Working(u)' /\ Working(v)'
            => lease'[u].token # lease'[v].token
      BY <1>1, <1>2 DEF FenceInv, TokensFence, TypeOK, Lease
    <2>5. \A v \in Workers, i \in Ids :
            Working(v)' /\ state'[i] = "leased" /\ leaseToken'[i] = lease'[v].token
              => i = lease'[v].id /\ leaseExpiresAt'[i] = lease'[v].until
      <3> SUFFICES ASSUME NEW v \in Workers, NEW i \in Ids, Working(v)',
                          state'[i] = "leased", leaseToken'[i] = lease'[v].token
                   PROVE  i = lease'[v].id /\ leaseExpiresAt'[i] = lease'[v].until
        OBVIOUS
      <3>1. CASE v = w /\ i # id
        <4>1. leaseToken'[i] = leaseToken[i] /\ leaseToken[i] <= issued
          BY <3>1 DEF FenceInv, TokensFence
        <4>2. QED
          BY <1>1, <3>1, <4>1 DEF TypeOK
      <3>2. CASE v = w /\ i = id
        BY <1>1, <3>2
      <3>3. CASE v # w /\ i = id
        BY <1>2, <3>3 DEF TypeOK, Lease
      <3>4. CASE v # w /\ i # id
        BY <1>2, <3>4 DEF FenceInv, TokensFence, TypeOK
      <3>5. QED
        BY <3>1, <3>2, <3>3, <3>4
    <2>6. QED
      BY <2>1, <2>2, <2>3, <2>4, <2>5 DEF TokensFence
  <1>4. \A v \in Workers : v # w /\ Live(v)' =>
          Live(v) /\ lease'[v] = lease[v] /\ lease[v] \in Lease
    BY <1>2 DEF Live, Working
  <1>5. ASSUME NEW v \in Workers, v # w, Live(v)'
        PROVE  lease[v].id # id /\ lease[v].id \notin jobs
    <2>1. Live(v) /\ lease[v] \in Lease
      BY <1>4, <1>5
    <2>2. CASE state[lease[v].id] = "leased" /\ leaseToken[lease[v].id] = lease[v].token
      <3>1. leaseExpiresAt[lease[v].id] = lease[v].until
        BY <2>1, <2>2 DEF FenceInv, TokensFence, Working, Live, Lease
      <3>2. leaseExpiresAt[lease[v].id] > now
        BY <2>1, <3>1 DEF Live
      <3>3. QED
        BY <2>1, <2>2, <3>2 DEF TypeOK, Lease
    <2>3. CASE state[lease[v].id] = "cancelled"
      BY <2>3
    <2>4. QED
      BY <2>1, <2>2, <2>3 DEF FenceInv, LiveLeaseKept
  <1>6. LiveLeaseKept'
    BY <1>1, <1>4, <1>5 DEF FenceInv, LiveLeaseKept, TypeOK, Lease
  <1>7. LiveLeasesDisjoint'
    BY <1>1, <1>4, <1>5 DEF FenceInv, LiveLeasesDisjoint
  <1>8. QED
    BY <1>3, <1>6, <1>7 DEF FenceInv

\* A cancelled row is out of everybody's reach; a row that is not leased can be
\* cancelled, recovered or inserted without touching a live lease.
LEMMA FenceUnleased ==
  ASSUME TypeOK, FenceInv, NEW id \in Ids,
         NEW to \in {"queued", "cancelled"},
         to = "queued" => state[id] \in {"absent", "retry_scheduled", "dead_lettered"},
         state' = [state EXCEPT ![id] = to],
         leaseToken' = leaseToken \/ leaseToken' = [leaseToken EXCEPT ![id] = 0],
         leaseExpiresAt' = leaseExpiresAt \/ leaseExpiresAt' = [leaseExpiresAt EXCEPT ![id] = 0],
         UNCHANGED <<now, issued, pc, stamp, lease>>
  PROVE  FenceInv'
  <1>1. TokensFence'
    BY DEF FenceInv, TokensFence, Working, TypeOK
  <1>2. \A w \in Workers : Live(w)' <=> Live(w)
    BY DEF Live
  <1>3. LiveLeaseKept'
    BY <1>2 DEF FenceInv, LiveLeaseKept, TypeOK, Live, Lease
  <1>4. QED
    BY <1>1, <1>2, <1>3 DEF FenceInv, LiveLeasesDisjoint

\* An answer of a worker, its death and an operator's call fence nobody out.
LEMMA FenceAnswer ==
  ASSUME TypeOK, FenceInv, NEW w \in Workers,
         \/ Complete(w) \/ DeadLetter(w) \/ LeaseLost(w) \/ Crash(w)
         \/ \E delay \in Delays : Retry(w, delay)
  PROVE  FenceInv'
  <1>1. CASE Complete(w) \/ DeadLetter(w)
    BY <1>1, FenceSettle DEF Complete, DeadLetter
  <1>2. ASSUME NEW delay \in Delays, Retry(w, delay) PROVE FenceInv'
    <2>1. PICK outcome \in {"completed", "retry_scheduled", "dead_lettered"} :
            Settle(w, outcome)
      BY <1>2 DEF Retry
    <2>2. QED
      BY <2>1, FenceSettle
  <1>3. CASE LeaseLost(w) \/ Crash(w)
    BY <1>3, FenceRelease DEF LeaseLost, Crash, row
  <1>4. QED
    BY <1>1, <1>2, <1>3

LEMMA FenceOperator ==
  ASSUME TypeOK, FenceInv, NEW id \in Ids,
         Cancel(id) \/ \E delay \in Delays : Recover(id, delay)
  PROVE  FenceInv'
  BY FenceUnleased DEF Cancel, Recover

-----------------------------------------------------------------------------
(* Ends.                                                                    *)

\* No step takes a job out of "cancelled", or out of "completed" except to
\* cancel it, and only a complete() call on a leased job adds a completion.
EndsKept ==
  \A id \in Ids :
    /\ state[id] = "cancelled" => state'[id] = "cancelled"
    /\ state[id] = "completed" => state'[id] \in {"completed", "cancelled"}
    /\ \/ completions'[id] = completions[id]
       \/ /\ completions'[id] = completions[id] + 1
          /\ state[id] = "leased" /\ state'[id] = "completed"

\* An answer adds a completion only to the job it takes out of "leased".
LEMMA EndsAnswer ==
  ASSUME TypeOK, NEW w \in Workers,
         \/ Complete(w) \/ DeadLetter(w) \/ LeaseLost(w) \/ Crash(w)
         \/ \E delay \in Delays : Retry(w, delay)
  PROVE  EndsKept
  <1>1. CASE Complete(w)
    <2>1. Settle(w, "completed")
      BY <1>1 DEF Complete
    <2>2. FreedType(w)
      BY <2>1, SettleType
    <2>3. PICK id \in Ids : /\ state[id] = "leased"
                            /\ state' = [state EXCEPT ![id] = "completed"]
                            /\ completions' = [completions EXCEPT ![id] = @ + 1]
      BY <1>1, <2>1, <2>2 DEF Complete, Settle, Holds, FreedType, Rows
    <2>4. QED
      BY <2>3 DEF EndsKept, TypeOK
  <1>2. CASE DeadLetter(w) \/ \E delay \in Delays : Retry(w, delay)
    <2>1. PICK outcome \in {"dead_lettered", "retry_scheduled"} :
            Settle(w, outcome) /\ UNCHANGED completions
      BY <1>2 DEF DeadLetter, Retry
    <2>2. FreedType(w)
      BY <2>1, SettleType
    <2>3. PICK id \in Ids : state[id] = "leased" /\ state' = [state EXCEPT ![id] = outcome]
      BY <2>1, <2>2 DEF Settle, Holds, FreedType, Rows
    <2>4. QED
      BY <2>1, <2>3 DEF EndsKept, TypeOK
  <1>3. CASE LeaseLost(w) \/ Crash(w)
    BY <1>3 DEF EndsKept, LeaseLost, Crash, row, history
  <1>4. QED
    BY <1>1, <1>2, <1>3

LEMMA EndsOperator ==
  ASSUME TypeOK, NEW id \in Ids,
         Cancel(id) \/ \E delay \in Delays : Recover(id, delay)
  PROVE  EndsKept
  BY DEF EndsKept, Cancel, Recover, TypeOK, history

\* So no job is completed twice, and no step revives a finished one.
LEMMA EndsOnce ==
  ASSUME TypeOK, CompletedOnce, EndsKept
  PROVE  CompletedOnce'
  BY DEF EndsKept, CompletedOnce, TypeOK

LEMMA EndsNotRevived ==
  ASSUME EndsKept
  PROVE  NoneRevived
  BY DEF EndsKept, NoneRevived

-----------------------------------------------------------------------------
(* Keys.                                                                    *)

\* One row per cell and key, and nobody was answered with another one.
KeysInv ==
  /\ \A i, j \in Rows : SameKey(request[i], request[j]) => i = j
  /\ \A r \in Requests : \A i \in answers[r] : i \in Rows /\ SameKey(request[i], r)

\* A call that finds the row of its key is answered with it.
LEMMA KeysAnswer ==
  ASSUME TypeOK, KeysInv, NEW r \in Requests, NEW id \in Rows, SameKey(request[id], r),
         answers' = [answers EXCEPT ![r] = @ \cup {id}], UNCHANGED request
  PROVE  KeysInv'
  BY DEF KeysInv, Rows, SameKey, TypeOK

\* A call that finds none makes one.
LEMMA KeysInsert ==
  ASSUME TypeOK, KeysInv, NEW r \in Requests, NEW id \in Ids \ Rows,
         \A i \in Rows : ~SameKey(request[i], r),
         request' = [request EXCEPT ![id] = r],
         answers' = [answers EXCEPT ![r] = @ \cup {id}]
  PROVE  KeysInv'
  <1>1. \A i \in Rows' : i = id \/ (i \in Rows /\ request'[i] = request[i])
    BY DEF Rows, TypeOK
  <1>2. id \in Rows' /\ request'[id] = r
    BY SqlJobsAssumption DEF Rows, TypeOK
  <1>3. \A i \in Rows : i \in Rows' /\ request'[i] = request[i] /\ ~SameKey(request[i], r)
    BY DEF Rows, TypeOK
  <1>4. \A i, j \in Rows' : SameKey(request'[i], request'[j]) => i = j
    BY <1>1, <1>2, <1>3 DEF KeysInv, SameKey
  <1>5. \A s \in Requests : \A i \in answers'[s] : i \in Rows' /\ SameKey(request'[i], s)
    BY <1>2, <1>3 DEF KeysInv, SameKey, TypeOK
  <1>6. QED
    BY <1>4, <1>5 DEF KeysInv

\* One row per key and answers that agree with it: one job for all callers.
LEMMA KeysIdempotent ==
  ASSUME KeysInv
  PROVE  EnqueueIdempotent
  BY DEF KeysInv, EnqueueIdempotent, SameKey

\* Nothing but enqueue() touches keys and answers.
LEMMA KeysIdle ==
  ASSUME KeysInv, UNCHANGED <<request, answers>>
  PROVE  KeysInv'
  BY DEF KeysInv, Rows

LEMMA KeysWorker ==
  ASSUME NEW w \in Workers,
         \/ Complete(w) \/ DeadLetter(w) \/ LeaseLost(w) \/ Crash(w)
         \/ \E delay \in Delays : Retry(w, delay)
  PROVE  UNCHANGED <<request, answers>>
  BY DEF Complete, Retry, DeadLetter, Settle, LeaseLost, Crash, Release, row

LEMMA KeysOperator ==
  ASSUME NEW id \in Ids, Cancel(id) \/ \E delay \in Delays : Recover(id, delay)
  PROVE  UNCHANGED <<request, answers>>
  BY DEF Cancel, Recover, history
=============================================================================
