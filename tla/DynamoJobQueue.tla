---------------------------- MODULE DynamoJobQueue ----------------------------
(***************************************************************************)
(* AwsJobQueue (adapters/aws/src/index.ts).  A job is one DynamoDB item    *)
(* with a revision, under an id that is a hash of its cell and key.  Every *)
(* change reads the item and writes it back on condition that the revision *)
(* (and the state, owner or expiry it relied on) is still the one read, so *)
(* a change is the step that writes, and a conflict changes nothing.       *)
(*                                                                         *)
(* lease() reads one page of the repository-wide index and then tries the  *)
(* candidates in turn: the jobs it looks at may have changed since.  The   *)
(* index is eventually consistent: recent items may be missing from it.    *)
(* SQS and EventBridge notifications only wake workers up and are left out.*)
(***************************************************************************)
EXTENDS SqlJobs

CONSTANTS IdOf,       \* the hash: the id of a request's cell and key
          PageLimit   \* items lease() reads from the index

ASSUME DynamoAssumption ==
  /\ IdOf \in [Requests -> Ids]
  /\ \A r, s \in Requests : IdOf[r] = IdOf[s] <=> SameKey(r, s)
  /\ PageLimit \in Nat \ {0}

VARIABLES revision,   \* revision of each item
          seen        \* candidates a lease() call has not tried yet: [id, rev]

dynamoVars == <<vars, revision, seen>>

DynamoTypeOK ==
  /\ TypeOK
  /\ revision \in [Ids -> Nat]
  /\ seen \in [Workers -> SUBSET [id : Ids, rev : Nat]]

DynamoInit ==
  /\ Init
  /\ revision = [id \in Ids |-> 0]
  /\ seen = [w \in Workers |-> {}]

\* A conditional write of one item: the next revision of it.
Written(id) == revision' = [revision EXCEPT ![id] = @ + 1]

-----------------------------------------------------------------------------
(* enqueue(): a consistent read, then a put on attribute_not_exists(pk).    *)

EnqueueFound(r) ==
  /\ IdOf[r] \in Rows
  /\ answers' = [answers EXCEPT ![r] = @ \cup {IdOf[r]}]
  /\ UNCHANGED <<row, now, issued, pc, stamp, lease, asked, recoveries,
                 completions, revision, seen>>

EnqueueMissing(r) ==
  /\ IdOf[r] \notin Rows
  /\ asked' = asked \cup {r}
  /\ UNCHANGED <<row, now, issued, pc, stamp, lease, history, revision, seen>>

Put(r, delay) ==
  /\ request' = [request EXCEPT ![IdOf[r]] = r]
  /\ state' = [state EXCEPT ![IdOf[r]] = "queued"]
  /\ attempt' = [attempt EXCEPT ![IdOf[r]] = 0]
  /\ availableAt' = [availableAt EXCEPT ![IdOf[r]] = now + delay]
  /\ leaseToken' = [leaseToken EXCEPT ![IdOf[r]] = 0]
  /\ leaseExpiresAt' = [leaseExpiresAt EXCEPT ![IdOf[r]] = 0]
  /\ revision' = [revision EXCEPT ![IdOf[r]] = 1]

\* The put without its condition: it would start the job afresh.
EnqueueCreate_Overwrite(r, delay) ==
  /\ r \in asked
  /\ asked' = asked \ {r}
  /\ answers' = [answers EXCEPT ![r] = @ \cup {IdOf[r]}]
  /\ Put(r, delay)
  /\ UNCHANGED <<now, issued, pc, stamp, lease, recoveries, completions, seen>>

EnqueueCreate(r, delay) ==
  /\ r \in asked
  /\ asked' = asked \ {r}
  /\ answers' = [answers EXCEPT ![r] = @ \cup {IdOf[r]}]
  /\ IF IdOf[r] \in Rows THEN UNCHANGED <<row, revision>> ELSE Put(r, delay)
  /\ UNCHANGED <<now, issued, pc, stamp, lease, recoveries, completions, seen>>

-----------------------------------------------------------------------------
(* lease()                                                                  *)

\* The first page of the index, in id order.
Page == {id \in Rows : Cardinality({j \in Rows : j < id}) < PageLimit}

LeaseList(w) ==
  /\ pc[w] = "idle"
  /\ \E page \in SUBSET Page :
       seen' = [seen EXCEPT ![w] = {[id |-> id, rev |-> revision[id]] : id \in page}]
  /\ pc' = [pc EXCEPT ![w] = "claim"]
  /\ stamp' = [stamp EXCEPT ![w] = now]
  /\ UNCHANGED <<row, now, issued, lease, asked, history, revision>>

\* The candidate whose turn it is.
Turn(w, c) == c \in seen[w] /\ \A d \in seen[w] : c.id <= d.id

Expired_AnyLease(w, id) == state[id] = "leased"

Expired(w, id) == state[id] = "leased" /\ leaseExpiresAt[id] <= stamp[w]

Available(w, id) ==
  state[id] \in {"queued", "retry_scheduled"} /\ availableAt[id] <= stamp[w]

\* claimOrExpire() writes only over the revision the page showed.
Current(c) == revision[c.id] = c.rev

Spent(w, c) ==
  Current(c) /\ InScope(w, c.id) /\ Expired(w, c.id) /\ Exhausted(c.id)

Claimable_IgnoreBudget(w, c) ==
  /\ Current(c) /\ InScope(w, c.id)
  /\ Expired(w, c.id) \/ Available(w, c.id)

Claimable_NeverReclaimed(w, c) ==
  Current(c) /\ InScope(w, c.id) /\ Available(w, c.id)

Claimable(w, c) ==
  /\ Current(c) /\ InScope(w, c.id)
  /\ (Expired(w, c.id) /\ ~Exhausted(c.id)) \/ Available(w, c.id)

LeaseDeadLetter(w) ==
  \E c \in seen[w] :
    /\ pc[w] = "claim" /\ Turn(w, c) /\ Spent(w, c)
    /\ state' = [state EXCEPT ![c.id] = "dead_lettered"]
    /\ leaseExpiresAt' = [leaseExpiresAt EXCEPT ![c.id] = 0]
    /\ Written(c.id)
    /\ seen' = [seen EXCEPT ![w] = @ \ {c}]
    /\ UNCHANGED <<request, attempt, availableAt, leaseToken, now, issued, pc,
                   stamp, lease, asked, history>>

LeaseClaim(w) ==
  \E c \in seen[w] :
    /\ pc[w] = "claim" /\ Turn(w, c) /\ Claimable(w, c)
    /\ state' = [state EXCEPT ![c.id] = "leased"]
    /\ attempt' = [attempt EXCEPT ![c.id] = @ + 1]
    /\ leaseToken' = [leaseToken EXCEPT ![c.id] = issued + 1]
    /\ leaseExpiresAt' = [leaseExpiresAt EXCEPT ![c.id] = stamp[w] + LeaseDuration]
    /\ lease' = [lease EXCEPT ![w] =
         [id |-> c.id, token |-> issued + 1, until |-> stamp[w] + LeaseDuration]]
    /\ issued' = issued + 1
    /\ pc' = [pc EXCEPT ![w] = "work"]
    /\ Written(c.id)
    /\ seen' = [seen EXCEPT ![w] = {}]
    /\ UNCHANGED <<request, availableAt, now, stamp, asked, history>>

\* Not for this worker, not due, or changed since the page was read.
LeasePass(w) ==
  \E c \in seen[w] :
    /\ pc[w] = "claim" /\ Turn(w, c)
    /\ ~Spent(w, c) /\ ~Claimable(w, c)
    /\ seen' = [seen EXCEPT ![w] = @ \ {c}]
    /\ UNCHANGED <<vars, revision>>

LeaseNone(w) ==
  /\ pc[w] = "claim" /\ seen[w] = {}
  /\ pc' = [pc EXCEPT ![w] = "idle"]
  /\ UNCHANGED <<row, now, issued, stamp, lease, asked, history, revision, seen>>

-----------------------------------------------------------------------------
(* Settling, cancelling and recovering: each writes the revision it read.   *)

AwsComplete(w) == Complete(w) /\ Written(lease[w].id) /\ UNCHANGED seen

AwsRetry(w, delay) == Retry(w, delay) /\ Written(lease[w].id) /\ UNCHANGED seen

AwsDeadLetter(w) == DeadLetter(w) /\ Written(lease[w].id) /\ UNCHANGED seen

AwsLeaseLost(w) == LeaseLost(w) /\ UNCHANGED <<revision, seen>>

AwsCrash(w) ==
  /\ Crash(w)
  /\ seen' = [seen EXCEPT ![w] = {}]
  /\ UNCHANGED revision

AwsCancel_MissingItem(id) ==
  /\ state' = [state EXCEPT ![id] = "cancelled"]
  /\ leaseExpiresAt' = [leaseExpiresAt EXCEPT ![id] = 0]
  /\ Written(id)
  /\ UNCHANGED <<request, attempt, availableAt, leaseToken, now, issued, pc,
                 stamp, lease, asked, history, seen>>

\* The code leaves the token (correlationId) of a job that is not leased in
\* place; nothing reads it there, and the model clears it.
AwsCancel(id) ==
  /\ id \in Rows
  /\ state' = [state EXCEPT ![id] = "cancelled"]
  /\ leaseExpiresAt' = [leaseExpiresAt EXCEPT ![id] = 0]
  /\ Written(id)
  /\ UNCHANGED <<request, attempt, availableAt, leaseToken, now, issued, pc,
                 stamp, lease, asked, history, seen>>

AwsRecover(id, delay) == Recover(id, delay) /\ Written(id) /\ UNCHANGED seen

Tick ==
  /\ now' = now + 1
  /\ UNCHANGED <<row, issued, pc, stamp, lease, asked, history, revision, seen>>

Worker(w) ==
  \/ LeaseList(w) \/ LeaseDeadLetter(w) \/ LeaseClaim(w) \/ LeasePass(w)
  \/ LeaseNone(w) \/ AwsComplete(w) \/ (\E delay \in Delays : AwsRetry(w, delay))
  \/ AwsDeadLetter(w) \/ AwsLeaseLost(w)

Enqueue(r) ==
  \/ EnqueueFound(r) \/ EnqueueMissing(r)
  \/ \E delay \in Delays : EnqueueCreate(r, delay)

Next ==
  \/ \E w \in Workers : Worker(w) \/ AwsCrash(w)
  \/ \E r \in Requests : Enqueue(r)
  \/ \E id \in Ids : AwsCancel(id) \/ \E delay \in Delays : AwsRecover(id, delay)
  \/ Tick

DynamoSpec == DynamoInit /\ [][Next]_dynamoVars
=============================================================================
