------------------------------ MODULE WorkAssets ------------------------------
(***************************************************************************)
(* The media of a creator's Works and the jobs that process it: the asset  *)
(* services of packages/core/src/creator-assets.ts and                     *)
(* creator-asset-regeneration.ts, the transactions of                      *)
(* LocalCreatorLibraryStore (adapters/local/src/creator-library.ts) and    *)
(* CreatorAssetWorker (packages/processing/src/creator-asset-worker.ts).   *)
(*                                                                         *)
(* Each service reads the Work, answers from that, and commits with the    *)
(* revision it read.  Positions of the media are their places in the       *)
(* sequence.  An asset has one stored source; crops and the bytes of       *)
(* renditions are left out.  Jobs are numbered in the order they enter.    *)
(***************************************************************************)
EXTENDS Naturals, FiniteSets, Sequences, SequencesExt

CONSTANTS LibraryWorks, Assets, NoAsset,
          Clients, Workers,
          Regenerations,     \* requestId of a regeneration
          MaxJobs,      \* bound: jobs; 0 when the store queues no processing
          MaxAttempts,
          MaxCommits   \* bound: commits to one Work

VARIABLES
  workRecord,    \* revision, status, primaryAssetId, the assets its content refers to
  media,   \* its attachments in order
  lead,    \* the attachments with role "primary"
  asset,   \* stored, processingJobId (0: none), job of the current result (0: none)
  job,     \* by number: state, payload, key, attempt
  client,  \* each request: what it asks for and the Work it read
  worker   \* each worker: its step and lease

assetVars == <<workRecord, media, lead, asset, job, client, worker>>
library == <<workRecord, media, lead>>

NoRequest == "first"
JobIds == 1..MaxJobs
NoJob == [state |-> "none", work |-> CHOOSE w \in LibraryWorks : TRUE, asset |-> CHOOSE a \in Assets : TRUE, key |-> NoRequest, attempt |-> 0]
Active == {"queued", "leased", "lapsed", "retry_scheduled"}
Away == [at |-> "idle"]
Media(w) == ToSet(media[w])

AssetInit ==
  /\ workRecord = [w \in LibraryWorks |-> [revision |-> 1, status |-> "draft", primary |-> NoAsset, refs |-> {}]]
  /\ media = [w \in LibraryWorks |-> <<>>] /\ lead = [w \in LibraryWorks |-> {}]
  /\ asset = [a \in Assets |-> [stored |-> FALSE, admitted |-> 0, result |-> 0]]
  /\ job = [j \in JobIds |-> NoJob]
  /\ client = [c \in Clients |-> Away] /\ worker = [k \in Workers |-> Away]

-----------------------------------------------------------------------------
(* The services: what each asks the store to commit.                        *)

\* works.get and the checks every service makes on what it read
Reads(c, w, op, input) ==
  /\ client[c] = Away /\ workRecord[w].revision < MaxCommits
  /\ client' = [client EXCEPT ![c] = [at |-> op, work |-> w, seen |-> workRecord[w], input |-> input]]
  /\ UNCHANGED <<library, asset, job, worker>>

AskAttach(c, w, a) == /\ workRecord[w].status # "deleted" /\ ~asset[a].stored
                      /\ Reads(c, w, "attach", [asset |-> a])

AskAttachExisting(c, w, source, a) ==
  /\ \A v \in {w, source} : workRecord[v].status = "draft"
  /\ Reads(c, w, "existing", [asset |-> a, source |-> source])

AskPrimary(c, w, a) == workRecord[w].status # "deleted" /\ a \in Media(w) /\ Reads(c, w, "primary", [asset |-> a])

AskDetach(c, w, a) == workRecord[w].status # "deleted" /\ a \notin workRecord[w].refs /\ Reads(c, w, "detach", [asset |-> a])

AskOrder(c, w, order) ==
  workRecord[w].status # "deleted" /\ ToSet(order) = Media(w) /\ Reads(c, w, "order", [order |-> order])

AskRegenerate(c, w, a, request) == Reads(c, w, "regenerate", [asset |-> a, request |-> request])

\* CreatorWorkService.revise: content and status, on the Work that was read
AskRevise(c, w, refs, status) == Reads(c, w, "revise", [refs |-> refs, status |-> status])

-----------------------------------------------------------------------------
(* The store: each commit is one transaction.                               *)

\* The commit overwrites whatever is there.
CommitsWork_Unconditionally(c, ok, next, order, leading) ==
  LET w == client[c].work
  IN IF ok
       THEN /\ workRecord' = [workRecord EXCEPT ![w] = [next EXCEPT !.revision = workRecord[w].revision + 1]]
            /\ media' = [media EXCEPT ![w] = order] /\ lead' = [lead EXCEPT ![w] = leading]
       ELSE UNCHANGED library

\* The Work as client c read it, so that `next' is built from the stored one.
CommitsWork(c, ok, next, order, leading) ==
  LET w == client[c].work
  IN IF ok /\ workRecord[w].revision = client[c].seen.revision /\ workRecord[w].status # "deleted"
       THEN /\ workRecord' = [workRecord EXCEPT ![w] = [next EXCEPT !.revision = workRecord[w].revision + 1]]
            /\ media' = [media EXCEPT ![w] = order] /\ lead' = [lead EXCEPT ![w] = leading]
       ELSE UNCHANGED library

Committed(w) == workRecord'[w] # workRecord[w]

First(w, a) == IF workRecord[w].primary = NoAsset THEN a ELSE workRecord[w].primary

\* enqueueSync under an idempotency key, and the asset's processingJobId
Enters(w, a, key, admitted) ==
  \E j \in JobIds :
    /\ job[j].state = "none" /\ \A i \in 1..j - 1 : job[i].state # "none"
    /\ job' = [job EXCEPT ![j] = [state |-> "queued", work |-> w, asset |-> a, key |-> key, attempt |-> 0]]
    /\ asset' = [asset EXCEPT ![a] = [asset[a] EXCEPT !.stored = TRUE, !.admitted = IF admitted THEN j ELSE asset[a].admitted]]

\* commitAssetAttachment: the role was chosen from the Work that was read.
CommitAttach(c) ==
  LET w == client[c].work
      a == client[c].input.asset
      chosen == IF client[c].seen.primary = NoAsset THEN {a} ELSE {}
  IN /\ CommitsWork(c, ~asset[a].stored, [workRecord[w] EXCEPT !.primary = First(w, a)], Append(media[w], a), lead[w] \cup chosen)
     /\ IF ~Committed(w) THEN UNCHANGED <<asset, job>>
        ELSE IF MaxJobs > 0 THEN Enters(w, a, NoRequest, FALSE)
        ELSE asset' = [asset EXCEPT ![a].stored = TRUE, ![a].result = 1] /\ UNCHANGED job \* processing is left out of this instance

\* commitExistingAssetAttachment
CommitAttachExisting(c) ==
  LET w == client[c].work
      a == client[c].input.asset
      first == First(w, a)
  IN /\ CommitsWork(c, /\ a \notin Media(w) /\ a \in Media(client[c].input.source) /\ asset[a].result # 0
                   /\ workRecord[w].status = "draft" /\ workRecord[client[c].input.source].status = "draft",
                [workRecord[w] EXCEPT !.primary = first], Append(media[w], a), lead[w] \cup ({a} \cap {first}))
     /\ UNCHANGED <<asset, job>>

CommitPrimary(c) ==
  LET w == client[c].work
      a == client[c].input.asset
  IN /\ CommitsWork(c, a \in Media(w), [workRecord[w] EXCEPT !.primary = a], media[w], {a})
     /\ UNCHANGED <<asset, job>>

\* filter: media are attached once, so one place is left out.
Without(order, a) == RemoveAt(order, CHOOSE i \in 1..Len(order) : order[i] = a)

\* The Work keeps pointing at the asset that leaves.
Left_Primary(w, a) == workRecord[w].primary

\* The first of what remains, when the primary asset leaves.
Left(w, a) ==
  LET remaining == Without(media[w], a)
  IN IF workRecord[w].primary \in ToSet(remaining) THEN workRecord[w].primary
     ELSE IF remaining = <<>> THEN NoAsset ELSE remaining[1]

\* commitAssetDetachment also cancels the jobs of this attachment.
CommitDetach(c) ==
  LET w == client[c].work
      a == client[c].input.asset
  IN /\ CommitsWork(c, a \in Media(w) /\ a \notin workRecord[w].refs, [workRecord[w] EXCEPT !.primary = Left(w, a)],
                Without(media[w], a), {Left(w, a)} \ {NoAsset})
     /\ job' = [j \in JobIds |-> IF Committed(w) /\ job[j].state \in Active /\ job[j].work = w /\ job[j].asset = a
                                   THEN [job[j] EXCEPT !.state = "cancelled"] ELSE job[j]]
     /\ UNCHANGED asset

CommitOrder(c) ==
  LET w == client[c].work
      order == client[c].input.order
  IN /\ CommitsWork(c, ToSet(order) = Media(w), workRecord[w], order, lead[w])
     /\ UNCHANGED <<asset, job>>

\* enqueueAssetRegeneration: a repeated request answers with its job.
CommitRegenerate(c) ==
  LET w == client[c].work
      a == client[c].input.asset
      same == {j \in JobIds : job[j].work = w /\ job[j].asset = a /\ job[j].key = client[c].input.request}
      busy == \E j \in JobIds : job[j].state \in Active /\ job[j].asset = a
  IN /\ IF /\ workRecord[w].status # "deleted" /\ a \in Media(w) /\ workRecord[w].revision = client[c].seen.revision
           /\ same = {} /\ ~busy
          THEN Enters(w, a, client[c].input.request, TRUE)
          ELSE UNCHANGED <<asset, job>>
     /\ UNCHANGED library

\* References are not checked against the attachments.
Refers_Anything(w, refs) == TRUE

\* validWorkAssetReferences
Refers(w, refs) == refs \subseteq Media(w)

\* updateWork: the record is the one that was read, edited.
CommitRevise(c) ==
  LET w == client[c].work
      new == client[c].input
  IN /\ workRecord' = IF workRecord[w].revision = client[c].seen.revision /\ Refers(w, new.refs)
                  THEN [workRecord EXCEPT ![w] = [client[c].seen EXCEPT !.revision = client[c].seen.revision + 1, !.refs = new.refs,
                                                                  !.status = new.status]]
                  ELSE workRecord
     /\ UNCHANGED <<media, lead, asset, job>>

CommitRequest(c) ==
  /\ \/ client[c].at = "attach" /\ CommitAttach(c)
     \/ client[c].at = "existing" /\ CommitAttachExisting(c)
     \/ client[c].at = "primary" /\ CommitPrimary(c)
     \/ client[c].at = "detach" /\ CommitDetach(c)
     \/ client[c].at = "order" /\ CommitOrder(c)
     \/ client[c].at = "regenerate" /\ CommitRegenerate(c)
     \/ client[c].at = "revise" /\ CommitRevise(c)
  /\ client' = [client EXCEPT ![c] = Away]
  /\ UNCHANGED worker

-----------------------------------------------------------------------------
(* CreatorAssetWorker.runNext                                               *)

Leasable(j) == job[j].state \in {"queued", "retry_scheduled", "lapsed"}

\* A lapsed lease is taken over whatever its attempt.
LeaseJob_NoBudget(k, j) ==
  /\ worker[k] = Away /\ Leasable(j)
  /\ job' = [job EXCEPT ![j].state = "leased", ![j].attempt = @ + 1]
  /\ worker' = [worker EXCEPT ![k] = [at |-> "process", job |-> j, token |-> job[j].attempt + 1]]
  /\ UNCHANGED <<library, asset, client>>

\* A lapsed lease of an exhausted job ends in dead_lettered instead.
LeaseJob(k, j) ==
  /\ worker[k] = Away /\ Leasable(j)
  /\ IF job[j].state = "lapsed" /\ job[j].attempt >= MaxAttempts
       THEN job' = [job EXCEPT ![j].state = "dead_lettered"] /\ UNCHANGED worker
       ELSE /\ job' = [job EXCEPT ![j].state = "leased", ![j].attempt = @ + 1]
            /\ worker' = [worker EXCEPT ![k] = [at |-> "process", job |-> j, token |-> job[j].attempt + 1]]
  /\ UNCHANGED <<library, asset, client>>

LeaseLapses(j) ==
  /\ job[j].state = "leased"
  /\ job' = [job EXCEPT ![j].state = "lapsed"]
  /\ UNCHANGED <<library, asset, client, worker>>

\* state = 'leased' and the lease token is the worker's
Holds(k) == job[worker[k].job].state = "leased" /\ job[worker[k].job].attempt = worker[k].token

\* Any lease of the job will do.
Fits_AnyLease(k) ==
  LET j == worker[k].job
  IN job[j].state = "leased" /\ asset[job[j].asset].admitted \in {0, j}
     /\ workRecord[job[j].work].status # "deleted" /\ job[j].asset \in Media(job[j].work)

\* Any admitted job may store its result.
Fits_AnyJob(k) ==
  LET j == worker[k].job
  IN Holds(k) /\ workRecord[job[j].work].status # "deleted" /\ job[j].asset \in Media(job[j].work)

Fits(k) ==
  LET j == worker[k].job
  IN /\ Holds(k) /\ asset[job[j].asset].admitted \in {0, j}
     /\ workRecord[job[j].work].status # "deleted" /\ job[j].asset \in Media(job[j].work)

\* commitAssetProcessing: the result and the end of the job in one transaction
CommitProcessing(k) ==
  LET j == worker[k].job
  IN /\ worker[k].at = "process"
     /\ IF Fits(k)
          THEN /\ asset' = [asset EXCEPT ![job[j].asset].result = j]
               /\ job' = [job EXCEPT ![j].state = "completed"]
               /\ worker' = [worker EXCEPT ![k] = Away]
          ELSE worker' = [worker EXCEPT ![k].at = "failed"] /\ UNCHANGED <<asset, job>>
     /\ UNCHANGED <<library, client>>

\* The source cannot be read, its bytes or the output are refused, or a step fails.
ProcessingFails(k) ==
  /\ worker[k].at = "process"
  /\ worker' = [worker EXCEPT ![k].at = "failed"]
  /\ UNCHANGED <<library, asset, job, client>>

\* retry, or deadLetter after the last attempt; both need the lease.
Fail(k) ==
  LET j == worker[k].job
  IN /\ worker[k].at = "failed"
     /\ job' = IF Holds(k)
                 THEN [job EXCEPT ![j].state = IF worker[k].token >= MaxAttempts THEN "dead_lettered" ELSE "retry_scheduled"]
                 ELSE job
     /\ worker' = [worker EXCEPT ![k] = Away]
     /\ UNCHANGED <<library, asset, client>>

CrashWorker(k) ==
  /\ worker[k] # Away
  /\ worker' = [worker EXCEPT ![k] = Away]
  /\ UNCHANGED <<library, asset, job, client>>

\* An operator recovers the job: its attempts are not reset.
RecoverJob(j) ==
  /\ job[j].state \in {"retry_scheduled", "dead_lettered"} /\ job[j].attempt <= MaxAttempts \* bound
  /\ job' = [job EXCEPT ![j].state = "queued"]
  /\ UNCHANGED <<library, asset, client, worker>>

AssetNext ==
  \/ \E c \in Clients :
       \/ \E w \in LibraryWorks, a \in Assets :
            \/ AskAttach(c, w, a) \/ AskPrimary(c, w, a) \/ AskDetach(c, w, a)
            \/ \E source \in LibraryWorks \ {w} : AskAttachExisting(c, w, source, a)
            \/ \E request \in Regenerations : AskRegenerate(c, w, a, request)
       \/ \E w \in LibraryWorks : \/ \E order \in SetToSeqs(Media(w)) : AskOrder(c, w, order)
                           \/ \E refs \in SUBSET Assets, status \in {"draft", "archived", "deleted"} : AskRevise(c, w, refs, status)
       \/ CommitRequest(c)
  \/ \E k \in Workers : (\E j \in JobIds : LeaseJob(k, j)) \/ CommitProcessing(k) \/ ProcessingFails(k) \/ Fail(k) \/ CrashWorker(k)
  \/ \E j \in JobIds : LeaseLapses(j) \/ RecoverJob(j)

AssetSpec == AssetInit /\ [][AssetNext]_assetVars

AssetTypeOK ==
  /\ workRecord \in [LibraryWorks -> [revision : 1..MaxCommits, status : {"draft", "archived", "deleted"},
                         primary : Assets \cup {NoAsset}, refs : SUBSET Assets]]
  /\ lead \in [LibraryWorks -> SUBSET Assets] /\ \A w \in LibraryWorks : Media(w) \subseteq Assets
  /\ asset \in [Assets -> [stored : BOOLEAN, admitted : 0..MaxJobs, result : 0..(MaxJobs + 1)]]
  /\ \A j \in JobIds : job[j].attempt \in 0..(MaxAttempts + 1)

\* What readers of a Work rely on, whichever edits overlap: its content refers to attached
\* media only, each asset is attached once, and while there are any the primary asset is
\* one of them and the only one with that role (validWorkAssetReferences, the commits).
MediaConsistent ==
  \A w \in LibraryWorks :
    /\ workRecord[w].refs \subseteq Media(w) /\ Len(media[w]) = Cardinality(Media(w))
    /\ IF media[w] = <<>> THEN workRecord[w].primary = NoAsset /\ lead[w] = {}
       ELSE workRecord[w].primary \in Media(w) /\ lead[w] = {workRecord[w].primary}
    /\ \A a \in Media(w) : asset[a].stored

\* A job that is completed has stored its result once, under a lease, for media still
\* attached; no result of an older job replaces one of a later job, though an operator may
\* have revived the older one (commitAssetProcessing).
ResultsFenced ==
  /\ \A a \in Assets : asset'[a].result # asset[a].result /\ MaxJobs > 0 =>
       LET j == asset'[a].result
       IN j > asset[a].result /\ job[j].state = "leased" /\ job'[j].state = "completed" /\ a \in Media(job[j].work)
  /\ \A j \in JobIds : job[j].state = "completed" => job'[j].state = "completed"

\* A lease that is over stores nothing: only the holder of the current one ends the job.
OnlyHolderEnds ==
  \A j \in JobIds : job'[j].state = "completed" /\ job[j].state # "completed"
    => \E k \in Workers : worker'[k] = Away /\ worker[k] # Away /\ worker[k].job = j /\ worker[k].token = job[j].attempt
=============================================================================
