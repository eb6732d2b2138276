------------------------------ MODULE PublicWorks ------------------------------
(***************************************************************************)
(* A Work in the reference API: its uploads are processed by workers, it is *)
(* published, held for review and shown to the public                       *)
(* (apps/reference-api/src/server.ts, packages/api/src/publication.ts).     *)
(* Requests and workers interleave at every call of the store; only a       *)
(* transaction of the repositories is atomic.                               *)
(***************************************************************************)
EXTENDS Naturals, FiniteSets

CONSTANTS Assets,       \* files of the Work
          Workers, Publishers, Viewers,
          Keys,         \* idempotency keys of the publish requests
          Places,
          NoOne,        \* not a worker, key or destination
          MaxAttempts,  \* maxAttempts of a processing job
          MaxRecoveries,\* jobs brought back by an operator
          MaxHolds,     \* holds placed
          MaxPublishes, \* publish requests
          MaxFaults     \* crashes and failures

VARIABLES assets,      \* asset -> [status, revision, rendition]
          jobs,        \* asset -> its processing job
          workers,     \* worker -> what it does
          renditions,  \* objects stored: [asset, version]
          usage,       \* asset -> processing units charged
          work,        \* the Work: [status, revision]
          intents,     \* key -> the destination it was used for, or NoOne
          publications,\* live publications: [key, destination]
          publishers, viewers,
          holds,       \* subjects under an active hold
          placed, asked, recovered, faults

publicVars == <<assets, jobs, workers, renditions, usage, work, intents, publications, publishers, viewers, holds,
                placed, asked, recovered, faults>>
processingVars == <<assets, jobs, workers, renditions, usage>>
publishingVars == <<work, intents, publications, publishers>>
reviewVars == <<viewers, holds, placed>>

\* What a hold may be about.
Subjects == {"creator", "work"} \cup Assets
NoAsset == [status |-> "none", revision |-> 0, rendition |-> 0]
NoJob == [state |-> "none", attempt |-> 0, holder |-> NoOne]
Free == [pc |-> "idle", asset |-> NoOne, revision |-> 0, attempt |-> 0]
NoRequest == [pc |-> "idle", key |-> NoOne, destination |-> NoOne, revision |-> 0]
NoView == [pc |-> "idle", assets |-> {}, held |-> {}]

PublicInit ==
  /\ assets = [a \in Assets |-> NoAsset] /\ jobs = [a \in Assets |-> NoJob]
  /\ workers = [w \in Workers |-> Free] /\ renditions = {} /\ usage = [a \in Assets |-> 0]
  /\ work = [status |-> "draft", revision |-> 1] /\ intents = [k \in Keys |-> NoOne] /\ publications = {}
  /\ publishers = [p \in Publishers |-> NoRequest] /\ viewers = [v \in Viewers |-> NoView]
  /\ holds = {} /\ placed = 0 /\ asked = 0 /\ recovered = 0 /\ faults = 0

Fault == faults < MaxFaults /\ faults' = faults + 1

-----------------------------------------------------------------------------
(* Uploads and their processing.                                            *)

\* The upload's transaction stores the asset and enqueues its job.
CompleteUpload(a) ==
  /\ assets[a] = NoAsset
  /\ assets' = [assets EXCEPT ![a] = [status |-> "pending", revision |-> 1, rendition |-> 0]]
  /\ jobs' = [jobs EXCEPT ![a] = [NoJob EXCEPT !.state = "queued"]]
  /\ UNCHANGED <<workers, renditions, usage, publishingVars, reviewVars, asked, recovered, faults>>

Lease(w, a) ==
  /\ workers[w] = Free /\ jobs[a].state = "queued"
  /\ jobs' = [jobs EXCEPT ![a] = [state |-> "leased", attempt |-> @.attempt + 1, holder |-> w]]
  /\ workers' = [workers EXCEPT ![w] = [pc |-> "leased", asset |-> a, revision |-> 0, attempt |-> jobs[a].attempt + 1]]
  /\ UNCHANGED <<assets, renditions, usage, publishingVars, reviewVars, asked, recovered, faults>>
\* The lease of a crashed or slow worker runs out; with its attempts the job is dead.
LeaseLapses(a) ==
  /\ jobs[a].state = "leased"
  /\ jobs' = [jobs EXCEPT ![a] = [@ EXCEPT !.state = IF @ = "leased" /\ jobs[a].attempt >= MaxAttempts THEN "dead" ELSE "queued",
                                           !.holder = NoOne]]
  /\ UNCHANGED <<assets, workers, renditions, usage, publishingVars, reviewVars, asked, recovered, faults>>
\* complete, retry and deadLetter are the holder's alone.
Holds(w, a) == jobs[a].state = "leased" /\ jobs[a].holder = w /\ jobs[a].attempt = workers[w].attempt
Settled(w, state) ==
  LET a == workers[w].asset
  IN jobs' = IF Holds(w, a) THEN [jobs EXCEPT ![a] = [@ EXCEPT !.state = state, !.holder = NoOne]] ELSE jobs
Goes(w, pc) == workers' = [workers EXCEPT ![w].pc = pc]

ReadAsset(w) ==
  LET a == workers[w].asset
  IN /\ workers[w].pc = "leased"
     /\ workers' = [workers EXCEPT ![w].pc = IF assets[a].status = "ready" THEN "done" ELSE "read",
                                   ![w].revision = assets[a].revision]
     /\ UNCHANGED <<assets, jobs, renditions, usage, publishingVars, reviewVars, asked, recovered, faults>>
\* Each update compares the revision that was read.
Current_Trusted(w) == TRUE
Current(w) == assets[workers[w].asset].revision = workers[w].revision
StartProcessing(w) ==
  LET a == workers[w].asset
  IN /\ workers[w].pc = "read"
     /\ IF Current(w)
        THEN /\ assets' = [assets EXCEPT ![a].status = "processing", ![a].revision = @ + 1]
             /\ workers' = [workers EXCEPT ![w].pc = "processing", ![w].revision = assets[a].revision + 1]
        ELSE Goes(w, "failed") /\ UNCHANGED assets
     /\ UNCHANGED <<jobs, renditions, usage, publishingVars, reviewVars, asked, recovered, faults>>
\* Each attempt stores its rendition as a version of its own.
Rendition(w) == [asset |-> workers[w].asset, version |-> workers[w].revision]
StoreRendition(w) ==
  /\ workers[w].pc = "processing"
  /\ \/ Goes(w, "stored") /\ renditions' = renditions \cup {Rendition(w)} /\ UNCHANGED faults
     \/ Fault /\ Goes(w, "failed") /\ UNCHANGED renditions
  /\ UNCHANGED <<assets, jobs, usage, publishingVars, reviewVars, asked, recovered>>
\* One transaction: the asset is ready, its processing charged.
Finish(w) ==
  LET a == workers[w].asset
  IN /\ workers[w].pc = "stored"
     /\ IF Current(w)
        THEN /\ assets' = [assets EXCEPT ![a] = [status |-> "ready", revision |-> @.revision + 1, rendition |-> Rendition(w).version]]
             /\ usage' = [usage EXCEPT ![a] = 1] /\ Goes(w, "done")
        ELSE Goes(w, "failed") /\ UNCHANGED <<assets, usage>>
     /\ UNCHANGED <<jobs, renditions, publishingVars, reviewVars, asked, recovered, faults>>
CompleteJob(w) ==
  /\ workers[w].pc = "done" /\ Settled(w, "completed") /\ workers' = [workers EXCEPT ![w] = Free]
  /\ UNCHANGED <<assets, renditions, usage, publishingVars, reviewVars, asked, recovered, faults>>
Outcome_Completed(w) == "completed"
Outcome(w) == IF workers[w].attempt >= MaxAttempts THEN "dead" ELSE "queued"
FailJob(w) ==
  /\ workers[w].pc = "failed" /\ Settled(w, Outcome(w)) /\ workers' = [workers EXCEPT ![w] = Free]
  /\ UNCHANGED <<assets, renditions, usage, publishingVars, reviewVars, asked, recovered, faults>>
CrashWorker(w) ==
  /\ workers[w] # Free /\ Fault /\ workers' = [workers EXCEPT ![w] = Free]
  /\ UNCHANGED <<assets, jobs, renditions, usage, publishingVars, reviewVars, asked, recovered>>
\* An operator brings a dead job back.
RecoverJob(a) ==
  /\ jobs[a].state = "dead" /\ recovered < MaxRecoveries /\ recovered' = recovered + 1
  /\ jobs' = [jobs EXCEPT ![a].state = "queued"]
  /\ UNCHANGED <<assets, workers, renditions, usage, publishingVars, reviewVars, asked, faults>>
\* An operator cancels a job in any state: nothing leases or recovers it again, though a
\* worker that has it goes on.
CancelJob(a) ==
  /\ jobs[a].state \notin {"none", "cancelled"}
  /\ jobs' = [jobs EXCEPT ![a] = [@ EXCEPT !.state = "cancelled", !.holder = NoOne]]
  /\ UNCHANGED <<assets, workers, renditions, usage, publishingVars, reviewVars, asked, recovered, faults>>

-----------------------------------------------------------------------------
(* Holds: they bite on what is about a subject, in the order of the reads.  *)

PlaceHold(s) ==
  /\ s \notin holds /\ placed < MaxHolds /\ placed' = placed + 1 /\ holds' = holds \cup {s}
  /\ UNCHANGED <<processingVars, publishingVars, viewers, asked, recovered, faults>>
\* A viewer's `held' is for the property: what was held since its request came in.
ReleaseHold(s) ==
  /\ s \in holds /\ holds' = holds \ {s}
  /\ viewers' = [v \in Viewers |-> [viewers[v] EXCEPT !.held = @ \ {s}]]
  /\ UNCHANGED <<processingVars, publishingVars, placed, asked, recovered, faults>>
Clear_OfTheWork(files) == holds \cap {"creator", "work"} = {}
Clear(files) == holds \cap ({"creator", "work"} \cup files) = {}

-----------------------------------------------------------------------------
(* Publishing.                                                              *)

Uploaded == {a \in Assets : assets[a] # NoAsset}
Ready == {a \in Assets : assets[a].status = "ready"}
Asks(p, pc) == publishers' = [publishers EXCEPT ![p].pc = pc]
Ends(p) == publishers' = [publishers EXCEPT ![p] = NoRequest]
\* ownedWork reads the Work the request will write.
AskToPublish(p, k, d) ==
  /\ publishers[p] = NoRequest /\ asked < MaxPublishes /\ asked' = asked + 1
  /\ publishers' = [publishers EXCEPT ![p] = [pc |-> "asked", key |-> k, destination |-> d, revision |-> work.revision]]
  /\ UNCHANGED <<processingVars, work, intents, publications, reviewVars, recovered, faults>>
\* An answer already given under this key is given again, or refused for another request.
Replay(p) ==
  /\ publishers[p].pc = "asked"
  /\ IF intents[publishers[p].key] # NoOne THEN Ends(p) ELSE Asks(p, "new")
  /\ UNCHANGED <<processingVars, work, intents, publications, reviewVars, asked, recovered, faults>>
Finished == Uploaded # {} /\ Uploaded \subseteq Ready
CheckAssets(p) ==
  /\ publishers[p].pc = "new" /\ IF Finished THEN Asks(p, "finished") ELSE Ends(p)
  /\ UNCHANGED <<processingVars, work, intents, publications, reviewVars, asked, recovered, faults>>
Admit(p) ==
  /\ publishers[p].pc = "finished" /\ IF Clear(Uploaded) THEN Asks(p, "admitted") ELSE Ends(p)
  /\ UNCHANGED <<processingVars, work, intents, publications, reviewVars, asked, recovered, faults>>
\* One transaction, which a used key or a changed Work rolls back.
Creatable_Anyway(p) == TRUE
Creatable(p) == intents[publishers[p].key] = NoOne /\ work.revision = publishers[p].revision
Publish(p) ==
  /\ publishers[p].pc = "admitted" /\ Ends(p)
  /\ IF Creatable(p)
     THEN /\ intents' = [intents EXCEPT ![publishers[p].key] = publishers[p].destination]
          /\ publications' = publications \cup {[key |-> publishers[p].key, destination |-> publishers[p].destination]}
          /\ work' = [status |-> "published", revision |-> work.revision + 1]
     ELSE UNCHANGED <<intents, publications, work>>
  /\ UNCHANGED <<processingVars, reviewVars, asked, recovered, faults>>

-----------------------------------------------------------------------------
(* Showing: currentPublicWork reads the Work, its assets, its publications   *)
(* and the holds, one after the other, for a page and for each file.        *)

Sees(v, view) == viewers' = [viewers EXCEPT ![v] = view]
Opens(v) ==
  /\ viewers[v] = NoView /\ work.status = "published"
  /\ Sees(v, [pc |-> "work", assets |-> {}, held |-> holds])
  /\ UNCHANGED <<processingVars, publishingVars, holds, placed, asked, recovered, faults>>
ListAssets(v) ==
  /\ viewers[v].pc = "work"
  /\ IF Ready = {} THEN Sees(v, NoView) ELSE Sees(v, [viewers[v] EXCEPT !.pc = "listed", !.assets = Ready])
  /\ UNCHANGED <<processingVars, publishingVars, holds, placed, asked, recovered, faults>>
\* The last read decides: what is held is not found.
Admits(v) ==
  /\ viewers[v].pc = "listed"
  /\ IF publications # {} /\ Clear(viewers[v].assets) THEN Sees(v, [viewers[v] EXCEPT !.pc = "shown"]) ELSE Sees(v, NoView)
  /\ UNCHANGED <<processingVars, publishingVars, holds, placed, asked, recovered, faults>>
\* The page with its links, or the bytes of one file.
Respond(v) ==
  /\ viewers[v].pc = "shown" /\ Sees(v, NoView)
  /\ UNCHANGED <<processingVars, publishingVars, holds, placed, asked, recovered, faults>>

PublicNext ==
  \/ \E a \in Assets : CompleteUpload(a) \/ LeaseLapses(a) \/ RecoverJob(a) \/ CancelJob(a)
  \/ \E w \in Workers :
       \/ \E a \in Assets : Lease(w, a)
       \/ ReadAsset(w) \/ StartProcessing(w) \/ StoreRendition(w) \/ Finish(w) \/ CompleteJob(w) \/ FailJob(w) \/ CrashWorker(w)
  \/ \E s \in Subjects : PlaceHold(s) \/ ReleaseHold(s)
  \/ \E p \in Publishers :
       \/ \E k \in Keys, d \in Places : AskToPublish(p, k, d)
       \/ Replay(p) \/ CheckAssets(p) \/ Admit(p) \/ Publish(p)
  \/ \E v \in Viewers : Opens(v) \/ ListAssets(v) \/ Admits(v) \/ Respond(v)
PublicSpec == PublicInit /\ [][PublicNext]_publicVars

-----------------------------------------------------------------------------
PublicTypeOK ==
  /\ \A a \in Assets : assets[a].status \in {"none", "pending", "processing", "ready"}
  /\ \A a \in Assets : jobs[a].state \in {"none", "queued", "leased", "completed", "dead", "cancelled"} /\ jobs[a].holder \in Workers \cup {NoOne}
  /\ \A r \in renditions : r.asset \in Assets
  /\ holds \subseteq Subjects /\ \A k \in Keys : intents[k] \in Places \cup {NoOne}

\* An upload is never forgotten: until it is ready it has a job that runs, waits or is there
\* for an operator to bring back, wherever its workers stop (runNextJob); only an operator who
\* cancels the job leaves the upload as it is, for good.
NotForgotten == \A a \in Uploaded : assets[a].status # "ready" => jobs[a].state \in {"queued", "leased", "dead", "cancelled"}

\* A ready file has its rendition in store, and keeps the one it was first shown with, for
\* which links may have been given out, whatever a worker without its lease still does
\* (runNextJob).
RenditionKept ==
  \A a \in Assets : assets[a].status = "ready" =>
    [asset |-> a, version |-> assets[a].rendition] \in renditions /\ assets'[a] = assets[a]

\* A key stands for one publication, which is there with its intent and a published Work or
\* not at all, however requests overlap (PublicationService.publish).
KeyPublishesOnce ==
  /\ \A x, y \in publications : x.key = y.key => x = y
  /\ \A k \in Keys : intents[k] # NoOne <=> [key |-> k, destination |-> intents[k]] \in publications
  /\ publications # {} => work.status = "published"

\* Nothing is shown that was under review from the moment the request came in, though the
\* Work may have been published in spite of it (currentPublicWork).
HeldNotShown ==
  \A v \in Viewers : viewers[v].pc = "shown" =>
    viewers[v].held \cap ({"creator", "work"} \cup viewers[v].assets) = {}
===============================================================================
