---------------------------- MODULE WebsiteBuilds ----------------------------
(***************************************************************************)
(* Builds of a website: WebsiteService.requestBuild, the durable worker's  *)
(* execute, invalidate, and the artifact a reader is given.  The website,  *)
(* its builds and its sources change under each of them; builds are saved  *)
(* with a compared revision.                                               *)
(***************************************************************************)
EXTENDS Naturals, FiniteSets

CONSTANTS Keys,         \* idempotency keys: one build each
          Clients,      \* sessions that request builds
          Readers,      \* sessions that read an artifact
          Workers,      \* workers of the job queue
          MaxAttempts,  \* attempts of a build job
          MaxSite, MaxWithdrawals

VARIABLES site,         \* current revision of the website
          source,       \* "eligible" or "held": what its release depends on
          swept,        \* invalidate has run since the source was held
          build, job,   \* per key: the record and its durable job
          artifacts,    \* digests stored; a digest stands for a build's bytes
          client, reader, worker, sweeper, withdrawals

buildVars == <<site, source, swept, build, job, artifacts, client, reader, worker, sweeper, withdrawals>>

Terminal == {"ready", "failed"}
States == {"none", "queued", "resolving", "validating", "rendering", "packaging"} \cup Terminal
world == <<site, source, swept, sweeper, withdrawals>>
records == <<build, job, artifacts>>
sessions == <<client, reader>>
NoBuild == [revision |-> 0, state |-> "none", site |-> 0, deps |-> FALSE, invalidated |-> FALSE]
Idle == [at |-> "idle"]
NoJob == [state |-> "none", attempts |-> 0, token |-> 0]

BuildInit ==
  /\ site = 1 /\ source = "eligible" /\ swept = FALSE
  /\ build = [k \in Keys |-> NoBuild] /\ job = [k \in Keys |-> NoJob] /\ artifacts = {}
  /\ client = [c \in Clients |-> Idle] /\ reader = [r \in Readers |-> Idle]
  /\ worker = [w \in Workers |-> Idle] /\ sweeper = Idle
  /\ withdrawals = 0

\* saveBuild: a record is created once, and replaced only over the revision that was read, so
\* a holder of that revision changes the record as it is stored.
Saves_Blind(k, expected) == TRUE
Saves(k, expected) == build[k].revision = expected
Saved(k, record, expected) ==
  IF Saves(k, expected) THEN [build EXCEPT ![k] = [record EXCEPT !.revision = expected + 1]] ELSE build

-----------------------------------------------------------------------------
(* The world around: the website is edited, its sources are held and released. *)
EditSite == /\ site < MaxSite /\ site' = site + 1
            /\ UNCHANGED <<records, sessions, source, swept, worker, sweeper, withdrawals>>
Hold == /\ source = "eligible" /\ withdrawals < MaxWithdrawals
        /\ source' = "held" /\ swept' = FALSE /\ withdrawals' = withdrawals + 1
        /\ reader' = [r \in Readers |-> IF reader[r].at = "loading" THEN [reader[r] EXCEPT !.held = TRUE] ELSE reader[r]]
        /\ UNCHANGED <<records, site, client, worker, sweeper>>
Release == /\ source = "held" /\ source' = "eligible" /\ swept' = FALSE
           /\ reader' = [r \in Readers |-> IF reader[r].at = "idle" THEN Idle ELSE [reader[r] EXCEPT !.held = FALSE]]
           /\ UNCHANGED <<records, site, client, worker, sweeper, withdrawals>>

\* invalidate: the builds are listed, then each that depends on the source is marked; the
\* first whose record has changed since ends the call.
List == /\ sweeper.at = "idle" /\ source = "held" /\ ~swept
        /\ sweeper' = [at |-> "marking", since |-> withdrawals,
                       left |-> {<<k, build[k].revision>> : k \in {l \in Keys : build[l].deps /\ ~build[l].invalidated}}]
        /\ UNCHANGED <<records, sessions, site, source, swept, worker, withdrawals>>
Mark == /\ sweeper.at = "marking" /\ sweeper.left # {}
        /\ \E l \in sweeper.left :
             /\ build' = Saved(l[1], [build[l[1]] EXCEPT !.invalidated = TRUE], l[2])
             /\ sweeper' = IF Saves(l[1], l[2]) THEN [sweeper EXCEPT !.left = @ \ {l}] ELSE Idle
        /\ UNCHANGED <<sessions, site, source, swept, job, artifacts, worker, withdrawals>>
Swept == /\ sweeper.at = "marking" /\ sweeper.left = {}
         /\ sweeper' = Idle
         /\ swept' = (source = "held" /\ sweeper.since = withdrawals)
         /\ UNCHANGED <<records, sessions, site, source, worker, withdrawals>>

-----------------------------------------------------------------------------
(* requestBuild *)
Request(c) == /\ client[c].at = "idle"
              /\ \E k \in Keys, r \in 1..site :
                   \* A key that names another revision is refused.
                   /\ build[k].state # "none" => build[k].site = r
                   /\ build[k].state = "none" => site = r /\ source = "eligible"
                   /\ client' = [client EXCEPT ![c] =
                        [at |-> "asked", key |-> k, site |-> r, fresh |-> build[k].state = "none",
                         state |-> build[k].state]]
              /\ UNCHANGED <<world, records, reader, worker>>
\* The new record is saved; where another request was first, its record is the answer if it
\* is of the same revision.
Answer_Any(c) == TRUE
Answer(c) == build[client[c].key].site = client[c].site
Create(c) == /\ client[c].at = "asked" /\ client[c].fresh
             /\ LET k == client[c].key IN
                  IF Saves(k, 0)
                  THEN /\ build' = Saved(k, [NoBuild EXCEPT !.state = "queued", !.site = client[c].site], 0)
                       /\ client' = [client EXCEPT ![c].fresh = FALSE, ![c].state = "queued"]
                  ELSE /\ build' = build
                       /\ client' = [client EXCEPT ![c] = IF Answer(c)
                            THEN [@ EXCEPT !.fresh = FALSE, !.state = build[k].state] ELSE Idle]
             /\ UNCHANGED <<world, job, artifacts, reader, worker>>
\* A queued build is handed to the queue, once per build however often it is asked for.
Enqueue(c) == /\ client[c].at = "asked" /\ ~client[c].fresh
              /\ LET k == client[c].key IN
                   job' = IF client[c].state = "queued" /\ job[k].state = "none"
                          THEN [job EXCEPT ![k].state = "queued"] ELSE job
              /\ client' = [client EXCEPT ![c] = Idle]
              /\ UNCHANGED <<world, build, artifacts, reader, worker>>

-----------------------------------------------------------------------------
(* execute, by the worker that leased the job *)
At(w, step) == worker[w].at = step
Stays == UNCHANGED <<world, artifacts, sessions>>
\* The job ends with the attempt; a late answer of a worker whose lease was taken changes nothing.
Settled(w, outcome) ==
  LET k == worker[w].key IN
  IF job[k].state = "leased" /\ job[k].token = worker[w].token
  THEN [job EXCEPT ![k].state = IF outcome = "done" THEN "done"
                                ELSE IF job[k].attempts < MaxAttempts THEN "queued" ELSE "dead"]
  ELSE job
Finish(w, outcome) == job' = Settled(w, outcome) /\ worker' = [worker EXCEPT ![w] = Idle]

Lease(w) == /\ At(w, "idle")
            /\ \E k \in Keys : /\ job[k].state = "queued"
                               /\ job' = [job EXCEPT ![k] = [state |-> "leased", attempts |-> @.attempts + 1,
                                                             token |-> @.token + 1]]
                               /\ worker' = [worker EXCEPT ![w] = [at |-> "leased", key |-> k, token |-> job[k].token + 1]]
            /\ UNCHANGED build /\ Stays
\* The build as execute reads it; one that has ended is answered as it is.
Load(w) == /\ At(w, "leased")
           /\ LET b == build[worker[w].key] IN
                IF b.state \in Terminal THEN Finish(w, "done")
                ELSE job' = job /\ worker' = [worker EXCEPT ![w] = [at |-> "loaded", key |-> @.key, token |-> @.token,
                                                                revision |-> b.revision, marked |-> b.invalidated]]
           /\ UNCHANGED build /\ Stays
\* transition(): a change saved over the revision this execution holds.  Over one that was
\* changed meanwhile it fails, and so does the failure it would record.
Change(w, next, record) ==
  LET k == worker[w].key
      held == worker[w].revision
  IN /\ build' = Saved(k, record, held)
     /\ IF Saves(k, held)
        THEN job' = job /\ worker' = [worker EXCEPT ![w].at = next, ![w].revision = held + 1]
        ELSE Finish(w, "error")
     /\ Stays
Transition(w, state, next) == Change(w, next, [build[worker[w].key] EXCEPT !.state = state])
Fail(w) ==
  LET k == worker[w].key IN
  /\ build' = Saved(k, [build[k] EXCEPT !.state = "failed"], worker[w].revision)
  /\ Finish(w, IF Saves(k, worker[w].revision) THEN "done" ELSE "error")
  /\ Stays
\* A port that cannot answer, for a reason the composition calls retryable.
Gives(w) == Finish(w, "error") /\ UNCHANGED build /\ Stays

Resolve(w) == At(w, "loaded") /\ Transition(w, "resolving", "resolving")
\* Authority, revision, the sources and their eligibility, before anything is generated.
Eligible_Always(w) == TRUE
Eligible(w) == source = "eligible"
Fit(w) == ~worker[w].marked /\ site = build[worker[w].key].site /\ source = "eligible"
Inspect(w) == /\ At(w, "resolving")
              /\ \/ Fit(w) /\ worker' = [worker EXCEPT ![w].at = "inspected"] /\ UNCHANGED <<build, job>> /\ Stays
                 \/ ~Fit(w) /\ Fail(w)
                 \/ Gives(w)
Validate(w) == At(w, "inspected")
               /\ Change(w, "validating", [build[worker[w].key] EXCEPT !.state = "validating", !.deps = TRUE])
Render(w) == At(w, "validating") /\ Transition(w, "rendering", "rendering")
Package(w) == At(w, "rendering") /\ Transition(w, "packaging", "packaging")
Recheck(w) == /\ At(w, "packaging")
              /\ \/ /\ Eligible(w) /\ worker' = [worker EXCEPT ![w].at = "clear"] /\ UNCHANGED <<build, job>> /\ Stays
                 \/ /\ source # "eligible" /\ Fail(w)
                 \/ Gives(w)
\* putArtifact, before the build is announced.
Bytes_Later(w) == {}
Bytes(w) == {worker[w].key}
Store(w) == /\ At(w, "clear")
            /\ artifacts' = artifacts \cup Bytes(w)
            /\ worker' = [worker EXCEPT ![w].at = "stored"]
            /\ UNCHANGED <<world, sessions, build, job>>
Announce(w) == At(w, "stored") /\ Transition(w, "ready", "announced")
\* The audit record; its failure leaves the build ready and the job to be tried again.
Audit(w) == /\ At(w, "announced") /\ \E outcome \in {"done", "error"} : Finish(w, outcome)
            /\ UNCHANGED build /\ Stays

\* A lease runs out, its worker stalled or dead: the job is offered again within its attempts.
Expire == /\ \E k \in Keys :
               /\ job[k].state = "leased"
               /\ job' = [job EXCEPT ![k].state = IF @ = "leased" /\ job[k].attempts < MaxAttempts THEN "queued" ELSE "dead"]
          /\ UNCHANGED <<build, worker>> /\ Stays
Crash(w) == /\ ~At(w, "idle") /\ worker' = [worker EXCEPT ![w] = Idle]
            /\ UNCHANGED <<build, job>> /\ Stays

-----------------------------------------------------------------------------
(* artifact(): checks, bytes, checks again *)
Open(r) == /\ reader[r].at = "idle"
           /\ \E k \in Keys : /\ build[k].state = "ready" /\ ~build[k].invalidated /\ source = "eligible"
                              /\ reader' = [reader EXCEPT ![r] = [at |-> "loading", key |-> k, held |-> FALSE]]
           /\ UNCHANGED <<world, records, client, worker>>
Loaded(r) == /\ reader[r].at = "loading" /\ reader[r].key \in artifacts
             /\ reader' = [reader EXCEPT ![r].at = "loaded"]
             /\ UNCHANGED <<world, records, client, worker>>
Still_Unchecked(r) == TRUE
Still(r) == source = "eligible"
Reconsider(r) == /\ reader[r].at = "loaded"
                 /\ reader' = [reader EXCEPT ![r] = IF Still(r) THEN [@ EXCEPT !.at = "passed"] ELSE Idle]
                 /\ UNCHANGED <<world, records, client, worker>>
\* The build is read once more, and the bytes go out.
Deliver(r) == /\ reader[r].at = "passed"
              /\ LET b == build[reader[r].key] IN
                   reader' = [reader EXCEPT ![r] = IF b.state = "ready" /\ ~b.invalidated
                                                   THEN [@ EXCEPT !.at = "delivered"] ELSE Idle]
              /\ UNCHANGED <<world, records, client, worker>>
Close(r) == /\ reader[r].at = "delivered" /\ reader' = [reader EXCEPT ![r] = Idle]
            /\ UNCHANGED <<world, records, client, worker>>

Execute(w) == \/ Lease(w) \/ Load(w) \/ Resolve(w) \/ Inspect(w) \/ Validate(w) \/ Render(w)
              \/ Package(w) \/ Recheck(w) \/ Store(w) \/ Announce(w) \/ Audit(w)
BuildNext ==
  \/ EditSite \/ Hold \/ Release \/ List \/ Mark \/ Swept \/ Expire
  \/ \E c \in Clients : Request(c) \/ Create(c) \/ Enqueue(c)
  \/ \E r \in Readers : Open(r) \/ Loaded(r) \/ Reconsider(r) \/ Deliver(r) \/ Close(r)
  \/ \E w \in Workers : Execute(w) \/ Crash(w)
BuildSpec == BuildInit /\ [][BuildNext]_buildVars

-----------------------------------------------------------------------------
BuildTypeOK ==
  /\ site \in 1..MaxSite /\ source \in {"eligible", "held"} /\ swept \in BOOLEAN
  /\ \A k \in Keys : /\ build[k].state \in States /\ build[k].site \in 0..MaxSite
                     /\ job[k].state \in {"none", "queued", "leased", "done", "dead"}
                     /\ job[k].attempts \in 0..MaxAttempts
  /\ artifacts \subseteq Keys
  /\ \A w \in Workers : worker[w].at # "idle" => worker[w].key \in Keys

\* What a completed invalidation reached stays reached: while the source is held, no build
\* that rests on it is ready and unmarked, whatever executions were under way when the
\* builds were listed (invalidate against execute, over saveBuild).
WithdrawnStaysOut ==
  swept => \A k \in Keys : build[k].state = "ready" => build[k].invalidated

\* Bytes held back while they were being loaded are not delivered (artifact: "Revalidate
\* after loading and inspecting bytes").
HeldNotDelivered == \A r \in Readers : reader[r].at = "delivered" => ~reader[r].held

\* A build that is ready has its bytes in the store, wherever its worker stopped (execute).
ReadyIsStored == \A k \in Keys : build[k].state = "ready" => k \in artifacts

\* A build that has ended stays as it ended, even for an execution that a lapsed lease left
\* behind; only the mark of an invalidation is added.
EndsOnce ==
  \A k \in Keys : build[k].state \in Terminal =>
    build'[k].state = build[k].state /\ (build[k].invalidated => build'[k].invalidated)

\* Whoever asks for a build of a revision is answered with a build of that revision, also
\* when two sessions use one key at once (requestBuild).
AnswersMatch == \A c \in Clients : client[c].at = "asked" /\ ~client[c].fresh => build[client[c].key].site = client[c].site
=============================================================================
