--------------------------- MODULE WebsiteHosting ---------------------------
(***************************************************************************)
(* Publishing a website to one hosting target:                             *)
(* WebsitePublishingService (packages/portability), the attempts, lock and *)
(* outbox of SqliteWebsiteStore and the native pointer and serving gate    *)
(* (adapters/local), and the worker of the reference server that runs the  *)
(* deployment jobs and applies moderation holds.                           *)
(*                                                                         *)
(* An attempt is named by its generation.  A release depends on one        *)
(* subject that may come under a hold; an unpublish depends on none.       *)
(* Rendering, plans, bindings and accounts never change here, and a        *)
(* reconnect_required attempt is a failed one.                             *)
(***************************************************************************)
EXTENDS Naturals

CONSTANTS Generations,     \* bound: attempts the owner may request
          Publishers,      \* concurrent calls of execute, reconcile and cancel
          Subjects,        \* what a release depends on and a hold may name
          NoSubject,       \* the dependencies of an unpublish
          MaxHolds,        \* bound: holds placed
          MaxHostingFaults,\* bound: crashes, lost leases, cancelled jobs, failed renames and probes
          MaxTries         \* maxAttempts of a deployment job

Attempts == 1..Generations
Over == {"published", "unpublished", "failed", "superseded", "cancelled"}
Unlocked == [attempt |-> 0, token |-> "none"]
NoDeploy == [uses |-> NoSubject, state |-> "none", built |-> FALSE, started |-> FALSE]
NoJob == [state |-> "none", tries |-> 0]
NoCall == [at |-> "idle", on |-> 0, token |-> "none", current |-> FALSE, outcome |-> "none"]

VARIABLES
  target,     \* the target's generations, serving state and writer's lock
  deploy,     \* the attempts
  outbox,     \* attempts accepted and not yet known to be queued
  deployJob,  \* job of each attempt: its state, or who leases it, and the leases it had
  live,       \* current.json: the generation it points at, or disabled
  gate,       \* serving.json and the lock file of its writer
  held,       \* subjects under an active hold
  publisher,  \* each call: its step, attempt, execution id, whether its copy of the attempt is current
  scan,       \* suspendDependencies of the worker: its step and the holds it read
  resumer,    \* resume: its step, the attempt it rechecks, the state it will record
  covered,    \* history: held subjects a completed scan has dealt with
  reclaimed,  \* history: a started attempt was claimed by a call that had read it earlier
  holdsPlaced, hostingFaults

calls == <<publisher, scan, resumer>>
hostingVars == <<target, deploy, outbox, deployJob, live, gate, held, publisher, scan, resumer,
                 covered, reclaimed, holdsPlaced, hostingFaults>>

HostingInit ==
  /\ target = [desired |-> 0, active |-> 0, serving |-> "unpublished", lock |-> Unlocked]
  /\ deploy = [a \in Attempts |-> NoDeploy]
  /\ outbox = {}
  /\ deployJob = [a \in Attempts |-> NoJob]
  /\ live = [generation |-> 0, disabled |-> TRUE]
  /\ gate = [state |-> "active", locked |-> FALSE]
  /\ held = {}
  /\ publisher = [p \in Publishers |-> NoCall]
  /\ scan = [at |-> "idle", reads |-> {}]
  /\ resumer = [at |-> "idle", source |-> 0, state |-> "none"]
  /\ covered = {}
  /\ reclaimed = FALSE
  /\ holdsPlaced = 0
  /\ hostingFaults = 0

HostingFault == hostingFaults < MaxHostingFaults /\ hostingFaults' = hostingFaults + 1

\* authorizePublication: nothing the attempt depends on is under a hold.
Eligible(a) == deploy[a].uses \notin held

-----------------------------------------------------------------------------
(* Acceptance and dispatch *)

\* accept and acceptIntent: the generation, the attempt and the outbox row in
\* one transaction.
Accept(uses, built) ==
  LET a == target.desired + 1
  IN  /\ a \in Attempts
      /\ uses \notin held
      /\ target' = [target EXCEPT !.desired = a]
      /\ deploy' = [deploy EXCEPT ![a] = [uses |-> uses, state |-> "queued", built |-> built, started |-> FALSE]]
      /\ outbox' = outbox \cup {a}
      /\ UNCHANGED <<deployJob, live, gate, held, calls, covered, reclaimed, holdsPlaced, hostingFaults>>

PublishSite(s) == Accept(s, FALSE)
UnpublishSite == Accept(NoSubject, FALSE)
RollbackSite(a) == deploy[a].state \in {"published", "verifying"} /\ deploy[a].built /\ Accept(deploy[a].uses, TRUE)
RetrySite(a) == deploy[a].state = "failed" /\ Accept(deploy[a].uses, deploy[a].built)

\* The leases of a job that is over matter no more.
Job(a, state) == [state |-> state, tries |-> IF state \in {"done", "cancelled"} THEN 0 ELSE deployJob[a].tries]

\* recoverOutbox: an enqueue that finds the job of an earlier one, whatever became of
\* it, then the acknowledgement.
Dispatch(a) ==
  /\ a \in outbox /\ deployJob[a] = NoJob
  /\ deployJob' = [deployJob EXCEPT ![a] = Job(a, "ready")]
  /\ UNCHANGED <<target, deploy, outbox, live, gate, held, calls, covered, reclaimed, holdsPlaced, hostingFaults>>

Acknowledge(a) ==
  /\ a \in outbox /\ deployJob[a] # NoJob
  /\ outbox' = outbox \ {a}
  /\ UNCHANGED <<target, deploy, deployJob, live, gate, held, calls, covered, reclaimed, holdsPlaced, hostingFaults>>

-----------------------------------------------------------------------------
(* One execution *)

On(p) == publisher[p].on
MoveTo(p, step) == publisher' = [publisher EXCEPT ![p].at = step]
FailsAs(p, outcome) == publisher' = [publisher EXCEPT ![p].at = "settle", ![p].outcome = outcome]

\* retry, and a lease that ran out: a job that had its attempts is dead-lettered.
GoesBack(a) == Job(a, IF deployJob[a].tries >= MaxTries THEN "dead" ELSE "ready")

JobAfter_Done(p, state) ==
  deployJob' = IF deployJob[On(p)].state # p THEN deployJob
               ELSE [deployJob EXCEPT ![On(p)] = Job(On(p), "done")]

\* What the worker does with the job when the call is over.
JobAfter(p, state) ==
  deployJob' = IF deployJob[On(p)].state # p THEN deployJob
               ELSE [deployJob EXCEPT ![On(p)] =
                       IF state \in {"busy", "unknown", "verifying"} THEN GoesBack(On(p)) ELSE Job(On(p), "done")]
LeaveCall(p, state) == publisher' = [publisher EXCEPT ![p] = NoCall] /\ JobAfter(p, state)

\* Writing attempt a makes every other call's copy of it stale.
Wrote(p, mine) ==
  publisher' = [q \in Publishers |->
    IF q = p THEN mine
    ELSE IF On(q) = On(p) THEN [publisher[q] EXCEPT !.current = FALSE] ELSE publisher[q]]

OwnsTarget(p) == target.lock = [attempt |-> On(p), token |-> publisher[p].token]
Mine_AnyExecution(p) == target.lock.attempt = On(p)

Mine(p) == OwnsTarget(p) /\ publisher[p].current

Claimable(a) ==
  \/ target.lock = Unlocked
  \/ target.lock.attempt = a /\ ~deploy[a].started

ClaimTarget(p, step, outcome) ==
  /\ Claimable(On(p))
  /\ target' = [target EXCEPT !.lock = [attempt |-> On(p), token |-> p]]
  /\ Wrote(p, [at |-> step, on |-> On(p), token |-> p, current |-> TRUE, outcome |-> outcome])

\* runNextJob leases the job and execute reads the attempt.
LeaseDeploy(p, a) ==
  /\ publisher[p].at = "idle" /\ deployJob[a].state = "ready"
  /\ deployJob' = [deployJob EXCEPT ![a] =
                    IF deploy[a].state \in Over THEN Job(a, "done") ELSE [state |-> p, tries |-> deployJob[a].tries + 1]]
  /\ publisher' = IF deploy[a].state \in Over THEN publisher
                  ELSE [publisher EXCEPT ![p] = [NoCall EXCEPT !.on = a,
                          !.at = IF deploy[a].started THEN "reconcile" ELSE "claim"]]
  /\ UNCHANGED <<target, deploy, outbox, live, gate, held, scan, resumer, covered, reclaimed, holdsPlaced, hostingFaults>>

ClaimDeploy(p) ==
  /\ publisher[p].at = "claim"
  /\ reclaimed' = (reclaimed \/ (Claimable(On(p)) /\ deploy[On(p)].started))
  /\ \/ ClaimTarget(p, "owned", "none") /\ UNCHANGED deployJob
     \/ ~Claimable(On(p)) /\ LeaveCall(p, "busy") /\ UNCHANGED target
  /\ UNCHANGED <<deploy, outbox, live, gate, held, scan, resumer, covered, holdsPlaced, hostingFaults>>

Passes(p) == Mine(p) /\ target.desired = On(p) /\ Eligible(On(p))

\* Up to the staged files; an unpublish stages none.
PrepareRelease(p) ==
  /\ publisher[p].at = "owned" /\ Passes(p)
  /\ deploy' = IF deploy[On(p)].uses = NoSubject THEN deploy
               ELSE [deploy EXCEPT ![On(p)].state = "uploading", ![On(p)].built = TRUE]
  /\ Wrote(p, [publisher[p] EXCEPT !.at = "prepared"])
  /\ UNCHANGED <<target, outbox, deployJob, live, gate, held, scan, resumer, covered, reclaimed, holdsPlaced, hostingFaults>>

StartActivation(p) ==
  /\ publisher[p].at = "prepared" /\ Passes(p)
  /\ deploy' = [deploy EXCEPT ![On(p)].state = "activating", ![On(p)].started = TRUE]
  /\ Wrote(p, [publisher[p] EXCEPT !.at = "activating"])
  /\ UNCHANGED <<target, outbox, deployJob, live, gate, held, scan, resumer, covered, reclaimed, holdsPlaced, hostingFaults>>

\* The native adapter's own conditions, then the last guard.
PointerAllows(a) == live.generation <= a /\ (deploy[a].uses = NoSubject \/ gate.state = "active")

ApproveActivation(p) ==
  /\ publisher[p].at = "activating" /\ PointerAllows(On(p)) /\ Passes(p)
  /\ MoveTo(p, "approved")
  /\ UNCHANGED <<target, deploy, outbox, deployJob, live, gate, held, scan, resumer, covered, reclaimed, holdsPlaced, hostingFaults>>

\* A guard that throws while this call is still the writer.
RefuseDeploy(p) ==
  /\ publisher[p].at \in {"owned", "prepared", "activating"} /\ Mine(p)
  /\ \/ ~Passes(p)
     \/ publisher[p].at = "activating" /\ ~PointerAllows(On(p))
  /\ FailsAs(p, IF target.desired # On(p) \/ (publisher[p].at = "activating" /\ live.generation > On(p))
              THEN "superseded" ELSE "failed")
  /\ UNCHANGED <<target, deploy, outbox, deployJob, live, gate, held, scan, resumer, covered, reclaimed, holdsPlaced, hostingFaults>>

Pointed(a) == [generation |-> a, disabled |-> deploy[a].uses = NoSubject]

\* The rename of current.json: nothing is checked any more.
SwitchPointer(p) ==
  /\ publisher[p].at = "approved"
  /\ live' = Pointed(On(p))
  /\ MoveTo(p, "switched")
  /\ UNCHANGED <<target, deploy, outbox, deployJob, gate, held, scan, resumer, covered, reclaimed, holdsPlaced, hostingFaults>>

\* The rename, or the sync after it, throws.
SwitchFails(p) ==
  /\ publisher[p].at = "approved" /\ HostingFault
  /\ live' \in {live, Pointed(On(p))}
  /\ FailsAs(p, "unknown")
  /\ UNCHANGED <<target, deploy, outbox, deployJob, gate, held, scan, resumer, covered, reclaimed, holdsPlaced>>

ConfirmOutcome(p) ==
  /\ publisher[p].at = "switched" /\ Mine(p)
  /\ deploy' = [deploy EXCEPT ![On(p)].state = "verifying"]
  /\ Wrote(p, [publisher[p] EXCEPT !.at = "verify"])
  /\ UNCHANGED <<target, outbox, deployJob, live, gate, held, scan, resumer, covered, reclaimed, holdsPlaced, hostingFaults>>

Open == gate.state = "active" /\ ~gate.locked
Reached(a) == deploy[a].uses = NoSubject \/ Open
Confirmed(a) == IF deploy[a].uses = NoSubject THEN "unpublished" ELSE "published"

\* adapter.verify: the association, then the public probe, which may fail.
Probe(p, step) ==
  LET a == On(p) IN
  \/ /\ Reached(a)
     /\ publisher' = [publisher EXCEPT ![p].at = step, ![p].outcome = Confirmed(a)]
     /\ UNCHANGED hostingFaults
  \/ /\ IF Reached(a) THEN HostingFault ELSE UNCHANGED hostingFaults
     /\ publisher' = [publisher EXCEPT ![p].at = step, ![p].outcome = "verifying"]

VerifyDeploy(p) ==
  /\ publisher[p].at = "verify" /\ Mine(p)
  /\ \/ live = Pointed(On(p)) /\ Probe(p, "settle")
     \/ live # Pointed(On(p)) /\ FailsAs(p, "unknown") /\ UNCHANGED hostingFaults
  /\ UNCHANGED <<target, deploy, outbox, deployJob, live, gate, held, scan, resumer, covered, reclaimed, holdsPlaced>>

\* The store's finish: the attempt's state, the active release and the lock.
Activated(a, outcome) ==
  IF outcome \in {"published", "unpublished"} /\ a >= target.active
  THEN [target EXCEPT !.active = a,
          !.serving = IF outcome = "unpublished" THEN "unpublished" ELSE IF @ = "suspended" THEN @ ELSE "active"]
  ELSE target

SettleDeploy(p) ==
  LET a == On(p)  outcome == publisher[p].outcome IN
  /\ publisher[p].at \in {"settle", "record"} /\ Mine(p)
  /\ deploy' = [deploy EXCEPT ![a].state = outcome]
  /\ target' = [Activated(a, outcome) EXCEPT !.lock = IF outcome = "unknown" THEN @ ELSE Unlocked]
  /\ outbox' = outbox \ {a}
  /\ Wrote(p, NoCall) /\ JobAfter(p, outcome)
  /\ UNCHANGED <<live, gate, held, scan, resumer, covered, reclaimed, holdsPlaced, hostingFaults>>

\* writer_fenced ends execute quietly; a revision conflict, and any error of
\* reconcile, sends the job back.
LoseTarget(p) ==
  /\ publisher[p].at \in {"owned", "prepared", "activating", "switched", "verify", "settle", "record"} /\ ~Mine(p)
  /\ LeaveCall(p, IF OwnsTarget(p) \/ publisher[p].at = "record" THEN "busy" ELSE deploy[On(p)].state)
  /\ UNCHANGED <<target, deploy, outbox, live, gate, held, scan, resumer, covered, reclaimed, holdsPlaced, hostingFaults>>

-----------------------------------------------------------------------------
(* Reconciliation, cancellation and recovery *)

\* reconcile called by the owner; the job's call starts in LeaseDeploy.
AskReconcile(p, a) ==
  /\ publisher[p].at = "idle" /\ deploy[a].state \notin Over \cup {"none"}
  /\ publisher' = [publisher EXCEPT ![p] = [NoCall EXCEPT !.at = "reconcile", !.on = a]]
  /\ UNCHANGED <<target, deploy, outbox, deployJob, live, gate, held, scan, resumer, covered, reclaimed, holdsPlaced, hostingFaults>>

\* The lock's execution id is taken over when the lock is this attempt's;
\* without one the target is claimed.
OpenReconcile(p) ==
  LET a == On(p) IN
  /\ publisher[p].at = "reconcile"
  /\ \/ /\ target.active <= a /\ target.lock.attempt = a
        /\ publisher' = [publisher EXCEPT ![p] = [@ EXCEPT !.at = "observe", !.token = target.lock.token, !.current = TRUE]]
        /\ UNCHANGED deployJob
     \/ target.active <= a /\ target.lock.attempt # a /\ MoveTo(p, "take") /\ UNCHANGED deployJob
     \/ target.active > a /\ LeaveCall(p, "superseded")
  /\ UNCHANGED <<target, deploy, outbox, live, gate, held, scan, resumer, covered, reclaimed, holdsPlaced, hostingFaults>>

ClaimReconcile(p) ==
  /\ publisher[p].at = "take"
  /\ \/ ClaimTarget(p, "observe", "none") /\ UNCHANGED deployJob
     \/ ~Claimable(On(p)) /\ LeaveCall(p, "busy") /\ UNCHANGED target
  /\ UNCHANGED <<deploy, outbox, live, gate, held, scan, resumer, covered, reclaimed, holdsPlaced, hostingFaults>>

\* Read-only: a result is recorded only when the pointer is this attempt's.
\* Without one the call returns and keeps the lock it took.
ObserveTarget(p) ==
  LET a == On(p) IN
  /\ publisher[p].at = "observe"
  /\ \/ Eligible(a) /\ live = Pointed(a) /\ Probe(p, "record") /\ UNCHANGED deployJob
     \/ Eligible(a) /\ live # Pointed(a) /\ LeaveCall(p, deploy[a].state) /\ UNCHANGED hostingFaults
     \/ ~Eligible(a) /\ LeaveCall(p, "busy") /\ UNCHANGED hostingFaults
  /\ UNCHANGED <<target, deploy, outbox, live, gate, held, scan, resumer, covered, reclaimed, holdsPlaced>>

AskCancel(p, a) ==
  /\ publisher[p].at = "idle" /\ deploy[a].state # "none" /\ ~deploy[a].started
  /\ publisher' = [publisher EXCEPT ![p] = [NoCall EXCEPT !.at = "cancel", !.on = a]]
  /\ UNCHANGED <<target, deploy, outbox, deployJob, live, gate, held, scan, resumer, covered, reclaimed, holdsPlaced, hostingFaults>>

ClaimCancel(p) ==
  /\ publisher[p].at = "cancel"
  /\ reclaimed' = (reclaimed \/ (Claimable(On(p)) /\ deploy[On(p)].started))
  /\ \/ ClaimTarget(p, "record", "cancelled") /\ UNCHANGED deployJob
     \/ ~Claimable(On(p)) /\ LeaveCall(p, "busy") /\ UNCHANGED target
  /\ UNCHANGED <<deploy, outbox, live, gate, held, scan, resumer, covered, holdsPlaced, hostingFaults>>

\* releaseRecoveryLock: only of an unknown attempt, once every writer is
\* proved to have stopped.
ReleaseRecoveryLock(a) ==
  /\ deploy[a].state = "unknown" /\ target.lock.attempt = a
  /\ \A p \in Publishers : On(p) # a
  /\ deploy' = [deploy EXCEPT ![a].state = "failed"]
  /\ target' = [target EXCEPT !.lock = Unlocked]
  /\ outbox' = outbox \ {a}
  /\ UNCHANGED <<deployJob, live, gate, held, calls, covered, reclaimed, holdsPlaced, hostingFaults>>

\* A call ends half-way and its job's lease runs out.
CrashPublisher(p) ==
  /\ publisher[p].at # "idle" /\ HostingFault
  /\ LeaveCall(p, "busy")
  /\ UNCHANGED <<target, deploy, outbox, live, gate, held, scan, resumer, covered, reclaimed, holdsPlaced>>

\* The lease runs out under a slow call, and the job is delivered again.
LoseDeployLease(a) ==
  /\ deployJob[a].state \in Publishers /\ HostingFault
  /\ deployJob' = [deployJob EXCEPT ![a] = GoesBack(a)]
  /\ UNCHANGED <<target, deploy, outbox, live, gate, held, calls, covered, reclaimed, holdsPlaced>>

\* An operator cancels a job in any state, and brings a dead one back for one attempt more;
\* bound: once.
CancelDeploy(a) ==
  /\ deployJob[a].state \notin {"none", "cancelled"}
  /\ HostingFault
  /\ deployJob' = [deployJob EXCEPT ![a] = Job(a, "cancelled")]
  /\ UNCHANGED <<target, deploy, outbox, live, gate, held, calls, covered, reclaimed, holdsPlaced>>

RecoverDeploy(a) ==
  /\ deployJob[a].state = "dead" /\ deployJob[a].tries = MaxTries
  /\ deployJob' = [deployJob EXCEPT ![a] = Job(a, "ready")]
  /\ UNCHANGED <<target, deploy, outbox, live, gate, held, calls, covered, reclaimed, holdsPlaced, hostingFaults>>

-----------------------------------------------------------------------------
(* Holds, the serving gate and resume *)

PlaceHold(s) ==
  /\ s \notin held /\ holdsPlaced < MaxHolds
  /\ held' = held \cup {s}
  /\ holdsPlaced' = holdsPlaced + 1
  /\ UNCHANGED <<target, deploy, outbox, deployJob, live, gate, calls, covered, reclaimed, hostingFaults>>

\* The same subject held again later is another hold.
LiftHold(s) ==
  /\ s \in held
  /\ held' = held \ {s}
  /\ covered' = covered \ {s} /\ scan' = [scan EXCEPT !.reads = @ \ {s}]
  /\ UNCHANGED <<target, deploy, outbox, deployJob, live, gate, publisher, resumer, reclaimed, holdsPlaced, hostingFaults>>

\* suspendDependencies looks at the active attempt and at the lock's.
DependsOn(subjects) == \E a \in {target.active, target.lock.attempt} \ {0} : deploy[a].uses \in subjects

ScanTarget ==
  /\ scan.at = "idle" /\ held # {}
  /\ IF DependsOn(held)
     THEN scan' = [at |-> "found", reads |-> held] /\ UNCHANGED covered
     ELSE covered' = held /\ UNCHANGED scan
  /\ UNCHANGED <<target, deploy, outbox, deployJob, live, gate, held, publisher, resumer, reclaimed, holdsPlaced, hostingFaults>>

SuspendServing_NoLock ==
  /\ scan.at = "found"
  /\ scan' = [scan EXCEPT !.at = "gated"] /\ gate' = [gate EXCEPT !.state = "suspended"]
  /\ UNCHANGED <<target, deploy, outbox, deployJob, live, held, publisher, resumer, covered, reclaimed, holdsPlaced, hostingFaults>>

SuspendServing ==
  /\ scan.at = "found"
  /\ IF gate.locked THEN scan' = [at |-> "idle", reads |-> {}] /\ UNCHANGED gate
     ELSE scan' = [scan EXCEPT !.at = "gated"] /\ gate' = [gate EXCEPT !.state = "suspended"]
  /\ UNCHANGED <<target, deploy, outbox, deployJob, live, held, publisher, resumer, covered, reclaimed, holdsPlaced, hostingFaults>>

RecordSuspended ==
  /\ scan.at = "gated"
  /\ target' = [target EXCEPT !.serving = "suspended"]
  /\ scan' = [at |-> "idle", reads |-> {}]
  /\ covered' = covered \cup (scan.reads \cap held)
  /\ UNCHANGED <<deploy, outbox, deployJob, live, gate, held, publisher, resumer, reclaimed, holdsPlaced, hostingFaults>>

\* resume: the retained release whose subjects are rechecked.
Retained == {a \in Attempts : deploy[a].built}
Source(a) ==
  IF target.active # 0 /\ deploy[target.active].built THEN a = target.active
  ELSE a \in Retained /\ \A b \in Retained : b <= a

OpenResume(a) ==
  /\ resumer.at = "idle" /\ target.lock = Unlocked /\ ~gate.locked
  /\ Source(a) /\ Eligible(a)
  /\ target.active # 0 => live = Pointed(target.active)
  /\ resumer' = [at |-> "opened", source |-> a,
                 state |-> IF target.active # 0 /\ ~live.disabled THEN "active" ELSE "unpublished"]
  /\ gate' = [gate EXCEPT !.locked = TRUE]
  /\ UNCHANGED <<target, deploy, outbox, deployJob, live, held, publisher, scan, covered, reclaimed, holdsPlaced, hostingFaults>>

\* beforeServing: the lock and the eligibility are read again.
RecheckResume ==
  /\ resumer.at = "opened"
  /\ IF target.lock = Unlocked /\ Eligible(resumer.source)
     THEN resumer' = [resumer EXCEPT !.at = "checked"] /\ UNCHANGED gate
     ELSE resumer' = [at |-> "idle", source |-> 0, state |-> "none"] /\ gate' = [gate EXCEPT !.locked = FALSE]
  /\ UNCHANGED <<target, deploy, outbox, deployJob, live, held, publisher, scan, covered, reclaimed, holdsPlaced, hostingFaults>>

OpenGate ==
  /\ resumer.at = "checked"
  /\ gate' = [state |-> "active", locked |-> FALSE]
  /\ resumer' = [resumer EXCEPT !.at = "opened_gate"]
  /\ UNCHANGED <<target, deploy, outbox, deployJob, live, held, publisher, scan, covered, reclaimed, holdsPlaced, hostingFaults>>

RecordResumed ==
  /\ resumer.at = "opened_gate"
  /\ target' = [target EXCEPT !.serving = resumer.state]
  /\ resumer' = [at |-> "idle", source |-> 0, state |-> "none"]
  /\ UNCHANGED <<deploy, outbox, deployJob, live, gate, held, publisher, scan, covered, reclaimed, holdsPlaced, hostingFaults>>

\* A crash leaves the gate's lock file behind.
CrashServing ==
  /\ HostingFault
  /\ \/ scan.at # "idle" /\ scan' = [at |-> "idle", reads |-> {}] /\ UNCHANGED resumer
     \/ resumer.at # "idle" /\ resumer' = [at |-> "idle", source |-> 0, state |-> "none"] /\ UNCHANGED scan
  /\ UNCHANGED <<target, deploy, outbox, deployJob, live, gate, held, publisher, covered, reclaimed, holdsPlaced>>

-----------------------------------------------------------------------------
Executes(p) ==
  \/ ClaimDeploy(p) \/ PrepareRelease(p) \/ StartActivation(p) \/ ApproveActivation(p) \/ RefuseDeploy(p)
  \/ SwitchPointer(p) \/ ConfirmOutcome(p) \/ VerifyDeploy(p) \/ SettleDeploy(p) \/ LoseTarget(p)
  \/ OpenReconcile(p) \/ ClaimReconcile(p) \/ ObserveTarget(p) \/ ClaimCancel(p)

Owner ==
  \/ \E s \in Subjects : PublishSite(s)
  \/ UnpublishSite
  \/ \E a \in Attempts : RollbackSite(a) \/ RetrySite(a) \/ ReleaseRecoveryLock(a) \/ OpenResume(a)
  \/ \E p \in Publishers, a \in Attempts : AskReconcile(p, a) \/ AskCancel(p, a)

ScanStep == ScanTarget \/ SuspendServing \/ RecordSuspended
Resumes == RecheckResume \/ OpenGate \/ RecordResumed

HostingNext ==
  \/ Owner \/ ScanStep \/ Resumes \/ CrashServing
  \/ \E a \in Attempts : Dispatch(a) \/ Acknowledge(a) \/ LoseDeployLease(a) \/ CancelDeploy(a) \/ RecoverDeploy(a)
  \/ \E p \in Publishers, a \in Attempts : LeaseDeploy(p, a)
  \/ \E p \in Publishers : Executes(p) \/ SwitchFails(p) \/ CrashPublisher(p)
  \/ \E s \in Subjects : PlaceHold(s) \/ LiftHold(s)

\* Started calls go on, the worker keeps asking for jobs and keeps scanning: a job that is
\* ready is leased, up to MaxTries times.
HostingFairness ==
  /\ \A p \in Publishers : WF_hostingVars(Executes(p))
  /\ \A a \in Attempts : WF_hostingVars(Dispatch(a)) /\ SF_hostingVars(\E p \in Publishers : LeaseDeploy(p, a))
  /\ SF_hostingVars(ScanStep) /\ WF_hostingVars(Resumes)

HostingSpec == HostingInit /\ [][HostingNext]_hostingVars /\ HostingFairness

-----------------------------------------------------------------------------
(* Properties *)

HostingTypeOK ==
  /\ target \in [desired : 0..Generations, active : 0..Generations,
                 serving : {"unpublished", "active", "suspended"},
                 lock : [attempt : 0..Generations, token : Publishers \cup {"none"}]]
  /\ deploy \in [Attempts -> [uses : Subjects \cup {NoSubject}, built : BOOLEAN, started : BOOLEAN,
                              state : {"none", "queued", "uploading", "activating", "verifying", "unknown"} \cup Over]]
  /\ live \in [generation : 0..Generations, disabled : BOOLEAN]
  /\ deployJob \in [Attempts -> [state : {"none", "ready", "done", "dead", "cancelled"} \cup Publishers, tries : Nat]]
  /\ outbox \subseteq Attempts /\ covered \subseteq held

Serves(s) == Open /\ ~live.disabled /\ deploy[live.generation].uses = s

\* Two calls are never both about to switch the pointer, and what the target
\* records as active has been live: execution ids, revisions and the lock
\* fence every late call (claim, owned, updateAttempt) -- unless a call that
\* read the attempt earlier claims it after it was activated.
OneWriter ==
  reclaimed \/
    /\ \A p, q \in Publishers : publisher[p].at = "approved" /\ publisher[q].at = "approved" => p = q
    /\ target.active <= live.generation

\* The site never goes back to an older generation, and a release that was
\* confirmed is never recorded as failed, superseded or cancelled (pointer,
\* finish), with the same exception.
MovesForward ==
  reclaimed' \/
    /\ live'.generation >= live.generation
    /\ \A a \in Attempts : deploy[a].state \in {"published", "unpublished"} =>
         deploy'[a].state \in {"published", "unpublished", "verifying"}

ReleasesMoveForward == [][MovesForward]_hostingVars

\* Once a scan has dealt with a hold, no activation, however late, and no
\* resume serves what it names (suspendDependencies, pointer, policyGate).
\* Only a release that was switched to and never confirmed escapes: neither
\* the active attempt nor the lock leads to it.
HeldStaysDenied ==
  \A s \in covered : Serves(s) => target.active < live.generation

\* Content under a hold does not stay served (runNextJob's policy scan, and the
\* deployment job that takes the lock again).  Nothing leads any more to a release that
\* was given up by releaseRecoveryLock, or whose job an operator cancelled or had all
\* its attempts before the release was confirmed.
GivenUp(a) == deploy[a].state = "failed" \/ (target.active < a /\ deployJob[a].state \in {"dead", "cancelled"})
StillServed(s) == s \in held /\ Serves(s) /\ ~GivenUp(live.generation)
HoldsTakeEffect == \A s \in Subjects : []<>~StillServed(s)

\* The documented recovery applies to every lock left behind: reconciliation
\* confirms the attempt, cancel stops it, or releaseRecoveryLock frees it.
LockCanBeResolved ==
  LET a == target.lock.attempt IN
  a # 0 =>
    \/ \E p \in Publishers : On(p) = a
    \/ ~deploy[a].started \/ deploy[a].state = "unknown" \/ live = Pointed(a)
=============================================================================
