------------------------- MODULE CollectionDestinations -------------------------
(***************************************************************************)
(* Bringing a gallery of another platform in line with a collection:       *)
(* validateCollectionMapping, planCollectionDestination and                *)
(* executeCollectionDestinationPlan of                                     *)
(* packages/core/src/collection-destinations.ts.                           *)
(*                                                                         *)
(* One collection, one mapping of it to one gallery.  A Work's publication *)
(* for the mapping has the Work's name; the gallery may also hold Foreign  *)
(* ones.  The seven counters a plan is fenced with are compared alike and  *)
(* are one revision.  The port (locks, receipts, the platform) is external.*)
(***************************************************************************)
EXTENDS Naturals

CONSTANTS Works, Foreign,
          Settings,      \* what the mapping may be configured to
          Plans,         \* plan identities, used in order: 1, 2, ...
          Executors,     \* concurrent calls of the executor
          NoExecutor,
          ChangesAccess, \* the account's membership may change access
          Freshness,
          MaxRevision,   \* bound: changes of the collection or the mapping
          MaxTime,       \* bound: the clock
          MaxPortFaults  \* bound: lost leases, lost answers, crashes, edits on the platform

Publications == Works \cup Foreign
Owners == {"this", "other", "none"}
Statuses == {"gone", "withheld", "missing", "ready"}
Setting == [authority : {"platform", "native", "manual"}, automatic : BOOLEAN, reviewed : BOOLEAN,
            selected : SUBSET Works, exact : BOOLEAN, propagate : BOOLEAN]

VARIABLES
  works,       \* each Work: not a member, withheld, without publication, or ready
  mapping,     \* its settings; the enabled mapping of the gallery: this, another or none
  revision,    \* CollectionSyncInputs
  connected,   \* the account is connected and the collection not archived
  gallery,     \* what the platform shows
  plans, runs, \* CollectionDestinationPlan; the saved CollectionSyncExecution
  lease,       \* who holds both exclusive leases
  executor,    \* each call: step, plan, reviewed, operations confirmed, its current one, readback
  accepted,    \* history: operations carried out for the holder of the lease, and still shown
  clock, portFaults

destVars == <<works, mapping, revision, connected, gallery, plans, runs,
              lease, executor, accepted, clock, portFaults>>
authorityVars == <<works, mapping, revision, connected>>

Verification == {"stale", "incomplete", "api_verified", "manually_confirmed"}
Observation == [shown : SUBSET Publications, complete : BOOLEAN, source : Verification, at : 0..MaxTime]
Planned == [made : BOOLEAN, revision : 0..MaxRevision, expires : 0..(MaxTime + Freshness), intended : SUBSET Works,
            adds : SUBSET Works, removes : SUBSET Publications, inbound : SUBSET Works, blocked : BOOLEAN,
            verification : Verification, exact : BOOLEAN]
NoPlan == [made |-> FALSE, revision |-> 0, expires |-> 0, intended |-> {}, adds |-> {}, removes |-> {},
           inbound |-> {}, blocked |-> FALSE, verification |-> "stale", exact |-> FALSE]
Run == [state : {"none", "running", "partially_applied", "paused", "verified", "unverified"}, confirmed : SUBSET Publications]
NoRun == [state |-> "none", confirmed |-> {}]
Call == [at : {"idle", "start", "next", "reconcile", "prepare", "request", "receipt", "readback", "conclude"},
         plan : {0} \cup Plans, reviewed : BOOLEAN, confirmed : SUBSET Publications, op : SUBSET Publications,
         late : 0..2, seen : SUBSET Publications, complete : BOOLEAN, readAt : 0..MaxTime]
NoCall == [at |-> "idle", plan |-> 0, reviewed |-> FALSE, confirmed |-> {}, op |-> {}, late |-> 0, seen |-> {},
         complete |-> FALSE, readAt |-> 0]

\* A collection, however it is scoped: what its members should show on the platform.
Scope == IF mapping.setting.selected = {} THEN {w \in Works : works[w] # "gone"} ELSE mapping.setting.selected
Intended == {w \in Scope : works[w] = "ready"}
Blocked == \E w \in Scope : works[w] = "missing" \/ works[w] = "gone"
Members == {w \in Works : works[w] # "gone"}

\* validateCollectionMapping: selections are members, one enabled mapping per gallery.
ValidMapping(setting, owner) ==
  /\ setting.selected \subseteq Members
  /\ owner # mapping.owner => "none" \in {owner, mapping.owner}

StillFresh(at) == clock - at <= Freshness

\* What an incomplete listing does not show is taken for removed.
Certain_Partial(o) == StillFresh(o.at)

Certain(o) == o.complete /\ StillFresh(o.at)

\* planCollectionDestination.  An inbound mapping lists the Works that would leave the
\* collection; a foreign publication resolves to none of them.
PlanOf(o) ==
  LET inbound == mapping.setting.authority = "platform"
      intended == IF inbound THEN {} ELSE Intended
      blocked == IF inbound THEN o.shown \cap Foreign # {} \/ \E w \in mapping.setting.selected : works[w] = "gone"
                 ELSE Blocked
      certain == Certain(o)
      adds == intended \ o.shown
      removes == IF mapping.setting.exact THEN o.shown \ intended ELSE {}
      difference == IF inbound THEN (o.shown \cap Works) \ Members # {} \/ (certain /\ ~blocked /\ Members \ o.shown # {})
                    ELSE adds \cup removes # {}
  IN [made |-> TRUE, revision |-> revision, expires |-> o.at + Freshness, intended |-> intended,
      adds |-> IF inbound THEN {} ELSE adds,
      removes |-> IF ~inbound /\ certain THEN removes ELSE {},
      inbound |-> IF inbound /\ certain /\ ~blocked THEN Members \ o.shown ELSE {},
      blocked |-> blocked,
      verification |-> IF ~StillFresh(o.at) THEN "stale" ELSE IF ~o.complete THEN "incomplete" ELSE o.source,
      exact |-> mapping.setting.exact /\ certain /\ ~blocked /\ ~difference /\ o.source = "api_verified"]

DestInit ==
  /\ works \in [Works -> {"ready", "gone"}]
  /\ mapping \in [setting : Settings, owner : {"this"}]
  /\ mapping.setting.selected \subseteq Members
  /\ gallery \in {{}, Foreign}
  /\ connected = TRUE /\ revision = 0 /\ clock = 0 /\ portFaults = 0
  /\ plans = [p \in Plans |-> NoPlan] /\ runs = [p \in Plans |-> NoRun]
  /\ lease = NoExecutor /\ executor = [e \in Executors |-> NoCall]
  /\ accepted = {}

Revised == revision < MaxRevision /\ revision' = revision + 1
Fault == portFaults < MaxPortFaults /\ portFaults' = portFaults + 1

\* The collection's members are edited unless they follow the platform.
Curate(w, state) ==
  /\ works[w] # state /\ Revised
  /\ "gone" \in {works[w], state} => ~(mapping.owner = "this" /\ mapping.setting.authority = "platform")
  /\ works' = [works EXCEPT ![w] = state]
  /\ UNCHANGED <<mapping, connected, gallery, plans, runs, lease, executor, accepted, clock, portFaults>>

Configure(setting, owner) ==
  /\ ValidMapping(setting, owner)
  /\ IF "this" \in {owner, mapping.owner} THEN Revised ELSE setting = mapping.setting /\ UNCHANGED revision
  /\ mapping' = [setting |-> setting, owner |-> owner]
  /\ UNCHANGED <<works, connected, gallery, plans, runs, lease, executor, accepted, clock, portFaults>>

Connection ==
  /\ connected => Fault
  /\ ~connected => UNCHANGED portFaults
  /\ connected' = ~connected
  /\ UNCHANGED <<works, mapping, revision, gallery, plans, runs, lease, executor, accepted, clock>>

\* Of some operations, those whose outcome a gallery shows.
Standing(operations, shown) == {a \in operations : (a[2] \in shown) = (a[2] \in plans[a[1]].adds)}

\* Somebody edits the gallery on the platform.
EditGallery(p) ==
  /\ Fault
  /\ gallery' = IF p \in gallery THEN gallery \ {p} ELSE gallery \cup {p}
  /\ accepted' = Standing(accepted, gallery')
  /\ UNCHANGED <<authorityVars, plans, runs, lease, executor, clock>>

\* The API lists the gallery whole or in part; a person may report anything.
Seen(o) ==
  /\ o.at <= clock /\ o.source \in {"api_verified", "manually_confirmed"}
  /\ o.source = "api_verified" => IF o.complete THEN o.shown = gallery ELSE o.shown \subseteq gallery

\* A plan is made from an observation, perhaps an old one.
MakePlan(p) ==
  /\ ~plans[p].made /\ \A q \in Plans : q < p => plans[q].made
  /\ \E o \in Observation : Seen(o) /\ plans' = [plans EXCEPT ![p] = PlanOf(o)]
  /\ UNCHANGED <<authorityVars, gallery, runs, lease, executor, accepted, clock, portFaults>>

-----------------------------------------------------------------------------
(* The executor.  Each step ends where the code waits.                      *)

Of(e) == plans[executor[e].plan]
Moves(e, step) == executor' = [executor EXCEPT ![e].at = step]
Leaves(e) == /\ executor' = [executor EXCEPT ![e] = NoCall]
             /\ lease' = IF lease = e THEN NoExecutor ELSE lease

Current_NoExpiry(p) == mapping.owner = "this" /\ plans[p].revision = revision

\* assertCurrentCollectionPlan
Current(p) == mapping.owner = "this" /\ plans[p].revision = revision /\ clock <= plans[p].expires

\* authorizeCollectionPlan, for an outbound mapping
Authorized(p, reviewed) ==
  LET setting == mapping.setting
  IN /\ ~plans[p].blocked /\ plans[p].verification = "api_verified"
     /\ \/ reviewed
        \/ setting.reviewed /\ setting.automatic /\ ~ChangesAccess /\ (setting.propagate \/ plans[p].removes = {})

Check(e) ==
  LET p == executor[e].plan
  IN Current(p) /\ connected /\ mapping.setting.authority = "native" /\ Authorized(p, executor[e].reviewed) /\ lease = e

\* saveExecution writes under the lease only.
Saved(e, state, confirmed) == runs' = [runs EXCEPT ![executor[e].plan] = [state |-> state, confirmed |-> confirmed]]
Saves(e, state) == IF lease = e THEN Saved(e, state, executor[e].confirmed) ELSE UNCHANGED runs

Execute(e, p, reviewed) ==
  /\ executor[e].at = "idle" /\ lease = NoExecutor /\ plans[p].made
  /\ lease' = e
  /\ executor' = [executor EXCEPT ![e] = [NoCall EXCEPT !.at = "start", !.plan = p, !.reviewed = reviewed]]
  /\ UNCHANGED <<authorityVars, gallery, plans, runs, accepted, clock, portFaults>>

StartRun(e) ==
  /\ executor[e].at = "start"
  /\ IF Check(e) /\ runs[executor[e].plan].state # "verified"
       THEN /\ Saved(e, "running", runs[executor[e].plan].confirmed)
            /\ executor' = [executor EXCEPT ![e].at = "next", ![e].confirmed = runs[executor[e].plan].confirmed]
            /\ UNCHANGED lease
       ELSE Leaves(e) /\ UNCHANGED runs
  /\ UNCHANGED <<authorityVars, gallery, plans, accepted, clock, portFaults>>

\* The next operation, in any order.
Begin(e) ==
  LET rest == (Of(e).adds \cup Of(e).removes) \ executor[e].confirmed
  IN /\ executor[e].at = "next"
     /\ IF rest = {} THEN Moves(e, "readback") /\ UNCHANGED <<runs, lease>>
        ELSE IF Check(e) THEN /\ \E op \in rest : executor' = [executor EXCEPT ![e].at = "reconcile", ![e].op = {op}]
                              /\ UNCHANGED <<runs, lease>>
        ELSE Saves(e, "paused") /\ Leaves(e)
     /\ UNCHANGED <<authorityVars, gallery, plans, accepted, clock, portFaults>>

\* A retry does not ask the platform what became of the operation.
Stands_Unasked(e) == FALSE

Stands(e) == (executor[e].op \subseteq gallery) = (executor[e].op \subseteq Of(e).adds)
ConfirmsOperation(e) ==
  LET confirmed == executor[e].confirmed \cup executor[e].op
  IN IF lease = e THEN /\ Saved(e, "running", confirmed)
                       /\ executor' = [executor EXCEPT ![e].at = "next", ![e].confirmed = confirmed, ![e].op = {}]
                       /\ UNCHANGED lease
     ELSE Leaves(e) /\ UNCHANGED runs

Reconcile(e) ==
  /\ executor[e].at = "reconcile"
  /\ IF Stands(e) THEN ConfirmsOperation(e)
     ELSE IF lease = e THEN Moves(e, "prepare") /\ UNCHANGED <<runs, lease>>
     ELSE Leaves(e) /\ UNCHANGED runs
  /\ UNCHANGED <<authorityVars, gallery, plans, accepted, clock, portFaults>>

ReconcileUnknown(e) ==
  /\ executor[e].at = "reconcile" /\ Fault
  /\ Saves(e, "partially_applied") /\ Leaves(e)
  /\ UNCHANGED <<authorityVars, gallery, plans, accepted, clock>>

\* The check after the receipt and the adapter's own, with no wait for an answer between.
Prepare(e) ==
  /\ executor[e].at = "prepare"
  /\ IF Check(e) THEN Moves(e, "request") /\ UNCHANGED <<runs, lease>>
     ELSE Saves(e, "paused") /\ Leaves(e)
  /\ UNCHANGED <<authorityVars, gallery, plans, accepted, clock, portFaults>>

Late(e) == Of(e).revision # revision \/ clock > Of(e).expires

CarriedOut(e) ==
  /\ gallery' = IF executor[e].op \subseteq Of(e).adds THEN gallery \cup executor[e].op ELSE gallery \ executor[e].op
  /\ accepted' = Standing(accepted \cup (IF lease = e THEN {executor[e].plan} \X executor[e].op ELSE {}), gallery')

Request(e) ==
  /\ executor[e].at = "request"
  /\ CarriedOut(e)
  /\ executor' = [executor EXCEPT ![e].at = "receipt", ![e].late = IF Late(e) /\ @ < 2 THEN @ + 1 ELSE @]
  /\ UNCHANGED <<authorityVars, plans, runs, lease, clock, portFaults>>

\* The platform's answer is lost, or it refused.
RequestFails(e) ==
  /\ executor[e].at = "request" /\ Fault
  /\ CarriedOut(e) \/ UNCHANGED <<gallery, accepted>>
  /\ Saves(e, "partially_applied") /\ Leaves(e)
  /\ UNCHANGED <<authorityVars, plans, clock>>

Receipt(e) ==
  /\ executor[e].at = "receipt"
  /\ ConfirmsOperation(e)
  /\ UNCHANGED <<authorityVars, gallery, plans, accepted, clock, portFaults>>

ReadGallery(e) ==
  /\ executor[e].at = "readback"
  /\ \E complete \in BOOLEAN :
       executor' = [executor EXCEPT ![e].at = "conclude", ![e].seen = gallery, ![e].complete = complete, ![e].readAt = clock]
  /\ UNCHANGED <<authorityVars, gallery, plans, runs, lease, accepted, clock, portFaults>>

Equal(e) == IF mapping.setting.exact THEN executor[e].seen = Of(e).intended ELSE Of(e).intended \subseteq executor[e].seen

Conclude_NoRecheck(e) ==
  /\ executor[e].at = "conclude"
  /\ Saves(e, IF connected /\ executor[e].complete /\ StillFresh(executor[e].readAt) /\ Equal(e) THEN "verified" ELSE "unverified")
  /\ Leaves(e)
  /\ UNCHANGED <<authorityVars, gallery, plans, accepted, clock, portFaults>>

\* Verified by what the platform shows, for a plan that is still current.
Conclude(e) ==
  /\ executor[e].at = "conclude"
  /\ Saves(e, IF Current(executor[e].plan) /\ connected /\ executor[e].complete /\ StillFresh(executor[e].readAt) /\ Equal(e)
                THEN "verified" ELSE "unverified")
  /\ Leaves(e)
  /\ UNCHANGED <<authorityVars, gallery, plans, accepted, clock, portFaults>>

\* The call ends, its lease runs out later.
CrashExecutor(e) ==
  /\ executor[e].at # "idle" /\ Fault
  /\ executor' = [executor EXCEPT ![e] = NoCall]
  /\ UNCHANGED <<authorityVars, gallery, plans, runs, lease, accepted, clock>>

LeaseRunsOut ==
  /\ lease # NoExecutor
  /\ executor[lease].at # "idle" => Fault
  /\ executor[lease].at = "idle" => UNCHANGED portFaults
  /\ lease' = NoExecutor
  /\ UNCHANGED <<authorityVars, gallery, plans, runs, executor, accepted, clock>>

Passes ==
  /\ clock < MaxTime /\ clock' = clock + 1
  /\ UNCHANGED <<authorityVars, gallery, plans, runs, lease, executor, accepted, portFaults>>

DestNext ==
  \/ \E w \in Works : \E state \in Statuses : Curate(w, state)
  \/ \E setting \in Settings, owner \in Owners : Configure(setting, owner)
  \/ Connection \/ LeaseRunsOut \/ Passes
  \/ \E p \in Publications : EditGallery(p)
  \/ \E p \in Plans : MakePlan(p)
  \/ \E e \in Executors :
       \/ \E p \in Plans, reviewed \in BOOLEAN : Execute(e, p, reviewed)
       \/ StartRun(e) \/ Begin(e) \/ Reconcile(e) \/ ReconcileUnknown(e) \/ Prepare(e) \/ Request(e) \/ RequestFails(e)
       \/ Receipt(e) \/ ReadGallery(e) \/ Conclude(e) \/ CrashExecutor(e)

DestSpec == DestInit /\ [][DestNext]_destVars

DestTypeOK ==
  /\ works \in [Works -> Statuses] /\ gallery \subseteq Publications
  /\ mapping \in [setting : Settings, owner : Owners] /\ connected \in BOOLEAN
  /\ revision \in 0..MaxRevision /\ clock \in 0..MaxTime /\ portFaults \in 0..MaxPortFaults
  /\ plans \in [Plans -> Planned] /\ runs \in [Plans -> Run]
  /\ lease \in Executors \cup {NoExecutor} /\ executor \in [Executors -> Call]
  /\ accepted \subseteq Plans \X Publications

\* After the collection, the mapping or the evidence a plan was made from has changed,
\* a call of the executor sends the platform at most the request it had begun.
StopsWhenStale == \A e \in Executors : executor[e].late <= 1

\* Verified is recorded for a gallery that shows what the collection wants now, and
\* for an exact mapping nothing else.
VerifiedIsTrue ==
  \A e \in Executors, p \in Plans :
    runs[p].state # "verified" /\ runs'[p].state = "verified" /\ executor[e].plan = p /\ executor'[e] = NoCall =>
      /\ Intended \subseteq executor[e].seen
      /\ mapping.setting.exact => executor[e].seen = Intended
      /\ plans[p].adds \cup plans[p].removes \subseteq runs'[p].confirmed

\* A plan that takes something out of the gallery or the collection, or claims that they
\* agree, was made from a complete and fresh listing.
PlansOnEvidence ==
  \A p \in Plans : ~plans[p].made /\ plans'[p].made =>
    /\ plans'[p].removes \cup plans'[p].inbound # {} => plans'[p].verification \in {"api_verified", "manually_confirmed"}
    /\ plans'[p].exact => gallery = IF mapping.setting.authority = "platform" THEN Members ELSE Intended

\* A call of the executor takes out only what was seen there and was not wanted.
RemovesKnown ==
  \A p \in gallery \ gallery' : portFaults' = portFaults =>
    \E e \in Executors : executor[e].at = "request" /\ p \in Of(e).removes /\ p \notin Of(e).intended

\* What the platform carried out for the holder of the lease, and still shows, is not
\* asked of it again under a lease: lost answers and lost leases are reconciled first.
NotRepeated ==
  \A e \in Executors : executor[e].at = "request" /\ lease = e =>
    ({executor[e].plan} \X executor[e].op) \cap accepted = {}
=============================================================================
