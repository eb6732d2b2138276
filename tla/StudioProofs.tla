----------------------------- MODULE StudioProofs -----------------------------
(***************************************************************************)
(* Theorems about five components of the studio, each by itself and for    *)
(* any values of its constants: the federation inbox, with any number of   *)
(* deliveries and crashes; the names of a creator's Works and collections; *)
(* the members, grants and workspaces of an organization; the publishing   *)
(* of a website to its hosting target; a creator's activity, its digests,  *)
(* replies and marks, with any number of callers.                          *)
(***************************************************************************)
EXTENDS FederationInbox, CreatorSlugs, Organizations, WebsiteHosting, ActivityWorkflows,
        FiniteSetTheorems, WellFoundedInduction, TLAPS

-----------------------------------------------------------------------------
(* The federation inbox.                                                    *)

\* Nobody is not a type of event, and the bounds are numbers.
InboxAssumption == Nobody \notin Types /\ MaxArrivals \in Nat /\ MaxTrouble \in Nat

-----------------------------------------------------------------------------
(* The inductive invariant.                                                 *)

Signed == [type : Types, actor : Actors, publication : Publications]
References == [actor : Actors \cup {Nobody}, uri : Envelopes \cup {Nobody},
               state : {Nobody, "accepted", "withdrawn"}, revision : Nat]
Stages == {"idle", "verify", "actor", "admit", "find", "apply"}
Deliveries == [pc : Stages, envelope : Envelopes \cup {Nobody}, known : BOOLEAN, existing : References]

InboxType ==
  /\ sent \in [Envelopes -> Signed \cup {NoEvent}]
  /\ expired \subseteq Envelopes /\ consumed \subseteq Envelopes /\ actors \subseteq Actors
  /\ references \in [Publications -> References]
  /\ requests \in [Requests -> Deliveries]
  /\ applied \in [Envelopes -> Nat]
  /\ arrivals \in 0..MaxArrivals /\ trouble \in 0..MaxTrouble
  /\ \A r \in Requests : ~At(r, "idle") => requests[r].envelope \in Envelopes /\ sent[requests[r].envelope] # NoEvent
  /\ \A e \in Envelopes : sent[e] = NoEvent => applied[e] = 0

\* A request that works on an envelope it has consumed.
Working(r) == ~At(r, "idle") /\ ~At(r, "verify")

\* Of an envelope there is one worker at most, and only before it is applied.
OneWorker ==
  /\ \A r \in Requests : Working(r) => requests[r].envelope \in consumed /\ applied[requests[r].envelope] = 0
  /\ \A r, s \in Requests : Working(r) /\ Working(s) /\ requests[r].envelope = requests[s].envelope => r = s
  /\ \A e \in Envelopes : applied[e] <= 1 /\ (applied[e] > 0 => e \in consumed)

\* A revision names one version of a reference, and what is about to be applied was read
\* in some version and is its actor's.
Versioned ==
  /\ \A p \in Publications : references[p].revision = 0 => references[p] = NoReference
  /\ \A r \in Requests : At(r, "apply") =>
       /\ requests[r].existing.revision <= Reference(r).revision
       /\ requests[r].existing.revision = Reference(r).revision => requests[r].existing = Reference(r)
       /\ requests[r].existing = NoReference \/ requests[r].existing.actor = Event(r).actor
       /\ Event(r).type = "publication_withdrawn" => requests[r].existing # NoReference
  /\ \A e \in Envelopes : applied[e] > 0 => references[sent[e].publication].revision > 0
  /\ OnlyItsActor

\* The envelopes that changed a reference.
Changes(p) == {e \in Envelopes : sent[e].publication = p /\ applied[e] > 0}
Counted == \A p \in Publications : IsFiniteSet(Changes(p)) /\ references[p].revision = Cardinality(Changes(p))

InboxInv == InboxType /\ OneWorker /\ Versioned /\ Counted

-----------------------------------------------------------------------------
(* Every step keeps it.                                                     *)

\* The first state.
LEMMA InboxStarts == InboxAssumption /\ InboxInit => InboxInv
  <1> SUFFICES ASSUME InboxAssumption, InboxInit PROVE InboxInv
    OBVIOUS
  <1> USE DEF InboxInit, InboxAssumption
  <1>1. InboxType
    BY DEF InboxType, Idle, NoReference, References, Deliveries, Stages, At
  <1>2. OneWorker
    BY DEF OneWorker, Working, At, Idle
  <1>3. Versioned
    BY DEF Versioned, OnlyItsActor, At, Idle, NoReference
  <1>4. Counted
    <2>1. \A p \in Publications : Changes(p) = {}
      BY DEF Changes
    <2>2. QED
      BY <2>1, FS_EmptySet DEF Counted, NoReference
  <1>5. QED
    BY <1>1, <1>2, <1>3, <1>4 DEF InboxInv

\* What concerns neither what was sent nor what was applied keeps the count.
LEMMA CountKept ==
  ASSUME Counted, sent' = sent, applied' = applied, references' = references
  PROVE  Counted'
  BY DEF Counted, Changes

\* Signing concerns an envelope nothing was done with.
LEMMA SignKeeps ==
  ASSUME InboxAssumption, InboxInv, NEW e \in Envelopes, NEW sign \in Signed, Sign(e, sign)
  PROVE  InboxInv'
  <1>1. sign # NoEvent /\ applied[e] = 0
    BY DEF Signed, NoEvent, InboxAssumption, InboxInv, InboxType, Sign
  <1>2. sent' = [sent EXCEPT ![e] = sign] /\ sent[e] = NoEvent
    BY DEF Sign
  <1>3. UNCHANGED <<expired, consumed, actors, references, requests, applied, arrivals, trouble>>
    BY DEF Sign
  <1>4. \A r \in Requests : ~At(r, "idle") => Event(r)' = Event(r) /\ Reference(r)' = Reference(r)
    BY <1>1, <1>2, <1>3 DEF InboxInv, InboxType, At, Event, Reference
  <1>5. InboxType'
    BY <1>1, <1>2, <1>3 DEF InboxInv, InboxType, At
  <1>6. OneWorker'
    BY <1>3 DEF InboxInv, OneWorker, Working, At
  <1>7. Versioned'
    <2>1. \A d \in Envelopes : applied[d] > 0 => sent'[d] = sent[d]
      BY <1>1, <1>2 DEF InboxInv, InboxType
    <2>2. \A r \in Requests : At(r, "apply") => ~At(r, "idle")
      BY DEF At
    <2>3. QED
      BY <1>3, <1>4, <2>1, <2>2 DEF InboxInv, Versioned, OnlyItsActor, At
  <1>8. Counted'
    <2>1. \A p \in Publications : Changes(p)' = Changes(p)
      BY <1>1, <1>2, <1>3 DEF Changes, InboxInv, InboxType
    <2>2. QED
      BY <1>3, <2>1 DEF InboxInv, Counted
  <1>9. QED
    BY <1>5, <1>6, <1>7, <1>8 DEF InboxInv

\* A delivery at rest is one, and so is one that knows its actor.
LEMMA IdleType == Idle \in Deliveries
  BY DEF Idle, Deliveries, Stages, NoReference, References

LEMMA KnownType ==
  ASSUME NEW d \in Deliveries, NEW pc \in Stages, NEW known \in BOOLEAN
  PROVE  [d EXCEPT !.pc = pc, !.known = known] \in Deliveries
  BY DEF Deliveries

\* What a request at rest, arriving or crashing leaves: no new worker on an envelope.
LEMMA RestKeeps ==
  ASSUME InboxAssumption, InboxInv, NEW r \in Requests, NEW next \in Deliveries, Becomes(r, next),
         \/ next.pc = "idle"
         \/ next.pc = "verify" /\ next.envelope \in Envelopes /\ sent[next.envelope] # NoEvent,
         UNCHANGED <<sent, consumed, actors, references, applied>>,
         expired' \subseteq Envelopes, arrivals' \in 0..MaxArrivals, trouble' \in 0..MaxTrouble
  PROVE  InboxInv'
  <1>1. requests' \in [Requests -> Deliveries] /\ requests'[r] = next
        /\ \A s \in Requests : s # r => requests'[s] = requests[s]
    BY DEF Becomes, InboxInv, InboxType
  <1>2. InboxType'
    BY <1>1 DEF InboxInv, InboxType, At
  <1>3. \A s \in Requests : Working(s)' \/ At(s, "apply")' => s # r
    BY <1>1 DEF Working, At
  <1>5. OneWorker'
    BY <1>1, <1>3 DEF InboxInv, OneWorker, Working, At
  <1>6. Versioned'
    BY <1>1, <1>3 DEF InboxInv, Versioned, OnlyItsActor, At, Reference, Event
  <1>7. Counted'
    BY CountKept DEF InboxInv
  <1>8. QED
    BY <1>2, <1>5, <1>6, <1>7 DEF InboxInv

LEMMA ExpireKeeps ==
  ASSUME InboxAssumption, InboxInv, NEW e \in Envelopes, Expire(e)
  PROVE  InboxInv'
  <1>1. expired' \subseteq Envelopes /\ UNCHANGED <<sent, consumed, actors, references, requests, applied, arrivals, trouble>>
    BY DEF Expire, InboxInv, InboxType
  <1>2. InboxType' /\ OneWorker' /\ Versioned'
    BY <1>1 DEF InboxInv, InboxType, OneWorker, Versioned, OnlyItsActor, At, Working, Reference, Event
  <1>3. QED
    BY <1>1, <1>2, CountKept DEF InboxInv

\* The first delivery of an envelope starts its only worker; the others stop here.
LEMMA ConsumeKeeps ==
  ASSUME InboxAssumption, InboxInv, NEW r \in Requests, Consume(r)
  PROVE  InboxInv'
  <1> DEFINE e == requests[r].envelope
  <1>1. e \in Envelopes /\ At(r, "verify") /\ sent[e] # NoEvent
    BY DEF Consume, At, InboxInv, InboxType
  <1>2. consumed' = consumed \cup {e} /\ UNCHANGED <<sent, expired, actors, references, applied, arrivals, trouble>>
    BY DEF Consume
  <1>3. \A s \in Requests : s # r => requests'[s] = requests[s]
    BY DEF Consume, Becomes, InboxInv, InboxType
  <1>4. requests'[r] = IF e \notin consumed THEN [requests[r] EXCEPT !.pc = "actor"] ELSE Idle
    BY DEF Consume, Becomes, Unseen, InboxInv, InboxType
  <1>5. InboxType'
    <2>1. requests'[r] \in Deliveries /\ requests' = [requests EXCEPT ![r] = requests'[r]]
      <3>1. requests[r] \in Deliveries /\ "actor" \in Stages
        BY DEF InboxInv, InboxType, Stages
      <3>2. [requests[r] EXCEPT !.pc = "actor"] \in Deliveries
        BY <3>1 DEF Deliveries
      <3>3. requests'[r] \in Deliveries
        BY <1>4, <3>2, IdleType
      <3>4. requests' = [requests EXCEPT ![r] = requests'[r]]
        BY <1>4 DEF Consume, Becomes
      <3>5. QED
        BY <3>3, <3>4
    <2>2. requests'[r] = Idle \/ requests'[r].envelope = e
      BY <1>4 DEF InboxInv, InboxType, Deliveries
    <2>3. QED
      BY <1>1, <1>2, <1>3, <2>1, <2>2 DEF InboxInv, InboxType, At, Idle
  <1>6. CASE e \in consumed
    <2>1. \A s \in Requests : Working(s)' \/ At(s, "apply")' => s # r
      BY <1>4, <1>6 DEF Working, At, Idle
    <2>2. OneWorker' /\ Versioned'
      BY <1>2, <1>3, <2>1 DEF InboxInv, OneWorker, Versioned, OnlyItsActor, Working, At, Reference, Event
    <2>3. QED
      BY <1>2, <1>5, <2>2, CountKept DEF InboxInv
  <1>7. CASE e \notin consumed
    <2>1. requests'[r].envelope = e /\ requests'[r].pc = "actor"
      BY <1>4, <1>7 DEF InboxInv, InboxType, Deliveries
    <2>2. applied[e] = 0 /\ \A s \in Requests : Working(s) => requests[s].envelope # e
      BY <1>1, <1>7 DEF InboxInv, InboxType, OneWorker
    <2>3. OneWorker'
      BY <1>1, <1>2, <1>3, <2>1, <2>2 DEF InboxInv, OneWorker, Working, At
    <2>4. Versioned'
      BY <1>2, <1>3, <2>1 DEF InboxInv, Versioned, OnlyItsActor, At, Reference, Event
    <2>5. QED
      BY <1>2, <1>5, <2>3, <2>4, CountKept DEF InboxInv
  <1>8. QED
    BY <1>6, <1>7

\* A worker that goes on with its envelope, before it has read the reference, or gives up.
LEMMA StepKeeps ==
  ASSUME InboxAssumption, InboxInv, NEW r \in Requests, Working(r), NEW next \in Deliveries, Becomes(r, next),
         next = Idle \/ (next.pc \in {"admit", "find"} /\ next.envelope = requests[r].envelope),
         UNCHANGED <<sent, expired, consumed, references, applied, arrivals, trouble>>, actors' \subseteq Actors
  PROVE  InboxInv'
  <1>1. requests' \in [Requests -> Deliveries] /\ requests'[r] = next
        /\ \A s \in Requests : s # r => requests'[s] = requests[s]
    BY DEF Becomes, InboxInv, InboxType
  <1>2. InboxType'
    BY <1>1 DEF InboxInv, InboxType, At, Working, Idle
  <1>3. OneWorker'
    BY <1>1 DEF InboxInv, OneWorker, Working, At, Idle
  <1>4. Versioned'
    BY <1>1 DEF InboxInv, Versioned, OnlyItsActor, At, Reference, Event, Idle
  <1>5. QED
    BY <1>2, <1>3, <1>4, CountKept DEF InboxInv

LEMMA ActorKeeps ==
  ASSUME InboxAssumption, InboxInv, NEW r \in Requests, FindActor(r) \/ AdmitActor(r)
  PROVE  InboxInv'
  <1>1. Working(r) /\ requests[r] \in Deliveries
    BY DEF FindActor, AdmitActor, At, Working, InboxInv, InboxType
  <1>2. CASE FindActor(r)
    <2> DEFINE next == [requests[r] EXCEPT !.pc = "admit", !.known = Event(r).actor \in actors]
    <2>1. next \in Deliveries
      <3>1. "admit" \in Stages /\ (Event(r).actor \in actors) \in BOOLEAN
        BY DEF Stages
      <3>2. QED
        BY <1>1, <3>1, KnownType, Zenon
    <2>2. next.pc = "admit" /\ next.envelope = requests[r].envelope
      BY <1>1 DEF Deliveries
    <2>3. Becomes(r, next) /\ UNCHANGED <<sent, expired, consumed, actors, references, applied, arrivals, trouble>>
      BY <1>2 DEF FindActor
    <2>4. QED
      BY <1>1, <2>1, <2>2, <2>3, StepKeeps DEF InboxInv, InboxType
  <1>3. CASE AdmitActor(r)
    <2>1. actors' \subseteq Actors
      BY <1>1, <1>3 DEF AdmitActor, InboxInv, InboxType, Event, Working, Signed, NoEvent, InboxAssumption
    <2>2. PICK next : Becomes(r, next) /\ next \in {[requests[r] EXCEPT !.pc = "find"], Idle}
      BY <1>3 DEF AdmitActor
    <2>3. next \in Deliveries /\ (next = Idle \/ (next.pc = "find" /\ next.envelope = requests[r].envelope))
      <3>1. "find" \in Stages
        BY DEF Stages
      <3>2. [requests[r] EXCEPT !.pc = "find"] \in Deliveries
        BY <1>1, <3>1 DEF Deliveries
      <3>3. QED
        BY <1>1, <2>2, <3>2, IdleType DEF Deliveries
    <2>4. UNCHANGED <<sent, expired, consumed, references, applied, arrivals, trouble>>
      BY <1>3 DEF AdmitActor
    <2>5. QED
      BY <1>1, <2>1, <2>2, <2>3, <2>4, StepKeeps
  <1>4. QED
    BY <1>2, <1>3

\* A worker remembers the version it has read, which is none or its own actor's.
LEMMA FindKeeps ==
  ASSUME InboxAssumption, InboxInv, NEW r \in Requests, FindReference(r)
  PROVE  InboxInv'
  <1> DEFINE ok == Owned(r) /\ (Event(r).type = "publication_withdrawn" => Reference(r) # NoReference)
  <1>1. Working(r) /\ requests[r].envelope \in Envelopes /\ sent[requests[r].envelope] # NoEvent
    BY DEF FindReference, At, Working, InboxInv, InboxType
  <1>2. Event(r) \in Signed /\ Reference(r) \in References
    BY <1>1 DEF InboxInv, InboxType, Event, Reference, Signed
  <1>3. UNCHANGED <<sent, expired, consumed, actors, references, applied, arrivals, trouble>>
    BY DEF FindReference
  <1>4. \A s \in Requests : s # r => requests'[s] = requests[s]
    BY DEF FindReference, Becomes, InboxInv, InboxType
  <1>5. requests'[r] = IF ok THEN [requests[r] EXCEPT !.pc = "apply", !.existing = Reference(r)] ELSE Idle
    BY DEF FindReference, Becomes, InboxInv, InboxType
  <1>6. InboxType'
    <2>1. requests'[r] \in Deliveries /\ requests' = [requests EXCEPT ![r] = requests'[r]]
      <3>1. requests[r] \in Deliveries /\ "apply" \in Stages
        BY DEF InboxInv, InboxType, Stages
      <3>2. [requests[r] EXCEPT !.pc = "apply", !.existing = Reference(r)] \in Deliveries
        BY <1>2, <3>1 DEF Deliveries
      <3>3. requests'[r] \in Deliveries
        BY <1>5, <3>2, IdleType
      <3>4. requests' = [requests EXCEPT ![r] = requests'[r]]
        BY <1>5 DEF FindReference, Becomes
      <3>5. QED
        BY <3>3, <3>4
    <2>2. requests'[r] = Idle \/ requests'[r].envelope = requests[r].envelope
      BY <1>5 DEF InboxInv, InboxType, Deliveries
    <2>3. QED
      BY <1>1, <1>3, <1>4, <2>1, <2>2 DEF InboxInv, InboxType, At, Idle
  <1>7. requests'[r] = Idle \/ /\ requests'[r].envelope = requests[r].envelope /\ requests'[r].pc = "apply" /\ ok
                               /\ requests'[r].existing = Reference(r)
    BY <1>5 DEF InboxInv, InboxType, Deliveries
  <1>8. OneWorker'
    BY <1>1, <1>3, <1>4, <1>7 DEF InboxInv, OneWorker, Working, At, Idle
  <1>9. Versioned'
    <2>1. ASSUME NEW s \in Requests, At(s, "apply")'
          PROVE  /\ requests'[s].existing.revision <= Reference(s)'.revision
                 /\ requests'[s].existing.revision = Reference(s)'.revision => requests'[s].existing = Reference(s)'
                 /\ requests'[s].existing = NoReference \/ requests'[s].existing.actor = Event(s)'.actor
                 /\ Event(s)'.type = "publication_withdrawn" => requests'[s].existing # NoReference
      <3>1. CASE s # r
        BY <1>3, <1>4, <2>1, <3>1 DEF InboxInv, Versioned, At, Reference, Event
      <3>2. CASE s = r
        <4>1. /\ requests'[r].envelope = requests[r].envelope /\ ok /\ requests'[r].existing = Reference(r)
              /\ Event(r)' = Event(r) /\ Reference(r)' = Reference(r)
          BY <1>3, <1>7, <2>1, <3>2 DEF At, Idle, Event, Reference
        <4>2. QED
          BY <1>2, <3>2, <4>1 DEF Owned, References
      <3>3. QED
        BY <3>1, <3>2
    <2>2. QED
      BY <1>3, <2>1 DEF InboxInv, Versioned, OnlyItsActor
  <1>10. QED
    BY <1>3, <1>6, <1>8, <1>9, CountKept DEF InboxInv

\* A withdrawn reference is one, in the revision it is given, of the same actor.
LEMMA WithdrawnType ==
  ASSUME NEW x \in References, NEW n \in Nat
  PROVE  /\ [x EXCEPT !.state = "withdrawn", !.revision = n] \in References
         /\ [x EXCEPT !.state = "withdrawn", !.revision = n].revision = n
         /\ [x EXCEPT !.state = "withdrawn", !.revision = n].actor = x.actor
  BY DEF References

\* What a worker writes over the version it has read is the next one, of the same actor.
LEMMA ChangedNext ==
  ASSUME InboxAssumption, InboxInv, NEW r \in Requests, At(r, "apply"), Fresh(r)
  PROVE  /\ Event(r) \in Signed /\ Reference(r) = requests[r].existing
         /\ Changed(r) \in References /\ Changed(r).revision = Reference(r).revision + 1
         /\ Changed(r).actor = Event(r).actor
         /\ Reference(r).revision > 0 => Reference(r).actor = Event(r).actor
  <1>1. requests[r].envelope \in Envelopes /\ requests[r].existing \in References /\ Event(r) \in Signed
    BY DEF InboxInv, InboxType, At, Event, Deliveries
  <1>2. /\ Reference(r) = requests[r].existing
        /\ requests[r].existing = NoReference \/ requests[r].existing.actor = Event(r).actor
        /\ Event(r).type = "publication_withdrawn" => requests[r].existing # NoReference
    BY DEF InboxInv, Versioned, Fresh
  <1>3. CASE Event(r).type = "publication_withdrawn"
    <2>1. Changed(r) = [requests[r].existing EXCEPT !.state = "withdrawn", !.revision = @ + 1]
      BY <1>3 DEF Changed
    <2>2. Changed(r) \in References /\ Changed(r).revision = requests[r].existing.revision + 1
          /\ Changed(r).actor = requests[r].existing.actor
      <3>1. requests[r].existing.revision + 1 \in Nat
        BY <1>1 DEF References
      <3>2. PICK n \in Nat : n = requests[r].existing.revision + 1
        BY <3>1
      <3>3. PICK x \in References : x = requests[r].existing
        BY <1>1
      <3> DEFINE y == [x EXCEPT !.state = "withdrawn", !.revision = n]
      <3>4. Changed(r) = y
        BY <2>1, <3>2, <3>3
      <3>5. y \in References /\ y.revision = n /\ y.actor = x.actor
        BY WithdrawnType, Zenon
      <3> HIDE DEF y
      <3>6. QED
        BY <3>2, <3>3, <3>4, <3>5
    <2>3. QED
      BY <1>1, <1>2, <1>3, <2>2
  <1>4. CASE Event(r).type # "publication_withdrawn"
    <2>1. Changed(r) = [actor |-> Event(r).actor, uri |-> requests[r].envelope, state |-> "accepted",
                        revision |-> requests[r].existing.revision + 1]
      BY <1>2, <1>4 DEF Changed
    <2>2. QED
      BY <1>1, <1>2, <2>1 DEF References, Signed, NoReference
  <1>5. QED
    BY <1>3, <1>4

\* A change that was made of the version that stands follows it, once.
LEMMA FreshKeeps ==
  ASSUME InboxAssumption, InboxInv, NEW r \in Requests, Apply(r), Fresh(r)
  PROVE  InboxInv'
  <1> DEFINE e == requests[r].envelope
             p == sent[e].publication
  <1>1. At(r, "apply") /\ requests' = [requests EXCEPT ![r] = Idle]
        /\ references' = [references EXCEPT ![p] = Changed(r)] /\ applied' = [applied EXCEPT ![e] = @ + 1]
        /\ UNCHANGED <<sent, expired, consumed, actors, arrivals, trouble>>
    BY DEF Apply, Becomes, Event
  <1>2. e \in Envelopes /\ sent[e] # NoEvent /\ p \in Publications
        /\ Event(r) = sent[e] /\ Reference(r) = references[p]
    BY <1>1, ChangedNext DEF Event, Reference, InboxInv, InboxType, At, Signed
  <1>3. applied[e] = 0 /\ e \in consumed /\ Working(r)
    BY <1>1 DEF InboxInv, OneWorker, Working, At
  <1>4. \A s \in Requests : s # r => requests'[s] = requests[s]
    BY <1>1 DEF InboxInv, InboxType
  <1>5. requests'[r] = Idle
    BY <1>1 DEF InboxInv, InboxType
  <1>6. \A q \in Publications : references'[q] = IF q = p THEN Changed(r) ELSE references[q]
    BY <1>1, <1>2 DEF InboxInv, InboxType
  <1>7. \A d \in Envelopes : applied'[d] = IF d = e THEN 1 ELSE applied[d]
    BY <1>1, <1>2, <1>3 DEF InboxInv, InboxType
  <1>8. references[p] \in References /\ Changed(r) \in References /\ Changed(r).revision = references[p].revision + 1
        /\ Changed(r).actor = sent[e].actor /\ (references[p].revision > 0 => references[p].actor = sent[e].actor)
    BY <1>1, <1>2, ChangedNext DEF InboxInv, InboxType
  <1>9. InboxType'
    <2>1. references' \in [Publications -> References] /\ applied' \in [Envelopes -> Nat]
      <3>1. references \in [Publications -> References] /\ applied \in [Envelopes -> Nat]
        BY DEF InboxInv, InboxType
      <3>2. references' \in [Publications -> References]
        BY <1>1, <1>8, <3>1
      <3>3. applied' = [applied EXCEPT ![e] = 1]
        BY <1>1, <1>3
      <3>4. QED
        BY <3>1, <3>2, <3>3
    <2>2. requests' \in [Requests -> Deliveries]
      BY <1>1, IdleType DEF InboxInv, InboxType
    <2>3. \A s \in Requests : ~At(s, "idle")' => requests'[s].envelope \in Envelopes /\ sent'[requests'[s].envelope] # NoEvent
      BY <1>1, <1>4, <1>5 DEF InboxInv, InboxType, At, Idle
    <2>4. QED
      BY <1>1, <1>2, <1>7, <2>1, <2>2, <2>3 DEF InboxInv, InboxType
  <1>10. OneWorker'
    <2>1. \A s \in Requests : Working(s)' => s # r /\ Working(s) /\ requests'[s] = requests[s]
      BY <1>4, <1>5 DEF Working, At, Idle
    <2>2. \A s \in Requests : Working(s)' => requests[s].envelope # e
      BY <1>3, <2>1 DEF InboxInv, OneWorker
    <2>3. \A s \in Requests : Working(s)' => requests[s].envelope \in Envelopes
      BY <2>1 DEF InboxInv, InboxType, Working
    <2>4. QED
      BY <1>1, <1>3, <1>7, <2>1, <2>2, <2>3 DEF InboxInv, OneWorker
  <1>11. Versioned'
    <2>1. \A q \in Publications : references'[q].revision = 0 => references'[q] = NoReference
      BY <1>6, <1>8 DEF InboxInv, Versioned, References
    <2>2. ASSUME NEW s \in Requests, At(s, "apply")'
          PROVE  /\ requests'[s].existing.revision <= Reference(s)'.revision
                 /\ requests'[s].existing.revision = Reference(s)'.revision => requests'[s].existing = Reference(s)'
                 /\ requests'[s].existing = NoReference \/ requests'[s].existing.actor = Event(s)'.actor
                 /\ Event(s)'.type = "publication_withdrawn" => requests'[s].existing # NoReference
      <3>1. s # r /\ requests'[s] = requests[s] /\ At(s, "apply") /\ Event(s)' = Event(s)
        BY <1>1, <1>4, <1>5, <2>2 DEF At, Idle, Event
      <3>2. Event(s) \in Signed /\ requests[s].existing \in References
        BY <3>1 DEF InboxInv, InboxType, At, Event, Deliveries
      <3>3. Reference(s)' = IF Event(s).publication = p THEN Changed(r) ELSE Reference(s)
        BY <1>6, <3>1, <3>2 DEF Reference, Signed
      <3>4. requests[s].existing.revision <= Reference(s).revision
            /\ (requests[s].existing.revision = Reference(s).revision => requests[s].existing = Reference(s))
            /\ (requests[s].existing = NoReference \/ requests[s].existing.actor = Event(s).actor)
            /\ (Event(s).type = "publication_withdrawn" => requests[s].existing # NoReference)
        BY <3>1 DEF InboxInv, Versioned
      <3>5. CASE Event(s).publication = p
        <4>1. Reference(s) = references[p] /\ Reference(s)' = Changed(r)
          BY <3>3, <3>5 DEF Reference
        <4>2. requests[s].existing.revision < Changed(r).revision
          BY <1>8, <3>2, <3>4, <4>1 DEF References
        <4>3. QED
          BY <1>8, <3>1, <3>2, <3>4, <4>1, <4>2 DEF References
      <3>6. QED
        BY <3>1, <3>3, <3>4, <3>5
    <2>3. \A d \in Envelopes : applied'[d] > 0 =>
            references'[sent'[d].publication].revision > 0 /\ references'[sent'[d].publication].actor = sent'[d].actor
      <3> SUFFICES ASSUME NEW d \in Envelopes, applied'[d] > 0
                   PROVE  references'[sent[d].publication].revision > 0 /\ references'[sent[d].publication].actor = sent[d].actor
        BY <1>1
      <3>1. CASE d = e
        BY <1>2, <1>6, <1>8, <3>1 DEF References
      <3>2. CASE d # e
        <4>1. applied[d] > 0 /\ sent[d] \in Signed
          BY <1>7, <3>2 DEF InboxInv, InboxType
        <4>2. references[sent[d].publication].revision > 0 /\ references[sent[d].publication].actor = sent[d].actor
          BY <4>1 DEF InboxInv, Versioned, OnlyItsActor
        <4>3. QED
          BY <1>6, <1>8, <4>1, <4>2 DEF Signed, References
      <3>3. QED
        BY <3>1, <3>2
    <2>4. QED
      BY <2>1, <2>2, <2>3 DEF Versioned, OnlyItsActor
  <1>12. Counted'
    <2> SUFFICES ASSUME NEW q \in Publications
                 PROVE  IsFiniteSet(Changes(q)') /\ references'[q].revision = Cardinality(Changes(q)')
      BY DEF Counted
    <2>1. IsFiniteSet(Changes(q)) /\ references[q].revision = Cardinality(Changes(q))
      BY DEF InboxInv, Counted
    <2>2. CASE q = p
      <3>1. Changes(q)' = Changes(q) \cup {e} /\ e \notin Changes(q)
        BY <1>1, <1>2, <1>3, <1>7, <2>2 DEF Changes
      <3>2. IsFiniteSet(Changes(q) \cup {e}) /\ Cardinality(Changes(q) \cup {e}) = Cardinality(Changes(q)) + 1
        BY <2>1, <3>1, FS_AddElement
      <3>3. QED
        BY <1>6, <1>8, <2>1, <2>2, <3>1, <3>2
    <2>3. CASE q # p
      <3>1. Changes(q)' = Changes(q)
        BY <1>1, <1>2, <1>7, <2>3 DEF Changes
      <3>2. QED
        BY <1>6, <2>1, <2>3, <3>1
    <2>4. QED
      BY <2>2, <2>3
  <1>13. QED
    BY <1>9, <1>10, <1>11, <1>12 DEF InboxInv

-----------------------------------------------------------------------------
(* The theorems.                                                            *)

LEMMA InboxSteps == InboxAssumption /\ InboxInv /\ [InboxNext]_inboxVars => InboxInv'
  <1> SUFFICES ASSUME InboxAssumption, InboxInv, [InboxNext]_inboxVars PROVE InboxInv'
    OBVIOUS
  <1>1. ASSUME NEW e \in Envelopes, NEW t \in Types, NEW a \in Actors, NEW p \in Publications,
               Sign(e, [type |-> t, actor |-> a, publication |-> p])
        PROVE  InboxInv'
    BY <1>1, SignKeeps DEF Signed
  <1>2. ASSUME NEW e \in Envelopes, Expire(e) PROVE InboxInv'
    BY <1>2, ExpireKeeps
  <1>3. ASSUME NEW e \in Envelopes, NEW r \in Requests, Arrive(r, e) PROVE InboxInv'
    <2> DEFINE next == [Idle EXCEPT !.pc = "verify", !.envelope = e]
    <2>1. next \in Deliveries /\ next.pc = "verify" /\ next.envelope = e
      BY DEF Idle, Deliveries, Stages, NoReference, References
    <2>2. Becomes(r, next) /\ sent[e] # NoEvent /\ UNCHANGED <<sent, expired, consumed, actors, references, applied, trouble>>
      BY <1>3 DEF Arrive
    <2>3. arrivals' \in 0..MaxArrivals /\ expired' \subseteq Envelopes /\ trouble' \in 0..MaxTrouble
      BY <1>3, <2>2 DEF Arrive, InboxInv, InboxType, InboxAssumption
    <2>4. QED
      BY <2>1, <2>2, <2>3, RestKeeps
  <1>4. ASSUME NEW r \in Requests, Consume(r) PROVE InboxInv'
    BY <1>4, ConsumeKeeps
  <1>5. ASSUME NEW r \in Requests, FindActor(r) \/ AdmitActor(r) PROVE InboxInv'
    BY <1>5, ActorKeeps
  <1>6. ASSUME NEW r \in Requests, FindReference(r) PROVE InboxInv'
    BY <1>6, FindKeeps
  <1>7. ASSUME NEW r \in Requests, Apply(r) PROVE InboxInv'
    <2>1. CASE Fresh(r)
      BY <1>7, <2>1, FreshKeeps
    <2>2. CASE ~Fresh(r)
      BY <1>7, <2>2, RestKeeps, IdleType DEF Apply, Idle, InboxInv, InboxType
    <2>3. QED
      BY <2>1, <2>2
  <1>8. ASSUME NEW r \in Requests, Crash(r) PROVE InboxInv'
    <2>1. trouble' \in 0..MaxTrouble
      BY <1>8 DEF Crash, InboxInv, InboxType, InboxAssumption
    <2>2. QED
      BY <1>8, <2>1, RestKeeps, IdleType DEF Crash, Idle, InboxInv, InboxType
  <1>9. CASE UNCHANGED inboxVars
    BY <1>9, CountKept DEF inboxVars, InboxInv, InboxType, OneWorker, Versioned, OnlyItsActor, Working, At, Reference, Event
  <1>10. QED
    BY <1>1, <1>2, <1>3, <1>4, <1>5, <1>6, <1>7, <1>8, <1>9 DEF InboxNext

LEMMA InboxAlways == ASSUME InboxAssumption PROVE InboxSpec => []InboxInv
  BY InboxStarts, InboxSteps, PTL DEF InboxSpec

\* The deliveries and references of the inbox keep their types (server.ts, POST
\* /v1/federation/inbox).
THEOREM InboxTypeCorrect == ASSUME InboxAssumption PROVE InboxSpec => []InboxTypeOK
  <1>1. InboxInv => InboxTypeOK
    BY DEF InboxInv, InboxType, InboxTypeOK, References, Deliveries, Stages
  <1>2. QED
    BY <1>1, InboxAlways, PTL

\* An envelope changes its reference once at most, in any number of deliveries of any of
\* them at the same time (the replay store).
THEOREM EnvelopesOnce == ASSUME InboxAssumption PROVE InboxSpec => []AppliedOnce
  <1>1. InboxInv => AppliedOnce
    BY DEF InboxInv, OneWorker, AppliedOnce
  <1>2. QED
    BY <1>1, InboxAlways, PTL

\* A reference belongs to the actor of everything that changed it.
THEOREM ActorsApart == ASSUME InboxAssumption PROVE InboxSpec => []OnlyItsActor
  <1>1. InboxInv => OnlyItsActor
    BY DEF InboxInv, Versioned
  <1>2. QED
    BY <1>1, InboxAlways, PTL

\* A reference has a revision for each envelope that changed it: none was written over
\* (the comparison of the revision in update).
THEOREM NoChangeLost == ASSUME InboxAssumption PROVE InboxSpec => []NoneOverwritten
  <1>1. InboxInv => NoneOverwritten
    BY DEF InboxInv, Counted, Changes, NoneOverwritten
  <1>2. QED
    BY <1>1, InboxAlways, PTL

-----------------------------------------------------------------------------
(* The names of a creator's records.                                        *)

\* A Work is no collection, and 0 is no record.
SlugAssumption ==
  /\ Works \cap Collections = {} /\ 0 \notin Records
  /\ MaxRecordRevision \in Nat
  /\ \A x \in Expectations : x \subseteq {"status", "revision"}

Edits == [at : {"idle", "load", "check", "write"}, record : Records \cup {0},
          was : Record, next : Record, expects : SUBSET {"status", "revision"}]

Busy(e) == editor[e].at # "idle"
Creating(e) == Busy(e) /\ editor[e].was.status = "none"

SlugType ==
  /\ record \in [Records -> Record]
  /\ editor \in [Editors -> Edits]
  /\ \A e \in Editors : Busy(e) => editor[e].record \in Records
  /\ \A e \in Editors : editor[e].at \in {"load", "check"} => editor[e].next.slug \in Slugs

\* A record answers to the slug it has, also when it is written.
SlugAnswers ==
  /\ \A r \in Records : record[r].status # "none" => record[r].slug \in record[r].aliases
  /\ \A e \in Editors : editor[e].at \in {"check", "write"} => editor[e].next.slug \in editor[e].next.aliases
  /\ \A e \in Editors : Busy(e) => editor[e].next.status # "none"

\* Who creates a record is alone with it; who edits one has read it in a revision
\* that names what was read, and writes the next.
ReadOK(e) ==
  LET its == editor[e]
      r == its.record
  IN /\ its.was.status = "none" =>
          /\ record[r].status = "none" /\ its.expects = {} /\ its.at # "load"
          /\ \A f \in Editors : Busy(f) /\ editor[f].record = r => f = e
     /\ its.was.status # "none" =>
          /\ record[r].status # "none"
          /\ its.was.revision <= record[r].revision
          /\ its.was.revision = record[r].revision => its.was = record[r]
          /\ r \in Works => /\ its.expects = {"revision"} /\ its.at # "load"
                            /\ its.next.revision = its.was.revision + 1
          /\ its.at # "load" /\ its.was.revision = record[r].revision =>
               record[r].aliases \subseteq its.next.aliases

SlugInv ==
  /\ SlugType /\ SlugAnswers /\ SlugsUnique
  /\ \A e \in Editors : Busy(e) => ReadOK(e)

LEMMA SlugStart ==
  ASSUME SlugAssumption, SlugInit
  PROVE  SlugInv
  <1>1. NoRecord \in Record /\ AtRest \in Edits
    BY DEF NoRecord, Record, AtRest, Edits
  <1>2. \A e \in Editors : ~Busy(e) /\ editor[e].at = "idle"
    BY DEF SlugInit, Busy, AtRest
  <1>3. \A r \in Records : record[r] = NoRecord
    BY DEF SlugInit
  <1>4. QED
    BY <1>1, <1>2, <1>3 DEF SlugInit, SlugInv, SlugType, SlugAnswers, SlugsUnique, NoRecord

\* An editor takes its next step before it writes.
LEMMA EditorMoves ==
  ASSUME SlugAssumption, SlugInv, NEW e \in Editors, NEW new \in Edits,
         editor' = [editor EXCEPT ![e] = new], record' = record,
         new.at # "idle" => /\ new.record \in Records /\ new.next.status # "none"
                            /\ new.at \in {"load", "check"} => new.next.slug \in Slugs
                            /\ new.at \in {"check", "write"} => new.next.slug \in new.next.aliases
                            /\ ReadOK(e)'
                            /\ \A f \in Editors : Busy(f) /\ f # e /\ editor[f].was.status = "none"
                                 => editor[f].record # new.record
  PROVE  SlugInv'
  <1>1. \A f \in Editors : editor'[f] = IF f = e THEN new ELSE editor[f]
    BY DEF SlugInv, SlugType
  <1>2. SlugType'
    BY <1>1 DEF SlugInv, SlugType, Busy
  <1>3. SlugAnswers' /\ SlugsUnique'
    BY <1>1 DEF SlugInv, SlugAnswers, SlugsUnique, Busy
  <1>4. ASSUME NEW f \in Editors, Busy(f)' PROVE ReadOK(f)'
    <2>1. CASE f = e
      BY <1>1, <1>4, <2>1 DEF Busy
    <2>2. CASE f # e
      <3>1. editor'[f] = editor[f] /\ ReadOK(f) /\ Busy(f)
        BY <1>1, <1>4, <2>2 DEF SlugInv, Busy
      <3>2. editor[f].was.status = "none" =>
              \A g \in Editors : Busy(g)' /\ editor'[g].record = editor[f].record => g = f
        BY <1>1, <2>2, <3>1 DEF ReadOK, Busy
      <3>3. QED
        BY <3>1, <3>2 DEF ReadOK
    <2>3. QED
      BY <2>1, <2>2
  <1>5. QED
    BY <1>2, <1>3, <1>4 DEF SlugInv

\* What a write puts into the library.
Written(e) ==
  LET r == editor[e].record
      next == editor[e].next
  IN [next EXCEPT !.revision = IF r \in Works \/ editor[e].was.status = "none" THEN next.revision
                               ELSE record[r].revision + 1]

LEMMA WrittenIs ==
  ASSUME SlugAssumption, SlugInv, NEW e \in Editors, editor[e].at = "write"
  PROVE  LET r == editor[e].record
             next == editor[e].next
         IN /\ r \in Records /\ next \in Record /\ Busy(e) /\ ReadOK(e)
            /\ Written(e) \in Record
            /\ Written(e).status = next.status /\ Written(e).slug = next.slug
            /\ Written(e).aliases = next.aliases
            /\ next.status # "none" /\ next.slug \in next.aliases
            /\ Expected(e) /\ editor[e].was.status # "none" => Written(e).revision > record[r].revision
  <1> DEFINE r == editor[e].record
             next == editor[e].next
             revision == IF r \in Works \/ editor[e].was.status = "none" THEN next.revision
                         ELSE record[r].revision + 1
  <1>1. /\ r \in Records /\ next \in Record /\ record[r] \in Record /\ Busy(e) /\ ReadOK(e)
        /\ next.status # "none" /\ next.slug \in next.aliases /\ editor[e].was \in Record
    BY DEF SlugInv, SlugType, SlugAnswers, Busy, Edits
  <1>2. revision \in Nat
    BY <1>1 DEF Record
  <1>3. Written(e) = [next EXCEPT !.revision = revision]
    BY DEF Written
  <1>4. Expected(e) /\ editor[e].was.status # "none" => revision > record[r].revision
    <2>1. record[r].revision \in Nat
      BY <1>1 DEF Record
    <2>2. QED
      BY <1>1, <2>1 DEF ReadOK, Expected
  <1> HIDE DEF revision
  <1>5. /\ Written(e) \in Record /\ Written(e).revision = revision
        /\ Written(e).status = next.status /\ Written(e).slug = next.slug
        /\ Written(e).aliases = next.aliases
    BY <1>1, <1>2, <1>3 DEF Record
  <1>6. QED
    BY <1>1, <1>4, <1>5

LEMMA WriteKeeps ==
  ASSUME SlugAssumption, SlugInv, NEW e \in Editors, WriteRecord(e)
  PROVE  SlugInv'
  <1> DEFINE next == editor[e].next
  <1>0. PICK r \in Records : r = editor[e].record
    BY WrittenIs DEF WriteRecord
  <1>1. /\ editor[e].at = "write" /\ AtRest \in Edits /\ ~Busy(e)'
        /\ editor' = [editor EXCEPT ![e] = AtRest]
        /\ \A f \in Editors : editor'[f] = IF f = e THEN AtRest ELSE editor[f]
    <2>1. AtRest \in Edits
      BY DEF NoRecord, Record, AtRest, Edits
    <2>2. QED
      BY <2>1 DEF WriteRecord, Leaves, SlugInv, SlugType, Busy, AtRest
  <1>2. CASE record' = record
    <2>1. QED
      BY <1>1, <1>2, EditorMoves DEF AtRest
  <1>3. CASE record' # record
    <2>1. /\ Expected(e) /\ ~Taken(r, Acquired(next))
          /\ record' = [record EXCEPT ![r] = Written(e)]
      BY <1>0, <1>3 DEF WriteRecord, Written
    <2>2. /\ Busy(e) /\ ReadOK(e)
          /\ Written(e) \in Record
          /\ Written(e).status = next.status /\ Written(e).slug = next.slug
          /\ Written(e).aliases = next.aliases
          /\ next.status # "none" /\ next.slug \in next.aliases
          /\ editor[e].was.status # "none" => Written(e).revision > record[r].revision
      BY <1>0, <1>1, <2>1, WrittenIs
    <2>3. /\ record' \in [Records -> Record]
          /\ \A q \in Records : record'[q] = IF q = r THEN Written(e) ELSE record[q]
      BY <2>1, <2>2 DEF SlugInv, SlugType
    <2>4. SlugType'
      BY <1>1, <2>3 DEF SlugInv, SlugType, Busy, AtRest
    <2>5. SlugAnswers'
      BY <1>1, <2>2, <2>3 DEF SlugInv, SlugAnswers, Busy, AtRest
    <2>6. SlugsUnique'
      <3>1. ASSUME NEW q \in Records, q # r, Alike(q, r), record[q].status = "live", next.status = "live"
            PROVE  record[q].aliases \cap next.aliases = {}
        BY <2>1, <3>1 DEF Taken, Others, Acquired
      <3>2. \A q \in Records : Alike(q, r) <=> Alike(r, q)
        BY DEF Alike
      <3>3. QED
        BY <2>2, <2>3, <3>1, <3>2 DEF SlugInv, SlugsUnique
    <2>7. ASSUME NEW f \in Editors, Busy(f)' PROVE ReadOK(f)'
      <3>1. f # e /\ editor'[f] = editor[f] /\ Busy(f) /\ ReadOK(f)
        BY <1>1, <2>7 DEF SlugInv, Busy
      <3>2. CASE editor[f].record # r
        <4>1. editor[f].record \in Records /\ record'[editor[f].record] = record[editor[f].record]
          BY <2>3, <3>1, <3>2 DEF SlugInv, SlugType
        <4>2. editor[f].was.status = "none" =>
                \A g \in Editors : Busy(g)' /\ editor'[g].record = editor[f].record => g = f
          BY <1>1, <3>1 DEF ReadOK, Busy
        <4>3. QED
          BY <3>1, <4>1, <4>2 DEF ReadOK
      <3>3. CASE editor[f].record = r
        <4>1. editor[f].was.status # "none" /\ editor[e].was.status # "none"
          BY <1>0, <2>2, <3>1, <3>3 DEF ReadOK
        <4>2. /\ Written(e).revision > record[r].revision /\ Written(e).status # "none"
              /\ record'[r] = Written(e)
          BY <2>2, <2>3, <4>1
        <4>3. /\ editor[f].was.revision \in Nat /\ record[r].revision \in Nat
              /\ Written(e).revision \in Nat /\ editor[f].was.revision <= record[r].revision
          BY <2>2, <3>1, <3>3, <4>1 DEF SlugInv, SlugType, Edits, Record, ReadOK
        <4>4. editor[f].was.revision <= Written(e).revision /\ editor[f].was.revision # Written(e).revision
          BY <4>2, <4>3
        <4>5. QED
          BY <3>1, <3>3, <4>1, <4>2, <4>4 DEF ReadOK
      <3>4. QED
        BY <3>2, <3>3
    <2>8. QED
      BY <2>4, <2>5, <2>6, <2>7 DEF SlugInv
  <1>4. QED
    BY <1>2, <1>3

LEMMA SlugStep ==
  ASSUME SlugAssumption, SlugInv, [SlugNext]_slugVars
  PROVE  SlugInv'
  <1>1. ASSUME NEW e \in Editors, NEW r \in Records, NEW slug \in Slugs, CreateRecord(e, r, slug)
        PROVE  SlugInv'
    <2> DEFINE next == [status |-> "live", slug |-> slug, aliases |-> {slug},
                        revision |-> IF r \in Works THEN 1 ELSE 0]
               new == [AtRest EXCEPT !.at = "check", !.record = r, !.next = next]
    <2>1. next \in Record /\ next.status = "live" /\ next.slug = slug /\ next.aliases = {slug}
      BY DEF Record
    <2>2. editor' = [editor EXCEPT ![e] = new] /\ record' = record
      BY <1>1 DEF CreateRecord
    <2> HIDE DEF next
    <2>3. AtRest \in Edits /\ AtRest.was.status = "none" /\ AtRest.expects = {}
      BY DEF NoRecord, Record, AtRest, Edits
    <2>4. /\ new \in Edits /\ new.at = "check" /\ new.record = r /\ new.was = AtRest.was
          /\ new.next = next /\ new.expects = {}
      BY <2>1, <2>3 DEF Edits
    <2> HIDE DEF new
    <2>5. \A f \in Editors : editor'[f] = IF f = e THEN new ELSE editor[f]
      BY <2>2 DEF SlugInv, SlugType
    <2>6. record[r].status = "none" /\ \A f \in Editors : editor[f].record # r
      BY <1>1 DEF CreateRecord
    <2>7. ReadOK(e)'
      BY <2>2, <2>3, <2>4, <2>5, <2>6 DEF ReadOK
    <2>8. QED
      BY <2>1, <2>2, <2>4, <2>6, <2>7, EditorMoves
  <1>2. ASSUME NEW e \in Editors, NEW r \in Records, NEW new \in Edits,
               record[r].status # "none", new.record = r, new.was = record[r],
               new.next.status # "none", new.at \in {"load", "check", "write"},
               new.at \in {"load", "check"} => new.next.slug \in Slugs,
               new.at \in {"check", "write"} => new.next.slug \in new.next.aliases,
               new.at # "load" => record[r].aliases \subseteq new.next.aliases,
               r \in Works => /\ new.expects = {"revision"} /\ new.at # "load"
                              /\ new.next.revision = record[r].revision + 1,
               editor' = [editor EXCEPT ![e] = new], record' = record
        PROVE  SlugInv'
    <2>1. record[r].revision \in Nat /\ editor'[e] = new
      BY <1>2 DEF SlugInv, SlugType, Record
    <2>2. ReadOK(e)'
      BY <1>2, <2>1 DEF ReadOK
    <2>3. \A f \in Editors : Busy(f) /\ f # e /\ editor[f].was.status = "none" => editor[f].record # r
      BY <1>2 DEF SlugInv, ReadOK
    <2>4. QED
      BY <1>2, <2>2, <2>3, EditorMoves
  <1>3. ASSUME NEW e \in Editors, NEW r \in Works, NEW slug \in Slugs, NEW status \in {"live", "deleted"},
               Revise(e, r, status, slug)
        PROVE  SlugInv'
    <2> DEFINE next == [status |-> status, slug |-> slug, aliases |-> record[r].aliases \cup {slug},
                        revision |-> record[r].revision + 1]
               new == [at |-> "check", record |-> r, was |-> record[r], expects |-> {"revision"}, next |-> next]
    <2>1. r \in Records /\ record[r] \in Record /\ next \in Record
      BY DEF Records, SlugInv, SlugType, Record
    <2>2. new \in Edits
      BY <2>1 DEF Edits
    <2>3. /\ record[r].status # "none" /\ editor' = [editor EXCEPT ![e] = new] /\ record' = record
      BY <1>3 DEF Revise
    <2>4. QED
      BY <1>2, <2>1, <2>2, <2>3
  <1>4. ASSUME NEW e \in Editors, NEW r \in Collections, NEW slug \in Slugs, NEW status \in {"live", "deleted"},
               NEW expects \in Expectations, Edit(e, r, status, slug, expects)
        PROVE  SlugInv'
    <2> DEFINE next == [record[r] EXCEPT !.status = status, !.slug = slug]
               new == [at |-> "load", record |-> r, was |-> record[r], expects |-> expects, next |-> next]
    <2>0. /\ r \in Records /\ r \notin Works /\ record[r] \in Record
      BY DEF Records, SlugInv, SlugType, SlugAssumption
    <2>1. next \in Record /\ next.status = status /\ next.slug = slug
      BY <2>0 DEF Record
    <2>2. new \in Edits
      BY <2>0, <2>1 DEF Edits, SlugAssumption
    <2>3. /\ record[r].status # "none" /\ editor' = [editor EXCEPT ![e] = new] /\ record' = record
      BY <1>4 DEF Edit
    <2> HIDE DEF next
    <2>4. QED
      BY <1>2, <2>0, <2>1, <2>2, <2>3
  <1>5. ASSUME NEW e \in Editors, NEW r \in Collections, NEW expects \in Expectations, Remove(e, r, expects)
        PROVE  SlugInv'
    <2> DEFINE next == [record[r] EXCEPT !.status = "deleted"]
               new == [at |-> "write", record |-> r, was |-> record[r], expects |-> expects, next |-> next]
    <2>0. /\ r \in Records /\ r \notin Works /\ record[r] \in Record
      BY DEF Records, SlugInv, SlugType, SlugAssumption
    <2>1. /\ next \in Record /\ next.status = "deleted" /\ next.slug = record[r].slug
          /\ next.aliases = record[r].aliases
      BY <2>0 DEF Record
    <2>2. new \in Edits
      BY <2>0, <2>1 DEF Edits, SlugAssumption
    <2>3. /\ record[r].status # "none" /\ editor' = [editor EXCEPT ![e] = new] /\ record' = record
      BY <1>5 DEF Remove
    <2>4. record[r].slug \in record[r].aliases
      BY <2>0, <2>3 DEF SlugInv, SlugAnswers
    <2> HIDE DEF next
    <2>5. QED
      BY <1>2, <2>0, <2>1, <2>2, <2>3, <2>4
  <1>6. ASSUME NEW e \in Editors, LoadRecord(e) PROVE SlugInv'
    <2> DEFINE its == editor[e]
               names == record[its.record].aliases \cup {its.next.slug}
               new == [its EXCEPT !.at = "check", !.next.aliases = names]
    <2>1. /\ its.at = "load" /\ Busy(e) /\ ReadOK(e) /\ its \in Edits /\ its.record \in Records
          /\ its.next \in Record /\ its.next.slug \in Slugs /\ its.next.status # "none"
          /\ record[its.record] \in Record
      BY <1>6 DEF LoadRecord, Busy, SlugInv, SlugType, SlugAnswers, Edits
    <2>2. /\ its.was.status # "none" /\ its.record \notin Works
      BY <2>1 DEF ReadOK
    <2>3. names \in SUBSET Slugs
      BY <2>1 DEF Record
    <2>4. /\ new \in Edits /\ new.at = "check" /\ new.record = its.record /\ new.was = its.was
          /\ new.expects = its.expects /\ new.next.aliases = names /\ new.next.slug = its.next.slug
          /\ new.next.status = its.next.status
      BY <2>1, <2>3 DEF Edits, Record
    <2>5. editor' = [editor EXCEPT ![e] = new] /\ record' = record /\ editor'[e] = new
      BY <1>6 DEF LoadRecord, SlugInv, SlugType
    <2>6. record[its.record].aliases \subseteq names /\ its.next.slug \in names
      OBVIOUS
    <2> HIDE DEF names, new
    <2>7. ReadOK(e)'
      BY <2>1, <2>2, <2>4, <2>5, <2>6 DEF ReadOK
    <2>8. \A f \in Editors : Busy(f) /\ f # e /\ editor[f].was.status = "none" => editor[f].record # its.record
      BY <2>1, <2>2 DEF SlugInv, ReadOK
    <2>9. /\ new.record \in Records /\ new.next.status # "none" /\ new.next.slug \in Slugs
          /\ new.next.slug \in new.next.aliases
          /\ \A f \in Editors : Busy(f) /\ f # e /\ editor[f].was.status = "none" => editor[f].record # new.record
      BY <2>1, <2>4, <2>6, <2>8
    <2>10. QED
      BY <2>4, <2>5, <2>7, <2>9, EditorMoves
  <1>7. ASSUME NEW e \in Editors, CheckSlug(e) PROVE SlugInv'
    <2>1. CASE Leaves(e)
      <3>1. AtRest \in Edits /\ AtRest.at = "idle"
        BY DEF NoRecord, Record, AtRest, Edits
      <3>2. editor' = [editor EXCEPT ![e] = AtRest] /\ record' = record
        BY <1>7, <2>1 DEF CheckSlug, Leaves
      <3>3. QED
        BY <3>1, <3>2, EditorMoves
    <2>2. CASE editor' = [editor EXCEPT ![e].at = "write"]
      <3> DEFINE its == editor[e]
                 new == [its EXCEPT !.at = "write"]
      <3>1. /\ its.at = "check" /\ Busy(e) /\ ReadOK(e) /\ its \in Edits /\ its.record \in Records
            /\ its.next.slug \in its.next.aliases /\ its.next.status # "none"
        BY <1>7 DEF CheckSlug, Busy, SlugInv, SlugType, SlugAnswers
      <3>2. /\ new \in Edits /\ new.at = "write" /\ new.record = its.record /\ new.was = its.was
            /\ new.expects = its.expects /\ new.next = its.next
        BY <3>1 DEF Edits
      <3>3. editor' = [editor EXCEPT ![e] = new] /\ record' = record /\ editor'[e] = new
        BY <1>7, <2>2 DEF CheckSlug, SlugInv, SlugType
      <3> HIDE DEF new
      <3>4. \A f \in Editors : Busy(f)' => (Busy(f) /\ editor'[f].record = editor[f].record)
        BY <3>1, <3>2, <3>3 DEF Busy, SlugInv, SlugType
      <3>5. ReadOK(e)'
        BY <3>1, <3>2, <3>3, <3>4 DEF ReadOK
      <3>6. \A f \in Editors : Busy(f) /\ f # e /\ editor[f].was.status = "none" => editor[f].record # its.record
        BY <3>1 DEF SlugInv, ReadOK
      <3>7. QED
        BY <3>1, <3>2, <3>3, <3>5, <3>6, EditorMoves
    <2>3. QED
      BY <1>7, <2>1, <2>2 DEF CheckSlug
  <1>8. CASE UNCHANGED slugVars
    BY <1>8 DEF slugVars, SlugInv, SlugType, SlugAnswers, SlugsUnique, ReadOK, Busy
  <1>9. QED
    BY <1>1, <1>3, <1>4, <1>5, <1>6, <1>7, <1>8, WriteKeeps DEF SlugNext

-----------------------------------------------------------------------------
\* Records and requests keep their types.
THEOREM SlugsTyped ==
  ASSUME SlugAssumption
  PROVE  SlugSpec => []SlugTypeOK
  <1>1. SlugInv => SlugTypeOK
    BY DEF SlugInv, SlugType, SlugTypeOK, Edits
  <1>2. QED
    BY <1>1, SlugStart, SlugStep, PTL DEF SlugSpec

\* A slug, current or former, leads to one live Work and to one live collection,
\* whatever is created, renamed, deleted and restored at once.
THEOREM SlugsLeadToOne ==
  ASSUME SlugAssumption
  PROVE  SlugSpec => []SlugsUnique
  <1>1. SlugInv => SlugsUnique
    BY DEF SlugInv
  <1>2. QED
    BY <1>1, SlugStart, SlugStep, PTL DEF SlugSpec

LEMMA AliasStep ==
  ASSUME SlugAssumption, SlugInv, [SlugNext]_slugVars
  PROVE  AliasesKept
  <1> SUFFICES ASSUME NEW e \in Editors, editor[e].at = "write", editor'[e].at = "idle",
                      "revision" \in editor[e].expects
               PROVE  LET r == editor[e].record
                      IN record[r].aliases \subseteq record'[r].aliases /\ record'[r].slug \in record'[r].aliases
    BY DEF AliasesKept
  <1> DEFINE r == editor[e].record
  <1>1. /\ r \in Records /\ ReadOK(e)
        /\ Written(e).slug = editor[e].next.slug /\ Written(e).aliases = editor[e].next.aliases
        /\ editor[e].next.slug \in editor[e].next.aliases
    BY WrittenIs
  <1>2. editor[e].was.status # "none" /\ record[r].status # "none"
    BY <1>1 DEF ReadOK
  <1>3. record[r].slug \in record[r].aliases
    BY <1>1, <1>2 DEF SlugInv, SlugAnswers
  <1>4. CASE record' = record
    BY <1>3, <1>4
  <1>5. CASE record' # record
    <2>1. PICK f \in Editors : WriteRecord(f)
      BY <1>5 DEF SlugNext, slugVars, CreateRecord, Revise, Remove, Edit, LoadRecord, CheckSlug
    <2>2. f = e
      BY <2>1 DEF WriteRecord, Leaves, SlugInv, SlugType
    <2>3. Expected(e) /\ record' = [record EXCEPT ![r] = Written(e)]
      BY <1>5, <2>1, <2>2 DEF WriteRecord, Written
    <2>4. record'[r] = Written(e)
      BY <1>1, <2>3 DEF SlugInv, SlugType
    <2>5. record[r].revision = editor[e].was.revision
      BY <2>3 DEF Expected
    <2>6. record[r].aliases \subseteq editor[e].next.aliases
      BY <1>1, <1>2, <2>5 DEF ReadOK
    <2>7. QED
      BY <1>1, <2>4, <2>6
  <1>6. QED
    BY <1>4, <1>5

\* A record keeps every slug it ever had, through renames that overtake one another,
\* if each states the revision it was made from.
THEOREM SlugsKept ==
  ASSUME SlugAssumption
  PROVE  SlugSpec => [][AliasesKept]_slugVars
  BY SlugStart, SlugStep, AliasStep, PTL DEF SlugSpec

-----------------------------------------------------------------------------
(* The members, grants and workspaces of an organization.                   *)

OrgAssumption ==
  /\ Founder \in Users /\ Holders \subseteq Users \cup {TheOrganization}
  /\ InvitedRoles \subseteq Roles
  /\ IsFiniteSet(Plans) /\ (Plans # {} => Workspaces # {})
  /\ MaxMemberRevision \in Nat \ {0}

Memberships == [role : Roles, status : {"none", "active", "suspended", "ended"}, revision : 0..MaxMemberRevision]
Proposed == [workspace : Workspaces, role : GrantRoles]
TransferPlan == [workspace : Workspaces, workspaceRevision : Nat, from : Users \cup {TheOrganization},
                 organizationRevision : Nat, acceptedBy : Users, state : {"none", "accepted", "committed"}]
MemberChange == [at : {"change"}, actor : Users, user : Users, next : Memberships, current : Memberships,
                 owners : SUBSET Users]

OrgType ==
  /\ organization.revision \in Nat
  /\ member \in [Users -> Memberships]
  /\ owner \in [Workspaces -> [by : Users \cup {TheOrganization}, revision : Nat]]
  /\ grant \subseteq [workspace : Workspaces, member : Users, role : GrantRoles]
  /\ invitation \in [Invitations -> [to : Users, role : Roles, grants : SUBSET Proposed, by : Users,
                                     state : {"none", "pending", "accepted", "revoked", "expired"}]]
  /\ plan \in [Plans -> TransferPlan]
  /\ DOMAIN client = Clients

\* The authority of a membership over the organization.
Rank(m) == IF Active(m) THEN {m.role} \cap Privileged ELSE {}

\* What a client may commit as long as what it saw still stands.
ChangeOK(its) ==
  /\ its \in MemberChange /\ its.owners # {}
  /\ ~LastOwner(its.current, its.next, its.owners)
  /\ Rank(its.next) # Rank(its.current) => its.actor \in its.owners

AcceptanceOK(its) ==
  LET members == its.seen[2]
      owners == its.seen[3]
      invited == its.seen[4][its.invitation]
  IN /\ its.at = "accept" /\ its.invitation \in Invitations
     /\ invited.state = "pending"
     /\ Inviter(members[invited.by], invited.role) /\ Rejoins(members[invited.to])
     /\ members[invited.to].revision < MaxMemberRevision
     /\ \A g \in invited.grants : invited.role = "member" /\ owners[g.workspace].by = TheOrganization

\* Grants are of active ordinary members, for workspaces of the organization.
GrantsFit == \A g \in grant : GrantFits(g, member[g.member])

\* A workspace's revision counts the transfers that were carried out.
Moves(w) == {p \in Plans : plan[p].state = "committed" /\ plan[p].workspace = w}
TransfersCounted ==
  /\ \A w \in Workspaces : owner[w].revision = Cardinality(Moves(w)) + 1
  /\ \A p \in Plans : plan[p].state = "committed" => plan[p].workspaceRevision < owner[plan[p].workspace].revision

OrgInv ==
  /\ OrgType /\ OwnerRemains /\ GrantsFit /\ TransfersCounted /\ TransferredOnce
  /\ \A c \in Clients : client[c] = Away \/ ChangeOK(client[c]) \/ AcceptanceOK(client[c])

LEMMA OrgStart ==
  ASSUME OrgAssumption, OrgInit
  PROVE  OrgInv
  <1> USE DEF OrgAssumption
  <1>1. NoMember \in Memberships /\ [role |-> "owner", status |-> "active", revision |-> 1] \in Memberships
    BY DEF NoMember, Memberships, Roles
  <1>2. Plans # {} => NoPlan \in TransferPlan /\ NoPlan.state = "none"
    <2>1. Workspaces # {} => (CHOOSE w \in Workspaces : TRUE) \in Workspaces
      OBVIOUS
    <2>2. QED
      BY <2>1 DEF NoPlan, TransferPlan
  <1>3. /\ NoInvitation \in [to : Users, role : Roles, grants : SUBSET Proposed, by : Users,
                             state : {"none", "pending", "accepted", "revoked", "expired"}]
    BY DEF NoInvitation, Roles
  <1>4. OrgType
    BY <1>1, <1>2, <1>3 DEF OrgInit, OrgType
  <1>5. \A p \in Plans : plan[p].state = "none"
    BY <1>2 DEF OrgInit
  <1>6. OwnerRemains
    BY DEF OrgInit, OwnerRemains, ActiveOwners, Active
  <1>7. TransfersCounted /\ TransferredOnce
    <2>1. \A w \in Workspaces : Moves(w) = {} /\ owner[w].revision = 1
      BY <1>5 DEF OrgInit, Moves
    <2>2. Cardinality({}) = 0
      BY FS_EmptySet
    <2>3. QED
      BY <1>5, <2>1, <2>2 DEF TransfersCounted, TransferredOnce
  <1>8. QED
    BY <1>4, <1>6, <1>7 DEF OrgInit, OrgInv, GrantsFit

\* One more owner than one is left when one of several goes.
LEMMA OwnerLeft ==
  ASSUME NEW S, NEW u, ~(Cardinality(S) <= 1)
  PROVE  \E v \in S : v # u
  <1>1. SUFFICES ASSUME S \subseteq {u} PROVE FALSE
    OBVIOUS
  <1>2. S = {} \/ S = {u}
    BY <1>1
  <1>3. Cardinality({}) = 0 /\ Cardinality({u}) = 1
    BY FS_EmptySet, FS_Singleton
  <1>4. QED
    BY <1>2, <1>3

\* A step that changes no membership, workspace or plan.
LEMMA ClientMoves ==
  ASSUME OrgAssumption, OrgInv, UNCHANGED <<organization, member, owner, plan, grant, invitation>>,
         NEW c \in Clients, NEW new, client' = [client EXCEPT ![c] = new],
         new = Away \/ ChangeOK(new) \/ AcceptanceOK(new)
  PROVE  OrgInv'
  <1>1. OrgType'
    BY DEF OrgInv, OrgType
  <1>2. OwnerRemains' /\ GrantsFit' /\ TransferredOnce'
    BY DEF OrgInv, OwnerRemains, ActiveOwners, GrantsFit, GrantFits, TransferredOnce
  <1>3. TransfersCounted'
    BY DEF OrgInv, TransfersCounted, Moves
  <1>4. \A d \in Clients : client'[d] = Away \/ ChangeOK(client'[d]) \/ AcceptanceOK(client'[d])
    BY DEF OrgInv, OrgType
  <1>5. QED
    BY <1>1, <1>2, <1>3, <1>4 DEF OrgInv

\* What a client prepares fits what it has loaded.
LEMMA Preparing ==
  ASSUME OrgAssumption, OrgInv, NEW c \in Clients
  PROVE  /\ \A actor, u \in Users, role \in Roles, status \in {"active", "suspended", "ended"} :
              PrepareChange(c, actor, u, role, status) => OrgInv'
         /\ \A i \in Invitations : PrepareAcceptance(c, i) => OrgInv'
  <1>1. ASSUME NEW actor \in Users, NEW u \in Users, NEW role \in Roles,
               NEW status \in {"active", "suspended", "ended"}, PrepareChange(c, actor, u, role, status)
        PROVE  OrgInv'
    <2> DEFINE next == [role |-> role, status |-> status, revision |-> member[u].revision + 1]
               new == [at |-> "change", actor |-> actor, user |-> u, next |-> next, current |-> member[u],
                       owners |-> ActiveOwners]
    <2>1. /\ ChangeFits(member[actor], member[u], next, ActiveOwners) /\ member[u].revision < MaxMemberRevision
          /\ client' = [client EXCEPT ![c] = new]
          /\ UNCHANGED <<organization, member, owner, plan, grant, invitation>>
      BY <1>1 DEF PrepareChange, Prepare, records
    <2>2. member[u] \in Memberships /\ member[actor] \in Memberships
      BY DEF OrgInv, OrgType
    <2>3. next \in Memberships
      BY <2>1, <2>2 DEF Memberships, OrgAssumption
    <2>4. new \in MemberChange /\ ActiveOwners # {} /\ ~LastOwner(member[u], next, ActiveOwners)
      BY <2>1, <2>2, <2>3 DEF MemberChange, ActiveOwners, ChangeFits
    <2> HIDE DEF next
    <2>5. Rank(next) # Rank(member[u]) => actor \in ActiveOwners
      <3>1. SUFFICES ASSUME actor \notin ActiveOwners PROVE Rank(next) = Rank(member[u])
        OBVIOUS
      <3>2. member[actor].role # "owner" /\ ~Above(member[actor], member[u], next)
        BY <2>1, <3>1 DEF ActiveOwners, ChangeFits
      <3>3. member[u].role \in {"member", "billing_manager"} /\ next.role \notin Privileged
        BY <3>2 DEF Above, Privileged
      <3>4. QED
        BY <3>3 DEF Rank, Privileged
    <2>6. ChangeOK(new)
      BY <2>4, <2>5 DEF ChangeOK
    <2> HIDE DEF new
    <2>7. QED
      BY <2>1, <2>6, ClientMoves
  <1>2. ASSUME NEW i \in Invitations, PrepareAcceptance(c, i) PROVE OrgInv'
    <2> DEFINE new == [at |-> "accept", invitation |-> i, seen |-> Loaded]
    <2>1. /\ InvitationFits(i) /\ member[invitation[i].to].revision < MaxMemberRevision
          /\ client' = [client EXCEPT ![c] = new]
          /\ UNCHANGED <<organization, member, owner, plan, grant, invitation>>
      BY <1>2 DEF PrepareAcceptance, Prepare, records
    <2>2. \A g \in invitation[i].grants :
            invitation[i].role = "member" /\ owner[g.workspace].by = TheOrganization
      <3>1. ASSUME NEW g \in invitation[i].grants
            PROVE  [workspace |-> g.workspace, member |-> invitation[i].to, role |-> g.role] \in GrantsOf(i)
        BY DEF GrantsOf
      <3>2. QED
        BY <2>1, <3>1 DEF InvitationFits, GrantFits, Accepted
    <2>3. AcceptanceOK(new)
      BY <2>1, <2>2 DEF AcceptanceOK, Loaded, InvitationFits
    <2> HIDE DEF new
    <2>4. QED
      BY <2>1, <2>3, ClientMoves
  <1>3. QED
    BY <1>1, <1>2

\* The adapter puts a membership in the place of another.
LEMMA MemberChanges ==
  ASSUME OrgAssumption, OrgInv, NEW u \in Users, NEW new \in Memberships,
         UNCHANGED <<organization, owner, plan>>, member' = [member EXCEPT ![u] = new],
         \E v \in ActiveOwners : v = u => Active(new) /\ new.role = "owner",
         GrantsFit', grant' \subseteq [workspace : Workspaces, member : Users, role : GrantRoles],
         invitation' \in [Invitations -> [to : Users, role : Roles, grants : SUBSET Proposed, by : Users,
                                          state : {"none", "pending", "accepted", "revoked", "expired"}]],
         NEW c \in Clients, client' = [client EXCEPT ![c] = Away]
  PROVE  OrgInv'
  <1>1. /\ member' \in [Users -> Memberships]
        /\ \A v \in Users : member'[v] = IF v = u THEN new ELSE member[v]
    BY DEF OrgInv, OrgType
  <1>2. OrgType'
    BY <1>1 DEF OrgInv, OrgType
  <1>3. OwnerRemains'
    BY <1>1 DEF OwnerRemains, ActiveOwners, Active
  <1>4. TransfersCounted' /\ TransferredOnce'
    BY DEF OrgInv, TransfersCounted, Moves, TransferredOnce
  <1>5. \A d \in Clients : client'[d] = Away \/ ChangeOK(client'[d]) \/ AcceptanceOK(client'[d])
    BY DEF OrgInv, OrgType
  <1>6. QED
    BY <1>2, <1>3, <1>4, <1>5 DEF OrgInv

\* What commits still finds what it was prepared from.
LEMMA Committed ==
  ASSUME OrgAssumption, OrgInv, NEW c \in Clients, client[c].at # "idle", Compared(client[c])
  PROVE  LET its == client[c]
         IN /\ its.at = "change" => /\ ChangeOK(its) /\ its.current = member[its.user] /\ its.owners = ActiveOwners
            /\ its.at = "accept" =>
                 LET i == its.invitation
                 IN /\ i \in Invitations /\ invitation[i].to \in Users /\ invitation[i].role \in Roles
                    /\ invitation[i].by \in Users /\ invitation[i].grants \subseteq Proposed
                    /\ Inviter(member[invitation[i].by], invitation[i].role)
                    /\ Rejoins(member[invitation[i].to])
                    /\ Accepted(i) \in Memberships
                    /\ \A g \in GrantsOf(i) : GrantFits(g, Accepted(i))
  <1>1. client[c] # Away /\ (ChangeOK(client[c]) \/ AcceptanceOK(client[c]))
    BY DEF OrgInv, Away
  <1>2. CASE client[c].at = "change"
    BY <1>1, <1>2 DEF Compared, AcceptanceOK
  <1>3. CASE client[c].at = "accept"
    <2>1. AcceptanceOK(client[c]) /\ client[c].seen = Loaded
      BY <1>1, <1>3 DEF Compared, ChangeOK, MemberChange
    <2>2. PICK i \in Invitations : i = client[c].invitation
      BY <2>1 DEF AcceptanceOK
    <2>3. /\ Inviter(member[invitation[i].by], invitation[i].role) /\ Rejoins(member[invitation[i].to])
          /\ member[invitation[i].to].revision < MaxMemberRevision
          /\ \A g \in invitation[i].grants :
               invitation[i].role = "member" /\ owner[g.workspace].by = TheOrganization
      BY <2>1, <2>2 DEF AcceptanceOK, Loaded
    <2>4. /\ invitation[i].to \in Users /\ invitation[i].role \in Roles
          /\ invitation[i].by \in Users /\ invitation[i].grants \subseteq Proposed
      BY DEF OrgInv, OrgType
    <2>5. member[invitation[i].to] \in Memberships
      BY <2>4 DEF OrgInv, OrgType
    <2>6. Accepted(i) \in Memberships /\ Active(Accepted(i)) /\ Accepted(i).role = invitation[i].role
      <3>1. member[invitation[i].to].revision + 1 \in 0..MaxMemberRevision
        BY <2>3, <2>5 DEF Memberships, OrgAssumption
      <3>2. QED
        BY <2>4, <3>1 DEF Accepted, Memberships, Active
    <2>7. \A g \in GrantsOf(i) : GrantFits(g, Accepted(i))
      BY <2>3, <2>6 DEF GrantsOf, GrantFits
    <2>8. client[c].at # "change"
      BY <1>3
    <2>9. QED
      BY <2>2, <2>3, <2>4, <2>6, <2>7, <2>8
  <1>4. QED
    BY <1>1, <1>2, <1>3 DEF ChangeOK, MemberChange, AcceptanceOK

LEMMA Changing ==
  ASSUME OrgAssumption, OrgInv, NEW c \in Clients, CommitChange(c)
  PROVE  OrgInv'
  <1> DEFINE its == client[c]
  <1>1. /\ its.at = "change" /\ client' = [client EXCEPT ![c] = Away]
        /\ UNCHANGED <<organization, owner, invitation, plan>>
        /\ grant' = Kept(grant, member', owner)
    BY DEF CommitChange
  <1>2. /\ grant' \subseteq [workspace : Workspaces, member : Users, role : GrantRoles]
        /\ GrantsFit'
    BY <1>1 DEF OrgInv, OrgType, Kept, GrantsFit, GrantFits
  <1>3. CASE Compared(its)
    <2>1. ChangeOK(its) /\ its.current = member[its.user] /\ its.owners = ActiveOwners
      BY <1>1, <1>3, Committed
    <2>2. PICK u \in Users, new \in Memberships : u = its.user /\ new = its.next
      BY <2>1 DEF ChangeOK, MemberChange
    <2>3. member' = [member EXCEPT ![u] = new]
      BY <1>3, <2>2 DEF CommitChange
    <2>4. \E v \in ActiveOwners : v = u => Active(new) /\ new.role = "owner"
      <3>1. CASE Active(new) /\ new.role = "owner"
        BY <3>1, <2>1 DEF ChangeOK
      <3>2. CASE u \notin ActiveOwners
        BY <3>2, <2>1 DEF ChangeOK
      <3>3. CASE u \in ActiveOwners /\ ~(Active(new) /\ new.role = "owner")
        <4>1. ~(Cardinality(ActiveOwners) <= 1)
          BY <2>1, <2>2, <3>3 DEF ChangeOK, LastOwner, ActiveOwners
        <4>2. \E v \in ActiveOwners : v # u
          BY <4>1, OwnerLeft
        <4>3. QED
          BY <4>2
      <3>4. QED
        BY <3>1, <3>2, <3>3
    <2>5. invitation' \in [Invitations -> [to : Users, role : Roles, grants : SUBSET Proposed, by : Users,
                                           state : {"none", "pending", "accepted", "revoked", "expired"}]]
      BY <1>1 DEF OrgInv, OrgType
    <2>6. QED
      BY <1>1, <1>2, <2>3, <2>4, <2>5, MemberChanges
  <1>4. CASE ~Compared(its)
    <2>1. member' = member
      BY <1>4 DEF CommitChange
    <2>2. OrgType' /\ OwnerRemains' /\ TransferredOnce' /\ TransfersCounted'
      BY <1>1, <1>2, <2>1 DEF OrgInv, OrgType, OwnerRemains, ActiveOwners, TransferredOnce, TransfersCounted, Moves
    <2>3. \A d \in Clients : client'[d] = Away \/ ChangeOK(client'[d]) \/ AcceptanceOK(client'[d])
      BY <1>1 DEF OrgInv, OrgType
    <2>4. QED
      BY <1>2, <2>2, <2>3 DEF OrgInv
  <1>5. QED
    BY <1>3, <1>4

LEMMA Accepting ==
  ASSUME OrgAssumption, OrgInv, NEW c \in Clients, CommitAcceptance(c)
  PROVE  OrgInv'
  <1> DEFINE its == client[c]
  <1>1. /\ its.at = "accept" /\ client' = [client EXCEPT ![c] = Away]
        /\ UNCHANGED <<organization, owner, plan>>
    BY DEF CommitAcceptance
  <1>2. CASE Compared(its)
    <2> DEFINE i == its.invitation
    <2>1. /\ i \in Invitations /\ invitation[i].to \in Users /\ invitation[i].grants \subseteq Proposed
          /\ Rejoins(member[invitation[i].to])
          /\ Accepted(i) \in Memberships /\ \A g \in GrantsOf(i) : GrantFits(g, Accepted(i))
      BY <1>1, <1>2, Committed
    <2>2. PICK u \in Users, new \in Memberships, j \in Invitations :
            u = invitation[i].to /\ new = Accepted(i) /\ j = i
      BY <2>1
    <2>3. /\ member' = [member EXCEPT ![u] = new] /\ grant' = grant \cup GrantsOf(j)
          /\ invitation' = [invitation EXCEPT ![j].state = "accepted"]
          /\ member'[u] = new /\ \A v \in Users : v # u => member'[v] = member[v]
      BY <1>2, <2>2 DEF CommitAcceptance, OrgInv, OrgType
    <2>4. \A g \in GrantsOf(j) : g \in [workspace : Workspaces, member : Users, role : GrantRoles] /\ g.member = u
      BY <2>1, <2>2 DEF GrantsOf, Proposed
    <2>5. \A g \in grant : g.member # u
      BY <2>1, <2>2 DEF OrgInv, GrantsFit, GrantFits, Rejoins, Active
    <2>6. GrantsFit'
      <3>1. ASSUME NEW g \in grant PROVE GrantFits(g, member[g.member])'
        <4>1. g.member \in Users /\ GrantFits(g, member[g.member])
          BY <3>1 DEF OrgInv, OrgType, GrantsFit
        <4>2. member'[g.member] = member[g.member]
          BY <2>3, <2>5, <4>1
        <4>3. QED
          BY <1>1, <4>1, <4>2 DEF GrantFits
      <3>2. ASSUME NEW g \in GrantsOf(j) PROVE GrantFits(g, member[g.member])'
        BY <1>1, <2>1, <2>2, <2>3, <2>4 DEF GrantFits
      <3>3. QED
        BY <2>3, <3>1, <3>2 DEF GrantsFit
    <2>7. grant' \subseteq [workspace : Workspaces, member : Users, role : GrantRoles]
      BY <2>3, <2>4 DEF OrgInv, OrgType
    <2>8. invitation' \in [Invitations -> [to : Users, role : Roles, grants : SUBSET Proposed, by : Users,
                                           state : {"none", "pending", "accepted", "revoked", "expired"}]]
      BY <2>3 DEF OrgInv, OrgType
    <2>9. \E v \in ActiveOwners : v = u => Active(new) /\ new.role = "owner"
      BY <2>1, <2>2 DEF OrgInv, OwnerRemains, ActiveOwners, Rejoins, Active
    <2>10. QED
      BY <1>1, <2>3, <2>6, <2>7, <2>8, <2>9, MemberChanges
  <1>3. CASE ~Compared(its)
    <2>1. UNCHANGED <<organization, member, owner, plan, grant, invitation>>
      BY <1>1, <1>3 DEF CommitAcceptance
    <2>2. QED
      BY <1>1, <2>1, ClientMoves
  <1>4. QED
    BY <1>2, <1>3

LEMMA Granting ==
  ASSUME OrgAssumption, OrgInv
  PROVE  \A actor, u \in Users, w \in Workspaces, role \in GrantRoles :
           GrantRole(actor, [workspace |-> w, member |-> u, role |-> role]) => OrgInv'
  <1>1. SUFFICES ASSUME NEW actor \in Users, NEW u \in Users, NEW w \in Workspaces, NEW role \in GrantRoles,
                        GrantRole(actor, [workspace |-> w, member |-> u, role |-> role])
                 PROVE  OrgInv'
    OBVIOUS
  <1> DEFINE g == [workspace |-> w, member |-> u, role |-> role]
  <1>2. /\ UNCHANGED <<organization, member, owner, invitation, plan, client>> /\ GrantFits(g, member[g.member])
        /\ grant' \subseteq grant \cup {g}
    BY <1>1 DEF GrantRole
  <1>3. g \in [workspace : Workspaces, member : Users, role : GrantRoles]
    OBVIOUS
  <1> HIDE DEF g
  <1>4. OrgType'
    BY <1>2, <1>3 DEF OrgInv, OrgType
  <1>5. GrantsFit'
    BY <1>2 DEF OrgInv, GrantsFit, GrantFits
  <1>6. OwnerRemains' /\ TransferredOnce' /\ TransfersCounted'
    BY <1>2 DEF OrgInv, OwnerRemains, ActiveOwners, TransferredOnce, TransfersCounted, Moves
  <1>7. QED
    BY <1>2, <1>4, <1>5, <1>6 DEF OrgInv

\* Invitations are made and withdrawn.
LEMMA Inviting ==
  ASSUME OrgAssumption, OrgInv, NEW i \in Invitations,
         \/ \E by, to \in Users, role \in InvitedRoles, grants \in SUBSET Proposed : Invite(i, by, to, role, grants)
         \/ \E state \in {"revoked", "expired"} : Withdraw(i, state)
  PROVE  OrgInv'
  <1>1. UNCHANGED <<organization, member, owner, grant, plan, client>>
    BY DEF Invite, Withdraw
  <1>2. invitation' \in [Invitations -> [to : Users, role : Roles, grants : SUBSET Proposed, by : Users,
                                         state : {"none", "pending", "accepted", "revoked", "expired"}]]
    <2>1. CASE \E by, to \in Users, role \in InvitedRoles, grants \in SUBSET Proposed : Invite(i, by, to, role, grants)
      BY <2>1 DEF OrgInv, OrgType, Invite, OrgAssumption
    <2>2. CASE \E state \in {"revoked", "expired"} : Withdraw(i, state)
      BY <2>2 DEF OrgInv, OrgType, Withdraw
    <2>3. QED
      BY <2>1, <2>2
  <1>3. OrgType'
    BY <1>1, <1>2 DEF OrgInv, OrgType
  <1>4. OwnerRemains' /\ TransferredOnce' /\ TransfersCounted' /\ GrantsFit'
    BY <1>1 DEF OrgInv, OwnerRemains, ActiveOwners, TransferredOnce, TransfersCounted, Moves, GrantsFit, GrantFits
  <1>5. QED
    BY <1>1, <1>3, <1>4 DEF OrgInv

LEMMA Planning ==
  ASSUME OrgAssumption, OrgInv, NEW p \in Plans, NEW w \in Workspaces, NEW u \in Users, AcceptPlan(p, w, u)
  PROVE  OrgInv'
  <1> DEFINE its == [workspace |-> w, workspaceRevision |-> owner[w].revision, from |-> owner[w].by,
                     organizationRevision |-> organization.revision, acceptedBy |-> u, state |-> "accepted"]
  <1>1. /\ plan[p].state = "none" /\ owner[w].by \in Users
        /\ UNCHANGED <<organization, member, owner, grant, invitation, client>>
        /\ plan' = [plan EXCEPT ![p] = its]
    BY DEF AcceptPlan
  <1>2. its \in TransferPlan /\ its.state = "accepted"
    BY <1>1 DEF OrgInv, OrgType, TransferPlan
  <1> HIDE DEF its
  <1>3. /\ plan' \in [Plans -> TransferPlan]
        /\ \A q \in Plans : plan'[q].state = "committed" => plan'[q] = plan[q]
        /\ \A q \in Plans : plan[q].state = "committed" => plan'[q] = plan[q]
    BY <1>1, <1>2 DEF OrgInv, OrgType
  <1>4. OrgType'
    BY <1>1, <1>3 DEF OrgInv, OrgType
  <1>5. OwnerRemains' /\ GrantsFit'
    BY <1>1 DEF OrgInv, OwnerRemains, ActiveOwners, GrantsFit, GrantFits
  <1>6. \A v \in Workspaces : Moves(v)' = Moves(v)
    BY <1>3 DEF Moves
  <1>7. TransferredOnce' /\ TransfersCounted'
    BY <1>1, <1>3, <1>6 DEF OrgInv, TransferredOnce, TransfersCounted
  <1>8. QED
    BY <1>1, <1>4, <1>5, <1>7 DEF OrgInv

\* A transfer that is carried out is one of the plans and for this revision the first.
LEMMA Transferring ==
  ASSUME OrgAssumption, OrgInv, NEW p \in Plans, CommitTransfer(p)
  PROVE  OrgInv'
  <1>1. PICK w \in Workspaces : w = plan[p].workspace
    BY DEF OrgInv, OrgType, TransferPlan
  <1>2. PICK n \in Nat : n = owner[w].revision
    BY DEF OrgInv, OrgType
  <1>3. /\ plan[p].state = "accepted" /\ plan[p].workspaceRevision = n
        /\ owner' = [owner EXCEPT ![w] = [by |-> TheOrganization, revision |-> n + 1]]
        /\ plan' = [plan EXCEPT ![p].state = "committed"]
        /\ UNCHANGED <<organization, member, grant, invitation, client>>
    BY <1>1, <1>2 DEF CommitTransfer, TransferFits, OrgInv, OrgType
  <1>4. /\ plan' \in [Plans -> TransferPlan]
        /\ \A q \in Plans : q # p => plan'[q] = plan[q]
        /\ plan'[p].workspace = w /\ plan'[p].workspaceRevision = n /\ plan'[p].state = "committed"
    BY <1>1, <1>3 DEF OrgInv, OrgType, TransferPlan
  <1>5. /\ owner' \in [Workspaces -> [by : Users \cup {TheOrganization}, revision : Nat]]
        /\ owner'[w] = [by |-> TheOrganization, revision |-> n + 1]
        /\ \A v \in Workspaces : v # w => owner'[v] = owner[v]
    BY <1>3 DEF OrgInv, OrgType
  <1>6. OrgType'
    BY <1>3, <1>4, <1>5 DEF OrgInv, OrgType
  <1>7. OwnerRemains'
    BY <1>3 DEF OrgInv, OwnerRemains, ActiveOwners
  <1>8. GrantsFit'
    <2>1. ASSUME NEW g \in grant PROVE GrantFits(g, member[g.member])'
      <3>1. g.workspace \in Workspaces /\ GrantFits(g, member[g.member])
        BY <2>1 DEF OrgInv, OrgType, GrantsFit
      <3>2. owner'[g.workspace].by = TheOrganization
        BY <3>1, <1>5 DEF GrantFits
      <3>3. QED
        BY <3>1, <3>2, <1>3 DEF GrantFits
    <2>2. QED
      BY <2>1, <1>3 DEF GrantsFit
  <1>9. TransfersCounted'
    <2>1. Moves(w)' = Moves(w) \cup {p} /\ p \notin Moves(w)
      BY <1>3, <1>4 DEF Moves
    <2>2. \A v \in Workspaces : v # w => Moves(v)' = Moves(v)
      BY <1>1, <1>4 DEF Moves
    <2>3. IsFiniteSet(Moves(w))
      BY FS_Subset DEF Moves, OrgAssumption
    <2>4. Cardinality(Moves(w)') = Cardinality(Moves(w)) + 1
      BY <2>1, <2>3, FS_AddElement
    <2>5. \A v \in Workspaces : owner'[v].revision = Cardinality(Moves(v)') + 1
      BY <1>2, <1>5, <2>2, <2>4 DEF OrgInv, TransfersCounted
    <2>6. ASSUME NEW q \in Plans, plan'[q].state = "committed"
          PROVE  plan'[q].workspaceRevision < owner'[plan'[q].workspace].revision
      <3>1. CASE q = p
        BY <3>1, <1>4, <1>5
      <3>2. CASE q # p /\ plan[q].workspace = w
        <4>1. plan[q].workspaceRevision < n /\ plan[q].workspaceRevision \in Nat
          BY <3>2, <2>6, <1>2, <1>4 DEF OrgInv, TransfersCounted, OrgType, TransferPlan
        <4>2. QED
          BY <3>2, <4>1, <1>4, <1>5
      <3>3. CASE q # p /\ plan[q].workspace # w
        BY <3>3, <2>6, <1>4, <1>5 DEF OrgInv, TransfersCounted, OrgType, TransferPlan
      <3>4. QED
        BY <3>1, <3>2, <3>3
    <2>7. QED
      BY <2>5, <2>6 DEF TransfersCounted
  <1>10. TransferredOnce'
    <2>1. ASSUME NEW q \in Plans, q # p, plan[q].state = "committed", plan[q].workspace = w
          PROVE  plan[q].workspaceRevision # n
      BY <2>1, <1>2 DEF OrgInv, TransfersCounted, OrgType, TransferPlan
    <2>2. QED
      BY <2>1, <1>4 DEF OrgInv, TransferredOnce
  <1>11. QED
    BY <1>3, <1>6, <1>7, <1>8, <1>9, <1>10 DEF OrgInv

\* The organization's state changes, or nothing does.
LEMMA Suspending ==
  ASSUME OrgAssumption, OrgInv, UNCHANGED <<member, owner, grant, invitation, plan, client>>,
         organization'.revision \in Nat
  PROVE  OrgInv'
  <1>1. OrgType'
    BY DEF OrgInv, OrgType
  <1>2. OwnerRemains' /\ GrantsFit' /\ TransferredOnce' /\ TransfersCounted'
    BY DEF OrgInv, OwnerRemains, ActiveOwners, GrantsFit, GrantFits, TransferredOnce, TransfersCounted, Moves
  <1>3. QED
    BY <1>1, <1>2 DEF OrgInv

LEMMA OrgStep ==
  ASSUME OrgAssumption, OrgInv, [OrgNext]_orgVars
  PROVE  OrgInv'
  <1>1. CASE \E c \in Clients :
               \/ \E actor, u \in Users, role \in Roles, status \in {"active", "suspended", "ended"} :
                    PrepareChange(c, actor, u, role, status)
               \/ \E i \in Invitations : PrepareAcceptance(c, i)
    BY <1>1, Preparing
  <1>2. CASE \E c \in Clients : CommitChange(c) \/ CommitAcceptance(c)
    BY <1>2, Changing, Accepting
  <1>3. CASE \E actor, u \in Users, w \in Workspaces, role \in GrantRoles :
               GrantRole(actor, [workspace |-> w, member |-> u, role |-> role])
    BY <1>3, Granting
  <1>4. CASE \E i \in Invitations :
               \/ \E by, to \in Users, role \in InvitedRoles, grants \in SUBSET [workspace : Workspaces, role : GrantRoles] :
                    Invite(i, by, to, role, grants)
               \/ \E state \in {"revoked", "expired"} : Withdraw(i, state)
    BY <1>4, Inviting DEF Proposed
  <1>5. CASE \E p \in Plans : (\E w \in Workspaces, u \in Users : AcceptPlan(p, w, u)) \/ CommitTransfer(p)
    BY <1>5, Planning, Transferring
  <1>6. CASE \E state \in {"active", "suspended"} : SetState(state)
    BY <1>6, Suspending DEF SetState, OrgInv, OrgType
  <1>7. CASE UNCHANGED orgVars
    BY <1>7, Suspending DEF orgVars, OrgInv, OrgType
  <1>8. QED
    BY <1>1, <1>2, <1>3, <1>4, <1>5, <1>6, <1>7 DEF OrgNext

\* Memberships change only when a client commits.
LEMMA OnlyCommits ==
  ASSUME OrgNext, member' # member
  PROVE  \E c \in Clients : CommitChange(c) \/ CommitAcceptance(c)
  <1>1. \A proposal : \A c \in Clients : Prepare(c, proposal) => member' = member
    BY DEF Prepare, records
  <1>2. \A c \in Clients, actor, u \in Users, role \in Roles, status \in {"active", "suspended", "ended"} :
          PrepareChange(c, actor, u, role, status) => member' = member
    BY <1>1 DEF PrepareChange
  <1>3. \A c \in Clients, i \in Invitations : PrepareAcceptance(c, i) => member' = member
    BY <1>1 DEF PrepareAcceptance
  <1>4. QED
    BY <1>2, <1>3 DEF OrgNext, GrantRole, Invite, Withdraw, AcceptPlan, CommitTransfer, SetState

\* The records always have their types; a workspace's revision counts the transfers of it that
\* were carried out, so it never exceeds the number of plans by more than the first.
THEOREM OrganizationTyped == ASSUME OrgAssumption PROVE OrgSpec => []OrgTypeOK
  <1>1. OrgInv => OrgTypeOK
    <2>1. SUFFICES ASSUME OrgInv PROVE OrgTypeOK
      OBVIOUS
    <2>2. ASSUME NEW w \in Workspaces PROVE owner[w].revision \in 1..(Cardinality(Plans) + 1)
      <3>1. /\ IsFiniteSet(Moves(w)) /\ Cardinality(Moves(w)) <= Cardinality(Plans)
            /\ Cardinality(Moves(w)) \in Nat /\ Cardinality(Plans) \in Nat
        BY FS_Subset, FS_CardinalityType DEF Moves, OrgAssumption
      <3>2. QED
        BY <2>1, <3>1 DEF OrgInv, TransfersCounted
    <2>3. QED
      BY <2>1, <2>2 DEF OrgInv, OrgType, OrgTypeOK, Memberships
  <1>2. QED
    BY <1>1, OrgStart, OrgStep, PTL DEF OrgSpec

\* However many owners step down, demote or remove one another at once, each on what it has
\* loaded, an active owner remains (validateMembershipChange).
THEOREM AnOwnerRemains == ASSUME OrgAssumption PROVE OrgSpec => []OwnerRemains
  <1>1. OrgInv => OwnerRemains
    BY DEF OrgInv
  <1>2. QED
    BY <1>1, OrgStart, OrgStep, PTL DEF OrgSpec

\* Of the plans accepted for one revision of a workspace at most one is carried out, in
\* whatever order they are accepted and committed (validateOwnershipTransferCommit).
THEOREM TransferredAtMostOnce == ASSUME OrgAssumption PROVE OrgSpec => []TransferredOnce
  <1>1. OrgInv => TransferredOnce
    BY DEF OrgInv
  <1>2. QED
    BY <1>1, OrgStart, OrgStep, PTL DEF OrgSpec

\* Whoever becomes or ceases to be an owner or administrator does so by an act of someone who
\* is an active owner when it commits.
THEOREM PrivilegeComesFromOwners == ASSUME OrgAssumption PROVE OrgSpec => [][PrivilegeFromOwners]_orgVars
  <1>1. ASSUME OrgInv, OrgNext PROVE PrivilegeFromOwners
    <2>1. SUFFICES ASSUME NEW u \in Users, Rank(member'[u]) # Rank(member[u])
                   PROVE  \E c \in Clients :
                            /\ client[c] # Away /\ client'[c] = Away
                            /\ IF client[c].at = "change" THEN client[c].actor \in ActiveOwners
                               ELSE invitation[client[c].invitation].by \in ActiveOwners
      BY DEF PrivilegeFromOwners, Rank
    <2>2. PICK c \in Clients : CommitChange(c) \/ CommitAcceptance(c)
      <3>1. member' # member
        BY <2>1
      <3>2. QED
        BY <3>1, <1>1, OnlyCommits
    <2>3. /\ Compared(client[c]) /\ client[c] # Away /\ client'[c] = Away
      BY <1>1, <2>1, <2>2 DEF CommitChange, CommitAcceptance, Away, OrgInv, OrgType
    <2>4. CASE CommitChange(c)
      <3>1. /\ client[c].at = "change" /\ ChangeOK(client[c]) /\ client[c].current = member[client[c].user]
            /\ client[c].owners = ActiveOwners /\ client[c].user \in Users
        BY <1>1, <2>3, <2>4, Committed DEF CommitChange, ChangeOK, MemberChange
      <3>2. member' = [member EXCEPT ![client[c].user] = client[c].next]
        BY <2>3, <2>4 DEF CommitChange
      <3>3. u = client[c].user /\ member'[u] = client[c].next
        BY <1>1, <2>1, <3>1, <3>2 DEF OrgInv, OrgType
      <3>4. client[c].actor \in ActiveOwners
        BY <2>1, <3>1, <3>3 DEF ChangeOK
      <3>5. QED
        BY <2>3, <3>1, <3>4
    <2>5. CASE CommitAcceptance(c)
      <3>1. PICK i \in Invitations : i = client[c].invitation
        BY <1>1, <2>3, <2>5, Committed DEF CommitAcceptance
      <3>2. /\ client[c].at = "accept" /\ invitation[i].to \in Users /\ invitation[i].by \in Users
            /\ Inviter(member[invitation[i].by], invitation[i].role) /\ Rejoins(member[invitation[i].to])
        BY <1>1, <2>3, <2>5, <3>1, Committed DEF CommitAcceptance
      <3>3. member' = [member EXCEPT ![invitation[i].to] = Accepted(i)]
        BY <2>3, <2>5, <3>1 DEF CommitAcceptance
      <3>4. u = invitation[i].to /\ member'[u] = Accepted(i)
        BY <1>1, <2>1, <3>2, <3>3 DEF OrgInv, OrgType
      <3>5. Rank(member[u]) = {} /\ Rank(member'[u]) = {invitation[i].role} \cap Privileged
        BY <3>2, <3>4 DEF Rank, Rejoins, Active, Accepted
      <3>6. invitation[i].role \in Privileged
        BY <2>1, <3>5
      <3>7. invitation[i].by \in ActiveOwners
        BY <3>2, <3>6 DEF Inviter, Privileged, ActiveOwners
      <3>8. QED
        BY <2>3, <3>1, <3>2, <3>7
    <2>6. QED
      BY <2>2, <2>4, <2>5
  <1>2. QED
    BY <1>1, OrgStart, OrgStep, PTL DEF OrgSpec

\* Whoever joins or comes back can do what the invitation says and no more.
THEOREM WhoJoinsIsInvited == ASSUME OrgAssumption PROVE OrgSpec => [][JoinsAsInvited]_orgVars
  <1>1. ASSUME OrgInv, OrgNext PROVE JoinsAsInvited
    <2>1. SUFFICES ASSUME NEW c \in Clients, NEW u \in Users, client[c] # Away, client'[c] = Away,
                          client[c].at = "accept", member'[u] # member[u]
                   PROVE  LET i == client[c].invitation
                          IN /\ member[u].status # "suspended" /\ member'[u].role = invitation[i].role
                             /\ {[workspace |-> g.workspace, role |-> g.role] : g \in {h \in grant' : h.member = u}}
                                  = invitation[i].grants
      BY DEF JoinsAsInvited
    <2>2. CommitAcceptance(c) /\ Compared(client[c])
      <3>1. PICK d \in Clients : CommitChange(d) \/ CommitAcceptance(d)
        <4>1. member' # member
          BY <2>1
        <4>2. QED
          BY <4>1, <1>1, OnlyCommits
      <3>2. client' = [client EXCEPT ![d] = Away]
        BY <3>1 DEF CommitChange, CommitAcceptance
      <3>3. d = c
        BY <2>1, <3>2
      <3>4. QED
        BY <2>1, <3>1, <3>3 DEF CommitChange, CommitAcceptance
    <2>3. PICK i \in Invitations : i = client[c].invitation
      BY <1>1, <2>1, <2>2, Committed
    <2>4. /\ invitation[i].to \in Users /\ invitation[i].grants \subseteq Proposed
          /\ Rejoins(member[invitation[i].to])
      BY <1>1, <2>1, <2>2, <2>3, Committed
    <2>5. member' = [member EXCEPT ![invitation[i].to] = Accepted(i)] /\ grant' = grant \cup GrantsOf(i)
      BY <2>2, <2>3 DEF CommitAcceptance
    <2>6. u = invitation[i].to /\ member'[u] = Accepted(i)
      BY <1>1, <2>1, <2>4, <2>5 DEF OrgInv, OrgType
    <2>7. \A g \in grant : g.member # u
      BY <1>1, <2>4, <2>6 DEF OrgInv, GrantsFit, GrantFits, Rejoins, Active
    <2>8. {h \in grant' : h.member = u} = GrantsOf(i)
      BY <2>5, <2>6, <2>7 DEF GrantsOf
    <2>9. {[workspace |-> g.workspace, role |-> g.role] : g \in GrantsOf(i)} = invitation[i].grants
      <3>1. \A h \in invitation[i].grants : h = [workspace |-> h.workspace, role |-> h.role]
        BY <2>4 DEF Proposed
      <3>2. ASSUME NEW h \in invitation[i].grants
            PROVE  h \in {[workspace |-> g.workspace, role |-> g.role] : g \in GrantsOf(i)}
        <4>1. PICK g \in GrantsOf(i) : g = [workspace |-> h.workspace, member |-> invitation[i].to, role |-> h.role]
          BY DEF GrantsOf
        <4>2. h = [workspace |-> g.workspace, role |-> g.role]
          BY <3>1, <4>1
        <4>3. QED
          BY <4>2
      <3>3. ASSUME NEW g \in GrantsOf(i)
            PROVE  [workspace |-> g.workspace, role |-> g.role] \in invitation[i].grants
        BY <3>1 DEF GrantsOf
      <3>4. QED
        BY <3>2, <3>3
    <2>10. member[u].status # "suspended" /\ member'[u].role = invitation[i].role
      BY <2>4, <2>6 DEF Rejoins, Accepted
    <2>11. QED
      BY <2>3, <2>8, <2>9, <2>10
  <1>2. QED
    BY <1>1, OrgStart, OrgStep, PTL DEF OrgSpec

-----------------------------------------------------------------------------
(* Publishing a website: one writer, and no way back.                       *)

HostingAssumption == Generations \in Nat /\ "none" \notin Publishers

Confirmations == {"published", "unpublished"}
DeployStates == {"none", "queued", "uploading", "activating", "verifying", "unknown"} \cup Over
Calls == [at : {"idle", "claim", "owned", "prepared", "activating", "approved", "switched", "verify", "settle",
                "reconcile", "take", "observe", "record", "cancel"},
          on : 0..Generations, token : Publishers \cup {"none"}, current : BOOLEAN, outcome : DeployStates]
Targets == [desired : 0..Generations, active : 0..Generations, serving : {"unpublished", "active", "suspended"},
            lock : [attempt : 0..Generations, token : Publishers \cup {"none"}]]
Deploys == [uses : Subjects \cup {NoSubject}, built : BOOLEAN, started : BOOLEAN, state : DeployStates]
JobStates == [state : {"none", "ready", "done", "dead", "cancelled"} \cup Publishers, tries : Nat]

ResumerOK(r) ==
  /\ r \in [at : {"idle", "opened", "checked", "opened_gate"}, source : 0..Generations,
           state : {"none", "unpublished", "active"}]
  /\ r.at # "idle" => r.state # "none"

HostingType ==
  /\ target \in Targets /\ deploy \in [Attempts -> Deploys]
  /\ live \in [generation : 0..Generations, disabled : BOOLEAN]
  /\ publisher \in [Publishers -> Calls] /\ deployJob \in [Attempts -> JobStates]
  /\ outbox \subseteq Attempts /\ covered \subseteq held
  /\ ResumerOK(resumer) /\ reclaimed \in BOOLEAN

\* What is known of an attempt, or worked on, was requested.
OnlyRequested ==
  /\ \A a \in Attempts : deploy[a].state # "none" \/ a \in outbox \/ deployJob[a] # NoJob => a <= target.desired
  /\ \A p \in Publishers : publisher[p].at # "idle" => On(p) \in Attempts /\ On(p) <= target.desired
  /\ live.generation <= target.desired

\* A call on its way from the claim to the end of an execution, with a current copy.
Executing(c) ==
  c.current /\ c.at \in {"owned", "prepared", "activating", "approved", "switched", "verify", "settle"}

\* What holds of a call: about to switch, it holds the lock and is newer than what is live; what
\* it is about to record is so; and it executes no release that was confirmed.
CallOK(c) ==
  /\ c.at = "approved" => c.current /\ target.lock.attempt = c.on /\ live.generation <= c.on
  /\ Executing(c) /\ c.at \in {"owned", "prepared", "activating", "approved"} => live.generation # c.on
  /\ c.at \in {"activating", "approved", "switched", "verify"} => deploy[c.on].started
  /\ c.at \in {"settle", "record"} /\ c.outcome \in Confirmations => c.on <= live.generation /\ deploy[c.on].started
  /\ c.at = "record" => \/ c.outcome = "cancelled" /\ (c.current => ~deploy[c.on].started)
                        \/ c.outcome \in Confirmations \cup {"verifying"} /\ c.on <= live.generation
  /\ Executing(c) => deploy[c.on].state \notin Confirmations

CallsOK == \A p \in Publishers : CallOK(publisher[p])
OneExecutes ==
  \A p, q \in Publishers : Executing(publisher[p]) /\ Executing(publisher[q]) /\ On(p) = On(q) => p = q
AttemptsOK == \A a \in Attempts : deploy[a].state \in Confirmations \/ live.generation = a => deploy[a].started

Fenced == CallsOK /\ OneExecutes /\ AttemptsOK /\ target.active <= live.generation

HostingInv == HostingType /\ OnlyRequested /\ (reclaimed \/ Fenced)

\* What may become of the job of an attempt.
LEMMA JobsAre ==
  ASSUME HostingType, NEW a \in Attempts
  PROVE  /\ \A state \in {"none", "ready", "done", "dead", "cancelled"} : Job(a, state) \in JobStates
         /\ GoesBack(a) \in JobStates /\ NoJob \in JobStates
         /\ \A state \in {"none", "ready", "done", "dead", "cancelled"} \cup Publishers :
              [state |-> state, tries |-> deployJob[a].tries + 1] \in JobStates
  <1>1. deployJob[a].tries \in Nat /\ deployJob[a].tries + 1 \in Nat
    BY DEF HostingType, JobStates
  <1>2. \A state \in {"none", "ready", "done", "dead", "cancelled"} : Job(a, state) \in JobStates
    BY <1>1 DEF Job, JobStates
  <1>3. NoJob \in JobStates
    BY DEF NoJob, JobStates
  <1>4. GoesBack(a) \in JobStates
    BY <1>2 DEF GoesBack
  <1>5. QED
    BY <1>1, <1>2, <1>3, <1>4 DEF JobStates

LEMMA HostingStart ==
  ASSUME HostingAssumption, HostingInit
  PROVE  HostingInv
  <1> USE DEF HostingAssumption, HostingInit
  <1>1. NoCall \in Calls /\ NoCall.at = "idle" /\ NoCall.current = FALSE
    BY DEF NoCall, Calls, DeployStates
  <1>2. NoDeploy \in Deploys /\ NoDeploy.state = "none" /\ NoDeploy.state \notin Confirmations
    BY DEF NoDeploy, Deploys, DeployStates, Confirmations
  <1>3. target \in Targets
    BY DEF Targets, Unlocked
  <1>4. HostingType
    <2>1. deploy \in [Attempts -> Deploys] /\ publisher \in [Publishers -> Calls] /\ deployJob \in [Attempts -> JobStates]
      BY <1>1, <1>2 DEF JobStates, NoJob
    <2>2. reclaimed \in BOOLEAN /\ live \in [generation : 0..Generations, disabled : BOOLEAN]
      <3>1. reclaimed \in BOOLEAN
        OBVIOUS
      <3>2. 0 \in 0..Generations
        OBVIOUS
      <3>3. live \in [generation : 0..Generations, disabled : BOOLEAN]
        BY <3>2
      <3>4. QED
        BY <3>1, <3>3
    <2>3. ResumerOK(resumer)
      BY DEF ResumerOK
    <2>4. QED
      BY <1>3, <2>1, <2>2, <2>3 DEF HostingType
  <1>5. OnlyRequested
    BY <1>1, <1>2 DEF OnlyRequested, Attempts
  <1>6. CallsOK /\ OneExecutes
    BY <1>1 DEF CallsOK, CallOK, OneExecutes, Executing
  <1>7. AttemptsOK
    BY <1>2 DEF AttemptsOK, Attempts
  <1>8. QED
    BY <1>4, <1>5, <1>6, <1>7 DEF HostingInv, Fenced

\* The records of publishing stay as they are, up to the state of service.
LEMMA Elsewhere ==
  ASSUME HostingAssumption, HostingInv, UNCHANGED <<deploy, live, publisher, reclaimed>>,
         target' \in Targets, target'.desired = target.desired, target'.active = target.active,
         target'.lock = target.lock, covered' \subseteq held', ResumerOK(resumer'),
         outbox' \subseteq Attempts, deployJob' \in [Attempts -> JobStates],
         \A a \in Attempts : a \in outbox' \/ deployJob'[a] # NoJob => a <= target.desired
  PROVE  HostingInv'
  <1>1. HostingType'
    BY DEF HostingInv, HostingType
  <1>2. OnlyRequested'
    BY DEF HostingInv, OnlyRequested, On
  <1>3. Fenced => Fenced'
    BY DEF Fenced, CallsOK, CallOK, Executing, OneExecutes, AttemptsOK, On
  <1>4. QED
    BY <1>1, <1>2, <1>3 DEF HostingInv

\* One call goes on and nothing it may rely on changes.
LEMMA OneMoves ==
  ASSUME HostingAssumption, HostingInv, UNCHANGED <<target, deploy, live, reclaimed, covered, held, resumer>>,
         NEW p \in Publishers, NEW new \in Calls, publisher' = [publisher EXCEPT ![p] = new],
         new.at # "idle" => new.on \in Attempts /\ new.on <= target.desired,
         ~reclaimed => CallOK(new) /\ (Executing(new) => Executing(publisher[p]) /\ new.on = On(p)),
         outbox' \subseteq Attempts, deployJob' \in [Attempts -> JobStates],
         \A a \in Attempts : a \in outbox' \/ deployJob'[a] # NoJob => a <= target.desired
  PROVE  HostingInv'
  <1>1. \A q \in Publishers : publisher'[q] = IF q = p THEN new ELSE publisher[q]
    BY DEF HostingInv, HostingType
  <1>2. HostingType'
    BY DEF HostingInv, HostingType
  <1>3. OnlyRequested'
    BY <1>1 DEF HostingInv, OnlyRequested, On
  <1>4. ASSUME ~reclaimed PROVE Fenced'
    <2>1. CallsOK'
      <3>1. \A c : CallOK(c)' <=> CallOK(c)
        BY DEF CallOK, Executing
      <3>2. \A q \in Publishers : CallOK(publisher'[q])
        BY <1>1, <1>4 DEF HostingInv, Fenced, CallsOK
      <3>3. QED
        BY <3>2 DEF CallsOK, CallOK, Executing
    <2>2. OneExecutes'
      BY <1>1, <1>4 DEF HostingInv, Fenced, OneExecutes, Executing, On
    <2>3. QED
      BY <1>4, <2>1, <2>2 DEF HostingInv, Fenced, AttemptsOK
  <1>5. QED
    BY <1>2, <1>3, <1>4 DEF HostingInv

\* A call writes its attempt and perhaps the target: no other call is about to switch, and
\* the others' copies of the attempt become stale.
LEMMA WritesAttempt ==
  ASSUME HostingAssumption, HostingInv, UNCHANGED <<live, covered, held, resumer>>,
         NEW p \in Publishers, NEW new \in Calls, NEW a \in Attempts, a = On(p), Wrote(p, new),
         new.at # "idle" => new.on = a, a <= target.desired,
         target' \in Targets, target'.desired = target.desired,
         NEW d \in Deploys, deploy' = [deploy EXCEPT ![a] = d], deploy[a].started => d.started,
         outbox' \subseteq outbox, deployJob' \in [Attempts -> JobStates],
         \A b \in Attempts : deployJob'[b] # NoJob => deployJob[b] # NoJob \/ b = a,
         reclaimed => reclaimed', reclaimed' \in BOOLEAN,
         ~reclaimed' =>
           /\ \A q \in Publishers : q # p => publisher[q].at # "approved"
           /\ CallOK(new)' /\ target'.active <= live.generation
           /\ d.state \in Confirmations => d.started
  PROVE  HostingInv'
  <1>1. /\ publisher'[p] = new
        /\ \A q \in Publishers : q # p => publisher'[q] = IF On(q) = a THEN [publisher[q] EXCEPT !.current = FALSE]
                                                         ELSE publisher[q]
    BY DEF Wrote
  <1>2. ASSUME NEW q \in Publishers
        PROVE  LET stale == [publisher[q] EXCEPT !.current = FALSE]
               IN /\ stale \in Calls /\ stale.at = publisher[q].at /\ stale.on = publisher[q].on
                  /\ stale.outcome = publisher[q].outcome /\ stale.current = FALSE
    BY DEF HostingInv, HostingType, Calls
  <1>3. publisher' \in [Publishers -> Calls]
    <2>1. \A q \in Publishers : publisher'[q] \in Calls
      BY <1>1, <1>2 DEF HostingInv, HostingType
    <2>2. QED
      BY <2>1 DEF Wrote
  <1>4. /\ deploy' \in [Attempts -> Deploys] /\ deploy'[a] = d
        /\ \A b \in Attempts : b # a => deploy'[b] = deploy[b]
    BY DEF HostingInv, HostingType
  <1>5. HostingType'
    BY <1>3, <1>4 DEF HostingInv, HostingType
  <1>6. OnlyRequested'
    <2>1. ASSUME NEW b \in Attempts, deploy'[b].state # "none" \/ b \in outbox' \/ deployJob'[b] # NoJob
          PROVE  b <= target.desired
      <3>1. CASE b = a
        BY <3>1
      <3>2. CASE b # a
        <4>1. deploy[b].state # "none" \/ b \in outbox \/ deployJob[b] # NoJob
          BY <1>4, <2>1, <3>2
        <4>2. QED
          BY <4>1 DEF HostingInv, OnlyRequested
      <3>3. QED
        BY <3>1, <3>2
    <2>2. ASSUME NEW q \in Publishers, publisher'[q].at # "idle"
          PROVE  publisher'[q].on \in Attempts /\ publisher'[q].on <= target.desired
      <3>1. CASE q = p
        BY <1>1, <2>2, <3>1
      <3>2. CASE q # p
        <4>1. publisher'[q].at = publisher[q].at /\ publisher'[q].on = publisher[q].on
          BY <1>1, <1>2, <3>2
        <4>2. QED
          BY <2>2, <4>1 DEF HostingInv, OnlyRequested, On
      <3>3. QED
        BY <3>1, <3>2
    <2>3. QED
      BY <2>1, <2>2 DEF HostingInv, OnlyRequested, On
  <1>7. ASSUME ~reclaimed' PROVE Fenced'
    <2>1. ~reclaimed /\ Fenced
      BY <1>7 DEF HostingInv
    <2>2. ASSUME NEW q \in Publishers, q # p PROVE CallOK(publisher[q])'
      <3>1. PICK c \in Calls : c = publisher[q] /\ CallOK(c) /\ c.at # "approved"
        BY <1>7, <2>1, <2>2 DEF Fenced, CallsOK, HostingInv, HostingType
      <3>2. PICK e \in Calls : e = publisher'[q]
        BY <1>3
      <3>3. /\ e.at = c.at /\ e.on = c.on /\ e.outcome = c.outcome
            /\ c.on = a => e.current = FALSE
            /\ c.on # a => e.current = c.current
        BY <1>1, <1>2, <2>2, <3>1, <3>2 DEF On
      <3>4. e.at # "idle" => e.on \in Attempts
        BY <3>1, <3>3 DEF HostingInv, OnlyRequested, On
      <3>5. e.at # "idle" =>
              /\ deploy[e.on].started => deploy'[e.on].started
              /\ e.current => deploy'[e.on] = deploy[e.on]
        BY <1>4, <3>3, <3>4
      <3>6. CallOK(e)'
        BY <3>1, <3>3, <3>5 DEF CallOK, Executing
      <3>7. QED
        BY <3>2, <3>6 DEF CallOK, Executing
    <2>3. CallsOK'
      <3>1. CallOK(publisher[p])'
        BY <1>1, <1>7 DEF CallOK, Executing
      <3>2. QED
        BY <2>2, <3>1 DEF CallsOK
    <2>4. OneExecutes'
      <3>1. ASSUME NEW q \in Publishers, q # p, Executing(publisher'[q])
            PROVE  publisher'[q] = publisher[q] /\ On(q) # a
        BY <1>1, <1>2, <3>1 DEF Executing
      <3>2. Executing(publisher'[p]) => publisher'[p].on = a
        BY <1>1 DEF Executing
      <3>3. ASSUME NEW q \in Publishers, NEW r \in Publishers, Executing(publisher'[q]), Executing(publisher'[r]),
                   publisher'[q].on = publisher'[r].on
            PROVE  q = r
        BY <2>1, <3>1, <3>2, <3>3 DEF Fenced, OneExecutes, On
      <3>4. QED
        BY <3>3 DEF OneExecutes, Executing, On
    <2>5. AttemptsOK'
      BY <1>4, <1>7, <2>1 DEF Fenced, AttemptsOK
    <2>6. QED
      BY <1>7, <2>3, <2>4, <2>5 DEF Fenced
  <1>8. QED
    BY <1>5, <1>6, <1>7 DEF HostingInv

\* Who may write the attempt has no rival about to switch the pointer.
LEMMA NoRival ==
  ASSUME HostingAssumption, HostingInv, ~reclaimed, NEW p \in Publishers,
         \/ Claimable(On(p))
         \/ Mine(p) /\ publisher[p].at \in {"owned", "prepared", "activating", "switched", "verify", "settle", "record"}
  PROVE  \A q \in Publishers : publisher[q].at # "approved" \/ q = p
  <1>1. SUFFICES ASSUME NEW q \in Publishers, publisher[q].at = "approved", q # p PROVE FALSE
    OBVIOUS
  <1>2. /\ Fenced /\ On(q) \in Attempts /\ CallOK(publisher[q]) /\ CallOK(publisher[p])
    BY <1>1 DEF HostingInv, OnlyRequested, Fenced, CallsOK
  <1>3. /\ Executing(publisher[q]) /\ target.lock.attempt = On(q) /\ deploy[On(q)].started
        /\ live.generation <= On(q) /\ live.generation # On(q)
    BY <1>1, <1>2 DEF CallOK, Executing, On
  <1>4. CASE Claimable(On(p))
    BY <1>2, <1>3, <1>4 DEF Claimable, Unlocked, Attempts
  <1>5. CASE Mine(p) /\ publisher[p].at \in {"owned", "prepared", "activating", "switched", "verify", "settle", "record"}
    <2>1. On(p) = On(q) /\ publisher[p].current
      BY <1>3, <1>5 DEF Mine, OwnsTarget
    <2>2. ~Executing(publisher[p])
      BY <1>1, <1>2, <1>3, <2>1 DEF Fenced, OneExecutes
    <2>3. publisher[p].at = "record"
      BY <1>5, <2>1, <2>2 DEF Executing
    <2>4. On(p) <= live.generation
      BY <1>2, <1>3, <2>1, <2>3 DEF CallOK, On
    <2>5. live.generation \in Nat /\ On(q) \in Nat
      BY <1>2 DEF HostingInv, HostingType, HostingAssumption, Attempts
    <2>6. QED
      BY <1>3, <2>1, <2>4, <2>5
  <1>6. QED
    BY <1>4, <1>5

\* A call ends, and its job is over or offered again.
LEMMA Leaving ==
  ASSUME HostingAssumption, HostingInv, UNCHANGED <<target, deploy, outbox, live, reclaimed, covered, held, resumer>>,
         NEW p \in Publishers, publisher[p].at # "idle", NEW state, LeaveCall(p, state)
  PROVE  HostingInv'
  <1>1. NoCall \in Calls /\ NoCall.at = "idle" /\ NoCall.current = FALSE
    BY DEF NoCall, Calls, DeployStates, HostingAssumption
  <1>2. CallOK(NoCall) /\ ~Executing(NoCall)
    BY <1>1 DEF CallOK, Executing
  <1>3. On(p) \in Attempts /\ On(p) <= target.desired
    BY DEF HostingInv, OnlyRequested
  <1>4. /\ deployJob' \in [Attempts -> JobStates]
        /\ \A a \in Attempts : deployJob'[a] # NoJob => deployJob[a] # NoJob \/ a = On(p)
    BY <1>3, JobsAre DEF LeaveCall, JobAfter, HostingInv, HostingType
  <1>5. /\ outbox' \subseteq Attempts
        /\ \A a \in Attempts : a \in outbox' \/ deployJob'[a] # NoJob => a <= target.desired
    BY <1>3, <1>4 DEF HostingInv, HostingType, OnlyRequested
  <1>6. publisher' = [publisher EXCEPT ![p] = NoCall]
    BY DEF LeaveCall
  <1>7. QED
    BY <1>1, <1>2, <1>4, <1>5, <1>6, OneMoves

\* A call that is not executing takes a step to another that is not.
LEMMA Turning ==
  ASSUME HostingAssumption, HostingInv,
         UNCHANGED <<target, deploy, outbox, deployJob, live, reclaimed, covered, held, resumer>>,
         NEW p \in Publishers, NEW new \in Calls, publisher' = [publisher EXCEPT ![p] = new],
         new.on \in Attempts, new.on <= target.desired,
         new.at \in {"claim", "reconcile", "take", "observe", "cancel"}
  PROVE  HostingInv'
  <1>1. ~Executing(new) /\ CallOK(new)
    BY DEF Executing, CallOK
  <1>2. /\ outbox' \subseteq Attempts /\ deployJob' \in [Attempts -> JobStates]
        /\ \A a \in Attempts : a \in outbox' \/ deployJob'[a] # NoJob => a <= target.desired
    BY DEF HostingInv, HostingType, OnlyRequested
  <1>3. QED
    BY <1>1, <1>2, OneMoves

GoesTo(p, step, outcome) == publisher' = [publisher EXCEPT ![p].at = step, ![p].outcome = outcome]
CallIs(p, new) == publisher' = [publisher EXCEPT ![p] = new]

\* The record of a call that goes to another step, with an outcome or with the one it had.
LEMMA NextStep ==
  ASSUME HostingAssumption, HostingInv, NEW p \in Publishers,
         NEW step \in {"take", "approved", "switched", "settle", "record"}, NEW outcome \in DeployStates,
         \/ GoesTo(p, step, outcome)
         \/ MoveTo(p, step) /\ outcome = publisher[p].outcome
  PROVE  \E new \in Calls : /\ CallIs(p, new)
                            /\ new.at = step /\ new.outcome = outcome /\ new.token = publisher[p].token
                            /\ new.on = On(p) /\ new.current = publisher[p].current
  <1>1. publisher \in [Publishers -> Calls] /\ publisher[p] \in Calls
    BY DEF HostingInv, HostingType
  <1>2. CASE GoesTo(p, step, outcome)
    <2>1. PICK new : new = [publisher[p] EXCEPT !.at = step, !.outcome = outcome]
      OBVIOUS
    <2>2. /\ new \in Calls /\ new.at = step /\ new.outcome = outcome /\ new.token = publisher[p].token
          /\ new.on = On(p) /\ new.current = publisher[p].current
      BY <1>1, <2>1 DEF Calls, On
    <2>3. CallIs(p, new)
      BY <1>1, <1>2, <2>1 DEF CallIs, GoesTo
    <2>4. QED
      BY <2>2, <2>3
  <1>3. CASE MoveTo(p, step) /\ outcome = publisher[p].outcome
    <2>1. PICK new : new = [publisher[p] EXCEPT !.at = step]
      OBVIOUS
    <2>2. /\ new \in Calls /\ new.at = step /\ new.outcome = outcome /\ new.token = publisher[p].token
          /\ new.on = On(p) /\ new.current = publisher[p].current
      BY <1>1, <1>3, <2>1 DEF Calls, On
    <2>3. CallIs(p, new)
      BY <1>1, <1>3, <2>1 DEF CallIs, MoveTo
    <2>4. QED
      BY <2>2, <2>3
  <1>4. QED
    BY <1>2, <1>3

\* A call goes on without writing.
LEMMA GoesOn ==
  ASSUME HostingAssumption, HostingInv,
         UNCHANGED <<target, deploy, outbox, deployJob, live, reclaimed, covered, held, resumer>>,
         NEW p \in Publishers, NEW new \in Calls, publisher[p].at # "idle",
         publisher' = [publisher EXCEPT ![p] = new], new.on = On(p), new.current = publisher[p].current,
         new.at \in {"take", "approved", "settle", "record"},
         ~reclaimed => CallOK(new) /\ (new.at \in {"approved", "settle"} => Executing(publisher[p]))
  PROVE  HostingInv'
  <1>1. Executing(new) => new.at \in {"approved", "settle"}
    BY DEF Executing
  <1>2. new.on \in Attempts /\ new.on <= target.desired
    BY DEF HostingInv, OnlyRequested
  <1>3. /\ outbox' \subseteq Attempts /\ deployJob' \in [Attempts -> JobStates]
        /\ \A a \in Attempts : a \in outbox' \/ deployJob'[a] # NoJob => a <= target.desired
    BY DEF HostingInv, HostingType, OnlyRequested
  <1>4. QED
    BY <1>1, <1>2, <1>3, OneMoves

LEMMA Asking ==
  ASSUME HostingAssumption, HostingInv, NEW p \in Publishers, NEW a \in Attempts,
         LeaseDeploy(p, a) \/ AskReconcile(p, a) \/ AskCancel(p, a)
  PROVE  HostingInv'
  <1>1. NoCall \in Calls /\ a <= Generations
    BY DEF NoCall, Calls, DeployStates, Attempts, HostingAssumption
  <1>2. UNCHANGED <<target, deploy, outbox, live, reclaimed, covered, held, resumer>>
    BY DEF LeaseDeploy, AskReconcile, AskCancel
  <1>3. a <= target.desired
    BY DEF HostingInv, OnlyRequested, NoJob, LeaseDeploy, AskReconcile, AskCancel
  <1>4. ASSUME NEW step \in {"claim", "reconcile", "cancel"}, NEW new,
               new = [NoCall EXCEPT !.on = a, !.at = step] \/ new = [NoCall EXCEPT !.at = step, !.on = a]
        PROVE  new \in Calls /\ new.on = a /\ ~Executing(new) /\ CallOK(new)
    <2>1. new \in Calls /\ new.on = a /\ new.at = step
      <3>1. a \in 0..Generations /\ NoCall \in Calls
        BY <1>1 DEF Attempts
      <3>2. CASE new = [NoCall EXCEPT !.on = a, !.at = step]
        BY <3>1, <3>2 DEF Calls
      <3>3. CASE new = [NoCall EXCEPT !.at = step, !.on = a]
        BY <3>1, <3>3 DEF Calls
      <3>4. QED
        BY <1>4, <3>2, <3>3
    <2>2. QED
      BY <2>1 DEF Executing, CallOK
  <1>5. /\ deployJob' \in [Attempts -> JobStates] /\ outbox' \subseteq Attempts
        /\ \A b \in Attempts : b \in outbox' \/ deployJob'[b] # NoJob => b <= target.desired
    <2>1. deployJob' = deployJob \/ \E job \in JobStates : deployJob' = [deployJob EXCEPT ![a] = job]
      BY JobsAre DEF LeaseDeploy, AskReconcile, AskCancel, HostingInv
    <2>2. /\ deployJob' \in [Attempts -> JobStates]
          /\ \A b \in Attempts : deployJob'[b] = deployJob[b] \/ b = a
      BY <2>1 DEF HostingInv, HostingType
    <2>3. QED
      BY <1>2, <1>3, <2>1, <2>2 DEF HostingInv, HostingType, OnlyRequested
  <1>6. CASE publisher' = publisher
    BY <1>2, <1>5, <1>6, Elsewhere DEF HostingInv, HostingType
  <1>7. CASE publisher' # publisher
    <2>1. PICK step \in {"claim", "reconcile", "cancel"} : \E new :
            /\ publisher' = [publisher EXCEPT ![p] = new]
            /\ new = [NoCall EXCEPT !.on = a, !.at = step] \/ new = [NoCall EXCEPT !.at = step, !.on = a]
      <3>1. CASE LeaseDeploy(p, a)
        <4>1. PICK step \in {"claim", "reconcile"} :
                publisher' = [publisher EXCEPT ![p] = [NoCall EXCEPT !.on = a, !.at = step]]
          BY <1>7, <3>1 DEF LeaseDeploy
        <4>2. QED
          BY <4>1
      <3>2. CASE AskReconcile(p, a)
        BY <3>2 DEF AskReconcile
      <3>3. CASE AskCancel(p, a)
        BY <3>3 DEF AskCancel
      <3>4. QED
        BY <3>1, <3>2, <3>3
    <2>2. PICK new : /\ publisher' = [publisher EXCEPT ![p] = new]
                     /\ new = [NoCall EXCEPT !.on = a, !.at = step] \/ new = [NoCall EXCEPT !.at = step, !.on = a]
      BY <2>1
    <2>3. new \in Calls /\ new.on = a /\ ~Executing(new) /\ CallOK(new)
      BY <1>4, <2>2
    <2>4. QED
      BY <1>2, <1>3, <1>5, <2>2, <2>3, OneMoves
  <1>8. QED
    BY <1>6, <1>7

LEMMA Observing ==
  ASSUME HostingAssumption, HostingInv, NEW p \in Publishers,
         OpenReconcile(p) \/ ObserveTarget(p) \/ LoseTarget(p) \/ CrashPublisher(p)
  PROVE  HostingInv'
  <1>1. /\ publisher[p] \in Calls /\ publisher[p].at # "idle" /\ On(p) \in Attempts /\ On(p) <= target.desired
        /\ On(p) <= Generations
    BY DEF HostingInv, HostingType, OnlyRequested, OpenReconcile, ObserveTarget, LoseTarget, CrashPublisher, Attempts,
           HostingAssumption
  <1>2. UNCHANGED <<target, deploy, outbox, live, reclaimed, covered, held, resumer>>
    BY DEF OpenReconcile, ObserveTarget, LoseTarget, CrashPublisher
  <1>3. CASE \E state : LeaveCall(p, state)
    BY <1>1, <1>2, <1>3, Leaving
  <1>4. CASE OpenReconcile(p) /\ deployJob' = deployJob
    <2>1. CASE publisher' = [publisher EXCEPT ![p] = [@ EXCEPT !.at = "observe", !.token = target.lock.token, !.current = TRUE]]
      <3>1. PICK new : new = [publisher[p] EXCEPT !.at = "observe", !.token = target.lock.token, !.current = TRUE]
        OBVIOUS
      <3>2. new \in Calls /\ new.at = "observe" /\ new.on = On(p)
        BY <1>1, <3>1 DEF Calls, On, HostingInv, HostingType, Targets
      <3>3. publisher' = [publisher EXCEPT ![p] = new]
        BY <2>1, <3>1
      <3>4. QED
        BY <1>1, <1>2, <1>4, <3>2, <3>3, Turning
    <2>2. CASE MoveTo(p, "take")
      <3>1. publisher[p].outcome \in DeployStates
        BY <1>1 DEF Calls
      <3>2. PICK new \in Calls : CallIs(p, new) /\ new.at = "take" /\ new.on = On(p)
        BY <2>2, <3>1, NextStep
      <3>3. QED
        BY <1>1, <1>2, <1>4, <3>2, Turning DEF CallIs
    <2>3. CASE \E state : LeaveCall(p, state)
      BY <1>3, <2>3
    <2>4. QED
      BY <1>4, <2>1, <2>2, <2>3 DEF OpenReconcile
  <1>5. CASE ObserveTarget(p) /\ live = Pointed(On(p)) /\ Probe(p, "record") /\ deployJob' = deployJob
    <2>1. PICK outcome \in Confirmations \cup {"verifying"} : GoesTo(p, "record", outcome)
      BY <1>5 DEF Probe, Confirmed, Confirmations, GoesTo
    <2>2. outcome \in DeployStates
      BY DEF DeployStates, Confirmations, Over
    <2>3. PICK new \in Calls : /\ CallIs(p, new) /\ new.at = "record"
                               /\ new.outcome = outcome /\ new.on = On(p) /\ new.current = publisher[p].current
      BY <2>1, <2>2, NextStep
    <2>4. live.generation = On(p) /\ On(p) <= live.generation
      BY <1>1, <1>5 DEF Pointed, Attempts
    <2>5. ~reclaimed => CallOK(new)
      BY <1>1, <2>3, <2>4 DEF CallOK, Executing, HostingInv, Fenced, AttemptsOK
    <2>6. QED
      BY <1>1, <1>2, <1>5, <2>3, <2>5, GoesOn DEF CallIs
  <1>6. QED
    BY <1>3, <1>4, <1>5 DEF OpenReconcile, ObserveTarget, LoseTarget, CrashPublisher

LEMMA Guarding ==
  ASSUME HostingAssumption, HostingInv, NEW p \in Publishers,
         ApproveActivation(p) \/ RefuseDeploy(p) \/ VerifyDeploy(p)
  PROVE  HostingInv'
  <1>1. /\ publisher[p] \in Calls /\ publisher[p].at # "idle" /\ On(p) \in Attempts /\ publisher[p].outcome \in DeployStates
        /\ deploy[On(p)] \in Deploys
    BY DEF HostingInv, HostingType, OnlyRequested, ApproveActivation, RefuseDeploy, VerifyDeploy, Calls
  <1>2. UNCHANGED <<target, deploy, outbox, deployJob, live, reclaimed, covered, held, resumer>>
    BY DEF ApproveActivation, RefuseDeploy, VerifyDeploy
  <1>3. /\ Mine(p) /\ Executing(publisher[p]) /\ publisher[p].current /\ target.lock.attempt = On(p)
    BY DEF ApproveActivation, RefuseDeploy, VerifyDeploy, Passes, Mine, OwnsTarget, Executing
  <1>4. ~reclaimed => CallOK(publisher[p]) /\ AttemptsOK
    BY DEF HostingInv, Fenced, CallsOK
  <1>5. CASE ApproveActivation(p)
    <2>1. PICK new \in Calls : /\ CallIs(p, new) /\ new.at = "approved" /\ new.on = On(p)
                               /\ new.current = publisher[p].current
      BY <1>1, <1>5, NextStep DEF ApproveActivation
    <2>2. publisher[p].at = "activating" /\ live.generation <= On(p)
      BY <1>5 DEF ApproveActivation, PointerAllows
    <2>3. ~reclaimed => CallOK(new)
      BY <1>3, <1>4, <2>1, <2>2 DEF CallOK, Executing, On
    <2>4. QED
      BY <1>1, <1>2, <1>3, <2>1, <2>3, GoesOn DEF CallIs
  <1>6. CASE \E outcome \in {"superseded", "failed", "unknown"} : FailsAs(p, outcome)
    <2>1. PICK outcome \in {"superseded", "failed", "unknown"} : GoesTo(p, "settle", outcome)
      BY <1>6 DEF FailsAs, GoesTo
    <2>2. outcome \in DeployStates
      BY DEF DeployStates, Over
    <2>3. PICK new \in Calls : /\ CallIs(p, new) /\ new.at = "settle" /\ new.outcome = outcome /\ new.on = On(p)
                               /\ new.current = publisher[p].current
      BY <2>1, <2>2, NextStep
    <2>4. ~reclaimed => CallOK(new)
      BY <1>3, <1>4, <2>3 DEF CallOK, Executing, On, Confirmations
    <2>5. QED
      BY <1>1, <1>2, <1>3, <2>3, <2>4, GoesOn DEF CallIs
  <1>7. CASE VerifyDeploy(p) /\ live = Pointed(On(p)) /\ Probe(p, "settle")
    <2>1. PICK outcome \in Confirmations \cup {"verifying"} : GoesTo(p, "settle", outcome)
      BY <1>7 DEF Probe, Confirmed, Confirmations, GoesTo
    <2>2. outcome \in DeployStates
      BY DEF DeployStates, Confirmations, Over
    <2>3. PICK new \in Calls : /\ CallIs(p, new) /\ new.at = "settle" /\ new.outcome = outcome /\ new.on = On(p)
                               /\ new.current = publisher[p].current
      BY <2>1, <2>2, NextStep
    <2>4. live.generation = On(p) /\ On(p) <= live.generation
      BY <1>1, <1>7 DEF Pointed, Attempts
    <2>5. ~reclaimed => CallOK(new)
      BY <1>1, <1>3, <1>4, <2>3, <2>4 DEF CallOK, Executing, On, AttemptsOK
    <2>6. QED
      BY <1>1, <1>2, <1>3, <2>3, <2>5, GoesOn DEF CallIs
  <1>8. QED
    BY <1>5, <1>6, <1>7 DEF RefuseDeploy, VerifyDeploy

\* The pointer moves to a newer attempt, or its call fails.
LEMMA Switching ==
  ASSUME HostingAssumption, HostingInv, NEW p \in Publishers, SwitchPointer(p) \/ SwitchFails(p)
  PROVE  HostingInv' /\ (~reclaimed => live'.generation >= live.generation)
  <1>1. /\ publisher[p] \in Calls /\ publisher[p].at = "approved" /\ On(p) \in Attempts /\ On(p) <= target.desired
        /\ publisher[p].outcome \in DeployStates /\ On(p) \in Nat /\ On(p) <= Generations
    BY DEF HostingInv, HostingType, OnlyRequested, SwitchPointer, SwitchFails, Calls, Attempts, HostingAssumption
  <1>2. /\ UNCHANGED <<target, deploy, outbox, deployJob, reclaimed, covered, held, resumer>>
        /\ live' \in {live, Pointed(On(p))}
    BY DEF SwitchPointer, SwitchFails
  <1>3. PICK new \in Calls : /\ CallIs(p, new) /\ new.on = On(p) /\ new.current = publisher[p].current
                             /\ new.at = "switched" \/ (new.at = "settle" /\ new.outcome = "unknown")
    <2>1. CASE SwitchPointer(p)
      BY <1>1, <2>1, NextStep DEF SwitchPointer
    <2>2. CASE SwitchFails(p)
      <3>1. "unknown" \in DeployStates /\ GoesTo(p, "settle", "unknown")
        BY <2>2 DEF SwitchFails, FailsAs, GoesTo, DeployStates
      <3>2. QED
        BY <3>1, NextStep
    <2>3. QED
      BY <2>1, <2>2
  <1>4. \A q \in Publishers : publisher'[q] = IF q = p THEN new ELSE publisher[q]
    BY <1>3 DEF CallIs, HostingInv, HostingType
  <1>5. PICK n \in 0..Generations : /\ live'.generation = n /\ n <= target.desired /\ (n = live.generation \/ n = On(p))
                                    /\ live' \in [generation : 0..Generations, disabled : BOOLEAN]
    <2>1. On(p) \in 0..Generations
      BY <1>1
    <2>2. (deploy[On(p)].uses = NoSubject) \in BOOLEAN
      OBVIOUS
    <2>3. Pointed(On(p)) \in [generation : 0..Generations, disabled : BOOLEAN] /\ Pointed(On(p)).generation = On(p)
      BY <2>1, <2>2 DEF Pointed
    <2>4. live' \in [generation : 0..Generations, disabled : BOOLEAN] /\ live'.generation \in {live.generation, On(p)}
      BY <1>2, <2>3 DEF HostingInv, HostingType
    <2>5. live'.generation <= target.desired
      BY <1>1, <2>4 DEF HostingInv, OnlyRequested
    <2>6. QED
      BY <2>4, <2>5
  <1>6. HostingType' /\ OnlyRequested'
    <2>1. HostingType'
      BY <1>2, <1>3, <1>5 DEF HostingInv, HostingType, CallIs
    <2>2. OnlyRequested'
      BY <1>1, <1>2, <1>3, <1>4, <1>5 DEF HostingInv, OnlyRequested, On
    <2>3. QED
      BY <2>1, <2>2
  <1>7. ASSUME ~reclaimed PROVE Fenced' /\ live'.generation >= live.generation
    <2>1. Fenced /\ Executing(publisher[p]) /\ CallOK(publisher[p])
      BY <1>1, <1>7 DEF HostingInv, Fenced, CallsOK, CallOK, Executing
    <2>2. live.generation \in Nat /\ live.generation <= On(p) /\ n \in Nat /\ target.active \in Nat
      BY <1>1, <2>1 DEF CallOK, On, HostingInv, HostingType, Targets
    <2>3. live.generation <= n
      BY <1>1, <1>5, <2>2
    <2>4. ASSUME NEW q \in Publishers, q # p PROVE CallOK(publisher[q])'
      <3>1. PICK c \in Calls : c = publisher[q] /\ c = publisher'[q] /\ CallOK(c)
        BY <1>4, <2>1, <2>4 DEF Fenced, CallsOK, HostingInv, HostingType
      <3>2. c.at # "approved"
        <4>1. SUFFICES ASSUME c.at = "approved" PROVE FALSE
          OBVIOUS
        <4>2. c.on = On(p) /\ Executing(c)
          BY <2>1, <3>1, <1>1, <4>1 DEF CallOK, Executing, On
        <4>3. QED
          BY <2>1, <2>4, <3>1, <4>2 DEF Fenced, OneExecutes, On
      <3>3. Executing(c) => c.on # On(p)
        BY <2>1, <2>4, <3>1 DEF Fenced, OneExecutes, On
      <3>4. c.on <= live.generation => c.on <= n
        <4>1. c.on \in Nat
          BY DEF Calls
        <4>2. QED
          BY <2>2, <2>3, <4>1
      <3>5. CallOK(c)'
        BY <1>2, <1>5, <3>1, <3>2, <3>3, <3>4 DEF CallOK, Executing
      <3>6. QED
        BY <3>1, <3>5 DEF CallOK, Executing
    <2>5. CallOK(publisher[p])'
      <3>1. deploy[On(p)].started /\ deploy[On(p)].state \notin Confirmations
        BY <1>1, <2>1 DEF CallOK, On
      <3>2. CallOK(new)'
        BY <1>2, <1>3, <3>1 DEF CallOK, Executing, Confirmations
      <3>3. QED
        BY <1>4, <3>2 DEF CallOK, Executing
    <2>6. OneExecutes'
      <3>1. \A q \in Publishers : Executing(publisher'[q]) => Executing(publisher[q])
        BY <1>4, <2>1 DEF Executing
      <3>2. \A q \in Publishers : publisher'[q].on = publisher[q].on
        BY <1>3, <1>4 DEF On
      <3>3. QED
        BY <2>1, <3>1, <3>2 DEF Fenced, OneExecutes, Executing, On
    <2>7. AttemptsOK'
      <3>1. deploy[On(p)].started
        BY <1>1, <2>1 DEF CallOK, On
      <3>2. QED
        BY <1>2, <1>5, <2>1, <3>1 DEF Fenced, AttemptsOK
    <2>8. target'.active <= live'.generation
      BY <1>2, <1>5, <2>1, <2>2, <2>3 DEF Fenced
    <2>9. QED
      BY <1>5, <2>2, <2>3, <2>4, <2>5, <2>6, <2>7, <2>8 DEF Fenced, CallsOK
  <1>8. QED
    BY <1>2, <1>6, <1>7 DEF HostingInv

LEMMA Claiming ==
  ASSUME HostingAssumption, HostingInv, NEW p \in Publishers,
         ClaimDeploy(p) \/ ClaimReconcile(p) \/ ClaimCancel(p)
  PROVE  HostingInv'
  <1>1. /\ publisher[p] \in Calls /\ publisher[p].at # "idle" /\ On(p) \in Attempts /\ On(p) <= target.desired
        /\ On(p) \in 0..Generations /\ deploy[On(p)] \in Deploys
    BY DEF HostingInv, HostingType, OnlyRequested, ClaimDeploy, ClaimReconcile, ClaimCancel, Attempts, HostingAssumption
  <1>2. UNCHANGED <<deploy, outbox, live, covered, held, resumer>>
    BY DEF ClaimDeploy, ClaimReconcile, ClaimCancel
  <1>3. CASE ~Claimable(On(p)) /\ LeaveCall(p, "busy") /\ target' = target
    <2>1. reclaimed' = reclaimed
      BY <1>3 DEF ClaimDeploy, ClaimReconcile, ClaimCancel, HostingInv, HostingType
    <2>2. QED
      BY <1>1, <1>2, <1>3, <2>1, Leaving
  <1>4. CASE Claimable(On(p)) /\ deployJob' = deployJob
    <2>1. PICK a \in Attempts : a = On(p)
      BY <1>1
    <2>2. PICK d \in Deploys : d = deploy[a]
      BY <1>1, <2>1
    <2>3. PICK step \in {"owned", "observe", "record"}, outcome \in {"none", "cancelled"} :
            /\ ClaimTarget(p, step, outcome) /\ (step = "record" => outcome = "cancelled")
            /\ step \in {"owned", "record"} => reclaimed' = (reclaimed \/ d.started)
            /\ step = "observe" => reclaimed' = reclaimed
      BY <1>4, <2>1, <2>2 DEF ClaimDeploy, ClaimReconcile, ClaimCancel
    <2>4. PICK new : new = [at |-> step, on |-> On(p), token |-> p, current |-> TRUE, outcome |-> outcome]
      OBVIOUS
    <2>5. /\ new \in Calls /\ new.at = step /\ new.on = a /\ new.outcome = outcome /\ Wrote(p, new)
      BY <1>1, <2>1, <2>3, <2>4 DEF Calls, DeployStates, Over, ClaimTarget
    <2>6. /\ target' \in Targets /\ target'.desired = target.desired /\ target'.active = target.active
      BY <1>1, <2>3 DEF ClaimTarget, HostingInv, HostingType, Targets
    <2>7. deploy' = [deploy EXCEPT ![a] = d]
      BY <1>2, <2>2 DEF HostingInv, HostingType
    <2>8. (reclaimed => reclaimed') /\ reclaimed' \in BOOLEAN
      BY <2>3 DEF HostingInv, HostingType, Deploys
    <2>9. ASSUME ~reclaimed'
          PROVE  /\ \A q \in Publishers : q # p => publisher[q].at # "approved"
                 /\ CallOK(new)' /\ target'.active <= live.generation
                 /\ d.state \in Confirmations => d.started
      <3>1. ~reclaimed /\ Fenced /\ (step \in {"owned", "record"} => ~d.started)
        BY <2>3, <2>8, <2>9 DEF HostingInv
      <3>2. \A q \in Publishers : q # p => publisher[q].at # "approved"
        BY <1>4, <3>1, NoRival
      <3>3. (d.state \in Confirmations \/ live.generation = a) => d.started
        BY <2>2, <3>1 DEF Fenced, AttemptsOK
      <3>4. CallOK(new)'
        BY <1>2, <2>2, <2>3, <2>5, <3>1, <3>3 DEF CallOK, Executing, Confirmations
      <3>5. QED
        BY <2>6, <3>1, <3>2, <3>3, <3>4 DEF Fenced
    <2>10. /\ deployJob' \in [Attempts -> JobStates] /\ a <= target.desired /\ outbox' \subseteq outbox
           /\ \A b \in Attempts : deployJob'[b] # NoJob => deployJob[b] # NoJob \/ b = a
      BY <1>1, <1>2, <1>4, <2>1 DEF HostingInv, HostingType
    <2>11. UNCHANGED <<live, covered, held, resumer>> /\ (deploy[a].started => d.started) /\ (new.at # "idle" => new.on = a)
      BY <1>2, <2>2, <2>5
    <2>12. QED
      BY <2>1, <2>5, <2>6, <2>7, <2>8, <2>9, <2>10, <2>11, WritesAttempt
  <1>5. QED
    BY <1>3, <1>4 DEF ClaimDeploy, ClaimReconcile, ClaimCancel, ClaimTarget

\* The writer's own states of its attempt.
LEMMA Executed ==
  ASSUME HostingAssumption, HostingInv, NEW p \in Publishers,
         PrepareRelease(p) \/ StartActivation(p) \/ ConfirmOutcome(p)
  PROVE  HostingInv' /\ (~reclaimed => deploy[On(p)].state \notin Confirmations)
  <1>1. /\ publisher[p] \in Calls /\ publisher[p].at # "idle" /\ On(p) \in Attempts /\ On(p) <= target.desired
        /\ On(p) \in 0..Generations /\ deploy[On(p)] \in Deploys
    BY DEF HostingInv, HostingType, OnlyRequested, PrepareRelease, StartActivation, ConfirmOutcome, Attempts, HostingAssumption
  <1>2. UNCHANGED <<target, outbox, deployJob, live, reclaimed, covered, held, resumer>>
    BY DEF PrepareRelease, StartActivation, ConfirmOutcome
  <1>3. /\ Mine(p) /\ Executing(publisher[p]) /\ publisher[p].current
        /\ publisher[p].at \in {"owned", "prepared", "switched"}
    BY DEF PrepareRelease, StartActivation, ConfirmOutcome, Passes, Mine, Executing
  <1>4. PICK a \in Attempts : a = On(p)
    BY <1>1
  <1>5. PICK step \in {"prepared", "activating", "verify"}, d \in Deploys :
          /\ Wrote(p, [publisher[p] EXCEPT !.at = step]) /\ deploy' = [deploy EXCEPT ![a] = d]
          /\ deploy[a].started => d.started
          /\ step = "activating" => d.started
          /\ step = "verify" <=> publisher[p].at = "switched"
          /\ d.state \in {deploy[a].state, "uploading", "activating", "verifying"}
    <2>1. CASE PrepareRelease(p) /\ deploy[a].uses = NoSubject
      <3>1. deploy' = [deploy EXCEPT ![a] = deploy[a]]
        BY <1>4, <2>1 DEF PrepareRelease, HostingInv, HostingType
      <3>2. QED
        BY <1>1, <1>4, <2>1, <3>1 DEF PrepareRelease
    <2>2. CASE PrepareRelease(p) /\ deploy[a].uses # NoSubject
      <3>1. PICK d : d = [deploy[a] EXCEPT !.state = "uploading", !.built = TRUE]
        OBVIOUS
      <3>2. d \in Deploys /\ d.started = deploy[a].started /\ d.state = "uploading"
        BY <1>1, <1>4, <3>1 DEF Deploys, DeployStates
      <3>3. deploy' = [deploy EXCEPT ![a] = d]
        BY <1>4, <2>2, <3>1 DEF PrepareRelease, HostingInv, HostingType
      <3>4. QED
        BY <2>2, <3>2, <3>3 DEF PrepareRelease
    <2>3. CASE StartActivation(p)
      <3>1. PICK d : d = [deploy[a] EXCEPT !.state = "activating", !.started = TRUE]
        OBVIOUS
      <3>2. d \in Deploys /\ d.started = TRUE /\ d.state = "activating"
        BY <1>1, <1>4, <3>1 DEF Deploys, DeployStates
      <3>3. deploy' = [deploy EXCEPT ![a] = d]
        BY <1>4, <2>3, <3>1 DEF StartActivation, HostingInv, HostingType
      <3>4. QED
        BY <2>3, <3>2, <3>3 DEF StartActivation
    <2>4. CASE ConfirmOutcome(p)
      <3>1. PICK d : d = [deploy[a] EXCEPT !.state = "verifying"]
        OBVIOUS
      <3>2. d \in Deploys /\ d.started = deploy[a].started /\ d.state = "verifying"
        BY <1>1, <1>4, <3>1 DEF Deploys, DeployStates
      <3>3. deploy' = [deploy EXCEPT ![a] = d]
        BY <1>4, <2>4, <3>1 DEF ConfirmOutcome, HostingInv, HostingType
      <3>4. QED
        BY <2>4, <3>2, <3>3 DEF ConfirmOutcome
    <2>5. QED
      BY <2>1, <2>2, <2>3, <2>4
  <1>6. PICK new : new = [publisher[p] EXCEPT !.at = step]
    OBVIOUS
  <1>7. new \in Calls /\ new.at = step /\ new.on = a /\ new.current = publisher[p].current /\ Wrote(p, new)
    BY <1>1, <1>4, <1>5, <1>6 DEF Calls, On
  <1>8. ~reclaimed => /\ Fenced /\ CallOK(publisher[p]) /\ deploy[a].state \notin Confirmations
                      /\ publisher[p].at # "switched" => live.generation # a
                      /\ publisher[p].at = "switched" => deploy[a].started
    BY <1>3, <1>4 DEF HostingInv, Fenced, CallsOK, CallOK, On
  <1>9. ASSUME ~reclaimed'
        PROVE  /\ \A q \in Publishers : q # p => publisher[q].at # "approved"
               /\ CallOK(new)' /\ target'.active <= live.generation
               /\ d.state \in Confirmations => d.started
    <2>1. ~reclaimed
      BY <1>2, <1>9
    <2>2. \A q \in Publishers : q # p => publisher[q].at # "approved"
      BY <1>3, <2>1, NoRival
    <2>3. d.state \notin Confirmations
      BY <1>5, <1>8, <2>1 DEF Confirmations
    <2>4. deploy'[a] = d
      BY <1>5 DEF HostingInv, HostingType
    <2>6. /\ step \in {"prepared", "activating"} => live'.generation # a
          /\ step \in {"activating", "verify"} => deploy'[a].started
      BY <1>2, <1>5, <1>8, <2>1, <2>4
    <2>7. CallOK(new)'
      BY <1>5, <1>7, <2>3, <2>4, <2>6 DEF CallOK, Executing
    <2>8. QED
      BY <1>2, <1>8, <2>1, <2>2, <2>3, <2>7 DEF Fenced
  <1>10. /\ a <= target.desired /\ target' \in Targets /\ deployJob' \in [Attempts -> JobStates] /\ outbox' \subseteq outbox
         /\ \A b \in Attempts : deployJob'[b] # NoJob => deployJob[b] # NoJob \/ b = a
         /\ reclaimed' \in BOOLEAN /\ (reclaimed => reclaimed') /\ target'.desired = target.desired
    BY <1>1, <1>2, <1>4 DEF HostingInv, HostingType
  <1>11. UNCHANGED <<live, covered, held, resumer>> /\ (new.at # "idle" => new.on = a)
    BY <1>2, <1>7
  <1>12. HostingInv'
    BY <1>4, <1>5, <1>7, <1>9, <1>10, <1>11, WritesAttempt
  <1>13. QED
    BY <1>4, <1>8, <1>12

\* A call records how its attempt ended, or that nobody knows.
LEMMA Settling ==
  ASSUME HostingAssumption, HostingInv, NEW p \in Publishers, SettleDeploy(p)
  PROVE  HostingInv' /\ (~reclaimed => MovesForward)
  <1>1. /\ publisher[p] \in Calls /\ publisher[p].at \in {"settle", "record"} /\ publisher[p].at # "idle"
        /\ On(p) \in Attempts /\ On(p) <= target.desired /\ Mine(p) /\ publisher[p].current
    BY DEF HostingInv, HostingType, OnlyRequested, SettleDeploy, Mine
  <1>2. UNCHANGED <<live, reclaimed, covered, held, resumer>>
    BY DEF SettleDeploy
  <1>3. PICK a \in Attempts : a = On(p) /\ a \in 0..Generations
    BY <1>1 DEF Attempts, HostingAssumption
  <1>4. PICK outcome \in DeployStates : outcome = publisher[p].outcome
    BY <1>1 DEF Calls
  <1>5. PICK d : d = [deploy[a] EXCEPT !.state = outcome]
    OBVIOUS
  <1>6. /\ d \in Deploys /\ d.state = outcome /\ d.started = deploy[a].started
        /\ deploy' = [deploy EXCEPT ![a] = d] /\ Wrote(p, NoCall) /\ JobAfter(p, outcome) /\ outbox' \subseteq outbox
    <2>1. deploy[a] \in Deploys
      BY <1>3 DEF HostingInv, HostingType
    <2>2. d \in Deploys /\ d.state = outcome /\ d.started = deploy[a].started
      BY <1>5, <2>1 DEF Deploys
    <2>3. deploy' = [deploy EXCEPT ![a] = d]
      BY <1>3, <1>4, <1>5 DEF SettleDeploy, HostingInv, HostingType
    <2>4. QED
      BY <1>4, <2>2, <2>3 DEF SettleDeploy
  <1>7. PICK lock \in [attempt : 0..Generations, token : Publishers \cup {"none"}] :
          target' = [Activated(a, outcome) EXCEPT !.lock = lock]
    <2>1. Unlocked \in [attempt : 0..Generations, token : Publishers \cup {"none"}]
      BY DEF Unlocked, HostingAssumption
    <2>2. Activated(a, outcome).lock \in [attempt : 0..Generations, token : Publishers \cup {"none"}]
      BY DEF Activated, HostingInv, HostingType, Targets
    <2>3. QED
      BY <1>3, <1>4, <2>1, <2>2 DEF SettleDeploy
  <1>8. /\ target' \in Targets /\ target'.desired = target.desired
        /\ target'.active = target.active \/ (outcome \in Confirmations /\ target'.active = a)
    <2>1. target \in Targets
      BY DEF HostingInv, HostingType
    <2>2. /\ Activated(a, outcome) \in Targets /\ Activated(a, outcome).desired = target.desired
          /\ \/ Activated(a, outcome).active = target.active
             \/ outcome \in Confirmations /\ Activated(a, outcome).active = a
      BY <1>3, <2>1 DEF Activated, Targets, Confirmations
    <2>3. QED
      BY <1>7, <2>2 DEF Targets
  <1>9. ASSUME ~reclaimed
        PROVE  /\ Fenced /\ CallOK(publisher[p])
               /\ outcome \in Confirmations => deploy[a].started /\ a <= live.generation
               /\ deploy[a].state \in Confirmations => outcome \in Confirmations \cup {"verifying"}
    <2>1. Fenced /\ CallOK(publisher[p])
      BY <1>9 DEF HostingInv, Fenced, CallsOK
    <2>2. outcome \in Confirmations => deploy[a].started /\ a <= live.generation
      BY <1>1, <1>3, <1>4, <2>1 DEF CallOK, On
    <2>3. ASSUME deploy[a].state \in Confirmations PROVE outcome \in Confirmations \cup {"verifying"}
      <3>1. publisher[p].at = "record"
        BY <1>1, <1>3, <2>1, <2>3 DEF CallOK, Executing, On
      <3>2. deploy[a].started
        BY <1>3, <2>1, <2>3 DEF Fenced, AttemptsOK
      <3>3. QED
        BY <1>1, <1>3, <1>4, <2>1, <3>1, <3>2 DEF CallOK, On
    <2>4. QED
      BY <2>1, <2>2, <2>3
  <1>10. NoCall \in Calls /\ NoCall.at = "idle" /\ NoCall.current = FALSE
    BY DEF NoCall, Calls, DeployStates, HostingAssumption
  <1>11. ASSUME ~reclaimed'
         PROVE  /\ \A q \in Publishers : q # p => publisher[q].at # "approved"
                /\ CallOK(NoCall)' /\ target'.active <= live.generation
                /\ d.state \in Confirmations => d.started
    <2>1. ~reclaimed
      BY <1>2, <1>11
    <2>2. \A q \in Publishers : q # p => publisher[q].at # "approved"
      BY <1>1, <2>1, NoRival
    <2>3. CallOK(NoCall)'
      BY <1>10 DEF CallOK, Executing, NoCall
    <2>4. target'.active <= live.generation
      BY <1>8, <1>9, <2>1 DEF Fenced
    <2>5. QED
      BY <1>6, <1>9, <2>1, <2>2, <2>3, <2>4
  <1>12. /\ deployJob' \in [Attempts -> JobStates]
         /\ \A b \in Attempts : deployJob'[b] # NoJob => deployJob[b] # NoJob \/ b = a
    BY <1>3, <1>6, JobsAre DEF JobAfter, HostingInv, HostingType
  <1>13. /\ a <= target.desired /\ (NoCall.at # "idle" => NoCall.on = a) /\ (deploy[a].started => d.started)
         /\ (reclaimed => reclaimed') /\ reclaimed' \in BOOLEAN /\ UNCHANGED <<live, covered, held, resumer>>
    BY <1>1, <1>2, <1>3, <1>6, <1>10 DEF HostingInv, HostingType
  <1>14. HostingInv'
    BY <1>3, <1>6, <1>8, <1>10, <1>11, <1>12, <1>13, WritesAttempt
  <1>15. ASSUME ~reclaimed PROVE MovesForward
    <2>1. live'.generation >= live.generation
      BY <1>2 DEF HostingInv, HostingType
    <2>2. \A b \in Attempts : deploy'[b].state = IF b = a THEN outcome ELSE deploy[b].state
      BY <1>6 DEF HostingInv, HostingType
    <2>3. QED
      BY <1>9, <1>15, <2>1, <2>2 DEF MovesForward, Confirmations
  <1>16. QED
    BY <1>14, <1>15

\* A lock left behind is given up: no call works on its attempt.
LEMMA Releasing ==
  ASSUME HostingAssumption, HostingInv, NEW a \in Attempts, ReleaseRecoveryLock(a)
  PROVE  HostingInv' /\ (~reclaimed => MovesForward)
  <1>1. /\ UNCHANGED <<deployJob, live, publisher, reclaimed, covered, held, resumer>>
        /\ deploy[a].state = "unknown" /\ target.lock.attempt = a /\ outbox' \subseteq outbox
        /\ \A p \in Publishers : On(p) # a
    BY DEF ReleaseRecoveryLock, calls
  <1>2. deploy[a] \in Deploys /\ target \in Targets
    BY DEF HostingInv, HostingType
  <1>3. PICK d : d = [deploy[a] EXCEPT !.state = "failed"]
    OBVIOUS
  <1>4. d \in Deploys /\ d.state = "failed" /\ d.started = deploy[a].started
    BY <1>2, <1>3 DEF Deploys, DeployStates, Over
  <1>5. /\ deploy' \in [Attempts -> Deploys] /\ deploy'[a] = d
        /\ \A b \in Attempts : b # a => deploy'[b] = deploy[b]
    BY <1>3, <1>4 DEF ReleaseRecoveryLock, HostingInv, HostingType
  <1>6. target' \in Targets /\ target'.desired = target.desired /\ target'.active = target.active
    BY <1>2 DEF ReleaseRecoveryLock, Targets, Unlocked, HostingAssumption
  <1>7. HostingType'
    BY <1>1, <1>5, <1>6 DEF HostingInv, HostingType
  <1>8. OnlyRequested'
    <2>1. \A b \in Attempts : deploy'[b].state # "none" \/ b \in outbox' \/ deployJob'[b] # NoJob => b <= target.desired
      BY <1>1, <1>5 DEF HostingInv, OnlyRequested
    <2>2. QED
      BY <1>1, <1>6, <2>1 DEF HostingInv, OnlyRequested, On
  <1>9. ASSUME ~reclaimed PROVE Fenced'
    <2>1. Fenced
      BY <1>9 DEF HostingInv
    <2>2. ASSUME NEW q \in Publishers PROVE CallOK(publisher[q])'
      <3>1. PICK c \in Calls : c = publisher[q] /\ CallOK(c) /\ c.on # a /\ c.at # "approved"
        BY <1>1, <2>1, <2>2 DEF Fenced, CallsOK, CallOK, On, HostingInv, HostingType
      <3>2. c.at # "idle" => deploy'[c.on] = deploy[c.on]
        BY <1>5, <3>1 DEF HostingInv, OnlyRequested, On
      <3>3. CallOK(c)'
        BY <1>1, <3>1, <3>2 DEF CallOK, Executing
      <3>4. QED
        BY <1>1, <3>1, <3>3 DEF CallOK, Executing
    <2>3. CallsOK' /\ OneExecutes'
      BY <1>1, <2>1, <2>2 DEF CallsOK, Fenced, OneExecutes, Executing, On
    <2>4. AttemptsOK'
      BY <1>1, <1>4, <1>5, <2>1 DEF Fenced, AttemptsOK, Confirmations
    <2>5. QED
      BY <1>1, <1>6, <2>1, <2>3, <2>4 DEF Fenced
  <1>10. MovesForward
    <2>1. live'.generation >= live.generation
      BY <1>1 DEF HostingInv, HostingType
    <2>2. QED
      BY <1>1, <1>5, <2>1 DEF MovesForward
  <1>11. QED
    BY <1>1, <1>7, <1>8, <1>9, <1>10 DEF HostingInv

\* A new attempt: nobody works on it and nothing was ever live under its generation.
LEMMA AcceptingIntent ==
  ASSUME HostingAssumption, HostingInv, NEW uses \in Subjects \cup {NoSubject}, NEW built \in BOOLEAN,
         Accept(uses, built)
  PROVE  HostingInv' /\ MovesForward
  <1>1. PICK a \in Attempts : a = target.desired + 1
    BY DEF Accept
  <1>2. UNCHANGED <<deployJob, live, publisher, reclaimed, covered, held, resumer>> /\ outbox' = outbox \cup {a}
    BY <1>1 DEF Accept, calls
  <1>3. /\ target \in Targets /\ target.desired \in Nat /\ a \in 0..Generations /\ a > target.desired
        /\ \A b \in Attempts : b <= target.desired => b <= a /\ b # a
    BY <1>1 DEF HostingInv, HostingType, Targets, Attempts, HostingAssumption
  <1>4. PICK d : d = [uses |-> uses, state |-> "queued", built |-> built, started |-> FALSE]
    OBVIOUS
  <1>5. d \in Deploys /\ d.state = "queued"
    BY <1>4 DEF Deploys, DeployStates
  <1>6. /\ deploy' \in [Attempts -> Deploys] /\ deploy'[a] = d
        /\ \A b \in Attempts : b # a => deploy'[b] = deploy[b]
    BY <1>1, <1>4, <1>5 DEF Accept, HostingInv, HostingType
  <1>7. target' \in Targets /\ target'.desired = a /\ target'.active = target.active /\ target'.lock = target.lock
    BY <1>1, <1>3 DEF Accept, Targets
  <1>8. HostingType'
    BY <1>2, <1>6, <1>7 DEF HostingInv, HostingType
  <1>9. live.generation \in Nat /\ live.generation <= target.desired /\ live.generation # a /\ live.generation <= a
    BY <1>1, <1>3 DEF HostingInv, HostingType, OnlyRequested
  <1>10. \A p \in Publishers : publisher[p].at # "idle" =>
           publisher[p].on \in Attempts /\ publisher[p].on <= a /\ publisher[p].on # a
    BY <1>3 DEF HostingInv, OnlyRequested, On
  <1>11. OnlyRequested'
    <2>1. \A b \in Attempts : deploy'[b].state # "none" \/ b \in outbox' \/ deployJob'[b] # NoJob => b <= a
      <3>1. a <= a
        BY <1>3
      <3>2. QED
        BY <1>2, <1>3, <1>6, <3>1 DEF HostingInv, OnlyRequested
    <2>2. QED
      BY <1>2, <1>7, <1>9, <1>10, <2>1 DEF OnlyRequested, On
  <1>12. ASSUME ~reclaimed PROVE Fenced'
    <2>1. Fenced
      BY <1>12 DEF HostingInv
    <2>2. ASSUME NEW q \in Publishers PROVE CallOK(publisher[q])'
      <3>1. PICK c \in Calls : c = publisher[q] /\ CallOK(c)
        BY <2>1, <2>2 DEF Fenced, CallsOK, HostingInv, HostingType
      <3>2. c.at # "idle" => deploy'[c.on] = deploy[c.on]
        BY <1>6, <1>10, <3>1
      <3>3. CallOK(c)'
        BY <1>2, <1>7, <3>1, <3>2 DEF CallOK, Executing
      <3>4. QED
        BY <1>2, <3>1, <3>3 DEF CallOK, Executing
    <2>3. CallsOK' /\ OneExecutes'
      BY <1>2, <2>1, <2>2 DEF CallsOK, Fenced, OneExecutes, Executing, On
    <2>4. AttemptsOK'
      BY <1>2, <1>5, <1>6, <1>9, <2>1 DEF Fenced, AttemptsOK, Confirmations
    <2>5. QED
      BY <1>2, <1>7, <2>1, <2>3, <2>4 DEF Fenced
  <1>13. MovesForward
    <2>1. live'.generation >= live.generation
      BY <1>2, <1>9
    <2>2. deploy[a].state = "none"
      BY <1>3 DEF HostingInv, OnlyRequested
    <2>3. QED
      BY <1>6, <2>1, <2>2 DEF MovesForward
  <1>14. QED
    BY <1>2, <1>8, <1>11, <1>12, <1>13 DEF HostingInv

\* The outbox and the job queue.
LEMMA Queueing ==
  ASSUME HostingAssumption, HostingInv, NEW a \in Attempts, Dispatch(a) \/ Acknowledge(a) \/ LoseDeployLease(a) \/ CancelDeploy(a) \/ RecoverDeploy(a)
  PROVE  HostingInv'
  <1>1. UNCHANGED <<target, deploy, live, publisher, reclaimed, covered, held, resumer>>
    BY DEF Dispatch, Acknowledge, LoseDeployLease, CancelDeploy, RecoverDeploy, calls
  <1>2. outbox' \subseteq outbox /\ (a \in outbox \/ deployJob[a] # NoJob)
    BY DEF Dispatch, Acknowledge, LoseDeployLease, CancelDeploy, RecoverDeploy, NoJob, HostingAssumption
  <1>3. /\ deployJob' \in [Attempts -> JobStates]
        /\ \A b \in Attempts : deployJob'[b] # NoJob => deployJob[b] # NoJob \/ b \in outbox
    <2>1. deployJob' = deployJob \/ \E job \in JobStates : deployJob' = [deployJob EXCEPT ![a] = job]
      BY JobsAre DEF Dispatch, Acknowledge, LoseDeployLease, CancelDeploy, RecoverDeploy, HostingInv
    <2>2. QED
      BY <1>2, <2>1 DEF HostingInv, HostingType
  <1>4. QED
    BY <1>1, <1>2, <1>3, Elsewhere DEF HostingInv, HostingType, OnlyRequested

\* Holds, the serving gate and resume.
LEMMA Serving ==
  ASSUME HostingAssumption, HostingInv,
         \/ \E s \in Subjects : PlaceHold(s) \/ LiftHold(s)
         \/ \E a \in Attempts : OpenResume(a)
         \/ ScanStep \/ Resumes \/ CrashServing
  PROVE  HostingInv' /\ UNCHANGED <<deploy, live>>
  <1>1. UNCHANGED <<deploy, live, outbox, deployJob, publisher, reclaimed>>
    BY DEF PlaceHold, LiftHold, OpenResume, ScanStep, ScanTarget, SuspendServing, RecordSuspended, Resumes,
           RecheckResume, OpenGate, RecordResumed, CrashServing, calls
  <1>2. /\ target' \in Targets /\ target'.desired = target.desired /\ target'.active = target.active
        /\ target'.lock = target.lock
    <2>1. target \in Targets
      BY DEF HostingInv, HostingType
    <2>2. CASE RecordSuspended
      BY <2>1, <2>2 DEF RecordSuspended, Targets
    <2>3. CASE RecordResumed
      <3>1. resumer.state \in {"unpublished", "active", "suspended"}
        BY <2>3 DEF RecordResumed, HostingInv, HostingType, ResumerOK
      <3>2. QED
        BY <2>1, <2>3, <3>1 DEF RecordResumed, Targets
    <2>4. CASE target' = target
      BY <2>1, <2>4
    <2>5. QED
      BY <2>2, <2>3, <2>4
      DEF PlaceHold, LiftHold, OpenResume, ScanStep, ScanTarget, SuspendServing, Resumes, RecheckResume, OpenGate,
          CrashServing
  <1>3. covered' \subseteq held'
    <2>1. covered \subseteq held
      BY DEF HostingInv, HostingType
    <2>2. ASSUME NEW s \in Subjects, PlaceHold(s) \/ LiftHold(s) PROVE covered' \subseteq held'
      BY <2>1, <2>2 DEF PlaceHold, LiftHold
    <2>3. CASE ScanTarget \/ RecordSuspended
      BY <2>1, <2>3 DEF ScanTarget, RecordSuspended
    <2>4. CASE UNCHANGED <<covered, held>>
      BY <2>1, <2>4
    <2>5. QED
      BY <2>2, <2>3, <2>4 DEF OpenResume, ScanStep, SuspendServing, Resumes, RecheckResume, OpenGate, RecordResumed, CrashServing
  <1>4. ResumerOK(resumer')
    <2>1. ResumerOK(resumer)
      BY DEF HostingInv, HostingType
    <2>2. ResumerOK([at |-> "idle", source |-> 0, state |-> "none"])
      BY DEF ResumerOK, HostingAssumption
    <2>3. ASSUME NEW a \in Attempts, OpenResume(a) PROVE ResumerOK(resumer')
      <3>1. PICK state \in {"active", "unpublished"} : resumer' = [at |-> "opened", source |-> a, state |-> state]
        BY <2>3 DEF OpenResume
      <3>2. a \in 0..Generations
        BY DEF Attempts, HostingAssumption
      <3>3. QED
        BY <3>1, <3>2 DEF ResumerOK
    <2>4. ASSUME NEW step \in {"checked", "opened_gate"}, resumer.at # "idle", resumer' = [resumer EXCEPT !.at = step]
          PROVE  ResumerOK(resumer')
      BY <2>1, <2>4 DEF ResumerOK
    <2>5. CASE resumer' = resumer
      BY <2>1, <2>5
    <2>6. QED
      BY <2>2, <2>3, <2>4, <2>5
      DEF PlaceHold, LiftHold, ScanStep, ScanTarget, SuspendServing, RecordSuspended, Resumes, RecheckResume, OpenGate,
          RecordResumed, CrashServing, calls
  <1>5. /\ outbox' \subseteq Attempts /\ deployJob' \in [Attempts -> JobStates]
        /\ \A a \in Attempts : a \in outbox' \/ deployJob'[a] # NoJob => a <= target.desired
    BY <1>1 DEF HostingInv, HostingType, OnlyRequested
  <1>6. QED
    BY <1>1, <1>2, <1>3, <1>4, <1>5, Elsewhere

\* Every step keeps the invariant and, unless a call claimed what it had read earlier, moves forward.
LEMMA HostingStep ==
  ASSUME HostingAssumption, HostingInv, [HostingNext]_hostingVars
  PROVE  HostingInv' /\ MovesForward
  <1>1. live.generation \in 0..Generations /\ reclaimed \in BOOLEAN
    BY DEF HostingInv, HostingType
  <1>2. ASSUME UNCHANGED <<deploy, live>> PROVE MovesForward
    BY <1>1, <1>2 DEF MovesForward, HostingAssumption
  <1>3. CASE UNCHANGED hostingVars
    <2>1. HostingInv'
      BY <1>3, Elsewhere DEF hostingVars, calls, HostingInv, HostingType, OnlyRequested
    <2>2. QED
      BY <1>2, <1>3, <2>1 DEF hostingVars
  <1>4. CASE Owner
    <2>1. ASSUME NEW s \in Subjects, PublishSite(s) PROVE HostingInv' /\ MovesForward
      BY <2>1, AcceptingIntent DEF PublishSite
    <2>2. CASE UnpublishSite
      BY <2>2, AcceptingIntent DEF UnpublishSite
    <2>3. ASSUME NEW a \in Attempts, RollbackSite(a) \/ RetrySite(a) PROVE HostingInv' /\ MovesForward
      <3>1. deploy[a].uses \in Subjects \cup {NoSubject} /\ deploy[a].built \in BOOLEAN
        BY DEF HostingInv, HostingType, Deploys
      <3>2. QED
        BY <2>3, <3>1, AcceptingIntent DEF RollbackSite, RetrySite
    <2>4. ASSUME NEW a \in Attempts, ReleaseRecoveryLock(a) PROVE HostingInv' /\ MovesForward
      <3>1. reclaimed' = reclaimed
        BY <2>4 DEF ReleaseRecoveryLock
      <3>2. QED
        BY <1>1, <2>4, <3>1, Releasing DEF MovesForward
    <2>5. ASSUME NEW a \in Attempts, OpenResume(a) PROVE HostingInv' /\ MovesForward
      BY <1>2, <2>5, Serving
    <2>6. ASSUME NEW p \in Publishers, NEW a \in Attempts, AskReconcile(p, a) \/ AskCancel(p, a)
          PROVE  HostingInv' /\ MovesForward
      BY <1>2, <2>6, Asking DEF AskReconcile, AskCancel
    <2>7. QED
      BY <1>4, <2>1, <2>2, <2>3, <2>4, <2>5, <2>6 DEF Owner
  <1>5. CASE ScanStep \/ Resumes \/ CrashServing \/ \E s \in Subjects : PlaceHold(s) \/ LiftHold(s)
    BY <1>2, <1>5, Serving
  <1>6. ASSUME NEW a \in Attempts, Dispatch(a) \/ Acknowledge(a) \/ LoseDeployLease(a) \/ CancelDeploy(a) \/ RecoverDeploy(a)
        PROVE  HostingInv' /\ MovesForward
    BY <1>2, <1>6, Queueing DEF Dispatch, Acknowledge, LoseDeployLease, CancelDeploy, RecoverDeploy
  <1>7. ASSUME NEW p \in Publishers, NEW a \in Attempts, LeaseDeploy(p, a) PROVE HostingInv' /\ MovesForward
    BY <1>2, <1>7, Asking DEF LeaseDeploy
  <1>8. ASSUME NEW p \in Publishers, Executes(p) \/ SwitchFails(p) \/ CrashPublisher(p)
        PROVE  HostingInv' /\ MovesForward
    <2>1. CASE ClaimDeploy(p) \/ ClaimReconcile(p) \/ ClaimCancel(p)
      BY <1>2, <2>1, Claiming DEF ClaimDeploy, ClaimReconcile, ClaimCancel
    <2>2. CASE PrepareRelease(p) \/ StartActivation(p) \/ ConfirmOutcome(p)
      <3>1. HostingInv' /\ (~reclaimed => deploy[On(p)].state \notin Confirmations)
        BY <2>2, Executed
      <3>2. /\ UNCHANGED <<live, reclaimed>>
            /\ \A a \in Attempts : a # On(p) => deploy'[a] = deploy[a]
        BY <2>2 DEF PrepareRelease, StartActivation, ConfirmOutcome, HostingInv, HostingType
      <3>3. MovesForward
        BY <1>1, <3>1, <3>2 DEF MovesForward, Confirmations, HostingAssumption
      <3>4. QED
        BY <3>1, <3>3
    <2>3. CASE ApproveActivation(p) \/ RefuseDeploy(p) \/ VerifyDeploy(p)
      BY <1>2, <2>3, Guarding DEF ApproveActivation, RefuseDeploy, VerifyDeploy
    <2>4. CASE SwitchPointer(p) \/ SwitchFails(p)
      <3>1. HostingInv' /\ (~reclaimed => live'.generation >= live.generation)
        BY <2>4, Switching
      <3>2. UNCHANGED <<deploy, reclaimed>>
        BY <2>4 DEF SwitchPointer, SwitchFails
      <3>3. QED
        BY <1>1, <3>1, <3>2 DEF MovesForward
    <2>5. CASE SettleDeploy(p)
      <3>1. reclaimed' = reclaimed
        BY <2>5 DEF SettleDeploy
      <3>2. QED
        BY <1>1, <2>5, <3>1, Settling DEF MovesForward
    <2>6. CASE OpenReconcile(p) \/ ObserveTarget(p) \/ LoseTarget(p) \/ CrashPublisher(p)
      BY <1>2, <2>6, Observing DEF OpenReconcile, ObserveTarget, LoseTarget, CrashPublisher
    <2>7. QED
      BY <1>8, <2>1, <2>2, <2>3, <2>4, <2>5, <2>6 DEF Executes
  <1>9. QED
    BY <1>3, <1>4, <1>5, <1>6, <1>7, <1>8 DEF HostingNext

LEMMA HostingIsFenced == ASSUME HostingAssumption PROVE HostingSpec => []HostingInv
  <1>1. HostingInit => HostingInv
    BY HostingStart
  <1>2. HostingInv /\ [HostingNext]_hostingVars => HostingInv'
    BY HostingStep
  <1>3. QED
    BY <1>1, <1>2, PTL DEF HostingSpec

THEOREM HostingTyped == ASSUME HostingAssumption PROVE HostingSpec => []HostingTypeOK
  <1>1. HostingInv => HostingTypeOK
    BY DEF HostingInv, HostingType, HostingTypeOK, Targets, Deploys, DeployStates, JobStates
  <1>2. QED
    BY <1>1, HostingIsFenced, PTL

\* The target has one writer: two calls are never both about to switch the pointer, and what is
\* recorded as active has been live (claim, owned, updateAttempt, finish).
THEOREM OneCallSwitches == ASSUME HostingAssumption PROVE HostingSpec => []OneWriter
  <1>1. HostingInv => OneWriter
    <2>1. SUFFICES ASSUME HostingInv, ~reclaimed PROVE OneWriter
      BY DEF OneWriter
    <2>2. ASSUME NEW p \in Publishers, NEW q \in Publishers,
                 publisher[p].at = "approved", publisher[q].at = "approved"
          PROVE  p = q
      <3>1. Fenced /\ CallOK(publisher[p]) /\ CallOK(publisher[q])
        BY <2>1 DEF HostingInv, Fenced, CallsOK
      <3>2. Executing(publisher[p]) /\ Executing(publisher[q]) /\ On(p) = On(q)
        BY <2>2, <3>1 DEF CallOK, Executing, On
      <3>3. QED
        BY <3>1, <3>2 DEF Fenced, OneExecutes
    <2>3. target.active <= live.generation
      BY <2>1 DEF HostingInv, Fenced
    <2>4. QED
      BY <2>2, <2>3 DEF OneWriter
  <1>2. QED
    BY <1>1, HostingIsFenced, PTL

\* The site never goes back to an older generation and a confirmed release is never recorded as
\* failed, superseded or cancelled (pointer, finish).
THEOREM SiteMovesForward == ASSUME HostingAssumption PROVE HostingSpec => ReleasesMoveForward
  <1>1. HostingInv /\ [HostingNext]_hostingVars => [MovesForward]_hostingVars
    BY HostingStep
  <1>2. QED
    BY <1>1, HostingIsFenced, PTL DEF HostingSpec, ReleasesMoveForward

-----------------------------------------------------------------------------
(* Publishing a website: what a hold names stays denied.                    *)

HoldAssumption == HostingAssumption /\ NoSubject \notin Subjects

\* A call on its way to record its attempt as active.
Hot(c) == c.current /\ (c.at \in {"approved", "switched", "verify"} \/ (c.at \in {"settle", "record"} /\ c.outcome \in Confirmations))

\* The active release shows the subject, or a call is on its way to make such a release active.
Leads(s) ==
  \/ target.active # 0 /\ deploy[target.active].uses = s
  \/ \E p \in Publishers : Hot(publisher[p]) /\ deploy[On(p)].uses = s

\* The subjects a scan has dealt with, or has closed the gate for.
Dealt == covered \cup {s \in scan.reads : scan.at = "gated"}
Resuming == resumer.at \in {"opened", "checked"}
Closed == gate.state = "suspended" /\ ~Resuming

CurrentOwns == \A p \in Publishers : publisher[p].current => publisher[p].at # "idle" /\ OwnsTarget(p)

\* A release about to be started has its files, or shows nothing.
Whole(a) == deploy[a].uses = NoSubject \/ deploy[a].built
WholeOK ==
  /\ \A p \in Publishers : publisher[p].at = "prepared" => Whole(On(p))
  /\ \A a \in Attempts : deploy[a].started => Whole(a)

GateOK ==
  /\ gate \in [state : {"active", "suspended"}, locked : BOOLEAN]
  /\ held \subseteq Subjects /\ scan \in [at : {"idle", "found", "gated"}, reads : SUBSET held]
  /\ Resuming => gate.locked
  /\ live.generation = 0 => live.disabled

ActiveOK == target.active # 0 => deploy[target.active].started
Denied == \A s \in Dealt : Leads(s) => Closed

HeldInv == HostingInv /\ CurrentOwns /\ WholeOK /\ GateOK /\ (reclaimed \/ (ActiveOK /\ Denied))

LEMMA HeldStart ==
  ASSUME HoldAssumption, HostingInit
  PROVE  HeldInv
  <1> USE DEF HoldAssumption, HostingInit
  <1>1. HostingInv
    BY HostingStart
  <1>2. \A p \in Publishers : publisher[p].current = FALSE /\ publisher[p].at = "idle"
    BY DEF NoCall
  <1>3. CurrentOwns
    BY <1>2 DEF CurrentOwns
  <1>4. WholeOK
    BY <1>2 DEF WholeOK, NoDeploy
  <1>5. GateOK
    BY DEF GateOK, Resuming
  <1>6. ActiveOK /\ Denied
    BY DEF ActiveOK, Denied, Dealt
  <1>7. QED
    BY <1>1, <1>3, <1>4, <1>5, <1>6 DEF HeldInv

\* What a step makes of a call: with a current copy it holds the lock, and it gets on its way
\* to make its release active only when nothing the release shows is held.
CallKept(q) ==
  /\ publisher'[q].current => publisher'[q].at # "idle" /\ OwnsTarget(q)'
  /\ Hot(publisher'[q]) => /\ publisher'[q].on = On(q) /\ publisher[q].at # "idle"
                           /\ Hot(publisher[q]) \/ Eligible(On(q))

LEMMA LoneCall ==
  ASSUME HostingInv, CurrentOwns, target' = target, NEW p \in Publishers, NEW new \in Calls, CallIs(p, new),
         new.current => new.at # "idle" /\ target.lock = [attempt |-> new.on, token |-> new.token],
         Hot(new) => new.on = On(p) /\ publisher[p].at # "idle" /\ (Hot(publisher[p]) \/ Eligible(On(p)))
  PROVE  \A q \in Publishers : CallKept(q)
  <1>1. \A q \in Publishers : publisher'[q] = IF q = p THEN new ELSE publisher[q]
    BY DEF CallIs, HostingInv, HostingType
  <1>2. ASSUME NEW q \in Publishers, q # p PROVE CallKept(q)
    <2>1. publisher'[q] = publisher[q] /\ (OwnsTarget(q) => OwnsTarget(q)')
      BY <1>1, <1>2 DEF OwnsTarget, On
    <2>2. publisher[q].current => publisher[q].at # "idle" /\ OwnsTarget(q)
      BY DEF CurrentOwns
    <2>3. QED
      BY <2>1, <2>2 DEF CallKept, Hot, On
  <1>3. CallKept(p)
    <2>1. publisher'[p] = new
      BY <1>1
    <2>2. new.current => OwnsTarget(p)'
      BY <2>1 DEF OwnsTarget, On
    <2>3. QED
      BY <2>1, <2>2 DEF CallKept
  <1>4. QED
    BY <1>2, <1>3

LEMMA WrittenCall ==
  ASSUME HostingInv, CurrentOwns, NEW p \in Publishers, NEW new \in Calls, Wrote(p, new),
         target'.lock = target.lock \/ target.lock = Unlocked \/ target.lock.attempt = On(p),
         new.current => new.at # "idle" /\ target'.lock = [attempt |-> new.on, token |-> new.token],
         Hot(new) => new.on = On(p) /\ publisher[p].at # "idle" /\ (Hot(publisher[p]) \/ Eligible(On(p)))
  PROVE  \A q \in Publishers : CallKept(q)
  <1>1. /\ publisher'[p] = new
        /\ \A q \in Publishers : q # p => publisher'[q] = IF On(q) = On(p) THEN [publisher[q] EXCEPT !.current = FALSE]
                                                         ELSE publisher[q]
    BY DEF Wrote
  <1>2. ASSUME NEW q \in Publishers, q # p, On(q) = On(p) PROVE CallKept(q)
    <2>1. publisher[q] \in Calls /\ publisher'[q] = [publisher[q] EXCEPT !.current = FALSE]
      BY <1>1, <1>2 DEF HostingInv, HostingType
    <2>2. publisher'[q].current = FALSE
      BY <2>1 DEF Calls
    <2>3. QED
      BY <2>2 DEF CallKept, Hot
  <1>3. ASSUME NEW q \in Publishers, q # p, On(q) # On(p) PROVE CallKept(q)
    <2>1. publisher'[q] = publisher[q]
      BY <1>1, <1>3
    <2>2. ASSUME publisher[q].current PROVE publisher[q].at # "idle" /\ OwnsTarget(q)'
      <3>1. publisher[q].at # "idle" /\ OwnsTarget(q)
        BY <2>2 DEF CurrentOwns
      <3>2. On(q) \in Attempts /\ target.lock.attempt = On(q)
        BY <3>1 DEF HostingInv, OnlyRequested, OwnsTarget
      <3>3. target'.lock = target.lock
        BY <1>3, <3>2 DEF Unlocked, Attempts
      <3>4. QED
        BY <2>1, <3>1, <3>3 DEF OwnsTarget, On
    <2>3. QED
      BY <2>1, <2>2 DEF CallKept, Hot, On
  <1>4. CallKept(p)
    <2>1. new.current => OwnsTarget(p)'
      BY <1>1 DEF OwnsTarget, On
    <2>2. QED
      BY <1>1, <2>1 DEF CallKept
  <1>5. QED
    BY <1>2, <1>3, <1>4

\* What a call becomes when it leaves or its attempt is settled.
LEMMA EndedCall ==
  ASSUME HostingAssumption
  PROVE  NoCall \in Calls /\ NoCall.at = "idle" /\ NoCall.current = FALSE /\ ~Hot(NoCall)
  BY DEF NoCall, Calls, DeployStates, HostingAssumption, Hot

\* The steps of calls, as WritersLead uses them.
CallStep(p) ==
  \/ Executes(p) \/ SwitchFails(p) \/ CrashPublisher(p)
  \/ \E a \in Attempts : LeaseDeploy(p, a) \/ AskReconcile(p, a) \/ AskCancel(p, a)

LEMMA AskingKept ==
  ASSUME HostingAssumption, HostingInv, CurrentOwns, NEW p \in Publishers, NEW a \in Attempts,
         LeaseDeploy(p, a) \/ AskReconcile(p, a) \/ AskCancel(p, a)
  PROVE  \A q \in Publishers : CallKept(q)
  <1>1. target' = target
    BY DEF LeaseDeploy, AskReconcile, AskCancel
  <1>2. CASE publisher' = publisher
    <2>1. publisher[p] \in Calls /\ CallIs(p, publisher[p])
      BY <1>2 DEF HostingInv, HostingType, CallIs
    <2>2. publisher[p].current => publisher[p].at # "idle" /\ target.lock = [attempt |-> publisher[p].on, token |-> publisher[p].token]
      BY DEF CurrentOwns, OwnsTarget, On
    <2>3. Hot(publisher[p]) => publisher[p].on = On(p) /\ publisher[p].at # "idle" /\ (Hot(publisher[p]) \/ Eligible(On(p)))
      BY <2>2 DEF Hot, On
    <2>4. QED
      BY <1>1, <2>1, <2>2, <2>3, LoneCall
  <1>3. CASE publisher' # publisher
    <2>1. PICK step \in {"claim", "reconcile", "cancel"} : \/ CallIs(p, [NoCall EXCEPT !.on = a, !.at = step])
                                                          \/ CallIs(p, [NoCall EXCEPT !.at = step, !.on = a])
      <3>1. CASE LeaseDeploy(p, a)
        <4>1. PICK step \in {"claim", "reconcile"} : CallIs(p, [NoCall EXCEPT !.on = a, !.at = step])
          BY <1>3, <3>1 DEF LeaseDeploy, CallIs
        <4>2. QED
          BY <4>1
      <3>2. CASE AskReconcile(p, a) \/ AskCancel(p, a)
        BY <3>2 DEF AskReconcile, AskCancel, CallIs
      <3>3. QED
        BY <3>1, <3>2
    <2>2. a \in 0..Generations
      BY DEF Attempts, HostingAssumption
    <2>3. PICK new \in Calls : CallIs(p, new) /\ new.current = FALSE
      <3>1. CASE CallIs(p, [NoCall EXCEPT !.on = a, !.at = step])
        <4>1. PICK new : new = [NoCall EXCEPT !.on = a, !.at = step]
          OBVIOUS
        <4>2. new \in Calls /\ new.current = FALSE
          BY <2>2, <4>1, EndedCall DEF Calls
        <4>3. QED
          BY <3>1, <4>1, <4>2
      <3>2. CASE CallIs(p, [NoCall EXCEPT !.at = step, !.on = a])
        <4>1. PICK new : new = [NoCall EXCEPT !.at = step, !.on = a]
          OBVIOUS
        <4>2. new \in Calls /\ new.current = FALSE
          BY <2>2, <4>1, EndedCall DEF Calls
        <4>3. QED
          BY <3>2, <4>1, <4>2
      <3>3. QED
        BY <2>1, <3>1, <3>2
    <2>4. ~Hot(new)
      BY <2>3 DEF Hot
    <2>5. QED
      BY <1>1, <2>3, <2>4, LoneCall
  <1>4. QED
    BY <1>2, <1>3

\* A call leaves.
LEMMA LeavingKept ==
  ASSUME HostingAssumption, HostingInv, CurrentOwns, NEW p \in Publishers, target' = target, CallIs(p, NoCall)
  PROVE  \A q \in Publishers : CallKept(q)
  BY EndedCall, LoneCall

\* A call goes on without writing.
LEMMA GuardingKept ==
  ASSUME HostingAssumption, HostingInv, CurrentOwns, NEW p \in Publishers,
         \/ ApproveActivation(p) \/ RefuseDeploy(p) \/ SwitchPointer(p) \/ SwitchFails(p)
         \/ VerifyDeploy(p) \/ ObserveTarget(p) \/ OpenReconcile(p) \/ LoseTarget(p) \/ CrashPublisher(p)
  PROVE  \A q \in Publishers : CallKept(q)
  <1>1. /\ target' = target /\ publisher[p] \in Calls /\ publisher[p].at # "idle" /\ publisher[p].outcome \in DeployStates
    BY DEF ApproveActivation, RefuseDeploy, SwitchPointer, SwitchFails, VerifyDeploy, ObserveTarget, OpenReconcile,
           LoseTarget, CrashPublisher, HostingInv, HostingType, Calls
  <1>2. publisher[p].current => target.lock = [attempt |-> On(p), token |-> publisher[p].token]
    BY DEF CurrentOwns, OwnsTarget
  <1>3. ASSUME NEW step \in {"take", "approved", "switched", "settle", "record"}, NEW outcome \in DeployStates,
               \/ GoesTo(p, step, outcome)
               \/ MoveTo(p, step) /\ outcome = publisher[p].outcome,
               (step \in {"approved", "switched"} \/ (step \in {"settle", "record"} /\ outcome \in Confirmations)) =>
                 (publisher[p].current => Hot(publisher[p])) \/ Eligible(On(p))
        PROVE  \A q \in Publishers : CallKept(q)
    <2>1. PICK new \in Calls : /\ CallIs(p, new)
                               /\ new.at = step /\ new.outcome = outcome /\ new.token = publisher[p].token
                               /\ new.on = On(p) /\ new.current = publisher[p].current
      BY <1>3, NextStep
    <2>2. new.current => new.at # "idle" /\ target.lock = [attempt |-> new.on, token |-> new.token]
      BY <1>2, <2>1
    <2>3. Hot(new) => new.on = On(p) /\ publisher[p].at # "idle" /\ (Hot(publisher[p]) \/ Eligible(On(p)))
      BY <1>1, <1>3, <2>1 DEF Hot
    <2>4. QED
      BY <1>1, <2>1, <2>2, <2>3, LoneCall
  <1>4. CASE \E state : LeaveCall(p, state)
    BY <1>1, <1>4, LeavingKept DEF LeaveCall, CallIs
  <1>5. CASE ApproveActivation(p)
    BY <1>1, <1>3, <1>5 DEF ApproveActivation, Passes
  <1>6. CASE \E outcome \in {"superseded", "failed", "unknown"} : FailsAs(p, outcome)
    <2>1. PICK outcome \in {"superseded", "failed", "unknown"} : GoesTo(p, "settle", outcome)
      BY <1>6 DEF FailsAs, GoesTo
    <2>2. outcome \in DeployStates /\ outcome \notin Confirmations
      BY DEF DeployStates, Over, Confirmations
    <2>3. QED
      BY <1>3, <2>1, <2>2
  <1>7. CASE SwitchPointer(p)
    <2>1. publisher[p].current => Hot(publisher[p])
      BY <1>7 DEF SwitchPointer, Hot
    <2>2. QED
      BY <1>1, <1>3, <1>7, <2>1 DEF SwitchPointer
  <1>8. CASE VerifyDeploy(p) /\ Probe(p, "settle")
    <2>1. PICK outcome \in Confirmations \cup {"verifying"} : GoesTo(p, "settle", outcome)
      BY <1>8 DEF Probe, Confirmed, Confirmations, GoesTo
    <2>2. outcome \in DeployStates
      BY DEF DeployStates, Confirmations, Over
    <2>3. publisher[p].current => Hot(publisher[p])
      BY <1>8 DEF VerifyDeploy, Hot
    <2>4. QED
      BY <1>3, <2>1, <2>2, <2>3
  <1>9. CASE Eligible(On(p)) /\ Probe(p, "record")
    <2>1. PICK outcome \in Confirmations \cup {"verifying"} : GoesTo(p, "record", outcome)
      BY <1>9 DEF Probe, Confirmed, Confirmations, GoesTo
    <2>2. outcome \in DeployStates
      BY DEF DeployStates, Confirmations, Over
    <2>3. QED
      BY <1>3, <1>9, <2>1, <2>2
  <1>10. CASE MoveTo(p, "take")
    BY <1>1, <1>3, <1>10
  <1>11. CASE /\ target.lock.attempt = On(p)
              /\ publisher' = [publisher EXCEPT ![p] = [@ EXCEPT !.at = "observe", !.token = target.lock.token, !.current = TRUE]]
    <2>1. PICK new : new = [publisher[p] EXCEPT !.at = "observe", !.token = target.lock.token, !.current = TRUE]
      OBVIOUS
    <2>2. target.lock \in [attempt : 0..Generations, token : Publishers \cup {"none"}]
      BY DEF HostingInv, HostingType, Targets
    <2>3. /\ new \in Calls /\ new.at = "observe" /\ new.on = On(p) /\ new.token = target.lock.token
      BY <1>1, <2>1, <2>2 DEF Calls, On
    <2>4. CallIs(p, new) /\ ~Hot(new)
      BY <1>11, <2>1, <2>3 DEF CallIs, Hot
    <2>5. target.lock = [attempt |-> new.on, token |-> new.token] /\ new.at # "idle"
      BY <1>11, <2>2, <2>3
    <2>6. QED
      BY <1>1, <2>3, <2>4, <2>5, LoneCall
  <1>12. QED
    BY <1>4, <1>5, <1>6, <1>7, <1>8, <1>9, <1>10, <1>11
    DEF RefuseDeploy, SwitchFails, VerifyDeploy, ObserveTarget, OpenReconcile, LoseTarget, CrashPublisher

\* A call writes the target or its attempt.
LEMMA WritingKept ==
  ASSUME HostingAssumption, HostingInv, CurrentOwns, NEW p \in Publishers,
         \/ ClaimDeploy(p) \/ ClaimReconcile(p) \/ ClaimCancel(p)
         \/ PrepareRelease(p) \/ StartActivation(p) \/ ConfirmOutcome(p) \/ SettleDeploy(p)
  PROVE  \A q \in Publishers : CallKept(q)
  <1>1. publisher[p] \in Calls /\ publisher[p].at # "idle" /\ On(p) \in 0..Generations
    BY DEF ClaimDeploy, ClaimReconcile, ClaimCancel, PrepareRelease, StartActivation, ConfirmOutcome, SettleDeploy,
           HostingInv, HostingType, OnlyRequested, Attempts, HostingAssumption
  <1>2. CASE LeaveCall(p, "busy") /\ target' = target
    BY <1>2, LeavingKept DEF LeaveCall, CallIs
  <1>3. ASSUME NEW step \in {"owned", "observe", "record"}, NEW outcome \in {"none", "cancelled"}, ClaimTarget(p, step, outcome)
        PROVE  \A q \in Publishers : CallKept(q)
    <2>1. PICK new : new = [at |-> step, on |-> On(p), token |-> p, current |-> TRUE, outcome |-> outcome]
      OBVIOUS
    <2>2. /\ new \in Calls /\ new.at # "idle" /\ Wrote(p, new) /\ new.on = On(p) /\ new.token = p
          /\ new.at = step /\ new.outcome = outcome
      BY <1>1, <1>3, <2>1 DEF Calls, DeployStates, Over, ClaimTarget
    <2>3. ~Hot(new)
      BY <2>2 DEF Hot, Confirmations
    <2>4. target'.lock = [attempt |-> new.on, token |-> new.token]
      BY <1>3, <2>2 DEF ClaimTarget, HostingInv, HostingType, Targets
    <2>5. target.lock = Unlocked \/ target.lock.attempt = On(p)
      BY <1>3 DEF ClaimTarget, Claimable
    <2>6. QED
      BY <2>2, <2>3, <2>4, <2>5, WrittenCall
  <1>4. ASSUME NEW step \in {"prepared", "activating", "verify"}, Wrote(p, [publisher[p] EXCEPT !.at = step]),
               target' = target, step = "verify" => publisher[p].at = "switched"
        PROVE  \A q \in Publishers : CallKept(q)
    <2>1. PICK new : new = [publisher[p] EXCEPT !.at = step]
      OBVIOUS
    <2>2. /\ new \in Calls /\ new.at = step /\ new.on = On(p) /\ new.token = publisher[p].token
          /\ new.current = publisher[p].current /\ Wrote(p, new)
      BY <1>1, <1>4, <2>1 DEF Calls, On
    <2>3. new.current => new.at # "idle" /\ target'.lock = [attempt |-> new.on, token |-> new.token]
      BY <1>4, <2>2 DEF CurrentOwns, OwnsTarget
    <2>4. Hot(new) => new.on = On(p) /\ publisher[p].at # "idle" /\ (Hot(publisher[p]) \/ Eligible(On(p)))
      BY <1>1, <1>4, <2>2 DEF Hot
    <2>5. QED
      BY <1>4, <2>2, <2>3, <2>4, WrittenCall
  <1>5. CASE SettleDeploy(p)
    <2>1. Wrote(p, NoCall) /\ target.lock.attempt = On(p)
      BY <1>5 DEF SettleDeploy, Mine, OwnsTarget
    <2>2. QED
      BY <2>1, EndedCall, WrittenCall
  <1>6. QED
    BY <1>2, <1>3, <1>4, <1>5 DEF ClaimDeploy, ClaimReconcile, ClaimCancel, PrepareRelease, StartActivation, ConfirmOutcome

LEMMA CallsKept ==
  ASSUME HostingAssumption, HostingInv, CurrentOwns, NEW p \in Publishers, CallStep(p)
  PROVE  \A q \in Publishers : CallKept(q)
  BY AskingKept, GuardingKept, WritingKept DEF CallStep, Executes

\* Steps of the owner and of the job queue that are no step of a call.
QueueStep ==
  \/ \E s \in Subjects : PublishSite(s)
  \/ UnpublishSite
  \/ \E a \in Attempts : RollbackSite(a) \/ RetrySite(a) \/ ReleaseRecoveryLock(a)
  \/ \E a \in Attempts : Dispatch(a) \/ Acknowledge(a) \/ LoseDeployLease(a) \/ CancelDeploy(a) \/ RecoverDeploy(a)

LEMMA QueueKept ==
  ASSUME HostingAssumption, HostingInv, CurrentOwns, QueueStep
  PROVE  /\ publisher' = publisher /\ target'.active = target.active
         /\ \A q \in Publishers : CallKept(q)
  <1>1. publisher' = publisher
    BY DEF QueueStep, PublishSite, UnpublishSite, RollbackSite, RetrySite, Accept, ReleaseRecoveryLock, Dispatch,
           Acknowledge, LoseDeployLease, CancelDeploy, RecoverDeploy, calls
  <1>2. target \in Targets
    BY DEF HostingInv, HostingType
  <1>3. target'.active = target.active
    BY <1>2
    DEF QueueStep, PublishSite, UnpublishSite, RollbackSite, RetrySite, Accept, ReleaseRecoveryLock, Dispatch,
        Acknowledge, LoseDeployLease, CancelDeploy, RecoverDeploy, calls, Targets
  <1>4. target'.lock = target.lock \/ \A q \in Publishers : On(q) # target.lock.attempt
    BY <1>2
    DEF QueueStep, PublishSite, UnpublishSite, RollbackSite, RetrySite, Accept, ReleaseRecoveryLock, Dispatch,
        Acknowledge, LoseDeployLease, CancelDeploy, RecoverDeploy, calls, Targets
  <1>5. ASSUME NEW q \in Publishers PROVE CallKept(q)
    <2>1. publisher[q].current => publisher[q].at # "idle" /\ OwnsTarget(q)
      BY DEF CurrentOwns
    <2>2. publisher[q].current => target'.lock = target.lock
      BY <1>4, <2>1 DEF OwnsTarget
    <2>3. publisher[q].current => OwnsTarget(q)'
      BY <1>1, <2>1, <2>2 DEF OwnsTarget, On
    <2>4. QED
      BY <1>1, <2>1, <2>3 DEF CallKept, Hot, On
  <1>6. QED
    BY <1>1, <1>3, <1>5

\* Of an attempt that was requested what it shows stays, and what it has.
DeployKept(b) ==
  /\ deploy'[b].uses = deploy[b].uses
  /\ deploy[b].built => deploy'[b].built
  /\ deploy[b].started => deploy'[b].started

LEMMA DeploysKept ==
  ASSUME HostingAssumption, HostingInv, HostingNext
  PROVE  \A b \in Attempts : b <= target.desired => DeployKept(b)
  <1>1. SUFFICES ASSUME NEW b \in Attempts, b <= target.desired PROVE DeployKept(b)
    OBVIOUS
  <1>2. deploy[b] \in Deploys /\ deploy \in [Attempts -> Deploys] /\ b # target.desired + 1
    BY <1>1 DEF HostingInv, HostingType, Targets, Attempts
  <1>3. ASSUME NEW uses, NEW built, Accept(uses, built) PROVE DeployKept(b)
    <2>1. deploy'[b] = deploy[b]
      BY <1>2, <1>3 DEF Accept
    <2>2. QED
      BY <2>1 DEF DeployKept
  <1>4. ASSUME NEW a \in Attempts, ReleaseRecoveryLock(a) PROVE DeployKept(b)
    BY <1>2, <1>4 DEF ReleaseRecoveryLock, DeployKept, Deploys
  <1>5. ASSUME NEW p \in Publishers, PrepareRelease(p) \/ StartActivation(p) \/ ConfirmOutcome(p) \/ SettleDeploy(p)
        PROVE  DeployKept(b)
    <2>1. CASE PrepareRelease(p)
      BY <1>2, <2>1 DEF PrepareRelease, DeployKept, Deploys
    <2>2. CASE StartActivation(p)
      BY <1>2, <2>2 DEF StartActivation, DeployKept, Deploys
    <2>3. CASE ConfirmOutcome(p)
      BY <1>2, <2>3 DEF ConfirmOutcome, DeployKept, Deploys
    <2>4. CASE SettleDeploy(p)
      BY <1>2, <2>4 DEF SettleDeploy, DeployKept, Deploys
    <2>5. QED
      BY <1>5, <2>1, <2>2, <2>3, <2>4
  <1>6. CASE deploy' = deploy
    BY <1>6 DEF DeployKept
  <1>7. CASE Owner
    <2>1. CASE \E p \in Publishers, a \in Attempts : AskReconcile(p, a) \/ AskCancel(p, a)
      BY <1>6, <2>1 DEF AskReconcile, AskCancel
    <2>2. CASE \E a \in Attempts : OpenResume(a)
      BY <1>6, <2>2 DEF OpenResume
    <2>3. QED
      BY <1>3, <1>4, <1>7, <2>1, <2>2 DEF Owner, PublishSite, UnpublishSite, RollbackSite, RetrySite
  <1>8. CASE ScanStep \/ Resumes \/ CrashServing \/ \E s \in Subjects : PlaceHold(s) \/ LiftHold(s)
    BY <1>6, <1>8, Serving
  <1>9. CASE \E a \in Attempts : Dispatch(a) \/ Acknowledge(a) \/ LoseDeployLease(a) \/ CancelDeploy(a) \/ RecoverDeploy(a)
    BY <1>6, <1>9 DEF Dispatch, Acknowledge, LoseDeployLease, CancelDeploy, RecoverDeploy
  <1>10. CASE \E p \in Publishers, a \in Attempts : LeaseDeploy(p, a)
    BY <1>6, <1>10 DEF LeaseDeploy
  <1>11. ASSUME NEW p \in Publishers, Executes(p) \/ SwitchFails(p) \/ CrashPublisher(p) PROVE DeployKept(b)
    BY <1>5, <1>6, <1>11
    DEF Executes, ClaimDeploy, ApproveActivation, RefuseDeploy, SwitchPointer, VerifyDeploy, LoseTarget, OpenReconcile,
        ClaimReconcile, ObserveTarget, ClaimCancel, SwitchFails, CrashPublisher
  <1>12. QED
    BY <1>7, <1>8, <1>9, <1>10, <1>11 DEF HostingNext

\* A call comes to the prepared files only by preparing them.
LEMMA PreparedBy ==
  ASSUME HostingAssumption, HostingInv, NEW p \in Publishers, CallStep(p), NEW q \in Publishers,
         publisher'[q].at = "prepared"
  PROVE  publisher'[q].on = On(q) /\ (publisher[q].at = "prepared" \/ (q = p /\ PrepareRelease(p)))
  <1>1. publisher \in [Publishers -> Calls] /\ publisher[q] \in Calls /\ publisher[p] \in Calls
    BY DEF HostingInv, HostingType
  <1>2. CASE publisher'[q] = publisher[q]
    BY <1>2 DEF On
  <1>3. ASSUME NEW new, Wrote(p, new), new.at = "prepared" => new.on = On(p) /\ PrepareRelease(p)
        PROVE  publisher'[q].on = On(q) /\ (publisher[q].at = "prepared" \/ (q = p /\ PrepareRelease(p)))
    <2>1. CASE q = p
      BY <1>3, <2>1 DEF Wrote
    <2>2. CASE q # p
      <3>1. publisher'[q] \in {publisher[q], [publisher[q] EXCEPT !.current = FALSE]}
        BY <1>3, <2>2 DEF Wrote
      <3>2. publisher'[q].at = publisher[q].at /\ publisher'[q].on = publisher[q].on
        BY <1>1, <3>1 DEF Calls
      <3>3. QED
        BY <3>2 DEF On
    <2>3. QED
      BY <2>1, <2>2
  <1>4. NoCall.at # "prepared"
    BY DEF NoCall
  <1>5. CASE PrepareRelease(p)
    <2>1. PICK new : new = [publisher[p] EXCEPT !.at = "prepared"]
      OBVIOUS
    <2>2. Wrote(p, new) /\ new.on = On(p)
      BY <1>1, <1>5, <2>1 DEF PrepareRelease, Calls, On
    <2>3. QED
      BY <1>3, <1>5, <2>2
  <1>6. ASSUME NEW step \in {"activating", "verify"}, Wrote(p, [publisher[p] EXCEPT !.at = step])
        PROVE  publisher'[q].on = On(q) /\ (publisher[q].at = "prepared" \/ (q = p /\ PrepareRelease(p)))
    <2>1. PICK new : new = [publisher[p] EXCEPT !.at = step]
      OBVIOUS
    <2>2. Wrote(p, new) /\ new.at # "prepared"
      BY <1>1, <1>6, <2>1 DEF Calls
    <2>3. QED
      BY <1>3, <2>2
  <1>7. ASSUME NEW step \in {"owned", "observe", "record"}, NEW outcome, ClaimTarget(p, step, outcome)
        PROVE  publisher'[q].on = On(q) /\ (publisher[q].at = "prepared" \/ (q = p /\ PrepareRelease(p)))
    <2>1. PICK new : new = [at |-> step, on |-> On(p), token |-> p, current |-> TRUE, outcome |-> outcome]
      OBVIOUS
    <2>2. Wrote(p, new) /\ new.at # "prepared"
      BY <1>7, <2>1 DEF ClaimTarget
    <2>3. QED
      BY <1>3, <2>2
  <1>8. CASE SettleDeploy(p)
    BY <1>3, <1>4, <1>8 DEF SettleDeploy
  <1>9. ASSUME NEW new, CallIs(p, new), new.at # "prepared"
        PROVE  publisher'[q].on = On(q) /\ (publisher[q].at = "prepared" \/ (q = p /\ PrepareRelease(p)))
    BY <1>1, <1>9 DEF CallIs, On
  <1>10. CASE \E state : LeaveCall(p, state)
    BY <1>4, <1>9, <1>10 DEF LeaveCall, CallIs
  <1>11. ASSUME NEW step \in {"take", "approved", "switched", "settle", "record"},
                \/ MoveTo(p, step)
                \/ \E outcome : GoesTo(p, step, outcome)
         PROVE  publisher'[q].on = On(q) /\ (publisher[q].at = "prepared" \/ (q = p /\ PrepareRelease(p)))
    <2>1. publisher'[q] = publisher[q] \/ (q = p /\ publisher'[q].at = step)
      BY <1>1, <1>11 DEF MoveTo, GoesTo, Calls
    <2>2. QED
      BY <1>2, <2>1
  <1>12. CASE OpenReconcile(p)
    <2>1. CASE publisher' = [publisher EXCEPT ![p] = [@ EXCEPT !.at = "observe", !.token = target.lock.token, !.current = TRUE]]
      <3>1. publisher'[q] = publisher[q] \/ (q = p /\ publisher'[q].at = "observe")
        BY <1>1, <2>1 DEF Calls
      <3>2. QED
        BY <1>2, <3>1
    <2>2. QED
      BY <1>10, <1>11, <1>12, <2>1 DEF OpenReconcile
  <1>13. CASE \E a \in Attempts : LeaseDeploy(p, a) \/ AskReconcile(p, a) \/ AskCancel(p, a)
    <2>1. PICK a \in Attempts : LeaseDeploy(p, a) \/ AskReconcile(p, a) \/ AskCancel(p, a)
      BY <1>13
    <2>2. \/ publisher' = publisher
          \/ \E step \in {"claim", "reconcile", "cancel"} :
               CallIs(p, [NoCall EXCEPT !.on = a, !.at = step]) \/ CallIs(p, [NoCall EXCEPT !.at = step, !.on = a])
      BY <2>1 DEF LeaseDeploy, AskReconcile, AskCancel, CallIs
    <2>3. ASSUME NEW step \in {"claim", "reconcile", "cancel"}
          PROVE  [NoCall EXCEPT !.on = a, !.at = step].at # "prepared" /\ [NoCall EXCEPT !.at = step, !.on = a].at # "prepared"
      BY DEF NoCall
    <2>4. QED
      BY <1>2, <1>9, <2>2, <2>3
  <1>14. CASE RefuseDeploy(p) \/ SwitchFails(p) \/ VerifyDeploy(p) \/ ObserveTarget(p)
    BY <1>10, <1>11, <1>14 DEF RefuseDeploy, SwitchFails, VerifyDeploy, ObserveTarget, FailsAs, Probe, GoesTo
  <1>15. CASE \/ ClaimDeploy(p) \/ ClaimReconcile(p) \/ ClaimCancel(p) \/ StartActivation(p) \/ ConfirmOutcome(p)
              \/ ApproveActivation(p) \/ SwitchPointer(p) \/ LoseTarget(p) \/ CrashPublisher(p)
    BY <1>6, <1>7, <1>10, <1>11, <1>15
    DEF ClaimDeploy, ClaimReconcile, ClaimCancel, StartActivation, ConfirmOutcome, ApproveActivation, SwitchPointer,
        LoseTarget, CrashPublisher
  <1>16. QED
    BY <1>5, <1>8, <1>12, <1>13, <1>14, <1>15 DEF CallStep, Executes

\* A release that is started has its files.
LEMMA WholeKept ==
  ASSUME HoldAssumption, HostingInv, WholeOK, HostingNext,
         QueueStep \/ (\E p \in Publishers : CallStep(p)) \/ UNCHANGED <<deploy, publisher>>
  PROVE  WholeOK'
  <1>1. \A b \in Attempts : b <= target.desired => DeployKept(b)
    BY DeploysKept DEF HoldAssumption
  <1>2. \A b \in Attempts : b <= target.desired /\ Whole(b) => Whole(b)'
    BY <1>1 DEF Whole, DeployKept
  <1>3. \A q \in Publishers : publisher[q].at # "idle" => On(q) \in Attempts /\ On(q) <= target.desired
    BY DEF HostingInv, OnlyRequested
  <1>4. deploy \in [Attempts -> Deploys]
    BY DEF HostingInv, HostingType
  <1>5. ASSUME NEW q \in Publishers, publisher'[q].at = "prepared" PROVE Whole(On(q))'
    <2>1. CASE publisher' = publisher
      <3>1. Whole(On(q)) /\ On(q) \in Attempts /\ On(q) <= target.desired
        BY <1>3, <1>5, <2>1 DEF WholeOK
      <3>2. Whole(On(q))'
        BY <1>2, <2>1, <3>1 DEF Whole, On
      <3>3. QED
        BY <3>2
    <2>2. ASSUME NEW p \in Publishers, CallStep(p) PROVE Whole(On(q))'
      <3>1. publisher'[q].on = On(q) /\ (publisher[q].at = "prepared" \/ (q = p /\ PrepareRelease(p)))
        BY <1>5, <2>2, PreparedBy DEF HoldAssumption
      <3>2. PICK b : b = On(q) /\ b = publisher'[q].on
        BY <3>1
      <3>3. CASE publisher[q].at = "prepared"
        <4>1. Whole(b) /\ b \in Attempts /\ b <= target.desired
          BY <1>3, <3>2, <3>3 DEF WholeOK
        <4>2. QED
          BY <1>2, <3>2, <4>1 DEF Whole, On
      <3>4. CASE q = p /\ PrepareRelease(p)
        <4>1. b \in Attempts /\ deploy[b] \in Deploys
          BY <1>3, <1>4, <3>2, <3>4 DEF PrepareRelease
        <4>2. deploy'[b].uses = NoSubject \/ deploy'[b].built
          BY <1>4, <3>2, <3>4, <4>1 DEF PrepareRelease, Deploys
        <4>3. QED
          BY <3>2, <4>2 DEF Whole, On
      <3>5. QED
        BY <3>1, <3>3, <3>4
    <2>3. QED
      BY <2>1, <2>2
      DEF QueueStep, PublishSite, UnpublishSite, RollbackSite, RetrySite, Accept, ReleaseRecoveryLock, Dispatch,
          Acknowledge, LoseDeployLease, CancelDeploy, RecoverDeploy, calls
  <1>6. ASSUME NEW a \in Attempts, deploy'[a].started PROVE Whole(a)'
    <2>1. deploy[a] \in Deploys
      BY <1>4
    <2>2. CASE /\ deploy'[a].started = deploy[a].started /\ deploy'[a].uses = deploy[a].uses
               /\ deploy[a].built => deploy'[a].built
      BY <1>6, <2>2 DEF WholeOK, Whole
    <2>3. ASSUME NEW uses, NEW built, Accept(uses, built) PROVE Whole(a)'
      <3>1. deploy'[a] = deploy[a] \/ deploy'[a].started = FALSE
        BY <1>4, <2>3 DEF Accept
      <3>2. QED
        BY <1>6, <2>2, <3>1
    <2>4. ASSUME NEW b \in Attempts, ReleaseRecoveryLock(b) PROVE Whole(a)'
      <3>1. /\ deploy'[a].started = deploy[a].started /\ deploy'[a].uses = deploy[a].uses
            /\ deploy'[a].built = deploy[a].built
        BY <1>4, <2>1, <2>4 DEF ReleaseRecoveryLock, Deploys
      <3>2. QED
        BY <2>2, <3>1
    <2>5. ASSUME NEW p \in Publishers, StartActivation(p) PROVE Whole(a)'
      <3>1. deploy'[a].uses = deploy[a].uses /\ deploy'[a].built = deploy[a].built
        BY <1>4, <2>1, <2>5 DEF StartActivation, Deploys
      <3>2. CASE a = On(p)
        BY <2>5, <3>1, <3>2 DEF StartActivation, WholeOK, Whole
      <3>3. CASE a # On(p)
        <4>1. deploy'[a] = deploy[a]
          BY <1>4, <2>5, <3>3 DEF StartActivation
        <4>2. QED
          BY <2>2, <4>1
      <3>4. QED
        BY <3>2, <3>3
    <2>6. ASSUME NEW p \in Publishers, PrepareRelease(p) \/ ConfirmOutcome(p) \/ SettleDeploy(p) PROVE Whole(a)'
      <3>1. /\ deploy'[a].started = deploy[a].started /\ deploy'[a].uses = deploy[a].uses
            /\ deploy[a].built => deploy'[a].built
        <4>1. CASE PrepareRelease(p)
          BY <1>4, <2>1, <4>1 DEF PrepareRelease, Deploys
        <4>2. CASE ConfirmOutcome(p)
          BY <1>4, <2>1, <4>2 DEF ConfirmOutcome, Deploys
        <4>3. CASE SettleDeploy(p)
          BY <1>4, <2>1, <4>3 DEF SettleDeploy, Deploys
        <4>4. QED
          BY <2>6, <4>1, <4>2, <4>3
      <3>2. QED
        BY <2>2, <3>1
    <2>7. CASE deploy' = deploy
      BY <2>2, <2>7
    <2>8. CASE QueueStep
      BY <2>3, <2>4, <2>7, <2>8
      DEF QueueStep, PublishSite, UnpublishSite, RollbackSite, RetrySite, Dispatch, Acknowledge, LoseDeployLease, CancelDeploy, RecoverDeploy
    <2>9. ASSUME NEW p \in Publishers, CallStep(p) PROVE Whole(a)'
      BY <2>5, <2>6, <2>7, <2>9
      DEF CallStep, Executes, ClaimDeploy, ApproveActivation, RefuseDeploy, SwitchPointer, VerifyDeploy, LoseTarget,
          OpenReconcile, ClaimReconcile, ObserveTarget, ClaimCancel, SwitchFails, CrashPublisher, LeaseDeploy,
          AskReconcile, AskCancel
    <2>10. QED
      BY <2>7, <2>8, <2>9
  <1>7. QED
    BY <1>5, <1>6 DEF WholeOK

MakesActive(p) == Hot(publisher[p]) /\ target'.active = On(p) /\ (~reclaimed => deploy[On(p)].started)

\* Who becomes active was on its way, and was started.
LEMMA ActiveFrom ==
  ASSUME HostingAssumption, HostingInv, CurrentOwns, QueueStep \/ \E p \in Publishers : CallStep(p)
  PROVE  target'.active = target.active \/ \E p \in Publishers : MakesActive(p)
  <1>1. CASE QueueStep
    BY <1>1, QueueKept
  <1>2. ASSUME NEW p \in Publishers, SettleDeploy(p), target'.active # target.active
        PROVE  MakesActive(p)
    <2>1. PICK outcome : /\ outcome = publisher[p].outcome /\ publisher[p].at \in {"settle", "record"} /\ publisher[p].current
                         /\ target' = [Activated(On(p), outcome) EXCEPT !.lock = IF outcome = "unknown" THEN @ ELSE Unlocked]
      BY <1>2 DEF SettleDeploy, Mine
    <2>2. target \in Targets
      BY DEF HostingInv, HostingType
    <2>3. CASE outcome \in Confirmations /\ On(p) >= target.active
      <3>1. target'.active = On(p)
        BY <2>1, <2>2, <2>3 DEF Activated, Targets, Confirmations
      <3>2. ~reclaimed => deploy[On(p)].started
        BY <2>1, <2>3 DEF HostingInv, Fenced, CallsOK, CallOK, On
      <3>3. QED
        BY <2>1, <2>3, <3>1, <3>2 DEF Hot, MakesActive
    <2>4. CASE ~(outcome \in Confirmations /\ On(p) >= target.active)
      BY <1>2, <2>1, <2>2, <2>4 DEF Activated, Targets, Confirmations
    <2>5. QED
      BY <2>3, <2>4
  <1>3. ASSUME NEW p \in Publishers, NEW step, NEW outcome, ClaimTarget(p, step, outcome)
        PROVE  target'.active = target.active
    BY <1>3 DEF ClaimTarget, HostingInv, HostingType, Targets
  <1>4. ASSUME NEW p \in Publishers, CallStep(p), ~SettleDeploy(p) PROVE target'.active = target.active
    BY <1>3, <1>4
    DEF CallStep, Executes, ClaimDeploy, PrepareRelease, StartActivation, ConfirmOutcome, ApproveActivation, RefuseDeploy,
        SwitchPointer, VerifyDeploy, LoseTarget, OpenReconcile, ClaimReconcile, ObserveTarget, ClaimCancel, SwitchFails,
        CrashPublisher, LeaseDeploy, AskReconcile, AskCancel
  <1>5. QED
    BY <1>1, <1>2, <1>4

\* Publishing leads to no subject that is held, unless something led to it already.
LEMMA LeadsBefore ==
  ASSUME HoldAssumption, HeldInv, HostingInv', ~reclaimed, held' = held,
         \A q \in Publishers : CallKept(q),
         \A b \in Attempts : b <= target.desired => DeployKept(b),
         \/ target'.active = target.active
         \/ \E p \in Publishers : Hot(publisher[p]) /\ target'.active = On(p),
         NEW s \in held, Leads(s)'
  PROVE  Leads(s)
  <1>1. \A q \in Publishers : publisher[q].at # "idle" => On(q) \in Attempts /\ On(q) <= target.desired
    BY DEF HeldInv, HostingInv, OnlyRequested
  <1>2. \A b \in Attempts : b <= target.desired => deploy'[b].uses = deploy[b].uses
    BY DEF DeployKept
  <1>3. target.active # 0 => target.active \in Attempts /\ target.active <= target.desired
    <2>1. target.active \in Nat /\ live.generation \in Nat /\ target.desired \in Nat /\ target.active <= Generations
      BY DEF HeldInv, HostingInv, HostingType, Targets, HoldAssumption, HostingAssumption
    <2>2. target.active <= live.generation /\ live.generation <= target.desired
      BY DEF HeldInv, HostingInv, Fenced, OnlyRequested
    <2>3. QED
      BY <2>1, <2>2 DEF Attempts, HoldAssumption, HostingAssumption
  <1>4. CASE target'.active # 0 /\ deploy'[target'.active].uses = s
    <2>1. CASE target'.active = target.active
      BY <1>2, <1>3, <1>4, <2>1 DEF Leads
    <2>2. CASE \E p \in Publishers : Hot(publisher[p]) /\ target'.active = On(p)
      <3>1. PICK p \in Publishers : Hot(publisher[p]) /\ target'.active = On(p)
        BY <2>2
      <3>2. publisher[p].at # "idle"
        BY <3>1 DEF Hot
      <3>3. deploy[On(p)].uses = s
        BY <1>1, <1>2, <1>4, <3>1, <3>2
      <3>4. QED
        BY <3>1, <3>3 DEF Leads
    <2>3. QED
      BY <2>1, <2>2
  <1>5. ASSUME NEW q \in Publishers, Hot(publisher'[q]), deploy'[publisher'[q].on].uses = s PROVE Leads(s)
    <2>1. publisher'[q].on = On(q) /\ publisher[q].at # "idle" /\ (Hot(publisher[q]) \/ Eligible(On(q)))
      BY <1>5 DEF CallKept
    <2>2. deploy[On(q)].uses = s
      BY <1>1, <1>2, <1>5, <2>1
    <2>3. QED
      BY <2>1, <2>2 DEF Eligible, Leads
  <1>6. QED
    BY <1>4, <1>5 DEF Leads, On, Hot

\* What publishing leaves alone.
LEMMA PublishingLeaves ==
  ASSUME QueueStep \/ \E p \in Publishers : CallStep(p)
  PROVE  /\ UNCHANGED <<gate, held, scan, resumer, covered>> /\ (reclaimed => reclaimed')
         /\ live' = live \/ \E p \in Publishers : live' = Pointed(On(p)) /\ publisher[p].at # "idle"
  <1>1. CASE QueueStep
    <2>1. UNCHANGED <<gate, held, scan, resumer, covered, reclaimed, live>>
      BY <1>1
      DEF QueueStep, PublishSite, UnpublishSite, RollbackSite, RetrySite, Accept, ReleaseRecoveryLock, Dispatch,
          Acknowledge, LoseDeployLease, CancelDeploy, RecoverDeploy, calls
    <2>2. QED
      BY <2>1
  <1>2. ASSUME NEW p \in Publishers, NEW a \in Attempts, LeaseDeploy(p, a) \/ AskReconcile(p, a) \/ AskCancel(p, a)
        PROVE  UNCHANGED <<gate, held, scan, resumer, covered, reclaimed, live>>
    BY <1>2 DEF LeaseDeploy, AskReconcile, AskCancel
  <1>3. ASSUME NEW p \in Publishers,
               ClaimDeploy(p) \/ ClaimReconcile(p) \/ ClaimCancel(p) \/ OpenReconcile(p) \/ ObserveTarget(p)
        PROVE  UNCHANGED <<gate, held, scan, resumer, covered, live>> /\ (reclaimed => reclaimed')
    <2>1. UNCHANGED <<gate, held, scan, resumer, covered, live>>
      BY <1>3 DEF ClaimDeploy, ClaimReconcile, ClaimCancel, OpenReconcile, ObserveTarget
    <2>2. CASE reclaimed' = (reclaimed \/ (Claimable(On(p)) /\ deploy[On(p)].started))
      BY <2>1, <2>2
    <2>3. CASE reclaimed' = reclaimed
      BY <2>1, <2>3
    <2>4. QED
      BY <1>3, <2>2, <2>3 DEF ClaimDeploy, ClaimReconcile, ClaimCancel, OpenReconcile, ObserveTarget
  <1>4. ASSUME NEW p \in Publishers, PrepareRelease(p) \/ StartActivation(p) \/ ConfirmOutcome(p) \/ SettleDeploy(p)
        PROVE  UNCHANGED <<gate, held, scan, resumer, covered, reclaimed, live>>
    BY <1>4 DEF PrepareRelease, StartActivation, ConfirmOutcome, SettleDeploy
  <1>5. ASSUME NEW p \in Publishers,
               ApproveActivation(p) \/ RefuseDeploy(p) \/ VerifyDeploy(p) \/ LoseTarget(p) \/ CrashPublisher(p)
        PROVE  UNCHANGED <<gate, held, scan, resumer, covered, reclaimed, live>>
    BY <1>5 DEF ApproveActivation, RefuseDeploy, VerifyDeploy, LoseTarget, CrashPublisher
  <1>6. ASSUME NEW p \in Publishers, SwitchPointer(p) \/ SwitchFails(p)
        PROVE  /\ UNCHANGED <<gate, held, scan, resumer, covered, reclaimed>>
               /\ live' = live \/ (live' = Pointed(On(p)) /\ publisher[p].at # "idle")
    BY <1>6 DEF SwitchPointer, SwitchFails
  <1>7. CASE \E p \in Publishers : CallStep(p)
    <2>1. PICK p \in Publishers : CallStep(p)
      BY <1>7
    <2>2. CASE \E a \in Attempts : LeaseDeploy(p, a) \/ AskReconcile(p, a) \/ AskCancel(p, a)
      BY <1>2, <2>2
    <2>3. CASE Executes(p) \/ SwitchFails(p) \/ CrashPublisher(p)
      BY <1>3, <1>4, <1>5, <1>6, <2>3 DEF Executes
    <2>4. QED
      BY <2>1, <2>2, <2>3 DEF CallStep
  <1>8. QED
    BY <1>1, <1>7

\* Publishing keeps the promise about holds.
LEMMA PublishingHeld ==
  ASSUME HoldAssumption, HeldInv, HostingNext, QueueStep \/ \E p \in Publishers : CallStep(p)
  PROVE  HeldInv'
  <1>1. HostingInv /\ HostingInv' /\ HostingAssumption /\ CurrentOwns /\ WholeOK /\ GateOK
    BY HostingStep DEF HeldInv, HoldAssumption
  <1>2. UNCHANGED <<gate, held, scan, resumer, covered>> /\ (reclaimed => reclaimed')
    BY PublishingLeaves
  <1>3. \A q \in Publishers : CallKept(q)
    BY <1>1, QueueKept, CallsKept
  <1>4. CurrentOwns'
    BY <1>3 DEF CurrentOwns, CallKept
  <1>5. WholeOK'
    BY <1>1, WholeKept
  <1>6. \A b \in Attempts : b <= target.desired => DeployKept(b)
    BY <1>1, DeploysKept
  <1>7. live'.generation = 0 => live'.disabled
    <2>1. CASE live' = live
      BY <1>1, <2>1 DEF GateOK
    <2>2. ASSUME NEW p \in Publishers, live' = Pointed(On(p)), publisher[p].at # "idle" PROVE live'.generation # 0
      <3>1. On(p) \in Attempts
        BY <1>1, <2>2 DEF HostingInv, OnlyRequested
      <3>2. QED
        BY <2>2, <3>1 DEF Pointed, Attempts
    <2>3. QED
      BY <2>1, <2>2, PublishingLeaves
  <1>8. GateOK'
    BY <1>1, <1>2, <1>7 DEF GateOK, Resuming
  <1>9. ASSUME ~reclaimed' PROVE ActiveOK' /\ Denied'
    <2>1. ~reclaimed
      BY <1>2, <1>9
    <2>2. ActiveOK /\ Denied /\ Fenced
      BY <1>1, <2>1 DEF HeldInv, HostingInv
    <2>3. \/ target'.active = target.active
          \/ \E p \in Publishers : Hot(publisher[p]) /\ target'.active = On(p) /\ deploy[On(p)].started
      <3>1. target'.active = target.active \/ \E p \in Publishers : MakesActive(p)
        BY <1>1, ActiveFrom
      <3>2. CASE target'.active # target.active
        <4>1. PICK p \in Publishers : MakesActive(p)
          BY <3>1, <3>2
        <4>2. Hot(publisher[p]) /\ target'.active = On(p) /\ deploy[On(p)].started
          BY <2>1, <4>1 DEF MakesActive
        <4>3. QED
          BY <4>2
      <3>3. QED
        BY <3>2
    <2>4. ActiveOK'
      <3>1. CASE target'.active = target.active
        <4>1. target.active # 0 => target.active \in Attempts /\ target.active <= target.desired
          <5>1. target.active \in Nat /\ live.generation \in Nat /\ target.desired \in Nat /\ target.active <= Generations
            BY <1>1 DEF HostingInv, HostingType, Targets, HostingAssumption
          <5>2. target.active <= live.generation /\ live.generation <= target.desired
            BY <1>1, <2>2 DEF HostingInv, Fenced, OnlyRequested
          <5>3. QED
            BY <1>1, <5>1, <5>2 DEF Attempts, HostingAssumption
        <4>2. QED
          BY <1>6, <2>2, <3>1, <4>1 DEF ActiveOK, DeployKept
      <3>2. CASE \E p \in Publishers : Hot(publisher[p]) /\ target'.active = On(p) /\ deploy[On(p)].started
        <4>1. PICK p \in Publishers : Hot(publisher[p]) /\ target'.active = On(p) /\ deploy[On(p)].started
          BY <3>2
        <4>2. On(p) \in Attempts /\ On(p) <= target.desired
          BY <1>1, <4>1 DEF Hot, HostingInv, OnlyRequested
        <4>3. deploy'[On(p)].started
          BY <1>6, <4>1, <4>2 DEF DeployKept
        <4>4. QED
          BY <4>1, <4>3 DEF ActiveOK
      <3>3. QED
        BY <2>3, <3>1, <3>2
    <2>5. ASSUME NEW s \in Dealt, Leads(s)' PROVE Closed'
      <3>1. s \in held
        BY <1>1 DEF Dealt, GateOK, HostingInv, HostingType
      <3>2. Leads(s)
        BY <1>1, <1>2, <1>3, <1>6, <2>1, <2>3, <2>5, <3>1, LeadsBefore
      <3>3. QED
        BY <1>2, <2>2, <3>2 DEF Denied, Closed, Resuming
    <2>6. Dealt' = Dealt
      BY <1>2 DEF Dealt
    <2>7. QED
      BY <2>4, <2>5, <2>6 DEF Denied
  <1>10. QED
    BY <1>1, <1>4, <1>5, <1>8, <1>9 DEF HeldInv

\* What serves: the holds, the scans, the gate and resume.
ServingStep ==
  \/ \E s \in Subjects : PlaceHold(s) \/ LiftHold(s)
  \/ \E a \in Attempts : OpenResume(a)
  \/ ScanStep \/ Resumes \/ CrashServing

LEMMA ServingHeld ==
  ASSUME HoldAssumption, HeldInv, HostingNext, ServingStep
  PROVE  HeldInv'
  <1>1. HostingInv /\ HostingInv' /\ HostingAssumption /\ CurrentOwns /\ WholeOK /\ GateOK
    BY HostingStep DEF HeldInv, HoldAssumption
  <1>2. UNCHANGED <<deploy, live, publisher, reclaimed>>
    BY DEF ServingStep, PlaceHold, LiftHold, OpenResume, ScanStep, ScanTarget, SuspendServing, RecordSuspended, Resumes,
           RecheckResume, OpenGate, RecordResumed, CrashServing, calls
  <1>3. target'.active = target.active /\ target'.lock = target.lock
    <2>1. target \in Targets
      BY <1>1 DEF HostingInv, HostingType
    <2>2. QED
      BY <2>1
      DEF ServingStep, PlaceHold, LiftHold, OpenResume, ScanStep, ScanTarget, SuspendServing, RecordSuspended, Resumes,
          RecheckResume, OpenGate, RecordResumed, CrashServing, Targets
  <1>4. CurrentOwns'
    BY <1>1, <1>2, <1>3 DEF CurrentOwns, OwnsTarget, On
  <1>5. WholeOK'
    BY <1>1, <1>2, WholeKept
  <1>6. GateOK'
    <2>1. gate \in [state : {"active", "suspended"}, locked : BOOLEAN]
      BY <1>1 DEF GateOK
    <2>2. held \subseteq Subjects /\ scan \in [at : {"idle", "found", "gated"}, reads : SUBSET held]
      BY <1>1 DEF GateOK
    <2>3. gate' \in [state : {"active", "suspended"}, locked : BOOLEAN]
      <3>1. \/ gate' = gate \/ gate' = [gate EXCEPT !.state = "suspended"]
            \/ gate' = [gate EXCEPT !.locked = TRUE] \/ gate' = [gate EXCEPT !.locked = FALSE]
            \/ gate' = [state |-> "active", locked |-> FALSE]
        BY DEF ServingStep, PlaceHold, LiftHold, OpenResume, ScanStep, ScanTarget, SuspendServing, RecordSuspended, Resumes,
               RecheckResume, OpenGate, RecordResumed, CrashServing
      <3>2. [gate EXCEPT !.state = "suspended"] \in [state : {"active", "suspended"}, locked : BOOLEAN]
        BY <2>1
      <3>3. ASSUME NEW b \in BOOLEAN
            PROVE  [gate EXCEPT !.locked = b] \in [state : {"active", "suspended"}, locked : BOOLEAN]
        BY <2>1
      <3>4. [state |-> "active", locked |-> FALSE] \in [state : {"active", "suspended"}, locked : BOOLEAN]
        OBVIOUS
      <3>5. QED
        BY <2>1, <3>1, <3>2, <3>3, <3>4
    <2>4. Resuming' => gate'.locked
      <3>1. resumer \in [at : {"idle", "opened", "checked", "opened_gate"}, source : 0..Generations,
                         state : {"none", "unpublished", "active"}]
        BY <1>1 DEF HostingInv, HostingType, ResumerOK
      <3>2. Resuming => gate.locked
        BY <1>1 DEF GateOK
      <3>3. QED
        BY <2>1, <3>1, <3>2
        DEF ServingStep, PlaceHold, LiftHold, OpenResume, ScanStep, ScanTarget, SuspendServing, RecordSuspended, Resumes,
            RecheckResume, OpenGate, RecordResumed, CrashServing, Resuming, calls
    <2>5. held' \subseteq Subjects /\ scan' \in [at : {"idle", "found", "gated"}, reads : SUBSET held']
      <3>1. ASSUME NEW s \in Subjects, PlaceHold(s) PROVE held' \subseteq Subjects /\ scan' \in [at : {"idle", "found", "gated"}, reads : SUBSET held']
        BY <2>2, <3>1 DEF PlaceHold, calls
      <3>2. ASSUME NEW s \in Subjects, LiftHold(s) PROVE held' \subseteq Subjects /\ scan' \in [at : {"idle", "found", "gated"}, reads : SUBSET held']
        <4>1. held' = held \ {s} /\ scan' = [scan EXCEPT !.reads = @ \ {s}]
          BY <3>2 DEF LiftHold
        <4>2. scan.reads \ {s} \in SUBSET (held \ {s})
          BY <2>2
        <4>3. QED
          BY <2>2, <4>1, <4>2
      <3>3. CASE ScanTarget \/ SuspendServing \/ RecordSuspended
        BY <2>2, <3>3 DEF ScanTarget, SuspendServing, RecordSuspended
      <3>4. CASE UNCHANGED <<held, scan>>
        BY <2>2, <3>4
      <3>5. CASE CrashServing
        BY <2>2, <3>5 DEF CrashServing
      <3>6. QED
        BY <3>1, <3>2, <3>3, <3>4, <3>5 DEF ServingStep, OpenResume, ScanStep, Resumes, RecheckResume, OpenGate, RecordResumed
    <2>6. QED
      BY <1>1, <1>2, <2>3, <2>4, <2>5 DEF GateOK
  <1>7. ASSUME ~reclaimed' PROVE ActiveOK' /\ Denied'
    <2>1. ~reclaimed /\ ActiveOK /\ Denied
      BY <1>2, <1>7 DEF HeldInv
    <2>2. ActiveOK'
      BY <1>2, <1>3, <2>1 DEF ActiveOK
    <2>3. \A s : Leads(s)' <=> Leads(s)
      BY <1>2, <1>3 DEF Leads, Hot, On
    <2>4. \A s : (target.active = 0 \/ deploy[target.active].uses # s) /\ (target.lock = Unlocked \/ deploy[target.lock.attempt].uses # s) => ~Leads(s)
      <3>1. ASSUME NEW p \in Publishers, Hot(publisher[p])
            PROVE  target.lock.attempt = On(p) /\ target.lock # Unlocked
        <4>1. OwnsTarget(p) /\ On(p) \in Attempts
          BY <1>1, <3>1 DEF Hot, CurrentOwns, HostingInv, OnlyRequested
        <4>2. QED
          BY <4>1 DEF OwnsTarget, Unlocked, Attempts
      <3>2. QED
        BY <3>1 DEF Leads
    <2>5. ASSUME NEW s \in Dealt', Leads(s) PROVE Closed'
      <3>1. s \in held'
        BY <1>1, <1>6 DEF Dealt, GateOK, HostingInv, HostingType
      <3>2. s \in Dealt => Closed
        BY <2>1, <2>5 DEF Denied
      <3>3. CASE \E t \in Subjects : PlaceHold(t) \/ LiftHold(t)
        <4>1. Dealt' \subseteq Dealt /\ UNCHANGED <<gate, resumer>>
          BY <1>1, <3>3 DEF PlaceHold, LiftHold, Dealt, GateOK, calls
        <4>2. QED
          BY <2>5, <3>2, <4>1 DEF Closed, Resuming
      <3>4. CASE ScanTarget
        <4>1. UNCHANGED <<gate, resumer, held>> /\ scan.at = "idle"
          BY <3>4 DEF ScanTarget
        <4>2. CASE DependsOn(held)
          <5>1. Dealt' \subseteq Dealt
            BY <3>4, <4>2 DEF ScanTarget, Dealt
          <5>2. QED
            BY <2>5, <3>2, <4>1, <5>1 DEF Closed, Resuming
        <4>3. CASE ~DependsOn(held)
          <5>1. /\ target.active # 0 => deploy[target.active].uses # s
                /\ target.lock.attempt # 0 => deploy[target.lock.attempt].uses # s
            BY <3>1, <4>1, <4>3 DEF DependsOn
          <5>2. ASSUME NEW p \in Publishers, Hot(publisher[p]) PROVE deploy[On(p)].uses # s
            <6>1. OwnsTarget(p) /\ On(p) \in Attempts
              BY <1>1, <5>2 DEF Hot, CurrentOwns, HostingInv, OnlyRequested
            <6>2. QED
              BY <5>1, <6>1 DEF OwnsTarget, Attempts
          <5>3. QED
            BY <2>5, <5>1, <5>2 DEF Leads
        <4>4. QED
          BY <4>2, <4>3
      <3>5. CASE SuspendServing
        <4>1. CASE gate.locked
          <5>1. Dealt' \subseteq Dealt /\ UNCHANGED <<gate, resumer>>
            BY <3>5, <4>1 DEF SuspendServing, Dealt
          <5>2. QED
            BY <2>5, <3>2, <5>1 DEF Closed, Resuming
        <4>2. CASE ~gate.locked
          <5>1. gate'.state = "suspended" /\ ~Resuming /\ resumer' = resumer
            BY <1>1, <3>5, <4>2 DEF SuspendServing, GateOK
          <5>2. QED
            BY <5>1 DEF Closed, Resuming
        <4>3. QED
          BY <4>1, <4>2
      <3>6. CASE RecordSuspended
        <4>1. Dealt' \subseteq Dealt /\ UNCHANGED <<gate, resumer>>
          BY <3>6 DEF RecordSuspended, Dealt
        <4>2. QED
          BY <2>5, <3>2, <4>1 DEF Closed, Resuming
      <3>7. CASE \E a \in Attempts : OpenResume(a)
        <4>1. PICK a \in Attempts : OpenResume(a)
          BY <3>7
        <4>2. target.lock = Unlocked /\ Source(a) /\ deploy[a].uses \notin held /\ held' = held
          BY <4>1 DEF OpenResume, Eligible
        <4>3. target.active # 0 /\ deploy[target.active].uses = s
          BY <2>4, <2>5, <4>2
        <4>4. target.active \in Attempts
          BY <1>1, <4>3 DEF HostingInv, HostingType, Targets, Attempts, HostingAssumption
        <4>5. deploy[target.active].built
          BY <1>1, <1>6, <2>1, <3>1, <4>3, <4>4 DEF ActiveOK, WholeOK, Whole, GateOK, HoldAssumption
        <4>6. a = target.active
          BY <4>2, <4>3, <4>5 DEF Source
        <4>7. QED
          BY <3>1, <4>2, <4>3, <4>6
      <3>8. CASE RecheckResume \/ OpenGate
        <4>1. Resuming /\ Dealt' = Dealt
          BY <3>8 DEF RecheckResume, OpenGate, Resuming, Dealt
        <4>2. QED
          BY <2>5, <3>2, <4>1 DEF Closed
      <3>9. CASE RecordResumed \/ CrashServing
        <4>1. Dealt' \subseteq Dealt /\ gate' = gate /\ (Resuming' => Resuming)
          BY <3>9 DEF RecordResumed, CrashServing, Dealt, Resuming
        <4>2. QED
          BY <2>5, <3>2, <4>1 DEF Closed
      <3>10. QED
        BY <3>3, <3>4, <3>5, <3>6, <3>7, <3>8, <3>9 DEF ServingStep, ScanStep, Resumes
    <2>6. QED
      BY <2>2, <2>3, <2>5 DEF Denied
  <1>8. QED
    BY <1>1, <1>4, <1>5, <1>6, <1>7 DEF HeldInv

LEMMA HeldStep ==
  ASSUME HoldAssumption, HeldInv, [HostingNext]_hostingVars
  PROVE  HeldInv'
  <1>1. CASE UNCHANGED hostingVars
    <2>1. HostingInv'
      BY <1>1, HostingStep DEF HeldInv, HoldAssumption
    <2>2. /\ UNCHANGED <<target, deploy, live, gate, held, publisher, scan, resumer, covered, reclaimed>>
      BY <1>1 DEF hostingVars, calls
    <2>3. CurrentOwns' /\ WholeOK'
      BY <2>2 DEF HeldInv, CurrentOwns, OwnsTarget, On, WholeOK, Whole
    <2>4. GateOK' /\ (ActiveOK => ActiveOK')
      BY <2>2 DEF HeldInv, GateOK, Resuming, ActiveOK
    <2>5. Denied => Denied'
      BY <2>2 DEF Denied, Dealt, Leads, Hot, On, Closed, Resuming
    <2>6. QED
      BY <2>1, <2>2, <2>3, <2>4, <2>5 DEF HeldInv
  <1>2. CASE HostingNext
    <2>1. QueueStep \/ ServingStep \/ \E p \in Publishers : CallStep(p)
      BY <1>2 DEF HostingNext, Owner, QueueStep, ServingStep, CallStep
    <2>2. QED
      BY <1>2, <2>1, PublishingHeld, ServingHeld
  <1>3. QED
    BY <1>1, <1>2

\* Once a scan has dealt with a hold, what it names stays denied through every later activation,
\* reconciliation and resume (suspendDependencies, pointer, policyGate); only a release that was
\* switched to and never confirmed, or that a call claimed after it had read it, escapes.
THEOREM HeldContentDenied == ASSUME HoldAssumption PROVE HostingSpec => [](reclaimed \/ HeldStaysDenied)
  <1>1. HostingInit => HeldInv
    BY HeldStart
  <1>2. HeldInv /\ [HostingNext]_hostingVars => HeldInv'
    BY HeldStep
  <1>3. HeldInv => reclaimed \/ HeldStaysDenied
    <2>1. SUFFICES ASSUME HeldInv, ~reclaimed, NEW s \in covered, Serves(s) PROVE target.active < live.generation
      BY DEF HeldStaysDenied
    <2>2. Denied /\ GateOK /\ Fenced
      BY <2>1 DEF HeldInv, HostingInv
    <2>3. ~Leads(s)
      BY <2>1, <2>2 DEF Denied, Dealt, Closed, Serves, Open
    <2>4. live.generation # 0 /\ deploy[live.generation].uses = s
      BY <2>1, <2>2 DEF GateOK, Serves
    <2>5. target.active # live.generation
      BY <2>3, <2>4 DEF Leads
    <2>6. target.active \in Nat /\ live.generation \in Nat /\ target.active <= live.generation
      BY <2>1, <2>2 DEF HeldInv, HostingInv, HostingType, Targets, Fenced
    <2>7. QED
      BY <2>5, <2>6
  <1>4. QED
    BY <1>1, <1>2, <1>3, PTL DEF HostingSpec

-----------------------------------------------------------------------------
(* A creator's chat profile: checkpoints, digests, the inbox and replies.   *)

\* Events are of the kinds the code knows, and the bounds are numbers.
ActivityAssumption ==
  /\ Kinds \subseteq {"comment", "health"}
  /\ MaxEvents \in Nat /\ MaxPages \in Nat /\ MaxMessages \in Nat
  /\ PageSize \in Nat /\ Batches \in Nat /\ NoteSize \in Nat

ActivityRow == [creator : Creators \cup {NothingYet.creator}, kind : {"none", "comment", "health"}]
Profile == [revision : Nat, selection : Scopes, checkpoint : [Scopes -> 0..MaxEvents], digestAfter : 0..MaxEvents,
            healthAfter : 0..MaxEvents, due : BOOLEAN, digests : BOOLEAN, minimum : Minimums \cup {1},
            alerts : BOOLEAN, epoch : Nat]
Mark == [revision : Nat, read : BOOLEAN, resolved : BOOLEAN]
Handed == [scope : Scopes, through : 0..MaxEvents, made : BOOLEAN]
Message == [kind : {"none", "reply", "digest", "health"}, status : {"none", "ready", "sending", "sent", "not_sent", "unknown"},
            revision : Nat, events : SUBSET Seqs, epoch : Nat]

\* The documents keep their types; events are given their sequences in order.
DocumentsOK ==
  /\ event \in [Seqs -> ActivityRow] /\ \E n \in 0..MaxEvents : Happened = 1..n
  /\ world.readable \subseteq Creators /\ world.hidden \subseteq Seqs
  /\ profile \in Profile /\ mark \in [Seqs -> Mark] /\ page \in [1..MaxPages -> Handed]
  /\ message \in [1..MaxMessages -> Message] /\ handed \in [Scopes -> SUBSET Seqs]
  /\ reached \in [1..MaxMessages -> Nat] /\ caller = [c \in Callers |-> caller[c]]

\* Up to a sequence that was given, all events of the scope were handed out.
Covers(scope, through) ==
  /\ through = 0 \/ through \in Happened
  /\ \A e \in Happened : e <= through /\ event[e].creator \in scope => e \in handed[scope]

\* A profile in the hands of a caller was the stored one once, and is it still if its revision is.
ProfileRead(p) ==
  /\ p \in Profile /\ p.revision <= profile.revision
  /\ p.revision = profile.revision =>
       p.checkpoint = profile.checkpoint /\ p.digestAfter = profile.digestAfter /\ p.epoch = profile.epoch
  /\ \A s \in Scopes : Covers(s, p.checkpoint[s])

\* What a call asks for: a selection, preferences, an acknowledgement, a page, a notification.
AsksFor(op, input) ==
  \/ op \in {"select", "activity"} /\ input \in Scopes
  \/ op = "prefer" /\ input \in [digests : BOOLEAN, minimum : Minimums, alerts : BOOLEAN]
  \/ op = "acknowledge" /\ input \in Handed /\ Covers(input.scope, input.through)
  \/ op = "prepare" /\ input \in {"digest", "health"}

Asks(call) ==
  \E op, input, p : call = [at |-> op, input |-> input, profile |-> p] /\ ProfileRead(p) /\ AsksFor(op, input)

\* What was gathered for a digest are the events from its cursor to the next, but for those
\* that were out of sight.
Gathered(call) ==
  \E kind, p, rows, cursor, events, out :
    /\ call = [at |-> "gathered", kind |-> kind, profile |-> p, rows |-> rows, cursor |-> cursor, events |-> events, out |-> out]
    /\ kind \in {"digest", "health"} /\ ProfileRead(p) /\ cursor \in 0..MaxEvents /\ events \subseteq Seqs
    /\ kind = "digest" =>
         /\ p.digestAfter <= cursor /\ events \subseteq p.digestAfter + 1..cursor
         /\ p.digestAfter + 1..cursor \subseteq events \cup out

\* A message that was read as ready is ready while its revision stands.
Claims(call) ==
  \E m, seen :
    /\ call = [at |-> "claim", message |-> m, seen |-> seen]
    /\ m \in 1..MaxMessages /\ message[m].kind # "none"
    /\ seen \in Message /\ seen.revision <= message[m].revision
    /\ seen.revision = message[m].revision => message[m].status = "ready"

\* Who claimed it finds it as it left it, sent by nobody else.
Sends(call) ==
  \E m, r, outcome :
    /\ \/ call = [at |-> "send", message |-> m, revision |-> r] /\ reached[m] = 0
       \/ /\ call = [at |-> "record", message |-> m, revision |-> r, outcome |-> outcome]
          /\ outcome = "not_sent" => reached[m] = 0
    /\ outcome \in {"sent", "not_sent", "unknown"}
    /\ m \in 1..MaxMessages /\ message[m].status = "sending" /\ message[m].revision = r

\* A comment's document that was read is the stored one while its revision stands.
Marks(call) ==
  \E e, action, seen :
    /\ call = [at |-> "mark", comment |-> e, action |-> action, seen |-> seen]
    /\ e \in Seqs /\ seen \in Mark /\ seen.revision <= mark[e].revision
    /\ seen.revision = mark[e].revision => seen = mark[e]

CallerOK(call) == call = NotBusy \/ Asks(call) \/ Gathered(call) \/ Claims(call) \/ Sends(call) \/ Marks(call)

\* The provider may have acted on a message once, and then it is not offered for sending again.
MessageOK(m) ==
  /\ message[m].kind = "none" => message[m].status = "none"
  /\ reached[m] <= 1
  /\ reached[m] # 0 => message[m].status \in {"sending", "sent", "unknown"}

OneCaller ==
  \A c, d \in Callers : c # d /\ caller[c].at \in {"send", "record"} /\ caller[d].at \in {"send", "record"} =>
    caller[c].message # caller[d].message

\* The digests of the selection in force.
CurrentDigests == {m \in 1..MaxMessages : message[m].kind = "digest" /\ message[m].epoch = profile.epoch}

\* They are of the past: no later than the cursor, of no later selection.
DigestsOK ==
  /\ \A m \in 1..MaxMessages : message[m].kind = "digest" => message[m].epoch <= profile.epoch
  /\ \A m \in CurrentDigests : message[m].events \subseteq 1..profile.digestAfter
  /\ 1..profile.digestAfter \subseteq passed \cup UNION {message[m].events : m \in CurrentDigests}
  /\ \A m, n \in CurrentDigests : m # n => message[m].events \cap message[n].events = {}

\* The inductive invariant.
ActivityInv ==
  /\ DocumentsOK
  /\ \A t \in 1..MaxPages : page[t].made => Covers(page[t].scope, page[t].through)
  /\ \A s \in Scopes : Covers(s, profile.checkpoint[s])
  /\ \A c \in Callers : CallerOK(caller[c])
  /\ \A m \in 1..MaxMessages : MessageOK(m)
  /\ OneCaller /\ DigestsOK

\* A set of numbers has a least one, and below a bound a greatest one.
LEMMA LeastOne ==
  ASSUME NEW S, S \subseteq Nat, S # {}
  PROVE  Min(S) \in S /\ \A y \in S : Min(S) <= y
  <1>1. PICK x \in S : \A y \in S : ~ (<<y, x>> \in OpToRel(<,Nat))
    BY NatLessThanWellFounded, WFMin
  <1>2. ASSUME NEW y \in S PROVE x <= y
    <2>1. ~ (<<y, x>> \in {ss \in Nat \X Nat : ss[1] < ss[2]})
      BY <1>1 DEF OpToRel
    <2>2. ~(y < x)
      BY <2>1
    <2>3. QED
      BY <2>2
  <1>3. QED
    BY <1>2 DEF Min

LEMMA GreatestOne ==
  ASSUME NEW n \in Nat, NEW S, S \subseteq 0..n, S # {}
  PROVE  Max(S) \in S /\ \A y \in S : Max(S) >= y
  <1> DEFINE D == {d \in 0..n : n - d \in S}
  <1>1. D \subseteq Nat /\ D # {}
    <2>1. PICK x \in S : TRUE
      OBVIOUS
    <2>2. n - x \in 0..n /\ n - (n - x) = x
      <3>1. x \in 0..n
        OBVIOUS
      <3>2. QED
        BY <3>1
    <2>3. n - (n - x) \in S
      BY <2>2, Zenon
    <2>4. n - x \in D
      BY <2>2, <2>3
    <2>5. D \subseteq Nat
      OBVIOUS
    <2>6. QED
      BY <2>4, <2>5
  <1>2. Min(D) \in D /\ \A d \in D : Min(D) <= d
    BY <1>1, LeastOne
  <1>3. PICK d \in 0..n : n - d \in S /\ \A f \in 0..n : n - f \in S => d <= f
    BY <1>2
  <1>4. ASSUME NEW y \in S PROVE n - d >= y
    <2>1. y \in 0..n
      OBVIOUS
    <2>2. n - y \in 0..n /\ n - (n - y) = y
      BY <2>1
    <2>3. d <= n - y
      BY <1>3, <2>2
    <2>4. QED
      BY <2>1, <2>3
  <1>5. \E x \in S : \A y \in S : x >= y
    BY <1>3, <1>4
  <1>6. QED
    BY <1>5 DEF Max

\* The end of some rows after a cursor.
LEMMA LatestRow ==
  ASSUME ActivityAssumption, NEW S, S \subseteq Seqs, NEW after \in 0..MaxEvents
  PROVE  /\ Latest(S, after) \in S \cup {after} /\ Latest(S, after) \in 0..MaxEvents
         /\ after <= Latest(S, after) /\ \A e \in S : e <= Latest(S, after)
  <1>1. S \cup {after} \subseteq 0..MaxEvents /\ S \cup {after} # {} /\ MaxEvents \in Nat
    BY DEF ActivityAssumption, Seqs
  <1>2. Max(S \cup {after}) \in S \cup {after} /\ \A y \in S \cup {after} : Max(S \cup {after}) >= y
    BY <1>1, GreatestOne
  <1>3. QED
    BY <1>1, <1>2 DEF Latest

\* The first rows of a page are rows up to the last of them.
LEMMA FirstRows ==
  ASSUME ActivityAssumption, NEW S, S \subseteq Seqs, NEW n \in Nat, NEW r \in FirstOf(S, n), NEW e \in S, e <= r
  PROVE  e \in FirstOf(S, n)
  <1>1. IsFiniteSet(1..MaxEvents)
    BY FS_Interval DEF ActivityAssumption
  <1>2. IsFiniteSet({f \in S : f <= r})
    <2>1. {f \in S : f <= r} \in SUBSET (1..MaxEvents)
      BY DEF Seqs
    <2>2. QED
      BY <1>1, <2>1, FS_Subset
  <1>3. r \in S /\ r \in Nat /\ e \in Nat /\ S \subseteq Nat
    BY DEF FirstOf, Seqs, ActivityAssumption
  <1>4. {f \in S : f <= e} \in SUBSET {f \in S : f <= r}
    <2>1. ASSUME NEW f \in S, f <= e PROVE f <= r
      BY <1>3, <2>1
    <2>2. QED
      BY <2>1
  <1>5. Cardinality({f \in S : f <= e}) <= Cardinality({f \in S : f <= r}) /\ IsFiniteSet({f \in S : f <= e})
    BY <1>2, <1>4, FS_Subset
  <1>6. Cardinality({f \in S : f <= r}) <= n
    BY DEF FirstOf
  <1>7. Cardinality({f \in S : f <= e}) \in Nat /\ Cardinality({f \in S : f <= r}) \in Nat
    BY <1>2, <1>5, FS_CardinalityType
  <1>8. QED
    BY <1>5, <1>6, <1>7 DEF FirstOf

-----------------------------------------------------------------------------
\* Sequences are given in order, what was handed out stays so, and a revision names one version.
MovesOn ==
  /\ Happened \subseteq Happened' /\ \A e \in Happened : event'[e] = event[e]
  /\ \A f \in Happened : \A e \in Happened' \ Happened : f < e
  /\ \A s \in Scopes : handed[s] \subseteq handed'[s]
  /\ profile.revision <= profile'.revision
  /\ profile'.revision = profile.revision =>
       profile'.checkpoint = profile.checkpoint /\ profile'.digestAfter = profile.digestAfter /\ profile'.epoch = profile.epoch
  /\ \A m \in 1..MaxMessages : message[m].kind # "none" =>
       /\ message'[m].kind # "none" /\ message[m].revision <= message'[m].revision
       /\ message'[m].revision = message[m].revision => message'[m].status = message[m].status
  /\ \A e \in Seqs : /\ mark[e].revision <= mark'[e].revision
                     /\ mark'[e].revision = mark[e].revision => mark'[e] = mark[e]

LEMMA CoversStays ==
  ASSUME MovesOn, NEW s \in Scopes, NEW n \in Nat, Covers(s, n)
  PROVE  Covers(s, n)'
  <1>1. n = 0 \/ n \in Happened'
    BY DEF Covers, MovesOn
  <1>2. ASSUME NEW e \in Happened', e <= n, event'[e].creator \in s PROVE e \in handed'[s]
    <2>1. e \in Happened
      <3>1. CASE n \in Happened
        <4>1. ~(e \notin Happened)
          <5>1. SUFFICES ASSUME e \notin Happened PROVE FALSE
            OBVIOUS
          <5>2. n < e /\ e \in Nat
            BY <3>1, <5>1 DEF MovesOn, Happened, Seqs
          <5>3. QED
            BY <1>2, <5>2
        <4>2. QED
          BY <4>1
      <3>2. CASE n = 0
        BY <1>2, <3>2 DEF Happened, Seqs
      <3>3. QED
        BY <3>1, <3>2 DEF Covers
    <2>2. event'[e] = event[e] /\ handed[s] \subseteq handed'[s]
      BY <2>1 DEF MovesOn
    <2>3. QED
      BY <1>2, <2>1, <2>2 DEF Covers
  <1>3. QED
    BY <1>1, <1>2 DEF Covers

LEMMA ProfileStays ==
  ASSUME MovesOn, NEW p, ProfileRead(p), profile.revision \in Nat, profile'.revision \in Nat
  PROVE  ProfileRead(p)'
  <1>1. p \in Profile /\ p.revision \in Nat /\ p.checkpoint \in [Scopes -> 0..MaxEvents]
    BY DEF ProfileRead, Profile
  <1>2. p.revision <= profile'.revision
    BY <1>1 DEF ProfileRead, MovesOn
  <1>3. p.revision = profile'.revision =>
       p.checkpoint = profile'.checkpoint /\ p.digestAfter = profile'.digestAfter /\ p.epoch = profile'.epoch
    BY <1>1 DEF ProfileRead, MovesOn
  <1>4. \A s \in Scopes : Covers(s, p.checkpoint[s])'
    BY <1>1, CoversStays DEF ProfileRead
  <1>5. QED
    BY <1>1, <1>2, <1>3, <1>4 DEF ProfileRead

\* What a call holds stays fit for it, if its message is left alone while it is being sent.
LEMMA CallStays ==
  ASSUME ActivityAssumption, DocumentsOK, DocumentsOK', MovesOn, NEW call, CallerOK(call),
         Sends(call) => message'[call.message] = message[call.message] /\ reached'[call.message] = reached[call.message]
  PROVE  CallerOK(call)'
  <1>1. profile.revision \in Nat /\ profile'.revision \in Nat
    BY DEF DocumentsOK, Profile
  <1>2. CASE call = NotBusy
    BY <1>2 DEF CallerOK, NotBusy
  <1>3. CASE Asks(call)
    <2>1. PICK op, input, p : call = [at |-> op, input |-> input, profile |-> p] /\ ProfileRead(p) /\ AsksFor(op, input)
      BY <1>3 DEF Asks
    <2>2. ProfileRead(p)'
      BY <1>1, <2>1, ProfileStays
    <2>3. input \in Handed /\ Covers(input.scope, input.through) => Covers(input.scope, input.through)'
      <3>1. input \in Handed => input.scope \in Scopes /\ input.through \in Nat
        BY DEF Handed
      <3>2. QED
        BY <3>1, CoversStays
    <2>4. AsksFor(op, input)'
      BY <2>1, <2>3 DEF AsksFor
    <2>5. Asks(call)'
      BY <2>1, <2>2, <2>4 DEF Asks
    <2>6. QED
      BY <2>5 DEF CallerOK
  <1>4. CASE Gathered(call)
    <2>1. PICK kind, p, rows, cursor, events, out :
            /\ call = [at |-> "gathered", kind |-> kind, profile |-> p, rows |-> rows, cursor |-> cursor, events |-> events, out |-> out]
            /\ kind \in {"digest", "health"} /\ ProfileRead(p) /\ cursor \in 0..MaxEvents /\ events \subseteq Seqs
            /\ kind = "digest" =>
                 /\ p.digestAfter <= cursor /\ events \subseteq p.digestAfter + 1..cursor
                 /\ p.digestAfter + 1..cursor \subseteq events \cup out
      BY <1>4 DEF Gathered
    <2>2. ProfileRead(p)'
      BY <1>1, <2>1, ProfileStays
    <2>3. Gathered(call)'
      BY <2>1, <2>2 DEF Gathered
    <2>4. QED
      BY <2>3 DEF CallerOK
  <1>5. CASE Claims(call)
    <2>1. PICK m, seen :
            /\ call = [at |-> "claim", message |-> m, seen |-> seen]
            /\ m \in 1..MaxMessages /\ message[m].kind # "none"
            /\ seen \in Message /\ seen.revision <= message[m].revision
            /\ seen.revision = message[m].revision => message[m].status = "ready"
      BY <1>5 DEF Claims
    <2>2. seen.revision \in Nat /\ message[m].revision \in Nat /\ message'[m].revision \in Nat
      BY <2>1 DEF DocumentsOK, Message
    <2>3. /\ message'[m].kind # "none" /\ seen.revision <= message'[m].revision
          /\ seen.revision = message'[m].revision => message'[m].status = "ready"
      BY <2>1, <2>2 DEF MovesOn
    <2>4. Claims(call)'
      BY <2>1, <2>3 DEF Claims
    <2>5. QED
      BY <2>4 DEF CallerOK
  <1>6. CASE Sends(call)
    <2>1. Sends(call)'
      BY <1>6 DEF Sends
    <2>2. QED
      BY <2>1 DEF CallerOK
  <1>7. CASE Marks(call)
    <2>1. PICK e, action, seen :
            /\ call = [at |-> "mark", comment |-> e, action |-> action, seen |-> seen]
            /\ e \in Seqs /\ seen \in Mark /\ seen.revision <= mark[e].revision
            /\ seen.revision = mark[e].revision => seen = mark[e]
      BY <1>7 DEF Marks
    <2>2. seen.revision \in Nat /\ mark[e].revision \in Nat /\ mark'[e].revision \in Nat
      BY <2>1 DEF DocumentsOK, Mark
    <2>3. /\ seen.revision <= mark'[e].revision
          /\ seen.revision = mark'[e].revision => seen = mark'[e]
      BY <2>1, <2>2 DEF MovesOn
    <2>4. /\ call = [at |-> "mark", comment |-> e, action |-> action, seen |-> seen]
          /\ e \in Seqs /\ seen \in Mark /\ seen.revision <= mark'[e].revision
          /\ seen.revision = mark'[e].revision => seen = mark'[e]
      BY <2>1, <2>3, Zenon
    <2>5. Marks(call)'
      BY <2>4, Zenon DEF Marks, Seqs, Mark
    <2>6. QED
      BY <2>5 DEF CallerOK
  <1>8. QED
    BY <1>2, <1>3, <1>4, <1>5, <1>6, <1>7 DEF CallerOK

\* The calls of those who do nothing stay fit.
LEMMA CallersStand ==
  ASSUME ActivityAssumption, ActivityInv, DocumentsOK', MovesOn, NEW D \in SUBSET Callers,
         \A d \in D : caller'[d] = caller[d],
         \A d \in D : caller[d].at \in {"send", "record"} =>
           message'[caller[d].message] = message[caller[d].message] /\ reached'[caller[d].message] = reached[caller[d].message]
  PROVE  \A d \in D : CallerOK(caller[d])'
  <1>1. ASSUME NEW d \in D PROVE CallerOK(caller[d])'
    <2>1. PICK x : x = caller[d] /\ x = caller'[d]
      OBVIOUS
    <2>2. CallerOK(x)
      BY <2>1 DEF ActivityInv
    <2>3. Sends(x) => x.at \in {"send", "record"}
      BY DEF Sends
    <2>4. Sends(x) => message'[x.message] = message[x.message] /\ reached'[x.message] = reached[x.message]
      BY <2>1, <2>3
    <2>5. DocumentsOK
      BY DEF ActivityInv
    <2>6. CallerOK(x)'
      BY <2>2, <2>4, <2>5, CallStays
    <2>7. QED
      BY <2>1, <2>6
  <1>2. QED
    BY <1>1

\* One caller goes on to another call.
LEMMA TurnsTo ==
  ASSUME ActivityAssumption, ActivityInv, DocumentsOK', MovesOn,
         NEW c \in Callers, NEW call, caller' = [caller EXCEPT ![c] = call], CallerOK(call)',
         \A d \in Callers \ {c} : caller[d].at \in {"send", "record"} =>
           /\ message'[caller[d].message] = message[caller[d].message] /\ reached'[caller[d].message] = reached[caller[d].message]
           /\ call.at \in {"send", "record"} => caller[d].message # call.message
  PROVE  (\A d \in Callers : CallerOK(caller[d]))' /\ OneCaller'
  <1>1. \A d \in Callers : caller'[d] = IF d = c THEN call ELSE caller[d]
    BY DEF ActivityInv, DocumentsOK
  <1>2. \A d \in Callers \ {c} : CallerOK(caller[d])'
    <2>1. \A d \in Callers \ {c} : caller'[d] = caller[d]
      BY <1>1
    <2>2. Callers \ {c} \in SUBSET Callers
      OBVIOUS
    <2>3. QED
      BY <2>1, <2>2, CallersStand
  <1>3. CallerOK(caller[c])'
    <2>1. PICK x : x = caller'[c]
      OBVIOUS
    <2>2. x = call
      BY <1>1, <2>1
    <2>3. QED
      BY <2>1, <2>2
  <1>4. \A d \in Callers : CallerOK(caller[d])'
    BY <1>2, <1>3
  <1>5. OneCaller'
    <2>1. OneCaller
      BY DEF ActivityInv
    <2>2. SUFFICES ASSUME NEW d \in Callers, NEW e \in Callers, d # e,
                          caller'[d].at \in {"send", "record"}, caller'[e].at \in {"send", "record"}
                   PROVE  caller'[d].message # caller'[e].message
      BY DEF OneCaller
    <2>3. CASE d = c
      BY <1>1, <2>2, <2>3
    <2>4. CASE e = c
      BY <1>1, <2>2, <2>4
    <2>5. CASE d # c /\ e # c
      BY <1>1, <2>1, <2>2, <2>5 DEF OneCaller
    <2>6. QED
      BY <2>3, <2>4, <2>5
  <1>6. QED
    BY <1>4, <1>5

\* Nothing is stored and no provider is called: a call begins, reads or ends.
LEMMA OnlyCalls ==
  ASSUME ActivityAssumption, ActivityInv, NEW c \in Callers, NEW call, caller' = [caller EXCEPT ![c] = call],
         CallerOK(call), call.at \notin {"send", "record"},
         UNCHANGED <<event, world, profile, mark, page, message, handed, passed, reached>>
  PROVE  ActivityInv'
  <1>1. MovesOn
    <2>1. /\ \A m \in 1..MaxMessages : message[m].revision \in Nat
          /\ \A e \in Seqs : mark[e].revision \in Nat
          /\ profile.revision \in Nat
      BY DEF ActivityInv, DocumentsOK, Message, Mark, Profile
    <2>2. Happened' = Happened
      BY DEF Happened
    <2>3. QED
      BY <2>1, <2>2 DEF MovesOn
  <1>2. DocumentsOK'
    <2>1. caller' = [d \in Callers |-> caller'[d]]
      BY DEF ActivityInv, DocumentsOK
    <2>2. QED
      BY <2>1 DEF ActivityInv, DocumentsOK, Happened
  <1>3. CallerOK(call)'
    <2>1. ~Sends(call)
      BY DEF Sends
    <2>2. DocumentsOK
      BY DEF ActivityInv
    <2>3. QED
      BY <1>1, <1>2, <2>1, <2>2, CallStays
  <1>4. (\A d \in Callers : CallerOK(caller[d]))' /\ OneCaller'
    BY <1>1, <1>2, <1>3, TurnsTo
  <1>5. (\A t \in 1..MaxPages : page[t].made => Covers(page[t].scope, page[t].through))'
    BY DEF ActivityInv, Covers, Happened
  <1>6. (\A s \in Scopes : Covers(s, profile.checkpoint[s]))'
    BY DEF ActivityInv, Covers, Happened
  <1>7. (\A m \in 1..MaxMessages : MessageOK(m))' /\ DigestsOK'
    BY DEF ActivityInv, MessageOK, DigestsOK, CurrentDigests
  <1>8. QED
    BY <1>2, <1>4, <1>5, <1>6, <1>7 DEF ActivityInv

-----------------------------------------------------------------------------
\* The first state: nothing has happened and nothing was asked.
LEMMA ActivityStart ==
  ASSUME ActivityAssumption, ActivityInit
  PROVE  ActivityInv
  <1> USE DEF ActivityInit, ActivityAssumption
  <1>1. Happened = 1..0
    BY DEF Happened, Seqs, NothingYet
  <1>2. NothingYet \in ActivityRow /\ NoPage \in Handed /\ NoMessage \in Message /\ {} \in Scopes
    BY DEF NothingYet, ActivityRow, NoPage, Handed, NoMessage, Message, Scopes
  <1>3. profile \in Profile
    BY <1>2 DEF Profile
  <1>4. DocumentsOK
    <2>1. mark \in [Seqs -> Mark]
      BY DEF Mark
    <2>2. /\ event \in [Seqs -> ActivityRow] /\ page \in [1..MaxPages -> Handed] /\ message \in [1..MaxMessages -> Message]
          /\ handed \in [Scopes -> SUBSET Seqs] /\ reached \in [1..MaxMessages -> Nat]
      BY <1>2
    <2>3. \E n \in 0..MaxEvents : Happened = 1..n
      <3>1. 0 \in 0..MaxEvents
        OBVIOUS
      <3>2. QED
        BY <1>1, <3>1
    <2>4. world.readable \subseteq Creators /\ world.hidden \subseteq Seqs
      OBVIOUS
    <2>5. caller = [c \in Callers |-> caller[c]]
      OBVIOUS
    <2>6. QED
      BY <1>3, <2>1, <2>2, <2>3, <2>4, <2>5 DEF DocumentsOK
  <1>5. \A s \in Scopes : Covers(s, profile.checkpoint[s])
    BY <1>1 DEF Covers
  <1>6. \A t \in 1..MaxPages : ~page[t].made
    BY DEF NoPage
  <1>7. \A c \in Callers : CallerOK(caller[c]) /\ caller[c].at = "idle"
    BY DEF CallerOK, NotBusy
  <1>8. \A m \in 1..MaxMessages : MessageOK(m)
    BY DEF MessageOK, NoMessage
  <1>9. OneCaller
    BY <1>7 DEF OneCaller
  <1>10. DigestsOK
    BY DEF DigestsOK, CurrentDigests, NoMessage
  <1>11. QED
    BY <1>4, <1>5, <1>6, <1>7, <1>8, <1>9, <1>10 DEF ActivityInv

\* A call begins with the profile that is stored.
LEMMA CallBegins ==
  ASSUME ActivityAssumption, ActivityInv, NEW c \in Callers, NEW op, NEW input,
         caller' = [caller EXCEPT ![c] = [at |-> op, input |-> input, profile |-> profile]],
         UNCHANGED <<event, world, profile, mark, page, message, handed, passed, reached>>,
         AsksFor(op, input)
  PROVE  ActivityInv'
  <1>1. PICK p : p = profile
    OBVIOUS
  <1>2. PICK call : call = [at |-> op, input |-> input, profile |-> p]
    OBVIOUS
  <1>3. ProfileRead(profile)
    BY DEF ActivityInv, DocumentsOK, ProfileRead, Profile
  <1>4. ProfileRead(p)
    BY <1>1, <1>3
  <1>5. Asks(call)
    BY <1>2, <1>4 DEF Asks
  <1>6. CallerOK(call) /\ call.at \notin {"send", "record"} /\ caller' = [caller EXCEPT ![c] = call]
    BY <1>1, <1>2, <1>5 DEF CallerOK, AsksFor
  <1>7. QED
    BY <1>6, OnlyCalls

\* Where a call is tells what it holds.
LEMMA CallShapes ==
  ASSUME ActivityInv, NEW c \in Callers
  PROVE  /\ caller[c].at \in {"select", "prefer", "acknowledge", "activity", "prepare"} => Asks(caller[c])
         /\ caller[c].at = "gathered" => Gathered(caller[c])
         /\ caller[c].at = "claim" => Claims(caller[c])
         /\ caller[c].at \in {"send", "record"} => Sends(caller[c])
         /\ caller[c].at = "mark" => Marks(caller[c])
  <1>1. CallerOK(caller[c])
    BY DEF ActivityInv
  <1>2. PICK call : call = caller[c]
    OBVIOUS
  <1>3. call = NotBusy \/ Asks(call) \/ Gathered(call) \/ Claims(call) \/ Sends(call) \/ Marks(call)
    BY <1>1, <1>2 DEF CallerOK
  <1>4. /\ call = NotBusy => call.at = "idle"
        /\ Asks(call) => call.at \in {"select", "prefer", "acknowledge", "activity", "prepare"}
        /\ Gathered(call) => call.at = "gathered"
        /\ Claims(call) => call.at = "claim"
        /\ Sends(call) => call.at \in {"send", "record"}
        /\ Marks(call) => call.at = "mark"
    BY DEF NotBusy, Asks, AsksFor, Gathered, Claims, Sends, Marks
  <1>5. QED
    BY <1>2, <1>3, <1>4

LEMMA CallEnds ==
  ASSUME ActivityAssumption, ActivityInv, NEW c \in Callers, Leave(c),
         UNCHANGED <<event, world, profile, mark, page, message, handed, passed, reached>>
  PROVE  ActivityInv'
  <1>1. PICK call : call = NotBusy
    OBVIOUS
  <1>2. CallerOK(call) /\ call.at \notin {"send", "record"} /\ caller' = [caller EXCEPT ![c] = call]
    BY <1>1 DEF CallerOK, NotBusy, Leave
  <1>3. QED
    BY <1>2, OnlyCalls

\* What is in scope, now or by the profile that was read, is a set of creators.
LEMMA ScopesFit ==
  ASSUME ActivityInv, NEW p \in Profile
  PROVE  Scope(p.selection) \in Scopes
  BY DEF Scope, Scopes, ActivityInv, DocumentsOK, Profile

LEMMA CallsStart ==
  ASSUME ActivityAssumption, ActivityInv, NEW c \in Callers,
         \/ \E selection \in Scopes : Select(c, selection)
         \/ \E minimum \in Minimums, digests \in BOOLEAN, alerts \in {FALSE, "health" \in Kinds} : Prefer(c, digests, minimum, alerts)
         \/ \E t \in DOMAIN page : AcknowledgePage(c, t)
         \/ ReadActivity(c)
         \/ \E kind \in {"digest", "health"} : ReadDue(c, kind)
  PROVE  ActivityInv'
  <1> USE DEF Ask, Enter, outside, asked
  <1>1. CASE \E selection \in Scopes : Select(c, selection)
    <2>1. PICK selection \in Scopes : Select(c, selection)
      BY <1>1
    <2>2. AsksFor("select", selection)
      BY DEF AsksFor
    <2>3. /\ caller' = [caller EXCEPT ![c] = [at |-> "select", input |-> selection, profile |-> profile]]
          /\ UNCHANGED <<event, world, profile, mark, page, message, handed, passed, reached>>
      BY <2>1 DEF Select
    <2>4. QED
      BY <2>2, <2>3, CallBegins
  <1>2. ASSUME NEW minimum \in Minimums, NEW digests \in BOOLEAN, NEW alerts \in {FALSE, "health" \in Kinds},
               Prefer(c, digests, minimum, alerts)
        PROVE  ActivityInv'
    <2>1. PICK input : input = [digests |-> digests, minimum |-> minimum, alerts |-> alerts]
      OBVIOUS
    <2>2. AsksFor("prefer", input)
      <3>1. alerts \in BOOLEAN
        <4>1. ("health" \in Kinds) \in BOOLEAN
          OBVIOUS
        <4>2. alerts = FALSE \/ alerts = ("health" \in Kinds)
          OBVIOUS
        <4>3. QED
          BY <4>1, <4>2, Zenon
      <3>2. QED
        BY <2>1, <3>1 DEF AsksFor
    <2>3. caller' = [caller EXCEPT ![c] = [at |-> "prefer", input |-> input, profile |-> profile]]
      BY <1>2, <2>1 DEF Prefer
    <2>4. UNCHANGED <<event, world, profile, mark, page, message, handed, passed, reached>>
      BY <1>2 DEF Prefer
    <2>5. QED
      BY <2>2, <2>3, <2>4, CallBegins
  <1>3. ASSUME NEW t \in DOMAIN page, AcknowledgePage(c, t) PROVE ActivityInv'
    <2>1. PICK input : input = page[t]
      OBVIOUS
    <2>2. t \in 1..MaxPages /\ page[t].made
      BY <1>3 DEF AcknowledgePage, ActivityInv, DocumentsOK
    <2>3. Covers(page[t].scope, page[t].through)
      BY <2>2 DEF ActivityInv
    <2>4. input \in Handed /\ Covers(input.scope, input.through)
      BY <2>1, <2>2, <2>3 DEF ActivityInv, DocumentsOK
    <2>. AsksFor("acknowledge", input)
      BY <2>4 DEF AsksFor
    <2>5. caller' = [caller EXCEPT ![c] = [at |-> "acknowledge", input |-> input, profile |-> profile]]
      BY <1>3, <2>1 DEF AcknowledgePage
    <2>6. UNCHANGED <<event, world, profile, mark, page, message, handed, passed, reached>>
      BY <1>3 DEF AcknowledgePage
    <2>7. QED
      BY <2>4, <2>5, <2>6, CallBegins
  <1>4. CASE ReadActivity(c)
    <2>1. PICK input : input = Scope(profile.selection)
      OBVIOUS
    <2>2. input \in Scopes
      <3>1. PICK p : p = profile
        OBVIOUS
      <3>2. p \in Profile
        BY <3>1 DEF ActivityInv, DocumentsOK
      <3>3. Scope(p.selection) \in Scopes
        BY <3>2, ScopesFit
      <3>4. QED
        BY <2>1, <3>1, <3>3
    <2>. AsksFor("activity", input)
      BY <2>2 DEF AsksFor
    <2>3. caller' = [caller EXCEPT ![c] = [at |-> "activity", input |-> input, profile |-> profile]]
      BY <1>4, <2>1 DEF ReadActivity
    <2>4. UNCHANGED <<event, world, profile, mark, page, message, handed, passed, reached>>
      BY <1>4 DEF ReadActivity
    <2>5. QED
      BY <2>2, <2>3, <2>4, CallBegins
  <1>5. CASE \E kind \in {"digest", "health"} : ReadDue(c, kind)
    <2>1. PICK kind \in {"digest", "health"} : ReadDue(c, kind)
      BY <1>5
    <2>2. AsksFor("prepare", kind)
      BY DEF AsksFor
    <2>3. /\ caller' = [caller EXCEPT ![c] = [at |-> "prepare", input |-> kind, profile |-> profile]]
          /\ UNCHANGED <<event, world, profile, mark, page, message, handed, passed, reached>>
      BY <2>1 DEF ReadDue
    <2>4. QED
      BY <2>2, <2>3, CallBegins
  <1>6. QED
    BY <1>1, <1>2, <1>3, <1>4, <1>5

\* confirmReply, deliverNotification and mark read what they are about to change.
LEMMA DocumentRead ==
  ASSUME ActivityAssumption, ActivityInv, NEW c \in Callers,
         \/ \E m \in DOMAIN message : ReadMessage(c, m)
         \/ \E e \in Happened, action \in {"read", "resolve", "reopen"} : ReadMark(c, e, action)
  PROVE  ActivityInv'
  <1>1. ASSUME NEW m \in DOMAIN message, ReadMessage(c, m) PROVE ActivityInv'
    <2>1. PICK seen : seen = message[m]
      OBVIOUS
    <2>2. PICK call : call = [at |-> "claim", message |-> m, seen |-> seen]
      OBVIOUS
    <2>3. m \in 1..MaxMessages /\ message[m] \in Message /\ message[m].status = "ready" /\ MessageOK(m)
      BY <1>1 DEF ActivityInv, DocumentsOK, ReadMessage
    <2>4. message[m].revision \in Nat /\ message[m].kind # "none"
      BY <2>3 DEF Message, MessageOK
    <2>5. Claims(call)
      <3>1. /\ seen \in Message /\ seen.revision <= message[m].revision
            /\ seen.revision = message[m].revision => message[m].status = "ready"
        BY <2>1, <2>3, <2>4
      <3>2. QED
        BY <2>2, <2>3, <2>4, <3>1, ZenonT(30) DEF Claims
    <2>6. CallerOK(call) /\ call.at \notin {"send", "record"}
      BY <2>2, <2>5 DEF CallerOK
    <2>7. caller' = [caller EXCEPT ![c] = call] /\ UNCHANGED <<event, world, profile, mark, page, message, handed, passed, reached>>
      BY <1>1, <2>1, <2>2 DEF ReadMessage, Enter, outside, asked
    <2>8. QED
      BY <2>6, <2>7, OnlyCalls
  <1>2. ASSUME NEW e \in Happened, NEW action \in {"read", "resolve", "reopen"}, ReadMark(c, e, action) PROVE ActivityInv'
    <2>1. PICK seen : seen = mark[e]
      OBVIOUS
    <2>2. PICK call : call = [at |-> "mark", comment |-> e, action |-> action, seen |-> seen]
      OBVIOUS
    <2>3. e \in Seqs /\ mark[e] \in Mark
      BY DEF ActivityInv, DocumentsOK, Happened
    <2>4. Marks(call)
      <3>1. /\ seen \in Mark /\ seen.revision <= mark[e].revision
            /\ seen.revision = mark[e].revision => seen = mark[e]
        BY <2>1, <2>3 DEF Mark
      <3>2. QED
        BY <2>2, <2>3, <3>1, ZenonT(30) DEF Marks
    <2>5. CallerOK(call) /\ call.at \notin {"send", "record"}
      BY <2>2, <2>4 DEF CallerOK
    <2>6. caller' = [caller EXCEPT ![c] = call] /\ UNCHANGED <<event, world, profile, mark, page, message, handed, passed, reached>>
      BY <1>2, <2>1, <2>2 DEF ReadMark, Enter, outside, asked
    <2>7. QED
      BY <2>5, <2>6, OnlyCalls
  <1>3. QED
    BY <1>1, <1>2

\* The events from a cursor to the end of the rows that were looked at were gathered or out of sight.
LEMMA RowsWhole ==
  ASSUME ActivityAssumption, ActivityInv, NEW scope \in Scopes, NEW after \in 0..MaxEvents, NEW kind \in {"digest", "health"},
         NEW found, found = FirstOf(Matching(scope, after, kind), PageSize * Batches),
         NEW rows, rows = Rows(found), NEW cursor, cursor = Latest(rows, after)
  PROVE  /\ rows \subseteq Seqs /\ cursor \in 0..MaxEvents /\ after <= cursor
         /\ FirstOf({e \in rows : Available(e)}, NoteSize) \subseteq after + 1..cursor
         /\ kind = "digest" => after + 1..cursor \subseteq
              FirstOf({e \in rows : Available(e)}, NoteSize) \cup {e \in 1..cursor : ~(Available(e) /\ event[e].creator \in scope)}
  <1> DEFINE all == Matching(scope, after, kind)
  <1>1. /\ all \subseteq Seqs /\ found \subseteq all /\ rows \subseteq found /\ Happened \subseteq Seqs
        /\ \A e \in all : after < e
    BY DEF Matching, FirstOf, Rows, Happened
  <1>2. /\ cursor \in rows \cup {after} /\ cursor \in 0..MaxEvents /\ after <= cursor /\ \A e \in rows : e <= cursor
    BY <1>1, LatestRow
  <1>3. FirstOf({e \in rows : Available(e)}, NoteSize) \subseteq rows
    BY DEF FirstOf
  <1>4. ASSUME NEW e \in rows PROVE e \in after + 1..cursor
    <2>1. after < e /\ e <= cursor /\ e \in Nat /\ after \in Nat /\ cursor \in Nat
      BY <1>1, <1>2 DEF Seqs
    <2>2. QED
      BY <2>1
  <1>5. ASSUME kind = "digest", NEW e \in after + 1..cursor, Available(e), event[e].creator \in scope
        PROVE  e \in FirstOf({f \in rows : Available(f)}, NoteSize)
    <2>1. /\ after \in Nat /\ cursor \in Nat /\ e \in Nat /\ MaxEvents \in Nat /\ after < e /\ e <= cursor
          /\ cursor <= MaxEvents
      BY <1>2 DEF ActivityAssumption
    <2>2. cursor \in rows
      BY <1>2, <2>1
    <2>3. e \in Happened
      <3>1. PICK n \in 0..MaxEvents : Happened = 1..n
        BY DEF ActivityInv, DocumentsOK
      <3>2. cursor \in Happened
        BY <1>1, <2>2 DEF Matching
      <3>3. QED
        BY <2>1, <3>1, <3>2
    <2>4. e \in all
      <3>1. event[e] \in ActivityRow /\ event[e].kind # "none"
        BY <2>3 DEF ActivityInv, DocumentsOK, Happened
      <3>2. event[e].kind \in Of(kind)
        BY <1>5, <3>1 DEF Of, ActivityRow
      <3>3. QED
        BY <1>5, <2>1, <2>3, <3>2 DEF Matching
    <2>5. e \in found
      <3>1. PageSize * Batches \in Nat
        BY DEF ActivityAssumption
      <3>2. cursor \in found
        BY <1>1, <2>2
      <3>3. QED
        BY <1>1, <2>1, <2>4, <3>1, <3>2, FirstRows
    <2>6. /\ IsFiniteSet({f \in found : f < cursor /\ Available(f)})
          /\ Cardinality({f \in found : f < e /\ Available(f)}) <= Cardinality({f \in found : f < cursor /\ Available(f)})
          /\ Cardinality({f \in found : f < e /\ Available(f)}) \in Nat
          /\ Cardinality({f \in found : f < cursor /\ Available(f)}) \in Nat
      <3>1. IsFiniteSet(1..MaxEvents)
        BY <2>1, FS_Interval
      <3>2. {f \in found : f < cursor /\ Available(f)} \in SUBSET (1..MaxEvents)
        BY <1>1 DEF Seqs
      <3>3. {f \in found : f < e /\ Available(f)} \in SUBSET {f \in found : f < cursor /\ Available(f)}
        <4>1. ASSUME NEW f \in found, f < e PROVE f < cursor
          <5>1. f \in Nat
            BY <1>1 DEF Seqs
          <5>2. QED
            BY <2>1, <4>1, <5>1
        <4>2. QED
          BY <4>1
      <3>4. QED
        BY <3>1, <3>2, <3>3, FS_Subset, FS_CardinalityType
    <2>7. Cardinality({f \in found : f < cursor /\ Available(f)}) < NoteSize
      BY <2>2 DEF Rows
    <2>8. Cardinality({f \in found : f < e /\ Available(f)}) < NoteSize
      BY <2>6, <2>7 DEF ActivityAssumption
    <2>9. e \in rows
      BY <2>5, <2>8 DEF Rows
    <2>10. Cardinality({f \in {g \in rows : Available(g)} : f <= e}) <= NoteSize
      <3>1. IsFiniteSet({f \in found : f < e /\ Available(f)})
        <4>1. IsFiniteSet(1..MaxEvents)
          BY <2>1, FS_Interval
        <4>2. {f \in found : f < e /\ Available(f)} \in SUBSET (1..MaxEvents)
          BY <1>1 DEF Seqs
        <4>3. QED
          BY <4>1, <4>2, FS_Subset
      <3>2. e \notin {f \in found : f < e /\ Available(f)}
        BY <2>1
      <3>3. /\ IsFiniteSet({f \in found : f < e /\ Available(f)} \cup {e})
            /\ Cardinality({f \in found : f < e /\ Available(f)} \cup {e}) = Cardinality({f \in found : f < e /\ Available(f)}) + 1
        BY <3>1, <3>2, FS_AddElement
      <3>4. {f \in {g \in rows : Available(g)} : f <= e} \in SUBSET ({f \in found : f < e /\ Available(f)} \cup {e})
        <4>1. ASSUME NEW f \in rows, f <= e PROVE f < e \/ f = e
          <5>1. f \in Nat
            BY <1>1 DEF Seqs
          <5>2. QED
            BY <2>1, <4>1, <5>1
        <4>2. QED
          BY <1>1, <4>1
      <3>5. /\ Cardinality({f \in {g \in rows : Available(g)} : f <= e}) <= Cardinality({f \in found : f < e /\ Available(f)} \cup {e})
            /\ IsFiniteSet({f \in {g \in rows : Available(g)} : f <= e})
        BY <3>3, <3>4, FS_Subset
      <3>6. Cardinality({f \in {g \in rows : Available(g)} : f <= e}) \in Nat
        BY <3>5, FS_CardinalityType
      <3>7. QED
        BY <2>6, <2>8, <3>3, <3>5, <3>6 DEF ActivityAssumption
    <2>11. QED
      BY <1>5, <2>9, <2>10 DEF FirstOf
  <1>6. rows \subseteq Seqs
    BY <1>1
  <1>7. FirstOf({e \in rows : Available(e)}, NoteSize) \subseteq after + 1..cursor
    BY <1>3, <1>4
  <1>8. ASSUME kind = "digest", NEW e \in after + 1..cursor, ~(Available(e) /\ event[e].creator \in scope)
        PROVE  e \in {f \in 1..cursor : ~(Available(f) /\ event[f].creator \in scope)}
    <2>1. e \in 1..cursor
      OBVIOUS
    <2>2. QED
      BY <1>8, <2>1
  <1>9. QED
    BY <1>2, <1>5, <1>6, <1>7, <1>8

\* prepareNotification gathers a page after the cursor it read.
LEMMA PageGathered ==
  ASSUME ActivityAssumption, ActivityInv, NEW c \in Callers, Gather(c)
  PROVE  ActivityInv'
  <1>1. caller[c].at = "prepare" /\ Asks(caller[c])
    BY CallShapes DEF Gather
  <1>2. PICK kind, p : caller[c] = [at |-> "prepare", input |-> kind, profile |-> p] /\ ProfileRead(p) /\ kind \in {"digest", "health"}
    BY <1>1 DEF Asks, AsksFor
  <1>3. UNCHANGED <<event, world, profile, mark, page, message, handed, passed, reached>>
    BY DEF Gather, outside, asked
  <1>4. CASE ~Admitted(p.selection)
    <2>1. caller' = [caller EXCEPT ![c] = NotBusy]
      BY <1>2, <1>4 DEF Gather
    <2>2. QED
      BY <1>3, <2>1, CallEnds DEF Leave
  <1>5. CASE Admitted(p.selection)
    <2> DEFINE seen == caller[c].profile
               after == After(seen, caller[c].input)
               found == FirstOf(Matching(Scope(seen.selection), after, caller[c].input), PageSize * Batches)
               rows == Rows(found)
               cursor == Latest(rows, after)
               events == FirstOf({e \in rows : Available(e)}, NoteSize)
               out == {e \in 1..cursor : ~(Available(e) /\ event[e].creator \in Scope(seen.selection))}
               call == [at |-> "gathered", kind |-> caller[c].input, profile |-> seen, rows |-> rows, cursor |-> cursor,
                        events |-> events, out |-> out]
    <2>1. Admitted(seen.selection) /\ caller[c].input \in {"digest", "health"} /\ ProfileRead(seen)
      BY <1>2, <1>5
    <2>2. caller' = [caller EXCEPT ![c] = call]
      BY <2>1 DEF Gather
    <2>3. seen \in Profile /\ Scope(seen.selection) \in Scopes /\ after \in 0..MaxEvents
      <3>1. seen \in Profile
        BY <2>1 DEF ProfileRead
      <3>2. QED
        BY <3>1, ScopesFit DEF After, Profile
    <2>4. /\ rows \subseteq Seqs /\ cursor \in 0..MaxEvents /\ after <= cursor /\ events \subseteq after + 1..cursor
          /\ caller[c].input = "digest" => after + 1..cursor \subseteq events \cup out
      BY <2>1, <2>3, RowsWhole
    <2>5. events \subseteq Seqs
      BY <2>4 DEF FirstOf
    <2>6. caller[c].input = "digest" => after = seen.digestAfter
      BY DEF After
    <2>7. Gathered(call)
      <3>1. PICK k, p1, r, n, v, o : /\ k = caller[c].input /\ p1 = seen /\ r = rows /\ n = cursor /\ v = events /\ o = out
        OBVIOUS
      <3>2. call = [at |-> "gathered", kind |-> k, profile |-> p1, rows |-> r, cursor |-> n, events |-> v, out |-> o]
        BY <3>1
      <3> HIDE DEF call, seen, rows, cursor, events, out, after
      <3>3. k \in {"digest", "health"} /\ ProfileRead(p1) /\ n \in 0..MaxEvents /\ v \subseteq Seqs
        BY <2>1, <2>4, <2>5, <3>1
      <3>4. k = "digest" =>
              /\ p1.digestAfter <= n /\ v \subseteq p1.digestAfter + 1..n
              /\ p1.digestAfter + 1..n \subseteq v \cup o
        BY <2>4, <2>6, <3>1
      <3>5. QED
        BY <3>2, <3>3, <3>4, ZenonT(30) DEF Gathered
    <2>8. CallerOK(call) /\ call.at \notin {"send", "record"}
      <3> HIDE DEF seen, rows, cursor, events, out, after
      <3>1. QED
        BY <2>7 DEF CallerOK
    <2> HIDE DEF call
    <2>9. QED
      BY <1>3, <2>2, <2>8, OnlyCalls
  <1>6. QED
    BY <1>4, <1>5

-----------------------------------------------------------------------------
(* Steps of the platforms and of the settings.                              *)

\* Documents that do not change go on as they are.
LEMMA DocumentsGrow ==
  ASSUME ActivityInv
  PROVE  /\ UNCHANGED event => Happened' = Happened
         /\ UNCHANGED caller => caller' = [c \in Callers |-> caller'[c]]
         /\ profile.revision \in Nat /\ \A m \in 1..MaxMessages : message[m].revision \in Nat
         /\ \A e \in Seqs : mark[e].revision \in Nat
  BY DEF ActivityInv, DocumentsOK, Happened, Profile, Message, Mark

\* Pages and checkpoints cover what they covered.
LEMMA PagesCover ==
  ASSUME ActivityInv, MovesOn
  PROVE  /\ UNCHANGED page => (\A t \in 1..MaxPages : page[t].made => Covers(page[t].scope, page[t].through))'
         /\ profile'.checkpoint = profile.checkpoint => (\A s \in Scopes : Covers(s, profile.checkpoint[s]))'
  <1>1. ASSUME UNCHANGED page, NEW t \in 1..MaxPages, page'[t].made PROVE Covers(page[t].scope, page[t].through)'
    <2>1. PICK s, n : s = page[t].scope /\ n = page[t].through /\ s = page'[t].scope /\ n = page'[t].through
      BY <1>1
    <2>2. s \in Scopes /\ n \in Nat /\ Covers(s, n)
      BY <1>1, <2>1 DEF ActivityInv, DocumentsOK, Handed
    <2>3. Covers(s, n)'
      BY <2>2, CoversStays
    <2>4. QED
      BY <2>1, <2>3
  <1>2. ASSUME profile'.checkpoint = profile.checkpoint, NEW s \in Scopes PROVE Covers(s, profile.checkpoint[s])'
    <2>1. PICK n : n = profile.checkpoint[s] /\ n = profile'.checkpoint[s]
      BY <1>2
    <2>2. n \in Nat /\ Covers(s, n)
      <3>1. profile.checkpoint \in [Scopes -> 0..MaxEvents] /\ Covers(s, profile.checkpoint[s])
        BY DEF ActivityInv, DocumentsOK, Profile
      <3>2. Covers(s, n)
        BY <2>1, <3>1, Zenon
      <3>3. n \in 0..MaxEvents
        BY <2>1, <3>1
      <3>4. QED
        BY <3>2, <3>3
    <2>3. Covers(s, n)'
      BY <2>2, CoversStays
    <2>4. QED
      BY <2>1, <2>3
  <1>3. QED
    BY <1>1, <1>2

\* append gives the next sequence.
LEMMA EventAppended ==
  ASSUME ActivityAssumption, ActivityInv, NEW creator \in Creators, NEW kind \in Kinds, AppendEvent(creator, kind)
  PROVE  /\ event' \in [Seqs -> ActivityRow] /\ (\E n \in 0..MaxEvents : Happened = 1..n)'
         /\ Happened \subseteq Happened' /\ \A e \in Happened : event'[e] = event[e]
         /\ \A f \in Happened : \A e \in Happened' \ Happened : f < e
  <1>1. PICK n \in 0..MaxEvents : Happened = 1..n
    BY DEF ActivityInv, DocumentsOK
  <1>2. Cardinality(Happened) = n
    <2>1. Cardinality(1..n) = IF 1 > n THEN 0 ELSE n - 1 + 1
      BY FS_Interval
    <2>2. QED
      BY <1>1, <2>1
  <1>3. n + 1 \in Seqs /\ event' = [event EXCEPT ![n + 1] = [creator |-> creator, kind |-> kind]]
    BY <1>2 DEF AppendEvent
  <1>4. kind # "none" /\ [creator |-> creator, kind |-> kind] \in ActivityRow
    BY DEF ActivityAssumption, ActivityRow
  <1>5. event \in [Seqs -> ActivityRow]
    BY DEF ActivityInv, DocumentsOK
  <1>6. event' \in [Seqs -> ActivityRow] /\ \A e \in Seqs : event'[e] = IF e = n + 1 THEN [creator |-> creator, kind |-> kind] ELSE event[e]
    BY <1>3, <1>4, <1>5
  <1>7. \A e : e \in Happened' <=> e \in Happened \/ e = n + 1
    BY <1>3, <1>4, <1>6 DEF Happened
  <1>8. n + 1 \in 0..MaxEvents /\ Happened' = 1..n + 1
    <2>1. n + 1 \in 0..MaxEvents /\ n \in Nat
      BY <1>3 DEF Seqs, ActivityAssumption
    <2>2. \A e : e \in Happened' <=> e \in 1..n + 1
      <3>1. \A e : e \in 1..n + 1 <=> e \in 1..n \/ e = n + 1
        BY <2>1
      <3>2. QED
        BY <1>1, <1>7, <3>1
    <2>3. QED
      BY <2>1, <2>2
  <1>9. \A e \in Happened : event'[e] = event[e] /\ e < n + 1
    BY <1>1, <1>6 DEF Happened
  <1>10. QED
    BY <1>6, <1>7, <1>8, <1>9

\* A platform reports an event, access changes, or a digest falls due.
LEMMA WorldMoves ==
  ASSUME ActivityAssumption, ActivityInv,
         \/ \E creator \in Creators, kind \in Kinds : AppendEvent(creator, kind)
         \/ \E e \in Happened : Change(world.readable, IF e \in world.hidden THEN world.hidden \ {e} ELSE world.hidden \cup {e})
         \/ \E creator \in Creators : Change(IF creator \in world.readable THEN world.readable \ {creator}
                                            ELSE world.readable \cup {creator}, world.hidden)
         \/ FallsDue
  PROVE  ActivityInv'
  <1>1. /\ UNCHANGED <<mark, page, message, handed, passed, reached, caller>>
        /\ profile'.revision = profile.revision /\ profile'.checkpoint = profile.checkpoint
        /\ profile'.digestAfter = profile.digestAfter /\ profile'.epoch = profile.epoch /\ profile' \in Profile
    <2>1. profile \in Profile
      BY DEF ActivityInv, DocumentsOK
    <2>2. CASE FallsDue
      BY <2>1, <2>2 DEF FallsDue, Profile, outside, asked
    <2>3. CASE UNCHANGED profile /\ UNCHANGED <<mark, page, message, handed, passed, reached, caller>>
      BY <2>1, <2>3
    <2>4. QED
      BY <2>2, <2>3 DEF AppendEvent, Change, asked
  <1>2. world'.readable \subseteq Creators /\ world'.hidden \subseteq Seqs
    <2>1. world.readable \subseteq Creators /\ world.hidden \subseteq Seqs /\ Happened \subseteq Seqs
      BY DEF ActivityInv, DocumentsOK, Happened
    <2>2. ASSUME NEW e \in Happened,
                 Change(world.readable, IF e \in world.hidden THEN world.hidden \ {e} ELSE world.hidden \cup {e})
          PROVE  world'.readable \subseteq Creators /\ world'.hidden \subseteq Seqs
      BY <2>1, <2>2 DEF Change
    <2>3. ASSUME NEW creator \in Creators,
                 Change(IF creator \in world.readable THEN world.readable \ {creator}
                        ELSE world.readable \cup {creator}, world.hidden)
          PROVE  world'.readable \subseteq Creators /\ world'.hidden \subseteq Seqs
      BY <2>1, <2>3 DEF Change
    <2>4. QED
      BY <2>1, <2>2, <2>3 DEF AppendEvent, FallsDue, outside
  <1>3. /\ event' \in [Seqs -> ActivityRow] /\ (\E n \in 0..MaxEvents : Happened = 1..n)'
        /\ Happened \subseteq Happened' /\ \A e \in Happened : event'[e] = event[e]
        /\ \A f \in Happened : \A e \in Happened' \ Happened : f < e
    <2>1. CASE UNCHANGED event
      BY <2>1 DEF ActivityInv, DocumentsOK, Happened
    <2>2. QED
      BY <2>1, EventAppended DEF Change, FallsDue, outside
  <1>4. MovesOn
    BY <1>1, <1>3, DocumentsGrow DEF MovesOn
  <1>5. DocumentsOK'
    <2>1. caller' = [c \in Callers |-> caller'[c]]
      BY <1>1, DocumentsGrow
    <2>2. QED
      BY <1>1, <1>2, <1>3, <2>1 DEF ActivityInv, DocumentsOK
  <1>6. (\A c \in Callers : CallerOK(caller[c]))'
    BY <1>1, <1>4, <1>5, CallersStand
  <1>7. OneCaller' /\ (\A m \in 1..MaxMessages : MessageOK(m))' /\ DigestsOK'
    BY <1>1 DEF ActivityInv, OneCaller, MessageOK, DigestsOK, CurrentDigests
  <1>8. QED
    BY <1>1, <1>4, <1>5, <1>6, <1>7, PagesCover DEF ActivityInv

-----------------------------------------------------------------------------
(* Messages are drafted, claimed, sent and retried.                         *)

\* Who is sending a message has it as it was claimed.
LEMMA SenderHas ==
  ASSUME ActivityInv, NEW c \in Callers, caller[c].at \in {"send", "record"}
  PROVE  /\ caller[c].message \in 1..MaxMessages /\ message[caller[c].message].status = "sending"
         /\ message[caller[c].message].revision = caller[c].revision
         /\ caller[c].at = "send" => reached[caller[c].message] = 0
         /\ caller[c].at = "record" =>
              /\ caller[c].outcome \in {"sent", "not_sent", "unknown"}
              /\ caller[c].outcome = "not_sent" => reached[caller[c].message] = 0
  <1>1. Sends(caller[c])
    BY CallShapes
  <1>2. QED
    BY <1>1 DEF Sends

\* One message changes: drafted where there was none, or further on its way.
LEMMA MessageMoves ==
  ASSUME ActivityAssumption, ActivityInv, NEW m \in 1..MaxMessages, NEW new \in Message, message' = [message EXCEPT ![m] = new],
         UNCHANGED <<event, world, profile, mark, page, handed, passed>>, caller' = [c \in Callers |-> caller'[c]],
         reached' \in [1..MaxMessages -> Nat], \A n \in 1..MaxMessages : n # m => reached'[n] = reached[n],
         \/ new.kind = message[m].kind /\ new.epoch = message[m].epoch /\ new.events = message[m].events
         \/ message[m].kind = "none" /\ new.kind = "reply",
         message[m].kind # "none" => /\ message[m].revision <= new.revision
                                     /\ new.revision = message[m].revision => new.status = message[m].status,
         new.kind # "none", reached'[m] <= 1, reached'[m] # 0 => new.status \in {"sending", "sent", "unknown"}
  PROVE  DocumentsOK' /\ MovesOn /\ ((\A c \in Callers : CallerOK(caller[c]))' /\ OneCaller' => ActivityInv')
  <1>1. message \in [1..MaxMessages -> Message]
    BY DEF ActivityInv, DocumentsOK
  <1>2. message' \in [1..MaxMessages -> Message] /\ \A n \in 1..MaxMessages : message'[n] = IF n = m THEN new ELSE message[n]
    BY <1>1
  <1>3. DocumentsOK'
    BY <1>2 DEF ActivityInv, DocumentsOK, Happened
  <1>4. MovesOn
    BY <1>2, DocumentsGrow DEF MovesOn
  <1>5. (\A n \in 1..MaxMessages : MessageOK(n))'
    BY <1>2 DEF ActivityInv, MessageOK
  <1>6. DigestsOK'
    <2>1. \A n \in 1..MaxMessages : /\ message'[n].kind = "digest" <=> message[n].kind = "digest"
                                    /\ message[n].kind = "digest" => /\ message'[n].epoch = message[n].epoch
                                                                     /\ message'[n].events = message[n].events
      BY <1>2
    <2>2. CurrentDigests' = CurrentDigests
      BY <2>1 DEF CurrentDigests
    <2>3. \A n \in CurrentDigests : message'[n].events = message[n].events
      BY <2>1 DEF CurrentDigests
    <2>4. {message'[n].events : n \in CurrentDigests} = {message[n].events : n \in CurrentDigests}
      BY <2>3
    <2>5. DigestsOK
      BY DEF ActivityInv
    <2>6. QED
      BY <2>1, <2>2, <2>3, <2>4, <2>5 DEF DigestsOK
  <1>7. QED
    BY <1>3, <1>4, <1>5, <1>6, PagesCover DEF ActivityInv

\* A draft takes a free place.
LEMMA FreePlace ==
  ASSUME ActivityInv, NEW free, free = {m \in DOMAIN message : message[m].kind = "none"}, free # {}
  PROVE  Min(free) \in 1..MaxMessages /\ message[Min(free)].kind = "none" /\ MessageOK(Min(free))
  <1>1. free \subseteq 1..MaxMessages /\ free \subseteq Nat
    BY DEF ActivityInv, DocumentsOK
  <1>2. Min(free) \in free
    BY <1>1, LeastOne
  <1>3. QED
    BY <1>1, <1>2 DEF ActivityInv

\* A message at its next status.
AtStatus(old, status) == [old EXCEPT !.status = status, !.revision = old.revision + 1]

LEMMA MessageTurned ==
  ASSUME NEW old \in Message, NEW status \in {"ready", "sending", "sent", "not_sent", "unknown"}
  PROVE  LET new == AtStatus(old, status)
         IN /\ new \in Message /\ new.kind = old.kind /\ new.epoch = old.epoch /\ new.events = old.events
            /\ new.status = status /\ new.revision = old.revision + 1
            /\ old.revision <= new.revision /\ new.revision # old.revision
  <1>1. PICK new : new = AtStatus(old, status)
    OBVIOUS
  <1>2. new = [kind |-> old.kind, status |-> status, revision |-> old.revision + 1, events |-> old.events, epoch |-> old.epoch]
    BY <1>1 DEF Message, AtStatus
  <1>3. QED
    BY <1>1, <1>2 DEF Message

\* A message that nobody is sending changes.
LEMMA MessageOffered ==
  ASSUME ActivityAssumption, ActivityInv, NEW m \in 1..MaxMessages, NEW new \in Message,
         message' = [message EXCEPT ![m] = new], UNCHANGED <<event, world, profile, mark, page, handed, passed, reached, caller>>,
         message[m].status # "sending", reached[m] = 0, new.kind # "none",
         \/ new.kind = message[m].kind /\ new.epoch = message[m].epoch /\ new.events = message[m].events
         \/ message[m].kind = "none" /\ new.kind = "reply",
         message[m].kind # "none" => message[m].revision <= new.revision /\ new.revision # message[m].revision
  PROVE  ActivityInv'
  <1>1. caller' = [c \in Callers |-> caller'[c]] /\ reached' \in [1..MaxMessages -> Nat]
    BY DEF ActivityInv, DocumentsOK
  <1>2. /\ reached'[m] = 0 /\ reached'[m] <= 1
        /\ \A n \in 1..MaxMessages : n # m => reached'[n] = reached[n]
    OBVIOUS
  <1>3. DocumentsOK' /\ MovesOn /\ ((\A c \in Callers : CallerOK(caller[c]))' /\ OneCaller' => ActivityInv')
    BY <1>1, <1>2, MessageMoves
  <1>4. \A d \in Callers : caller[d].at \in {"send", "record"} =>
          message'[caller[d].message] = message[caller[d].message] /\ reached'[caller[d].message] = reached[caller[d].message]
    BY SenderHas DEF ActivityInv, DocumentsOK
  <1>5. (\A c \in Callers : CallerOK(caller[c]))'
    BY <1>3, <1>4, CallersStand
  <1>6. OneCaller'
    BY DEF ActivityInv, OneCaller
  <1>7. QED
    BY <1>3, <1>5, <1>6

LEMMA Retried ==
  ASSUME ActivityAssumption, ActivityInv, NEW m \in DOMAIN message, Retry(m)
  PROVE  ActivityInv'
  <1>1. /\ m \in 1..MaxMessages /\ message[m] \in Message /\ message[m].status = "not_sent" /\ message[m].kind # "none"
        /\ MessageOK(m) /\ reached[m] \in Nat
    BY DEF Retry, Retriable, ActivityInv, DocumentsOK
  <1>2. PICK old : old = message[m]
    OBVIOUS
  <1>3. PICK new : new = AtStatus(old, "ready")
    OBVIOUS
  <1>4. /\ new \in Message /\ new.kind = old.kind /\ new.epoch = old.epoch /\ new.events = old.events
        /\ old.revision <= new.revision /\ new.revision # old.revision
    BY <1>1, <1>2, <1>3, MessageTurned
  <1>5. message' = [message EXCEPT ![m] = new]
    BY <1>2, <1>3 DEF Retry, AtStatus
  <1>6. reached[m] = 0
    BY <1>1 DEF MessageOK
  <1>7. UNCHANGED <<event, world, profile, mark, page, handed, passed, reached, caller>>
    BY DEF Retry, outside, asked
  <1>8. QED
    BY <1>1, <1>2, <1>4, <1>5, <1>6, <1>7, MessageOffered

LEMMA ReplyDrafted ==
  ASSUME ActivityAssumption, ActivityInv, NEW e \in Happened, PreviewReply(e)
  PROVE  ActivityInv'
  <1>1. PICK free : free = {m \in DOMAIN message : message[m].kind = "none"}
    OBVIOUS
  <1>2. PICK m : m = Min(free)
    OBVIOUS
  <1>3. PICK new : new = [NoMessage EXCEPT !.kind = "reply", !.status = "ready", !.events = {e}]
    OBVIOUS
  <1>4. free # {} /\ message' = [message EXCEPT ![m] = new]
    BY <1>1, <1>2, <1>3 DEF PreviewReply
  <1>5. m \in 1..MaxMessages /\ message[m].kind = "none" /\ MessageOK(m) /\ reached[m] \in Nat
    BY <1>1, <1>2, <1>4, FreePlace DEF ActivityInv, DocumentsOK
  <1>6. new \in Message /\ new.kind = "reply"
    BY <1>3 DEF NoMessage, Message, Happened
  <1>7. message[m].status # "sending" /\ reached[m] = 0
    BY <1>5 DEF MessageOK
  <1>8. UNCHANGED <<event, world, profile, mark, page, handed, passed, reached, caller>>
    BY DEF PreviewReply, outside, asked
  <1>9. QED
    BY <1>4, <1>5, <1>6, <1>7, <1>8, MessageOffered

\* The first write of confirmReply and deliverNotification.
LEMMA MessageClaimed ==
  ASSUME ActivityAssumption, ActivityInv, NEW c \in Callers, Claim(c)
  PROVE  ActivityInv'
  <1>1. PICK m, seen : /\ caller[c] = [at |-> "claim", message |-> m, seen |-> seen]
                       /\ m \in 1..MaxMessages /\ message[m].kind # "none"
                       /\ seen.revision = message[m].revision => message[m].status = "ready"
    BY CallShapes DEF Claim, Claims
  <1>2. UNCHANGED <<event, world, profile, mark, page, handed, passed, reached>>
    BY DEF Claim, outside, asked
  <1>3. CASE ~Claimed(c)
    BY <1>2, <1>3, CallEnds DEF Claim
  <1>4. CASE Claimed(c)
    <2>1. message[m].status = "ready"
      BY <1>1, <1>4 DEF Claimed
    <2>2. message[m] \in Message /\ MessageOK(m) /\ reached \in [1..MaxMessages -> Nat] /\ message \in [1..MaxMessages -> Message]
      BY <1>1 DEF ActivityInv, DocumentsOK
    <2>3. reached[m] = 0
      BY <1>1, <2>1, <2>2 DEF MessageOK
    <2>4. PICK old, r : old = message[m] /\ r = old.revision + 1
      OBVIOUS
    <2>5. PICK new : new = AtStatus(old, "sending")
      OBVIOUS
    <2>6. /\ new \in Message /\ new.kind = message[m].kind /\ new.epoch = message[m].epoch /\ new.events = message[m].events
          /\ new.status = "sending" /\ new.revision = r /\ message[m].revision <= new.revision /\ new.revision # message[m].revision
      BY <2>2, <2>4, <2>5, MessageTurned
    <2>7. message' = [message EXCEPT ![m] = new]
      <3>1. message' = [message EXCEPT ![m].status = "sending", ![m].revision = @ + 1]
        BY <1>1, <1>4 DEF Claim
      <3>2. QED
        BY <2>2, <2>4, <2>5, <3>1 DEF AtStatus
    <2>8. PICK call : call = [at |-> "send", message |-> m, revision |-> r]
      OBVIOUS
    <2>9. caller' = [caller EXCEPT ![c] = call]
      BY <1>1, <1>4, <2>4, <2>8 DEF Claim
    <2>10. caller' = [d \in Callers |-> caller'[d]]
      BY <2>9 DEF ActivityInv, DocumentsOK
    <2>11. /\ reached' \in [1..MaxMessages -> Nat] /\ reached'[m] = 0 /\ reached'[m] <= 1 /\ new.kind # "none"
           /\ \A n \in 1..MaxMessages : n # m => reached'[n] = reached[n]
      BY <1>1, <1>2, <2>2, <2>3, <2>6
    <2>12. DocumentsOK' /\ MovesOn /\ ((\A d \in Callers : CallerOK(caller[d]))' /\ OneCaller' => ActivityInv')
      BY <1>1, <1>2, <2>6, <2>7, <2>10, <2>11, MessageMoves
    <2>13. CallerOK(call)'
      <3>1. Sends(call)'
        <4>1. message'[m].status = "sending" /\ message'[m].revision = r /\ reached'[m] = 0
          BY <1>1, <2>2, <2>6, <2>7, <2>11
        <4>2. QED
          BY <1>1, <2>8, <4>1, ZenonT(30) DEF Sends
      <3>2. QED
        BY <3>1 DEF CallerOK
    <2>14. \A d \in Callers \ {c} : caller[d].at \in {"send", "record"} =>
             /\ message'[caller[d].message] = message[caller[d].message] /\ reached'[caller[d].message] = reached[caller[d].message]
             /\ call.at \in {"send", "record"} => caller[d].message # call.message
      BY <1>2, <2>1, <2>2, <2>7, <2>8, SenderHas
    <2>15. QED
      BY <2>9, <2>12, <2>13, <2>14, TurnsTo
  <1>5. QED
    BY <1>3, <1>4

\* The provider is called once for a claim.
LEMMA ProviderCalled ==
  ASSUME ActivityAssumption, ActivityInv, NEW c \in Callers, NEW outcome \in {"sent", "not_sent", "unknown"}, Call(c, outcome)
  PROVE  ActivityInv'
  <1>1. PICK m, r : caller[c] = [at |-> "send", message |-> m, revision |-> r]
    <2>1. caller[c].at = "send" /\ Sends(caller[c])
      BY CallShapes DEF Call
    <2>2. PICK m, r, outcome2 :
            /\ \/ caller[c] = [at |-> "send", message |-> m, revision |-> r] /\ reached[m] = 0
               \/ /\ caller[c] = [at |-> "record", message |-> m, revision |-> r, outcome |-> outcome2]
                  /\ outcome2 = "not_sent" => reached[m] = 0
      BY <2>1 DEF Sends
    <2>3. caller[c] = [at |-> "send", message |-> m, revision |-> r]
      BY <2>1, <2>2
    <2>4. QED
      BY <2>3
  <1>2. m \in 1..MaxMessages /\ message[m].status = "sending" /\ message[m].revision = r /\ reached[m] = 0
    BY <1>1, SenderHas
  <1>3. UNCHANGED <<event, world, profile, mark, page, message, handed, passed>>
    BY DEF Call, outside, asked
  <1>4. message[m] \in Message /\ MessageOK(m) /\ reached \in [1..MaxMessages -> Nat] /\ message \in [1..MaxMessages -> Message]
    BY <1>2 DEF ActivityInv, DocumentsOK
  <1>5. PICK new : new = message[m]
    OBVIOUS
  <1>6. message' = [message EXCEPT ![m] = new] /\ new \in Message /\ new.status = "sending" /\ new.kind # "none"
    BY <1>2, <1>3, <1>4, <1>5 DEF MessageOK
  <1>7. /\ reached' \in [1..MaxMessages -> Nat] /\ \A n \in 1..MaxMessages : n # m => reached'[n] = reached[n]
        /\ reached'[m] <= 1
        /\ outcome = "not_sent" => reached'[m] = 0
    <2>1. CASE outcome = "not_sent"
      BY <1>2, <1>4, <2>1 DEF Call
    <2>2. CASE outcome # "not_sent"
      <3>1. reached' = [reached EXCEPT ![m] = reached[m] + 1]
        BY <1>1, <2>2 DEF Call
      <3>2. QED
        BY <1>2, <1>4, <2>2, <3>1
    <2>3. QED
      BY <2>1, <2>2
  <1>8. PICK call : call = [at |-> "record", message |-> m, revision |-> r, outcome |-> outcome]
    OBVIOUS
  <1>9. caller' = [caller EXCEPT ![c] = call]
    BY <1>1, <1>8 DEF Call
  <1>10. caller' = [d \in Callers |-> caller'[d]]
    BY <1>9 DEF ActivityInv, DocumentsOK
  <1>11. /\ message[m].revision <= new.revision /\ new.status = message[m].status
         /\ new.kind = message[m].kind /\ new.epoch = message[m].epoch /\ new.events = message[m].events
    BY <1>4, <1>5 DEF Message
  <1>12. DocumentsOK' /\ MovesOn /\ ((\A d \in Callers : CallerOK(caller[d]))' /\ OneCaller' => ActivityInv')
    BY <1>2, <1>3, <1>6, <1>7, <1>10, <1>11, MessageMoves
  <1>13. CallerOK(call)'
    <2>1. Sends(call)'
      <3>1. message'[m].status = "sending" /\ message'[m].revision = r
        BY <1>2, <1>3
      <3>2. QED
        BY <1>2, <1>7, <1>8, <3>1, ZenonT(30) DEF Sends
    <2>2. QED
      BY <2>1 DEF CallerOK
  <1>14. \A d \in Callers \ {c} : caller[d].at \in {"send", "record"} =>
           /\ message'[caller[d].message] = message[caller[d].message] /\ reached'[caller[d].message] = reached[caller[d].message]
           /\ call.at \in {"send", "record"} => caller[d].message # call.message
    <2>1. \A d \in Callers \ {c} : caller[d].at \in {"send", "record"} => caller[d].message # m /\ caller[d].message \in 1..MaxMessages
      BY <1>1, SenderHas DEF ActivityInv, OneCaller
    <2>2. QED
      BY <1>3, <1>7, <1>8, <2>1
  <1>15. QED
    BY <1>9, <1>12, <1>13, <1>14, TurnsTo

\* What is recorded of the call ends the sending.
LEMMA OutcomeRecorded ==
  ASSUME ActivityAssumption, ActivityInv, NEW c \in Callers, RecordOutcome(c)
  PROVE  ActivityInv'
  <1>1. PICK m : m = caller[c].message
    OBVIOUS
  <1>2. PICK outcome : outcome = caller[c].outcome
    OBVIOUS
  <1>3. /\ m \in 1..MaxMessages /\ message[m].status = "sending" /\ message[m].revision = caller[c].revision
        /\ outcome \in {"sent", "not_sent", "unknown"}
        /\ outcome = "not_sent" => reached[m] = 0
    BY <1>1, <1>2, SenderHas DEF RecordOutcome
  <1>4. UNCHANGED <<event, world, profile, mark, page, handed, passed, reached>>
    BY DEF RecordOutcome, outside, asked
  <1>5. message[m] \in Message /\ MessageOK(m) /\ reached \in [1..MaxMessages -> Nat] /\ message \in [1..MaxMessages -> Message]
    BY <1>3 DEF ActivityInv, DocumentsOK
  <1>16. PICK old : old = message[m]
    OBVIOUS
  <1>6. PICK new : new = AtStatus(old, outcome)
    OBVIOUS
  <1>7. /\ new \in Message /\ new.kind = message[m].kind /\ new.epoch = message[m].epoch /\ new.events = message[m].events
        /\ new.status = outcome /\ message[m].revision <= new.revision /\ new.revision # message[m].revision /\ new.kind # "none"
    <2>1. message[m].kind # "none"
      BY <1>3, <1>5 DEF MessageOK
    <2>2. QED
      BY <1>3, <1>5, <1>16, <1>6, <2>1, MessageTurned
  <1>8. message' = [message EXCEPT ![m] = new]
    BY <1>1, <1>2, <1>3, <1>16, <1>6 DEF RecordOutcome, AtStatus
  <1>9. PICK call : call = NotBusy
    OBVIOUS
  <1>10. caller' = [caller EXCEPT ![c] = call] /\ CallerOK(call)' /\ call.at = "idle"
    BY <1>9 DEF RecordOutcome, Leave, CallerOK, NotBusy
  <1>11. caller' = [d \in Callers |-> caller'[d]]
    BY <1>10 DEF ActivityInv, DocumentsOK
  <1>12. /\ reached' \in [1..MaxMessages -> Nat] /\ reached'[m] <= 1
         /\ reached'[m] # 0 => new.status \in {"sending", "sent", "unknown"}
         /\ \A n \in 1..MaxMessages : n # m => reached'[n] = reached[n]
    BY <1>3, <1>4, <1>5, <1>7 DEF MessageOK
  <1>13. DocumentsOK' /\ MovesOn /\ ((\A d \in Callers : CallerOK(caller[d]))' /\ OneCaller' => ActivityInv')
    BY <1>3, <1>4, <1>7, <1>8, <1>11, <1>12, MessageMoves
  <1>14. \A d \in Callers \ {c} : caller[d].at \in {"send", "record"} =>
           /\ message'[caller[d].message] = message[caller[d].message] /\ reached'[caller[d].message] = reached[caller[d].message]
           /\ call.at \in {"send", "record"} => caller[d].message # call.message
    <2>1. \A d \in Callers \ {c} : caller[d].at \in {"send", "record"} => caller[d].message # m /\ caller[d].message \in 1..MaxMessages
      BY <1>1, SenderHas DEF ActivityInv, OneCaller, RecordOutcome
    <2>2. QED
      BY <1>4, <1>5, <1>8, <1>10, <2>1
  <1>15. QED
    BY <1>10, <1>13, <1>14, TurnsTo

-----------------------------------------------------------------------------
(* Marks, settings, pages and notifications are committed.                  *)

\* mark compares the revision it read, or reads again.
LEMMA MarkCommitted ==
  ASSUME ActivityAssumption, ActivityInv, NEW c \in Callers, CommitMark(c)
  PROVE  ActivityInv' /\ MarksKept
  <1>0. PICK e, action, seen : e = caller[c].comment /\ action = caller[c].action /\ seen = caller[c].seen
    OBVIOUS
  <1>1. /\ caller[c] = [at |-> "mark", comment |-> e, action |-> action, seen |-> seen] /\ e \in Seqs /\ seen \in Mark
        /\ seen.revision = mark[e].revision => seen = mark[e]
    <2>1. PICK call : call = caller[c]
      OBVIOUS
    <2>2. Marks(call)
      BY <2>1, CallShapes DEF CommitMark
    <2>3. PICK f, a, r :
            /\ call = [at |-> "mark", comment |-> f, action |-> a, seen |-> r]
            /\ f \in Seqs /\ r \in Mark /\ r.revision <= mark[f].revision
            /\ r.revision = mark[f].revision => r = mark[f]
      BY <2>2, Zenon DEF Marks
    <2>4. f = e /\ a = action /\ r = seen
      BY <1>0, <2>1, <2>3
    <2>5. QED
      BY <2>1, <2>3, <2>4
  <1>2. UNCHANGED <<event, world, profile, page, message, handed, passed, reached>>
    BY DEF CommitMark, outside, asked
  <1>3. mark \in [Seqs -> Mark]
    BY DEF ActivityInv, DocumentsOK
  <1>4. CASE Leave(c) /\ UNCHANGED mark
    BY <1>2, <1>4, CallEnds DEF MarksKept
  <1>5. CASE ~MarkFits(c) /\ ~Leave(c)
    <2>1. PICK now : now = mark[e]
      OBVIOUS
    <2>2. PICK call : call = [at |-> "mark", comment |-> e, action |-> action, seen |-> now]
      OBVIOUS
    <2>3. UNCHANGED mark /\ caller' = [caller EXCEPT ![c].seen = mark[e]]
      BY <1>1, <1>5 DEF CommitMark
    <2>4. caller' = [caller EXCEPT ![c] = call]
      <3>1. [caller[c] EXCEPT !.seen = mark[e]] = call
        BY <1>1, <2>1, <2>2
      <3>2. QED
        BY <2>3, <3>1
    <2>5. Marks(call)
      <3>1. now \in Mark /\ now.revision <= mark[e].revision /\ now = mark[e]
        BY <1>1, <1>3, <2>1 DEF Mark
      <3>2. QED
        BY <1>1, <2>2, <3>1, ZenonT(30) DEF Marks
    <2>6. CallerOK(call) /\ call.at \notin {"send", "record"}
      BY <2>2, <2>5 DEF CallerOK
    <2>7. QED
      BY <1>2, <2>3, <2>4, <2>6, OnlyCalls DEF MarksKept
  <1>6. CASE MarkFits(c)
    <2>1. seen = mark[e]
      BY <1>1, <1>6 DEF MarkFits
    <2>2. PICK changed : changed = IF action = "read" THEN [seen EXCEPT !.read = TRUE] ELSE [seen EXCEPT !.resolved = action = "resolve"]
      OBVIOUS
    <2>3. /\ changed \in Mark /\ changed.revision = seen.revision /\ (seen.read => changed.read)
          /\ action = "read" => changed.resolved = seen.resolved
      <3>1. (action = "resolve") \in BOOLEAN
        OBVIOUS
      <3>2. CASE action = "read"
        BY <1>1, <2>2, <3>2 DEF Mark
      <3>3. CASE action # "read"
        BY <1>1, <2>2, <3>1, <3>3 DEF Mark
      <3>4. QED
        BY <3>2, <3>3
    <2>4. PICK r : r = mark[e].revision + 1
      OBVIOUS
    <2>5. PICK new : new = [changed EXCEPT !.revision = r]
      OBVIOUS
    <2>6. /\ new \in Mark /\ new.revision = r /\ r \in Nat /\ mark[e].revision <= r /\ mark[e].revision # r
          /\ new.read = changed.read /\ new.resolved = changed.resolved
      BY <1>1, <1>3, <2>3, <2>4, <2>5 DEF Mark
    <2>7. mark' = [mark EXCEPT ![e] = new] /\ Leave(c)
      <3>1. PICK its : its = caller[c]
        OBVIOUS
      <3>2. changed = IF its.action = "read" THEN [its.seen EXCEPT !.read = TRUE] ELSE [its.seen EXCEPT !.resolved = its.action = "resolve"]
        BY <1>1, <2>2, <3>1
      <3>3. mark' = [mark EXCEPT ![caller[c].comment] = [changed EXCEPT !.revision = mark[caller[c].comment].revision + 1]] /\ Leave(c)
        BY <1>6, <3>1, <3>2 DEF CommitMark
      <3>4. caller[c].comment = e
        BY <1>1
      <3>5. QED
        BY <2>4, <2>5, <3>3, <3>4
    <2>8. mark' \in [Seqs -> Mark] /\ \A f \in Seqs : mark'[f] = IF f = e THEN new ELSE mark[f]
      BY <1>3, <2>6, <2>7
    <2>9. MovesOn
      BY <1>2, <2>6, <2>8, DocumentsGrow DEF MovesOn
    <2>10. DocumentsOK'
      <3>1. caller' = [d \in Callers |-> caller'[d]]
        BY <2>7 DEF ActivityInv, DocumentsOK, Leave
      <3>2. QED
        BY <1>2, <2>8, <3>1 DEF ActivityInv, DocumentsOK, Happened
    <2>11. PICK call : call = NotBusy
      OBVIOUS
    <2>12. caller' = [caller EXCEPT ![c] = call] /\ CallerOK(call)' /\ call.at = "idle"
      BY <2>7, <2>11 DEF Leave, CallerOK, NotBusy
    <2>13. (\A d \in Callers : CallerOK(caller[d]))' /\ OneCaller'
      BY <1>2, <2>9, <2>10, <2>12, TurnsTo
    <2>14. (\A m \in 1..MaxMessages : MessageOK(m))' /\ DigestsOK'
      BY <1>2 DEF ActivityInv, MessageOK, DigestsOK, CurrentDigests
    <2>15. MarksKept
      <3>1. caller[c].at = "mark" /\ caller[c].comment = e /\ caller[c].action = action
        BY <1>1
      <3>2. /\ mark[e].read => mark'[e].read
            /\ mark'[e].resolved # mark[e].resolved => action # "read"
        BY <1>1, <2>1, <2>3, <2>6, <2>8
      <3>3. QED
        BY <2>8, <3>1, <3>2 DEF MarksKept
    <2>16. QED
      BY <1>2, <2>9, <2>10, <2>13, <2>14, <2>15, PagesCover DEF ActivityInv
  <1>7. QED
    BY <1>4, <1>5, <1>6 DEF CommitMark

\* The profile at its next revision, and perhaps a notification with it.
LEMMA ProfileCommits ==
  ASSUME ActivityAssumption, ActivityInv, NEW c \in Callers, Leave(c),
         UNCHANGED <<event, world, mark, page, handed, reached>>,
         profile' \in Profile, profile'.revision = profile.revision + 1, \A s \in Scopes : Covers(s, profile'.checkpoint[s]),
         message' \in [1..MaxMessages -> Message],
         \A m \in 1..MaxMessages : message'[m] = message[m] \/ (message[m].kind = "none" /\ message'[m].kind # "none"),
         DigestsOK'
  PROVE  ActivityInv'
  <1>1. MovesOn
    <2>1. profile.revision \in Nat /\ profile.revision <= profile'.revision /\ profile'.revision # profile.revision
      BY DocumentsGrow
    <2>2. \A m \in 1..MaxMessages : message[m].kind # "none" => message'[m] = message[m] /\ message[m].revision \in Nat
      BY DocumentsGrow
    <2>3. Happened' = Happened /\ \A e \in Seqs : mark[e].revision \in Nat
      BY DocumentsGrow
    <2>4. QED
      BY <2>1, <2>2, <2>3 DEF MovesOn
  <1>2. DocumentsOK'
    <2>1. caller' = [d \in Callers |-> caller'[d]]
      BY DEF ActivityInv, DocumentsOK, Leave
    <2>2. QED
      BY <2>1 DEF ActivityInv, DocumentsOK, Happened
  <1>3. PICK call : call = NotBusy
    OBVIOUS
  <1>4. caller' = [caller EXCEPT ![c] = call] /\ CallerOK(call)' /\ call.at = "idle"
    BY <1>3 DEF Leave, CallerOK, NotBusy
  <1>5. \A d \in Callers : caller[d].at \in {"send", "record"} =>
          message'[caller[d].message] = message[caller[d].message] /\ reached'[caller[d].message] = reached[caller[d].message]
    <2>1. SUFFICES ASSUME NEW d \in Callers, caller[d].at \in {"send", "record"}
                   PROVE  message'[caller[d].message] = message[caller[d].message]
      OBVIOUS
    <2>2. PICK m : m = caller[d].message
      OBVIOUS
    <2>3. m \in 1..MaxMessages /\ message[m].status = "sending" /\ MessageOK(m)
      BY <2>1, <2>2, SenderHas DEF ActivityInv
    <2>4. QED
      BY <2>2, <2>3 DEF MessageOK
  <1>6. (\A d \in Callers : CallerOK(caller[d]))' /\ OneCaller'
    BY <1>1, <1>2, <1>4, <1>5, TurnsTo
  <1>7. ASSUME NEW m \in 1..MaxMessages PROVE MessageOK(m)'
    <2>1. MessageOK(m) /\ reached[m] \in Nat
      BY DEF ActivityInv, DocumentsOK
    <2>2. CASE message'[m] = message[m]
      BY <2>1, <2>2 DEF MessageOK
    <2>3. CASE message[m].kind = "none" /\ message'[m].kind # "none"
      BY <2>1, <2>3 DEF MessageOK
    <2>4. QED
      BY <2>2, <2>3
  <1>8. (\A s \in Scopes : Covers(s, profile.checkpoint[s]))'
    BY DEF Covers, Happened
  <1>9. QED
    BY <1>1, <1>2, <1>6, <1>7, <1>8, PagesCover DEF ActivityInv

\* The digests of an unchanged selection with an unchanged cursor.
LEMMA DigestsStay ==
  ASSUME ActivityInv, UNCHANGED <<message, passed>>, profile'.epoch = profile.epoch, profile'.digestAfter = profile.digestAfter
  PROVE  DigestsOK'
  BY DEF ActivityInv, DigestsOK, CurrentDigests

\* Checkpoints that stay are not taken back.
LEMMA SameCheckpoints ==
  ASSUME ActivityInv, profile'.checkpoint = profile.checkpoint
  PROVE  CheckpointsForward
  <1>1. profile.checkpoint \in [Scopes -> 0..MaxEvents]
    BY DEF ActivityInv, DocumentsOK, Profile
  <1>2. ASSUME NEW s \in Scopes PROVE profile'.checkpoint[s] >= profile.checkpoint[s]
    <2>1. profile.checkpoint[s] \in 0..MaxEvents /\ profile'.checkpoint[s] = profile.checkpoint[s]
      BY <1>1
    <2>2. QED
      BY <2>1
  <1>3. QED
    BY <1>2 DEF CheckpointsForward

\* select, preferences and acknowledge: the profile is written as it was read, or read again.
LEMMA ProfileWritten ==
  ASSUME ActivityAssumption, ActivityInv, NEW c \in Callers, CommitProfile(c)
  PROVE  ActivityInv' /\ CheckpointsForward
  <1>1. PICK op, input, p : /\ caller[c] = [at |-> op, input |-> input, profile |-> p] /\ ProfileRead(p) /\ AsksFor(op, input)
                            /\ op \in {"select", "prefer", "acknowledge"}
    <2>1. Asks(caller[c]) /\ caller[c].at \in {"select", "prefer", "acknowledge"}
      BY CallShapes DEF CommitProfile
    <2>2. PICK op, input, p : caller[c] = [at |-> op, input |-> input, profile |-> p] /\ ProfileRead(p) /\ AsksFor(op, input)
      BY <2>1 DEF Asks
    <2>3. QED
      BY <2>1, <2>2
  <1>2. UNCHANGED <<event, world, mark, page, message, handed, reached>>
    BY DEF CommitProfile, outside, asked
  <1>3. CASE p.revision # profile.revision
    <2>1. UNCHANGED <<profile, passed>> /\ (Leave(c) \/ caller' = [caller EXCEPT ![c].profile = profile])
      BY <1>1, <1>3 DEF CommitProfile, Write
    <2>2. CASE Leave(c)
      BY <1>2, <2>1, <2>2, CallEnds, SameCheckpoints
    <2>3. CASE caller' = [caller EXCEPT ![c].profile = profile]
      <3>1. caller' = [caller EXCEPT ![c] = [at |-> op, input |-> input, profile |-> profile]]
        <4>1. [caller[c] EXCEPT !.profile = profile] = [at |-> op, input |-> input, profile |-> profile]
          BY <1>1
        <4>2. QED
          BY <2>3, <4>1
      <3>2. QED
        BY <1>1, <1>2, <2>1, <3>1, CallBegins, SameCheckpoints
    <2>4. QED
      BY <2>1, <2>2, <2>3
  <1>4. CASE p.revision = profile.revision
    <2>1. p \in Profile /\ p.checkpoint = profile.checkpoint /\ p.digestAfter = profile.digestAfter /\ p.epoch = profile.epoch
      BY <1>1, <1>4 DEF ProfileRead
    <2>2. message' \in [1..MaxMessages -> Message] /\ \A m \in 1..MaxMessages : message'[m] = message[m]
      BY <1>2 DEF ActivityInv, DocumentsOK
    <2>3. CASE op = "select"
      <3>1. PICK new : new = [p EXCEPT !.selection = input, !.digestAfter = 0, !.healthAfter = 0, !.due = TRUE, !.epoch = p.epoch + 1]
        OBVIOUS
      <3>2. profile' = [new EXCEPT !.revision = new.revision + 1] /\ Leave(c) /\ (profile' # profile => passed' = {})
        BY <1>1, <1>4, <2>3, <3>1 DEF CommitProfile, Write
      <3>3. new \in Profile /\ new.revision = p.revision /\ new.checkpoint = p.checkpoint /\ new.digestAfter = 0 /\ new.epoch = p.epoch + 1
        <4>1. input \in Scopes /\ 0 \in 0..MaxEvents
          BY <1>1, <2>3 DEF AsksFor, ActivityAssumption
        <4>2. new = [revision |-> p.revision, selection |-> input, checkpoint |-> p.checkpoint, digestAfter |-> 0, healthAfter |-> 0,
                     due |-> TRUE, digests |-> p.digests, minimum |-> p.minimum, alerts |-> p.alerts, epoch |-> p.epoch + 1]
          BY <2>1, <3>1 DEF Profile
        <4>3. QED
          BY <2>1, <4>1, <4>2 DEF Profile
      <3>4. /\ profile' \in Profile /\ profile'.revision = profile.revision + 1 /\ profile'.checkpoint = profile.checkpoint
            /\ profile'.digestAfter = 0 /\ profile'.epoch = profile.epoch + 1
        BY <1>4, <2>1, <3>2, <3>3 DEF Profile
      <3>5. passed' = {}
        <4>1. profile.revision + 1 # profile.revision
          BY DocumentsGrow
        <4>2. profile' # profile
          BY <3>4, <4>1
        <4>3. QED
          BY <3>2, <4>2
      <3>6. DigestsOK'
        <4>1. \A m \in 1..MaxMessages : message[m].kind = "digest" => message[m].epoch \in Nat /\ message[m].epoch <= profile.epoch
          BY DEF ActivityInv, DigestsOK, DocumentsOK, Message
        <4>2. profile.epoch \in Nat
          BY DEF ActivityInv, DocumentsOK, Profile
        <4>3. \A m \in 1..MaxMessages : message'[m].kind = "digest" => message'[m].epoch <= profile'.epoch /\ message'[m].epoch # profile'.epoch
          BY <1>2, <3>4, <4>1, <4>2
        <4>4. CurrentDigests' = {}
          BY <4>3 DEF CurrentDigests
        <4>5. QED
          BY <3>4, <4>3, <4>4 DEF DigestsOK
      <3>7. \A s \in Scopes : Covers(s, profile'.checkpoint[s])
        BY <3>4 DEF ActivityInv
      <3>8. QED
        BY <1>2, <2>2, <3>2, <3>4, <3>6, <3>7, ProfileCommits, SameCheckpoints
    <2>4. CASE op = "prefer"
      <3>1. PICK new : new = [p EXCEPT !.digests = input.digests, !.minimum = input.minimum, !.alerts = input.alerts, !.due = FALSE]
        OBVIOUS
      <3>2. profile' = [new EXCEPT !.revision = new.revision + 1] /\ Leave(c) /\ UNCHANGED passed
        BY <1>1, <1>4, <2>4, <3>1 DEF CommitProfile, Write
      <3>3. input.digests \in BOOLEAN /\ input.minimum \in Minimums /\ input.alerts \in BOOLEAN
        BY <1>1, <2>4 DEF AsksFor
      <3>4. new \in Profile /\ new.revision = p.revision /\ new.checkpoint = p.checkpoint /\ new.digestAfter = p.digestAfter /\ new.epoch = p.epoch
        BY <2>1, <3>1, <3>3 DEF Profile
      <3>5. /\ profile' \in Profile /\ profile'.revision = profile.revision + 1 /\ profile'.checkpoint = profile.checkpoint
            /\ profile'.digestAfter = profile.digestAfter /\ profile'.epoch = profile.epoch
        BY <1>4, <2>1, <3>2, <3>4 DEF Profile
      <3>6. DigestsOK'
        BY <1>2, <3>2, <3>5, DigestsStay
      <3>7. \A s \in Scopes : Covers(s, profile'.checkpoint[s])
        BY <3>5 DEF ActivityInv
      <3>8. QED
        BY <1>2, <2>2, <3>2, <3>5, <3>6, <3>7, ProfileCommits, SameCheckpoints
    <2>5. CASE op = "acknowledge"
      <3>1. PICK scope, was, through : scope = input.scope /\ was = p.checkpoint[scope] /\ through = input.through
        OBVIOUS
      <3>2. scope \in Scopes /\ was \in 0..MaxEvents /\ through \in 0..MaxEvents /\ Covers(scope, was) /\ Covers(scope, through)
        <4>1. input \in Handed /\ Covers(input.scope, input.through)
          BY <1>1, <2>5 DEF AsksFor
        <4>2. scope \in Scopes /\ through \in 0..MaxEvents /\ Covers(scope, through)
          BY <3>1, <4>1 DEF Handed
        <4>3. p.checkpoint \in [Scopes -> 0..MaxEvents] /\ Covers(scope, p.checkpoint[scope])
          BY <1>1, <2>1, <4>2 DEF ProfileRead, Profile
        <4>4. QED
          BY <3>1, <4>2, <4>3
      <3>3. Checkpoint(was, through) \in {was, through} /\ Checkpoint(was, through) >= was
        BY <3>2, GreatestOne DEF Checkpoint, ActivityAssumption
      <3>4. PICK reach : reach = Checkpoint(was, through)
        OBVIOUS
      <3>5. reach \in 0..MaxEvents /\ Covers(scope, reach) /\ reach >= was
        BY <3>2, <3>3, <3>4
      <3>6. PICK new : new = [p EXCEPT !.checkpoint[scope] = reach]
        OBVIOUS
      <3>7. profile' = [new EXCEPT !.revision = new.revision + 1] /\ Leave(c) /\ UNCHANGED passed
        BY <1>1, <1>4, <2>5, <3>1, <3>4, <3>6 DEF CommitProfile, Write
      <3>8. /\ new \in Profile /\ new.revision = p.revision /\ new.digestAfter = p.digestAfter /\ new.epoch = p.epoch
            /\ new.checkpoint = [p.checkpoint EXCEPT ![scope] = reach]
        BY <2>1, <3>2, <3>5, <3>6 DEF Profile
      <3>9. /\ profile' \in Profile /\ profile'.revision = profile.revision + 1 /\ profile'.checkpoint = [p.checkpoint EXCEPT ![scope] = reach]
            /\ profile'.digestAfter = profile.digestAfter /\ profile'.epoch = profile.epoch
        BY <1>4, <2>1, <3>7, <3>8 DEF Profile
      <3>10. DigestsOK'
        BY <1>2, <3>7, <3>9, DigestsStay
      <3>11. \A s \in Scopes : Covers(s, profile'.checkpoint[s])
        <4>1. \A s \in Scopes : Covers(s, p.checkpoint[s])
          BY <1>1 DEF ProfileRead
        <4>2. p.checkpoint \in [Scopes -> 0..MaxEvents]
          BY <2>1 DEF Profile
        <4>3. \A s \in Scopes : profile'.checkpoint[s] = IF s = scope THEN reach ELSE p.checkpoint[s]
          BY <3>9, <4>2
        <4>4. QED
          BY <3>5, <4>1, <4>3
      <3>12. CheckpointsForward
        <4>1. p.checkpoint \in [Scopes -> 0..MaxEvents] /\ profile.checkpoint = p.checkpoint
          BY <2>1 DEF Profile
        <4>2. \A s \in Scopes : profile'.checkpoint[s] = IF s = scope THEN reach ELSE p.checkpoint[s]
          BY <3>9, <4>1
        <4>3. \A s \in Scopes : p.checkpoint[s] \in Nat
          BY <4>1
        <4>4. QED
          BY <3>1, <3>2, <3>5, <4>1, <4>2, <4>3 DEF CheckpointsForward
      <3>13. QED
        BY <1>2, <2>2, <3>7, <3>9, <3>10, <3>11, <3>12, ProfileCommits
    <2>6. QED
      BY <1>1, <2>3, <2>4, <2>5
  <1>5. QED
    BY <1>3, <1>4

\* activity hands out the events after the checkpoint it read, as many as a page holds.
LEMMA PageHandedOut ==
  ASSUME ActivityAssumption, ActivityInv, NEW c \in Callers, HandOut(c)
  PROVE  ActivityInv'
  <1>1. PICK scope, p : caller[c] = [at |-> "activity", input |-> scope, profile |-> p] /\ ProfileRead(p) /\ scope \in Scopes
    <2>1. caller[c].at = "activity" /\ Asks(caller[c])
      BY CallShapes DEF HandOut
    <2>2. PICK op, input, p : caller[c] = [at |-> op, input |-> input, profile |-> p] /\ ProfileRead(p) /\ AsksFor(op, input)
      BY <2>1 DEF Asks
    <2>3. op = "activity" /\ input \in Scopes
      BY <2>1, <2>2 DEF AsksFor
    <2>4. QED
      BY <2>2, <2>3
  <1>2. PICK after : after = p.checkpoint[scope]
    OBVIOUS
  <1>3. after \in 0..MaxEvents /\ Covers(scope, after)
    <2>1. p.checkpoint \in [Scopes -> 0..MaxEvents] /\ Covers(scope, p.checkpoint[scope])
      BY <1>1 DEF ProfileRead, Profile
    <2>2. QED
      BY <1>1, <1>2, <2>1
  <1>4. PICK all, rows : all = Matching(scope, after, "any") /\ rows = FirstOf(all, PageSize)
    OBVIOUS
  <1>5. PICK through : through = Latest(rows, after)
    OBVIOUS
  <1>6. all \subseteq Happened /\ Happened \subseteq Seqs /\ rows \subseteq all
    BY <1>4 DEF Matching, FirstOf, Happened
  <1>7. through \in rows \cup {after} /\ through \in 0..MaxEvents /\ after <= through
    BY <1>3, <1>5, <1>6, LatestRow
  <1>8. /\ \E t \in DOMAIN page : page' = [page EXCEPT ![t] = [scope |-> scope, through |-> through, made |-> TRUE]]
        /\ handed' = [handed EXCEPT ![scope] = handed[scope] \cup rows]
        /\ Leave(c) /\ UNCHANGED <<event, world, profile, mark, message, passed, reached>>
    <2>1. caller[c].input = scope /\ caller[c].profile = p
      BY <1>1
    <2>2. QED
      BY <1>2, <1>4, <1>5, <2>1 DEF HandOut, outside
  <1>9. PICK t \in 1..MaxPages : page' = [page EXCEPT ![t] = [scope |-> scope, through |-> through, made |-> TRUE]]
    BY <1>8 DEF ActivityInv, DocumentsOK
  <1>10. page \in [1..MaxPages -> Handed] /\ handed \in [Scopes -> SUBSET Seqs]
    BY DEF ActivityInv, DocumentsOK
  <1>11. /\ page' \in [1..MaxPages -> Handed]
         /\ \A u \in 1..MaxPages : page'[u] = IF u = t THEN [scope |-> scope, through |-> through, made |-> TRUE] ELSE page[u]
    <2>1. [scope |-> scope, through |-> through, made |-> TRUE] \in Handed
      BY <1>1, <1>7 DEF Handed
    <2>2. QED
      BY <1>9, <1>10, <2>1
  <1>12. /\ handed' \in [Scopes -> SUBSET Seqs]
         /\ \A s \in Scopes : handed'[s] = IF s = scope THEN handed[scope] \cup rows ELSE handed[s]
    BY <1>1, <1>6, <1>8, <1>10
  <1>13. MovesOn
    <2>1. \A s \in Scopes : handed[s] \subseteq handed'[s]
      BY <1>12
    <2>2. QED
      BY <1>8, <2>1, DocumentsGrow DEF MovesOn
  <1>14. DocumentsOK'
    <2>1. caller' = [d \in Callers |-> caller'[d]]
      BY <1>8 DEF ActivityInv, DocumentsOK, Leave
    <2>2. QED
      BY <1>8, <1>11, <1>12, <2>1 DEF ActivityInv, DocumentsOK, Happened
  <1>15. Covers(scope, through)'
    <2>1. Happened' = Happened /\ event' = event
      BY <1>8 DEF Happened
    <2>2. through = 0 \/ through \in Happened
      BY <1>3, <1>6, <1>7 DEF Covers
    <2>3. ASSUME NEW e \in Happened, e <= through, event[e].creator \in scope PROVE e \in handed'[scope]
      <3>1. e \in Nat /\ after \in Nat /\ through \in Nat
        BY <1>3, <1>6, <1>7 DEF Seqs
      <3>2. CASE e <= after
        BY <1>1, <1>3, <1>12, <2>3, <3>2 DEF Covers
      <3>3. CASE after < e
        <4>1. through \in rows /\ through # after
          BY <1>7, <2>3, <3>1, <3>3
        <4>2. e \in all
          <5>1. event[e] \in ActivityRow /\ event[e].kind # "none"
            BY <1>6 DEF ActivityInv, DocumentsOK, Happened
          <5>2. event[e].kind \in Of("any")
            BY <5>1 DEF Of, ActivityRow
          <5>3. QED
            BY <1>4, <2>3, <3>1, <3>3, <5>2 DEF Matching
        <4>3. e \in rows
          <5>1. PageSize \in Nat /\ all \subseteq Seqs
            BY <1>6 DEF ActivityAssumption
          <5>2. QED
            BY <1>4, <2>3, <4>1, <4>2, <5>1, FirstRows
        <4>4. QED
          BY <1>1, <1>12, <4>3
      <3>4. QED
        BY <3>1, <3>2, <3>3
    <2>4. QED
      BY <2>1, <2>2, <2>3 DEF Covers
  <1>16. ASSUME NEW u \in 1..MaxPages, page'[u].made PROVE Covers(page[u].scope, page[u].through)'
    <2>1. CASE u = t
      <3>1. page'[u].scope = scope /\ page'[u].through = through
        BY <1>11, <2>1
      <3>2. QED
        BY <1>15, <3>1 DEF Covers
    <2>2. CASE u # t
      <3>1. PICK s, n : s = page[u].scope /\ n = page[u].through /\ s = page'[u].scope /\ n = page'[u].through
        BY <1>11, <2>2
      <3>2. s \in Scopes /\ n \in Nat /\ Covers(s, n)
        BY <1>11, <1>16, <2>2, <3>1 DEF ActivityInv, DocumentsOK, Handed
      <3>3. Covers(s, n)'
        BY <1>13, <3>2, CoversStays
      <3>4. QED
        BY <3>1, <3>3
    <2>3. QED
      BY <2>1, <2>2
  <1>17. PICK call : call = NotBusy
    OBVIOUS
  <1>18. caller' = [caller EXCEPT ![c] = call] /\ CallerOK(call)' /\ call.at = "idle"
    BY <1>8, <1>17 DEF Leave, CallerOK, NotBusy
  <1>19. (\A d \in Callers : CallerOK(caller[d]))' /\ OneCaller'
    BY <1>8, <1>13, <1>14, <1>18, TurnsTo
  <1>20. (\A m \in 1..MaxMessages : MessageOK(m))' /\ DigestsOK'
    BY <1>8 DEF ActivityInv, MessageOK, DigestsOK, CurrentDigests
  <1>21. QED
    BY <1>8, <1>13, <1>14, <1>16, <1>19, <1>20, PagesCover DEF ActivityInv

\* A digest takes the events from the cursor to the next, and the rest of them was out of sight.
LEMMA DigestGoes ==
  ASSUME ActivityInv, NEW cursor \in 0..MaxEvents, NEW events, NEW out,
         profile.digestAfter <= cursor, events \subseteq profile.digestAfter + 1..cursor,
         profile.digestAfter + 1..cursor \subseteq events \cup out,
         profile'.digestAfter = cursor, profile'.epoch = profile.epoch, passed' = passed \cup out,
         \/ events = {} /\ UNCHANGED message
         \/ \E m \in 1..MaxMessages :
              /\ message[m].kind = "none" /\ \A n \in 1..MaxMessages : n # m => message'[n] = message[n]
              /\ message'[m].kind = "digest" /\ message'[m].epoch = profile.epoch /\ message'[m].events = events
  PROVE  DigestsOK'
  <1>1. /\ profile.digestAfter \in Nat /\ cursor \in Nat
        /\ DigestsOK
    BY DEF ActivityInv, DocumentsOK, Profile
  <1>2. 1..cursor \subseteq 1..profile.digestAfter \cup (profile.digestAfter + 1..cursor)
    BY <1>1
  <1>3. 1..profile.digestAfter \subseteq 1..cursor /\ profile.digestAfter + 1..cursor \subseteq 1..cursor
    BY <1>1
  <1>4. CASE events = {} /\ UNCHANGED message
    <2>1. CurrentDigests' = CurrentDigests
      BY <1>4 DEF CurrentDigests
    <2>2. UNION {message'[m].events : m \in CurrentDigests'} = UNION {message[m].events : m \in CurrentDigests}
      BY <1>4, <2>1
    <2>3. 1..cursor \subseteq passed' \cup UNION {message'[m].events : m \in CurrentDigests'}
      BY <1>1, <1>2, <1>4, <2>2 DEF DigestsOK
    <2>4. \A m \in CurrentDigests : message'[m].events \subseteq 1..cursor
      BY <1>1, <1>3, <1>4 DEF DigestsOK
    <2>5. QED
      BY <1>1, <1>4, <2>1, <2>3, <2>4 DEF DigestsOK
  <1>5. ASSUME NEW m \in 1..MaxMessages, message[m].kind = "none", \A n \in 1..MaxMessages : n # m => message'[n] = message[n],
               message'[m].kind = "digest", message'[m].epoch = profile.epoch, message'[m].events = events
        PROVE  DigestsOK'
    <2>1. CurrentDigests' = CurrentDigests \cup {m} /\ m \notin CurrentDigests
      BY <1>5 DEF CurrentDigests
    <2>2. \A n \in CurrentDigests : message'[n].events = message[n].events /\ n # m /\ n \in 1..MaxMessages
      BY <1>5 DEF CurrentDigests
    <2>3. UNION {message'[n].events : n \in CurrentDigests'} = events \cup UNION {message[n].events : n \in CurrentDigests}
      <3>1. {message'[n].events : n \in CurrentDigests'} = {events} \cup {message[n].events : n \in CurrentDigests}
        BY <1>5, <2>1, <2>2
      <3>2. QED
        BY <3>1
    <2>4. 1..cursor \subseteq passed' \cup UNION {message'[n].events : n \in CurrentDigests'}
      BY <1>1, <1>2, <2>3 DEF DigestsOK
    <2>5. \A n \in CurrentDigests' : message'[n].events \subseteq 1..cursor
      BY <1>1, <1>3, <1>5, <2>1, <2>2 DEF DigestsOK
    <2>6. \A n \in CurrentDigests : message'[n].events \cap events = {}
      <3>1. ASSUME NEW n \in CurrentDigests, NEW e \in message[n].events, e \in events PROVE FALSE
        <4>1. e \in 1..profile.digestAfter /\ e \in profile.digestAfter + 1..cursor
          BY <1>1, <3>1 DEF DigestsOK
        <4>2. QED
          BY <1>1, <4>1
      <3>2. QED
        BY <2>2, <3>1
    <2>7. \A k, n \in CurrentDigests' : k # n => message'[k].events \cap message'[n].events = {}
      <3>1. \A k, n \in CurrentDigests : k # n => message'[k].events \cap message'[n].events = {}
        BY <1>1, <2>2 DEF DigestsOK
      <3>2. QED
        BY <1>5, <2>1, <2>6, <3>1
    <2>8. \A n \in 1..MaxMessages : message'[n].kind = "digest" => message'[n].epoch <= profile'.epoch
      <3>1. profile.epoch \in Nat
        BY DEF ActivityInv, DocumentsOK, Profile
      <3>2. QED
        BY <1>1, <1>5, <3>1 DEF DigestsOK
    <2>9. QED
      BY <2>4, <2>5, <2>7, <2>8 DEF DigestsOK
  <1>6. QED
    BY <1>4, <1>5

\* Health alerts leave the digests as they are.
LEMMA AlertsApart ==
  ASSUME ActivityInv, profile'.digestAfter = profile.digestAfter, profile'.epoch = profile.epoch, passed' = passed,
         \A n \in 1..MaxMessages : message'[n] = message[n] \/ (message[n].kind = "none" /\ message'[n].kind = "health")
  PROVE  DigestsOK'
  <1>1. CurrentDigests' = CurrentDigests
    BY DEF CurrentDigests
  <1>2. \A n \in CurrentDigests : message'[n].events = message[n].events
    BY DEF CurrentDigests
  <1>3. {message'[n].events : n \in CurrentDigests} = {message[n].events : n \in CurrentDigests}
    BY <1>2
  <1>4. \A n \in 1..MaxMessages : message'[n].kind = "digest" => message'[n] = message[n]
    OBVIOUS
  <1>5. DigestsOK
    BY DEF ActivityInv
  <1>6. QED
    BY <1>1, <1>2, <1>3, <1>4, <1>5 DEF DigestsOK

\* prepareNotification commits what it gathered, or nothing when another write came between.
LEMMA NotificationCommitted ==
  ASSUME ActivityAssumption, ActivityInv, NEW c \in Callers, CommitPrepared(c)
  PROVE  ActivityInv' /\ CheckpointsForward
  <1>1. PICK kind, p, rows, cursor, events, out :
          /\ caller[c] = [at |-> "gathered", kind |-> kind, profile |-> p, rows |-> rows, cursor |-> cursor, events |-> events, out |-> out]
          /\ kind \in {"digest", "health"} /\ ProfileRead(p) /\ cursor \in 0..MaxEvents /\ events \subseteq Seqs
          /\ kind = "digest" =>
               /\ p.digestAfter <= cursor /\ events \subseteq p.digestAfter + 1..cursor
               /\ p.digestAfter + 1..cursor \subseteq events \cup out
    <2>1. Gathered(caller[c])
      BY CallShapes DEF CommitPrepared
    <2>2. QED
      BY <2>1 DEF Gathered
  <1>2. UNCHANGED <<event, world, mark, page, handed, reached>> /\ Leave(c)
    BY DEF CommitPrepared, outside, asked
  <1> DEFINE enough == Cardinality(events) >= IF kind = "digest" THEN p.minimum ELSE 1
             commits == (enough \/ (events = {} /\ rows # {})) /\ p.revision = profile.revision
  <1>3. PICK moved : moved = IF kind = "digest" THEN [p EXCEPT !.digestAfter = cursor] ELSE [p EXCEPT !.healthAfter = cursor]
    OBVIOUS
  <1>4. PICK slept : slept = IF kind = "digest" /\ enough THEN [moved EXCEPT !.due = FALSE] ELSE moved
    OBVIOUS
  <1>5. PICK free : free = {m \in DOMAIN message : message[m].kind = "none"}
    OBVIOUS
  <1>6. PICK new : new = [kind |-> kind, status |-> "ready", revision |-> 0, events |-> events, epoch |-> p.epoch]
    OBVIOUS
  <1>7. /\ enough => free # {}
        /\ profile' = IF commits THEN [slept EXCEPT !.revision = slept.revision + 1] ELSE profile
        /\ message' = IF commits /\ enough THEN [message EXCEPT ![Min(free)] = new] ELSE message
        /\ passed' = IF commits /\ kind = "digest" THEN passed \cup out ELSE passed
    <2>1. PICK its : its = caller[c]
      OBVIOUS
    <2>2. /\ its.kind = kind /\ its.profile = p /\ its.rows = rows /\ its.cursor = cursor /\ its.events = events /\ its.out = out
      BY <1>1, <2>1
    <2>3. QED
      BY <1>3, <1>4, <1>5, <1>6, <2>1, <2>2 DEF CommitPrepared
  <1>8. CASE ~commits
    <2>1. UNCHANGED <<profile, message, passed>>
      BY <1>7, <1>8
    <2>2. QED
      BY <1>2, <2>1, CallEnds, SameCheckpoints
  <1>9. CASE commits
    <2>1. /\ p \in Profile /\ p.revision = profile.revision /\ p.checkpoint = profile.checkpoint
          /\ p.digestAfter = profile.digestAfter /\ p.epoch = profile.epoch
      BY <1>1, <1>9 DEF ProfileRead
    <2>2. /\ moved \in Profile /\ moved.revision = p.revision /\ moved.checkpoint = p.checkpoint /\ moved.epoch = p.epoch
          /\ moved.digestAfter = IF kind = "digest" THEN cursor ELSE p.digestAfter
      BY <1>1, <1>3, <2>1 DEF Profile
    <2>3. /\ slept \in Profile /\ slept.revision = p.revision /\ slept.checkpoint = p.checkpoint /\ slept.epoch = p.epoch
          /\ slept.digestAfter = IF kind = "digest" THEN cursor ELSE p.digestAfter
      BY <1>4, <2>2 DEF Profile
    <2>4. /\ profile' \in Profile /\ profile'.revision = profile.revision + 1 /\ profile'.checkpoint = profile.checkpoint
          /\ profile'.epoch = profile.epoch /\ profile'.digestAfter = IF kind = "digest" THEN cursor ELSE profile.digestAfter
      <3>1. profile' = [slept EXCEPT !.revision = slept.revision + 1]
        BY <1>7, <1>9
      <3>2. QED
        BY <2>1, <2>3, <3>1 DEF Profile
    <2>5. \A s \in Scopes : Covers(s, profile'.checkpoint[s])
      BY <2>4 DEF ActivityInv
    <2>6. message \in [1..MaxMessages -> Message]
      BY DEF ActivityInv, DocumentsOK
    <2>7. \/ UNCHANGED message /\ ~enough
          \/ enough /\ \E m \in 1..MaxMessages : message[m].kind = "none" /\ message' = [message EXCEPT ![m] = new]
      <3>1. CASE enough
        <4>1. free # {} /\ message' = [message EXCEPT ![Min(free)] = new]
          BY <1>7, <1>9, <3>1
        <4>2. Min(free) \in 1..MaxMessages /\ message[Min(free)].kind = "none"
          BY <1>5, <4>1, FreePlace
        <4>3. QED
          BY <3>1, <4>1, <4>2
      <3>2. CASE ~enough
        BY <1>7, <3>2
      <3>3. QED
        BY <3>1, <3>2
    <2>8. new \in Message /\ new.kind = kind /\ new.kind # "none" /\ new.epoch = profile.epoch /\ new.events = events
      BY <1>1, <1>6, <2>1 DEF Message, Profile
    <2>9. \/ UNCHANGED message /\ ~enough
          \/ \E m \in 1..MaxMessages :
               /\ message[m].kind = "none" /\ \A n \in 1..MaxMessages : n # m => message'[n] = message[n]
               /\ message'[m] = new
      BY <2>6, <2>7
    <2>10. message' \in [1..MaxMessages -> Message]
      BY <2>6, <2>7, <2>8
    <2>11. \A m \in 1..MaxMessages : message'[m] = message[m] \/ (message[m].kind = "none" /\ message'[m] = new)
      BY <2>9
    <2>12. DigestsOK'
      <3>1. CASE kind = "digest"
        <4>1. ~enough => events = {}
          BY <1>9
        <4>2. passed' = passed \cup out /\ profile'.digestAfter = cursor
          BY <1>7, <1>9, <2>4, <3>1
        <4>3. \/ events = {} /\ UNCHANGED message
              \/ \E m \in 1..MaxMessages :
                   /\ message[m].kind = "none" /\ \A n \in 1..MaxMessages : n # m => message'[n] = message[n]
                   /\ message'[m].kind = "digest" /\ message'[m].epoch = profile.epoch /\ message'[m].events = events
          BY <2>8, <2>9, <3>1, <4>1
        <4>4. QED
          BY <1>1, <2>1, <2>4, <3>1, <4>2, <4>3, DigestGoes
      <3>2. CASE kind = "health"
        <4>1. passed' = passed /\ profile'.digestAfter = profile.digestAfter
          BY <1>7, <2>4, <3>2
        <4>2. \A n \in 1..MaxMessages : message'[n] = message[n] \/ (message[n].kind = "none" /\ message'[n].kind = "health")
          BY <2>8, <2>11, <3>2
        <4>3. QED
          BY <2>4, <4>1, <4>2, AlertsApart
      <3>3. QED
        BY <1>1, <3>1, <3>2
    <2>13. \A m \in 1..MaxMessages : message'[m] = message[m] \/ (message[m].kind = "none" /\ message'[m].kind # "none")
      BY <2>8, <2>11
    <2>14. ActivityInv'
      BY <1>2, <2>4, <2>5, <2>10, <2>12, <2>13, ProfileCommits
    <2>15. QED
      BY <2>4, <2>14, SameCheckpoints
  <1>10. QED
    BY <1>8, <1>9

-----------------------------------------------------------------------------
\* Every step keeps the invariant, takes no checkpoint back and loses no mark.
LEMMA ActivityStep ==
  ASSUME ActivityAssumption, ActivityInv, [ActivityNext]_activityVars
  PROVE  ActivityInv' /\ CheckpointsForward /\ MarksKept
  <1>1. UNCHANGED mark => MarksKept
    BY DEF MarksKept
  <1>2. UNCHANGED profile => CheckpointsForward
    BY SameCheckpoints
  <1>3. CASE \/ \E creator \in Creators, kind \in Kinds : AppendEvent(creator, kind)
             \/ \E e \in Happened : Change(world.readable, IF e \in world.hidden THEN world.hidden \ {e} ELSE world.hidden \cup {e})
             \/ \E creator \in Creators : Change(IF creator \in world.readable THEN world.readable \ {creator}
                                                ELSE world.readable \cup {creator}, world.hidden)
    <2>1. UNCHANGED <<profile, mark>>
      BY <1>3 DEF AppendEvent, Change
    <2>2. QED
      BY <1>1, <1>2, <1>3, <2>1, WorldMoves
  <1>4. CASE FallsDue
    <2>1. profile'.checkpoint = profile.checkpoint /\ UNCHANGED mark
      BY <1>4 DEF FallsDue, ActivityInv, DocumentsOK, Profile
    <2>2. QED
      BY <1>1, <1>4, <2>1, WorldMoves, SameCheckpoints
  <1>5. ASSUME NEW m \in DOMAIN message, Retry(m) PROVE ActivityInv' /\ CheckpointsForward /\ MarksKept
    BY <1>1, <1>2, <1>5, Retried DEF Retry
  <1>6. ASSUME NEW e \in Happened, PreviewReply(e) PROVE ActivityInv' /\ CheckpointsForward /\ MarksKept
    BY <1>1, <1>2, <1>6, ReplyDrafted DEF PreviewReply
  <1>7. ASSUME NEW c \in Callers,
               \/ \E selection \in Scopes : Select(c, selection)
               \/ \E minimum \in Minimums, digests \in BOOLEAN, alerts \in {FALSE, "health" \in Kinds} : Prefer(c, digests, minimum, alerts)
               \/ \E t \in DOMAIN page : AcknowledgePage(c, t)
               \/ ReadActivity(c)
               \/ \E kind \in {"digest", "health"} : ReadDue(c, kind)
        PROVE  ActivityInv' /\ CheckpointsForward /\ MarksKept
    <2>1. UNCHANGED <<profile, mark>>
      BY <1>7 DEF Select, Prefer, AcknowledgePage, ReadActivity, ReadDue, Ask
    <2>2. QED
      BY <1>1, <1>2, <1>7, <2>1, CallsStart
  <1>8. ASSUME NEW c \in Callers, CommitProfile(c) PROVE ActivityInv' /\ CheckpointsForward /\ MarksKept
    BY <1>1, <1>8, ProfileWritten DEF CommitProfile
  <1>9. ASSUME NEW c \in Callers, HandOut(c) PROVE ActivityInv' /\ CheckpointsForward /\ MarksKept
    BY <1>1, <1>2, <1>9, PageHandedOut DEF HandOut
  <1>10. ASSUME NEW c \in Callers, Gather(c) PROVE ActivityInv' /\ CheckpointsForward /\ MarksKept
    BY <1>1, <1>2, <1>10, PageGathered DEF Gather
  <1>11. ASSUME NEW c \in Callers, CommitPrepared(c) PROVE ActivityInv' /\ CheckpointsForward /\ MarksKept
    BY <1>1, <1>11, NotificationCommitted DEF CommitPrepared
  <1>12. ASSUME NEW c \in Callers,
                \/ \E m \in DOMAIN message : ReadMessage(c, m)
                \/ \E e \in Happened, action \in {"read", "resolve", "reopen"} : ReadMark(c, e, action)
         PROVE  ActivityInv' /\ CheckpointsForward /\ MarksKept
    <2>1. UNCHANGED <<profile, mark>>
      BY <1>12 DEF ReadMessage, ReadMark
    <2>2. QED
      BY <1>1, <1>2, <1>12, <2>1, DocumentRead
  <1>13. ASSUME NEW c \in Callers, Claim(c) PROVE ActivityInv' /\ CheckpointsForward /\ MarksKept
    BY <1>1, <1>2, <1>13, MessageClaimed DEF Claim
  <1>14. ASSUME NEW c \in Callers, RecordOutcome(c) PROVE ActivityInv' /\ CheckpointsForward /\ MarksKept
    BY <1>1, <1>2, <1>14, OutcomeRecorded DEF RecordOutcome
  <1>15. ASSUME NEW c \in Callers, NEW outcome \in {"sent", "not_sent", "unknown"}, Call(c, outcome)
         PROVE  ActivityInv' /\ CheckpointsForward /\ MarksKept
    BY <1>1, <1>2, <1>15, ProviderCalled DEF Call
  <1>16. ASSUME NEW c \in Callers, CommitMark(c) PROVE ActivityInv' /\ CheckpointsForward /\ MarksKept
    BY <1>2, <1>16, MarkCommitted DEF CommitMark
  <1>17. ASSUME NEW c \in Callers, CrashCaller(c) PROVE ActivityInv' /\ CheckpointsForward /\ MarksKept
    BY <1>1, <1>2, <1>17, CallEnds DEF CrashCaller, outside, asked
  <1>18. CASE UNCHANGED activityVars
    <2>1. /\ UNCHANGED <<event, world, profile, mark, page, message, handed, passed, reached, caller>>
          /\ DocumentsOK /\ caller' = [c \in Callers |-> caller'[c]]
      BY <1>18 DEF activityVars, ActivityInv, DocumentsOK
    <2>2. DocumentsOK'
      BY <2>1 DEF DocumentsOK, Happened
    <2>3. MovesOn
      BY <2>1, DocumentsGrow DEF MovesOn
    <2>4. (\A c \in Callers : CallerOK(caller[c]))'
      BY <2>1, <2>2, <2>3, CallersStand
    <2>5. OneCaller' /\ (\A m \in 1..MaxMessages : MessageOK(m))' /\ DigestsOK'
      BY <2>1 DEF ActivityInv, OneCaller, MessageOK, DigestsOK, CurrentDigests
    <2>6. QED
      BY <1>1, <1>2, <2>1, <2>2, <2>3, <2>4, <2>5, PagesCover DEF ActivityInv
  <1>19. CASE ActivityNext
    BY <1>3, <1>4, <1>5, <1>6, <1>7, <1>8, <1>9, <1>10, <1>11, <1>12, <1>13, <1>14, <1>15, <1>16, <1>17, <1>19, Zenon DEF ActivityNext
  <1>20. QED
    BY <1>18, <1>19

\* Every state the activity of a creator reaches is within the invariant.
LEMMA ActivityAlways ==
  ASSUME ActivityAssumption
  PROVE  ActivitySpec => []ActivityInv
  <1>1. ActivityInit => ActivityInv
    BY ActivityStart
  <1>2. ActivityInv /\ [ActivityNext]_activityVars => ActivityInv'
    BY ActivityStep
  <1>3. QED
    BY <1>1, <1>2, PTL DEF ActivitySpec

\* The documents of a profile keep their types: cursors and checkpoints stay among the
\* sequences, and a message has one of the statuses of activity-workflows.ts.
THEOREM ActivityTyped ==
  ASSUME ActivityAssumption
  PROVE  ActivitySpec => []ActivityTypeOK
  <1>1. ActivityInv => ActivityTypeOK
    BY DEF ActivityInv, DocumentsOK, ActivityTypeOK, Profile, Message, Scopes
  <1>2. QED
    BY <1>1, ActivityAlways, PTL

\* No activity is skipped unseen: whichever pages are open, in whichever order and by
\* whichever process they are acknowledged, a checkpoint covers only events that a page of
\* its selection handed out (activity, acknowledge).
THEOREM PagesBeforeCheckpoints ==
  ASSUME ActivityAssumption
  PROVE  ActivitySpec => []CheckpointsHonest
  <1>1. ActivityInv => CheckpointsHonest
    BY DEF ActivityInv, Covers, CheckpointsHonest
  <1>2. QED
    BY <1>1, ActivityAlways, PTL

\* No concurrent setting, acknowledgement or digest takes a checkpoint back (change).
THEOREM CheckpointsGoOn ==
  ASSUME ActivityAssumption
  PROVE  ActivitySpec => [][CheckpointsForward]_activityVars
  <1>1. ActivityInv /\ [ActivityNext]_activityVars => [CheckpointsForward]_activityVars
    BY ActivityStep
  <1>2. QED
    BY <1>1, ActivityAlways, PTL DEF ActivitySpec

\* No visible event is dropped and none is sent in two digests, whatever number of
\* schedulers prepare them and whatever is selected, committed or lost in between
\* (prepareNotification).
THEOREM DigestsOnce ==
  ASSUME ActivityAssumption
  PROVE  ActivitySpec => []DigestsExact
  <1>1. ASSUME ActivityInv PROVE DigestsExact
    <2>1. DOMAIN message = 1..MaxMessages /\ DigestsOK
      BY <1>1 DEF ActivityInv, DocumentsOK
    <2>2. CurrentDigests = {m \in DOMAIN message : message[m].kind = "digest" /\ message[m].epoch = profile.epoch}
      BY <2>1 DEF CurrentDigests
    <2>3. QED
      BY <2>1, <2>2 DEF DigestsOK, DigestsExact
  <1>2. QED
    BY <1>1, ActivityAlways, PTL

\* The provider acts once on a reply or notification, whatever is confirmed, delivered,
\* retried or crashed (confirmReply, deliverNotification, retryNotification).
THEOREM ProviderActsOnce ==
  ASSUME ActivityAssumption
  PROVE  ActivitySpec => []ActsOnce
  <1>1. ActivityInv => ActsOnce
    BY DEF ActivityInv, DocumentsOK, MessageOK, ActsOnce
  <1>2. QED
    BY <1>1, ActivityAlways, PTL

\* Marks of a comment are not lost to one another (mark).
THEOREM MarksStay ==
  ASSUME ActivityAssumption
  PROVE  ActivitySpec => [][MarksKept]_activityVars
  <1>1. ActivityInv /\ [ActivityNext]_activityVars => [MarksKept]_activityVars
    BY ActivityStep
  <1>2. QED
    BY <1>1, ActivityAlways, PTL DEF ActivitySpec
=============================================================================
