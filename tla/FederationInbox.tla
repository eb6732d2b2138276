---------------------------- MODULE FederationInbox ----------------------------
(***************************************************************************)
(* The federation inbox of the reference API (apps/reference-api/src/       *)
(* server.ts, POST /v1/federation/inbox): signed envelopes of other         *)
(* instances (packages/federation/src/index.ts) arrive more than once, in   *)
(* any order and at the same time; each is consumed in the replay store     *)
(* (adapters/local/src/index.ts) and then changes the reference it is about. *)
(***************************************************************************)
EXTENDS Naturals, FiniteSets

CONSTANTS Actors, Publications, Envelopes, Requests,
          Nobody,     \* no actor, no envelope, nothing
          MaxArrivals,\* deliveries
          MaxTrouble  \* crashes

VARIABLES sent,       \* envelope -> the event it carries, as its instance signed it
          expired,    \* envelopes whose time is over
          consumed,   \* the replay store
          actors,     \* federationActors
          references, \* publication -> its reference: see NoReference
          requests,
          applied,    \* history: envelope -> how often it changed its reference
          arrivals, trouble

inboxVars == <<sent, expired, consumed, actors, references, requests, applied, arrivals, trouble>>

\* An update does what a reference does.
Types == {"publication_reference", "publication_withdrawn"}
NoEvent == [type |-> Nobody, actor |-> Nobody, publication |-> Nobody]
NoReference == [actor |-> Nobody, uri |-> Nobody, state |-> Nobody, revision |-> 0]
Idle == [pc |-> "idle", envelope |-> Nobody, known |-> FALSE, existing |-> NoReference]

InboxInit ==
  /\ sent = [e \in Envelopes |-> NoEvent] /\ expired = {} /\ consumed = {} /\ actors = {}
  /\ references = [p \in Publications |-> NoReference] /\ requests = [r \in Requests |-> Idle]
  /\ applied = [e \in Envelopes |-> 0] /\ arrivals = 0 /\ trouble = 0

Becomes(r, next) == requests' = [requests EXCEPT ![r] = next]
At(r, pc) == requests[r].pc = pc
Event(r) == sent[requests[r].envelope]
Reference(r) == references[Event(r).publication]

-----------------------------------------------------------------------------
(* The network and the instances at its other end.                          *)

Sign(e, event) ==
  /\ sent[e] = NoEvent /\ sent' = [sent EXCEPT ![e] = event]
  /\ UNCHANGED <<expired, consumed, actors, references, requests, applied, arrivals, trouble>>
Expire(e) ==
  /\ sent[e] # NoEvent /\ e \notin expired /\ expired' = expired \cup {e}
  /\ UNCHANGED <<sent, consumed, actors, references, requests, applied, arrivals, trouble>>
\* Validated, allowed by the instance's policy and not expired; its signature is verified next.
Arrive(r, e) ==
  /\ At(r, "idle") /\ sent[e] # NoEvent /\ e \notin expired /\ arrivals < MaxArrivals /\ arrivals' = arrivals + 1
  /\ Becomes(r, [Idle EXCEPT !.pc = "verify", !.envelope = e])
  /\ UNCHANGED <<sent, expired, consumed, actors, references, applied, trouble>>

-----------------------------------------------------------------------------
(* One delivery.                                                            *)

Unseen_Any(e) == TRUE
Unseen(e) == e \notin consumed
Consume(r) ==
  /\ At(r, "verify") /\ consumed' = consumed \cup {requests[r].envelope}
  /\ Becomes(r, IF Unseen(requests[r].envelope) THEN [requests[r] EXCEPT !.pc = "actor"] ELSE Idle)
  /\ UNCHANGED <<sent, expired, actors, references, applied, arrivals, trouble>>
FindActor(r) ==
  /\ At(r, "actor") /\ Becomes(r, [requests[r] EXCEPT !.pc = "admit", !.known = Event(r).actor \in actors])
  /\ UNCHANGED <<sent, expired, consumed, actors, references, applied, arrivals, trouble>>
\* An actor another delivery has just created fails this one.
AdmitActor(r) ==
  /\ At(r, "admit") /\ actors' = actors \cup {Event(r).actor}
  /\ Becomes(r, IF requests[r].known \/ Event(r).actor \notin actors THEN [requests[r] EXCEPT !.pc = "find"] ELSE Idle)
  /\ UNCHANGED <<sent, expired, consumed, references, applied, arrivals, trouble>>
Owned_Any(r) == TRUE
Owned(r) == Reference(r) = NoReference \/ Reference(r).actor = Event(r).actor
FindReference(r) ==
  /\ At(r, "find")
  /\ Becomes(r, IF Owned(r) /\ (Event(r).type = "publication_withdrawn" => Reference(r) # NoReference)
                THEN [requests[r] EXCEPT !.pc = "apply", !.existing = Reference(r)] ELSE Idle)
  /\ UNCHANGED <<sent, expired, consumed, actors, references, applied, arrivals, trouble>>
Fresh_Any(r) == TRUE
Fresh(r) == Reference(r).revision = requests[r].existing.revision
\* Created, or updated at the revision that was read; then the audit and the answer.
Changed(r) ==
  LET event == Event(r)
      existing == requests[r].existing
  IN IF event.type = "publication_withdrawn" THEN [existing EXCEPT !.state = "withdrawn", !.revision = @ + 1]
     ELSE [actor |-> IF existing = NoReference THEN event.actor ELSE existing.actor, uri |-> requests[r].envelope,
           state |-> "accepted", revision |-> existing.revision + 1]
Apply(r) ==
  /\ At(r, "apply") /\ Becomes(r, Idle)
  /\ IF Fresh(r) THEN /\ references' = [references EXCEPT ![Event(r).publication] = Changed(r)]
                      /\ applied' = [applied EXCEPT ![requests[r].envelope] = @ + 1]
     ELSE UNCHANGED <<references, applied>>
  /\ UNCHANGED <<sent, expired, consumed, actors, arrivals, trouble>>
Crash(r) ==
  /\ ~At(r, "idle") /\ trouble < MaxTrouble /\ trouble' = trouble + 1 /\ Becomes(r, Idle)
  /\ UNCHANGED <<sent, expired, consumed, actors, references, applied, arrivals>>

InboxNext ==
  \/ \E e \in Envelopes, t \in Types, a \in Actors, p \in Publications : Sign(e, [type |-> t, actor |-> a, publication |-> p])
  \/ \E e \in Envelopes : Expire(e) \/ \E r \in Requests : Arrive(r, e)
  \/ \E r \in Requests : Consume(r) \/ FindActor(r) \/ AdmitActor(r) \/ FindReference(r) \/ Apply(r) \/ Crash(r)
InboxSpec == InboxInit /\ [][InboxNext]_inboxVars

-----------------------------------------------------------------------------
\* Types, and the counters within their bounds.
InboxTypeOK ==
  /\ actors \subseteq Actors /\ consumed \subseteq Envelopes /\ expired \subseteq Envelopes
  /\ \A p \in Publications : references[p].state \in {Nobody, "accepted", "withdrawn"} /\ references[p].revision \in Nat
  /\ \A r \in Requests : requests[r].pc \in {"idle", "verify", "actor", "admit", "find", "apply"}
  /\ arrivals \in 0..MaxArrivals /\ trouble \in 0..MaxTrouble

(* An envelope changes its reference at most once, however often and how     *)
(* close together it is delivered (the replay store).                       *)
AppliedOnce == \A e \in Envelopes : applied[e] <= 1

(* What changed a reference came from the actor it belongs to, though two    *)
(* actors may name one publication at the same time.                        *)
OnlyItsActor == \A e \in Envelopes : applied[e] > 0 => references[sent[e].publication].actor = sent[e].actor

(* No change is written over another that was made from the same revision:   *)
(* a withdrawal is not lost under an update that was read before it.        *)
NoneOverwritten ==
  \A p \in Publications : references[p].revision = Cardinality({e \in Envelopes : sent[e].publication = p /\ applied[e] > 0})
=============================================================================
