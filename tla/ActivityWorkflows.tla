------------------------- MODULE ActivityWorkflows -------------------------
(***************************************************************************)
(* What a creator's chat profile keeps of activity elsewhere: checkpoints, *)
(* digests, the inbox and replies.  ActivityWorkflows and its commands     *)
(* (packages/integrations/src/activity-workflows.ts, activity-commands.ts) *)
(* over the documents of LocalActivityWorkflowStore                        *)
(* (adapters/local/src/activity-workflows.ts), for one principal.          *)
(*                                                                         *)
(* Callers are requests and schedulers of any number of processes: each    *)
(* reads, asks the ports and commits on the revision it read.  Platforms   *)
(* select as creators do and are left out.  Tokens and quiet hours only    *)
(* refuse or defer: nothing changes, so their expiry is left out.          *)
(***************************************************************************)
EXTENDS Naturals, FiniteSets, FiniteSetsExt

CONSTANTS Creators, Callers,
          Offered, Kinds,     \* the operations and the kinds of events of this instance
          PageSize, Batches, NoteSize, \* 20, 5 and 20 in the code
          Minimums,           \* values of preferences.minEvents
          MaxEvents, MaxPages, MaxMessages, MaxProfileRevision, MaxRetries, MaxChanges \* bounds

VARIABLES
  event,    \* appended events by sequence: creator and kind; "none" further on
  world,    \* creators the actor may read, hidden events, changes made
  profile,  \* the profile document; `epoch' counts its selections
  mark,     \* by comment: its document
  page,     \* activity pages handed out: scope, through
  message,  \* reply drafts and notifications
  handed,   \* by scope: events some page presented or found unavailable
  passed,   \* events no digest since the last selection owes: unavailable when passed
  reached,  \* by message: calls the provider may have acted on
  caller

activityVars == <<event, world, profile, mark, page, message, handed, passed, reached, caller>>
asked == <<page, handed>>
outside == <<event, world>>

Seqs == 1..MaxEvents
Scopes == SUBSET Creators
NotBusy == [at |-> "idle"]
NothingYet == [creator |-> CHOOSE c \in Creators : TRUE, kind |-> "none"]
NoPage == [scope |-> {}, through |-> 0, made |-> FALSE]
NoMessage == [kind |-> "none", status |-> "none", revision |-> 0, events |-> {}, epoch |-> 0]

ActivityInit ==
  /\ event = [e \in Seqs |-> NothingYet] /\ world = [readable |-> Creators, hidden |-> {}, changes |-> 0]
  /\ profile = [revision |-> 0, selection |-> {}, checkpoint |-> [s \in Scopes |-> 0], digestAfter |-> 0,
                healthAfter |-> 0, due |-> TRUE, digests |-> FALSE, minimum |-> 1, alerts |-> FALSE, epoch |-> 0]
  /\ mark = [e \in Seqs |-> [revision |-> 0, read |-> FALSE, resolved |-> FALSE]]
  /\ page = [t \in 1..MaxPages |-> NoPage] /\ message = [m \in 1..MaxMessages |-> NoMessage]
  /\ handed = [s \in Scopes |-> {}] /\ passed = {} /\ reached = [m \in 1..MaxMessages |-> 0]
  /\ caller = [c \in Callers |-> NotBusy]

-----------------------------------------------------------------------------
(* The store and the ports.                                                 *)

Happened == {e \in Seqs : event[e].kind # "none"}

\* append: sequences are given in order.
AppendEvent(creator, kind) ==
  LET e == Cardinality(Happened) + 1
  IN /\ e \in Seqs
     /\ event' = [event EXCEPT ![e] = [creator |-> creator, kind |-> kind]]
     /\ UNCHANGED <<world, profile, mark, message, passed, reached, caller, asked>>

\* Access to a creator and the visibility of an event change at any time.
Change(readable, hidden) ==
  /\ world.changes < MaxChanges /\ (hidden # world.hidden => "hide" \in Offered)
  /\ world' = [readable |-> readable, hidden |-> hidden, changes |-> world.changes + 1]
  /\ UNCHANGED <<event, profile, mark, message, passed, reached, caller, asked>>

\* admitted: an empty selection stands for everything there is; otherwise all of it must be readable.
Scope(selection) == IF selection = {} THEN world.readable ELSE selection
Admitted(selection) == Scope(selection) # {} /\ Scope(selection) \subseteq world.readable

Of(kind) == IF kind = "health" THEN {"health"} ELSE {"comment", "health"}

\* page: the matching events after a sequence; the first n of them
Matching(scope, after, kind) ==
  {e \in Happened : e > after /\ event[e].creator \in scope /\ event[e].kind \in Of(kind)}
FirstOf(S, n) == {e \in S : Cardinality({f \in S : f <= e}) <= n}

Available(e) == event[e].creator \in world.readable /\ e \notin world.hidden
Latest(S, after) == Max(S \cup {after})

Enter(c, record) == caller[c] = NotBusy /\ caller' = [caller EXCEPT ![c] = record]
Leave(c) == caller' = [caller EXCEPT ![c] = NotBusy]

-----------------------------------------------------------------------------
(* Settings and checkpoints: profile changes under compare-and-swap.        *)

\* change() as a loop: the profile is read again when another write came between, and the
\* call gives up after five attempts; here it may give up at any conflict.
Write_Unconditionally(c, new) ==
  /\ profile' = [new EXCEPT !.revision = profile.revision + 1]
  /\ Leave(c)

Write(c, new) ==
  IF caller[c].profile.revision = profile.revision
    THEN profile' = [new EXCEPT !.revision = @ + 1] /\ Leave(c)
    ELSE /\ UNCHANGED profile
         /\ Leave(c) \/ caller' = [caller EXCEPT ![c].profile = profile]

Ask(c, op, input) ==
  /\ op \in Offered /\ profile.revision < MaxProfileRevision
  /\ Enter(c, [at |-> op, input |-> input, profile |-> profile])
  /\ UNCHANGED <<outside, profile, mark, message, passed, reached, asked>>

Select(c, selection) == Admitted(selection) /\ Ask(c, "select", selection)

Prefer(c, digests, minimum, alerts) ==
  Admitted(profile.selection) /\ Ask(c, "prefer", [digests |-> digests, minimum |-> minimum, alerts |-> alerts])

\* acknowledge: the page must be of the selection now in force.
AcknowledgePage(c, t) ==
  /\ page[t].made /\ Admitted(profile.selection) /\ Scope(profile.selection) = page[t].scope
  /\ Ask(c, "acknowledge", page[t])

\* The last acknowledgement wins.
Checkpoint_Last(was, through) == through

Checkpoint(was, through) == Max({was, through})

CommitProfile(c) ==
  /\ \/ /\ caller[c].at = "select"
        /\ Write(c, [caller[c].profile EXCEPT !.selection = caller[c].input, !.digestAfter = 0, !.healthAfter = 0,
                                              !.due = TRUE, !.epoch = @ + 1])
        /\ passed' = IF profile' = profile THEN passed ELSE {}
     \/ /\ caller[c].at = "prefer"
        /\ Write(c, [caller[c].profile EXCEPT !.digests = caller[c].input.digests, !.minimum = caller[c].input.minimum,
                                              !.alerts = caller[c].input.alerts, !.due = FALSE])
        /\ UNCHANGED passed
     \/ /\ caller[c].at = "acknowledge"
        /\ Write(c, [caller[c].profile EXCEPT !.checkpoint[caller[c].input.scope] = Checkpoint(@, caller[c].input.through)])
        /\ UNCHANGED passed
  /\ UNCHANGED <<outside, mark, message, reached, asked>>

\* nextDigestAt has come.
FallsDue ==
  /\ ~profile.due /\ profile' = [profile EXCEPT !.due = TRUE]
  /\ UNCHANGED <<outside, mark, message, passed, reached, caller, asked>>

\* activity(): the profile is read, then the page.
ReadActivity(c) == /\ \E t \in DOMAIN page : ~page[t].made
                   /\ Admitted(profile.selection) /\ Ask(c, "activity", Scope(profile.selection))

HandOut(c) ==
  LET scope == caller[c].input
      after == caller[c].profile.checkpoint[scope]
      rows == FirstOf(Matching(scope, after, "any"), PageSize)
  IN /\ caller[c].at = "activity"
     /\ \E t \in DOMAIN page : /\ ~page[t].made /\ \A u \in 1..t - 1 : page[u].made
                               /\ page' = [page EXCEPT ![t] = [scope |-> scope, through |-> Latest(rows, after), made |-> TRUE]]
     /\ handed' = [handed EXCEPT ![scope] = @ \cup rows]
     /\ Leave(c) /\ UNCHANGED <<outside, profile, mark, message, passed, reached>>

-----------------------------------------------------------------------------
(* Digests and health alerts.                                               *)

After(p, kind) == IF kind = "digest" THEN p.digestAfter ELSE p.healthAfter
Wanted(p, kind) == IF kind = "digest" THEN p.digests ELSE p.alerts

\* prepareNotification reads the profile.
ReadDue(c, kind) ==
  /\ Wanted(profile, kind) /\ (kind = "digest" => profile.due)
  /\ Ask(c, "prepare", kind)

\* The rows end with the page, whichever event of it filled the notification.
Rows_WholePage(found) == found

\* The look-ahead ends with the event that fills the notification.
Rows(found) == {e \in found : Cardinality({f \in found : f < e /\ Available(f)}) < NoteSize}

\* The bounded look-ahead over pages; a scope that is no longer admitted ends the call.
Gather(c) ==
  LET seen == caller[c].profile
      kind == caller[c].input
      after == After(seen, kind)
      found == FirstOf(Matching(Scope(seen.selection), after, kind), PageSize * Batches)
      rows == Rows(found)
      cursor == Latest(rows, after)
  IN /\ caller[c].at = "prepare"
     /\ caller' = [caller EXCEPT ![c] =
          IF Admitted(seen.selection)
            THEN [at |-> "gathered", kind |-> kind, profile |-> seen, rows |-> rows, cursor |-> cursor,
                  events |-> FirstOf({e \in rows : Available(e)}, NoteSize),
                  out |-> {e \in 1..cursor : ~(Available(e) /\ event[e].creator \in Scope(seen.selection))}]
            ELSE NotBusy]
     /\ UNCHANGED <<outside, profile, mark, message, passed, reached, asked>>

\* The cursor after: retained while there are too few visible events, past them when there are none.
CommitPrepared(c) ==
  LET its == caller[c]
      enough == Cardinality(its.events) >= IF its.kind = "digest" THEN its.profile.minimum ELSE 1
      moved == IF its.kind = "digest" THEN [its.profile EXCEPT !.digestAfter = its.cursor]
               ELSE [its.profile EXCEPT !.healthAfter = its.cursor]
      slept == IF its.kind = "digest" /\ enough THEN [moved EXCEPT !.due = FALSE] ELSE moved
      free == {m \in DOMAIN message : message[m].kind = "none"}
      commits == (enough \/ (its.events = {} /\ its.rows # {})) /\ its.profile.revision = profile.revision
  IN /\ its.at = "gathered" /\ (enough => free # {}) \* bound
     /\ profile' = IF commits THEN [slept EXCEPT !.revision = @ + 1] ELSE profile
     /\ message' = IF commits /\ enough
                     THEN [message EXCEPT ![Min(free)] = [kind |-> its.kind, status |-> "ready", revision |-> 0,
                                                          events |-> its.events, epoch |-> its.profile.epoch]]
                     ELSE message
     /\ passed' = IF commits /\ its.kind = "digest" THEN passed \cup its.out ELSE passed
     /\ Leave(c) /\ UNCHANGED <<outside, mark, reached, asked>>

-----------------------------------------------------------------------------
(* Replies and notifications: one provider call per confirmation.           *)

Readable(e) == event[e].kind = "comment" /\ Available(e)

\* previewReply writes a draft under a new token.
PreviewReply(e) ==
  LET free == {m \in DOMAIN message : message[m].kind = "none"}
  IN /\ "reply" \in Offered /\ Readable(e) /\ free # {}
     /\ message' = [message EXCEPT ![Min(free)] = [NoMessage EXCEPT !.kind = "reply", !.status = "ready", !.events = {e}]]
     /\ UNCHANGED <<outside, profile, mark, passed, reached, caller, asked>>

\* confirmReply and deliverNotification up to their first write: status, permission, preferences.
ReadMessage(c, m) ==
  /\ "deliver" \in Offered /\ message[m].status = "ready" /\ \E e \in message[m].events : Available(e)
  /\ message[m].kind # "reply" => Wanted(profile, message[m].kind) /\ Admitted(profile.selection)
  /\ Enter(c, [at |-> "claim", message |-> m, seen |-> message[m]])
  /\ UNCHANGED <<outside, profile, mark, message, passed, reached, asked>>

\* Whoever read it ready goes on.
Claimed_ByAny(c) == TRUE

Claimed(c) == message[caller[c].message].revision = caller[c].seen.revision

\* status: 'sending', before the provider is called
Claim(c) ==
  LET m == caller[c].message
  IN /\ caller[c].at = "claim"
     /\ IF Claimed(c)
          THEN /\ message' = [message EXCEPT ![m].status = "sending", ![m].revision = @ + 1]
               /\ caller' = [caller EXCEPT ![c] = [at |-> "send", message |-> m, revision |-> message[m].revision + 1]]
          ELSE UNCHANGED message /\ Leave(c)
     /\ UNCHANGED <<outside, profile, mark, passed, reached, asked>>

\* The provider is called; its answer may be lost with the process.
Call(c, outcome) ==
  /\ caller[c].at = "send"
  /\ reached' = IF outcome = "not_sent" THEN reached ELSE [reached EXCEPT ![caller[c].message] = @ + 1]
  /\ caller' = [caller EXCEPT ![c] = [at |-> "record", message |-> caller[c].message, revision |-> caller[c].revision, outcome |-> outcome]]
  /\ UNCHANGED <<outside, profile, mark, message, passed, asked>>

RecordOutcome(c) ==
  LET m == caller[c].message
  IN /\ caller[c].at = "record"
     /\ message' = IF message[m].revision = caller[c].revision
                     THEN [message EXCEPT ![m].status = caller[c].outcome, ![m].revision = @ + 1] ELSE message
     /\ Leave(c) /\ UNCHANGED <<outside, profile, mark, passed, reached, asked>>

\* An answer that never came is tried again.
Retriable_Unknown(m) == message[m].status \in {"not_sent", "unknown"}

Retriable(m) == message[m].status = "not_sent"

\* retryNotification: read and commit; the two are one step, since nothing else leaves not_sent.
Retry(m) ==
  /\ message[m].kind \in {"digest", "health"} /\ Retriable(m) /\ message[m].revision < 3 * MaxRetries \* bound
  /\ message' = [message EXCEPT ![m].status = "ready", ![m].revision = @ + 1]
  /\ UNCHANGED <<outside, profile, mark, passed, reached, caller, asked>>

-----------------------------------------------------------------------------
(* The inbox.                                                               *)

\* mark: the comment's document is read after its visibility.
ReadMark(c, e, action) ==
  /\ action \in Offered /\ Readable(e) /\ mark[e].revision < MaxProfileRevision \* bound
  /\ Enter(c, [at |-> "mark", comment |-> e, action |-> action, seen |-> mark[e]])
  /\ UNCHANGED <<outside, profile, mark, message, passed, reached, asked>>

MarkFits_Any(c) == TRUE

MarkFits(c) == mark[caller[c].comment].revision = caller[c].seen.revision

CommitMark(c) ==
  LET its == caller[c]
      new == IF its.action = "read" THEN [its.seen EXCEPT !.read = TRUE]
             ELSE [its.seen EXCEPT !.resolved = its.action = "resolve"]
  IN /\ its.at = "mark"
     /\ IF MarkFits(c)
          THEN mark' = [mark EXCEPT ![its.comment] = [new EXCEPT !.revision = mark[its.comment].revision + 1]] /\ Leave(c)
          ELSE UNCHANGED mark /\ (Leave(c) \/ caller' = [caller EXCEPT ![c].seen = mark[its.comment]])
     /\ UNCHANGED <<outside, profile, message, passed, reached, asked>>

\* The process ends in the middle of a call.
CrashCaller(c) ==
  /\ caller[c] # NotBusy /\ Leave(c)
  /\ UNCHANGED <<outside, profile, mark, message, passed, reached, asked>>

ActivityNext ==
  \/ \E creator \in Creators, kind \in Kinds : AppendEvent(creator, kind)
  \/ \E e \in Happened : Change(world.readable, IF e \in world.hidden THEN world.hidden \ {e} ELSE world.hidden \cup {e})
  \/ \E creator \in Creators : Change(IF creator \in world.readable THEN world.readable \ {creator}
                                      ELSE world.readable \cup {creator}, world.hidden)
  \/ FallsDue
  \/ \E m \in DOMAIN message : Retry(m)
  \/ \E e \in Happened : PreviewReply(e)
  \/ \E c \in Callers :
       \/ \E selection \in Scopes : Select(c, selection)
       \/ \E minimum \in Minimums, digests \in BOOLEAN, alerts \in {FALSE, "health" \in Kinds} : Prefer(c, digests, minimum, alerts)
       \/ \E t \in DOMAIN page : AcknowledgePage(c, t)
       \/ CommitProfile(c) \/ ReadActivity(c) \/ HandOut(c)
       \/ \E kind \in {"digest", "health"} : ReadDue(c, kind)
       \/ Gather(c) \/ CommitPrepared(c)
       \/ \E m \in DOMAIN message : ReadMessage(c, m)
       \/ Claim(c) \/ RecordOutcome(c)
       \/ \E outcome \in {"sent", "not_sent", "unknown"} : Call(c, outcome)
       \/ \E e \in Happened, action \in {"read", "resolve", "reopen"} : ReadMark(c, e, action)
       \/ CommitMark(c) \/ CrashCaller(c)

ActivitySpec == ActivityInit /\ [][ActivityNext]_activityVars

-----------------------------------------------------------------------------
ActivityTypeOK ==
  /\ world.readable \subseteq Creators /\ world.hidden \subseteq Seqs
  /\ profile.selection \subseteq Creators /\ profile.digestAfter \in 0..MaxEvents /\ profile.healthAfter \in 0..MaxEvents
  /\ \A s \in Scopes : profile.checkpoint[s] \in 0..MaxEvents
  /\ \A m \in DOMAIN message : message[m].status \in {"none", "ready", "sending", "sent", "not_sent", "unknown"}

\* A checkpoint covers only what pages of its selection presented: whichever pages are open,
\* acknowledged late or in another order, no activity is skipped unseen (activity, acknowledge).
CheckpointsHonest ==
  \A s \in Scopes : {e \in Happened : e <= profile.checkpoint[s] /\ event[e].creator \in s} \subseteq handed[s]

\* No concurrent setting, acknowledgement or digest takes a checkpoint back (change).
CheckpointsForward == \A s \in Scopes : profile'.checkpoint[s] >= profile.checkpoint[s]

\* "visible events are never dropped" (activity-workflows.ts:229), and none is sent in two
\* digests: since the last selection every event behind the cursor was out of sight when it
\* was passed or is in exactly one digest, whatever number of schedulers prepare it.
DigestsExact ==
  LET current == {m \in DOMAIN message : message[m].kind = "digest" /\ message[m].epoch = profile.epoch}
  IN /\ 1..profile.digestAfter \subseteq passed \cup UNION {message[m].events : m \in current}
     /\ \A m, n \in current : m # n => message[m].events \cap message[n].events = {}

\* "A repeated confirmation cannot post twice", "never automatically retry an uncertain write":
\* whatever is confirmed, delivered, retried or crashed, the provider acts once on a message.
ActsOnce == \A m \in DOMAIN message : reached[m] <= 1

\* Marks of a comment are not lost to one another: read stays, and resolution changes only
\* by a call that asks for it (mark).
MarksKept ==
  \A e \in Seqs : /\ mark[e].read => mark'[e].read
                  /\ mark'[e].resolved # mark[e].resolved =>
                       \E c \in Callers : caller[c].at = "mark" /\ caller[c].comment = e /\ caller[c].action # "read"
=============================================================================
