--------------------------- MODULE PublicationCopies ---------------------------
(***************************************************************************)
(* Copies of a Work published elsewhere: createPublicationCopy,            *)
(* approvePublicationOperation and transitionPublicationOperation of       *)
(* packages/persistence/src/publication-copies.ts over the two commits of  *)
(* MemoryCreatorContentStore.                                              *)
(*                                                                         *)
(* One Work.  Every commit raises a publication's revision and an          *)
(* operation's version, so comparing whole records is comparing those.  An *)
(* operation is named by its copy and intended revision, as its id is.     *)
(* The dispatcher and the platform it calls are external.                  *)
(***************************************************************************)
EXTENDS Naturals, FiniteSets

CONSTANTS Callers,
          Slots, Creations, Configs, \* slotId, creationRequestId, the rest of the identity
          Copies, NoCopy,           \* fresh publication ids, used in order: 1, 2, ...
          Kinds,                    \* operations that are approved
          Remotes, NoRemote,        \* objects on the platform
          MaxCopyRevision,          \* bound: commits to one publication
          MaxWorkRevision,          \* bound: edits of the Work
          MaxCopyFaults             \* bound: crashes, unknown outcomes and wrong readbacks

NoClaim == [copy |-> NoCopy, fingerprint |-> <<>>]
Claims == [copy : Copies, fingerprint : Slots \X Configs] \cup {NoClaim}
States == {"none", "PREPARED", "IN_FLIGHT", "AMBIGUOUS", "CONFIRMED", "FAILED", "CANCELLED"}
Final == {"CONFIRMED", "FAILED", "CANCELLED"}
Revisions == 0..MaxCopyRevision

VARIABLES
  work,                    \* its revision, and whether it is neither deleted nor archived
  publication,             \* slot, revision (0: none), remote object, active operation
  requestClaim, slotClaim, \* PublicationClaim by request and by slot
  operation,               \* PublicationOperation by copy and intended revision
  remoteClaim,             \* the copy a remote object belongs to
  caller,                  \* each call: its step, input and what it has read
  objects,                 \* history: the copy each object on the platform was made for
  carried,                 \* history: provider calls, by operation
  answers,                 \* history: what creation calls returned
  copyFaults

copyVars == <<work, publication, requestClaim, slotClaim, operation, remoteClaim,
              caller, objects, carried, answers, copyFaults>>
store == <<publication, requestClaim, slotClaim, operation, remoteClaim>>
outside == <<work, objects, carried, copyFaults>>

Operation == [state : States, version : 0..MaxCopyRevision, kind : Kinds, source : 0..MaxWorkRevision]
NoOperation == [state |-> "none", version |-> 0, kind |-> CHOOSE k \in Kinds : TRUE, source |-> 0]
Publication == [slot : Slots, revision : Revisions, remote : Remotes \cup {NoRemote}, active : Revisions]
NoPublication == [slot |-> CHOOSE s \in Slots : TRUE, revision |-> 0, remote |-> NoRemote, active |-> 0]
Input == [copy : Copies, request : Creations, slot : Slots, config : Configs]

NotCalling == [at |-> "idle"]
Starts(c, call) == caller[c] = NotCalling /\ caller' = [caller EXCEPT ![c] = call]
Goes(c, step) == caller' = [caller EXCEPT ![c].at = step]
Ends(c) == caller' = [caller EXCEPT ![c] = NotCalling]

CopyInit ==
  /\ work = [revision |-> 1, usable |-> TRUE]
  /\ publication = [p \in Copies |-> NoPublication]
  /\ requestClaim = [r \in Creations |-> NoClaim] /\ slotClaim = [s \in Slots |-> NoClaim]
  /\ operation = [p \in Copies |-> [n \in Revisions |-> NoOperation]]
  /\ remoteClaim = [r \in Remotes |-> NoCopy] /\ objects = [r \in Remotes |-> NoCopy]
  /\ caller = [c \in Callers |-> NotCalling]
  /\ carried = [p \in Copies |-> [n \in Revisions |-> 0]] /\ answers = {} /\ copyFaults = 0

CopyFault == copyFaults < MaxCopyFaults /\ copyFaults' = copyFaults + 1

-----------------------------------------------------------------------------
(* createPublicationCopy: four rounds of reading the claims and committing. *)

Unused(p) == publication[p].revision = 0 /\ \A c \in Callers : caller[c].at # "idle" => caller[c].copy # p

Create(c, in) ==
  /\ Unused(in.copy) /\ \A p \in Copies : p < in.copy => ~Unused(p)
  /\ Starts(c, [at |-> "request", copy |-> in.copy, in |-> in, round |-> 1, request |-> NoClaim, slot |-> NoClaim])
  /\ UNCHANGED <<store, outside, answers>>

Fingerprint(in) == <<in.slot, in.config>>

ReadRequest(c) ==
  /\ caller[c].at = "request"
  /\ caller' = [caller EXCEPT ![c].at = "slot", ![c].request = requestClaim[caller[c].in.request]]
  /\ UNCHANGED <<store, outside, answers>>

Existing(call) == IF call.request # NoClaim THEN call.request ELSE call.slot

ReadSlot(c) ==
  LET call == [caller[c] EXCEPT !.slot = slotClaim[caller[c].in.slot]]
  IN /\ caller[c].at = "slot"
     /\ caller' = [caller EXCEPT ![c] =
          IF Existing(call) = NoClaim THEN [call EXCEPT !.at = "commit"]
          ELSE IF \/ Existing(call).fingerprint # Fingerprint(call.in)
                  \/ NoClaim \notin {call.request, call.slot} /\ call.request.copy # call.slot.copy
                 THEN NotCalling
          ELSE [call EXCEPT !.at = "load"]]
     /\ UNCHANGED <<store, outside, answers>>

Answers(c, p) == answers' = answers \cup {<<caller[c].in.request, caller[c].in.slot, caller[c].in.config, p>>}

LoadCopy(c) ==
  LET p == Existing(caller[c]).copy
  IN /\ caller[c].at = "load"
     /\ IF publication[p].revision = 0 \/ publication[p].slot # caller[c].in.slot THEN Ends(c) /\ UNCHANGED answers
        ELSE IF caller[c].request # NoClaim THEN Ends(c) /\ Answers(c, p)
        ELSE Goes(c, "attach") /\ UNCHANGED answers
     /\ UNCHANGED <<store, outside>>

Conflict(c) ==
  /\ IF caller[c].round = 4 THEN Ends(c)
     ELSE caller' = [caller EXCEPT ![c].at = "request", ![c].round = @ + 1, ![c].request = NoClaim, ![c].slot = NoClaim]
  /\ UNCHANGED <<store, answers>>

\* The slot's claim is not looked at when the copy is committed.
Allocatable_AnySlot(in) == work.usable /\ requestClaim[in.request] = NoClaim /\ publication[in.copy].revision = 0

Allocatable(in) ==
  /\ work.usable /\ requestClaim[in.request] = NoClaim
  /\ publication[in.copy].revision = 0 /\ slotClaim[in.slot] = NoClaim

\* commitPublicationCopy
CommitCopy(c) ==
  LET in == caller[c].in
      claim == [copy |-> in.copy, fingerprint |-> Fingerprint(in)]
  IN /\ caller[c].at = "commit"
     /\ IF Allocatable(in)
          THEN /\ publication' = [publication EXCEPT ![in.copy] = [NoPublication EXCEPT !.slot = in.slot, !.revision = 1]]
               /\ slotClaim' = [slotClaim EXCEPT ![in.slot] = claim]
               /\ requestClaim' = [requestClaim EXCEPT ![in.request] = claim]
               /\ Ends(c) /\ Answers(c, in.copy)
               /\ UNCHANGED <<operation, remoteClaim>>
          ELSE Conflict(c)
     /\ UNCHANGED outside

\* ... with existing: a receipt for a later request
AttachRequest(c) ==
  LET in == caller[c].in
      claim == [copy |-> caller[c].slot.copy, fingerprint |-> Fingerprint(in)]
  IN /\ caller[c].at = "attach"
     /\ IF work.usable /\ requestClaim[in.request] = NoClaim /\ publication[claim.copy].revision > 0 /\ slotClaim[in.slot] = claim
          THEN /\ requestClaim' = [requestClaim EXCEPT ![in.request] = claim]
               /\ Ends(c) /\ Answers(c, claim.copy)
               /\ UNCHANGED <<publication, slotClaim, operation, remoteClaim>>
          ELSE Conflict(c)
     /\ UNCHANGED outside

-----------------------------------------------------------------------------
(* Operations: approval, the one provider call, and what became of it.      *)

Matches(kind, p) == IF kind = "CREATE" THEN publication[p].remote = NoRemote
                    ELSE publication[p].remote # NoRemote \/ kind = "DETACH"

\* The caller hands over the publication and the source revision it has seen.
Approve(c, p, kind) ==
  /\ publication[p].revision \in 1..(MaxCopyRevision - 4) \* the commits of one operation
  /\ Matches(kind, p)
  /\ Starts(c, [at |-> IF publication[p].active = 0 THEN "approve" ELSE "active", copy |-> p,
                revision |-> publication[p].revision, active |-> publication[p].active,
                kind |-> kind, source |-> work.revision])
  /\ UNCHANGED <<store, outside, answers>>

Settled_NotPrepared(p, n) == operation[p][n].state \in Final \cup {"AMBIGUOUS"}

Settled(p, n) == operation[p][n].state \in Final

ReadActive(c) ==
  /\ caller[c].at = "active"
  /\ IF Settled(caller[c].copy, caller[c].active) THEN Goes(c, "approve") ELSE Ends(c)
  /\ UNCHANGED <<store, outside, answers>>

\* commitPublicationOperation: the publication and the operation are those read.
Unchanged_Operation(p, revision, n, version) == operation[p][n].version = version

Unchanged(p, revision, n, version) ==
  publication[p].revision = revision /\ operation[p][n].version = version

CommitApproval(c) ==
  LET p == caller[c].copy
      n == caller[c].revision + 1
  IN /\ caller[c].at = "approve"
     /\ IF work.usable /\ Unchanged(p, caller[c].revision, n, 0)
          THEN /\ operation' = [operation EXCEPT ![p][n] = [state |-> "PREPARED", version |-> 1, kind |-> caller[c].kind,
                                                            source |-> caller[c].source]]
               /\ publication' = [publication EXCEPT ![p].revision = n, ![p].active = n]
          ELSE UNCHANGED <<operation, publication>>
     /\ Ends(c)
     /\ UNCHANGED <<requestClaim, slotClaim, remoteClaim, outside, answers>>

Following_Again(state) ==
  CASE state = "PREPARED" -> {"IN_FLIGHT", "CANCELLED"}
    [] state = "IN_FLIGHT" -> {"IN_FLIGHT", "AMBIGUOUS", "CONFIRMED", "FAILED"}
    [] state = "AMBIGUOUS" -> {"CONFIRMED"}
    [] OTHER -> {}

\* operationTransitions
Following(state) ==
  CASE state = "PREPARED" -> {"IN_FLIGHT", "CANCELLED"}
    [] state = "IN_FLIGHT" -> {"AMBIGUOUS", "CONFIRMED", "FAILED"}
    [] state = "AMBIGUOUS" -> {"CONFIRMED"}
    [] OTHER -> {}

Delivers(kind) == kind \in {"CREATE", "UPDATE"}

\* transitionPublicationOperation reads the publication, then the operation.
ReadCopy(c, call) ==
  [at |-> "operation", copy |-> call.copy, active |-> call.active, to |-> call.to, binding |-> call.binding,
   version |-> operation[call.copy][call.active].version, revision |-> publication[call.copy].revision]

Binds(p, kind, to, binding) ==
  /\ to = "CONFIRMED" /\ Delivers(kind) => binding # NoRemote
  /\ binding # NoRemote => to = "CONFIRMED" /\ Delivers(kind) /\ publication[p].remote \in {NoRemote, binding}

ReadOperation(c) ==
  LET p == caller[c].copy
      op == operation[p][caller[c].active]
  IN /\ caller[c].at = "operation"
     /\ IF /\ publication[p].revision = caller[c].revision \* else what was read does not commit
           /\ publication[p].active = caller[c].active /\ op.version = caller[c].version
           /\ caller[c].to \in Following(op.state)
           /\ Binds(p, op.kind, caller[c].to, caller[c].binding)
          THEN Goes(c, "transition") ELSE Ends(c)
     /\ UNCHANGED <<store, outside, answers>>

RemoteFree_Any(r, p) == TRUE

RemoteFree(r, p) == r = NoRemote \/ remoteClaim[r] \in {NoCopy, p}

CommitTransition(c) ==
  LET p == caller[c].copy
      n == caller[c].active
      r == caller[c].binding
  IN /\ caller[c].at = "transition"
     /\ IF /\ work.usable /\ Unchanged(p, caller[c].revision, n, caller[c].version)
           /\ caller[c].to = "IN_FLIGHT" => work.revision = operation[p][n].source
           /\ RemoteFree(r, p)
          THEN /\ operation' = [operation EXCEPT ![p][n].state = caller[c].to, ![p][n].version = @ + 1]
               /\ publication' = [publication EXCEPT ![p].revision = @ + 1, ![p].remote = IF r = NoRemote THEN @ ELSE r]
               /\ remoteClaim' = IF r = NoRemote THEN remoteClaim ELSE [remoteClaim EXCEPT ![r] = p]
               /\ IF caller[c].to = "IN_FLIGHT" THEN Goes(c, "send") ELSE Ends(c)
          ELSE Ends(c) /\ UNCHANGED <<operation, publication, remoteClaim>>
     /\ UNCHANGED <<requestClaim, slotClaim, outside, answers>>

\* Whoever dispatches, cancels, or gives an operation up as ambiguous.
Transition(c, p, n, to) ==
  /\ operation[p][n].state # "none"
  /\ to \in {"IN_FLIGHT", "CANCELLED", "AMBIGUOUS"} /\ to \in Following(operation[p][n].state)
  /\ Starts(c, ReadCopy(c, [copy |-> p, active |-> n, to |-> to, binding |-> NoRemote]))
  /\ UNCHANGED <<store, outside, answers>>

\* A readback of the platform settles an ambiguous operation; it may name an object
\* that was made for another copy.
Readback(c, p, n, r) ==
  /\ operation[p][n].state = "AMBIGUOUS"
  /\ IF Delivers(operation[p][n].kind) THEN r # NoRemote /\ objects[r] # NoCopy ELSE r = NoRemote
  /\ IF r = NoRemote \/ objects[r] = p THEN UNCHANGED copyFaults ELSE CopyFault
  /\ Starts(c, ReadCopy(c, [copy |-> p, active |-> n, to |-> "CONFIRMED", binding |-> r]))
  /\ UNCHANGED <<store, work, objects, carried, answers>>

\* The provider carries the operation out, with or without an answer, or refuses.
Send(c) ==
  LET p == caller[c].copy
      n == caller[c].active
      kind == operation[p][n].kind
      made == {r \in Remotes : objects[r] = NoCopy /\ \A q \in Remotes : q < r => objects[q] # NoCopy}
      answer(to, r) == caller' = [caller EXCEPT ![c] = ReadCopy(c, [copy |-> p, active |-> n, to |-> to, binding |-> r])]
  IN /\ caller[c].at = "send"
     /\ carried' = [carried EXCEPT ![p][n] = @ + 1]
     /\ \/ \E r \in IF kind = "CREATE" THEN made ELSE {publication[p].remote} :
             /\ objects' = IF kind = "CREATE" THEN [objects EXCEPT ![r] = p] ELSE objects
             /\ \/ answer("CONFIRMED", IF Delivers(kind) THEN r ELSE NoRemote) /\ UNCHANGED copyFaults
                \/ answer("AMBIGUOUS", NoRemote) /\ CopyFault
        \/ answer("FAILED", NoRemote) /\ UNCHANGED <<objects, copyFaults>>
        \/ answer("AMBIGUOUS", NoRemote) /\ CopyFault /\ UNCHANGED objects
     /\ UNCHANGED <<store, work, answers>>

EditWork ==
  /\ work.revision < MaxWorkRevision
  /\ work' = [work EXCEPT !.revision = @ + 1]
  /\ UNCHANGED <<store, caller, objects, carried, answers, copyFaults>>

ArchiveWork ==
  /\ CopyFault
  /\ work' = [work EXCEPT !.usable = ~@]
  /\ UNCHANGED <<store, caller, objects, carried, answers>>

CrashCaller(c) ==
  /\ caller[c].at # "idle" /\ CopyFault /\ Ends(c)
  /\ UNCHANGED <<store, work, objects, carried, answers>>

CopyNext ==
  \/ EditWork \/ ArchiveWork
  \/ \E c \in Callers :
       \/ ReadRequest(c) \/ ReadSlot(c) \/ LoadCopy(c) \/ CommitCopy(c) \/ AttachRequest(c)
       \/ ReadActive(c) \/ CommitApproval(c) \/ ReadOperation(c) \/ CommitTransition(c)
       \/ /\ caller[c] = NotCalling
          /\ \/ \E in \in Input : Create(c, in)
             \/ \E p \in Copies : \E kind \in Kinds : Approve(c, p, kind)
             \/ \E p \in Copies, n \in Revisions : \/ \E to \in States : Transition(c, p, n, to)
                                                    \/ \E r \in Remotes \cup {NoRemote} : Readback(c, p, n, r)
       \/ Send(c) \/ CrashCaller(c)

CopySpec == CopyInit /\ [][CopyNext]_copyVars

CopyTypeOK ==
  /\ work \in [revision : 1..MaxWorkRevision, usable : BOOLEAN]
  /\ publication \in [Copies -> Publication]
  /\ requestClaim \in [Creations -> Claims] /\ slotClaim \in [Slots -> Claims]
  /\ \A p \in Copies, n \in Revisions : operation[p][n] \in Operation
  /\ remoteClaim \in [Remotes -> Copies \cup {NoCopy}] /\ objects \in [Remotes -> Copies \cup {NoCopy}]
  /\ \A c \in Callers : caller[c].at \in {"idle", "request", "slot", "load", "commit", "attach", "active", "approve",
                                          "operation", "transition", "send"}
  /\ answers \subseteq (Creations \X Slots \X Configs \X Copies) /\ copyFaults \in 0..MaxCopyFaults

\* Whatever requests race and are repeated, a slot has one copy, whose configuration is
\* the one it was created with, and a request is always answered with the same copy.
AnswersAgree ==
  /\ \A a, b \in answers : a[1] = b[1] \/ a[2] = b[2] => a[4] = b[4] /\ a[2] = b[2] /\ a[3] = b[3]
  /\ \A p, q \in Copies : p # q /\ publication[p].revision > 0 /\ publication[q].revision > 0
       => publication[p].slot # publication[q].slot

\* "AMBIGUOUS is never automatically retried" (transitionPublicationOperation): an
\* operation is sent to the provider at most once, and a copy never makes two objects.
SentOnce ==
  \A p \in Copies :
    /\ \A n \in Revisions : carried[p][n] <= 1
    /\ Cardinality({r \in Remotes : objects[r] = p}) <= 1

\* One operation of a copy is open at a time, and an object belongs to one copy.
OneOpen ==
  \A p \in Copies :
    /\ Cardinality({n \in Revisions : operation[p][n].state \notin Final \cup {"none"}}) <= 1
    /\ \A q \in Copies : p # q /\ publication[p].remote # NoRemote => publication[p].remote # publication[q].remote

\* "An update cannot silently replace a remote object": once bound, a copy keeps its
\* object, and a settled operation stays as it was settled.
KeepsBinding ==
  \A p \in Copies :
    /\ publication[p].remote # NoRemote => publication'[p].remote = publication[p].remote
    /\ \A n \in Revisions : operation[p][n].state \in Final => operation'[p][n] = operation[p][n]
=============================================================================
