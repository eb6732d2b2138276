----------------------------- MODULE DiscordRoles -----------------------------
(***************************************************************************)
(* Delivery of a Discord role that paid access includes: deliverDiscord of *)
(* packages/commerce/src/service.ts and the client of the Discord API.     *)
(* Administrators of the Discord server give and take the role by hand at  *)
(* any time; nobody leaves the server.                                     *)
(*                                                                         *)
(* One role of one Discord account, which several customers may have       *)
(* linked.  A delivery holds the lock of the role, reads the account's     *)
(* roles, records its intent, changes the role at Discord and records the  *)
(* outcome: three transactions and two calls.  A lock that runs out fences *)
(* the transactions, and cannot stop a call that was already sent.         *)
(***************************************************************************)
EXTENDS Naturals

CONSTANTS Customers,
          Known,     \* the customers who have linked the account already
          Leavers,   \* bound: the customers who may erase their profile
          Couriers,  \* the workers that deliver roles
          NoCourier,
          MaxRoleFaults  \* bound: failed calls, lost locks and crashes

VARIABLES
  roleGrant,   \* the customer's entitlement: none, active, revoked
  linked,      \* the customer's discordUserId is the account
  forgotten,   \* the customer has been erased
  roleRecord,  \* DiscordRole of each customer, NoRecord if there is none
  roleJob,     \* a delivery for the customer is due
  roleLock, courier,
  member, giver, \* Discord: membership, and who gave the role: nobody, other, late, service
  predates,    \* history: some delivery took the role to predate management
  roleFaults

roleVars == <<roleGrant, linked, forgotten, roleRecord, roleJob, roleLock, courier,
              member, giver, predates, roleFaults>>
commerceVars == <<roleGrant, linked, forgotten>>

NoRecord == [managed |-> FALSE, preexisting |-> FALSE, kept |-> FALSE]
RoleRecord == [managed : BOOLEAN, preexisting : BOOLEAN, kept : BOOLEAN]
\* saw: the account at Discord; plan: the call to make; role: the record to write back
Courier == [at : {"idle", "lock", "member", "compare", "change", "persist"}, for : Customers \cup {NoCourier},
            saw : {"absent", "without", "with"}, plan : {"keep", "add", "remove"}, role : RoleRecord]
Idle == [at |-> "idle", for |-> NoCourier, saw |-> "absent", plan |-> "keep", role |-> NoRecord]

Supports(c) == roleGrant[c] = "active" /\ linked[c]
Desired == \E c \in Customers : Supports(c)
HasRole == giver # "nobody"
\* queue: a delivery is worth a job once the customer has a role or a benefit
RoleQueued(c) == roleGrant'[c] # "none" \/ roleRecord'[c].kept
Queues(S) == roleJob' = [c \in Customers |-> roleJob[c] \/ (c \in S /\ RoleQueued(c))]

RoleInit ==
  /\ roleGrant = [c \in Customers |-> "none"]
  /\ linked = [c \in Customers |-> c \in Known]
  /\ forgotten = [c \in Customers |-> FALSE]
  /\ roleRecord = [c \in Customers |-> NoRecord]
  /\ roleJob = [c \in Customers |-> FALSE]
  /\ roleLock = NoCourier
  /\ courier = [w \in Couriers |-> Idle]
  /\ member = FALSE
  /\ giver = "nobody"
  /\ predates = FALSE
  /\ roleFaults = 0

(***************************************************************************)
(* What the customers, the creator and the Discord server do.              *)
(***************************************************************************)
Entitle(c) ==
  /\ roleGrant[c] = "none" /\ ~forgotten[c]
  /\ roleGrant' = [roleGrant EXCEPT ![c] = "active"]
  /\ Queues({c})
  /\ UNCHANGED <<linked, forgotten, roleRecord, roleLock, courier, member, giver, predates, roleFaults>>

Revoke(c) ==
  /\ roleGrant[c] = "active"
  /\ roleGrant' = [roleGrant EXCEPT ![c] = "revoked"]
  /\ Queues({c})
  /\ UNCHANGED <<linked, forgotten, roleRecord, roleLock, courier, member, giver, predates, roleFaults>>

Link(c) ==
  /\ ~linked[c] /\ ~forgotten[c]
  /\ linked' = [linked EXCEPT ![c] = TRUE]
  /\ UNCHANGED <<roleGrant, forgotten, roleRecord>>
  /\ Queues({c})
  /\ UNCHANGED <<roleLock, courier, member, giver, predates, roleFaults>>

\* eraseCustomer: every grant ends, the account is unlinked
Forget(c) ==
  /\ c \in Leavers /\ ~forgotten[c]
  /\ forgotten' = [forgotten EXCEPT ![c] = TRUE]
  /\ linked' = [linked EXCEPT ![c] = FALSE]
  /\ roleGrant' = [roleGrant EXCEPT ![c] = IF @ = "none" THEN @ ELSE "revoked"]
  /\ UNCHANGED roleRecord
  /\ IF roleGrant[c] = "none" THEN UNCHANGED roleJob ELSE Queues({c})
  /\ UNCHANGED <<roleLock, courier, member, giver, predates, roleFaults>>

\* The service manages the role; a delivery is at work with what it read of the account.
Managed == \E c \in Customers : roleRecord[c].managed /\ ~roleRecord[c].preexisting
ActsOnRead == \E w \in Couriers :
  \/ courier[w].at = "compare" /\ courier[w].saw = "without"
  \/ courier[w].at = "change" /\ courier[w].plan # "keep"

Join ==
  /\ ~member
  /\ member' = TRUE
  /\ UNCHANGED <<commerceVars, roleRecord, roleJob, roleLock, courier, giver, predates, roleFaults>>

\* `late' is a role given while the service manages it, or is about to.
GivenByOther ==
  /\ member /\ ~HasRole
  /\ giver' = IF Managed \/ ActsOnRead THEN "late" ELSE "other"
  /\ UNCHANGED <<commerceVars, roleRecord, roleJob, roleLock, courier, member, predates, roleFaults>>

TakenByOther ==
  /\ HasRole
  /\ giver' = "nobody"
  /\ UNCHANGED <<commerceVars, roleRecord, roleJob, roleLock, courier, member, predates, roleFaults>>

ByHand == GivenByOther \/ TakenByOther

(***************************************************************************)
(* The worker.  schedule queues every customer with a role to keep.        *)
(***************************************************************************)
Converge ==
  /\ UNCHANGED <<commerceVars, roleRecord>>
  /\ Queues({c \in Customers : roleRecord[c].kept \/ roleGrant[c] = "active"})
  /\ UNCHANGED <<roleLock, courier, member, giver, predates, roleFaults>>

To(w, step) == courier' = [courier EXCEPT ![w].at = step]
Release(w) == roleLock' = IF roleLock = w THEN NoCourier ELSE roleLock
Fenced(w) == roleLock = w

\* The delivery throws: the job is due again after its backoff.
Fails(w) ==
  /\ courier' = [courier EXCEPT ![w] = Idle]
  /\ roleJob' = [roleJob EXCEPT ![courier[w].for] = TRUE]
  /\ Release(w)

\* The first transaction: without a role to add or to keep there is no target.
Snapshot(w, c) ==
  /\ courier[w].at = "idle" /\ roleJob[c]
  /\ roleJob' = [roleJob EXCEPT ![c] = FALSE]
  /\ courier' = IF Supports(c) \/ roleRecord[c].kept
                  THEN [courier EXCEPT ![w].at = "lock", ![w].for = c] ELSE courier
  /\ UNCHANGED <<commerceVars, roleRecord, roleLock, member, giver, predates, roleFaults>>

Lock(w) ==
  /\ courier[w].at = "lock" /\ roleLock = NoCourier
  /\ roleLock' = w
  /\ To(w, "member")
  /\ UNCHANGED <<commerceVars, roleRecord, roleJob, member, giver, predates, roleFaults>>

Member(w) ==
  /\ courier[w].at = "member"
  /\ courier' = [courier EXCEPT ![w].at = "compare",
                   ![w].saw = IF ~member THEN "absent" ELSE IF HasRole THEN "with" ELSE "without"]
  /\ UNCHANGED <<commerceVars, roleRecord, roleJob, roleLock, member, giver, predates, roleFaults>>

\* What a delivery records before it calls Discord: whose role it is.
Intended(w) ==
  LET old == IF roleRecord[courier[w].for].kept THEN roleRecord[courier[w].for]
             ELSE [kept |-> TRUE, managed |-> Managed, preexisting |-> courier[w].saw = "with" /\ ~Managed]
  IN [old EXCEPT !.managed = @ \/ Managed \/ (Desired /\ courier[w].saw = "without")]

Planned_AnyRole(w) ==
  CASE courier[w].saw = "without" /\ Desired -> "add"
    [] courier[w].saw = "with" /\ ~Desired -> "remove"
    [] OTHER -> "keep"

Planned_OwnRecord(w) ==
  CASE courier[w].saw = "without" /\ Desired -> "add"
    [] courier[w].saw = "with" /\ ~Supports(courier[w].for) /\ Intended(w).managed /\ ~Intended(w).preexisting -> "remove"
    [] OTHER -> "keep"

Planned(w) ==
  CASE courier[w].saw = "without" /\ Desired -> "add"
    [] courier[w].saw = "with" /\ ~Desired /\ Intended(w).managed /\ ~Intended(w).preexisting -> "remove"
    [] OTHER -> "keep"

Compare(w) ==
  /\ courier[w].at = "compare"
  /\ IF ~Fenced(w) THEN Fails(w) /\ UNCHANGED <<roleRecord, predates>>
     ELSE /\ roleRecord' = [roleRecord EXCEPT ![courier[w].for] = Intended(w)]
          /\ predates' = (predates \/ Intended(w).preexisting)
          /\ IF courier[w].saw = "absent" /\ Desired THEN Fails(w)
             ELSE /\ courier' = [courier EXCEPT ![w].at = "change", ![w].role = Intended(w), ![w].plan = Planned(w)]
                  /\ UNCHANGED <<roleJob, roleLock>>
  /\ UNCHANGED <<commerceVars, member, giver, roleFaults>>

Effect(w) ==
  giver' = CASE courier[w].plan = "add" /\ giver = "nobody" -> "service"
             [] courier[w].plan = "remove" -> "nobody"
             [] OTHER -> giver
Held(w) == courier[w].plan = "add" \/ (courier[w].plan = "keep" /\ courier[w].saw = "with")

Change(w) ==
  /\ courier[w].at = "change"
  /\ Effect(w)
  /\ To(w, "persist")
  /\ UNCHANGED <<commerceVars, roleRecord, roleJob, roleLock, member, predates, roleFaults>>

\* The call is refused, or its outcome is unknown: the conflict is recorded.
ChangeFails(w) ==
  /\ courier[w].at = "change" /\ courier[w].plan # "keep"
  /\ roleFaults < MaxRoleFaults
  /\ roleFaults' = roleFaults + 1
  /\ Effect(w) \/ UNCHANGED giver
  /\ roleRecord' = IF Fenced(w) THEN [roleRecord EXCEPT ![courier[w].for] = courier[w].role] ELSE roleRecord
  /\ Fails(w)
  /\ UNCHANGED <<commerceVars, member, predates>>

\* The outcome, and the intent read again: a revocation during the call is queued.
Persist(w) ==
  /\ courier[w].at = "persist"
  /\ LET c == courier[w].for
         role == courier[w].role
         differs == Desired # Held(w) /\ (Desired \/ (role.managed /\ ~role.preexisting))
     IN IF ~Fenced(w) THEN Fails(w) /\ UNCHANGED roleRecord
        ELSE /\ roleRecord' = [roleRecord EXCEPT ![c] = IF ~differs /\ forgotten[c] THEN NoRecord ELSE role]
             /\ roleJob' = [roleJob EXCEPT ![c] = @ \/ differs]
             /\ courier' = [courier EXCEPT ![w] = Idle]
             /\ Release(w)
  /\ UNCHANGED <<commerceVars, member, giver, predates, roleFaults>>

\* withLock: a holder that stops renewing loses the lock after 90 seconds.
LockLapses ==
  /\ roleLock # NoCourier /\ roleFaults < MaxRoleFaults
  /\ roleLock' = NoCourier
  /\ roleFaults' = roleFaults + 1
  /\ UNCHANGED <<commerceVars, roleRecord, roleJob, courier, member, giver, predates>>

CourierStops(w) ==
  /\ courier[w].at # "idle" /\ roleFaults < MaxRoleFaults
  /\ roleFaults' = roleFaults + 1
  /\ Fails(w)
  /\ UNCHANGED <<commerceVars, roleRecord, member, giver, predates>>

Deliver(w) == (\E c \in Customers : Snapshot(w, c)) \/ Lock(w) \/ Member(w) \/ Compare(w) \/ Change(w) \/ Persist(w)

RoleNext ==
  \/ \E c \in Customers : Entitle(c) \/ Revoke(c) \/ Link(c) \/ Forget(c)
  \/ Join \/ ByHand \/ Converge \/ LockLapses
  \/ \E w \in Couriers : Deliver(w) \/ ChangeFails(w) \/ CourierStops(w)

\* The worker's loop, and administrators who at some time leave the role alone.
RoleFairness ==
  /\ WF_roleVars(Converge)
  /\ \A w \in Couriers :
       /\ WF_roleVars(Member(w) \/ Compare(w) \/ Change(w) \/ Persist(w))
       /\ SF_roleVars(Lock(w))
       /\ \A c \in Customers : SF_roleVars(Snapshot(w, c))
  /\ <>[][~ByHand]_roleVars

RoleSpec == RoleInit /\ [][RoleNext]_roleVars /\ RoleFairness

RoleTypeOK ==
  /\ roleGrant \in [Customers -> {"none", "active", "revoked"}]
  /\ linked \in [Customers -> BOOLEAN] /\ forgotten \in [Customers -> BOOLEAN]
  /\ roleRecord \in [Customers -> RoleRecord]
  /\ roleJob \in [Customers -> BOOLEAN]
  /\ roleLock \in Couriers \cup {NoCourier}
  /\ member \in BOOLEAN /\ giver \in {"nobody", "other", "late", "service"}
  /\ courier \in [Couriers -> Courier]
  /\ predates \in BOOLEAN /\ roleFaults \in 0..MaxRoleFaults

\* A role given by hand before the service manages it, and before a delivery reads the
\* account without it, is never removed by the service, whatever customers share the
\* account, locks lapse or calls fail.  A later one is: the record of the service's intent
\* does not tell it from its own.
KeepsOthersRole == giver = "other" /\ giver' = "nobody" => TakenByOther
IndependentRoleKept == [][KeepsOthersRole]_roleVars

\* Once purchases, memberships and administrators rest, a member with access has the role.  A role
\* the service gave outlives the access only if a delivery took it to predate its
\* management, or a customer was erased while another shared the account or a lock
\* was lost.
RoleMatches ==
  /\ member /\ Desired => HasRole
  /\ giver = "service" /\ ~Desired =>
       \/ predates
       \/ /\ \E c \in Customers : forgotten[c]
          /\ roleFaults > 0 \/ \E c \in Customers : linked[c]
RoleFollowsAccess == <>[]RoleMatches

\* A role the service gave goes when the last access to it ends.
GivenRoleRemoved == <>[](giver = "service" => Desired)
=============================================================================
