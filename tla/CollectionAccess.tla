---------------------------- MODULE CollectionAccess ----------------------------
(***************************************************************************)
(* What a collection's buyers and gift recipients may see while its        *)
(* contents change: offer versions, updateAccessContents, refreshCollection *)
(* and gifts of packages/commerce/src/service.ts.                          *)
(*                                                                         *)
(* One offer of a collection.  A purchase or a gift keeps the version it   *)
(* was agreed on and one grant for each benefit; the galleries it opens    *)
(* follow the latest version, the pinned benefits (archive, Discord role)  *)
(* stay those of the purchase.                                             *)
(***************************************************************************)
EXTENDS Naturals, Sequences

CONSTANTS Galleries, Pinned,
          Shelves,     \* the contents a collection may have: sets of galleries
          Purchases, Gifts,
          Refreshers,  \* concurrent calls that bring the offer up to date
          MaxVersions  \* bound on the versions of the offer

Holders == Purchases \cup Gifts
Benefits == Galleries \cup Pinned

VARIABLES
  versions,    \* the galleries of each version of the offer
  shelf,       \* the creator's collection as it is now
  refresher,   \* what each call read before it waited: the latest version, its contents
  holder,      \* Purchase and Gift: none, pending, active, revoked; erased customer
  grants       \* their entitlements; "removed": revoked because the content left

accessVars == <<versions, shelf, refresher, holder, grants>>

Reading == [at |-> "idle", latest |-> 0, found |-> {}]
Latest == versions[Len(versions)]
NoGrants == [b \in Benefits |-> "none"]
HasAccess(h) == \E b \in Benefits : grants[h][b] = "active"

\* accessBenefits
Opened(contents) == contents \cup Pinned

AccessInit ==
  /\ shelf \in Shelves
  /\ versions = <<shelf>>
  /\ refresher = [r \in Refreshers |-> Reading]
  /\ holder = [h \in Holders |-> "none"]
  /\ grants = [h \in Holders |-> NoGrants]

Updated_Removed(g, contents) ==
  [b \in Benefits |->
    IF b \notin Opened(contents) THEN IF g[b] = "none" THEN "none" ELSE "removed"
    ELSE IF g[b] = "none" THEN "active" ELSE g[b]]

\* A grant the contents no longer include ends; one they include again returns.
Updated(g, contents) ==
  [b \in Benefits |->
    IF b \notin Opened(contents) THEN IF g[b] = "none" THEN "none" ELSE "removed"
    ELSE IF g[b] \in {"none", "removed"} THEN "active" ELSE g[b]]

\* A new version, and updateAccessContents for whoever has access now.
NewVersion(contents) ==
  /\ Len(versions) < MaxVersions
  /\ versions' = Append(versions, contents)
  /\ grants' = [h \in Holders |->
       IF holder[h] = "active" /\ HasAccess(h) THEN Updated(grants[h], contents) ELSE grants[h]]

Publish(contents) ==
  /\ contents # {}
  /\ NewVersion(contents)
  /\ UNCHANGED <<shelf, refresher, holder>>

Curate(contents) ==
  /\ contents # shelf
  /\ shelf' = contents
  /\ UNCHANGED <<versions, refresher, holder, grants>>

PrepareContents(r) ==
  /\ refresher[r].at = "idle"
  /\ shelf # Latest
  /\ refresher' = [refresher EXCEPT ![r] = [at |-> "prepared", latest |-> Len(versions), found |-> shelf]]
  /\ UNCHANGED <<versions, shelf, holder, grants>>

\* stale_content_revision: another version came first
RefreshContents(r) ==
  /\ refresher[r].at = "prepared"
  /\ refresher' = [refresher EXCEPT ![r] = Reading]
  /\ IF refresher[r].latest = Len(versions) THEN NewVersion(refresher[r].found)
     ELSE UNCHANGED <<versions, grants>>
  /\ UNCHANGED <<shelf, holder>>

Starts(h) == grants' = [grants EXCEPT ![h] = [b \in Benefits |-> IF b \in Opened(Latest) THEN "active" ELSE "none"]]
Ends(h) == grants' = [grants EXCEPT ![h] = [b \in Benefits |-> IF @[b] = "none" THEN "none" ELSE "revoked"]]

\* applyEvidence of a completed payment; claimGifts of a pending gift
Buy(h) ==
  /\ h \in Purchases /\ holder[h] = "none"
  /\ holder' = [holder EXCEPT ![h] = "active"]
  /\ Starts(h)
  /\ UNCHANGED <<versions, shelf, refresher>>

GiftOffer(h) ==
  /\ h \in Gifts /\ holder[h] = "none"
  /\ holder' = [holder EXCEPT ![h] = "pending"]
  /\ UNCHANGED <<versions, shelf, refresher, grants>>

ClaimGift(h) ==
  /\ holder[h] = "pending"
  /\ holder' = [holder EXCEPT ![h] = "active"]
  /\ Starts(h)
  /\ UNCHANGED <<versions, shelf, refresher>>

\* a refund or reversal, revokeGift
EndAccess(h) ==
  /\ holder[h] \in {"pending", "active"}
  /\ holder' = [holder EXCEPT ![h] = "revoked"]
  /\ Ends(h)
  /\ UNCHANGED <<versions, shelf, refresher>>

\* eraseCustomer ends the grants; the purchase or gift keeps its state
EraseHolder(h) ==
  /\ holder[h] = "active" /\ HasAccess(h)
  /\ Ends(h)
  /\ UNCHANGED <<versions, shelf, refresher, holder>>

\* revoke of one entitlement by the creator
RevokeGrant(h, b) ==
  /\ grants[h][b] = "active"
  /\ grants' = [grants EXCEPT ![h][b] = "revoked"]
  /\ UNCHANGED <<versions, shelf, refresher, holder>>

AccessNext ==
  \/ \E contents \in Shelves : Publish(contents) \/ Curate(contents)
  \/ \E r \in Refreshers : PrepareContents(r) \/ RefreshContents(r)
  \/ \E h \in Holders :
       \/ Buy(h) \/ GiftOffer(h) \/ ClaimGift(h) \/ EndAccess(h) \/ EraseHolder(h)
       \/ \E b \in Benefits : RevokeGrant(h, b)

AccessSpec == AccessInit /\ [][AccessNext]_accessVars

AccessTypeOK ==
  /\ versions \in Seq(SUBSET Galleries) /\ shelf \in Shelves
  /\ refresher \in [Refreshers -> [at : {"idle", "prepared"}, latest : 0..MaxVersions, found : SUBSET Galleries]]
  /\ holder \in [Holders -> {"none", "pending", "active", "revoked"}]
  /\ grants \in [Holders -> [Benefits -> {"none", "active", "revoked", "removed"}]]

\* No grant opens what the latest version does not hold, and whoever kept access
\* sees all of it: a benefit is missing only where it was revoked.
AccessFollowsContents ==
  \A h \in Holders :
    /\ \A b \in Benefits : grants[h][b] = "active" => b \in Opened(Latest)
    /\ HasAccess(h) => \A b \in Opened(Latest) : grants[h][b] \in {"active", "revoked"}

\* Whoever lost all access - a refund, a revoked gift, an erased customer - gets
\* none of it back from later contents.
NoneComesBack ==
  \A h \in Holders : holder[h] # "pending" /\ grants[h] # NoGrants /\ ~HasAccess(h) => ~HasAccess(h)'
EndedAccessStays == [][NoneComesBack]_accessVars

\* A collection whose contents return opens again to those who paid.
PaidContentsReturn ==
  \A h \in Purchases : holder[h] = "active" /\ (\E b \in Benefits : grants[h][b] = "removed")
                         /\ (\A b \in Benefits : grants[h][b] # "revoked") /\ Latest # {} => HasAccess(h)
=============================================================================
