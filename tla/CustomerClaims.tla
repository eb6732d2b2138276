---------------------------- MODULE CustomerClaims ----------------------------
(***************************************************************************)
(* The customers of a shop: signing in by e-mail, proving more addresses,  *)
(* claiming a purchase made elsewhere with the address it was paid with,   *)
(* and being erased (packages/commerce/src/service.ts).  A sign-in waits    *)
(* for the host's account between its two transactions.                    *)
(***************************************************************************)
EXTENDS Naturals, Sequences, FiniteSets

CONSTANTS Subjects,    \* numbers: a new customer takes the least unused
          Emails,
          Requests,    \* concurrent redeems of sign-in links
          Purchases,   \* purchases made elsewhere
          Accounts,    \* whether the host keeps accounts
          Offered,     \* operations of this instance
          MaxLogins, MaxProofs, MaxClaims, MaxSessions, MaxGone

VARIABLES customers,  \* subject -> [emails, account, erased] or NoCustomer
          accounts,   \* the host: each address's subject
          logins, redeeming, sessions,
          proofs,     \* addresses to be verified
          claims, purchases,
          gone        \* how many links ran out

claimVars == <<customers, accounts, logins, redeeming, sessions, proofs, claims, purchases, gone>>

None == 0
NoCustomer == [emails |-> {}, account |-> None, erased |-> FALSE, known |-> FALSE]
Idle == [login |-> 0, canonical |-> 0]
Min1(S) == CHOOSE x \in S : \A y \in S : x <= y

ClaimInit ==
  /\ customers = [s \in Subjects |-> NoCustomer] /\ accounts = [e \in Emails |-> None]
  /\ logins = <<>> /\ redeeming = [r \in Requests |-> Idle] /\ sessions = {} /\ proofs = <<>> /\ claims = <<>>
  /\ purchases \in [Purchases -> [email : Emails, customer : {None}, state : {"active"}, grant : {"active"}]]
  /\ gone = 0

\* customer(): a subject is a customer from its first request on, unless erased.
Admitted(s) == ~customers[s].erased
Known(s) == [customers[s] EXCEPT !.known = TRUE]
Verified(s, e) == customers' = [customers EXCEPT ![s] = [Known(s) EXCEPT !.emails = @ \cup {e}]]
Open(list, id) == id \in DOMAIN list /\ list[id].state = "open"
Closed(list, id) == [list EXCEPT ![id].state = "consumed"]

-----------------------------------------------------------------------------
(* Signing in.                                                              *)

Matches(e) == {s \in Subjects : customers[s].known /\ ~customers[s].erased /\ e \in customers[s].emails}
Fresh == {s \in Subjects : ~customers[s].known /\ \A i \in DOMAIN logins : logins[i].subject # s}
\* Nothing is sent for an address that names two customers.
BeginEmailLogin(e) ==
  /\ Len(logins) < MaxLogins /\ Cardinality(Matches(e)) <= 1
  /\ Matches(e) = {} => Fresh # {}
  /\ logins' = Append(logins, [subject |-> Min1(IF Matches(e) = {} THEN Fresh ELSE Matches(e)), email |-> e, state |-> "open"])
  /\ UNCHANGED <<customers, accounts, redeeming, sessions, proofs, claims, purchases, gone>>
\* The link is valid: the host gives its account, or makes it.
Provision(r, l) ==
  LET login == logins[l]
      account == IF accounts[login.email] = None THEN login.subject ELSE accounts[login.email]
  IN /\ redeeming[r] = Idle /\ Open(logins, l)
     /\ accounts' = IF Accounts THEN [accounts EXCEPT ![login.email] = account] ELSE accounts
     /\ redeeming' = [redeeming EXCEPT ![r] = [login |-> l, canonical |-> IF Accounts THEN account ELSE login.subject]]
     /\ UNCHANGED <<customers, logins, sessions, proofs, claims, purchases, gone>>
Owns(s) == \E p \in Purchases : purchases[p].customer = s
Redeemable_Trusted(l, canonical) == Admitted(canonical)
Redeemable(l, canonical) ==
  /\ Open(logins, l) /\ Admitted(canonical)
  /\ canonical # logins[l].subject => ~(customers[logins[l].subject].known /\ Owns(logins[l].subject))
  /\ Accounts => customers[canonical].account \in {None, logins[l].email}
NewSession(s, l) == sessions' = sessions \cup {[customer |-> s, login |-> l, place |-> Cardinality(sessions) + 1]}
Redeem(r) ==
  LET l == redeeming[r].login
      s == redeeming[r].canonical
  IN /\ redeeming[r] # Idle /\ redeeming' = [redeeming EXCEPT ![r] = Idle]
     /\ IF Redeemable(l, s)
        THEN /\ customers' = [customers EXCEPT ![s] =
                  [Known(s) EXCEPT !.emails = @ \cup {logins[l].email}, !.account = IF Accounts THEN logins[l].email ELSE None]]
             /\ logins' = Closed(logins, l) /\ NewSession(s, l)
        ELSE UNCHANGED <<customers, logins, sessions>>
     /\ UNCHANGED <<accounts, proofs, claims, purchases, gone>>
\* The host's own sign-in: an account belongs to a customer and opens sessions.
AttachAccount(s, e) ==
  /\ Accounts /\ Admitted(s) /\ customers[s].account \in {None, e}
  /\ customers' = [customers EXCEPT ![s] = [Known(s) EXCEPT !.account = e, !.emails = @ \cup {e}]]
  /\ UNCHANGED <<accounts, logins, redeeming, sessions, proofs, claims, purchases, gone>>
IssueAccountSession(s) ==
  /\ Admitted(s) /\ customers[s].account # None /\ Cardinality(sessions) < MaxSessions /\ NewSession(s, 0)
  /\ UNCHANGED <<customers, accounts, logins, redeeming, proofs, claims, purchases, gone>>
RevokeSession(session) ==
  /\ sessions' = sessions \ {session}
  /\ UNCHANGED <<customers, accounts, logins, redeeming, proofs, claims, purchases, gone>>

-----------------------------------------------------------------------------
(* Addresses and claims.                                                    *)

BeginEmailVerification(s, e) ==
  /\ Admitted(s) /\ Len(proofs) < MaxProofs
  /\ proofs' = Append(proofs, [customer |-> s, email |-> e, state |-> "open"])
  /\ customers' = [customers EXCEPT ![s] = Known(s)]
  /\ UNCHANGED <<accounts, logins, redeeming, sessions, claims, purchases, gone>>
VerifyEmail(s, p) ==
  /\ Admitted(s) /\ Open(proofs, p) /\ proofs[p].customer = s
  /\ proofs' = Closed(proofs, p) /\ Verified(s, proofs[p].email)
  /\ UNCHANGED <<accounts, logins, redeeming, sessions, claims, purchases, gone>>

\* createClaim: an earlier link to the purchase is spent.
Claimable(p) == purchases[p].customer = None /\ purchases[p].state = "active"
WithClaim_Beside(list, p) == Append(list, [purchase |-> p, email |-> purchases[p].email, state |-> "open"])
WithClaim(list, p) ==
  Append([i \in DOMAIN list |-> IF list[i].purchase = p THEN [list[i] EXCEPT !.state = "consumed"] ELSE list[i]],
         [purchase |-> p, email |-> purchases[p].email, state |-> "open"])
ResendClaim(p) ==
  /\ Claimable(p) /\ Len(claims) < MaxClaims /\ claims' = WithClaim(claims, p)
  /\ UNCHANGED <<customers, accounts, logins, redeeming, sessions, proofs, purchases, gone>>
Proven_ByLink(s, c) == TRUE
Proven(s, c) == claims[c].email \in customers[s].emails
RedeemClaim(s, c) ==
  LET p == claims[c].purchase
  IN /\ Admitted(s) /\ customers[s].known /\ Open(claims, c) /\ Proven(s, c) /\ Claimable(p)
     /\ purchases' = [purchases EXCEPT ![p].customer = s] /\ claims' = Closed(claims, c)
     /\ UNCHANGED <<customers, accounts, logins, redeeming, sessions, proofs, gone>>
\* A refund or a reversal (CommerceOrders).
RevokePurchase(p) ==
  /\ purchases[p].state = "active"
  /\ purchases' = [purchases EXCEPT ![p].state = "revoked", ![p].grant = "revoked"]
  /\ UNCHANGED <<customers, accounts, logins, redeeming, sessions, proofs, claims, gone>>

-----------------------------------------------------------------------------
\* eraseCustomer: the person is forgotten, the purchases stay in the books.
Left(list, s) == [i \in DOMAIN list |-> IF list[i].customer = s THEN [list[i] EXCEPT !.state = "removed"] ELSE list[i]]
LoginsLeft_All(s) == logins
LoginsLeft(s) == [i \in DOMAIN logins |-> IF logins[i].subject = s THEN [logins[i] EXCEPT !.state = "removed"] ELSE logins[i]]
EraseCustomer(s) ==
  /\ Admitted(s) /\ customers[s].known
  /\ customers' = [customers EXCEPT ![s] = [emails |-> {}, account |-> @.account, erased |-> TRUE, known |-> TRUE]]
  /\ purchases' = [p \in Purchases |-> IF purchases[p].customer = s THEN [purchases[p] EXCEPT !.grant = "revoked"] ELSE purchases[p]]
  /\ claims' = [i \in DOMAIN claims |-> IF purchases[claims[i].purchase].customer = s THEN [claims[i] EXCEPT !.state = "removed"] ELSE claims[i]]
  /\ proofs' = Left(proofs, s) /\ logins' = LoginsLeft(s)
  /\ sessions' = {x \in sessions : x.customer # s}
  /\ UNCHANGED <<accounts, redeeming, gone>>
\* A link or a session runs out, and schedule() removes it.
Expired(list, list2, i) == gone < MaxGone /\ gone' = gone + 1 /\ Open(list, i) /\ list2 = [list EXCEPT ![i].state = "removed"]
Expire ==
  /\ \/ \E i \in DOMAIN logins : Expired(logins, logins', i) /\ UNCHANGED <<proofs, claims, sessions>>
     \/ \E i \in DOMAIN proofs : Expired(proofs, proofs', i) /\ UNCHANGED <<logins, claims, sessions>>
     \/ \E i \in DOMAIN claims : Expired(claims, claims', i) /\ UNCHANGED <<logins, proofs, sessions>>
     \/ \E x \in sessions : gone < MaxGone /\ gone' = gone + 1 /\ sessions' = sessions \ {x} /\ UNCHANGED <<logins, proofs, claims>>
  /\ UNCHANGED <<customers, accounts, redeeming, purchases>>

ClaimNext ==
  \/ "login" \in Offered /\ \E e \in Emails : BeginEmailLogin(e)
  \/ \E r \in Requests, l \in DOMAIN logins : Provision(r, l)
  \/ \E r \in Requests : Redeem(r)
  \/ "account" \in Offered /\ \E s \in Subjects : IssueAccountSession(s) \/ \E e \in Emails : AttachAccount(s, e)
  \/ \E session \in sessions : RevokeSession(session)
  \/ "verify" \in Offered /\ \E s \in Subjects, e \in Emails : BeginEmailVerification(s, e)
  \/ \E s \in Subjects, p \in DOMAIN proofs : VerifyEmail(s, p)
  \/ \E p \in Purchases : ResendClaim(p) \/ RevokePurchase(p)
  \/ \E s \in Subjects, c \in DOMAIN claims : RedeemClaim(s, c)
  \/ \E s \in Subjects : EraseCustomer(s)
  \/ Expire
ClaimSpec == ClaimInit /\ [][ClaimNext]_claimVars

-----------------------------------------------------------------------------
ClaimTypeOK ==
  /\ \A s \in Subjects : customers[s].emails \subseteq Emails /\ customers[s].account \in Emails \cup {None}
  /\ \A i \in DOMAIN logins : logins[i].subject \in Subjects
  /\ \A r \in Requests : redeeming[r].login \in 0..Len(logins)
  /\ \A p \in Purchases : purchases[p].customer \in Subjects \cup {None}

\* A sign-in link signs in once, however often and at the same time it is followed
\* (redeemEmailLogin).
SignsInOnce == \A x, y \in sessions : x.login = y.login /\ x.login # 0 => x = y

\* Nobody is signed in as an erased customer, and nothing of one is left that could be
\* redeemed, whatever sign-in was under way (eraseCustomer, redeemEmailLogin).
ErasedIsOut ==
  \A s \in Subjects : customers[s].erased =>
    /\ \A x \in sessions : x.customer # s
    /\ customers[s].emails = {}
    /\ \A p \in Purchases : purchases[p].customer = s => purchases[p].grant = "revoked"
    /\ \A i \in DOMAIN logins : logins[i].subject = s => logins[i].state # "open"
    /\ \A i \in DOMAIN proofs : proofs[i].customer = s => proofs[i].state # "open"
    /\ \A i \in DOMAIN claims : claims[i].state = "open" => purchases[claims[i].purchase].customer # s

\* Of the links to a purchase one is good at most, and none when it has been claimed
\* (createClaim, redeemClaim).
OneClaimOpen ==
  \A i \in DOMAIN claims : claims[i].state = "open" =>
    /\ purchases[claims[i].purchase].customer = None
    /\ \A j \in DOMAIN claims : j # i /\ claims[j].state = "open" => claims[j].purchase # claims[i].purchase

\* A purchase goes to the person who proved the address it was paid with, and to nobody
\* else afterwards (redeemClaim).
ClaimedByBuyer ==
  \A p \in Purchases : purchases'[p].customer # purchases[p].customer =>
    /\ purchases[p].customer = None /\ purchases[p].state = "active"
    /\ purchases[p].email \in customers[purchases'[p].customer].emails

\* A customer that belongs to an account of the host never passes to another one
\* (redeemEmailLogin, attachAccountCustomer).
AccountKept ==
  \A s \in Subjects : customers[s].account # None => customers'[s].account = customers[s].account
===============================================================================
