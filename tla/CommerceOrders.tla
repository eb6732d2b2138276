----------------------------- MODULE CommerceOrders -----------------------------
(***************************************************************************)
(* Checkouts, payments and paid access (packages/commerce/src/service.ts). *)
(* Every store transaction is synchronous and atomic; calls to the payment *)
(* provider happen between transactions.  Workers lease durable jobs, and  *)
(* a job whose lease runs out is run again while its first worker may still *)
(* be waiting for the provider: only the job's own record is fenced, the    *)
(* records its transactions write are not.                                 *)
(*                                                                         *)
(* One application checkout leads to at most one capture, of PaidMinor     *)
(* minor units; its benefits are taken as one grant.  Time is the age of a *)
(* checkout; updatedAt of a capture is the rank of its status.             *)
(***************************************************************************)
EXTENDS Naturals, FiniteSets, TLC

CONSTANTS Checkouts,
          Workers,
          Refunds,   \* provider refund ids, each of one minor unit
          PaidMinor,
          Nobody,    \* no job, no worker
          MaxNotices, \* bound: notifications delivered; the others are lost
          MaxFaults  \* bound: crashes, provider errors and leases that run out

ASSUME CommerceAssumption ==
  /\ PaidMinor \in Nat \ {0}
  /\ MaxNotices \in Nat
  /\ MaxFaults \in Nat
  /\ IsFiniteSet(Refunds)
  /\ Refunds \cap {"approved", "approval_reversed", "capture", "reversed"} = {}

VARIABLES
  checkout,  \* Checkout: [state, provider] with the linked provider order, 0 if none
  payment,   \* Payment: [state, refunded, updatedAt]
  refund,    \* Refund records of each payment
  purchase, grant,
  erased,    \* the customer's profile has been erased
  event,     \* ProviderEvent inbox
  job,       \* DeliveryJob: [state, holder, retried]: the next attempt is not the first
  at, held, seen,  \* what a worker runs: next step, job, provider's answer
  age,       \* 0; 1 past the service's idempotency window; 2 past the provider's
  remote,    \* the provider's view of the order and its capture
  faults

vars == <<checkout, payment, refund, purchase, grant, erased, event, job,
          at, held, seen, age, remote, faults>>
money == <<payment, refund, purchase, grant>>
worker == <<at, held, seen>>

CheckoutState == {"none", "creating", "pending", "completed", "failed", "needs_review"}
CaptureState == {"pending", "completed", "failed", "partially_refunded", "refunded"}
PaymentState == {"none", "reversed", "needs_review"} \cup CaptureState
RefundState == {"none", "pending", "completed"}
Access == {"none", "active", "revoked"}
Confirmed == {"completed", "partially_refunded", "refunded", "reversed"}
Terminal == {"refunded", "reversed"}

ApprovalEvents == {"approved", "approval_reversed"}
PaymentEvents == {"capture", "reversed"} \cup Refunds
Events == ApprovalEvents \cup PaymentEvents

Job(kind, c, e) == [kind |-> kind, checkout |-> c, event |-> e]
Jobs == {Job(kind, c, "-") : kind \in {"create_order", "capture", "reconcile"}, c \in Checkouts}
          \cup {Job("event", c, e) : c \in Checkouts, e \in Events}

Rank(status) == CASE status = "pending" -> 1
                  [] status \in {"completed", "failed"} -> 2
                  [] status = "partially_refunded" -> 3
                  [] status = "refunded" -> 4
Larger(m, n) == IF m > n THEN m ELSE n

\* The provider's answer a worker carries: evidence of a capture, the id of
\* the created order, or the status of an order without capture.
NoRefunds == [r \in Refunds |-> "none"]
Nothing == [kind |-> "nothing"]
EvidenceAnswer == [kind : {"evidence"}, status : CaptureState \cup {"reversed"}, refunded : 0..PaidMinor,
                   updatedAt : 1..4, refunds : [Refunds -> RefundState], sound : BOOLEAN]
OrderAnswer == [kind : {"order"}, id : 1..2]
StatusAnswer == [kind : {"status"}, status : {"pending", "approved", "failed"}]
Answer == EvidenceAnswer \cup OrderAnswer \cup StatusAnswer \cup {Nothing}

Init ==
  /\ checkout = [c \in Checkouts |-> [state |-> "none", provider |-> 0]]
  /\ payment = [c \in Checkouts |-> [state |-> "none", refunded |-> 0, updatedAt |-> 0]]
  /\ refund = [c \in Checkouts |-> NoRefunds]
  /\ purchase = [c \in Checkouts |-> "none"]
  /\ grant = [c \in Checkouts |-> "none"]
  /\ erased = FALSE
  /\ event = [c \in Checkouts |-> [e \in Events |-> "none"]]
  /\ job = [j \in Jobs |-> [state |-> "none", holder |-> Nobody, retried |-> FALSE]]
  /\ at = [w \in Workers |-> "idle"]
  /\ held = [w \in Workers |-> Nobody]
  /\ seen = [w \in Workers |-> Nothing]
  /\ age = [c \in Checkouts |-> 0]
  /\ remote = [c \in Checkouts |-> [orders |-> 0, order |-> "none", capture |-> "none",
                                    refunds |-> NoRefunds, reversed |-> FALSE, sound |-> TRUE]]
  /\ faults = 0

-----------------------------------------------------------------------------
(* The provider, the buyer and the clock.                                   *)


Completed(refunds) == Cardinality({r \in Refunds : refunds[r] = "completed"})

\* The buyer approves the order whose approval URL the checkout shows.
Approve(c) ==
  /\ checkout[c].provider # 0
  /\ remote[c].order = "created"
  /\ remote' = [remote EXCEPT ![c].order = "approved"]
  /\ UNCHANGED <<checkout, money, erased, event, job, worker, age, faults>>

\* An approval is taken back before any capture; the order is void.
ReverseApproval(c) ==
  /\ remote[c].order = "approved"
  /\ remote' = [remote EXCEPT ![c].order = "voided"]
  /\ UNCHANGED <<checkout, money, erased, event, job, worker, age, faults>>

\* A capture under review is decided.
Clear(c) ==
  /\ remote[c].capture = "pending"
  /\ \E status \in {"completed", "failed"} : remote' = [remote EXCEPT ![c].capture = status]
  /\ UNCHANGED <<checkout, money, erased, event, job, worker, age, faults>>

\* The creator refunds a part, which may be pending for a while, or all that
\* is left (by refunds no notification names).
RefundPart(c, r) ==
  LET refunds == [remote[c].refunds EXCEPT ![r] = "completed"]
  IN  /\ remote[c].capture \in {"completed", "partially_refunded"}
      /\ \/ /\ remote[c].refunds[r] = "none"
            /\ remote' = [remote EXCEPT ![c].refunds[r] = "pending"]
         \/ /\ remote[c].refunds[r] # "completed"
            /\ remote' = [remote EXCEPT ![c] = [@ EXCEPT !.refunds = refunds,
                 !.capture = IF Completed(refunds) >= PaidMinor
                             THEN "refunded" ELSE "partially_refunded"]]
      /\ UNCHANGED <<checkout, money, erased, event, job, worker, age, faults>>

RefundRest(c) ==
  /\ remote[c].capture \in {"completed", "partially_refunded"}
  /\ remote' = [remote EXCEPT ![c].capture = "refunded"]
  /\ UNCHANGED <<checkout, money, erased, event, job, worker, age, faults>>

Returned(c) == IF remote[c].capture = "refunded" THEN PaidMinor ELSE Completed(remote[c].refunds)

\* Notifications delivered so far.
Accepted == {n \in Checkouts \X Events : event[n[1]][n[2]] # "none"}

\* The payment is charged back.  Only a notification tells, so it is left
\* out where none will be delivered.
Reverse(c) ==
  /\ remote[c].capture \in {"completed", "partially_refunded"}
  /\ ~remote[c].reversed
  /\ Cardinality(Accepted) < MaxNotices
  /\ remote' = [remote EXCEPT ![c].reversed = TRUE]
  /\ UNCHANGED <<checkout, money, erased, event, job, worker, age, faults>>

Happened(c, e) ==
  CASE e = "approved" -> remote[c].order \in {"approved", "voided", "captured"}
    [] e = "approval_reversed" -> remote[c].order = "voided"
    [] e = "capture" -> remote[c].capture # "none"
    [] e = "reversed" -> remote[c].reversed
    [] e \in Refunds -> remote[c].refunds[e] # "none"

\* Only the creation of an order looks at the age of its checkout.
Grow(c) ==
  LET creation == Job("create_order", c, "-")
  IN  /\ job[creation].state = "ready" \/ (\E w \in Workers : held[w] = creation)
      /\ age[c] < 2
      /\ age' = [age EXCEPT ![c] = @ + 1]
      /\ UNCHANGED <<checkout, money, erased, event, job, worker, remote, faults>>

-----------------------------------------------------------------------------
(* Requests, notifications and the schedule: one transaction each.          *)

\* queue() with a dedup key: an existing job is left alone.
Queued(jobs, j) == IF jobs[j].state = "none" THEN [jobs EXCEPT ![j].state = "ready"] ELSE jobs

\* checkout(): the order is recorded and its creation queued.
Checkout(c) ==
  /\ checkout[c].state = "none"
  /\ ~erased
  /\ checkout' = [checkout EXCEPT ![c].state = "creating"]
  /\ job' = Queued(job, Job("create_order", c, "-"))
  /\ UNCHANGED <<money, erased, event, worker, age, remote, faults>>

\* capture(): the buyer returns from the approval page.
RequestCapture(c) ==
  /\ ~erased
  /\ checkout[c].state = "pending"
  /\ job' = Queued(job, Job("capture", c, "-"))
  /\ UNCHANGED <<checkout, money, erased, event, worker, age, remote, faults>>

\* acceptEvent(): a verified notification and its job, once per event id,
\* in whatever order the provider delivers.
AcceptEvent(c, e) ==
  /\ Happened(c, e)
  /\ Cardinality(Accepted) < MaxNotices
  /\ event[c][e] = "none"
  /\ event' = [event EXCEPT ![c][e] = "pending"]
  /\ job' = Queued(job, Job("event", c, e))
  /\ UNCHANGED <<checkout, money, erased, worker, age, remote, faults>>

\* schedule(): pending orders are compared every quarter of an hour and, for
\* recentPaymentDays, payments every day.  A later window is the same job, queued again
\* once the one before is done.
Due_ForgetsPayments(c) == checkout[c].state = "pending"
Due_ForgetsPending(c) == payment[c].state \in {"completed", "partially_refunded"}
Due(c) == \/ checkout[c].state = "pending"
          \/ payment[c].state \in {"completed", "partially_refunded"}

Schedule ==
  LET again == {Job("reconcile", c, "-") : c \in {x \in Checkouts : Due(x)}}
  IN  /\ \E j \in again : job[j].state \in {"none", "done"}
      /\ job' = [j \in Jobs |-> IF j \in again /\ job[j].state \in {"none", "done"}
                                THEN [job[j] EXCEPT !.state = "ready", !.holder = Nobody] ELSE job[j]]
      /\ UNCHANGED <<checkout, money, erased, event, worker, age, remote, faults>>

\* eraseCustomer(): every grant of the customer is revoked, payments and
\* purchases are kept.
Erase ==
  /\ ~erased
  /\ erased' = TRUE
  /\ grant' = [c \in Checkouts |-> IF grant[c] = "none" THEN "none" ELSE "revoked"]
  /\ UNCHANGED <<checkout, payment, refund, purchase, event, job, worker, age, remote, faults>>

-----------------------------------------------------------------------------
(* A worker's job.                                                          *)

Goto(w, where) == at' = [at EXCEPT ![w] = where]
Kind(w) == held[w].kind
Order(w) == held[w].checkout

\* runNextJob(): lease a job that is due, or whose lease has run out.  Only
\* the creation of an order looks at the number of attempts.
Lease(w, j) ==
  /\ at[w] = "idle"
  /\ job[j].state = "ready"
  /\ job' = [job EXCEPT ![j] =
       [state |-> "running", holder |-> w, retried |-> @.retried \/ j.kind = "create_order"]]
  /\ held' = [held EXCEPT ![w] = j]
  /\ Goto(w, IF job[j].retried THEN "again" ELSE "begin")
  /\ UNCHANGED <<checkout, money, erased, event, seen, age, remote, faults>>

\* The end of runNextJob(): the job is settled unless another has leased it.
EndsAs(w, where, state) ==
  /\ at[w] = where
  /\ job' = IF job[held[w]].holder = w
            THEN [job EXCEPT ![held[w]] = [@ EXCEPT !.state = state, !.holder = Nobody]]
            ELSE job
  /\ at' = [at EXCEPT ![w] = "idle"]
  /\ held' = [held EXCEPT ![w] = Nobody]
  /\ seen' = [seen EXCEPT ![w] = Nothing]
  /\ UNCHANGED <<checkout, money, erased, event, age, remote, faults>>

Done(w) == EndsAs(w, "done", "done")
Failed(w) == EndsAs(w, "failed", "ready")

\* create_order: a second attempt outside the provider's idempotency window
\* is left to review.
BeginCreate(w) ==
  LET c == Order(w)
  IN  /\ at[w] \in {"begin", "again"}
      /\ Kind(w) = "create_order"
      /\ Goto(w, IF checkout[c].provider # 0 \/ checkout[c].state # "creating" THEN "done"
                 ELSE IF at[w] = "again" /\ age[c] > 0 THEN "review"
                 ELSE "create")
      /\ UNCHANGED <<checkout, money, erased, event, job, held, seen, age, remote, faults>>

Review(w) ==
  /\ at[w] = "review"
  /\ checkout' = [checkout EXCEPT ![Order(w)].state = "needs_review"]
  /\ Goto(w, "done")
  /\ UNCHANGED <<money, erased, event, job, held, seen, age, remote, faults>>

\* provider.createOrder(): the same request id gives the same order until the
\* provider forgets it.
CreateOrder(w) ==
  LET c == Order(w)
      fresh == remote[c].orders = 0 \/ (age[c] = 2 /\ remote[c].orders = 1)
      id == IF fresh THEN remote[c].orders + 1 ELSE remote[c].orders
      order == IF remote[c].order = "none" THEN "created" ELSE remote[c].order
  IN  /\ at[w] = "create"
      /\ remote' = [remote EXCEPT ![c] =
           [@ EXCEPT !.orders = id, !.order = order]]
      /\ seen' = [seen EXCEPT ![w] = [kind |-> "order", id |-> id]]
      /\ Goto(w, "link")
      /\ UNCHANGED <<checkout, money, erased, event, job, held, age, faults>>

\* The order is linked and shown for approval; a different one is refused.
Link_Overwrite(w) ==
  LET c == Order(w)
      id == seen[w].id
  IN  /\ at[w] = "link"
      /\ checkout' = [checkout EXCEPT ![c] = [state |-> "pending", provider |-> id]]
      /\ Goto(w, "done")
      /\ UNCHANGED <<money, erased, event, job, held, seen, age, remote, faults>>

Link(w) ==
  LET c == Order(w)
      id == seen[w].id
  IN  /\ at[w] = "link"
      /\ IF checkout[c].provider \notin {0, id}
         THEN Goto(w, "failed") /\ UNCHANGED checkout
         ELSE /\ checkout' = [checkout EXCEPT ![c] = [state |-> "pending", provider |-> id]]
              /\ Goto(w, "done")
      /\ UNCHANGED <<money, erased, event, job, held, seen, age, remote, faults>>

BeginCapture(w) ==
  LET c == Order(w)
  IN  /\ at[w] = "begin"
      /\ Kind(w) = "capture"
      /\ Goto(w, IF checkout[c].provider = 0 \/ checkout[c].state \in {"completed", "failed"}
                 THEN "done" ELSE "capture")
      /\ UNCHANGED <<checkout, money, erased, event, job, held, seen, age, remote, faults>>

\* provider.capture(): a capture that exists is not repeated, an order that is
\* not approved is refused.  The provider may hold a capture for review or
\* decline it, and it may not fit the checkout (amount, payee, shape).
Capture(w) ==
  LET c == Order(w)
  IN  /\ at[w] = "capture"
      /\ CASE remote[c].order = "captured" -> Goto(w, "fetch") /\ UNCHANGED remote
           [] remote[c].order = "approved" ->
                /\ \E status \in {"pending", "completed", "failed"}, sound \in BOOLEAN :
                     remote' = [remote EXCEPT ![c] =
                       [@ EXCEPT !.order = "captured", !.capture = status, !.sound = sound]]
                /\ Goto(w, "fetch")
           [] OTHER -> Goto(w, "failed") /\ UNCHANGED remote
      /\ UNCHANGED <<checkout, money, erased, event, job, held, seen, age, faults>>

\* A job that comes back after its event was processed has nothing to do.
BeginEvent(w) ==
  LET c == Order(w)
      e == held[w].event
  IN  /\ at[w] = "begin"
      /\ Kind(w) = "event"
      /\ Goto(w, IF event[c][e] = "processed" THEN "done"
                 ELSE IF e \in ApprovalEvents THEN "approval" ELSE "fetch")
      /\ UNCHANGED <<checkout, money, erased, event, job, held, seen, age, remote, faults>>

\* An approval queues the capture, an approval taken back fails the order.
ApplyApproval(w) ==
  LET c == Order(w)
      e == held[w].event
      open == checkout[c].provider # 0 /\ checkout[c].state # "completed"
  IN  /\ at[w] = "approval"
      /\ event' = [event EXCEPT ![c][e] = "processed"]
      /\ job' = IF open /\ e = "approved" THEN Queued(job, Job("capture", c, "-")) ELSE job
      /\ checkout' = IF open /\ e = "approval_reversed"
                     THEN [checkout EXCEPT ![c].state = "failed"] ELSE checkout
      /\ Goto(w, "done")
      /\ UNCHANGED <<money, erased, held, seen, age, remote, faults>>

BeginReconcile(w) ==
  /\ at[w] = "begin"
  /\ Kind(w) = "reconcile"
  /\ Goto(w, IF checkout[Order(w)].provider = 0 THEN "done" ELSE "fetch")
  /\ UNCHANGED <<checkout, money, erased, event, job, held, seen, age, remote, faults>>

\* provider.reconcile(): the capture as it is now; the refund and the
\* reversal only when the notification names them.
Evidence(c, e) ==
  [kind |-> "evidence",
   status |-> IF e = "reversed" THEN "reversed" ELSE remote[c].capture,
   refunded |-> IF e # "reversed" /\ remote[c].capture = "refunded" THEN PaidMinor ELSE 0,
   updatedAt |-> Rank(remote[c].capture),
   refunds |-> [r \in Refunds |-> IF r = e THEN remote[c].refunds[r] ELSE "none"],
   sound |-> remote[c].sound]

Fetch(w) ==
  LET c == Order(w)
  IN  /\ at[w] = "fetch"
      /\ seen' = [seen EXCEPT ![w] = IF remote[c].capture = "none" THEN Nothing
                                     ELSE Evidence(c, held[w].event)]
      /\ Goto(w, "apply")
      /\ UNCHANGED <<checkout, money, erased, event, job, held, age, remote, faults>>

-----------------------------------------------------------------------------
(* applyEvidence(): payment, refunds, order, purchase and grant together.   *)

\* A completed refund stays completed whatever a delayed answer says.
RefundsAfter(c, ev) ==
  [r \in Refunds |-> IF refund[c][r] = "completed" \/ ev.refunds[r] = "none"
                     THEN refund[c][r] ELSE ev.refunds[r]]
RefundedAfter_Sum(c, ev) == payment[c].refunded + ev.refunded + Completed(RefundsAfter(c, ev))
RefundedAfter(c, ev) ==
  Larger(Larger(payment[c].refunded, ev.refunded),
         Larger(Completed(RefundsAfter(c, ev)), IF ev.status = "refunded" THEN PaidMinor ELSE 0))

Valid_AnyShape(c, ev) == RefundedAfter(c, ev) <= PaidMinor
Valid(c, ev) == ev.sound /\ RefundedAfter(c, ev) <= PaidMinor

\* Refunds and reversals are terminal; otherwise the later answer counts.
StateAfter_LastAnswer(c, ev) ==
  CASE ~Valid(c, ev) -> IF payment[c].state \in Terminal THEN payment[c].state ELSE "needs_review"
    [] ev.status = "reversed" \/ payment[c].state = "reversed" -> "reversed"
    [] OTHER -> IF RefundedAfter(c, ev) >= PaidMinor THEN "refunded"
                ELSE IF RefundedAfter(c, ev) > 0 THEN "partially_refunded"
                ELSE ev.status

StateAfter(c, ev) ==
  LET was == IF payment[c].state = "none" THEN "pending" ELSE payment[c].state
      refunded == RefundedAfter(c, ev)
  IN  CASE ~Valid(c, ev) -> IF was \in Terminal THEN was ELSE "needs_review"
        [] Valid(c, ev) /\ (ev.status = "reversed" \/ was = "reversed") -> "reversed"
        [] OTHER -> IF refunded >= PaidMinor \/ was = "refunded" THEN "refunded"
                    ELSE IF refunded > 0 \/ ev.status = "partially_refunded" THEN "partially_refunded"
                    ELSE IF ev.updatedAt >= payment[c].updatedAt THEN ev.status
                    ELSE was

OrderAfter_PaymentState(state, valid) == IF valid THEN state ELSE "needs_review"
OrderAfter(state, valid) ==
  IF ~valid THEN "needs_review"
  ELSE IF state \in Confirmed THEN "completed"
  ELSE IF state = "failed" THEN "failed" ELSE "pending"

\* The first evidence of a completed payment gives the purchase and its grant,
\* a refund in full or a reversal ends them.
Buys_AnyConfirmed(c, ev) ==
  Valid(c, ev) /\ purchase[c] = "none" /\ StateAfter(c, ev) \in Confirmed
Buys_EachTime(c, ev) ==
  Valid(c, ev) /\ StateAfter(c, ev) \in {"completed", "partially_refunded"}
Buys(c, ev) ==
  /\ Valid(c, ev)
  /\ purchase[c] = "none"
  /\ StateAfter(c, ev) \in {"completed", "partially_refunded"}

AccessAfter(was, c, ev) ==
  IF Buys(c, ev) THEN "active"
  ELSE IF StateAfter(c, ev) \in Terminal /\ was # "none" THEN "revoked" ELSE was

Evidenced(c, ev) ==
  /\ refund' = [refund EXCEPT ![c] = RefundsAfter(c, ev)]
  /\ payment' = [payment EXCEPT ![c] =
       [state |-> StateAfter(c, ev), refunded |-> RefundedAfter(c, ev),
        updatedAt |-> Larger(@.updatedAt, ev.updatedAt)]]
  /\ checkout' = [checkout EXCEPT ![c].state = OrderAfter(StateAfter(c, ev), Valid(c, ev))]
  /\ purchase' = [purchase EXCEPT ![c] = AccessAfter(@, c, ev)]
  /\ grant' = [grant EXCEPT ![c] = AccessAfter(@, c, ev)]

\* What follows the transaction: an event is marked, for review if its payment
\* is; an order without capture is asked for its status.
Apply(w) ==
  LET c == Order(w)
  IN  /\ at[w] = "apply"
      /\ IF seen[w] # Nothing THEN Evidenced(c, seen[w]) ELSE UNCHANGED <<checkout, money>>
      /\ Goto(w, CASE Kind(w) = "event" ->
                        IF seen[w] # Nothing /\ StateAfter(c, seen[w]) = "needs_review"
                        THEN "flag" ELSE "mark"
                   [] Kind(w) = "reconcile" /\ seen[w] = Nothing -> "status"
                   [] OTHER -> "done")
      /\ seen' = [seen EXCEPT ![w] = Nothing]
      /\ UNCHANGED <<erased, event, job, held, age, remote, faults>>

Mark(w) ==
  /\ at[w] \in {"mark", "flag"}
  /\ event' = [event EXCEPT ![Order(w)][held[w].event] =
                 IF at[w] = "flag" THEN "needs_review" ELSE "processed"]
  /\ Goto(w, "done")
  /\ UNCHANGED <<checkout, money, erased, job, held, seen, age, remote, faults>>

AskStatus(w) ==
  /\ at[w] = "status"
  /\ seen' = [seen EXCEPT ![w] =
       [kind |-> "status",
        status |-> CASE remote[Order(w)].order = "voided" -> "failed"
                     [] remote[Order(w)].order = "approved" -> "approved"
                     [] OTHER -> "pending"]]
  /\ Goto(w, "answer")
  /\ UNCHANGED <<checkout, money, erased, event, job, held, age, remote, faults>>

ApplyStatus(w) ==
  LET c == Order(w)
      open == checkout[c].state # "completed"
  IN  /\ at[w] = "answer"
      /\ checkout' = IF open /\ seen[w].status = "failed"
                     THEN [checkout EXCEPT ![c].state = "failed"] ELSE checkout
      /\ job' = IF open /\ seen[w].status = "approved"
                THEN Queued(job, Job("capture", c, "-")) ELSE job
      /\ Goto(w, "done")
      /\ UNCHANGED <<money, erased, event, held, seen, age, remote, faults>>

-----------------------------------------------------------------------------
(* Faults.                                                                  *)

\* A call throws: the provider, or a policy check before a capture.
Throws(w) ==
  /\ at[w] \in {"create", "link", "capture", "fetch", "status"}
  /\ faults < MaxFaults
  /\ faults' = faults + 1
  /\ Goto(w, "failed")
  /\ UNCHANGED <<checkout, money, erased, event, job, held, seen, age, remote>>

Crash(w) ==
  /\ at[w] # "idle"
  /\ faults < MaxFaults
  /\ faults' = faults + 1
  /\ at' = [at EXCEPT ![w] = "idle"]
  /\ held' = [held EXCEPT ![w] = Nobody]
  /\ seen' = [seen EXCEPT ![w] = Nothing]
  /\ UNCHANGED <<checkout, money, erased, event, job, age, remote>>

\* The lease of a running job runs out; its worker may still be at work.
Expire(j) ==
  LET working == \E w \in Workers : held[w] = j /\ job[j].holder = w
  IN  /\ job[j].state = "running"
      /\ faults < MaxFaults \/ ~working
      /\ faults' = IF working THEN faults + 1 ELSE faults
      /\ job' = [job EXCEPT ![j].state = "ready"]
      /\ UNCHANGED <<checkout, money, erased, event, worker, age, remote>>

Work(w) ==
  \/ BeginCreate(w) \/ Review(w) \/ CreateOrder(w) \/ Link(w)
  \/ BeginCapture(w) \/ Capture(w)
  \/ BeginEvent(w) \/ ApplyApproval(w) \/ Mark(w)
  \/ BeginReconcile(w) \/ Fetch(w) \/ Apply(w) \/ AskStatus(w) \/ ApplyStatus(w)
  \/ Done(w) \/ Failed(w)

Provider(c) == \/ Approve(c) \/ ReverseApproval(c) \/ Clear(c) \/ Reverse(c) \/ RefundRest(c) \/ Grow(c)
               \/ \E r \in Refunds : RefundPart(c, r)

Next == \/ Schedule
        \/ Erase
        \/ \E c \in Checkouts : \/ Checkout(c) \/ RequestCapture(c) \/ Provider(c)
                                \/ \E e \in Events : AcceptEvent(c, e)
        \/ \E w \in Workers : \/ Work(w) \/ Throws(w) \/ Crash(w)
                              \/ \E j \in Jobs : Lease(w, j)
        \/ \E j \in Jobs : Expire(j)

Spec == Init /\ [][Next]_vars

\* The worker's loop: every tick runs a due job, the earliest first, and the schedule once
\* a minute.  Nothing is assumed of the buyer, the creator or the notifications, whose jobs
\* need not run.
Scheduled == {j \in Jobs : j.kind # "event"}
Lost(j) == job[j].state = "running" /\ (\A w \in Workers : held[w] # j)

Fairness ==
  /\ WF_vars(Schedule)
  /\ \A w \in Workers : WF_vars(Work(w))
  /\ \A j \in Scheduled : SF_vars(\E w \in Workers : Lease(w, j))
  /\ WF_vars(\E j \in Jobs : Lost(j) /\ Expire(j))

LiveSpec == Spec /\ Fairness

\* Any worker may take the place of another.
Symmetric == Permutations(Workers)

-----------------------------------------------------------------------------
(* Properties.                                                              *)

Steps == {"idle", "begin", "again", "review", "create", "link", "capture", "approval", "fetch",
          "apply", "mark", "flag", "status", "answer", "done", "failed"}
Remote == [orders : 0..2, order : {"none", "created", "approved", "voided", "captured"},
           capture : CaptureState \cup {"none"}, refunds : [Refunds -> RefundState],
           reversed : BOOLEAN, sound : BOOLEAN]
JobType == [Jobs -> [state : {"none", "ready", "running", "done"},
                     holder : Workers \cup {Nobody}, retried : BOOLEAN]]

TypeOK ==
  /\ checkout \in [Checkouts -> [state : CheckoutState, provider : 0..2]]
  /\ payment \in [Checkouts -> [state : PaymentState, refunded : Nat, updatedAt : 0..4]]
  /\ refund \in [Checkouts -> [Refunds -> RefundState]]
  /\ purchase \in [Checkouts -> Access]
  /\ grant \in [Checkouts -> Access]
  /\ erased \in BOOLEAN
  /\ event \in [Checkouts -> [Events -> {"none", "pending", "processed", "needs_review"}]]
  /\ job \in JobType
  /\ at \in [Workers -> Steps]
  /\ held \in [Workers -> Jobs \cup {Nobody}]
  /\ seen \in [Workers -> Answer]
  /\ age \in [Checkouts -> 0..2]
  /\ remote \in [Checkouts -> Remote]
  /\ faults \in 0..MaxFaults

\* Access is given only for money the provider took in a capture that fits the
\* checkout: approval, pending and declined captures never create a purchase.
AccessWasPaid ==
  \A c \in Checkouts : purchase[c] # "none" =>
    /\ remote[c].capture \in {"completed", "partially_refunded", "refunded"}
    /\ remote[c].sound

\* A purchase whose payment was refunded in full or reversed gives no access,
\* whatever evidence arrives, in whatever order, afterwards.
RefundEndsAccess ==
  \A c \in Checkouts : payment[c].state \in Terminal => purchase[c] # "active" /\ grant[c] # "active"

\* The service never believes in more refunds than the provider made.
RefundsAreReal ==
  \A c \in Checkouts : payment[c].refunded <= Returned(c)

\* What is known of a payment is not undone by an older answer: a refund or
\* reversal is final, refunds add up, a completed payment is not pending again.
PaymentForward ==
  [][\A c \in Checkouts :
       /\ payment[c].state \in Terminal => payment'[c].state \in Terminal
       /\ payment[c].state = "reversed" => payment'[c].state = "reversed"
       /\ payment[c].refunded <= payment'[c].refunded
       /\ payment[c].state \in Confirmed => payment'[c].state \in Confirmed]_vars

\* A checkout keeps the provider order it was linked to.
OneProviderOrder ==
  [][\A c \in Checkouts : checkout[c].provider # 0 => checkout'[c].provider = checkout[c].provider]_vars

\* A payment that stays completed makes its checkout completed and gives the
\* purchase, without any notification and in spite of stale workers, unless
\* the checkout was left to review.
PaymentSettles ==
  \A c \in Checkouts :
    <>[](/\ remote[c].capture = "completed" /\ remote[c].sound
         /\ checkout[c].state # "needs_review")
      => <>[](checkout[c].state = "completed" /\ purchase[c] # "none")

\* A full refund ends the access, also when its notifications are lost.
RefundArrives ==
  \A c \in Checkouts : remote[c].capture = "refunded" ~> grant[c] # "active"

\* Access taken by an erasure, a refund or a reversal never comes back, however
\* late the evidence of a capture and however often it is applied.
RevokedForGood ==
  [][\A c \in Checkouts : grant[c] = "revoked" => grant'[c] = "revoked"]_vars
=============================================================================
