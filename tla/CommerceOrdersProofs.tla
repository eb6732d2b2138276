------------------------ MODULE CommerceOrdersProofs ------------------------
(***************************************************************************)
(* Theorems about CommerceOrders, for any checkouts, workers, refunds and  *)
(* amount, however many notifications are delivered and faults occur.      *)
(***************************************************************************)
EXTENDS CommerceOrders, FiniteSetTheorems, TLAPS

-----------------------------------------------------------------------------
(* Type correctness.                                                        *)

\* A worker at a job holds one, and carries the kind of answer its step uses.
WorkInv ==
  \A w \in Workers :
    /\ at[w] # "idle" => held[w] \in Jobs
    /\ at[w] = "link" => seen[w] \in OrderAnswer
    /\ at[w] = "apply" => seen[w] \in EvidenceAnswer \cup {Nothing}

TypeInv == TypeOK /\ WorkInv

\* How many refunds are complete is a number.
LEMMA CompletedType ==
  ASSUME NEW refunds \in [Refunds -> RefundState]
  PROVE  Completed(refunds) \in Nat
  <1>1. IsFiniteSet({r \in Refunds : refunds[r] = "completed"})
    BY CommerceAssumption, FS_Subset, {r \in Refunds : refunds[r] = "completed"} \subseteq Refunds
  <1>2. QED
    BY <1>1, FS_CardinalityType DEF Completed

\* queue() adds no more than a ready job.
LEMMA QueuedType ==
  ASSUME NEW jobs \in JobType, NEW j
  PROVE  Queued(jobs, j) \in JobType
  BY DEF Queued, JobType

\* Every job is about a checkout.
LEMMA JobCheckout ==
  ASSUME NEW j \in Jobs
  PROVE  j.checkout \in Checkouts
  BY DEF Jobs, Job

\* What applyEvidence() computes for a payment is well-typed.
LEMMA EvidenceType ==
  ASSUME TypeOK, NEW c \in Checkouts, NEW ev \in EvidenceAnswer
  PROVE  /\ RefundsAfter(c, ev) \in [Refunds -> RefundState]
         /\ RefundedAfter(c, ev) \in Nat
         /\ payment[c].refunded <= RefundedAfter(c, ev)
         /\ StateAfter(c, ev) \in PaymentState \ {"none"}
         /\ OrderAfter(StateAfter(c, ev), Valid(c, ev)) \in CheckoutState
  <1>1. RefundsAfter(c, ev) \in [Refunds -> RefundState]
    BY DEF RefundsAfter, TypeOK, EvidenceAnswer
  <1>2. RefundedAfter(c, ev) \in Nat /\ payment[c].refunded <= RefundedAfter(c, ev)
    <2>1. Completed(RefundsAfter(c, ev)) \in Nat
      BY <1>1, CompletedType
    <2>2. payment[c].refunded \in Nat /\ ev.refunded \in Nat /\ PaidMinor \in Nat
      BY CommerceAssumption DEF TypeOK, EvidenceAnswer
    <2>3. QED
      BY <2>1, <2>2 DEF RefundedAfter, Larger
  <1>3. StateAfter(c, ev) \in PaymentState \ {"none"}
    <2>1. payment[c].state \in PaymentState
      BY DEF TypeOK
    <2>2. ev.status \in CaptureState \cup {"reversed"}
      BY DEF EvidenceAnswer
    <2>3. QED
      BY <2>1, <2>2 DEF StateAfter, PaymentState, CaptureState, Terminal
  <1>4. OrderAfter(StateAfter(c, ev), Valid(c, ev)) \in CheckoutState
    BY DEF OrderAfter, CheckoutState
  <1>5. QED
    BY <1>1, <1>2, <1>3, <1>4

\* applyEvidence() keeps the types of the records it writes.
LEMMA TypeEvidenced ==
  ASSUME TypeOK, NEW c \in Checkouts, NEW ev \in EvidenceAnswer, Evidenced(c, ev)
  PROVE  /\ refund' \in [Checkouts -> [Refunds -> RefundState]]
         /\ payment' \in [Checkouts -> [state : PaymentState, refunded : Nat, updatedAt : 0..4]]
         /\ checkout' \in [Checkouts -> [state : CheckoutState, provider : 0..2]]
         /\ purchase' \in [Checkouts -> Access]
         /\ grant' \in [Checkouts -> Access]
  <1>1. refund' \in [Checkouts -> [Refunds -> RefundState]]
    BY EvidenceType DEF Evidenced, TypeOK
  <1>2. payment' \in [Checkouts -> [state : PaymentState, refunded : Nat, updatedAt : 0..4]]
    <2>1. Larger(payment[c].updatedAt, ev.updatedAt) \in 0..4
      BY DEF Larger, TypeOK, EvidenceAnswer
    <2>2. QED
      BY <2>1, EvidenceType DEF Evidenced, TypeOK
  <1>3. checkout' \in [Checkouts -> [state : CheckoutState, provider : 0..2]]
    BY EvidenceType, SMTT(20) DEF Evidenced, TypeOK
  <1>4. purchase' \in [Checkouts -> Access] /\ grant' \in [Checkouts -> Access]
    BY DEF Evidenced, TypeOK, Access, AccessAfter
  <1>5. QED
    BY <1>1, <1>2, <1>3, <1>4

\* Steps that leave the workers alone keep what is known of them.
LEMMA WorkKept ==
  ASSUME WorkInv, UNCHANGED worker
  PROVE  WorkInv'
  BY DEF WorkInv, worker

\* The provider's side keeps its type, and moves nothing of the service's.
LEMMA ProviderType ==
  ASSUME TypeInv, NEW c \in Checkouts, Provider(c)
  PROVE  TypeInv'
  <1> USE DEF TypeInv
  <1>1. WorkInv'
    BY WorkKept DEF Provider, Approve, ReverseApproval, Clear, Reverse, RefundRest, RefundPart, Grow
  <1>2. remote' \in [Checkouts -> Remote] /\ age' \in [Checkouts -> 0..2]
    <2>1. CASE Approve(c)
      BY <2>1, ZenonT(40) DEF Approve, TypeOK, Remote
    <2>2. CASE ReverseApproval(c)
      BY <2>2, ZenonT(40) DEF ReverseApproval, TypeOK, Remote
    <2>3. CASE Clear(c)
      <3>1. PICK status \in {"completed", "failed"} :
              remote' = [remote EXCEPT ![c].capture = status]
        BY <2>3 DEF Clear
      <3>2. QED
        <4>1. [remote[c] EXCEPT !.capture = status] \in Remote
          BY ZenonT(40) DEF TypeOK, Remote, CaptureState
        <4>2. QED
          BY <2>3, <3>1, <4>1 DEF Clear, TypeOK
    <2>4. CASE Reverse(c)
      BY <2>4, ZenonT(40) DEF Reverse, TypeOK, Remote
    <2>5. CASE RefundRest(c)
      BY <2>5, ZenonT(40) DEF RefundRest, TypeOK, Remote, CaptureState
    <2>6. CASE Grow(c)
      <3>1. age[c] \in 0..2 /\ age[c] < 2 /\ age' = [age EXCEPT ![c] = age[c] + 1]
        BY <2>6 DEF Grow, TypeOK
      <3>2. age[c] + 1 \in 0..2
        BY <3>1
      <3>3. QED
        BY <2>6, <3>1, <3>2 DEF Grow, TypeOK
    <2>7. ASSUME NEW r \in Refunds, RefundPart(c, r)
          PROVE  remote' \in [Checkouts -> Remote] /\ age' \in [Checkouts -> 0..2]
      <3>1. PICK refunds \in [Refunds -> RefundState], capture \in CaptureState :
              remote' = [remote EXCEPT ![c] =
                [remote[c] EXCEPT !.refunds = refunds, !.capture = capture]]
        <4>1. remote[c] \in Remote /\ remote[c].refunds \in [Refunds -> RefundState]
          BY DEF TypeOK, Remote
        <4>2. CASE remote' = [remote EXCEPT ![c].refunds[r] = "pending"]
          <5>1. [remote[c].refunds EXCEPT ![r] = "pending"] \in [Refunds -> RefundState]
            BY <4>1 DEF RefundState
          <5>2. remote[c].capture \in CaptureState
            BY <2>7 DEF RefundPart, CaptureState
          <5>3. remote' = [remote EXCEPT ![c] =
                  [remote[c] EXCEPT !.refunds = [remote[c].refunds EXCEPT ![r] = "pending"],
                                    !.capture = remote[c].capture]]
            BY <4>1, <4>2 DEF TypeOK, Remote
          <5>4. QED
            BY <5>1, <5>2, <5>3
        <4>3. CASE remote' # [remote EXCEPT ![c].refunds[r] = "pending"]
          <5>1. [remote[c].refunds EXCEPT ![r] = "completed"] \in [Refunds -> RefundState]
            BY <4>1 DEF RefundState
          <5>2. QED
            BY <2>7, <4>3, <5>1 DEF RefundPart, CaptureState
        <4>4. QED
          BY <4>2, <4>3
      <3>2. QED
        <4>1. remote[c] \in Remote /\ capture \in CaptureState \cup {"none"}
          BY DEF TypeOK
        <4>2. [remote[c] EXCEPT !.refunds = refunds, !.capture = capture] \in Remote
          BY <4>1 DEF Remote
        <4>3. remote' \in [Checkouts -> Remote]
          BY <3>1, <4>2 DEF TypeOK
        <4>4. age' = age
          BY <2>7 DEF RefundPart
        <4>5. QED
          BY <4>3, <4>4 DEF TypeOK
    <2>8. QED
      BY <2>1, <2>2, <2>3, <2>4, <2>5, <2>6, <2>7 DEF Provider
  <1>3. UNCHANGED <<checkout, money, erased, event, job, worker, faults>>
    BY DEF Provider, Approve, ReverseApproval, Clear, Reverse, RefundRest, RefundPart, Grow
  <1>4. QED
    BY <1>1, <1>2, <1>3 DEF TypeOK, money, worker

\* Requests, notifications and the schedule.
LEMMA RequestType ==
  ASSUME TypeInv,
         \/ Schedule \/ Erase
         \/ \E c \in Checkouts : \/ Checkout(c) \/ RequestCapture(c)
                                 \/ \E e \in Events : AcceptEvent(c, e)
  PROVE  TypeInv'
  <1> USE DEF TypeInv
  <1>1. WorkInv'
    BY WorkKept DEF Schedule, Erase, Checkout, RequestCapture, AcceptEvent
  <1>2. CASE Schedule
    BY <1>1, <1>2, ZenonT(40) DEF Schedule, TypeOK, JobType, money, worker
  <1>3. CASE Erase
    BY <1>1, <1>3 DEF Erase, TypeOK, Access, worker
  <1>4. ASSUME NEW c \in Checkouts, Checkout(c) PROVE TypeInv'
    BY <1>1, <1>4, QueuedType DEF Checkout, TypeOK, CheckoutState, money, worker
  <1>5. ASSUME NEW c \in Checkouts, RequestCapture(c) PROVE TypeInv'
    BY <1>1, <1>5, QueuedType DEF RequestCapture, TypeOK, money, worker
  <1>6. ASSUME NEW c \in Checkouts, NEW e \in Events, AcceptEvent(c, e) PROVE TypeInv'
    <2>1. event' \in [Checkouts -> [Events -> {"none", "pending", "processed", "needs_review"}]]
      BY <1>6 DEF AcceptEvent, TypeOK
    <2>2. job' = Queued(job, Job("event", c, e))
      BY <1>6 DEF AcceptEvent
    <2>3. UNCHANGED <<checkout, money, erased, worker, age, remote, faults>>
      BY <1>6 DEF AcceptEvent
    <2>4. QED
      BY <1>1, <2>1, <2>2, <2>3, QueuedType DEF TypeOK, money, worker
  <1>7. QED
    BY <1>2, <1>3, <1>4, <1>5, <1>6

\* A worker that goes on with the job and the answer it has.
LEMMA MoveType ==
  ASSUME TypeInv, NEW w \in Workers, NEW where \in Steps \ {"link", "apply"},
         at[w] # "idle", Goto(w, where), UNCHANGED <<held, seen>>
  PROVE  WorkInv' /\ UNCHANGED <<held, seen>> /\ at' \in [Workers -> Steps]
  <1>1. at' \in [Workers -> Steps]
    BY DEF TypeInv, TypeOK, Goto
  <1>2. ASSUME NEW x \in Workers PROVE at'[x] = IF x = w THEN where ELSE at[x]
    BY DEF TypeInv, TypeOK, Goto
  <1>3. QED
    BY <1>1, <1>2 DEF TypeInv, WorkInv

\* A worker at its job has one, and the job is about a checkout.
LEMMA Working ==
  ASSUME TypeInv, NEW w \in Workers, at[w] # "idle"
  PROVE  held[w] \in Jobs /\ Order(w) \in Checkouts
  BY JobCheckout DEF TypeInv, WorkInv, Order

\* The first steps of a job only choose where to go.
LEMMA BeginType ==
  ASSUME TypeInv, NEW w \in Workers,
         BeginCreate(w) \/ BeginCapture(w) \/ BeginEvent(w) \/ BeginReconcile(w)
  PROVE  TypeInv'
  <1>1. PICK where \in {"done", "review", "create", "capture", "approval", "fetch"} : Goto(w, where)
    BY DEF BeginCreate, BeginCapture, BeginEvent, BeginReconcile
  <1>2. at[w] # "idle"
    BY DEF BeginCreate, BeginCapture, BeginEvent, BeginReconcile
  <1>3. UNCHANGED <<checkout, money, erased, event, job, held, seen, age, remote, faults>>
    BY DEF BeginCreate, BeginCapture, BeginEvent, BeginReconcile
  <1>4. where \in Steps \ {"link", "apply"}
    BY DEF Steps
  <1>5. WorkInv' /\ at' \in [Workers -> Steps]
    BY <1>1, <1>2, <1>3, <1>4, MoveType
  <1>6. QED
    BY <1>3, <1>5 DEF TypeInv, TypeOK, money

\* create_order: the review, the provider's call and its answer.
LEMMA CreationType ==
  ASSUME TypeInv, NEW w \in Workers, Review(w) \/ CreateOrder(w) \/ Link(w)
  PROVE  TypeInv'
  <1>1. CASE Review(w)
    <2>1. checkout' \in [Checkouts -> [state : CheckoutState, provider : 0..2]]
      BY <1>1, ZenonT(40) DEF Review, TypeInv, TypeOK, CheckoutState
    <2>2. UNCHANGED <<money, erased, event, job, held, seen, age, remote, faults>>
      BY <1>1 DEF Review
    <2>3. at[w] # "idle" /\ Goto(w, "done") /\ "done" \in Steps \ {"link", "apply"}
      BY <1>1 DEF Review, Steps
    <2>4. WorkInv' /\ at' \in [Workers -> Steps]
      BY <2>2, <2>3, MoveType
    <2>5. QED
      BY <2>1, <2>2, <2>4 DEF TypeInv, TypeOK, money
  <1>2. CASE CreateOrder(w)
    <2> DEFINE c == Order(w)
               fresh == remote[c].orders = 0 \/ (age[c] = 2 /\ remote[c].orders = 1)
               id == IF fresh THEN remote[c].orders + 1 ELSE remote[c].orders
               order == IF remote[c].order = "none" THEN "created" ELSE remote[c].order
    <2>1. c \in Checkouts /\ remote[c] \in Remote /\ at[w] = "create"
      BY <1>2, Working DEF CreateOrder, TypeInv, TypeOK
    <2>2. remote[c].orders \in 0..2
      BY <2>1 DEF Remote
    <2>3. id \in 1..2
      BY <2>2
    <2>4. order \in {"none", "created", "approved", "voided", "captured"}
      BY <2>1 DEF Remote
    <2>5. /\ remote' = [remote EXCEPT ![c] = [remote[c] EXCEPT !.orders = id, !.order = order]]
          /\ seen' = [seen EXCEPT ![w] = [kind |-> "order", id |-> id]]
          /\ at' = [at EXCEPT ![w] = "link"]
          /\ UNCHANGED <<checkout, money, erased, event, job, held, age, faults>>
      BY <1>2 DEF CreateOrder, Goto
    <2> HIDE DEF id, order
    <2>6. remote' \in [Checkouts -> Remote]
      <3>1. PICK n \in 0..2, o \in {"none", "created", "approved", "voided", "captured"} :
              remote' = [remote EXCEPT ![c] = [remote[c] EXCEPT !.orders = n, !.order = o]]
        <4>1. id \in 0..2
          BY <2>3
        <4>2. QED
          BY <4>1, <2>4, <2>5, Zenon
      <3>2. [remote[c] EXCEPT !.orders = n, !.order = o] \in Remote
        BY <2>1 DEF Remote
      <3>3. QED
        BY <3>1, <3>2 DEF TypeInv, TypeOK
    <2>7. [kind |-> "order", id |-> id] \in OrderAnswer
      BY <2>3 DEF OrderAnswer
    <2>8. seen' \in [Workers -> Answer] /\ at' \in [Workers -> Steps]
      BY <2>5, <2>7 DEF TypeInv, TypeOK, Answer, Steps
    <2>9. WorkInv'
      BY <2>1, <2>5, <2>7 DEF TypeInv, TypeOK, WorkInv
    <2>10. QED
      BY <2>5, <2>6, <2>8, <2>9 DEF TypeInv, TypeOK, money
  <1>3. CASE Link(w)
    <2>1. at[w] = "link" /\ seen[w].id \in 1..2
      BY <1>3 DEF Link, TypeInv, WorkInv, OrderAnswer
    <2>2. checkout' \in [Checkouts -> [state : CheckoutState, provider : 0..2]]
      <3>1. [state |-> "pending", provider |-> seen[w].id] \in [state : CheckoutState, provider : 0..2]
        BY <2>1 DEF CheckoutState
      <3>2. \/ checkout' = checkout
            \/ checkout' = [checkout EXCEPT ![Order(w)] = [state |-> "pending", provider |-> seen[w].id]]
        BY <1>3 DEF Link
      <3>3. QED
        BY <3>1, <3>2 DEF TypeInv, TypeOK
    <2>3. PICK where \in {"done", "failed"} : Goto(w, where)
      BY <1>3 DEF Link
    <2>4. UNCHANGED <<money, erased, event, job, held, seen, age, remote, faults>>
      BY <1>3 DEF Link
    <2>5. where \in Steps \ {"link", "apply"}
      BY DEF Steps
    <2>6. WorkInv' /\ at' \in [Workers -> Steps]
      BY <2>1, <2>3, <2>4, <2>5, MoveType
    <2>7. QED
      BY <2>2, <2>4, <2>6 DEF TypeInv, TypeOK, money
  <1>4. QED
    BY <1>1, <1>2, <1>3

\* capture, the approval events and the marks on events.
LEMMA EventType ==
  ASSUME TypeInv, NEW w \in Workers, Capture(w) \/ ApplyApproval(w) \/ Mark(w)
  PROVE  TypeInv'
  <1>1. CASE Capture(w)
    <2> DEFINE c == Order(w)
    <2>1. at[w] = "capture"
      BY <1>1 DEF Capture
    <2>2. remote[c] \in Remote
      BY <2>1, Working DEF TypeInv, TypeOK
    <2>3. remote' \in [Checkouts -> Remote]
      <3>1. \/ remote' = remote
            \/ \E status \in {"pending", "completed", "failed"}, sound \in BOOLEAN :
                 remote' = [remote EXCEPT ![c] =
                   [remote[c] EXCEPT !.order = "captured", !.capture = status, !.sound = sound]]
        BY <1>1 DEF Capture
      <3>2. ASSUME NEW status \in {"pending", "completed", "failed"}, NEW sound \in BOOLEAN
            PROVE  [remote[c] EXCEPT !.order = "captured", !.capture = status, !.sound = sound]
                     \in Remote
        BY <2>2 DEF Remote, CaptureState
      <3>3. ASSUME NEW new \in Remote, remote' = [remote EXCEPT ![c] = new]
            PROVE  remote' \in [Checkouts -> Remote]
        BY <3>3 DEF TypeInv, TypeOK
      <3>4. QED
        BY <3>1, <3>2, <3>3 DEF TypeInv, TypeOK
    <2>4. PICK where \in {"fetch", "failed"} : Goto(w, where)
      BY <1>1 DEF Capture
    <2>5. UNCHANGED <<checkout, money, erased, event, job, held, seen, age, faults>>
      BY <1>1 DEF Capture
    <2>6. where \in Steps \ {"link", "apply"}
      BY DEF Steps
    <2>7. WorkInv' /\ at' \in [Workers -> Steps]
      BY <2>1, <2>4, <2>5, <2>6, MoveType
    <2>8. QED
      BY <2>3, <2>5, <2>7 DEF TypeInv, TypeOK, money
  <1>2. CASE ApplyApproval(w)
    <2>1. /\ event' \in [Checkouts -> [Events -> {"none", "pending", "processed", "needs_review"}]]
          /\ checkout' \in [Checkouts -> [state : CheckoutState, provider : 0..2]]
      BY <1>2, ZenonT(40) DEF ApplyApproval, TypeInv, TypeOK, CheckoutState
    <2>2. job' = job \/ job' = Queued(job, Job("capture", Order(w), "-"))
      BY <1>2 DEF ApplyApproval
    <2>3. /\ at[w] # "idle" /\ Goto(w, "done")
          /\ UNCHANGED <<money, erased, held, seen, age, remote, faults>>
      BY <1>2 DEF ApplyApproval
    <2>4. "done" \in Steps \ {"link", "apply"}
      BY DEF Steps
    <2>5. WorkInv' /\ at' \in [Workers -> Steps]
      BY <2>3, <2>4, MoveType
    <2>6. job' \in JobType
      BY <2>2, QueuedType DEF TypeInv, TypeOK
    <2>7. QED
      BY <2>1, <2>3, <2>5, <2>6 DEF TypeInv, TypeOK, money
  <1>3. CASE Mark(w)
    <2>1. event' \in [Checkouts -> [Events -> {"none", "pending", "processed", "needs_review"}]]
      BY <1>3 DEF Mark, TypeInv, TypeOK
    <2>2. /\ at[w] # "idle" /\ Goto(w, "done")
          /\ UNCHANGED <<checkout, money, erased, job, held, seen, age, remote, faults>>
      BY <1>3 DEF Mark
    <2>3. "done" \in Steps \ {"link", "apply"}
      BY DEF Steps
    <2>4. WorkInv' /\ at' \in [Workers -> Steps]
      BY <2>2, <2>3, MoveType
    <2>5. QED
      BY <2>1, <2>2, <2>4 DEF TypeInv, TypeOK, money
  <1>4. QED
    BY <1>1, <1>2, <1>3

\* The provider's answers, and what is made of them.
LEMMA AnswerType ==
  ASSUME TypeInv, NEW w \in Workers, Fetch(w) \/ Apply(w) \/ AskStatus(w) \/ ApplyStatus(w)
  PROVE  TypeInv'
  <1> DEFINE c == Order(w)
  <1>1. at[w] # "idle" /\ c \in Checkouts
    BY Working DEF Fetch, Apply, AskStatus, ApplyStatus
  <1>2. CASE Fetch(w)
    <2> DEFINE new == IF remote[c].capture = "none" THEN Nothing ELSE Evidence(c, held[w].event)
    <2>1. new \in EvidenceAnswer \cup {Nothing}
      <3>1. CASE remote[c].capture # "none"
        <4>1. remote[c] \in Remote
          BY <1>1 DEF TypeInv, TypeOK
        <4>2. remote[c].capture \in CaptureState /\ remote[c].sound \in BOOLEAN
              /\ remote[c].refunds \in [Refunds -> RefundState]
          BY <3>1, <4>1 DEF Remote
        <4>3. Rank(remote[c].capture) \in 1..4
          BY <4>2 DEF Rank, CaptureState
        <4>4. PaidMinor \in 0..PaidMinor /\ 0 \in 0..PaidMinor
          BY CommerceAssumption
        <4>5. ASSUME NEW e PROVE
                [r \in Refunds |-> IF r = e THEN remote[c].refunds[r] ELSE "none"]
                  \in [Refunds -> RefundState]
          BY <4>2 DEF RefundState
        <4>6. Evidence(c, held[w].event) \in EvidenceAnswer
          BY <4>2, <4>3, <4>4, <4>5 DEF Evidence, EvidenceAnswer
        <4>7. QED
          BY <4>6, <3>1
      <3>2. QED
        BY <3>1
    <2>2. /\ at[w] = "fetch" /\ at' = [at EXCEPT ![w] = "apply"]
          /\ seen' = [seen EXCEPT ![w] = new]
          /\ UNCHANGED <<checkout, money, erased, event, job, held, age, remote, faults>>
      BY <1>2 DEF Fetch, Goto
    <2> HIDE DEF new
    <2>3. WorkInv'
      BY <1>1, <2>1, <2>2 DEF TypeInv, TypeOK, WorkInv
    <2>4. at' \in [Workers -> Steps] /\ seen' \in [Workers -> Answer]
      BY <2>1, <2>2 DEF TypeInv, TypeOK, Answer, Steps
    <2>5. QED
      BY <2>2, <2>3, <2>4 DEF TypeInv, TypeOK, money
  <1>3. CASE Apply(w)
    <2>1. /\ seen[w] \in EvidenceAnswer \cup {Nothing}
          /\ UNCHANGED <<erased, event, job, held, age, remote, faults>>
      BY <1>3 DEF Apply, TypeInv, WorkInv
    <2>2. /\ refund' \in [Checkouts -> [Refunds -> RefundState]]
          /\ payment' \in [Checkouts -> [state : PaymentState, refunded : Nat, updatedAt : 0..4]]
          /\ checkout' \in [Checkouts -> [state : CheckoutState, provider : 0..2]]
          /\ purchase' \in [Checkouts -> Access]
          /\ grant' \in [Checkouts -> Access]
      <3>1. CASE seen[w] # Nothing
        <4>1. seen[w] \in EvidenceAnswer /\ Evidenced(c, seen[w])
          BY <1>3, <2>1, <3>1 DEF Apply
        <4>2. QED
          BY <1>1, <4>1, TypeEvidenced DEF TypeInv
      <3>2. CASE seen[w] = Nothing
        BY <1>3, <3>2 DEF Apply, TypeInv, TypeOK, money
      <3>3. QED
        BY <3>1, <3>2
    <2>3. PICK where \in {"flag", "mark", "status", "done"} : Goto(w, where)
      BY <1>3 DEF Apply
    <2>4. seen' = [seen EXCEPT ![w] = Nothing]
      BY <1>3 DEF Apply
    <2>5. at' = [at EXCEPT ![w] = where] /\ where \in Steps \ {"link", "apply"}
      BY <2>3 DEF Goto, Steps
    <2>6. WorkInv'
      BY <1>1, <2>1, <2>4, <2>5 DEF TypeInv, TypeOK, WorkInv
    <2>7. at' \in [Workers -> Steps] /\ seen' \in [Workers -> Answer]
      BY <2>4, <2>5 DEF TypeInv, TypeOK, Answer
    <2>8. QED
      BY <2>1, <2>2, <2>6, <2>7 DEF TypeInv, TypeOK
  <1>4. CASE AskStatus(w)
    <2>1. PICK status \in {"pending", "approved", "failed"} :
            seen' = [seen EXCEPT ![w] = [kind |-> "status", status |-> status]]
      BY <1>4 DEF AskStatus
    <2>2. /\ at[w] = "status" /\ at' = [at EXCEPT ![w] = "answer"]
          /\ UNCHANGED <<checkout, money, erased, event, job, held, age, remote, faults>>
      BY <1>4 DEF AskStatus, Goto
    <2>3. [kind |-> "status", status |-> status] \in Answer
      BY DEF Answer, StatusAnswer
    <2>4. WorkInv'
      BY <1>1, <2>1, <2>2 DEF TypeInv, TypeOK, WorkInv
    <2>5. at' \in [Workers -> Steps] /\ seen' \in [Workers -> Answer]
      BY <2>1, <2>2, <2>3 DEF TypeInv, TypeOK, Steps
    <2>6. QED
      BY <2>2, <2>4, <2>5 DEF TypeInv, TypeOK, money
  <1>5. CASE ApplyStatus(w)
    <2>1. checkout' \in [Checkouts -> [state : CheckoutState, provider : 0..2]]
      BY <1>5, ZenonT(40) DEF ApplyStatus, TypeInv, TypeOK, CheckoutState
    <2>2. job' = job \/ job' = Queued(job, Job("capture", Order(w), "-"))
      BY <1>5 DEF ApplyStatus
    <2>3. job' \in JobType
      BY <2>2, QueuedType DEF TypeInv, TypeOK
    <2>4. /\ Goto(w, "done") /\ "done" \in Steps \ {"link", "apply"}
          /\ UNCHANGED <<money, erased, event, held, seen, age, remote, faults>>
      BY <1>5 DEF ApplyStatus, Steps
    <2>5. WorkInv' /\ at' \in [Workers -> Steps]
      BY <1>1, <2>4, MoveType
    <2>6. QED
      BY <2>1, <2>3, <2>4, <2>5 DEF TypeInv, TypeOK, money
  <1>6. QED
    BY <1>2, <1>3, <1>4, <1>5

\* Leases, the ends of jobs, errors, crashes and leases that run out.
LEMMA JobStepType ==
  ASSUME TypeInv,
         \/ \E w \in Workers : \/ Done(w) \/ Failed(w) \/ Throws(w) \/ Crash(w)
                               \/ \E j \in Jobs : Lease(w, j)
         \/ \E j \in Jobs : Expire(j)
  PROVE  TypeInv'
  <1>1. ASSUME NEW w \in Workers, NEW where, NEW state \in {"done", "ready"}, EndsAs(w, where, state)
        PROVE  TypeInv'
    <2>1. job' \in JobType
      <3>1. \/ job' = job
            \/ job' = [job EXCEPT ![held[w]] = [job[held[w]] EXCEPT !.state = state, !.holder = Nobody]]
        BY <1>1 DEF EndsAs
      <3>2. ASSUME NEW j \in Jobs
            PROVE  [job[j] EXCEPT !.state = state, !.holder = Nobody]
                     \in [state : {"none", "ready", "running", "done"},
                          holder : Workers \cup {Nobody}, retried : BOOLEAN]
        BY DEF TypeInv, TypeOK, JobType
      <3>3. CASE held[w] \in Jobs
        BY <3>1, <3>2, <3>3 DEF TypeInv, TypeOK, JobType
      <3>4. CASE held[w] \notin Jobs
        <4>1. job' = job
          BY <3>1, <3>4 DEF TypeInv, TypeOK, JobType
        <4>2. QED
          BY <4>1 DEF TypeInv, TypeOK
      <3>5. QED
        BY <3>3, <3>4
    <2>2. /\ at' = [at EXCEPT ![w] = "idle"]
          /\ held' = [held EXCEPT ![w] = Nobody]
          /\ seen' = [seen EXCEPT ![w] = Nothing]
          /\ UNCHANGED <<checkout, money, erased, event, age, remote, faults>>
      BY <1>1 DEF EndsAs
    <2>3. WorkInv'
      BY <2>2 DEF TypeInv, TypeOK, WorkInv
    <2>4. QED
      BY <2>1, <2>2, <2>3 DEF TypeInv, TypeOK, Steps, Answer, money
  <1>2. ASSUME NEW w \in Workers, Throws(w) PROVE TypeInv'
    <2>1. /\ at[w] # "idle" /\ Goto(w, "failed") /\ "failed" \in Steps \ {"link", "apply"}
          /\ UNCHANGED <<checkout, money, erased, event, job, held, seen, age, remote>>
      BY <1>2 DEF Throws, Steps
    <2>2. faults' \in 0..MaxFaults
      BY <1>2, CommerceAssumption DEF Throws, TypeInv, TypeOK
    <2>3. WorkInv' /\ at' \in [Workers -> Steps]
      BY <2>1, MoveType
    <2>4. QED
      BY <2>1, <2>2, <2>3 DEF TypeInv, TypeOK, money
  <1>3. ASSUME NEW w \in Workers, Crash(w) PROVE TypeInv'
    <2>1. /\ at' = [at EXCEPT ![w] = "idle"]
          /\ held' = [held EXCEPT ![w] = Nobody]
          /\ seen' = [seen EXCEPT ![w] = Nothing]
          /\ UNCHANGED <<checkout, money, erased, event, job, age, remote>>
      BY <1>3 DEF Crash
    <2>2. faults' \in 0..MaxFaults
      BY <1>3, CommerceAssumption DEF Crash, TypeInv, TypeOK
    <2>3. WorkInv'
      BY <2>1 DEF TypeInv, TypeOK, WorkInv
    <2>4. QED
      BY <2>1, <2>2, <2>3 DEF TypeInv, TypeOK, Steps, Answer, money
  <1>4. ASSUME NEW w \in Workers, NEW j \in Jobs, Lease(w, j) PROVE TypeInv'
    <2>1. PICK where \in {"again", "begin"} : at' = [at EXCEPT ![w] = where]
      BY <1>4 DEF Lease, Goto
    <2>2. /\ held' = [held EXCEPT ![w] = j]
          /\ UNCHANGED <<checkout, money, erased, event, seen, age, remote, faults>>
      BY <1>4 DEF Lease
    <2>3. job' \in JobType
      <3>1. job[j].retried \in BOOLEAN
        BY DEF TypeInv, TypeOK, JobType
      <3>2. [state |-> "running", holder |-> w, retried |-> job[j].retried \/ j.kind = "create_order"]
              \in [state : {"none", "ready", "running", "done"},
                   holder : Workers \cup {Nobody}, retried : BOOLEAN]
        BY <3>1
      <3>3. QED
        BY <1>4, <3>2 DEF Lease, TypeInv, TypeOK, JobType
    <2>4. WorkInv'
      BY <2>1, <2>2 DEF TypeInv, TypeOK, WorkInv
    <2>5. QED
      BY <2>1, <2>2, <2>3, <2>4 DEF TypeInv, TypeOK, Steps, money
  <1>5. ASSUME NEW j \in Jobs, Expire(j) PROVE TypeInv'
    <2>1. job' = [job EXCEPT ![j].state = "ready"]
          /\ UNCHANGED <<checkout, money, erased, event, worker, age, remote>>
      BY <1>5 DEF Expire
    <2>2. job' \in JobType
      BY <2>1 DEF TypeInv, TypeOK, JobType
    <2>3. faults' \in 0..MaxFaults
      BY <1>5, CommerceAssumption DEF Expire, TypeInv, TypeOK
    <2>4. WorkInv'
      BY <2>1, WorkKept DEF TypeInv
    <2>5. QED
      BY <2>1, <2>2, <2>3, <2>4 DEF TypeInv, TypeOK, money, worker
  <1>6. QED
    BY <1>1, <1>2, <1>3, <1>4, <1>5 DEF Done, Failed

\* The empty store is well-typed.
LEMMA TypeInit == Init => TypeInv
  <1> SUFFICES ASSUME Init PROVE TypeInv
    OBVIOUS
  <1>1. NoRefunds \in [Refunds -> RefundState]
    BY DEF NoRefunds, RefundState
  <1>2. /\ checkout \in [Checkouts -> [state : CheckoutState, provider : 0..2]]
        /\ payment \in [Checkouts -> [state : PaymentState, refunded : Nat, updatedAt : 0..4]]
    BY DEF Init, CheckoutState, PaymentState
  <1>6. /\ refund \in [Checkouts -> [Refunds -> RefundState]]
        /\ purchase \in [Checkouts -> Access]
        /\ grant \in [Checkouts -> Access]
        /\ erased \in BOOLEAN
        /\ event \in [Checkouts -> [Events -> {"none", "pending", "processed", "needs_review"}]]
    BY <1>1 DEF Init, Access
  <1>3. /\ job \in JobType
        /\ at \in [Workers -> Steps]
        /\ held \in [Workers -> Jobs \cup {Nobody}]
        /\ seen \in [Workers -> Answer]
        /\ age \in [Checkouts -> 0..2]
        /\ faults \in 0..MaxFaults
    BY CommerceAssumption DEF Init, JobType, Steps, Answer
  <1>4. remote \in [Checkouts -> Remote]
    BY <1>1 DEF Init, Remote
  <1>5. WorkInv
    BY DEF Init, WorkInv
  <1>7. QED
    BY <1>2, <1>3, <1>4, <1>5, <1>6 DEF TypeInv, TypeOK

\* Every step keeps the types, and what a worker carries fits its step.
LEMMA TypeNext == TypeInv /\ [Next]_vars => TypeInv'
  <1> SUFFICES ASSUME TypeInv, [Next]_vars PROVE TypeInv'
    OBVIOUS
  <1>1. CASE UNCHANGED vars
    BY <1>1 DEF TypeInv, TypeOK, WorkInv, vars
  <1>2. CASE Schedule \/ Erase
    BY <1>2, RequestType
  <1>3. ASSUME NEW c \in Checkouts,
               \/ Checkout(c) \/ RequestCapture(c) \/ Provider(c)
               \/ \E e \in Events : AcceptEvent(c, e)
        PROVE  TypeInv'
    BY <1>3, RequestType, ProviderType
  <1>4. ASSUME NEW w \in Workers, Work(w) PROVE TypeInv'
    BY <1>4, BeginType, CreationType, EventType, AnswerType, JobStepType DEF Work
  <1>5. ASSUME NEW w \in Workers, Throws(w) \/ Crash(w) \/ \E j \in Jobs : Lease(w, j)
        PROVE  TypeInv'
    BY <1>5, JobStepType
  <1>6. ASSUME NEW j \in Jobs, Expire(j) PROVE TypeInv'
    BY <1>6, JobStepType
  <1>7. QED
    BY <1>1, <1>2, <1>3, <1>4, <1>5, <1>6 DEF Next

\* So both hold in every state.
LEMMA TypeAlways == Spec => []TypeInv
  BY TypeInit, TypeNext, PTL DEF Spec

\* The service's records, its workers and the provider's view keep their types,
\* and no computation of applyEvidence() leaves them.
THEOREM TypeCorrect == Spec => []TypeOK
  <1>1. TypeInv => TypeOK
    BY DEF TypeInv
  <1>2. QED
    BY <1>1, TypeAlways, PTL

-----------------------------------------------------------------------------
(* Access.                                                                  *)

\* The evidence a worker carries is applied.
Applies(w) ==
  /\ at[w] = "apply"
  /\ Order(w) \in Checkouts
  /\ seen[w] # Nothing /\ seen[w] \in EvidenceAnswer
  /\ Evidenced(Order(w), seen[w])
  /\ UNCHANGED remote

\* Only an erasure and the evidence of a capture change payments, purchases
\* and grants.
LEMMA MoneySteps ==
  ASSUME TypeInv, [Next]_vars
  PROVE  \/ UNCHANGED money
         \/ Erase
         \/ \E w \in Workers : Applies(w)
  <1>1. CASE UNCHANGED vars
    BY <1>1 DEF vars, money
  <1>2. CASE Schedule \/ Erase
    BY <1>2 DEF Schedule
  <1>3. ASSUME NEW c \in Checkouts,
               \/ Checkout(c) \/ RequestCapture(c) \/ Provider(c)
               \/ \E e \in Events : AcceptEvent(c, e)
        PROVE  UNCHANGED money
    BY <1>3 DEF Checkout, RequestCapture, AcceptEvent, Provider, Approve, ReverseApproval, Clear,
                Reverse, RefundRest, RefundPart, Grow
  <1>4. ASSUME NEW w \in Workers, Apply(w)
        PROVE  UNCHANGED money \/ Applies(w)
    <2>1. Order(w) \in Checkouts /\ seen[w] \in EvidenceAnswer \cup {Nothing}
      BY <1>4, Working DEF Apply, TypeInv, WorkInv
    <2>2. CASE seen[w] = Nothing
      BY <1>4, <2>2 DEF Apply
    <2>3. CASE seen[w] # Nothing
      BY <1>4, <2>1, <2>3 DEF Apply, Applies
    <2>4. QED
      BY <2>2, <2>3
  <1>5. ASSUME NEW w \in Workers, Work(w), ~Apply(w) PROVE UNCHANGED money
    BY <1>5 DEF Work, BeginCreate, Review, CreateOrder, Link, BeginCapture, Capture, BeginEvent,
                ApplyApproval, Mark, BeginReconcile, Fetch, AskStatus, ApplyStatus, Done, Failed, EndsAs
  <1>6. ASSUME NEW w \in Workers, Throws(w) \/ Crash(w) \/ \E j \in Jobs : Lease(w, j)
        PROVE  UNCHANGED money
    BY <1>6 DEF Throws, Crash, Lease
  <1>7. ASSUME NEW j \in Jobs, Expire(j) PROVE UNCHANGED money
    BY <1>7 DEF Expire
  <1>8. QED
    BY <1>1, <1>2, <1>3, <1>4, <1>5, <1>6, <1>7 DEF Next

\* A grant stands beside its purchase, and neither gives access to a payment
\* that was taken back.
AccessInv ==
  /\ \A c \in Checkouts : grant[c] = "none" <=> purchase[c] = "none"
  /\ RefundEndsAccess

\* applyEvidence() keeps them beside each other and revives no grant.
LEMMA AccessEvidenced ==
  ASSUME TypeOK, AccessInv, NEW c \in Checkouts, NEW ev \in EvidenceAnswer, Evidenced(c, ev)
  PROVE  /\ AccessInv'
         /\ \A x \in Checkouts : grant[x] = "revoked" => grant'[x] = "revoked"
  <1>1. /\ payment' = [payment EXCEPT ![c] =
             [state |-> StateAfter(c, ev), refunded |-> RefundedAfter(c, ev),
              updatedAt |-> Larger(payment[c].updatedAt, ev.updatedAt)]]
        /\ purchase' = [purchase EXCEPT ![c] = AccessAfter(purchase[c], c, ev)]
        /\ grant' = [grant EXCEPT ![c] = AccessAfter(grant[c], c, ev)]
    BY DEF Evidenced
  <1>2. ASSUME NEW x \in Checkouts, x # c
        PROVE  payment'[x] = payment[x] /\ purchase'[x] = purchase[x] /\ grant'[x] = grant[x]
    BY <1>1, <1>2 DEF TypeOK
  <1>3. /\ payment'[c].state = StateAfter(c, ev)
        /\ purchase'[c] = AccessAfter(purchase[c], c, ev)
        /\ grant'[c] = AccessAfter(grant[c], c, ev)
    BY <1>1 DEF TypeOK
  <1>4. grant'[c] = "none" <=> purchase'[c] = "none"
    BY <1>3 DEF AccessAfter, AccessInv
  <1>5. payment'[c].state \in Terminal => purchase'[c] # "active" /\ grant'[c] # "active"
    BY <1>3 DEF AccessAfter, Buys, Terminal
  <1>6. grant[c] = "revoked" => grant'[c] = "revoked"
    BY <1>3 DEF AccessAfter, AccessInv, Buys
  <1>7. QED
    BY <1>2, <1>4, <1>5, <1>6 DEF AccessInv, RefundEndsAccess

\* So does an erasure, which revokes.
LEMMA AccessErase ==
  ASSUME TypeOK, AccessInv, Erase
  PROVE  /\ AccessInv'
         /\ \A x \in Checkouts : grant[x] = "revoked" => grant'[x] = "revoked"
  <1>1. \A x \in Checkouts : grant'[x] = IF grant[x] = "none" THEN "none" ELSE "revoked"
    BY DEF Erase
  <1>2. UNCHANGED <<payment, purchase>>
    BY DEF Erase
  <1>3. QED
    BY <1>1, <1>2 DEF AccessInv, RefundEndsAccess

\* And every other step, which changes neither.
LEMMA AccessNext ==
  ASSUME TypeInv, AccessInv, [Next]_vars
  PROVE  /\ AccessInv'
         /\ \A x \in Checkouts : grant[x] = "revoked" => grant'[x] = "revoked"
  <1>1. CASE UNCHANGED money
    BY <1>1 DEF money, AccessInv, RefundEndsAccess
  <1>2. CASE Erase
    BY <1>2, AccessErase DEF TypeInv
  <1>3. ASSUME NEW w \in Workers, Applies(w)
        PROVE  /\ AccessInv'
               /\ \A x \in Checkouts : grant[x] = "revoked" => grant'[x] = "revoked"
    BY <1>3, AccessEvidenced DEF TypeInv, Applies
  <1>4. QED
    BY <1>1, <1>2, <1>3, MoneySteps

\* At first nobody has access.
LEMMA AccessInit == Init => AccessInv
  BY DEF Init, AccessInv, RefundEndsAccess, Terminal

\* A purchase whose payment was refunded in full or reversed gives no access,
\* in whatever order the evidence of workers and notifications is applied.
THEOREM RefundsEndAccess == Spec => []RefundEndsAccess
  <1>1. TypeInv /\ AccessInv /\ [Next]_vars => AccessInv'
    BY AccessNext
  <1>2. AccessInv => RefundEndsAccess
    BY DEF AccessInv
  <1>3. QED
    BY <1>1, <1>2, AccessInit, TypeAlways, PTL DEF Spec

\* Access taken by an erasure, a refund or a reversal never comes back.
THEOREM RevokedStays == Spec => RevokedForGood
  <1>1. TypeInv /\ AccessInv /\ [Next]_vars => AccessInv'
    BY AccessNext
  <1>2. TypeInv /\ AccessInv /\ [Next]_vars
          => [\A c \in Checkouts : grant[c] = "revoked" => grant'[c] = "revoked"]_vars
    BY AccessNext
  <1>3. QED
    BY <1>1, <1>2, AccessInit, TypeAlways, PTL DEF Spec, RevokedForGood

\* A checkout whose state changes keeps its provider order.
LEMMA StateOnly ==
  ASSUME TypeOK, NEW x \in Checkouts, NEW state, checkout' = [checkout EXCEPT ![x].state = state]
  PROVE  \A c \in Checkouts : checkout'[c].provider = checkout[c].provider
  <1>1. ASSUME NEW c \in Checkouts PROVE checkout[c] \in [state : CheckoutState, provider : 0..2]
    BY DEF TypeOK
  <1>2. ASSUME NEW c \in Checkouts
        PROVE  checkout'[c] = IF c = x THEN [checkout[x] EXCEPT !.state = state] ELSE checkout[c]
    BY DEF TypeOK
  <1>3. [checkout[x] EXCEPT !.state = state].provider = checkout[x].provider
    BY <1>1
  <1>4. QED
    BY <1>2, <1>3

\* The provider order of a checkout is written by Link() alone, which refuses
\* another one than the order the checkout has.
THEOREM OrderForGood == Spec => OneProviderOrder
  <1> DEFINE Kept == \A c \in Checkouts :
               checkout[c].provider # 0 => checkout'[c].provider = checkout[c].provider
  <1>1. ASSUME TypeInv, [Next]_vars PROVE Kept
    <2>1. CASE UNCHANGED vars
      BY <2>1 DEF vars
    <2>2. CASE Schedule \/ Erase
      BY <2>2 DEF Schedule, Erase
    <2>3. ASSUME NEW x \in Checkouts,
                 \/ Checkout(x) \/ RequestCapture(x) \/ Provider(x)
                 \/ \E e \in Events : AcceptEvent(x, e)
          PROVE  Kept
      <3>1. UNCHANGED checkout \/ checkout' = [checkout EXCEPT ![x].state = "creating"]
        BY <2>3 DEF Checkout, RequestCapture, AcceptEvent, Provider, Approve, ReverseApproval, Clear,
                    Reverse, RefundRest, RefundPart, Grow
      <3>2. QED
        BY <1>1, <3>1, StateOnly DEF TypeInv
    <2>4. ASSUME NEW w \in Workers, Work(w) PROVE Kept
      <3>0. Order(w) \in Checkouts
        <4>1. at[w] # "idle"
          BY <2>4 DEF Work, Done, Failed, EndsAs, BeginCreate, Review, CreateOrder, Link, BeginCapture,
                      Capture, BeginEvent, ApplyApproval, Mark, BeginReconcile, Fetch, Apply, AskStatus,
                      ApplyStatus
        <4>2. QED
          BY <1>1, <4>1, Working
      <3>1. CASE Link(w)
        <4>1. \/ UNCHANGED checkout
              \/ /\ checkout[Order(w)].provider \in {0, seen[w].id}
                 /\ checkout' = [checkout EXCEPT ![Order(w)] =
                                   [state |-> "pending", provider |-> seen[w].id]]
          BY <3>1 DEF Link
        <4>2. ASSUME NEW c \in Checkouts, checkout[c].provider # 0
              PROVE  checkout'[c].provider = checkout[c].provider
          <5>1. CASE UNCHANGED checkout
            BY <5>1
          <5>2. CASE c # Order(w)
            BY <1>1, <4>1, <5>2 DEF TypeInv, TypeOK
          <5>3. CASE c = Order(w) /\ ~UNCHANGED checkout
            <6>1. /\ checkout[c].provider = seen[w].id
                  /\ checkout'[c] = [state |-> "pending", provider |-> seen[w].id]
              BY <1>1, <4>1, <4>2, <5>3 DEF TypeInv, TypeOK
            <6>2. QED
              BY <6>1
          <5>4. QED
            BY <5>1, <5>2, <5>3
        <4>3. QED
          BY <4>2
      <3>2. CASE Apply(w)
        <4>1. \/ UNCHANGED checkout
              \/ \E state : checkout' = [checkout EXCEPT ![Order(w)].state = state]
          BY <3>2 DEF Apply, Evidenced
        <4>2. QED
          BY <1>1, <3>0, <4>1, StateOnly DEF TypeInv
      <3>3. CASE ~Link(w) /\ ~Apply(w)
        <4>1. \/ UNCHANGED checkout
              \/ \E state : checkout' = [checkout EXCEPT ![Order(w)].state = state]
          BY <2>4, <3>3
             DEF Work, BeginCreate, Review, CreateOrder, BeginCapture, Capture, BeginEvent,
                 ApplyApproval, Mark, BeginReconcile, Fetch, AskStatus, ApplyStatus, Done, Failed, EndsAs
        <4>2. QED
          BY <1>1, <3>0, <4>1, StateOnly DEF TypeInv
      <3>4. QED
        BY <3>1, <3>2, <3>3
    <2>5. ASSUME NEW w \in Workers, Throws(w) \/ Crash(w) \/ \E j \in Jobs : Lease(w, j)
          PROVE  Kept
      BY <2>5 DEF Throws, Crash, Lease
    <2>6. ASSUME NEW j \in Jobs, Expire(j) PROVE Kept
      BY <2>6 DEF Expire
    <2>7. QED
      BY <1>1, <2>1, <2>2, <2>3, <2>4, <2>5, <2>6 DEF Next
  <1>2. TypeInv /\ [Next]_vars => [Kept]_vars
    BY <1>1
  <1>3. QED
    BY <1>2, TypeAlways, PTL DEF Spec, OneProviderOrder

-----------------------------------------------------------------------------
(* Evidence.                                                                *)

Taken == {"completed", "partially_refunded", "refunded"}

\* The provider refunds no more than it took, and only what it took.
Sane(view) ==
  /\ view.capture # "none" => view.order = "captured"
  /\ view.capture \notin Taken => ~view.reversed /\ \A r \in Refunds : view.refunds[r] = "none"
  /\ Completed(view.refunds) <= PaidMinor
  /\ view.capture # "refunded" => Completed(view.refunds) < PaidMinor

RemoteInv == \A c \in Checkouts : Sane(remote[c])

\* What the provider has given back of a capture.
Back(view) == IF view.capture = "refunded" THEN PaidMinor ELSE Completed(view.refunds)

\* What evidence says was true when it was fetched, and stays true: it may be
\* old, not wrong.
Known(view, ev) ==
  /\ view.capture # "none"
  /\ ev.sound = view.sound
  /\ ev.status = "reversed" => view.reversed
  /\ ev.status # "reversed" => ev.updatedAt = Rank(ev.status)
  /\ ev.status \in Taken => view.capture \in Taken
  /\ ev.status = "failed" => view.capture = "failed"
  /\ ev.status = "refunded" \/ ev.refunded > 0 => view.capture = "refunded"
  /\ \A r \in Refunds : ev.refunds[r] = "completed" => view.refunds[r] = "completed"

SeenInv ==
  \A w \in Workers : at[w] = "apply" /\ seen[w] # Nothing => Known(remote[Order(w)], seen[w])

\* A worker's job has been queued, and that of a reversal only once it happened.
NoticeInv ==
  /\ \A w \in Workers : at[w] # "idle" => job[held[w]].state # "none"
  /\ \A c \in Checkouts : job[Job("event", c, "reversed")].state # "none" => remote[c].reversed

\* What the service believes of a payment is true at the provider.
Believed(view, paid, refunds, bought) ==
  /\ paid.state \in Confirmed => view.capture \in Taken /\ view.sound
  /\ bought # "none" => view.capture \in Taken /\ view.sound
  /\ paid.refunded <= Back(view)
  /\ \A r \in Refunds : refunds[r] = "completed" => view.refunds[r] = "completed"
  /\ paid.state = "completed" => paid.updatedAt >= 2
  /\ paid.state = "partially_refunded" /\ paid.refunded = 0 => paid.updatedAt >= 3

BeliefInv == \A c \in Checkouts : Believed(remote[c], payment[c], refund[c], purchase[c])

EvidenceInv == RemoteInv /\ NoticeInv /\ SeenInv /\ BeliefInv

\* More completed refunds count for more.
LEMMA CompletedMore ==
  ASSUME NEW refunds \in [Refunds -> RefundState], NEW more \in [Refunds -> RefundState],
         \A r \in Refunds : refunds[r] = "completed" => more[r] = "completed"
  PROVE  Completed(refunds) <= Completed(more)
  <1>1. IsFiniteSet({r \in Refunds : more[r] = "completed"})
    BY CommerceAssumption, FS_Subset, {r \in Refunds : more[r] = "completed"} \subseteq Refunds
  <1>2. {r \in Refunds : refunds[r] = "completed"} \subseteq {r \in Refunds : more[r] = "completed"}
    OBVIOUS
  <1>3. QED
    BY <1>1, <1>2, FS_Subset DEF Completed

\* A refund that completes counts once.
LEMMA CompletedOne ==
  ASSUME NEW refunds \in [Refunds -> RefundState], NEW r \in Refunds
  PROVE  Completed([refunds EXCEPT ![r] = "completed"]) <= Completed(refunds) + 1
  <1> DEFINE before == {x \in Refunds : refunds[x] = "completed"}
             after == {x \in Refunds : [refunds EXCEPT ![r] = "completed"][x] = "completed"}
  <1>1. after = before \cup {r}
    OBVIOUS
  <1>2. IsFiniteSet(before)
    BY CommerceAssumption, FS_Subset, before \subseteq Refunds
  <1>3. Cardinality(before) \in Nat
    BY <1>2, FS_CardinalityType
  <1>4. Cardinality(before \cup {r}) <= Cardinality(before) + 1
    <2> HIDE DEF before
    <2>1. Cardinality(before \cup {r})
            = IF r \in before THEN Cardinality(before) ELSE Cardinality(before) + 1
      BY <1>2, FS_AddElement
    <2>2. QED
      BY <1>3, <2>1
  <1>5. QED
    BY <1>1, <1>4 DEF Completed

\* No refunds count for nothing.
LEMMA CompletedNone ==
  ASSUME NEW refunds, \A r \in Refunds : refunds[r] = "none"
  PROVE  Completed(refunds) = 0
  <1>1. {r \in Refunds : refunds[r] = "completed"} = {}
    OBVIOUS
  <1>2. QED
    BY <1>1, FS_EmptySet DEF Completed

\* What the provider has done it does not undo.
Grown(view, new) ==
  /\ view.capture # "none" => new.capture # "none" /\ new.sound = view.sound
  /\ view.capture \in Taken => new.capture \in Taken
  /\ view.capture \in {"failed", "refunded"} => new.capture = view.capture
  /\ view.reversed => new.reversed
  /\ \A r \in Refunds : view.refunds[r] = "completed" => new.refunds[r] = "completed"
  /\ Back(view) <= Back(new)

\* The one kind of step the provider takes: one view grows.
Grows(c) ==
  \E new \in Remote : /\ remote' = [remote EXCEPT ![c] = new]
                      /\ Sane(new)
                      /\ Grown(remote[c], new)

\* A refund lets the provider's view grow.
LEMMA RefundGrows ==
  ASSUME NEW view \in Remote, Sane(view), view.capture \in {"completed", "partially_refunded"},
         NEW refunds \in [Refunds -> RefundState], NEW capture \in Taken,
         \A r \in Refunds : view.refunds[r] = "completed" => refunds[r] = "completed",
         Completed(refunds) <= PaidMinor,
         capture # "refunded" => Completed(refunds) < PaidMinor
  PROVE  LET new == [view EXCEPT !.refunds = refunds, !.capture = capture]
         IN  new \in Remote /\ Sane(new) /\ Grown(view, new)
  <1> DEFINE new == [view EXCEPT !.refunds = refunds, !.capture = capture]
  <1>1. /\ new \in Remote
        /\ new.capture = capture /\ new.refunds = refunds /\ new.order = view.order
        /\ new.reversed = view.reversed /\ new.sound = view.sound
    BY DEF Remote, Taken, CaptureState
  <1>2. view.refunds \in [Refunds -> RefundState]
    BY DEF Remote
  <1>3. Completed(view.refunds) <= Completed(refunds)
    BY <1>2, CompletedMore
  <1>4. Completed(view.refunds) \in Nat /\ Completed(refunds) \in Nat /\ PaidMinor \in Nat
    BY <1>2, CompletedType, CommerceAssumption
  <1> HIDE DEF new
  <1>5. Sane(new)
    BY <1>1 DEF Sane, Taken
  <1>6. Back(view) <= Back(new)
    BY <1>1, <1>3, <1>4 DEF Back
  <1>7. Grown(view, new)
    BY <1>1, <1>6 DEF Grown, Taken
  <1>8. QED
    BY <1>1, <1>5, <1>7 DEF new

\* Approvals, decisions, refunds and reversals let a view grow.
LEMMA ProviderGrows ==
  ASSUME TypeInv, RemoteInv, NEW c \in Checkouts, Provider(c)
  PROVE  UNCHANGED remote \/ Grows(c)
  <1> DEFINE view == remote[c]
  <1>1. view \in Remote /\ Sane(view)
    BY DEF TypeInv, TypeOK, RemoteInv
  <1>2. /\ view.capture \in CaptureState \cup {"none"} /\ view.reversed \in BOOLEAN
        /\ view.refunds \in [Refunds -> RefundState]
    BY <1>1 DEF Remote
  <1>3. Completed(view.refunds) \in Nat /\ PaidMinor \in Nat
    BY <1>2, CompletedType, CommerceAssumption
  <1>4. CASE Approve(c) \/ ReverseApproval(c)
    <2>1. PICK order \in {"approved", "voided"} :
            remote' = [remote EXCEPT ![c] = [view EXCEPT !.order = order]]
      BY <1>4 DEF Approve, ReverseApproval
    <2> DEFINE new == [view EXCEPT !.order = order]
    <2>2. /\ new \in Remote /\ new.order = order /\ new.capture = view.capture
          /\ new.refunds = view.refunds /\ new.reversed = view.reversed /\ new.sound = view.sound
      BY <1>1 DEF Remote
    <2>3. view.capture = "none"
      BY <1>1, <1>4 DEF Approve, ReverseApproval, Sane
    <2> HIDE DEF new
    <2>4. Sane(new)
      BY <1>1, <2>2, <2>3 DEF Sane
    <2>5. Grown(view, new)
      BY <1>3, <2>2 DEF Grown, Back
    <2>6. QED
      BY <2>1, <2>2, <2>4, <2>5 DEF Grows, new
  <1>5. CASE Clear(c)
    <2>1. PICK status \in {"completed", "failed"} :
            remote' = [remote EXCEPT ![c] = [view EXCEPT !.capture = status]]
      BY <1>5 DEF Clear
    <2> DEFINE new == [view EXCEPT !.capture = status]
    <2>2. /\ new \in Remote /\ new.order = view.order /\ new.capture = status
          /\ new.refunds = view.refunds /\ new.reversed = view.reversed /\ new.sound = view.sound
      BY <1>1 DEF Remote, CaptureState
    <2>3. view.capture = "pending"
      BY <1>5 DEF Clear
    <2> HIDE DEF new
    <2>4. Sane(new)
      BY <1>1, <2>2, <2>3 DEF Sane, Taken
    <2>5. Grown(view, new)
      BY <1>3, <2>2, <2>3 DEF Grown, Back, Taken
    <2>6. QED
      BY <2>1, <2>2, <2>4, <2>5 DEF Grows, new
  <1>6. CASE Reverse(c)
    <2> DEFINE new == [view EXCEPT !.reversed = TRUE]
    <2>1. remote' = [remote EXCEPT ![c] = new]
      BY <1>6 DEF Reverse
    <2>2. /\ new \in Remote /\ new.order = view.order /\ new.capture = view.capture
          /\ new.refunds = view.refunds /\ new.reversed = TRUE /\ new.sound = view.sound
      BY <1>1 DEF Remote
    <2>3. view.capture \in {"completed", "partially_refunded"}
      BY <1>6 DEF Reverse
    <2> HIDE DEF new
    <2>4. Sane(new)
      BY <1>1, <2>2, <2>3 DEF Sane, Taken
    <2>5. Grown(view, new)
      BY <1>3, <2>2 DEF Grown, Back
    <2>6. QED
      BY <2>1, <2>2, <2>4, <2>5 DEF Grows
  <1>7. CASE RefundRest(c)
    <2> DEFINE new == [view EXCEPT !.capture = "refunded"]
    <2>1. remote' = [remote EXCEPT ![c] = new]
      BY <1>7 DEF RefundRest
    <2>2. /\ new \in Remote /\ new.order = view.order /\ new.capture = "refunded"
          /\ new.refunds = view.refunds /\ new.reversed = view.reversed /\ new.sound = view.sound
      BY <1>1 DEF Remote, CaptureState
    <2>3. view.capture \in {"completed", "partially_refunded"}
      BY <1>7 DEF RefundRest
    <2> HIDE DEF new
    <2>4. Sane(new)
      BY <1>1, <2>2, <2>3 DEF Sane, Taken
    <2>5. Back(view) <= Back(new)
      BY <1>1, <1>3, <2>2, <2>3 DEF Back, Sane
    <2>6. Grown(view, new)
      BY <2>2, <2>3, <2>5 DEF Grown, Taken
    <2>7. QED
      BY <2>1, <2>2, <2>4, <2>6 DEF Grows
  <1>8. ASSUME NEW r \in Refunds, RefundPart(c, r) PROVE Grows(c)
    <2> DEFINE refunds == [view.refunds EXCEPT ![r] = "completed"]
    <2>1. /\ view.capture \in {"completed", "partially_refunded"}
          /\ Completed(view.refunds) < PaidMinor
      BY <1>1, <1>8 DEF RefundPart, Sane
    <2>2. CASE view.refunds[r] = "none" /\ remote' = [remote EXCEPT ![c].refunds[r] = "pending"]
      <3> DEFINE marked == [view.refunds EXCEPT ![r] = "pending"]
      <3>1. marked \in [Refunds -> RefundState]
        BY <1>2 DEF RefundState
      <3>2. \A x \in Refunds : marked[x] = "completed" <=> view.refunds[x] = "completed"
        BY <1>2, <2>2
      <3>3. Completed(marked) = Completed(view.refunds)
        BY <3>2 DEF Completed
      <3>4. view.capture \in Taken /\ view.capture # "refunded"
        BY <2>1 DEF Taken
      <3>5. remote' = [remote EXCEPT ![c] = [view EXCEPT !.refunds = marked, !.capture = view.capture]]
        BY <1>1, <2>2 DEF TypeInv, TypeOK, Remote
      <3>6. \A x \in Refunds : view.refunds[x] = "completed" => marked[x] = "completed"
        BY <3>2
      <3> HIDE DEF marked
      <3>7. Completed(marked) <= PaidMinor /\ Completed(marked) < PaidMinor
        BY <1>3, <2>1, <3>3
      <3>8. QED
        BY <1>1, <2>1, <3>1, <3>4, <3>5, <3>6, <3>7, RefundGrows DEF Grows
    <2>3. CASE remote' = [remote EXCEPT ![c] = [view EXCEPT !.refunds = refunds,
                 !.capture = IF Completed(refunds) >= PaidMinor
                             THEN "refunded" ELSE "partially_refunded"]]
      <3> DEFINE capture == IF Completed(refunds) >= PaidMinor THEN "refunded" ELSE "partially_refunded"
      <3>1. refunds \in [Refunds -> RefundState]
        BY <1>2 DEF RefundState
      <3>2. \A x \in Refunds : view.refunds[x] = "completed" => refunds[x] = "completed"
        BY <1>2
      <3>3. Completed(refunds) <= Completed(view.refunds) + 1
        BY <1>2, CompletedOne
      <3> HIDE DEF refunds
      <3>4. Completed(refunds) <= PaidMinor /\ Completed(refunds) \in Nat
        BY <1>3, <2>1, <3>1, <3>3, CompletedType
      <3>5. capture \in Taken /\ (capture # "refunded" => Completed(refunds) < PaidMinor)
        BY <1>3, <3>4 DEF Taken
      <3>6. remote' = [remote EXCEPT ![c] = [view EXCEPT !.refunds = refunds, !.capture = capture]]
        BY <2>3
      <3> HIDE DEF capture
      <3>7. QED
        BY <1>1, <2>1, <3>1, <3>2, <3>4, <3>5, <3>6, RefundGrows DEF Grows
    <2>4. QED
      BY <1>8, <2>2, <2>3 DEF RefundPart
  <1>9. CASE Grow(c)
    BY <1>9 DEF Grow
  <1>10. QED
    BY <1>4, <1>5, <1>6, <1>7, <1>8, <1>9 DEF Provider

\* A worker creates an order or takes the money of an approved one.
LEMMA WorkerGrows ==
  ASSUME TypeInv, RemoteInv, NEW w \in Workers, CreateOrder(w) \/ Capture(w)
  PROVE  UNCHANGED remote \/ Grows(Order(w))
  <1> DEFINE c == Order(w)
             view == remote[c]
  <1>1. c \in Checkouts
    BY Working DEF CreateOrder, Capture
  <1>2. view \in Remote /\ Sane(view)
    BY <1>1 DEF TypeInv, TypeOK, RemoteInv
  <1>3. Completed(view.refunds) \in Nat /\ PaidMinor \in Nat
    BY <1>2, CompletedType, CommerceAssumption DEF Remote
  <1>4. CASE CreateOrder(w)
    <2>1. PICK n, order :
            /\ remote' = [remote EXCEPT ![c] = [view EXCEPT !.orders = n, !.order = order]]
            /\ order = IF view.order = "none" THEN "created" ELSE view.order
      BY <1>4 DEF CreateOrder
    <2> DEFINE new == [view EXCEPT !.orders = n, !.order = order]
    <2>2. remote'[c] = new /\ remote' = [remote EXCEPT ![c] = new]
      BY <1>1, <2>1 DEF TypeInv, TypeOK
    <2>3. new \in Remote
      BY <1>1, <1>4, <2>2, CreationType DEF TypeInv, TypeOK
    <2>4. /\ new.order = order /\ new.capture = view.capture
          /\ new.refunds = view.refunds /\ new.reversed = view.reversed /\ new.sound = view.sound
      BY <1>2 DEF Remote
    <2> HIDE DEF new
    <2>5. Sane(new)
      BY <1>2, <2>1, <2>4 DEF Sane
    <2>6. Grown(view, new)
      BY <1>3, <2>4 DEF Grown, Back
    <2>7. QED
      BY <2>2, <2>3, <2>5, <2>6 DEF Grows
  <1>5. CASE Capture(w)
    <2>1. CASE UNCHANGED remote
      BY <2>1
    <2>2. CASE ~UNCHANGED remote
      <3>1. PICK status \in {"pending", "completed", "failed"}, sound \in BOOLEAN :
              remote' = [remote EXCEPT ![c] =
                [view EXCEPT !.order = "captured", !.capture = status, !.sound = sound]]
        BY <1>5, <2>2 DEF Capture
      <3> DEFINE new == [view EXCEPT !.order = "captured", !.capture = status, !.sound = sound]
      <3>2. /\ new \in Remote /\ new.order = "captured" /\ new.capture = status
            /\ new.refunds = view.refunds /\ new.reversed = view.reversed
        BY <1>2 DEF Remote, CaptureState
      <3>3. view.order = "approved"
        BY <1>5, <2>2 DEF Capture
      <3>4. view.capture = "none"
        BY <1>2, <3>3 DEF Sane
      <3> HIDE DEF new
      <3>5. Sane(new)
        <4>1. Completed(new.refunds) = 0 /\ ~new.reversed /\ \A r \in Refunds : new.refunds[r] = "none"
          BY <1>2, <3>2, <3>4, CompletedNone DEF Sane, Taken
        <4>2. QED
          BY <3>2, <4>1, CommerceAssumption DEF Sane
      <3>6. Grown(view, new)
        BY <1>3, <3>2, <3>4 DEF Grown, Back, Taken
      <3>7. QED
        BY <3>1, <3>2, <3>5, <3>6 DEF Grows, new
    <2>3. QED
      BY <2>1, <2>2
  <1>6. QED
    BY <1>4, <1>5

\* The provider's view changes in no other way.
LEMMA RemoteSteps ==
  ASSUME TypeInv, RemoteInv, [Next]_vars
  PROVE  UNCHANGED remote \/ \E c \in Checkouts : Grows(c)
  <1>1. CASE UNCHANGED vars
    BY <1>1 DEF vars
  <1>2. CASE Schedule \/ Erase
    BY <1>2 DEF Schedule, Erase
  <1>3. ASSUME NEW c \in Checkouts, Provider(c)
        PROVE  UNCHANGED remote \/ \E x \in Checkouts : Grows(x)
    BY <1>3, ProviderGrows
  <1>4. ASSUME NEW c \in Checkouts,
               Checkout(c) \/ RequestCapture(c) \/ \E e \in Events : AcceptEvent(c, e)
        PROVE  UNCHANGED remote
    BY <1>4 DEF Checkout, RequestCapture, AcceptEvent
  <1>5. ASSUME NEW w \in Workers, CreateOrder(w) \/ Capture(w)
        PROVE  UNCHANGED remote \/ \E x \in Checkouts : Grows(x)
    <2>1. Order(w) \in Checkouts
      BY <1>5, Working DEF CreateOrder, Capture
    <2>2. QED
      BY <1>5, <2>1, WorkerGrows
  <1>6. ASSUME NEW w \in Workers, Work(w), ~CreateOrder(w), ~Capture(w) PROVE UNCHANGED remote
    BY <1>6 DEF Work, BeginCreate, Review, Link, BeginCapture, BeginEvent, ApplyApproval, Mark,
                BeginReconcile, Fetch, Apply, AskStatus, ApplyStatus, Done, Failed, EndsAs
  <1>7. ASSUME NEW w \in Workers, Throws(w) \/ Crash(w) \/ \E j \in Jobs : Lease(w, j)
        PROVE  UNCHANGED remote
    BY <1>7 DEF Throws, Crash, Lease
  <1>8. ASSUME NEW j \in Jobs, Expire(j) PROVE UNCHANGED remote
    BY <1>8 DEF Expire
  <1>9. QED
    BY <1>1, <1>2, <1>3, <1>4, <1>5, <1>6, <1>7, <1>8 DEF Next

\* Every view stays sane and only grows.
LEMMA RemoteNext ==
  ASSUME TypeInv, RemoteInv, [Next]_vars
  PROVE  RemoteInv' /\ \A c \in Checkouts : Grown(remote[c], remote'[c])
  <1>1. ASSUME NEW c \in Checkouts PROVE Grown(remote[c], remote[c])
    <2>1. remote[c] \in Remote
      BY DEF TypeInv, TypeOK
    <2>2. Completed(remote[c].refunds) \in Nat /\ PaidMinor \in Nat
      BY <2>1, CompletedType, CommerceAssumption DEF Remote
    <2>3. QED
      BY <2>2 DEF Grown, Back
  <1>2. CASE UNCHANGED remote
    BY <1>1, <1>2 DEF RemoteInv
  <1>3. ASSUME NEW x \in Checkouts, Grows(x)
        PROVE  RemoteInv' /\ \A c \in Checkouts : Grown(remote[c], remote'[c])
    <2>1. PICK new \in Remote : remote' = [remote EXCEPT ![x] = new] /\ Sane(new) /\ Grown(remote[x], new)
      BY <1>3 DEF Grows
    <2>2. \A c \in Checkouts : remote'[c] = IF c = x THEN new ELSE remote[c]
      BY <2>1 DEF TypeInv, TypeOK
    <2>3. \A c \in Checkouts : Sane(remote'[c])
      BY <2>1, <2>2 DEF RemoteInv
    <2>4. QED
      BY <1>1, <2>1, <2>2, <2>3 DEF RemoteInv
  <1>4. QED
    BY <1>2, <1>3, RemoteSteps

\* Jobs are queued and run, never unmade; that of a notification by its delivery.
JobsKept == \A j \in Jobs : job[j].state # "none" => job'[j].state # "none"

\* The job of a notification is none of the service's own.
LEMMA EventJob ==
  ASSUME NEW kind \in {"create_order", "capture", "reconcile"},
         NEW c, NEW x, NEW e
  PROVE  Job(kind, c, "-") # Job("event", x, e)
  BY DEF Job

\* queue() touches one job and unmakes none.
LEMMA QueuedKept ==
  ASSUME TypeInv, NEW k, job' = Queued(job, k)
  PROVE  /\ JobsKept
         /\ \A j \in Jobs : j # k => job'[j] = job[j]
  BY DEF JobsKept, Queued, TypeInv, TypeOK, JobType

\* A step on a job that was queued unmakes none and makes none.
LEMMA SettledKept ==
  ASSUME TypeInv, NEW k \in Jobs, job[k].state # "none",
         \A j \in Jobs : j # k => job'[j] = job[j],
         job'[k].state # "none"
  PROVE  JobsKept /\ \A j \in Jobs : job[j].state = "none" => job'[j].state = "none"
  BY DEF JobsKept

\* No step makes the job of a reversal.
NoEventJob(c) ==
  job[Job("event", c, "reversed")].state = "none" => job'[Job("event", c, "reversed")].state = "none"

\* A reversal of any checkout has a job.
LEMMA ReversedJob ==
  ASSUME NEW c \in Checkouts
  PROVE  Job("event", c, "reversed") \in Jobs
  BY DEF Jobs, Events, PaymentEvents

\* No step unmakes a job, and the job of a reversal appears once it happened.
LEMMA JobSteps ==
  ASSUME TypeInv, NoticeInv, [Next]_vars
  PROVE  /\ JobsKept
         /\ \A c \in Checkouts : NoEventJob(c) \/ Happened(c, "reversed")
  <1> DEFINE Goal == JobsKept /\ \A c \in Checkouts : NoEventJob(c) \/ Happened(c, "reversed")
  <1>0. ASSUME job' = job PROVE Goal
    BY <1>0 DEF JobsKept, NoEventJob
  <1>1. CASE UNCHANGED vars
    BY <1>0, <1>1 DEF vars
  <1>2. CASE Schedule
    <2>1. PICK again \in SUBSET {Job("reconcile", c, "-") : c \in Checkouts} :
            job' = [j \in Jobs |-> IF j \in again /\ job[j].state \in {"none", "done"}
                                   THEN [job[j] EXCEPT !.state = "ready", !.holder = Nobody] ELSE job[j]]
      BY <1>2 DEF Schedule
    <2>2. ASSUME NEW c \in Checkouts PROVE Job("event", c, "reversed") \notin again
      BY <2>1, EventJob
    <2>3. JobsKept
      BY <2>1 DEF JobsKept, TypeInv, TypeOK, JobType
    <2>4. QED
      BY <2>1, <2>2, <2>3, ReversedJob DEF NoEventJob
  <1>3. CASE Erase
    BY <1>0, <1>3 DEF Erase
  <1>4. ASSUME NEW c \in Checkouts, Checkout(c) \/ RequestCapture(c) PROVE Goal
    <2>1. PICK kind \in {"create_order", "capture"} : job' = Queued(job, Job(kind, c, "-"))
      BY <1>4 DEF Checkout, RequestCapture
    <2>2. QED
      BY <2>1, QueuedKept, EventJob, ReversedJob DEF NoEventJob
  <1>5. ASSUME NEW c \in Checkouts, Provider(c) PROVE Goal
    BY <1>0, <1>5 DEF Provider, Approve, ReverseApproval, Clear, Reverse, RefundRest, RefundPart, Grow
  <1>6. ASSUME NEW c \in Checkouts, NEW e \in Events, AcceptEvent(c, e) PROVE Goal
    <2>1. job' = Queued(job, Job("event", c, e)) /\ Happened(c, e)
      BY <1>6 DEF AcceptEvent
    <2>2. ASSUME NEW x \in Checkouts, x # c \/ e # "reversed"
          PROVE  Job("event", x, "reversed") # Job("event", c, e)
      BY <2>2 DEF Job
    <2>3. QED
      BY <2>1, <2>2, QueuedKept, ReversedJob DEF NoEventJob
  <1>7. ASSUME NEW w \in Workers, ApplyApproval(w) \/ ApplyStatus(w) PROVE Goal
    <2>1. job' = job \/ \E c : job' = Queued(job, Job("capture", c, "-"))
      BY <1>7 DEF ApplyApproval, ApplyStatus
    <2>2. QED
      BY <1>0, <2>1, QueuedKept, EventJob, ReversedJob DEF NoEventJob
  <1>8. ASSUME NEW w \in Workers, Done(w) \/ Failed(w) PROVE Goal
    <2>1. at[w] # "idle" /\ held[w] \in Jobs /\ job[held[w]].state # "none"
      BY <1>8, Working DEF Done, Failed, EndsAs, NoticeInv
    <2>2. \/ job' = job
          \/ \E state \in {"done", "ready"} :
               job' = [job EXCEPT ![held[w]] = [job[held[w]] EXCEPT !.state = state, !.holder = Nobody]]
      BY <1>8 DEF Done, Failed, EndsAs
    <2>3. ASSUME NEW state \in {"done", "ready"},
                 job' = [job EXCEPT ![held[w]] = [job[held[w]] EXCEPT !.state = state, !.holder = Nobody]]
          PROVE  /\ \A j \in Jobs : j # held[w] => job'[j] = job[j]
                 /\ job'[held[w]].state # "none"
      BY <2>1, <2>3 DEF TypeInv, TypeOK, JobType
    <2>4. QED
      BY <1>0, <2>1, <2>2, <2>3, SettledKept, ReversedJob DEF NoEventJob
  <1>9. ASSUME NEW w \in Workers, Work(w),
               ~ApplyApproval(w), ~ApplyStatus(w), ~Done(w), ~Failed(w)
        PROVE  Goal
    BY <1>0, <1>9 DEF Work, BeginCreate, Review, CreateOrder, Link, BeginCapture, Capture, BeginEvent,
                      Mark, BeginReconcile, Fetch, Apply, AskStatus
  <1>10. ASSUME NEW w \in Workers, Throws(w) \/ Crash(w) PROVE Goal
    BY <1>0, <1>10 DEF Throws, Crash
  <1>11. ASSUME NEW w \in Workers, NEW k \in Jobs, Lease(w, k) PROVE Goal
    <2>1. /\ job[k].state # "none"
          /\ \A j \in Jobs : j # k => job'[j] = job[j]
          /\ job'[k].state # "none"
      BY <1>11 DEF Lease, TypeInv, TypeOK, JobType
    <2>2. QED
      BY <2>1, SettledKept, ReversedJob DEF NoEventJob
  <1>12. ASSUME NEW k \in Jobs, Expire(k) PROVE Goal
    <2>1. /\ job[k].state # "none"
          /\ \A j \in Jobs : j # k => job'[j] = job[j]
          /\ job'[k].state # "none"
      BY <1>12 DEF Expire, TypeInv, TypeOK, JobType
    <2>2. QED
      BY <2>1, SettledKept, ReversedJob DEF NoEventJob
  <1>13. QED
    BY <1>1, <1>2, <1>3, <1>4, <1>5, <1>6, <1>7, <1>8, <1>9, <1>10, <1>11, <1>12 DEF Next, Work

\* What a step may do to a worker: it takes a job, or it goes on with the one it
\* has, and arrives at "apply" from "fetch" alone.
GoesOn(w) ==
  /\ at[w] # "idle"
  /\ held'[w] = held[w]
  /\ Fetch(w) \/ at'[w] # "apply" \/ (at'[w] = at[w] /\ seen'[w] = seen[w])

WorkerStep(w) ==
  \/ at'[w] = "idle"
  \/ at'[w] # "apply" /\ \E j \in Jobs : held'[w] = j /\ job'[j].state # "none"
  \/ GoesOn(w)

\* A worker that stands still takes no step of its own.
LEMMA StandsStill ==
  ASSUME TypeInv, NEW w \in Workers, at'[w] = at[w], held'[w] = held[w], seen'[w] = seen[w]
  PROVE  WorkerStep(w)
  BY DEF WorkerStep, GoesOn

\* A step of one worker leaves the others alone.
LEMMA OneWorker ==
  ASSUME TypeInv, NEW x \in Workers, NEW w \in Workers, w # x,
         Work(x) \/ Throws(x) \/ Crash(x) \/ \E j \in Jobs : Lease(x, j)
  PROVE  at'[w] = at[w] /\ held'[w] = held[w] /\ seen'[w] = seen[w]
  <1>1. \E where : at' = [at EXCEPT ![x] = where]
    <2>1. CASE Throws(x) \/ Crash(x) \/ \E j \in Jobs : Lease(x, j)
      BY <2>1 DEF Throws, Crash, Lease, Goto
    <2>2. CASE Done(x) \/ Failed(x)
      BY <2>2 DEF Done, Failed, EndsAs
    <2>3. CASE Capture(x) \/ Link(x)
      BY <2>3 DEF Capture, Link, Goto
    <2>4. CASE \/ BeginCreate(x) \/ BeginCapture(x) \/ BeginEvent(x) \/ BeginReconcile(x)
               \/ Review(x) \/ CreateOrder(x) \/ ApplyApproval(x) \/ Mark(x)
      BY <2>4 DEF BeginCreate, BeginCapture, BeginEvent, BeginReconcile, Review, CreateOrder,
                  ApplyApproval, Mark, Goto
    <2>5. CASE Fetch(x) \/ Apply(x) \/ AskStatus(x) \/ ApplyStatus(x)
      BY <2>5 DEF Fetch, Apply, AskStatus, ApplyStatus, Goto
    <2>6. QED
      BY <2>1, <2>2, <2>3, <2>4, <2>5 DEF Work
  <1>2. held' = held \/ \E job1 : held' = [held EXCEPT ![x] = job1]
    BY DEF Work, Throws, Crash, Lease, Done, Failed, EndsAs, Capture, Link, BeginCreate, BeginCapture,
           BeginEvent, BeginReconcile, Review, CreateOrder, ApplyApproval, Mark, Fetch, Apply, AskStatus,
           ApplyStatus
  <1>3. seen' = seen \/ \E answer : seen' = [seen EXCEPT ![x] = answer]
    BY DEF Work, Throws, Crash, Lease, Done, Failed, EndsAs, Capture, Link, BeginCreate, BeginCapture,
           BeginEvent, BeginReconcile, Review, CreateOrder, ApplyApproval, Mark, Fetch, Apply, AskStatus,
           ApplyStatus
  <1>4. QED
    BY <1>1, <1>2, <1>3 DEF TypeInv, TypeOK

\* Every step of the system is such a step for every worker.
LEMMA WorkerSteps ==
  ASSUME TypeInv, [Next]_vars, NEW w \in Workers
  PROVE  WorkerStep(w)
  <1>1. CASE UNCHANGED worker
    BY <1>1, StandsStill DEF worker
  <1>2. ASSUME NEW x \in Workers, x # w,
               Work(x) \/ Throws(x) \/ Crash(x) \/ \E j \in Jobs : Lease(x, j)
        PROVE  WorkerStep(w)
    BY <1>2, OneWorker, StandsStill
  <1>3. CASE Crash(w) \/ Done(w) \/ Failed(w)
    BY <1>3 DEF Crash, Done, Failed, EndsAs, WorkerStep, TypeInv, TypeOK
  <1>4. ASSUME NEW j \in Jobs, Lease(w, j) PROVE WorkerStep(w)
    <2>1. /\ held'[w] = j
          /\ at'[w] # "apply"
          /\ job'[j].state = "running"
      BY <1>4 DEF Lease, Goto, TypeInv, TypeOK, JobType
    <2>2. QED
      BY <2>1 DEF WorkerStep
  <1>5. CASE Throws(w) \/ (Work(w) /\ ~Done(w) /\ ~Failed(w))
    <2>1. at[w] # "idle" /\ held' = held
      BY <1>5 DEF Throws, Work, Capture, Link, BeginCreate, BeginCapture, BeginEvent, BeginReconcile,
                  Review, CreateOrder, ApplyApproval, Mark, Fetch, Apply, AskStatus, ApplyStatus
    <2>2. CASE Fetch(w)
      BY <2>1, <2>2 DEF WorkerStep, GoesOn
    <2>3. CASE ~Fetch(w)
      <3>1. PICK where \in {"done", "failed", "review", "create", "link", "capture", "approval", "fetch",
                            "flag", "mark", "status", "answer"} : Goto(w, where)
        <4>1. CASE \/ Throws(w) \/ Capture(w) \/ Link(w) \/ Review(w) \/ CreateOrder(w)
                   \/ ApplyApproval(w) \/ Mark(w)
          BY <4>1 DEF Throws, Capture, Link, Review, CreateOrder, ApplyApproval, Mark
        <4>2. CASE BeginCreate(w) \/ BeginCapture(w) \/ BeginEvent(w) \/ BeginReconcile(w)
          BY <4>2 DEF BeginCreate, BeginCapture, BeginEvent, BeginReconcile
        <4>3. CASE Apply(w) \/ AskStatus(w) \/ ApplyStatus(w)
          BY <4>3 DEF Apply, AskStatus, ApplyStatus
        <4>4. QED
          BY <1>5, <2>3, <4>1, <4>2, <4>3 DEF Work
      <3>2. at'[w] # "apply"
        BY <3>1 DEF Goto, TypeInv, TypeOK
      <3>3. QED
        BY <2>1, <3>2 DEF WorkerStep, GoesOn
    <2>4. QED
      BY <2>2, <2>3
  <1>6. ASSUME NEW x \in Workers,
               Work(x) \/ Throws(x) \/ Crash(x) \/ \E j \in Jobs : Lease(x, j)
        PROVE  WorkerStep(w)
    BY <1>2, <1>3, <1>4, <1>5, <1>6
  <1>7. UNCHANGED worker
        \/ \E x \in Workers : Work(x) \/ Throws(x) \/ Crash(x) \/ \E j \in Jobs : Lease(x, j)
    <2>1. CASE UNCHANGED vars
      BY <2>1 DEF vars, worker
    <2>2. CASE Schedule \/ Erase \/ \E j \in Jobs : Expire(j)
      BY <2>2 DEF Schedule, Erase, Expire
    <2>3. ASSUME NEW c \in Checkouts, \/ Checkout(c) \/ RequestCapture(c) \/ Provider(c)
                                      \/ \E e \in Events : AcceptEvent(c, e)
          PROVE  UNCHANGED worker
      BY <2>3 DEF Checkout, RequestCapture, AcceptEvent, Provider, Approve, ReverseApproval, Clear,
                  Reverse, RefundRest, RefundPart, Grow
    <2>4. QED
      BY <2>1, <2>2, <2>3 DEF Next
  <1>8. QED
    BY <1>1, <1>6, <1>7

\* A worker's job stays queued, and a reversal is known only once it happened.
LEMMA NoticeNext ==
  ASSUME TypeInv, RemoteInv, NoticeInv, [Next]_vars
  PROVE  NoticeInv'
  <1>1. JobsKept /\ \A c \in Checkouts : NoEventJob(c) \/ Happened(c, "reversed")
    BY JobSteps
  <1>2. \A c \in Checkouts : Grown(remote[c], remote'[c])
    BY RemoteNext
  <1>3. ASSUME NEW w \in Workers, at'[w] # "idle" PROVE job'[held'[w]].state # "none"
    <2>1. CASE GoesOn(w)
      BY <1>1, <2>1, Working DEF GoesOn, NoticeInv, JobsKept
    <2>2. QED
      BY <1>3, <2>1, WorkerSteps DEF WorkerStep
  <1>4. ASSUME NEW c \in Checkouts, job'[Job("event", c, "reversed")].state # "none"
        PROVE  remote'[c].reversed
    <2>1. CASE Happened(c, "reversed")
      <3>1. remote[c].reversed
        BY <2>1, CommerceAssumption DEF Happened
      <3>2. QED
        BY <1>2, <3>1 DEF Grown
    <2>2. CASE ~Happened(c, "reversed")
      BY <1>1, <1>2, <1>4, <2>2 DEF NoEventJob, NoticeInv, Grown
    <2>3. QED
      BY <2>1, <2>2
  <1>5. QED
    BY <1>3, <1>4 DEF NoticeInv, Job

\* Evidence that was true stays true.
LEMMA KnownKept ==
  ASSUME NEW view, NEW new, NEW ev, Known(view, ev), Grown(view, new)
  PROVE  Known(new, ev)
  BY DEF Known, Grown

\* What is fetched is true.
LEMMA EvidenceKnown ==
  ASSUME TypeInv, RemoteInv, NEW c \in Checkouts, NEW e,
         remote[c].capture # "none",
         e = "reversed" => remote[c].reversed
  PROVE  Known(remote[c], Evidence(c, e))
  <1> DEFINE ev == Evidence(c, e)
             view == remote[c]
  <1>1. view \in Remote /\ Sane(view)
    BY DEF TypeInv, TypeOK, RemoteInv
  <1>2. view.capture \in CaptureState
    BY <1>1 DEF Remote
  <1>3. /\ ev.status = IF e = "reversed" THEN "reversed" ELSE view.capture
        /\ ev.refunded = IF e # "reversed" /\ view.capture = "refunded" THEN PaidMinor ELSE 0
        /\ ev.updatedAt = Rank(view.capture)
        /\ ev.refunds = [r \in Refunds |-> IF r = e THEN view.refunds[r] ELSE "none"]
        /\ ev.sound = view.sound
    BY DEF Evidence
  <1> HIDE DEF ev
  <1>4. /\ ev.status = "reversed" => view.reversed
        /\ ev.status # "reversed" => ev.updatedAt = Rank(ev.status)
    BY <1>2, <1>3 DEF CaptureState
  <1>5. /\ ev.status \in Taken => view.capture \in Taken
        /\ ev.status = "failed" => view.capture = "failed"
        /\ ev.status = "refunded" \/ ev.refunded > 0 => view.capture = "refunded"
    BY <1>2, <1>3 DEF CaptureState, Taken
  <1>6. \A r \in Refunds : ev.refunds[r] = "completed" => view.refunds[r] = "completed"
    BY <1>3
  <1>7. Known(view, ev)
    BY <1>3, <1>4, <1>5, <1>6 DEF Known
  <1>8. QED
    BY <1>7 DEF ev

\* Every step leaves workers with evidence that is true.
LEMMA SeenNext ==
  ASSUME TypeInv, RemoteInv, NoticeInv, SeenInv, [Next]_vars
  PROVE  SeenInv'
  <1> SUFFICES ASSUME NEW w \in Workers, at'[w] = "apply", seen'[w] # Nothing
               PROVE  Known(remote'[held'[w].checkout], seen'[w])
    BY DEF SeenInv, Order
  <1>1. GoesOn(w)
    BY WorkerSteps DEF WorkerStep
  <1>2. held[w] \in Jobs /\ Order(w) \in Checkouts /\ held'[w].checkout = Order(w)
    BY <1>1, Working DEF GoesOn, Order
  <1>3. CASE Fetch(w)
    <2>1. /\ remote' = remote
          /\ seen'[w] = IF remote[Order(w)].capture = "none" THEN Nothing
                        ELSE Evidence(Order(w), held[w].event)
      BY <1>3 DEF Fetch, TypeInv, TypeOK
    <2>2. held[w].event = "reversed" => remote[Order(w)].reversed
      <3>1. held[w].event = "reversed" => held[w] = Job("event", Order(w), "reversed")
        BY <1>2 DEF Jobs, Job, Order
      <3>2. job[held[w]].state # "none"
        BY <1>1 DEF GoesOn, NoticeInv
      <3>3. QED
        BY <1>2, <3>1, <3>2 DEF NoticeInv
    <2>3. QED
      BY <1>2, <2>1, <2>2, EvidenceKnown
  <1>4. CASE at'[w] = at[w] /\ seen'[w] = seen[w]
    <2>1. Known(remote[Order(w)], seen[w])
      BY <1>4 DEF SeenInv
    <2>2. QED
      BY <1>2, <1>4, <2>1, KnownKept, RemoteNext
  <1>5. QED
    BY <1>1, <1>3, <1>4 DEF GoesOn

\* What the service believes stays true while the provider goes on.
LEMMA BelievedKept ==
  ASSUME NEW view \in Remote, NEW new \in Remote, NEW paid, NEW refunds, NEW bought,
         paid.refunded \in Nat,
         Believed(view, paid, refunds, bought), Grown(view, new)
  PROVE  Believed(new, paid, refunds, bought)
  <1>1. Completed(view.refunds) \in Nat /\ Completed(new.refunds) \in Nat /\ PaidMinor \in Nat
    BY CompletedType, CommerceAssumption DEF Remote
  <1>2. Back(view) \in Nat /\ Back(new) \in Nat
    BY <1>1 DEF Back
  <1>3. view.capture \in Taken => view.capture # "none"
    BY DEF Taken
  <1>4. QED
    BY <1>2, <1>3 DEF Believed, Grown

\* Evidence that is true leaves the service with what is true: no refund is
\* counted twice or invented, and a capture once confirmed stays so.
LEMMA EvidenceTrue ==
  ASSUME TypeInv, RemoteInv, BeliefInv, NEW c \in Checkouts, NEW ev \in EvidenceAnswer,
         Known(remote[c], ev)
  PROVE  /\ Valid(c, ev) <=> remote[c].sound
         /\ RefundedAfter(c, ev) <= Back(remote[c])
         /\ \A r \in Refunds : RefundsAfter(c, ev)[r] = "completed" => remote[c].refunds[r] = "completed"
  <1> DEFINE view == remote[c]
  <1>1. view \in Remote /\ Sane(view)
        /\ Believed(view, payment[c], refund[c], purchase[c])
    BY DEF TypeInv, TypeOK, RemoteInv, BeliefInv
  <1>2. view.refunds \in [Refunds -> RefundState] /\ RefundsAfter(c, ev) \in [Refunds -> RefundState]
    BY <1>1, EvidenceType DEF Remote, TypeInv
  <1>3. \A r \in Refunds : RefundsAfter(c, ev)[r] = "completed" => view.refunds[r] = "completed"
    BY <1>1 DEF RefundsAfter, Known, Believed
  <1>4. Completed(RefundsAfter(c, ev)) <= Completed(view.refunds)
    BY <1>2, <1>3, CompletedMore
  <1>5. /\ Completed(RefundsAfter(c, ev)) \in Nat /\ Completed(view.refunds) \in Nat
        /\ PaidMinor \in Nat /\ payment[c].refunded \in Nat /\ ev.refunded \in 0..PaidMinor
    BY <1>2, CompletedType, CommerceAssumption DEF TypeInv, TypeOK, EvidenceAnswer
  <1>6. Completed(view.refunds) <= Back(view) /\ Back(view) <= PaidMinor /\ Back(view) \in Nat
    BY <1>1, <1>5 DEF Sane, Back
  <1>7. ev.refunded <= Back(view) /\ (ev.status = "refunded" => PaidMinor <= Back(view))
    BY <1>5, <1>6 DEF Known, Back
  <1>8. payment[c].refunded <= Back(view)
    BY <1>1 DEF Believed
  <1>9. RefundedAfter(c, ev) <= Back(view) /\ RefundedAfter(c, ev) <= PaidMinor
    BY <1>4, <1>5, <1>6, <1>7, <1>8 DEF RefundedAfter, Larger
  <1>10. Valid(c, ev) <=> view.sound
    BY <1>9 DEF Valid, Known
  <1>11. QED
    BY <1>3, <1>9, <1>10

\* What the state of a payment becomes, for evidence that is true.
LEMMA StateTrue ==
  ASSUME TypeInv, RemoteInv, BeliefInv, NEW c \in Checkouts, NEW ev \in EvidenceAnswer,
         Known(remote[c], ev)
  PROVE  /\ StateAfter(c, ev) \in Confirmed => remote[c].capture \in Taken /\ remote[c].sound
         /\ payment[c].state \in Confirmed => StateAfter(c, ev) \in Confirmed
         /\ payment[c].state \in Terminal => StateAfter(c, ev) \in Terminal
         /\ payment[c].state = "reversed" => StateAfter(c, ev) = "reversed"
         /\ StateAfter(c, ev) = "completed" => Larger(payment[c].updatedAt, ev.updatedAt) >= 2
         /\ StateAfter(c, ev) = "partially_refunded" /\ RefundedAfter(c, ev) = 0
              => Larger(payment[c].updatedAt, ev.updatedAt) >= 3
  <1> DEFINE view == remote[c]
             state == payment[c].state
             refunded == RefundedAfter(c, ev)
             after == StateAfter(c, ev)
  <1>1. view \in Remote /\ Sane(view) /\ Believed(view, payment[c], refund[c], purchase[c])
    BY DEF TypeInv, TypeOK, RemoteInv, BeliefInv
  <1>2. /\ state \in PaymentState /\ payment[c].updatedAt \in 0..4 /\ payment[c].refunded \in Nat
        /\ ev.status \in CaptureState \cup {"reversed"} /\ ev.updatedAt \in 1..4
        /\ refunded \in Nat /\ payment[c].refunded <= refunded /\ PaidMinor \in Nat \ {0}
    BY EvidenceType, CommerceAssumption DEF TypeInv, TypeOK, EvidenceAnswer
  <1>3. Valid(c, ev) <=> view.sound
    BY EvidenceTrue
  <1>4. refunded > 0 => view.capture \in Taken
    <2>1. refunded <= Back(view)
      BY EvidenceTrue
    <2>2. view.capture \notin Taken => Back(view) = 0
      BY <1>1, CompletedNone DEF Sane, Back, Taken
    <2>3. QED
      BY <1>2, <2>1, <2>2
  <1>5. ev.status = "reversed" => view.capture \in Taken
    BY <1>1 DEF Known, Sane
  <1>6. state \in Confirmed => view.capture \in Taken /\ view.sound
    BY <1>1 DEF Believed
  <1>7. CASE ~Valid(c, ev)
    <2>1. state \notin Confirmed
      BY <1>3, <1>6, <1>7
    <2>2. after = "needs_review"
      BY <1>7, <2>1 DEF StateAfter, Confirmed, Terminal
    <2>3. QED
      BY <2>1, <2>2 DEF Confirmed, Terminal
  <1>8. CASE Valid(c, ev) /\ (ev.status = "reversed" \/ state = "reversed")
    <2>1. after = "reversed"
      BY <1>8 DEF StateAfter
    <2>2. QED
      BY <1>3, <1>5, <1>6, <1>8, <2>1 DEF Confirmed, Terminal
  <1>9. CASE Valid(c, ev) /\ ev.status # "reversed" /\ state # "reversed"
    <2> DEFINE was == IF state = "none" THEN "pending" ELSE state
    <2>1. after = IF refunded >= PaidMinor \/ was = "refunded" THEN "refunded"
                  ELSE IF refunded > 0 \/ ev.status = "partially_refunded" THEN "partially_refunded"
                  ELSE IF ev.updatedAt >= payment[c].updatedAt THEN ev.status
                  ELSE was
      BY <1>9 DEF StateAfter
    <2>2. ev.updatedAt = Rank(ev.status)
      BY <1>9 DEF Known
    <2>3. /\ ev.status = "pending" => ev.updatedAt = 1
          /\ ev.status \in {"completed", "failed"} => ev.updatedAt = 2
          /\ ev.status = "partially_refunded" => ev.updatedAt = 3
      BY <2>2 DEF Rank
    <2>4. state \in Confirmed => ev.status # "failed"
      BY <1>6 DEF Known, Taken
    <2>5. after \in Confirmed => view.capture \in Taken /\ view.sound
      BY <1>2, <1>3, <1>4, <1>6, <1>9, <2>1 DEF Known, Confirmed, Taken, CaptureState
    <2>6. state = "completed" => payment[c].updatedAt >= 2
      BY <1>1 DEF Believed
    <2>7. state = "partially_refunded" /\ refunded = 0 => payment[c].updatedAt >= 3
      <3>1. refunded = 0 => payment[c].refunded = 0
        BY <1>2
      <3>2. QED
        BY <1>1, <3>1 DEF Believed
    <2>8. state \in Confirmed => after \in Confirmed
      BY <1>2, <1>9, <2>1, <2>3, <2>4, <2>6, <2>7 DEF Confirmed, CaptureState
    <2>9. state \in Terminal => after \in Terminal
      BY <1>9, <2>1 DEF Terminal
    <2>10. after = "completed" => Larger(payment[c].updatedAt, ev.updatedAt) >= 2
      BY <1>2, <2>1, <2>3, <2>6 DEF Larger
    <2>11. after = "partially_refunded" /\ refunded = 0 => Larger(payment[c].updatedAt, ev.updatedAt) >= 3
      BY <1>2, <2>1, <2>3, <2>7 DEF Larger
    <2>12. QED
      BY <1>9, <2>5, <2>8, <2>9, <2>10, <2>11
  <1>10. QED
    BY <1>7, <1>8, <1>9

Forward(c) ==
  /\ payment[c].state \in Terminal => payment'[c].state \in Terminal
  /\ payment[c].state = "reversed" => payment'[c].state = "reversed"
  /\ payment[c].refunded <= payment'[c].refunded
  /\ payment[c].state \in Confirmed => payment'[c].state \in Confirmed

\* Every step leaves the service with what is true, and forgets nothing.
LEMMA BeliefNext ==
  ASSUME TypeInv, RemoteInv, SeenInv, BeliefInv, [Next]_vars
  PROVE  BeliefInv' /\ \A c \in Checkouts : Forward(c)
  <1>1. TypeOK /\ TypeOK' /\ \A c \in Checkouts : Grown(remote[c], remote'[c])
    BY TypeNext, RemoteNext DEF TypeInv
  <1>2. ASSUME NEW c \in Checkouts,
               payment'[c] = payment[c], refund'[c] = refund[c], purchase'[c] = purchase[c]
        PROVE  Believed(remote'[c], payment'[c], refund'[c], purchase'[c]) /\ Forward(c)
    <2>1. remote[c] \in Remote /\ remote'[c] \in Remote /\ payment[c].refunded \in Nat
      BY <1>1 DEF TypeOK
    <2>2. Believed(remote'[c], payment[c], refund[c], purchase[c])
      BY <1>1, <2>1, BelievedKept DEF BeliefInv
    <2>3. QED
      BY <1>2, <2>1, <2>2 DEF Forward
  <1>3. CASE UNCHANGED <<payment, refund, purchase>>
    BY <1>2, <1>3 DEF BeliefInv
  <1>4. ASSUME NEW w \in Workers, Applies(w)
        PROVE  BeliefInv' /\ \A c \in Checkouts : Forward(c)
    <2> DEFINE c == Order(w)
               ev == seen[w]
    <2>1. c \in Checkouts /\ ev \in EvidenceAnswer /\ Known(remote[c], ev)
      BY <1>4 DEF Applies, SeenInv
    <2>2. /\ refund' = [refund EXCEPT ![c] = RefundsAfter(c, ev)]
          /\ payment' = [payment EXCEPT ![c] =
               [state |-> StateAfter(c, ev), refunded |-> RefundedAfter(c, ev),
                updatedAt |-> Larger(payment[c].updatedAt, ev.updatedAt)]]
          /\ purchase' = [purchase EXCEPT ![c] = AccessAfter(purchase[c], c, ev)]
          /\ remote' = remote
      BY <1>4 DEF Applies, Evidenced
    <2>3. /\ payment'[c].state = StateAfter(c, ev)
          /\ payment'[c].refunded = RefundedAfter(c, ev)
          /\ payment'[c].updatedAt = Larger(payment[c].updatedAt, ev.updatedAt)
          /\ refund'[c] = RefundsAfter(c, ev)
          /\ purchase'[c] = AccessAfter(purchase[c], c, ev)
      BY <1>1, <2>1, <2>2 DEF TypeOK
    <2>4. Believed(remote[c], payment[c], refund[c], purchase[c])
      BY <2>1 DEF BeliefInv
    <2>5. Forward(c)
      BY <1>1, <2>1, <2>3, StateTrue, EvidenceType DEF Forward
    <2>6. Believed(remote'[c], payment'[c], refund'[c], purchase'[c])
      <3>1. /\ payment'[c].state \in Confirmed => remote[c].capture \in Taken /\ remote[c].sound
            /\ payment'[c].state = "completed" => payment'[c].updatedAt >= 2
            /\ payment'[c].state = "partially_refunded" /\ payment'[c].refunded = 0
                 => payment'[c].updatedAt >= 3
        BY <2>1, <2>3, StateTrue
      <3>2. purchase'[c] # "none" => remote[c].capture \in Taken /\ remote[c].sound
        <4>1. CASE purchase[c] # "none"
          BY <2>4, <4>1 DEF Believed
        <4>2. CASE purchase[c] = "none" /\ purchase'[c] # "none"
          <5>1. Buys(c, ev)
            BY <2>3, <4>2 DEF AccessAfter
          <5>2. payment'[c].state \in Confirmed
            BY <2>3, <5>1 DEF Buys, Confirmed
          <5>3. QED
            BY <3>1, <5>2
        <4>3. QED
          BY <4>1, <4>2
      <3>3. /\ payment'[c].refunded <= Back(remote[c])
            /\ \A r \in Refunds : refund'[c][r] = "completed" => remote[c].refunds[r] = "completed"
        BY <2>1, <2>3, EvidenceTrue
      <3>4. QED
        BY <2>2, <3>1, <3>2, <3>3 DEF Believed
    <2>7. ASSUME NEW x \in Checkouts, x # c
          PROVE  Believed(remote'[x], payment'[x], refund'[x], purchase'[x]) /\ Forward(x)
      <3>1. payment'[x] = payment[x] /\ refund'[x] = refund[x] /\ purchase'[x] = purchase[x]
        BY <1>1, <2>2, <2>7 DEF TypeOK
      <3>2. QED
        BY <1>2, <3>1
    <2>8. QED
      BY <2>5, <2>6, <2>7 DEF BeliefInv
  <1>5. QED
    BY <1>3, <1>4, MoneySteps DEF money, Erase

\* At first nothing is known, and nothing wrong.
LEMMA EvidenceInit == Init => EvidenceInv
  <1> SUFFICES ASSUME Init PROVE EvidenceInv
    OBVIOUS
  <1>1. Completed(NoRefunds) = 0 /\ PaidMinor \in Nat \ {0}
    BY CompletedNone, CommerceAssumption DEF NoRefunds
  <1>2. RemoteInv
    BY <1>1 DEF Init, RemoteInv, Sane, NoRefunds
  <1>3. NoticeInv
    BY ReversedJob DEF Init, NoticeInv
  <1>4. SeenInv
    BY DEF Init, SeenInv
  <1>5. BeliefInv
    <2>1. ASSUME NEW c \in Checkouts
          PROVE  /\ payment[c].state = "none" /\ payment[c].refunded = 0
                 /\ purchase[c] = "none" /\ Back(remote[c]) = 0
                 /\ \A r \in Refunds : refund[c][r] # "completed"
      BY <1>1 DEF Init, Back, NoRefunds
    <2>2. QED
      BY <2>1 DEF BeliefInv, Believed, Confirmed, CaptureState
  <1>6. QED
    BY <1>2, <1>3, <1>4, <1>5 DEF EvidenceInv

\* Every step keeps what is known of the provider true.
LEMMA EvidenceNext == TypeInv /\ EvidenceInv /\ [Next]_vars => EvidenceInv'
  BY RemoteNext, NoticeNext, SeenNext, BeliefNext DEF EvidenceInv

\* So the service never believes what was not so.
LEMMA EvidenceAlways == Spec => []EvidenceInv
  BY TypeAlways, EvidenceInit, EvidenceNext, PTL DEF Spec

\* Nothing is given for a payment that was not taken or does not fit: no order
\* of approvals, captures and evidence leads to a purchase without its money.
THEOREM PaidAccess == Spec => []AccessWasPaid
  <1>1. EvidenceInv => AccessWasPaid
    BY DEF EvidenceInv, BeliefInv, Believed, AccessWasPaid, Taken
  <1>2. QED
    BY <1>1, EvidenceAlways, PTL

\* However often and late refunds are told, the service counts no more of them
\* than the provider made.
THEOREM RealRefunds == Spec => []RefundsAreReal
  <1>1. EvidenceInv => RefundsAreReal
    BY DEF EvidenceInv, BeliefInv, Believed, RefundsAreReal, Returned, Back
  <1>2. QED
    BY <1>1, EvidenceAlways, PTL

\* A delayed answer never undoes what is known of a payment.
THEOREM PaymentsGoForward == Spec => PaymentForward
  <1>1. TypeInv /\ EvidenceInv /\ [Next]_vars => [\A c \in Checkouts : Forward(c)]_vars
    BY BeliefNext DEF EvidenceInv
  <1>2. QED
    BY <1>1, TypeAlways, EvidenceAlways, PTL DEF Spec, PaymentForward, Forward

=============================================================================
