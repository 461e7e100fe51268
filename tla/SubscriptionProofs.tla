-------------------------- MODULE SubscriptionProofs --------------------------
(***************************************************************************)
(* Theorems about Subscription, for any users, subscriptions, processes    *)
(* and bounds.                                                             *)
(***************************************************************************)
EXTENDS Subscription, FiniteSetTheorems, TLAPS

-----------------------------------------------------------------------------
\* The operators a task is built from stay within the types.

\* Every process starts out idle, and Idle is a task.
LEMMA IdleType == Idle \in Task /\ NoCause \in Cause
<1>1. AnySub \in Subs
  BY ConstantsAssumption DEF AnySub
<1>2. NoSub \in StripeSub /\ NoRow \in Row
  BY DEF NoSub, StripeSub, StripeStatus, NoRow, Row, SubscriptionStatus
<1>3. NoCause \in Cause
  BY <1>1, <1>2 DEF NoCause, Cause
<1> QED
  BY <1>1, <1>2, <1>3 DEF Idle, Task, Step

\* Moving a task to another step.
LEMMA AtType == ASSUME NEW t \in Task, NEW pc \in Step
                PROVE  At(t, pc) \in Task
BY DEF At, Task

\* Reading a row into a task.
LEMMA WithRowType == ASSUME TypeOK, NEW t \in Task
                     PROVE  /\ WithRow(t) \in Task
                            /\ WithRow(t).sub = t.sub
<1>1. t.sub \in Subs /\ rows[t.sub] \in Row
  BY DEF Task, TypeOK
<1>2. Exists(t.sub) \in BOOLEAN
  BY DEF Exists
<1> QED
  BY <1>1, <1>2 DEF WithRow, Task

\* Preparing an update.
LEMMA WritingType == ASSUME NEW t \in Task, NEW set \in SUBSET Field, NEW body \in Row
                     PROVE  Writing(t, set, body) \in Task
BY DEF Writing, Task, Step

\* The period view of a Stripe subscription is one.
LEMMA PeriodViewType == ASSUME NEW snap \in StripeSub, NEW legacy
                        PROVE  PeriodView(snap, legacy) \in StripeSub
BY ConstantsAssumption DEF PeriodView, StripeSub

\* Every Stripe status maps to a status of the entity.
LEMMA MapStatusType == ASSUME NEW st PROVE MapStatus(st) \in SubscriptionStatus
BY DEF MapStatus, SubscriptionStatus

\* A row made from a Stripe subscription is a row.
LEMMA RowFromType == ASSUME NEW snap \in StripeSub PROVE RowFrom(snap) \in Row
BY MapStatusType DEF RowFrom, StripeSub, Row

\* A save yields a row, and each of its columns is the row's or the body's.
LEMMA SavedType ==
  ASSUME NEW row \in Row, NEW seen \in Row, NEW body \in Row, NEW set \in SUBSET Field
  PROVE  /\ Saved(row, seen, body, set) \in Row
         /\ Saved(row, seen, body, set).end \in {row.end, body.end}
         /\ "end" \notin set => Saved(row, seen, body, set).end = row.end
BY DEF Saved, Row

\* The events Stripe emits are events.
LEMMA EmitType ==
  ASSUME TypeOK, NEW s \in Subs, NEW kinds \in Seq(EventKind), NEW snap \in StripeSub,
         Emit(s, kinds, snap)
  PROVE  pending' \subseteq Event /\ sent' \in Nat
<1>1. \A i \in DOMAIN kinds : kinds[i] \in EventKind /\ i \in Nat
  OBVIOUS
<1> QED
  BY <1>1 DEF Emit, TypeOK, Event

\* What follows an update, or a failed call, is a task.
LEMMA AfterType == ASSUME NEW t \in Task
                   PROVE  /\ AfterUpdate(t) \in Task
                          /\ Marking(t) \in Task
                          /\ AfterFailure(t) \in Task
<1>1. AfterUpdate(t) \in Task
  BY IdleType, AtType DEF AfterUpdate, Step
<1>2. Marking(t) \in Task
  <2>1. [t.old EXCEPT !.notified = TRUE] \in Row /\ {"notified"} \subseteq Field
    BY DEF Task, Row, Field
  <2> QED BY <2>1, WritingType DEF Marking
<1>3. AfterFailure(t) \in Task
  BY <1>1, <1>2, IdleType, AtType DEF AfterFailure, Step
<1> QED BY <1>1, <1>2, <1>3

\* The rank of the next row is a positive number.
LEMMA RankType == NextRank \in Nat /\ NextRank > 0
<1>1. IsFiniteSet({s \in Subs : Exists(s)})
  BY ConstantsAssumption, FS_Subset
<1>2. Cardinality({s \in Subs : Exists(s)}) \in Nat
  BY <1>1, FS_CardinalityType
<1> QED
  BY <1>2 DEF NextRank

\* A step of one process leaves the other tasks alone.
LEMMA GotoType == ASSUME TypeOK, NEW p \in Procs, NEW t \in Task, Goto(p, t)
                  PROVE  task' \in [Procs -> Task]
BY DEF Goto, TypeOK

-----------------------------------------------------------------------------
\* Type correctness.

\* A busy worker holds an event of Stripe: what a crash puts back in the queue.
WorkerHoldsEvent == \A h \in Workers : Busy(h) => task[h].ev \in Event

USE DEF stripeVars, queueVars, dbVars, mailVars

\* The steps of Stripe keep the types.
LEMMA StripeType == TypeOK /\ StripeStep => TypeOK'
<1> SUFFICES ASSUME TypeOK, NEW s \in Subs,
                    \/ StripeBegins(s) \/ StripeRenews(s) \/ StripePaymentFails(s)
                    \/ StripeRecovers(s) \/ StripeEnds(s) \/ StripeRefunds(s)
             PROVE  TypeOK'
  BY DEF StripeStep
<1>1. ASSUME NEW new \in StripeSub, NEW kinds \in Seq(EventKind),
             StripeChange(s, new, kinds)
      PROVE  TypeOK'
  BY <1>1, EmitType DEF StripeChange, TypeOK
<1>2. stripe[s] \in StripeSub /\ stripe[s].end + Period \in Nat
  <2>1. stripe[s] \in StripeSub /\ Period \in Nat
    BY ConstantsAssumption DEF TypeOK
  <2> QED BY <2>1 DEF StripeSub
<1>3. /\ <<"updated", "invoice_paid">> \in Seq(EventKind)
      /\ <<"updated", "payment_failed">> \in Seq(EventKind)
      /\ <<"deleted">> \in Seq(EventKind) /\ <<"refunded">> \in Seq(EventKind)
      /\ <<"created", "checkout", "invoice_paid">> \in Seq(EventKind)
  BY DEF EventKind
<1>4. CASE StripeBegins(s)
  <2>1. PICK st \in {"active", "trialing"} :
          LET new == [status |-> st, anchor |-> now, end |-> now + Period,
                      cape |-> FALSE] IN
          /\ stripe' = [stripe EXCEPT ![s] = new]
          /\ Emit(s, <<"created", "checkout", "invoice_paid">>, new)
    BY <1>4 DEF StripeBegins
  <2> DEFINE new == [status |-> st, anchor |-> now, end |-> now + Period,
                     cape |-> FALSE]
  <2>2. new \in StripeSub
    BY ConstantsAssumption DEF TypeOK, StripeSub, StripeStatus
  <2>3. pending' \subseteq Event /\ sent' \in Nat
    BY <1>3, <2>1, <2>2, EmitType
  <2>4. sessions' \in [Users -> Nat]
    <3>1. Owner[s] \in Users
      BY ConstantsAssumption
    <3>2. sessions[Owner[s]] \in Nat /\ sessions[Owner[s]] > 0
      BY <1>4, <3>1 DEF StripeBegins, TypeOK
    <3> QED BY <1>4, <3>1, <3>2 DEF StripeBegins, TypeOK
  <2> QED BY <1>4, <2>1, <2>2, <2>3, <2>4 DEF StripeBegins, TypeOK
<1>5. CASE StripeRenews(s)
  <2>1. [stripe[s] EXCEPT !.status = "active", !.end = @ + Period] \in StripeSub
    BY <1>2 DEF StripeSub, StripeStatus
  <2> QED BY <1>1, <1>3, <1>5, <2>1 DEF StripeRenews
<1>6. CASE StripePaymentFails(s)
  <2>1. [stripe[s] EXCEPT !.status = "past_due", !.end = @ + Period] \in StripeSub
    BY <1>2 DEF StripeSub, StripeStatus
  <2> QED BY <1>1, <1>3, <1>6, <2>1 DEF StripePaymentFails
<1>7. CASE StripeRecovers(s)
  <2>1. [stripe[s] EXCEPT !.status = "active"] \in StripeSub
    BY <1>2 DEF StripeSub, StripeStatus
  <2> QED BY <1>1, <1>3, <1>7, <2>1 DEF StripeRecovers
<1>8. CASE StripeEnds(s)
  <2>1. [stripe[s] EXCEPT !.status = "canceled"] \in StripeSub
    BY <1>2 DEF StripeSub, StripeStatus
  <2> QED BY <1>1, <1>3, <1>8, <2>1 DEF StripeEnds
<1>9. CASE StripeRefunds(s)
  BY <1>1, <1>2, <1>3, <1>9 DEF StripeRefunds
<1> QED
  BY <1>4, <1>5, <1>6, <1>7, <1>8, <1>9

\* Handing an event to a worker keeps the types.
LEMMA DeliverType == ASSUME TypeOK, NEW h \in Workers, NEW e \in pending, Deliver(h, e)
                     PROVE  TypeOK'
<1> DEFINE t == [Idle EXCEPT !.pc = "start", !.ev = e, !.sub = e.sub,
                             !.snap = PeriodView(e.snap, HookLegacy)]
<1>1. e \in Event /\ e \in Cause /\ e.sub \in Subs /\ e.snap \in StripeSub
  BY DEF TypeOK, Event, Cause
<1>2. t \in Task
  BY <1>1, IdleType, PeriodViewType DEF Task, Step
<1>3. task' \in [Procs -> Task]
  BY <1>2, GotoType DEF Deliver, Procs
<1>4. pending' \subseteq Event /\ faults' \in [dup: Nat, fail: Nat, crash: Nat]
  BY DEF Deliver, TypeOK
<1> QED
  BY <1>3, <1>4 DEF Deliver, TypeOK

\* A handler that continues as a task keeps the types.
LEMMA HandleType == ASSUME TypeOK, NEW h \in Workers, NEW kind, NEW t \in Task,
                           Handle(h, kind, t)
                    PROVE  TypeOK'
<1>1. task' \in [Procs -> Task]
  BY GotoType DEF Handle, Procs
<1> QED
  BY <1>1 DEF Handle, TypeOK

\* The steps of a handler keep the types.
LEMMA HandlerType == ASSUME TypeOK, NEW h \in Workers, HandlerStep(h)
                     PROVE  TypeOK'
<1> DEFINE t == task[h]
           w == WithRow(t)
<1>1. t \in Task /\ t.snap \in StripeSub /\ t.sub \in Subs /\ t.old \in Row
  BY DEF TypeOK, Procs, Task
<1>2. w \in Task /\ w.sub \in Subs /\ w.snap \in StripeSub /\ w.old \in Row
  BY <1>1, WithRowType DEF Task
<1>3. {"status", "billing", "end", "cape"} \in SUBSET Field
  BY DEF Field
<1>4. CASE SubscriptionCreated(h)
  <2>1. FindThenCreate(t) \in Task
    BY <1>1, IdleType, AtType DEF FindThenCreate, Step
  <2> QED BY <1>4, <2>1, HandleType DEF SubscriptionCreated
<1>5. CASE CheckoutCompleted(h)
  <2>1. PeriodView(stripe[t.sub], FetchLegacy) \in StripeSub
    BY <1>1, PeriodViewType DEF TypeOK
  <2>2. [At(t, "find") EXCEPT !.snap = PeriodView(stripe[t.sub], FetchLegacy)] \in Task
    BY <1>1, <2>1, AtType DEF Task, Step
  <2> QED BY <1>5, <2>2, HandleType DEF CheckoutCompleted
<1>6. CASE SubscriptionUpdated(h)
  <2>1. [RowFrom(w.snap) EXCEPT !.notified = w.old.notified] \in Row
    BY <1>2, RowFromType DEF Row
  <2>2. At(w, "find") \in Task
    BY <1>2, AtType DEF Step
  <2>3. Writing(w, {"status", "billing", "end", "cape"},
                [RowFrom(w.snap) EXCEPT !.notified = w.old.notified]) \in Task
    BY <1>2, <1>3, <2>1, WritingType
  <2> QED BY <1>6, <2>2, <2>3, HandleType DEF SubscriptionUpdated
<1>7. CASE SubscriptionDeleted(h)
  <2>1. [w.old EXCEPT !.status = "cancelled", !.billing = "canceled", !.cape = FALSE] \in Row
    BY <1>2 DEF Row, SubscriptionStatus, StripeStatus
  <2>2. Writing(w, {"status", "billing", "cape"},
                [w.old EXCEPT !.status = "cancelled", !.billing = "canceled",
                              !.cape = FALSE]) \in Task
    BY <1>2, <1>3, <2>1, WritingType DEF Field
  <2> QED BY <1>7, <2>2, IdleType, HandleType DEF SubscriptionDeleted
<1>8. CASE InvoicePaid(h)
  BY <1>2, <1>8, IdleType, AtType, HandleType DEF InvoicePaid, Step
<1>9. CASE InvoicePaymentFailed(h)
  BY <1>2, <1>9, IdleType, AtType, HandleType DEF InvoicePaymentFailed, Step
<1>10. CASE ChargeRefunded(h)
  <2>1. CASE Handle(h, "refunded", Idle)
    BY <2>1, IdleType, HandleType
  <2>2. ASSUME NEW s \in Subs,
               LET r == WithRow([t EXCEPT !.sub = s]) IN
               Handle(h, "refunded",
                      IF r.old.status # "active" THEN Idle
                      ELSE Writing(r, {"status"}, [r.old EXCEPT !.status = "cancelled"]))
        PROVE  TypeOK'
    <3> DEFINE r == WithRow([t EXCEPT !.sub = s])
    <3>1. r \in Task /\ r.old \in Row
      <4>1. [t EXCEPT !.sub = s] \in Task
        BY <1>1 DEF Task
      <4> QED BY <4>1, WithRowType DEF Task
    <3>2. [r.old EXCEPT !.status = "cancelled"] \in Row /\ {"status"} \in SUBSET Field
      BY <3>1 DEF Row, SubscriptionStatus, Field
    <3>3. Writing(r, {"status"}, [r.old EXCEPT !.status = "cancelled"]) \in Task
      BY <3>1, <3>2, WritingType
    <3> QED BY <2>2, <3>3, IdleType, HandleType
  <2> QED BY <1>10, <2>1, <2>2 DEF ChargeRefunded, RowsOf
<1>11. CASE FetchSubscription(h)
  <2> DEFINE live == PeriodView(stripe[t.sub], FetchLegacy)
             paid == [t.old EXCEPT !.status = "active", !.billing = "active",
                                   !.end = live.end]
             failed == [t.old EXCEPT
                          !.status = IF live.status = "past_due" THEN "expired" ELSE @,
                          !.billing = live.status]
  <2>1. live \in StripeSub
    BY <1>1, PeriodViewType DEF TypeOK
  <2>2. paid \in Row
    BY <1>1, <2>1 DEF Row, SubscriptionStatus, StripeStatus, StripeSub
  <2>3. failed \in Row
    BY <1>1, <2>1 DEF Row, SubscriptionStatus, StripeSub
  <2>4. [t EXCEPT !.snap = live] \in Task
    BY <1>1, <2>1 DEF Task
  <2>5. [t EXCEPT !.pc = "find", !.snap = live] \in Task
    BY <1>1, <2>1 DEF Task, Step
  <2>6. /\ Writing(t, {"status", "billing"}, failed) \in Task
        /\ Writing([t EXCEPT !.snap = live], {"status", "billing", "end"}, paid) \in Task
    BY <1>1, <2>2, <2>3, <2>4, WritingType DEF Field
  <2>7. task' \in [Procs -> Task]
    BY <1>11, <2>5, <2>6, IdleType, GotoType DEF FetchSubscription, Procs
  <2> QED BY <1>11, <2>7 DEF FetchSubscription, TypeOK
<1>12. CASE FindBeforeCreate(h)
  <2>1. FindThenCreate(t) \in Task
    BY <1>1, IdleType, AtType DEF FindThenCreate, Step
  <2>2. task' \in [Procs -> Task]
    BY <1>12, <2>1, GotoType DEF FindBeforeCreate, Procs
  <2> QED BY <1>12, <2>2 DEF FindBeforeCreate, TypeOK
<1>13. CASE CreateRow(h)
  <2>1. task' \in [Procs -> Task]
    BY <1>1, <1>13, IdleType, AtType, GotoType DEF CreateRow, Procs, Step
  <2>2. rows' \in [Subs -> Row]
    BY <1>1, <1>13, RowFromType DEF CreateRow, TypeOK
  <2>3. born' \in [Subs -> Nat]
    BY <1>1, <1>13, RankType DEF CreateRow, TypeOK
  <2> QED BY <1>13, <2>1, <2>2, <2>3 DEF CreateRow, TypeOK
<1>14. CASE SendCreatedMail(h)
  <2>1. task' \in [Procs -> Task]
    BY <1>14, IdleType, GotoType DEF SendCreatedMail, Procs
  <2> QED BY <1>1, <1>14, <2>1 DEF SendCreatedMail, TypeOK
<1>15. CASE SendCancelledMail(h)
  <2>1. task' \in [Procs -> Task]
    BY <1>15, IdleType, GotoType DEF SendCancelledMail, Procs
  <2> QED BY <1>1, <1>15, <2>1 DEF SendCancelledMail, TypeOK
<1> QED
  BY <1>4, <1>5, <1>6, <1>7, <1>8, <1>9, <1>10, <1>11, <1>12, <1>13, <1>14, <1>15
  DEF HandlerStep

\* The two halves of an update keep the types.
LEMMA UpdateType == ASSUME TypeOK, NEW p \in Procs, UpdateStep(p) PROVE TypeOK'
<1> DEFINE t == task[p]
<1>1. t \in Task /\ t.sub \in Subs /\ rows[t.sub] \in Row
  BY DEF TypeOK, Task
<1>2. CASE UpdateRead(p)
  <2>1. [t EXCEPT !.pc = "save", !.seen = rows[t.sub]] \in Task
    BY <1>1 DEF Task, Step
  <2>2. task' \in [Procs -> Task]
    BY <1>2, <2>1, GotoType DEF UpdateRead
  <2> QED BY <1>2, <2>2 DEF UpdateRead, TypeOK
<1>3. CASE UpdateSave(p)
  <2>1. task' \in [Procs -> Task]
    BY <1>1, <1>3, AfterType, GotoType DEF UpdateSave
  <2>2. Saved(rows[t.sub], t.seen, t.body, t.set) \in Row
    BY <1>1, SavedType DEF Task
  <2>3. rows' \in [Subs -> Row]
    BY <1>1, <1>3, <2>2 DEF UpdateSave, TypeOK
  <2> QED BY <1>3, <2>1, <2>3 DEF UpdateSave, TypeOK
<1> QED
  BY <1>2, <1>3 DEF UpdateStep

\* The expiry warning keeps the types.
LEMMA ExpiringType == ASSUME TypeOK, NEW p \in Procs, SendExpiringMail(p) PROVE TypeOK'
<1>1. task[p] \in Task /\ task[p].sub \in Subs
  BY DEF TypeOK, Task
<1>2. task' \in [Procs -> Task]
  BY <1>1, AfterType, GotoType DEF SendExpiringMail
<1> QED
  BY <1>1, <1>2 DEF SendExpiringMail, TypeOK

\* User requests keep the types.
LEMMA RequestType == ASSUME TypeOK, RequestStep PROVE TypeOK'
<1>1. CASE \E u \in Users : Checkout(u)
  BY <1>1 DEF Checkout, TypeOK
<1>2. ASSUME NEW r \in Requests, NEW s \in Subs, NEW kind \in RequestKind,
             StartRequest(r, s, kind)
      PROVE  TypeOK'
  <2> DEFINE t == [Idle EXCEPT !.pc = "stripe", !.ev.kind = kind, !.sub = s]
  <2>1. t \in Task
    <3>1. Idle \in Task /\ Idle.ev \in Cause
      BY IdleType DEF Task
    <3>2. [Idle.ev EXCEPT !.kind = kind] \in Cause
      BY <3>1 DEF Cause
    <3>3. t = [Idle EXCEPT !.pc = "stripe", !.ev = [Idle.ev EXCEPT !.kind = kind],
                           !.sub = s]
      BY DEF Idle
    <3> QED BY <3>1, <3>2, <3>3 DEF Task, Step
  <2>2. task' \in [Procs -> Task]
    BY <1>2, <2>1, WithRowType, GotoType DEF StartRequest, Procs
  <2> QED BY <1>2, <2>2 DEF StartRequest, TypeOK
<1>3. ASSUME NEW r \in Requests, RequestStripe(r)
      PROVE  TypeOK'
  <2> DEFINE t == task[r]
             want == t.ev.kind = "cancel"
  <2>1. t \in Task /\ t.sub \in Subs /\ t.old \in Row /\ stripe[t.sub] \in StripeSub
    BY DEF TypeOK, Procs, Task
  <2>2. want \in BOOLEAN
    OBVIOUS
  <2>3. /\ <<"deleted">> \in Seq(EventKind) /\ <<"updated">> \in Seq(EventKind)
    BY DEF EventKind
  <2>4. CASE ~Live(t.sub) /\ Goto(r, Idle) /\ UNCHANGED <<stripe, queueVars>>
    <3>1. task' \in [Procs -> Task]
      BY <2>4, IdleType, GotoType DEF Procs
    <3> QED BY <1>3, <2>4, <3>1 DEF RequestStripe, TypeOK
  <2>5. CASE /\ Live(t.sub) /\ t.ev.kind = "cancel_now"
             /\ stripe' = [stripe EXCEPT ![t.sub].status = "canceled"]
             /\ Emit(t.sub, <<"deleted">>, stripe'[t.sub])
             /\ Goto(r, Idle)
    <3>1. stripe' \in [Subs -> StripeSub]
      BY <2>1, <2>5 DEF TypeOK, StripeSub, StripeStatus
    <3>2. pending' \subseteq Event /\ sent' \in Nat
      BY <2>1, <2>3, <2>5, <3>1, EmitType
    <3>3. task' \in [Procs -> Task]
      BY <2>5, IdleType, GotoType DEF Procs
    <3> QED BY <1>3, <3>1, <3>2, <3>3 DEF RequestStripe, TypeOK
  <2>6. CASE /\ Live(t.sub) /\ t.ev.kind # "cancel_now"
             /\ stripe' = [stripe EXCEPT ![t.sub].cape = want]
             /\ IF stripe[t.sub].cape = want THEN UNCHANGED queueVars
                ELSE Emit(t.sub, <<"updated">>, stripe'[t.sub])
             /\ Goto(r, Writing(t, {"cape"}, [t.old EXCEPT !.cape = want]))
    <3> HIDE DEF want
    <3>1. stripe' \in [Subs -> StripeSub]
      BY <2>1, <2>2, <2>6 DEF TypeOK, StripeSub
    <3>2. pending' \subseteq Event /\ sent' \in Nat
      BY <2>1, <2>3, <2>6, <3>1, EmitType DEF TypeOK
    <3>3. [t.old EXCEPT !.cape = want] \in Row /\ {"cape"} \in SUBSET Field
      BY <2>1, <2>2 DEF Row, Field
    <3>4. task' \in [Procs -> Task]
      BY <2>1, <2>6, <3>3, WritingType, GotoType DEF Procs
    <3> QED BY <1>3, <3>1, <3>2, <3>4 DEF RequestStripe, TypeOK
  <2> QED
    BY <1>3, <2>4, <2>5, <2>6 DEF RequestStripe
<1> QED
  BY <1>1, <1>2, <1>3 DEF RequestStep

\* The nightly jobs keep the types.
LEMMA CronType == ASSUME TypeOK, NEW c \in Crons, CronStep(c) PROVE TypeOK'
<1>1. CASE CronList(c)
  <2>1. PICK page \in SUBSET {s \in Subs : ExpiringSoon(s)} :
               todo' = [todo EXCEPT ![c] = page]
    BY <1>1 DEF CronList
  <2>2. todo' \in [Crons -> SUBSET Subs]
    BY <2>1 DEF TypeOK
  <2> QED BY <1>1, <2>2 DEF CronList, TypeOK
<1>2. ASSUME NEW s \in Subs, CronNext(c, s)
      PROVE  TypeOK'
  <2> DEFINE t == [Idle EXCEPT !.pc = "notice", !.ev.kind = "cron", !.sub = s]
  <2>1. t \in Task
    <3>1. Idle \in Task /\ Idle.ev \in Cause
      BY IdleType DEF Task
    <3>2. [Idle.ev EXCEPT !.kind = "cron"] \in Cause
      BY <3>1 DEF Cause
    <3>3. t = [Idle EXCEPT !.pc = "notice", !.ev = [Idle.ev EXCEPT !.kind = "cron"],
                           !.sub = s]
      BY DEF Idle
    <3> QED BY <3>1, <3>2, <3>3 DEF Task, Step
  <2>2. task' \in [Procs -> Task]
    BY <1>2, <2>1, WithRowType, GotoType DEF CronNext, Procs
  <2>3. todo' \in [Crons -> SUBSET Subs]
    BY <1>2 DEF CronNext, TypeOK
  <2> QED BY <1>2, <2>2, <2>3 DEF CronNext, TypeOK
<1> QED
  BY <1>1, <1>2 DEF CronStep

\* So does the bulk update.
LEMMA MarkExpiredType == ASSUME TypeOK, MarkExpired PROVE TypeOK'
<1>1. \A s \in Subs : [rows[s] EXCEPT !.status = "expired"] \in Row /\ rows[s] \in Row
  BY DEF TypeOK, Row, SubscriptionStatus
<1>2. rows' \in [Subs -> Row]
  BY <1>1 DEF MarkExpired
<1> QED
  BY <1>2 DEF MarkExpired, TypeOK

\* A failed call and a crash keep the types: the event a dying worker gives
\* back is one it was given.
LEMMA FaultType == ASSUME TypeOK, NEW p \in Procs, WorkerHoldsEvent,
                          CallFails(p) \/ Crash(p)
                   PROVE  TypeOK'
<1>1. task[p] \in Task
  BY DEF TypeOK
<1>2. CASE CallFails(p)
  <2>1. task' \in [Procs -> Task]
    BY <1>1, <1>2, AfterType, GotoType DEF CallFails
  <2>2. faults' \in [dup: Nat, fail: Nat, crash: Nat]
    BY <1>2 DEF CallFails, TypeOK
  <2> QED BY <1>2, <2>1, <2>2 DEF CallFails, TypeOK
<1>3. CASE Crash(p)
  <2>1. task' \in [Procs -> Task]
    BY <1>3, IdleType, GotoType DEF Crash
  <2>2. faults' \in [dup: Nat, fail: Nat, crash: Nat]
    BY <1>3 DEF Crash, TypeOK
  <2>3. pending' \subseteq Event
    BY <1>3 DEF Crash, TypeOK, WorkerHoldsEvent
  <2>4. todo' \in [Crons -> SUBSET Subs]
    BY <1>3 DEF Crash, TypeOK
  <2> QED BY <1>3, <2>1, <2>2, <2>3, <2>4 DEF Crash, TypeOK
<1> QED
  BY <1>2, <1>3

-----------------------------------------------------------------------------
\* The inductive invariant.

\* What an event says of its subscription is no more than what Stripe has
\* billed: periods only grow, and a started subscription stays started.
Sound(e) ==
    /\ stripe[e.sub].status # "none"
    /\ e.snap.end <= stripe[e.sub].end
    /\ e.snap.anchor + Period <= stripe[e.sub].end

\* A task about to insert a row, or to write a period end, has an end that is
\* within the billed period, and works on the subscription of its event.
Billed(t) ==
    /\ t.pc \in {"start", "fetch"} => t.sub = t.ev.sub
    /\ t.pc \in {"start", "find", "create"} => t.snap.end <= stripe[t.sub].end
    /\ t.pc \in {"read", "save"} /\ "end" \in t.set => t.body.end <= stripe[t.sub].end

PeriodInv ==
    /\ \A s \in Subs : IF stripe[s].status = "none" THEN stripe[s].end = 0
                       ELSE stripe[s].anchor + Period <= stripe[s].end
    /\ \A e \in pending : Sound(e)
    /\ \A h \in Workers : Busy(h) => Sound(task[h].ev)
    /\ \A p \in Procs : Billed(task[p])
    /\ RowWithinBilledPeriod

\* Only labelled subscriptions reach the insert.
LabelInv ==
    /\ \A p \in Procs : task[p].pc = "create" => task[p].sub \in Labelled
    /\ OnlyLabelledStored

\* The mail is owed by the one process whose insert succeeded, and until that
\* process sends it there is none.
MailInv ==
    /\ \A p \in Procs : task[p].pc = "created_mail" =>
         /\ Exists(task[p].sub) /\ created[task[p].sub] = 0
         /\ \A q \in Procs : task[q].pc = "created_mail" /\ task[q].sub = task[p].sub => q = p
    /\ \A s \in Subs : ~Exists(s) => created[s] = 0
    /\ CreatedMailOnce

\* The process p continues as t.
Continues(p, t) ==
    /\ task[p].pc # "idle"
    /\ Goto(p, t)
    /\ t.pc = "idle" \/ t.ev = task[p].ev
    /\ t.pc = "create" => t.sub \in Labelled
    /\ t.pc = "created_mail" => CreateRow(p)

\* A step of one process changes its task alone.
LEMMA GotoTask == ASSUME TypeOK, NEW p \in Procs, NEW t, Goto(p, t)
                  PROVE  /\ task'[p] = t
                         /\ \A q \in Procs : q # p => task'[q] = task[q]
BY DEF Goto, TypeOK

\* Fields of the operators that build tasks.
LEMMA TaskFields ==
  ASSUME NEW t \in Task, NEW pc \in Step, NEW set, NEW body
  PROVE  /\ At(t, pc).pc = pc /\ At(t, pc).ev = t.ev /\ At(t, pc).sub = t.sub
         /\ At(t, pc).snap = t.snap
         /\ Writing(t, set, body).pc = "read" /\ Writing(t, set, body).ev = t.ev
         /\ Writing(t, set, body).sub = t.sub /\ Writing(t, set, body).set = set
         /\ Writing(t, set, body).body = body
BY DEF At, Writing, Task

\* Reading a row changes neither the event, the subscription nor the object.
LEMMA WithRowFields ==
  ASSUME TypeOK, NEW t \in Task
  PROVE  /\ WithRow(t) \in Task
         /\ WithRow(t).ev = t.ev /\ WithRow(t).sub = t.sub /\ WithRow(t).snap = t.snap
         /\ WithRow(t).old = rows[t.sub]
<1>1. /\ WithRow(t).ev = t.ev /\ WithRow(t).sub = t.sub /\ WithRow(t).snap = t.snap
      /\ WithRow(t).old = rows[t.sub]
  BY DEF WithRow, Task
<1> QED
  BY <1>1, WithRowType

\* The period end the code reads off a Stripe subscription is within the
\* period billed.
LEMMA PeriodViewBilled ==
  ASSUME NEW snap \in StripeSub, NEW legacy, NEW bound \in Nat,
         snap.end <= bound, snap.anchor + Period <= bound
  PROVE  PeriodView(snap, legacy).end <= bound
BY ConstantsAssumption DEF PeriodView, StripeSub

\* What follows an update or a failed call continues the task.
LEMMA AfterContinues ==
  ASSUME TypeOK, PeriodInv, NEW p \in Procs
  PROVE  LET t == task[p] IN
         /\ \A u \in {AfterUpdate(t), Marking(t), AfterFailure(t)} :
              /\ u.pc = "idle" \/ u.ev = t.ev
              /\ u.pc = "create" => u.sub \in Labelled
              /\ u.pc # "created_mail"
         /\ t.pc = "save" => Billed(AfterUpdate(t))
         /\ Billed(Marking(t))
         /\ Billed(AfterFailure(t))
<1> DEFINE t == task[p]
<1>1. t \in Task /\ Billed(t)
  BY DEF TypeOK, PeriodInv
<1>2. Idle.pc = "idle"
  BY DEF Idle
<1>3. /\ AfterUpdate(t) = Idle \/ AfterUpdate(t) = At(t, "notice")
         \/ AfterUpdate(t) = At(t, "cancel_mail")
  BY DEF AfterUpdate
<1>4. /\ AfterUpdate(t).pc \in {"idle", "notice", "cancel_mail"}
      /\ AfterUpdate(t).pc = "idle" \/ AfterUpdate(t).ev = t.ev
  BY <1>1, <1>2, <1>3, TaskFields DEF Step
<1>5. Marking(t).pc = "read" /\ Marking(t).ev = t.ev /\ Marking(t).set = {"notified"}
  BY <1>1, TaskFields DEF Marking, Step
<1>6. Billed(AfterUpdate(t)) /\ Billed(Marking(t))
  BY <1>4, <1>5 DEF Billed
<1>7. CASE AfterFailure(t) = AfterUpdate(t) \/ AfterFailure(t) = Marking(t)
           \/ AfterFailure(t) = Idle
  BY <1>2, <1>4, <1>5, <1>6, <1>7 DEF Billed
<1>8. CASE t.pc = "start" /\ AfterFailure(t) \in {At(t, "find"), At(t, "fetch")}
  BY <1>1, <1>4, <1>5, <1>6, <1>8, TaskFields DEF Billed, Step
<1>9. CASE t.pc \in {"start", "find"} /\ AfterFailure(t) = At(t, "create") /\ MayCreate(t)
  BY <1>1, <1>4, <1>5, <1>6, <1>9, TaskFields DEF Billed, Step, MayCreate
<1> QED
  <2>1. \/ AfterFailure(t) = AfterUpdate(t) \/ AfterFailure(t) = Marking(t)
        \/ AfterFailure(t) = Idle
        \/ t.pc = "start" /\ AfterFailure(t) \in {At(t, "find"), At(t, "fetch")}
        \/ t.pc \in {"start", "find"} /\ AfterFailure(t) = At(t, "create") /\ MayCreate(t)
    BY DEF AfterFailure
  <2> QED BY <1>7, <1>8, <1>9, <2>1

\* Each step of a handler continues its task, and what it continues with is
\* billed.
LEMMA HandlerContinues ==
  ASSUME TypeOK, PeriodInv, NEW h \in Workers, HandlerStep(h)
  PROVE  \E t \in Task : Continues(h, t) /\ Billed(t)
<1> DEFINE t == task[h]
           w == WithRow(t)
<1>1. t \in Task /\ Billed(t) /\ t.sub \in Subs /\ stripe[t.sub] \in StripeSub /\ h \in Procs
  BY DEF TypeOK, PeriodInv, Procs, Task
<1>2. /\ w \in Task /\ w.ev = t.ev /\ w.sub = t.sub /\ w.snap = t.snap
      /\ w.old = rows[t.sub] /\ w.old \in Row
  BY <1>1, WithRowFields DEF TypeOK
<1>3. Idle \in Task /\ Idle.pc = "idle" /\ Billed(Idle)
  BY IdleType DEF Idle, Billed
<1>4. ASSUME NEW kind, NEW u \in Task, Handle(h, kind, u), u.pc \notin {"create", "created_mail"},
             u.pc = "idle" \/ u.ev = t.ev, Billed(u)
      PROVE  \E v \in Task : Continues(h, v) /\ Billed(v)
  BY <1>4 DEF Handle, Continues
<1>5. ASSUME NEW u \in Task, Goto(h, u), t.pc # "idle", u.pc \notin {"create", "created_mail"},
             u.pc = "idle" \/ u.ev = t.ev, Billed(u)
      PROVE  \E v \in Task : Continues(h, v) /\ Billed(v)
  BY <1>5 DEF Continues
<1>6. ASSUME NEW set \in SUBSET Field, NEW body \in Row, NEW u \in Task, u.ev = t.ev,
             "end" \in set => body.end <= stripe[u.sub].end
      PROVE  /\ Writing(u, set, body) \in Task /\ Billed(Writing(u, set, body))
             /\ Writing(u, set, body).pc = "read" /\ Writing(u, set, body).ev = t.ev
  BY <1>6, TaskFields, WritingType DEF Billed, Step
<1>7. ASSUME t.pc \in {"start", "find"}
      PROVE  /\ FindThenCreate(t) \in Task /\ Billed(FindThenCreate(t))
             /\ FindThenCreate(t).pc # "created_mail"
             /\ FindThenCreate(t).pc = "idle" \/ FindThenCreate(t).ev = t.ev
             /\ FindThenCreate(t).pc = "create" => FindThenCreate(t).sub \in Labelled
  BY <1>1, <1>3, <1>7, AtType, TaskFields DEF FindThenCreate, MayCreate, Billed, Step
<1>8. ASSUME t.pc \in {"start", "fetch"}, Busy(h), NEW legacy
      PROVE  /\ PeriodView(stripe[t.sub], legacy) \in StripeSub
             /\ PeriodView(stripe[t.sub], legacy).end <= stripe[t.sub].end
  <2>1. t.sub = t.ev.sub /\ stripe[t.sub].status # "none"
    BY <1>1, <1>8 DEF Billed, PeriodInv, Sound
  <2>2. stripe[t.sub].anchor + Period <= stripe[t.sub].end
    BY <1>1, <2>1 DEF PeriodInv
  <2>3. stripe[t.sub].end \in Nat /\ stripe[t.sub].end <= stripe[t.sub].end
    BY <1>1 DEF StripeSub
  <2> QED BY <1>1, <2>2, <2>3, PeriodViewType, PeriodViewBilled
<1>9. CASE SubscriptionCreated(h)
  <2>1. t.pc = "start" /\ Goto(h, FindThenCreate(t))
    BY <1>9 DEF SubscriptionCreated, Handle
  <2> QED BY <1>7, <2>1 DEF Continues
<1>10. CASE CheckoutCompleted(h)
  <2> DEFINE u == [At(t, "find") EXCEPT !.snap = PeriodView(stripe[t.sub], FetchLegacy)]
  <2>1. t.pc = "start" /\ Handle(h, "checkout", u)
    BY <1>10 DEF CheckoutCompleted, Handle
  <2>2. u \in Task /\ u.pc = "find" /\ u.ev = t.ev /\ Billed(u)
    BY <1>1, <1>8, <2>1 DEF At, Task, Step, Billed, Busy
  <2> QED BY <1>4, <2>1, <2>2
<1>11. CASE SubscriptionUpdated(h)
  <2> DEFINE body == [RowFrom(w.snap) EXCEPT !.notified = w.old.notified]
             set == {"status", "billing", "end", "cape"}
  <2>1. /\ t.pc = "start"
        /\ Handle(h, "updated", IF ~w.known THEN At(w, "find") ELSE Writing(w, set, body))
    BY <1>11 DEF SubscriptionUpdated, Handle
  <2>2. At(w, "find") \in Task /\ At(w, "find").pc = "find" /\ At(w, "find").ev = t.ev
        /\ Billed(At(w, "find"))
    BY <1>1, <1>2, <2>1, AtType, TaskFields DEF Billed, Step
  <2>3. body \in Row /\ body.end = t.snap.end /\ set \in SUBSET Field
    <3>1. w.snap \in StripeSub /\ RowFrom(w.snap) \in Row
      BY <1>2, RowFromType DEF Task
    <3>2. RowFrom(w.snap).end = w.snap.end
      BY DEF RowFrom
    <3> QED BY <1>2, <3>1, <3>2 DEF Row, Field
  <2>4. body.end <= stripe[w.sub].end
    BY <1>1, <1>2, <2>1, <2>3 DEF Billed
  <2> HIDE DEF body, set
  <2>5. /\ Writing(w, set, body) \in Task /\ Writing(w, set, body).pc = "read"
        /\ Writing(w, set, body).ev = t.ev /\ Billed(Writing(w, set, body))
    BY <1>2, <1>6, <2>3, <2>4
  <2> QED BY <1>4, <2>1, <2>2, <2>5
<1>12. CASE SubscriptionDeleted(h)
  <2> DEFINE body == [w.old EXCEPT !.status = "cancelled", !.billing = "canceled",
                                   !.cape = FALSE]
             set == {"status", "billing", "cape"}
  <2>1. Handle(h, "deleted", IF ~w.known THEN Idle ELSE Writing(w, set, body))
    BY <1>12 DEF SubscriptionDeleted
  <2>2. body \in Row /\ set \in SUBSET Field /\ "end" \notin set
    BY <1>2 DEF Row, SubscriptionStatus, StripeStatus, Field
  <2> HIDE DEF body, set
  <2>3. /\ Writing(w, set, body) \in Task /\ Writing(w, set, body).pc = "read"
        /\ Writing(w, set, body).ev = t.ev /\ Billed(Writing(w, set, body))
    BY <1>2, <1>6, <2>2
  <2> QED BY <1>3, <1>4, <2>1, <2>3
<1>13. CASE InvoicePaid(h) \/ InvoicePaymentFailed(h)
  <2>1. /\ At(w, "fetch") \in Task /\ At(w, "fetch").pc = "fetch"
        /\ At(w, "fetch").ev = t.ev /\ At(w, "fetch").sub = t.sub
    BY <1>2, AtType, TaskFields DEF Step
  <2>2. t.pc = "start" /\ Billed(At(w, "fetch"))
    BY <1>1, <1>13, <2>1 DEF InvoicePaid, InvoicePaymentFailed, Handle, Billed
  <2>3. \E kind : Handle(h, kind, Idle) \/ Handle(h, kind, At(w, "fetch"))
    BY <1>13 DEF InvoicePaid, InvoicePaymentFailed
  <2> QED BY <1>3, <1>4, <2>1, <2>2, <2>3
<1>14. CASE ChargeRefunded(h)
  <2>1. CASE Handle(h, "refunded", Idle)
    BY <1>3, <1>4, <2>1
  <2>2. ASSUME NEW s \in Subs,
               LET r == WithRow([t EXCEPT !.sub = s]) IN
               Handle(h, "refunded",
                      IF r.old.status # "active" THEN Idle
                      ELSE Writing(r, {"status"}, [r.old EXCEPT !.status = "cancelled"]))
        PROVE  \E v \in Task : Continues(h, v) /\ Billed(v)
    <3> DEFINE r == WithRow([t EXCEPT !.sub = s])
               body == [r.old EXCEPT !.status = "cancelled"]
               set == {"status"}
    <3>1. [t EXCEPT !.sub = s] \in Task /\ [t EXCEPT !.sub = s].ev = t.ev
      BY <1>1 DEF Task
    <3>2. r \in Task /\ r.ev = t.ev /\ r.old \in Row
      BY <3>1, WithRowFields DEF Task
    <3>3. body \in Row /\ set \in SUBSET Field /\ "end" \notin set
      BY <3>2 DEF Row, SubscriptionStatus, Field
    <3>4. Handle(h, "refunded", IF r.old.status # "active" THEN Idle
                                ELSE Writing(r, set, body))
      BY <2>2
    <3> HIDE DEF r, body, set
    <3>5. /\ Writing(r, set, body) \in Task /\ Writing(r, set, body).pc = "read"
          /\ Writing(r, set, body).ev = t.ev /\ Billed(Writing(r, set, body))
      BY <1>6, <3>2, <3>3
    <3> QED BY <1>3, <1>4, <3>4, <3>5
  <2> QED BY <1>14, <2>1, <2>2 DEF ChargeRefunded, RowsOf
<1>15. CASE FetchSubscription(h)
  <2> DEFINE live == PeriodView(stripe[t.sub], FetchLegacy)
             paid == [t.old EXCEPT !.status = "active", !.billing = "active",
                                   !.end = live.end]
             failed == [t.old EXCEPT
                          !.status = IF live.status = "past_due" THEN "expired" ELSE @,
                          !.billing = live.status]
             u == [t EXCEPT !.snap = live]
             f == [t EXCEPT !.pc = "find", !.snap = live]
  <2>1. t.pc = "fetch" /\ live \in StripeSub /\ live.end <= stripe[t.sub].end
    BY <1>8, <1>15 DEF FetchSubscription, Busy
  <2>2. paid \in Row /\ paid.end = live.end
    BY <1>1, <2>1 DEF Task, Row, SubscriptionStatus, StripeStatus, StripeSub
  <2>3. failed \in Row
    BY <1>1, <2>1 DEF Task, Row, SubscriptionStatus, StripeSub
  <2>4. u \in Task /\ u.ev = t.ev /\ u.sub = t.sub
    BY <1>1, <2>1 DEF Task
  <2>5. f \in Task /\ f.ev = t.ev /\ f.pc = "find" /\ Billed(f)
    BY <1>1, <2>1 DEF Task, Step, Billed
  <2>6. /\ {"status", "billing"} \in SUBSET Field
        /\ {"status", "billing", "end"} \in SUBSET Field
    BY DEF Field
  <2>7. \/ Goto(h, Idle) \/ Goto(h, f)
        \/ Goto(h, Writing(t, {"status", "billing"}, failed))
        \/ Goto(h, Writing(u, {"status", "billing", "end"}, paid))
    BY <1>15 DEF FetchSubscription
  <2> HIDE DEF failed, paid, u, f
  <2>8. LET a == Writing(t, {"status", "billing"}, failed) IN
        a \in Task /\ Billed(a) /\ a.pc = "read" /\ a.ev = t.ev
    BY <1>1, <1>6, <2>3, <2>6
  <2>9. LET a == Writing(u, {"status", "billing", "end"}, paid) IN
        a \in Task /\ Billed(a) /\ a.pc = "read" /\ a.ev = t.ev
    BY <1>6, <2>1, <2>2, <2>4, <2>6
  <2> QED BY <1>3, <1>5, <2>1, <2>5, <2>7, <2>8, <2>9
<1>16. CASE FindBeforeCreate(h)
  <2>1. t.pc = "find" /\ Goto(h, FindThenCreate(t))
    BY <1>16 DEF FindBeforeCreate
  <2> QED BY <1>7, <2>1 DEF Continues
<1>17. CASE CreateRow(h)
  <2>1. t.pc = "create" /\ (Goto(h, Idle) \/ Goto(h, At(t, "created_mail")))
    BY <1>17 DEF CreateRow
  <2>2. /\ At(t, "created_mail") \in Task /\ At(t, "created_mail").pc = "created_mail"
        /\ At(t, "created_mail").ev = t.ev /\ Billed(At(t, "created_mail"))
    BY <1>1, AtType, TaskFields DEF Billed, Step
  <2> QED BY <1>3, <1>17, <2>1, <2>2 DEF Continues
<1>18. CASE SendCreatedMail(h) \/ SendCancelledMail(h)
  BY <1>3, <1>5, <1>18 DEF SendCreatedMail, SendCancelledMail
<1> QED
  BY <1>9, <1>10, <1>11, <1>12, <1>13, <1>14, <1>15, <1>16, <1>17, <1>18
  DEF HandlerStep

-----------------------------------------------------------------------------
\* Every step keeps the billed period.

\* A step of Stripe at most: started subscriptions stay started, and periods
\* grow.
Grows ==
    \A s \in Subs :
        /\ stripe[s].status # "none" => stripe'[s].status # "none"
        /\ stripe[s].end <= stripe'[s].end
        /\ IF stripe'[s].status = "none" THEN stripe'[s].end = 0
           ELSE stripe'[s].anchor + Period <= stripe'[s].end

\* What was sound or billed stays so while Stripe grows.
LEMMA GrowsKeeps ==
  ASSUME TypeOK, TypeOK', Grows
  PROVE  /\ \A e \in Event : Sound(e) => Sound(e)'
         /\ \A p \in Procs : Billed(task[p]) /\ task'[p] = task[p] => Billed(task[p])'
<1>1. \A s \in Subs : stripe[s].end \in Nat /\ stripe'[s].end \in Nat
  BY DEF TypeOK, StripeSub
<1>2. ASSUME NEW e \in Event, Sound(e)
      PROVE  Sound(e)'
  <2>1. e.sub \in Subs /\ e.snap.end \in Nat /\ e.snap.anchor + Period \in Nat
    BY ConstantsAssumption DEF Event, StripeSub
  <2> QED BY <1>1, <1>2, <2>1 DEF Sound, Grows
<1>3. ASSUME NEW p \in Procs, Billed(task[p]), task'[p] = task[p]
      PROVE  Billed(task[p])'
  <2>1. /\ task[p].sub \in Subs /\ task[p].snap.end \in Nat /\ task[p].body.end \in Nat
    BY DEF TypeOK, Task, StripeSub, Row
  <2> QED BY <1>1, <1>3, <2>1 DEF Billed, Grows
<1> QED
  BY <1>2, <1>3

\* To keep the invariant a step has to let Stripe only grow, queue sound
\* events, and leave changed tasks and rows billed.
LEMMA PeriodStep ==
  ASSUME TypeOK, TypeOK', WorkerHoldsEvent, PeriodInv, Grows,
         \A e \in pending' : e \in pending \/ Sound(e)',
         \A p \in Procs : task'[p] = task[p] \/ Billed(task[p])',
         \A h \in Workers : \/ task'[h] = task[h]
                            \/ task'[h].pc = "idle"
                            \/ task'[h].ev \in Event /\ Sound(task[h].ev)',
         \A s \in Subs : Exists(s)' =>
            rows'[s].end <= stripe'[s].end \/ (Exists(s) /\ rows'[s].end = rows[s].end)
  PROVE  WorkerHoldsEvent' /\ PeriodInv'
<1>1. \A s \in Subs : (IF stripe[s].status = "none" THEN stripe[s].end = 0
                       ELSE stripe[s].anchor + Period <= stripe[s].end)'
  BY DEF Grows
<1>2. \A e \in pending' : Sound(e)'
  BY GrowsKeeps DEF PeriodInv, TypeOK
<1>3. \A p \in Procs : Billed(task[p])'
  BY GrowsKeeps DEF PeriodInv
<1>4. ASSUME NEW h \in Workers, Busy(h)'
      PROVE  task'[h].ev \in Event /\ Sound(task[h].ev)'
  <2>1. CASE task'[h] = task[h]
    <3>1. task[h].ev \in Event /\ Sound(task[h].ev)
      BY <1>4, <2>1 DEF Busy, WorkerHoldsEvent, PeriodInv
    <3>2. Sound(task[h].ev)'
      BY <2>1, <3>1, GrowsKeeps DEF Sound
    <3> QED BY <2>1, <3>1, <3>2
  <2> QED BY <1>4, <2>1 DEF Busy
<1>5. ASSUME NEW s \in Subs, Exists(s)'
      PROVE  rows'[s].end <= stripe'[s].end
  <2>1. rows[s].end \in Nat /\ stripe[s].end \in Nat /\ stripe'[s].end \in Nat
    BY DEF TypeOK, Row, StripeSub
  <2>2. CASE Exists(s) /\ rows'[s].end = rows[s].end
    BY <2>1, <2>2 DEF Grows, PeriodInv, RowWithinBilledPeriod
  <2>3. rows'[s].end <= stripe'[s].end \/ (Exists(s) /\ rows'[s].end = rows[s].end)
    BY <1>5
  <2> QED BY <2>2, <2>3
<1> QED
  BY <1>1, <1>2, <1>3, <1>4, <1>5 DEF WorkerHoldsEvent, PeriodInv, RowWithinBilledPeriod

\* While Stripe does nothing it grows.
LEMMA StillGrows == ASSUME TypeOK, PeriodInv, UNCHANGED stripe PROVE Grows
<1>1. \A s \in Subs : stripe[s].end \in Nat
  BY DEF TypeOK, StripeSub
<1> QED
  BY <1>1 DEF Grows, PeriodInv

\* The events Stripe emits about its new state are sound.
LEMMA EmitSound ==
  ASSUME TypeOK, TypeOK', Grows, NEW s \in Subs, stripe'[s].status # "none",
         NEW kinds \in Seq(EventKind), Emit(s, kinds, stripe'[s])
  PROVE  \A e \in pending' : e \in pending \/ Sound(e)'
<1>1. stripe'[s].end \in Nat /\ stripe'[s].anchor + Period <= stripe'[s].end
  BY DEF TypeOK, StripeSub, Grows
<1>2. ASSUME NEW e \in pending', e \notin pending
      PROVE  e.sub = s /\ e.snap = stripe'[s]
  <2>1. PICK i \in DOMAIN kinds :
          e = [kind |-> kinds[i], sub |-> s, snap |-> stripe'[s], n |-> sent + i]
    BY <1>2 DEF Emit
  <2> QED BY <2>1
<1>3. ASSUME NEW e \in pending', e \notin pending
      PROVE  Sound(e)'
  <2>1. e.sub = s /\ e.snap = stripe'[s]
    BY <1>2, <1>3
  <2>2. stripe'[e.sub].status # "none" /\ e.snap.end <= stripe'[e.sub].end
    BY <1>1, <2>1
  <2> QED BY <1>1, <2>1, <2>2 DEF Sound
<1> QED
  BY <1>3

\* Stripe's own steps.
LEMMA StripePeriod ==
  ASSUME TypeOK, TypeOK', WorkerHoldsEvent, PeriodInv, StripeStep
  PROVE  WorkerHoldsEvent' /\ PeriodInv'
<1> SUFFICES ASSUME NEW s \in Subs,
                    \/ StripeBegins(s) \/ StripeRenews(s) \/ StripePaymentFails(s)
                    \/ StripeRecovers(s) \/ StripeEnds(s) \/ StripeRefunds(s)
             PROVE  WorkerHoldsEvent' /\ PeriodInv'
  BY DEF StripeStep
<1>1. /\ stripe[s] \in StripeSub /\ stripe[s].end \in Nat /\ stripe[s].anchor \in Nat
      /\ Period \in Nat /\ now \in Nat
  BY ConstantsAssumption DEF TypeOK, StripeSub
<1>2. UNCHANGED <<task, rows, born>>
  BY DEF StripeBegins, StripeRenews, StripePaymentFails, StripeRecovers, StripeEnds,
         StripeRefunds, StripeChange
<1>3. /\ <<"updated", "invoice_paid">> \in Seq(EventKind)
      /\ <<"updated", "payment_failed">> \in Seq(EventKind)
      /\ <<"deleted">> \in Seq(EventKind) /\ <<"refunded">> \in Seq(EventKind)
      /\ <<"created", "checkout", "invoice_paid">> \in Seq(EventKind)
  BY DEF EventKind
<1>4. ASSUME NEW new, NEW kinds \in Seq(EventKind), new.status # "none",
             stripe' = [stripe EXCEPT ![s] = new], Emit(s, kinds, new),
             stripe[s].end <= new.end, new.anchor + Period <= new.end
      PROVE  WorkerHoldsEvent' /\ PeriodInv'
  <2>1. stripe'[s] = new /\ \A r \in Subs : r # s => stripe'[r] = stripe[r]
    BY <1>4 DEF TypeOK
  <2>2. \A r \in Subs : stripe[r].end \in Nat
    BY DEF TypeOK, StripeSub
  <2>3. Grows
    BY <1>4, <2>1, <2>2 DEF Grows, PeriodInv
  <2>4. \A e \in pending' : e \in pending \/ Sound(e)'
    BY <1>4, <2>1, <2>3, EmitSound
  <2> QED BY <1>2, <2>3, <2>4, PeriodStep DEF Exists
<1>5. CASE StripeBegins(s)
  <2>1. stripe[s].end = 0
    BY <1>5 DEF StripeBegins, PeriodInv
  <2>2. PICK st \in {"active", "trialing"} :
          LET new == [status |-> st, anchor |-> now, end |-> now + Period,
                      cape |-> FALSE] IN
          /\ stripe' = [stripe EXCEPT ![s] = new]
          /\ Emit(s, <<"created", "checkout", "invoice_paid">>, new)
    BY <1>5 DEF StripeBegins
  <2> DEFINE new == [status |-> st, anchor |-> now, end |-> now + Period,
                     cape |-> FALSE]
  <2>3. new.status # "none" /\ stripe[s].end <= new.end /\ new.anchor + Period <= new.end
    BY <1>1, <2>1
  <2> HIDE DEF new
  <2> QED BY <1>3, <1>4, <2>2, <2>3 DEF new
<1>6. ASSUME stripe[s].status # "none"
      PROVE  stripe[s].anchor + Period <= stripe[s].end
  BY <1>6 DEF PeriodInv
<1>7. CASE StripeRenews(s)
  <2> DEFINE new == [stripe[s] EXCEPT !.status = "active", !.end = @ + Period]
  <2>1. stripe[s].status # "none"
    BY <1>7 DEF StripeRenews
  <2>2. /\ stripe' = [stripe EXCEPT ![s] = new]
        /\ Emit(s, <<"updated", "invoice_paid">>, new)
    BY <1>7 DEF StripeRenews, StripeChange
  <2>3. new.status # "none" /\ stripe[s].end <= new.end /\ new.anchor + Period <= new.end
    BY <1>1, <1>6, <2>1 DEF StripeSub
  <2> HIDE DEF new
  <2> QED BY <1>3, <1>4, <2>2, <2>3
<1>8. CASE StripePaymentFails(s)
  <2> DEFINE new == [stripe[s] EXCEPT !.status = "past_due", !.end = @ + Period]
  <2>1. stripe[s].status # "none"
    BY <1>8 DEF StripePaymentFails
  <2>2. /\ stripe' = [stripe EXCEPT ![s] = new]
        /\ Emit(s, <<"updated", "payment_failed">>, new)
    BY <1>8 DEF StripePaymentFails, StripeChange
  <2>3. new.status # "none" /\ stripe[s].end <= new.end /\ new.anchor + Period <= new.end
    BY <1>1, <1>6, <2>1 DEF StripeSub
  <2> HIDE DEF new
  <2> QED BY <1>3, <1>4, <2>2, <2>3
<1>9. CASE StripeRecovers(s)
  <2> DEFINE new == [stripe[s] EXCEPT !.status = "active"]
  <2>1. stripe[s].status # "none"
    BY <1>9 DEF StripeRecovers
  <2>2. /\ stripe' = [stripe EXCEPT ![s] = new]
        /\ Emit(s, <<"updated", "invoice_paid">>, new)
    BY <1>9 DEF StripeRecovers, StripeChange
  <2>3. new.status # "none" /\ stripe[s].end <= new.end /\ new.anchor + Period <= new.end
    BY <1>1, <1>6, <2>1 DEF StripeSub
  <2> HIDE DEF new
  <2> QED BY <1>3, <1>4, <2>2, <2>3
<1>10. CASE StripeEnds(s)
  <2> DEFINE new == [stripe[s] EXCEPT !.status = "canceled"]
  <2>1. stripe[s].status # "none"
    BY <1>10 DEF StripeEnds, Live
  <2>2. stripe' = [stripe EXCEPT ![s] = new] /\ Emit(s, <<"deleted">>, new)
    BY <1>10 DEF StripeEnds, StripeChange
  <2>3. new.status # "none" /\ stripe[s].end <= new.end /\ new.anchor + Period <= new.end
    BY <1>1, <1>6, <2>1 DEF StripeSub
  <2> HIDE DEF new
  <2> QED BY <1>3, <1>4, <2>2, <2>3
<1>11. CASE StripeRefunds(s)
  <2>1. stripe[s].status # "none" /\ stripe[s].end <= stripe[s].end
    BY <1>1, <1>11 DEF StripeRefunds, Live
  <2>2. stripe' = [stripe EXCEPT ![s] = stripe[s]] /\ Emit(s, <<"refunded">>, stripe[s])
    BY <1>11 DEF StripeRefunds, StripeChange
  <2> QED BY <1>3, <1>4, <1>6, <2>1, <2>2
<1> QED
  BY <1>5, <1>7, <1>8, <1>9, <1>10, <1>11

\* A process continues while Stripe does nothing and the queue is left alone.
LEMMA ContinuesPeriod ==
  ASSUME TypeOK, TypeOK', WorkerHoldsEvent, PeriodInv, NEW p \in Procs, NEW t \in Task,
         Continues(p, t), Billed(t), UNCHANGED <<stripe, pending>>,
         \A s \in Subs : Exists(s)' =>
            rows'[s].end <= stripe'[s].end \/ (Exists(s) /\ rows'[s].end = rows[s].end)
  PROVE  WorkerHoldsEvent' /\ PeriodInv'
<1>1. task'[p] = t /\ \A q \in Procs : q # p => task'[q] = task[q]
  BY GotoTask DEF Continues
<1>2. Grows
  BY StillGrows
<1>3. \A q \in Procs : task'[q] = task[q] \/ Billed(task[q])'
  BY <1>1 DEF Billed
<1>4. ASSUME NEW h \in Workers
      PROVE  task'[h] = task[h] \/ task'[h].pc = "idle"
             \/ (task'[h].ev \in Event /\ Sound(task[h].ev)')
  <2>1. CASE h = p /\ t.pc # "idle"
    <3>1. task[h].ev \in Event /\ Sound(task[h].ev) /\ t.ev = task[h].ev
      BY <2>1 DEF Continues, WorkerHoldsEvent, PeriodInv, Busy
    <3>2. Sound(task[h].ev)'
      BY <1>1, <2>1, <3>1 DEF Sound
    <3> QED BY <1>1, <2>1, <3>1, <3>2
  <2> QED BY <1>1, <2>1 DEF Procs
<1>5. \A e \in pending' : e \in pending \/ Sound(e)'
  OBVIOUS
<1> QED
  BY <1>2, <1>3, <1>4, <1>5, PeriodStep

\* A process starts on something that is neither inserted nor saved, or stops,
\* while Stripe does nothing and every queued event is sound.
LEMMA TurnsPeriod ==
  ASSUME TypeOK, TypeOK', WorkerHoldsEvent, PeriodInv, NEW p \in Procs, NEW t,
         Goto(p, t), t.pc \in {"idle", "stripe", "notice"},
         p \in Workers => t.pc = "idle",
         UNCHANGED <<stripe, rows, born>>,
         \A e \in pending' : e \in pending \/ Sound(e)'
  PROVE  WorkerHoldsEvent' /\ PeriodInv'
<1>1. task'[p] = t /\ \A q \in Procs : q # p => task'[q] = task[q]
  BY GotoTask
<1>2. Grows
  BY StillGrows
<1>3. \A q \in Procs : task'[q] = task[q] \/ Billed(task[q])'
  BY <1>1 DEF Billed
<1>4. \A h \in Workers : task'[h] = task[h] \/ task'[h].pc = "idle"
  BY <1>1 DEF Procs
<1> QED
  BY <1>2, <1>3, <1>4, PeriodStep DEF Exists

\* The event handed to a worker, and the object read off it.
LEMMA DeliverPeriod ==
  ASSUME TypeOK, TypeOK', WorkerHoldsEvent, PeriodInv,
         NEW h \in Workers, NEW e \in pending, Deliver(h, e)
  PROVE  WorkerHoldsEvent' /\ PeriodInv'
<1> DEFINE t == [Idle EXCEPT !.pc = "start", !.ev = e, !.sub = e.sub,
                             !.snap = PeriodView(e.snap, HookLegacy)]
<1>1. Goto(h, t) /\ h \in Procs /\ UNCHANGED <<stripe, rows, born>>
  BY DEF Deliver, Procs
<1>2. e \in Event /\ Sound(e) /\ e.sub \in Subs /\ e.snap \in StripeSub
  BY DEF TypeOK, PeriodInv, Event
<1>3. t.pc = "start" /\ t.ev = e /\ t.sub = e.sub /\ t.snap = PeriodView(e.snap, HookLegacy)
  BY DEF Idle
<1>4. t.snap.end <= stripe[e.sub].end
  <2>1. stripe[e.sub].end \in Nat
    BY <1>2 DEF TypeOK, StripeSub
  <2> QED BY <1>2, <1>3, <2>1, PeriodViewBilled DEF Sound
<1> HIDE DEF t
<1>5. task'[h] = t /\ \A q \in Procs : q # h => task'[q] = task[q]
  BY <1>1, GotoTask
<1>6. Billed(task[h])'
  BY <1>1, <1>3, <1>4, <1>5 DEF Billed
<1>7. \A q \in Procs : task'[q] = task[q] \/ Billed(task[q])'
  BY <1>5, <1>6
<1>8. Sound(task[h].ev)'
  BY <1>1, <1>2, <1>3, <1>5 DEF Sound
<1>9. \A w \in Workers : \/ task'[w] = task[w]
                         \/ task'[w].pc = "idle"
                         \/ task'[w].ev \in Event /\ Sound(task[w].ev)'
  BY <1>2, <1>3, <1>5, <1>8 DEF Procs
<1>10. \A f \in pending' : f \in pending \/ Sound(f)'
  BY DEF Deliver
<1>11. Grows
  BY <1>1, StillGrows
<1> QED
  BY <1>1, <1>7, <1>9, <1>10, <1>11, PeriodStep DEF Exists

\* A user request cancels, or schedules or unschedules a cancellation.
LEMMA RequestPeriod ==
  ASSUME TypeOK, TypeOK', WorkerHoldsEvent, PeriodInv, NEW r \in Requests, RequestStripe(r)
  PROVE  WorkerHoldsEvent' /\ PeriodInv'
<1> DEFINE t == task[r]
           want == t.ev.kind = "cancel"
           body == [t.old EXCEPT !.cape = want]
<1>1. /\ r \in Procs /\ t.sub \in Subs /\ stripe[t.sub] \in StripeSub
      /\ t \in Task /\ UNCHANGED <<rows, born>> /\ r \notin Workers
  BY ConstantsAssumption DEF TypeOK, Procs, Task, RequestStripe
<1>2. Goto(r, Idle) \/ Goto(r, Writing(t, {"cape"}, body))
  BY DEF RequestStripe
<1>3. /\ Idle.pc = "idle"
      /\ Writing(t, {"cape"}, body).pc = "read" /\ Writing(t, {"cape"}, body).set = {"cape"}
  BY <1>1, TaskFields DEF Idle, Step
<1> HIDE DEF body
<1>4. \A q \in Procs : task'[q] = task[q] \/ Billed(task[q])'
  <2>1. task'[r] = Idle \/ task'[r] = Writing(t, {"cape"}, body)
    BY <1>1, <1>2, GotoTask
  <2>2. Billed(task[r])'
    BY <1>3, <2>1 DEF Billed
  <2>3. \A q \in Procs : q # r => task'[q] = task[q]
    BY <1>1, <1>2, GotoTask
  <2> QED BY <2>2, <2>3
<1>5. \A h \in Workers : task'[h] = task[h]
  BY <1>1, <1>2, GotoTask DEF Procs
<1>6. ASSUME Live(t.sub), NEW new, stripe' = [stripe EXCEPT ![t.sub] = new],
             new.status # "none", new.anchor = stripe[t.sub].anchor,
             new.end = stripe[t.sub].end,
             \/ pending' = pending
             \/ \E kind \in EventKind : Emit(t.sub, <<kind>>, stripe'[t.sub])
      PROVE  WorkerHoldsEvent' /\ PeriodInv'
  <2>1. stripe'[t.sub] = new /\ \A s \in Subs : s # t.sub => stripe'[s] = stripe[s]
    BY <1>1, <1>6 DEF TypeOK
  <2>2. stripe[t.sub].status # "none"
    BY <1>6 DEF Live
  <2>3. \A s \in Subs : stripe[s].end \in Nat
    BY DEF TypeOK, StripeSub
  <2>4. Grows
    BY <1>6, <2>1, <2>2, <2>3 DEF Grows, PeriodInv
  <2>5. ASSUME NEW kind \in EventKind, Emit(t.sub, <<kind>>, stripe'[t.sub])
        PROVE  \A e \in pending' : e \in pending \/ Sound(e)'
    <3>1. <<kind>> \in Seq(EventKind) /\ stripe'[t.sub].status # "none"
      BY <1>6, <2>1
    <3> QED BY <1>1, <2>4, <2>5, <3>1, EmitSound
  <2> QED BY <1>1, <1>4, <1>5, <1>6, <2>4, <2>5, PeriodStep DEF Exists
<1>7. CASE stripe' = stripe /\ pending' = pending
  <2>1. Grows
    BY <1>7, StillGrows
  <2> QED BY <1>1, <1>4, <1>5, <1>7, <2>1, PeriodStep DEF Exists
<1>8. CASE /\ Live(t.sub)
           /\ stripe' = [stripe EXCEPT ![t.sub].status = "canceled"]
           /\ Emit(t.sub, <<"deleted">>, stripe'[t.sub])
  <2> DEFINE new == [stripe[t.sub] EXCEPT !.status = "canceled"]
  <2>1. stripe' = [stripe EXCEPT ![t.sub] = new]
    BY <1>8
  <2>2. /\ new.status # "none" /\ new.anchor = stripe[t.sub].anchor
        /\ new.end = stripe[t.sub].end
    BY <1>1 DEF StripeSub
  <2> HIDE DEF new
  <2>3. "deleted" \in EventKind
    BY DEF EventKind
  <2> QED BY <1>6, <1>8, <2>1, <2>2, <2>3
<1>9. CASE /\ Live(t.sub)
            /\ stripe' = [stripe EXCEPT ![t.sub].cape = want]
            /\ IF stripe[t.sub].cape = want THEN UNCHANGED queueVars
               ELSE Emit(t.sub, <<"updated">>, stripe'[t.sub])
  <2> HIDE DEF want
  <2> DEFINE new == [stripe[t.sub] EXCEPT !.cape = want]
  <2>1. stripe' = [stripe EXCEPT ![t.sub] = new]
    BY <1>9
  <2>2. /\ new.status # "none" /\ new.anchor = stripe[t.sub].anchor
        /\ new.end = stripe[t.sub].end
    <3>1. stripe[t.sub].status # "none"
      BY <1>9 DEF Live
    <3> QED BY <1>1, <3>1 DEF StripeSub
  <2>3. pending' = pending \/ Emit(t.sub, <<"updated">>, stripe'[t.sub])
    BY <1>9
  <2> HIDE DEF new
  <2>4. "updated" \in EventKind
    BY DEF EventKind
  <2> QED BY <1>6, <1>9, <2>1, <2>2, <2>3, <2>4
<1> QED
  BY <1>7, <1>8, <1>9 DEF RequestStripe

\* Every step keeps the held events and the billed period.
LEMMA PeriodNext ==
  ASSUME TypeOK, TypeOK', WorkerHoldsEvent, PeriodInv, Next
  PROVE  WorkerHoldsEvent' /\ PeriodInv'
<1>1. CASE StripeStep
  BY <1>1, StripePeriod
<1>2. ASSUME NEW h \in Workers, NEW e \in pending, Deliver(h, e)
      PROVE  WorkerHoldsEvent' /\ PeriodInv'
  BY <1>2, DeliverPeriod
<1>3. ASSUME NEW h \in Workers, HandlerStep(h)
      PROVE  WorkerHoldsEvent' /\ PeriodInv'
  <2>1. PICK t \in Task : Continues(h, t) /\ Billed(t)
    BY <1>3, HandlerContinues
  <2>2. h \in Procs /\ UNCHANGED <<stripe, pending>>
    BY <1>3 DEF Procs, HandlerStep, SubscriptionCreated, CheckoutCompleted,
       SubscriptionUpdated, SubscriptionDeleted, InvoicePaid, InvoicePaymentFailed,
       ChargeRefunded, Handle, FetchSubscription, FindBeforeCreate, CreateRow,
       SendCreatedMail, SendCancelledMail
  <2>3. CASE UNCHANGED <<rows, born>>
    BY <2>1, <2>2, <2>3, ContinuesPeriod DEF Exists
  <2>4. CASE CreateRow(h) /\ ~UNCHANGED <<rows, born>>
    <3>1. /\ rows' = [rows EXCEPT ![task[h].sub] = RowFrom(task[h].snap)]
          /\ born' = [born EXCEPT ![task[h].sub] = NextRank]
          /\ task[h].pc = "create"
      BY <2>4 DEF CreateRow
    <3>2. /\ rows'[task[h].sub].end = task[h].snap.end
          /\ task[h].snap.end <= stripe'[task[h].sub].end
      BY <2>2, <3>1 DEF TypeOK, Task, RowFrom, PeriodInv, Billed
    <3>3. \A s \in Subs : s # task[h].sub => rows'[s] = rows[s] /\ born'[s] = born[s]
      BY <3>1 DEF TypeOK
    <3>4. \A s \in Subs : Exists(s)' =>
            rows'[s].end <= stripe'[s].end \/ (Exists(s) /\ rows'[s].end = rows[s].end)
      BY <3>2, <3>3 DEF Exists
    <3> QED BY <2>1, <2>2, <3>4, ContinuesPeriod
  <2> QED
    BY <1>3, <2>3, <2>4 DEF HandlerStep, SubscriptionCreated, CheckoutCompleted,
       SubscriptionUpdated, SubscriptionDeleted, InvoicePaid, InvoicePaymentFailed,
       ChargeRefunded, Handle, FetchSubscription, FindBeforeCreate, SendCreatedMail,
       SendCancelledMail
<1>4. CASE RequestStep
  <2>1. ASSUME NEW u \in Users, Checkout(u)
        PROVE  WorkerHoldsEvent' /\ PeriodInv'
    BY <2>1, StillGrows, PeriodStep DEF Checkout, Exists
  <2>2. ASSUME NEW r \in Requests, NEW s \in Subs, NEW kind \in RequestKind,
               StartRequest(r, s, kind)
        PROVE  WorkerHoldsEvent' /\ PeriodInv'
    <3> DEFINE t == WithRow([Idle EXCEPT !.pc = "stripe", !.ev.kind = kind, !.sub = s])
    <3>1. Goto(r, t) /\ t.pc = "stripe" /\ UNCHANGED <<stripe, rows, born, pending>>
      BY <2>2 DEF StartRequest, WithRow, Idle
    <3>2. r \in Procs /\ r \notin Workers
      BY ConstantsAssumption DEF Procs
    <3> HIDE DEF t
    <3> QED BY <3>1, <3>2, TurnsPeriod
  <2>3. ASSUME NEW r \in Requests, RequestStripe(r)
        PROVE  WorkerHoldsEvent' /\ PeriodInv'
    BY <2>3, RequestPeriod
  <2> QED BY <1>4, <2>1, <2>2, <2>3 DEF RequestStep
<1>5. ASSUME NEW c \in Crons, CronStep(c)
      PROVE  WorkerHoldsEvent' /\ PeriodInv'
  <2>1. CASE CronList(c)
    BY <2>1, StillGrows, PeriodStep DEF CronList, Exists
  <2>2. ASSUME NEW s \in Subs, CronNext(c, s)
        PROVE  WorkerHoldsEvent' /\ PeriodInv'
    <3> DEFINE t == WithRow([Idle EXCEPT !.pc = "notice", !.ev.kind = "cron", !.sub = s])
    <3>1. Goto(c, t) /\ t.pc = "notice" /\ UNCHANGED <<stripe, rows, born, pending>>
      BY <2>2 DEF CronNext, WithRow, Idle
    <3>2. c \in Procs /\ c \notin Workers
      BY ConstantsAssumption DEF Procs
    <3> HIDE DEF t
    <3> QED BY <3>1, <3>2, TurnsPeriod
  <2> QED BY <1>5, <2>1, <2>2 DEF CronStep
<1>6. ASSUME NEW p \in Procs, SendExpiringMail(p) \/ UpdateStep(p) \/ CallFails(p)
      PROVE  WorkerHoldsEvent' /\ PeriodInv'
  <2> DEFINE t == task[p]
  <2>1. t \in Task /\ t.sub \in Subs /\ Billed(t)
    BY DEF TypeOK, Task, PeriodInv
  <2>2. AfterUpdate(t) \in Task /\ Marking(t) \in Task /\ AfterFailure(t) \in Task
    BY <2>1, AfterType
  <2>3. CASE SendExpiringMail(p)
    <3>1. Continues(p, Marking(t)) /\ Billed(Marking(t))
      BY <2>3, AfterContinues DEF SendExpiringMail, Continues
    <3> QED BY <2>2, <2>3, <3>1, ContinuesPeriod DEF SendExpiringMail, Exists
  <2>4. CASE CallFails(p)
    <3>1. Continues(p, AfterFailure(t)) /\ Billed(AfterFailure(t))
      BY <2>4, AfterContinues DEF CallFails, Continues, Busy
    <3> QED BY <2>2, <2>4, <3>1, ContinuesPeriod DEF CallFails, Exists
  <2>5. CASE UpdateRead(p)
    <3> DEFINE u == [t EXCEPT !.pc = "save", !.seen = rows[t.sub]]
    <3>1. /\ u \in Task /\ u.pc = "save" /\ u.ev = t.ev /\ u.set = t.set
          /\ u.body = t.body /\ u.sub = t.sub /\ t.pc = "read" /\ Goto(p, u)
      BY <2>1, <2>5 DEF UpdateRead, TypeOK, Task, Step
    <3> HIDE DEF u
    <3>2. Continues(p, u) /\ Billed(u)
      BY <2>1, <3>1 DEF Continues, Billed
    <3> QED BY <2>5, <3>1, <3>2, ContinuesPeriod DEF UpdateRead, Exists
  <2>6. CASE UpdateSave(p)
    <3>1. /\ t.pc = "save" /\ Goto(p, AfterUpdate(t))
          /\ rows' = [rows EXCEPT ![t.sub] = Saved(@, t.seen, t.body, t.set)]
          /\ UNCHANGED <<stripe, pending, born>>
      BY <2>6 DEF UpdateSave
    <3>2. Continues(p, AfterUpdate(t)) /\ Billed(AfterUpdate(t))
      BY <3>1, AfterContinues DEF Continues
    <3>3. /\ rows'[t.sub] = Saved(rows[t.sub], t.seen, t.body, t.set)
          /\ \A s \in Subs : s # t.sub => rows'[s] = rows[s]
      BY <2>1, <3>1 DEF TypeOK
    <3>4. \/ rows'[t.sub].end = rows[t.sub].end
          \/ rows'[t.sub].end <= stripe'[t.sub].end
      <4>1. /\ rows[t.sub] \in Row /\ t.seen \in Row /\ t.body \in Row
            /\ t.set \in SUBSET Field
        BY <2>1 DEF TypeOK, Task
      <4>2. /\ rows'[t.sub].end \in {rows[t.sub].end, t.body.end}
            /\ "end" \notin t.set => rows'[t.sub].end = rows[t.sub].end
        <5> DEFINE saved == Saved(rows[t.sub], t.seen, t.body, t.set)
        <5>1. /\ saved.end \in {rows[t.sub].end, t.body.end}
              /\ "end" \notin t.set => saved.end = rows[t.sub].end
          BY <4>1, SavedType
        <5>2. rows'[t.sub] = saved
          BY <3>3
        <5> HIDE DEF saved
        <5> QED BY <5>1, <5>2
      <4> QED BY <2>1, <3>1, <4>2 DEF Billed
    <3>5. \A s \in Subs : Exists(s)' =>
            rows'[s].end <= stripe'[s].end \/ (Exists(s) /\ rows'[s].end = rows[s].end)
      BY <3>1, <3>3, <3>4 DEF Exists
    <3> QED BY <2>2, <3>1, <3>2, <3>5, ContinuesPeriod
  <2> QED BY <1>6, <2>3, <2>4, <2>5, <2>6 DEF UpdateStep
<1>7. ASSUME NEW p \in Procs, Crash(p)
      PROVE  WorkerHoldsEvent' /\ PeriodInv'
  <2>1. Goto(p, Idle) /\ Idle.pc = "idle" /\ Busy(p) /\ UNCHANGED <<stripe, rows, born>>
    BY <1>7 DEF Crash, Idle
  <2>2. ASSUME NEW e \in pending', e \notin pending
        PROVE  Sound(e)'
    <3>1. p \in Workers /\ e = task[p].ev
      BY <1>7, <2>2 DEF Crash
    <3>2. Sound(e)
      BY <2>1, <3>1 DEF PeriodInv
    <3> QED BY <2>1, <3>2 DEF Sound
  <2> QED BY <2>1, <2>2, TurnsPeriod
<1>8. CASE MarkExpired
  <2>1. \A s \in Subs : rows'[s].end = rows[s].end
    BY <1>8 DEF MarkExpired, TypeOK, Row
  <2> QED BY <1>8, <2>1, StillGrows, PeriodStep DEF MarkExpired, Exists
<1>9. CASE Tick
  BY <1>9, StillGrows, PeriodStep DEF Tick, Exists
<1> QED
  BY <1>1, <1>2, <1>3, <1>4, <1>5, <1>6, <1>7, <1>8, <1>9 DEF Next, Procs

-----------------------------------------------------------------------------
\* Who reaches the insert, and who owes the mail.

\* Rows are inserted by CreateRow alone, and mails of a new subscription are
\* sent by SendCreatedMail alone.
LEMMA BornSteps ==
  ASSUME Next
  PROVE  /\ UNCHANGED born \/ \E h \in Workers : CreateRow(h)
         /\ UNCHANGED created \/ \E h \in Workers : SendCreatedMail(h)
BY DEF Next, StripeStep, StripeBegins, StripeRenews, StripePaymentFails, StripeRecovers,
   StripeEnds, StripeRefunds, StripeChange, Deliver, HandlerStep, SubscriptionCreated,
   CheckoutCompleted, SubscriptionUpdated, SubscriptionDeleted, InvoicePaid,
   InvoicePaymentFailed, ChargeRefunded, Handle, FetchSubscription, FindBeforeCreate,
   SendCancelledMail, RequestStep, Checkout, StartRequest, RequestStripe, CronStep,
   CronList, CronNext, SendExpiringMail, UpdateStep, UpdateRead, UpdateSave, CallFails,
   Crash, MarkExpired, Tick, CreateRow, SendCreatedMail

\* A process reaches the insert or the mail only by continuing its task.
LEMMA TaskSteps ==
  ASSUME TypeOK, PeriodInv, Next, NEW p \in Procs
  PROVE  \/ task'[p] = task[p]
         \/ task'[p].pc \notin {"create", "created_mail"}
         \/ Continues(p, task'[p])
<1> DEFINE Goal == \/ task'[p] = task[p]
                   \/ task'[p].pc \notin {"create", "created_mail"}
                   \/ Continues(p, task'[p])
<1> SUFFICES Goal
  OBVIOUS
<1>1. ASSUME NEW q \in Procs, NEW t, Goto(q, t),
             t.pc \notin {"create", "created_mail"} \/ Continues(q, t)
      PROVE  Goal
  BY <1>1, GotoTask
<1>2. CASE UNCHANGED task
  BY <1>2
<1> HIDE DEF Goal
<1>3. CASE StripeStep
  BY <1>2, <1>3 DEF StripeStep, StripeBegins, StripeRenews, StripePaymentFails,
     StripeRecovers, StripeEnds, StripeRefunds, StripeChange
<1>4. ASSUME NEW h \in Workers, NEW e \in pending, Deliver(h, e)
      PROVE  Goal
  <2> DEFINE t == [Idle EXCEPT !.pc = "start", !.ev = e, !.sub = e.sub,
                               !.snap = PeriodView(e.snap, HookLegacy)]
  <2>1. Goto(h, t) /\ t.pc = "start" /\ h \in Procs
    BY <1>4 DEF Deliver, Procs, Idle
  <2> HIDE DEF t
  <2> QED BY <1>1, <2>1
<1>5. ASSUME NEW h \in Workers, HandlerStep(h)
      PROVE  Goal
  <2>1. PICK t \in Task : Continues(h, t)
    BY <1>5, HandlerContinues
  <2> QED BY <1>1, <2>1 DEF Continues, Procs
<1>6. CASE RequestStep
  <2>1. ASSUME NEW u \in Users, Checkout(u)
        PROVE  Goal
    BY <1>2, <2>1 DEF Checkout
  <2>2. ASSUME NEW r \in Requests, NEW s \in Subs, NEW kind \in RequestKind,
               StartRequest(r, s, kind)
        PROVE  Goal
    <3> DEFINE t == WithRow([Idle EXCEPT !.pc = "stripe", !.ev.kind = kind, !.sub = s])
    <3>1. Goto(r, t) /\ t.pc = "stripe" /\ r \in Procs
      BY <2>2 DEF StartRequest, WithRow, Idle, Procs
    <3> HIDE DEF t
    <3> QED BY <1>1, <3>1
  <2>3. ASSUME NEW r \in Requests, RequestStripe(r)
        PROVE  Goal
    <3> DEFINE t == task[r]
               u == Writing(t, {"cape"}, [t.old EXCEPT !.cape = t.ev.kind = "cancel"])
    <3>1. Goto(r, Idle) \/ Goto(r, u)
      BY <2>3 DEF RequestStripe
    <3>2. r \in Procs /\ Idle.pc = "idle"
      BY DEF Procs, Idle
    <3>3. u.pc = "read"
      BY <3>2, TaskFields DEF TypeOK, Step
    <3> HIDE DEF u
    <3> QED BY <1>1, <3>1, <3>2, <3>3
  <2> QED BY <1>6, <2>1, <2>2, <2>3 DEF RequestStep
<1>7. ASSUME NEW c \in Crons, CronStep(c)
      PROVE  Goal
  <2>1. ASSUME NEW s \in Subs, CronNext(c, s)
        PROVE  Goal
    <3> DEFINE t == WithRow([Idle EXCEPT !.pc = "notice", !.ev.kind = "cron", !.sub = s])
    <3>1. Goto(c, t) /\ t.pc = "notice" /\ c \in Procs
      BY <2>1 DEF CronNext, WithRow, Idle, Procs
    <3> HIDE DEF t
    <3> QED BY <1>1, <3>1
  <2> QED BY <1>2, <1>7, <2>1 DEF CronStep, CronList
<1>8. ASSUME NEW q \in Procs, SendExpiringMail(q) \/ UpdateStep(q) \/ CallFails(q)
      PROVE  Goal
  <2> DEFINE t == task[q]
  <2>1. CASE SendExpiringMail(q)
    BY <1>1, <2>1, AfterContinues DEF SendExpiringMail, Continues
  <2>2. CASE UpdateSave(q)
    BY <1>1, <2>2, AfterContinues DEF UpdateSave, Continues
  <2>3. CASE UpdateRead(q)
    <3> DEFINE u == [t EXCEPT !.pc = "save", !.seen = rows[t.sub]]
    <3>1. Goto(q, u) /\ u.pc = "save"
      BY <2>3 DEF UpdateRead, TypeOK, Task
    <3> HIDE DEF u
    <3> QED BY <1>1, <3>1
  <2>4. CASE CallFails(q)
    <3>1. Goto(q, AfterFailure(t)) /\ t.pc # "idle"
      BY <2>4 DEF CallFails, Busy
    <3> QED BY <1>1, <3>1, AfterContinues DEF Continues
  <2> QED BY <1>8, <2>1, <2>2, <2>3, <2>4 DEF UpdateStep
<1>9. ASSUME NEW q \in Procs, Crash(q)
      PROVE  Goal
  BY <1>1, <1>9 DEF Crash, Idle
<1>10. CASE MarkExpired \/ Tick
  BY <1>2, <1>10 DEF MarkExpired, Tick
<1> QED
  BY <1>3, <1>4, <1>5, <1>6, <1>7, <1>8, <1>9, <1>10 DEF Next, Procs

\* Only labelled subscriptions reach the insert, after every step.
LEMMA LabelNext ==
  ASSUME TypeOK, PeriodInv, LabelInv, Next
  PROVE  LabelInv'
<1>1. ASSUME NEW p \in Procs, task'[p].pc = "create"
      PROVE  task'[p].sub \in Labelled
  BY <1>1, TaskSteps DEF LabelInv, Continues
<1>2. ASSUME NEW s \in Subs, Exists(s)'
      PROVE  s \in Labelled
  <2>1. CASE UNCHANGED born
    BY <1>2, <2>1 DEF LabelInv, OnlyLabelledStored, Exists
  <2>2. ASSUME NEW h \in Workers, CreateRow(h)
        PROVE  s \in Labelled
    <3>1. task[h].sub \in Labelled
      BY <2>2 DEF CreateRow, LabelInv, Procs
    <3>2. s = task[h].sub \/ born'[s] = born[s]
      BY <2>2 DEF CreateRow, TypeOK
    <3> QED BY <1>2, <3>1, <3>2 DEF LabelInv, OnlyLabelledStored, Exists
  <2> QED BY <2>1, <2>2, BornSteps
<1> QED
  BY <1>1, <1>2 DEF LabelInv, OnlyLabelledStored

\* The mail stays owed to at most one process, after every step.
LEMMA MailNext ==
  ASSUME TypeOK, PeriodInv, MailInv, Next
  PROVE  MailInv'
<1>1. ASSUME NEW p \in Procs, task'[p].pc = "created_mail"
      PROVE  task'[p] = task[p] \/ CreateRow(p)
  BY <1>1, TaskSteps DEF Continues
<1>2. \A p \in Procs : task[p].sub \in Subs
  BY DEF TypeOK, Task
<1>3. ASSUME NEW h \in Procs, NEW s \in Subs, s = task[h].sub, CreateRow(h), ~Exists(s)
      PROVE  MailInv'
  <2>1. /\ UNCHANGED created
        /\ born' = [born EXCEPT ![s] = NextRank]
        /\ Goto(h, At(task[h], "created_mail"))
    BY <1>3 DEF CreateRow
  <2>2. task'[h].sub = s /\ \A q \in Procs : q # h => task'[q] = task[q]
    BY <1>3, <2>1, GotoTask, TaskFields DEF TypeOK, Step
  <2>3. Exists(s)' /\ \A r \in Subs : r # s => born'[r] = born[r]
    BY <2>1, RankType DEF TypeOK, Exists
  <2>4. created[s] = 0 /\ \A q \in Procs : task[q].pc = "created_mail" => task[q].sub # s
    BY <1>3 DEF MailInv
  <2>5. \A r \in Subs : Exists(r) => Exists(r)'
    BY <2>3 DEF Exists
  <2>6. ASSUME NEW q \in Procs, q # h, task'[q].pc = "created_mail"
        PROVE  task[q].pc = "created_mail" /\ task'[q] = task[q] /\ task[q].sub # s
    BY <2>2, <2>4, <2>6
  <2>7. ASSUME NEW p \in Procs, task'[p].pc = "created_mail",
               NEW r \in Subs, r = task'[p].sub
        PROVE  /\ Exists(r)' /\ created'[r] = 0
               /\ \A q \in Procs : task'[q].pc = "created_mail" /\ task'[q].sub = r => q = p
    <3>1. CASE p = h
      BY <2>1, <2>2, <2>3, <2>4, <2>6, <2>7, <3>1
    <3>2. CASE p # h
      <4>1. task[p].pc = "created_mail" /\ task'[p] = task[p] /\ r # s /\ r = task[p].sub
        BY <2>6, <2>7, <3>2
      <4>2. Exists(r)' /\ created'[r] = 0
        BY <2>1, <2>5, <4>1 DEF MailInv
      <4> QED BY <2>2, <2>6, <4>1, <4>2 DEF MailInv
    <3> QED BY <3>1, <3>2
  <2>8. \A r \in Subs : ~Exists(r)' => created'[r] = 0
    BY <2>1, <2>5 DEF MailInv
  <2>9. CreatedMailOnce'
    BY <2>1 DEF MailInv, CreatedMailOnce
  <2>10. \A p \in Procs : task'[p].pc = "created_mail" => task'[p].sub \in Subs
    BY <1>2, <2>2
  <2>11. ASSUME NEW p \in Procs, task'[p].pc = "created_mail"
         PROVE  /\ born'[task'[p].sub] > 0 /\ created'[task'[p].sub] = 0
                /\ \A q \in Procs : task'[q].pc = "created_mail" /\ task'[q].sub = task'[p].sub => q = p
    <3>1. PICK r \in Subs : r = task'[p].sub
      BY <2>10, <2>11
    <3> QED BY <2>7, <2>11, <3>1 DEF Exists
  <2> QED BY <2>8, <2>9, <2>11 DEF MailInv, Exists
<1>4. ASSUME NEW h \in Workers, NEW s \in Subs, s = task[h].sub, SendCreatedMail(h)
      PROVE  MailInv'
  <2>1. /\ task[h].pc = "created_mail" /\ created' = [created EXCEPT ![s] = @ + 1]
        /\ UNCHANGED born /\ Goto(h, Idle) /\ h \in Procs
    BY <1>4 DEF SendCreatedMail, Procs
  <2>2. task'[h].pc = "idle" /\ \A q \in Procs : q # h => task'[q] = task[q]
    BY <2>1, GotoTask DEF Idle
  <2>3. Exists(s) /\ created[s] = 0
    BY <1>4, <2>1 DEF MailInv
  <2>4. created'[s] = 1 /\ \A r \in Subs : r # s => created'[r] = created[r]
    BY <2>1, <2>3 DEF TypeOK
  <2>5. ASSUME NEW p \in Procs, task'[p].pc = "created_mail"
        PROVE  /\ task'[p] = task[p] /\ task[p].pc = "created_mail"
               /\ task[p].sub # s /\ task[p].sub \in Subs
    BY <1>2, <1>4, <2>1, <2>2, <2>5 DEF MailInv
  <2>6. ASSUME NEW p \in Procs, task'[p].pc = "created_mail"
        PROVE  /\ born'[task'[p].sub] > 0 /\ created'[task'[p].sub] = 0
               /\ \A q \in Procs : task'[q].pc = "created_mail" /\ task'[q].sub = task'[p].sub => q = p
    <3>1. born[task[p].sub] > 0 /\ created[task[p].sub] = 0
      BY <2>5, <2>6 DEF MailInv, Exists
    <3>2. born'[task'[p].sub] > 0 /\ created'[task'[p].sub] = 0
      BY <2>1, <2>4, <2>5, <2>6, <3>1
    <3>3. ASSUME NEW q \in Procs, task'[q].pc = "created_mail",
                 task'[q].sub = task'[p].sub
          PROVE  q = p
      BY <2>5, <2>6, <3>3 DEF MailInv
    <3> QED BY <3>2, <3>3
  <2>7. \A r \in Subs : ~(born'[r] > 0) => created'[r] = 0
    BY <2>1, <2>3, <2>4 DEF MailInv, Exists
  <2>8. CreatedMailOnce'
    BY <2>4 DEF MailInv, CreatedMailOnce
  <2> QED BY <2>6, <2>7, <2>8 DEF MailInv, Exists
<1>5. CASE /\ UNCHANGED <<born, created>>
           /\ ~(\E h \in Procs : CreateRow(h) /\ ~Exists(task[h].sub))
  <2>1. ASSUME NEW p \in Procs, task'[p].pc = "created_mail"
        PROVE  task'[p] = task[p]
    <3>1. CASE CreateRow(p)
      <4>1. task' = [task EXCEPT ![p] = Idle]
        BY <1>5, <3>1 DEF CreateRow, Goto
      <4> QED BY <2>1, <4>1 DEF TypeOK, Idle
    <3> QED BY <1>1, <2>1, <3>1
  <2>2. ASSUME NEW p \in Procs, task'[p].pc = "created_mail"
        PROVE  /\ born'[task'[p].sub] > 0 /\ created'[task'[p].sub] = 0
               /\ \A q \in Procs : task'[q].pc = "created_mail" /\ task'[q].sub = task'[p].sub => q = p
    <3>1. task[p].pc = "created_mail" /\ task'[p] = task[p]
      BY <2>1, <2>2
    <3>2. born'[task'[p].sub] > 0 /\ created'[task'[p].sub] = 0
      BY <1>5, <3>1 DEF MailInv, Exists
    <3>3. ASSUME NEW q \in Procs, task'[q].pc = "created_mail",
                 task'[q].sub = task'[p].sub
          PROVE  q = p
      BY <2>1, <3>1, <3>3 DEF MailInv
    <3> QED BY <3>2, <3>3
  <2>3. \A s \in Subs : ~(born'[s] > 0) => created'[s] = 0
    BY <1>5 DEF MailInv, Exists
  <2>4. CreatedMailOnce'
    BY <1>5 DEF MailInv, CreatedMailOnce
  <2> QED BY <2>2, <2>3, <2>4 DEF MailInv, Exists
<1>6. ASSUME NEW h \in Procs, CreateRow(h), Exists(task[h].sub)
      PROVE  UNCHANGED <<born, created>>
  BY <1>6 DEF CreateRow
<1> QED
  <2>1. CASE \E h \in Procs : CreateRow(h) /\ ~Exists(task[h].sub)
    BY <1>2, <1>3, <2>1
  <2>2. CASE \E h \in Workers : SendCreatedMail(h)
    BY <1>2, <1>4, <2>2 DEF Procs
  <2>3. CASE /\ ~(\E h \in Procs : CreateRow(h) /\ ~Exists(task[h].sub))
             /\ ~(\E h \in Workers : SendCreatedMail(h))
    BY <1>5, <1>6, <2>3, BornSteps DEF Procs
  <2> QED BY <2>1, <2>2, <2>3

-----------------------------------------------------------------------------
\* The theorems.

\* Every step keeps the types.
LEMMA TypeNext == TypeOK /\ WorkerHoldsEvent /\ Next => TypeOK'
<1> SUFFICES ASSUME TypeOK, WorkerHoldsEvent, Next
             PROVE  TypeOK'
  OBVIOUS
<1>1. CASE Tick
  BY <1>1 DEF Tick, TypeOK
<1> QED
  BY <1>1, StripeType, DeliverType, HandlerType, UpdateType, ExpiringType, RequestType,
     CronType, MarkExpiredType, FaultType DEF Next, Procs

\* What holds of every reachable state.
IInv == TypeOK /\ WorkerHoldsEvent /\ PeriodInv /\ LabelInv /\ MailInv

\* Nothing has happened yet at the start.
LEMMA InitInv == Init => IInv
<1> SUFFICES ASSUME Init PROVE IInv
  OBVIOUS
<1>1. NoSub \in StripeSub /\ NoRow \in Row
  BY DEF NoSub, StripeSub, StripeStatus, NoRow, Row, SubscriptionStatus
<1>2. TypeOK
  BY <1>1, IdleType DEF Init, TypeOK
<1>3. \A p \in Procs : task[p].pc = "idle"
  BY DEF Init, Idle
<1>4. \A s \in Subs : /\ stripe[s].status = "none" /\ stripe[s].end = 0
                      /\ created[s] = 0 /\ ~Exists(s)
  BY DEF Init, NoSub, Exists
<1>5. WorkerHoldsEvent /\ PeriodInv
  BY <1>3, <1>4 DEF WorkerHoldsEvent, PeriodInv, Busy, Billed, RowWithinBilledPeriod,
     Init, Procs
<1>6. LabelInv /\ MailInv
  BY <1>3, <1>4 DEF LabelInv, OnlyLabelledStored, MailInv, CreatedMailOnce
<1> QED
  BY <1>2, <1>5, <1>6 DEF IInv

\* ... and every step keeps it.
LEMMA NextInv == IInv /\ [Next]_vars => IInv'
<1> SUFFICES ASSUME IInv, [Next]_vars PROVE IInv'
  OBVIOUS
<1>1. CASE Next
  <2>1. TypeOK' /\ WorkerHoldsEvent' /\ PeriodInv'
    BY <1>1, TypeNext, PeriodNext DEF IInv
  <2>2. LabelInv' /\ MailInv'
    BY <1>1, LabelNext, MailNext DEF IInv
  <2> QED BY <2>1, <2>2 DEF IInv
<1>2. CASE UNCHANGED vars
  BY <1>2 DEF vars, IInv, TypeOK, WorkerHoldsEvent, Busy, PeriodInv, Sound, Billed,
     RowWithinBilledPeriod, LabelInv, OnlyLabelledStored, MailInv, CreatedMailOnce, Exists
<1> QED
  BY <1>1, <1>2

\* The inductive invariant holds of every behaviour.
THEOREM Invariant == Spec => []IInv
BY InitInv, NextInv, PTL DEF Spec

\* Every reachable state is well typed: whatever Stripe sends, in whatever
\* order, however calls fail and processes die.
THEOREM TypeCorrect == Spec => []TypeOK
<1>1. IInv => TypeOK
  BY DEF IInv
<1> QED
  BY <1>1, Invariant, PTL

\* handleSubscriptionCreated announces a subscription at most once, with any
\* number of webhooks in flight, repeated, failing and interrupted.
THEOREM AnnouncedOnce == Spec => []CreatedMailOnce
<1>1. IInv => CreatedMailOnce
  BY DEF IInv, MailInv
<1> QED
  BY <1>1, Invariant, PTL

\* No handler stores a period end beyond the one Stripe has billed.
THEOREM WithinBilledPeriod == Spec => []RowWithinBilledPeriod
<1>1. IInv => RowWithinBilledPeriod
  BY DEF IInv, PeriodInv
<1> QED
  BY <1>1, Invariant, PTL

\* Chat access never outlasts the billed period.
THEOREM AccessBilled == Spec => []AccessIsBilled
<1>1. ASSUME TypeOK, RowWithinBilledPeriod
      PROVE  AccessIsBilled
  <2> SUFFICES ASSUME NEW u \in Users, ChatAccess(u)
               PROVE  \E s \in Subs : Owner[s] = u /\ now < stripe[s].end
    BY DEF AccessIsBilled
  <2>1. PICK s \in Subs : Owner[s] = u /\ Exists(s) /\ now < rows[s].end
    BY DEF ChatAccess, RowsOf
  <2>2. rows[s].end <= stripe[s].end
    BY <1>1, <2>1 DEF RowWithinBilledPeriod
  <2>3. now \in Nat /\ rows[s].end \in Nat /\ stripe[s].end \in Nat
    BY <1>1 DEF TypeOK, Row, StripeSub
  <2> QED BY <2>1, <2>2, <2>3
<1> QED
  BY <1>1, TypeCorrect, WithinBilledPeriod, PTL

\* No webhook handler stores a subscription without user and plan in its
\* metadata, on any of the four handler paths, even when calls fail.  (It says
\* nothing of POST /subscription, which is no step of the specification.)
THEOREM LabelledStored == Spec => []OnlyLabelledStored
<1>1. IInv => OnlyLabelledStored
  BY DEF IInv, LabelInv
<1> QED
  BY <1>1, Invariant, PTL

=============================================================================
