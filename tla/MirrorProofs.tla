----------------------------- MODULE MirrorProofs -----------------------------
(***************************************************************************)
(* More theorems about Subscription: who writes a row beside the webhook   *)
(* handlers, how often the coming expiry is announced, and under which     *)
(* conditions the rows mirror Stripe.                                      *)
(***************************************************************************)
EXTENDS SubscriptionProofs

USE DEF stripeVars, queueVars, dbVars, mailVars

-----------------------------------------------------------------------------
\* The steps of a process.

\* What a step of a webhook handler, other than an update or a warning, leaves
\* alone, and what its task may become.
LEMMA HandlerFacts ==
  ASSUME TypeOK, NEW h \in Workers, HandlerStep(h)
  PROVE  LET t == task[h]
             u == task'[h] IN
         /\ UNCHANGED <<stripe, pending, sent, todo, expiring, now, faults>>
         /\ \A p \in Procs : p # h => task'[p] = task[p]
         /\ t.pc \in {"start", "fetch", "find", "create", "created_mail", "cancel_mail"}
         /\ u.pc \in {"idle", "find", "fetch", "create", "created_mail", "read"}
         /\ u.pc = "idle" \/ u.ev = t.ev
         /\ u.pc = "read" => /\ "notified" \notin u.set
                             /\ t.ev.kind = "updated" =>
                                   u.old = rows[u.sub] /\ Exists(u.sub)
         /\ UNCHANGED <<rows, born>> \/ CreateRow(h)
<1> DEFINE t == task[h]
           w == WithRow(t)
           Facts(u) ==
             /\ u.pc \in {"idle", "find", "fetch", "create", "created_mail", "read"}
             /\ u.pc = "idle" \/ u.ev = t.ev
             /\ u.pc = "read" => /\ "notified" \notin u.set
                                 /\ t.ev.kind = "updated" =>
                                       u.old = rows[u.sub] /\ Exists(u.sub)
<1>1. h \in Procs /\ t \in Task /\ Idle.pc = "idle"
  BY DEF Procs, TypeOK, Idle
<1>2. /\ w \in Task /\ w.ev = t.ev /\ w.sub = t.sub /\ w.old = rows[t.sub]
      /\ w.known = Exists(t.sub)
  BY <1>1, WithRowFields DEF WithRow, Task
<1>3. UNCHANGED <<stripe, pending, sent, todo, expiring, now, faults>>
  BY DEF HandlerStep, SubscriptionCreated, CheckoutCompleted, SubscriptionUpdated,
     SubscriptionDeleted, InvoicePaid, InvoicePaymentFailed, ChargeRefunded, Handle,
     FetchSubscription, FindBeforeCreate, CreateRow, SendCreatedMail, SendCancelledMail
<1>4. UNCHANGED <<rows, born>> \/ CreateRow(h)
  BY DEF HandlerStep, SubscriptionCreated, CheckoutCompleted, SubscriptionUpdated,
     SubscriptionDeleted, InvoicePaid, InvoicePaymentFailed, ChargeRefunded, Handle,
     FetchSubscription, FindBeforeCreate, SendCreatedMail, SendCancelledMail
<1>5. ASSUME NEW a \in Task, NEW pc \in Step, pc \in {"find", "fetch", "create", "created_mail"},
             a.ev = t.ev
      PROVE  Facts(At(a, pc))
  BY <1>5, TaskFields
<1>6. ASSUME NEW a \in Task, a.ev = t.ev, NEW set, "notified" \notin set, NEW body,
             t.ev.kind = "updated" => a.old = rows[a.sub] /\ Exists(a.sub)
      PROVE  Facts(Writing(a, set, body))
  <2> DEFINE v == Writing(a, set, body)
  <2> SUFFICES Facts(v)
    OBVIOUS
  <2>1. v.pc = "read" /\ v.ev = a.ev /\ v.sub = a.sub /\ v.set = set /\ v.old = a.old
    BY DEF Writing, Task
  <2> HIDE DEF v
  <2> QED
    BY <1>6, <2>1
<1>7. Facts(Idle)
  BY <1>1
<1> SUFFICES \E u : /\ Goto(h, u) /\ Facts(u)
                    /\ t.pc \in {"start", "fetch", "find", "create", "created_mail",
                                 "cancel_mail"}
  <2>1. ASSUME NEW u, Goto(h, u)
        PROVE  task'[h] = u /\ \A p \in Procs : p # h => task'[p] = task[p]
    BY <1>1, <2>1, GotoTask
  <2> HIDE DEF Facts
  <2>2. PICK u : Goto(h, u) /\ Facts(u)
                 /\ t.pc \in {"start", "fetch", "find", "create", "created_mail",
                              "cancel_mail"}
    OBVIOUS
  <2>3. Facts(task'[h]) /\ \A p \in Procs : p # h => task'[p] = task[p]
    BY <2>1, <2>2
  <2> QED
    BY <1>3, <1>4, <2>2, <2>3 DEF Facts
<1>8. ASSUME NEW kind, NEW u, Handle(h, kind, u), Facts(u)
      PROVE  \E v : /\ Goto(h, v) /\ Facts(v)
                    /\ t.pc \in {"start", "fetch", "find", "create", "created_mail",
                                 "cancel_mail"}
  BY <1>8 DEF Handle
<1>9. Facts(FindThenCreate(t))
  BY <1>1, <1>5, <1>7 DEF FindThenCreate, Step
<1>10. /\ Facts(At(w, "find")) /\ Facts(At(w, "fetch")) /\ Facts(At(t, "created_mail"))
  BY <1>1, <1>2, <1>5 DEF Step
<1>11. CASE SubscriptionCreated(h)
  BY <1>8, <1>9, <1>11 DEF SubscriptionCreated
<1>12. CASE CheckoutCompleted(h)
  <2> DEFINE u == [At(t, "find") EXCEPT !.snap = PeriodView(stripe[t.sub], FetchLegacy)]
  <2>1. u.pc = "find" /\ u.ev = t.ev
    BY <1>1 DEF At, Task
  <2>2. Handle(h, "checkout", u)
    BY <1>12 DEF CheckoutCompleted
  <2> HIDE DEF u
  <2>3. Facts(u)
    BY <2>1
  <2> QED
    BY <1>8, <2>2, <2>3
<1>13. CASE SubscriptionUpdated(h)
  <2> DEFINE body == [RowFrom(w.snap) EXCEPT !.notified = w.old.notified]
             u == Writing(w, {"status", "billing", "end", "cape"}, body)
  <2>1. Handle(h, "updated", IF ~w.known THEN At(w, "find") ELSE u)
    BY <1>13 DEF SubscriptionUpdated
  <2>2. ASSUME w.known PROVE Facts(u)
    BY <1>2, <1>6, <2>2
  <2> HIDE DEF u, Facts
  <2> QED
    BY <1>8, <1>10, <2>1, <2>2
<1>14. CASE SubscriptionDeleted(h)
  <2> DEFINE body == [w.old EXCEPT !.status = "cancelled", !.billing = "canceled",
                                   !.cape = FALSE]
             u == Writing(w, {"status", "billing", "cape"}, body)
  <2>1. Handle(h, "deleted", IF ~w.known THEN Idle ELSE u) /\ t.ev.kind = "deleted"
    BY <1>14 DEF SubscriptionDeleted, Handle
  <2>2. Facts(u)
    BY <1>2, <1>6, <2>1
  <2> HIDE DEF u, Facts
  <2> QED
    BY <1>7, <1>8, <2>1, <2>2
<1>15. CASE InvoicePaid(h) \/ InvoicePaymentFailed(h)
  <2>1. \E kind : Handle(h, kind, Idle) \/ Handle(h, kind, At(w, "fetch"))
    BY <1>15 DEF InvoicePaid, InvoicePaymentFailed
  <2> HIDE DEF Facts
  <2> QED
    BY <1>7, <1>8, <1>10, <2>1
<1>16. CASE ChargeRefunded(h)
  <2>1. ASSUME NEW s \in Subs,
               LET r == WithRow([t EXCEPT !.sub = s]) IN
               Handle(h, "refunded",
                      IF r.old.status # "active" THEN Idle
                      ELSE Writing(r, {"status"}, [r.old EXCEPT !.status = "cancelled"]))
        PROVE  \E kind, u : Handle(h, kind, u) /\ Facts(u)
    <3> DEFINE r == WithRow([t EXCEPT !.sub = s])
               u == Writing(r, {"status"}, [r.old EXCEPT !.status = "cancelled"])
    <3>1. [t EXCEPT !.sub = s] \in Task /\ [t EXCEPT !.sub = s].ev = t.ev
      BY <1>1 DEF Task
    <3>2. r \in Task /\ r.ev = t.ev
      BY <3>1, WithRowFields
    <3>3. Handle(h, "refunded", IF r.old.status # "active" THEN Idle ELSE u)
      BY <2>1
    <3>4. t.ev.kind = "refunded"
      BY <3>3 DEF Handle
    <3>5. Facts(u)
      <4> HIDE DEF r
      <4> QED BY <1>6, <3>2, <3>4
    <3> HIDE DEF u, r, Facts
    <3> QED
      BY <1>7, <3>3, <3>5
  <2>2. CASE Handle(h, "refunded", Idle)
    BY <1>7, <1>8, <2>2
  <2> HIDE DEF Facts
  <2> QED
    BY <1>8, <1>16, <2>1, <2>2 DEF ChargeRefunded, RowsOf
<1>17. CASE FetchSubscription(h)
  <2> DEFINE live == PeriodView(stripe[t.sub], FetchLegacy)
             paid == [t.old EXCEPT !.status = "active", !.billing = "active",
                                   !.end = live.end]
             failed == [t.old EXCEPT
                          !.status = IF live.status = "past_due" THEN "expired" ELSE @,
                          !.billing = live.status]
             u == [t EXCEPT !.snap = live]
             f == [t EXCEPT !.pc = "find", !.snap = live]
  <2>1. live \in StripeSub
    BY <1>1, PeriodViewType DEF TypeOK, Task
  <2>2. u \in Task /\ u.ev = t.ev /\ f.pc = "find" /\ f.ev = t.ev
    BY <1>1, <2>1 DEF Task
  <2>3. /\ t.pc = "fetch" /\ t.ev.kind # "updated"
        /\ \/ Goto(h, Idle) \/ Goto(h, f)
           \/ Goto(h, Writing(t, {"status", "billing"}, failed))
           \/ Goto(h, Writing(u, {"status", "billing", "end"}, paid))
    BY <1>17 DEF FetchSubscription
  <2> HIDE DEF failed, paid, u, f
  <2>4. /\ Facts(Writing(t, {"status", "billing"}, failed))
        /\ Facts(Writing(u, {"status", "billing", "end"}, paid))
    BY <1>1, <1>6, <2>2, <2>3
  <2>5. Facts(f)
    BY <2>2
  <2> HIDE DEF Facts
  <2> QED
    BY <1>7, <2>3, <2>4, <2>5
<1>18. CASE FindBeforeCreate(h)
  <2> HIDE DEF Facts
  <2> QED BY <1>9, <1>18 DEF FindBeforeCreate
<1>19. CASE CreateRow(h)
  <2> HIDE DEF Facts
  <2> QED BY <1>7, <1>10, <1>19 DEF CreateRow
<1>20. CASE SendCreatedMail(h) \/ SendCancelledMail(h)
  <2> HIDE DEF Facts
  <2> QED BY <1>7, <1>20 DEF SendCreatedMail, SendCancelledMail
<1> QED
  BY <1>11, <1>12, <1>13, <1>14, <1>15, <1>16, <1>17, <1>18, <1>19, <1>20 DEF HandlerStep

\* Who moves the process p: itself alone.
LEMMA ProcSteps ==
  ASSUME TypeOK, Next, NEW p \in Procs
  PROVE  \/ task'[p] = task[p]
         \/ p \in Workers /\ ((\E e \in pending : Deliver(p, e)) \/ HandlerStep(p))
         \/ /\ p \in Requests
            /\ \/ \E s \in Subs, kind \in RequestKind : StartRequest(p, s, kind)
               \/ RequestStripe(p)
         \/ p \in Crons /\ \E s \in Subs : CronNext(p, s)
         \/ p \in Workers \cup Crons /\ SendExpiringMail(p)
         \/ UpdateStep(p) \/ CallFails(p) \/ Crash(p)
<1> DEFINE Goal == \/ task'[p] = task[p]
                   \/ p \in Workers /\ ((\E e \in pending : Deliver(p, e)) \/ HandlerStep(p))
                   \/ /\ p \in Requests
                      /\ \/ \E s \in Subs, kind \in RequestKind : StartRequest(p, s, kind)
                         \/ RequestStripe(p)
                   \/ p \in Crons /\ \E s \in Subs : CronNext(p, s)
                   \/ p \in Workers \cup Crons /\ SendExpiringMail(p)
                   \/ UpdateStep(p) \/ CallFails(p) \/ Crash(p)
<1> SUFFICES Goal
  OBVIOUS
<1>1. ASSUME NEW q \in Procs, NEW t, Goto(q, t), q # p
      PROVE  Goal
  BY <1>1, GotoTask
<1>2. CASE UNCHANGED task
  BY <1>2
<1>3. Workers \subseteq Procs /\ Requests \subseteq Procs /\ Crons \subseteq Procs
  BY DEF Procs
<1>4. CASE StripeStep \/ Tick \/ MarkExpired \/ \E u \in Users : Checkout(u)
  BY <1>2, <1>4 DEF StripeStep, StripeBegins, StripeRenews, StripePaymentFails,
     StripeRecovers, StripeEnds, StripeRefunds, StripeChange, Tick, MarkExpired, Checkout
<1>5. ASSUME NEW h \in Workers, HandlerStep(h), h # p
      PROVE  Goal
  BY <1>3, <1>5, HandlerFacts
<1>6. ASSUME NEW h \in Workers, NEW e \in pending, Deliver(h, e), h # p
      PROVE  Goal
  <2> HIDE DEF Goal
  <2> QED BY <1>1, <1>3, <1>6 DEF Deliver
<1>7. ASSUME NEW r \in Requests, RequestStripe(r), r # p
      PROVE  Goal
  <2> HIDE DEF Goal
  <2> QED BY <1>1, <1>3, <1>7 DEF RequestStripe
<1>8. ASSUME NEW r \in Requests, NEW s \in Subs, NEW kind \in RequestKind,
             StartRequest(r, s, kind), r # p
      PROVE  Goal
  <2> HIDE DEF Goal
  <2> QED BY <1>1, <1>3, <1>8 DEF StartRequest
<1>9. ASSUME NEW c \in Crons, NEW s \in Subs, CronNext(c, s), c # p
      PROVE  Goal
  <2> HIDE DEF Goal
  <2> QED BY <1>1, <1>3, <1>9 DEF CronNext
<1>10. ASSUME NEW c \in Crons, CronList(c)
       PROVE  Goal
  BY <1>2, <1>10 DEF CronList
<1>11. ASSUME NEW q \in Procs, q # p,
              UpdateStep(q) \/ CallFails(q) \/ Crash(q) \/ SendExpiringMail(q)
       PROVE  Goal
  <2> HIDE DEF Goal
  <2> QED
    BY <1>1, <1>11 DEF UpdateStep, UpdateRead, UpdateSave, CallFails, Crash, SendExpiringMail
<1>12. CASE \E h \in Workers : (\E e \in pending : Deliver(h, e)) \/ HandlerStep(h)
  <2> PICK h \in Workers : (\E e \in pending : Deliver(h, e)) \/ HandlerStep(h)
    BY <1>12
  <2>1. CASE h = p
    BY <2>1
  <2>2. CASE h # p
    <3> HIDE DEF Goal
    <3> QED BY <1>5, <1>6, <2>2
  <2> QED BY <2>1, <2>2
<1>13. CASE RequestStep
  <2>1. ASSUME NEW r \in Requests,
               \/ \E s \in Subs, kind \in RequestKind : StartRequest(r, s, kind)
               \/ RequestStripe(r)
        PROVE  Goal
    <3>1. CASE r = p
      BY <2>1, <3>1
    <3>2. CASE r # p
      <4> HIDE DEF Goal
      <4> QED BY <1>7, <1>8, <2>1, <3>2
    <3> QED BY <3>1, <3>2
  <2> HIDE DEF Goal
  <2> QED BY <1>4, <1>13, <2>1 DEF RequestStep
<1>14. CASE \E c \in Crons : CronStep(c)
  <2> PICK c \in Crons : CronStep(c)
    BY <1>14
  <2>1. ASSUME NEW s \in Subs, CronNext(c, s)
        PROVE  Goal
    <3>1. CASE c = p
      BY <2>1, <3>1
    <3>2. CASE c # p
      <4> HIDE DEF Goal
      <4> QED BY <1>9, <2>1, <3>2
    <3> QED BY <3>1, <3>2
  <2> HIDE DEF Goal
  <2> QED BY <1>10, <2>1 DEF CronStep
<1>15. CASE \E q \in Workers \cup Crons : SendExpiringMail(q)
  <2> PICK q \in Workers \cup Crons : SendExpiringMail(q)
    BY <1>15
  <2>1. CASE q = p
    BY <2>1
  <2>2. CASE q # p
    <3> HIDE DEF Goal
    <3> QED BY <1>3, <1>11, <2>2
  <2> QED BY <2>1, <2>2
<1>16. CASE \E q \in Procs : UpdateStep(q) \/ CallFails(q) \/ Crash(q)
  <2> PICK q \in Procs : UpdateStep(q) \/ CallFails(q) \/ Crash(q)
    BY <1>16
  <2>1. CASE q = p
    BY <2>1
  <2>2. CASE q # p
    <3> HIDE DEF Goal
    <3> QED BY <1>11, <2>2
  <2> QED BY <2>1, <2>2
<1> HIDE DEF Goal
<1> QED
  BY <1>4, <1>12, <1>13, <1>14, <1>15, <1>16 DEF Next

\* Who moves the list of the cron job c.
LEMMA TodoSteps ==
  ASSUME TypeOK, Next, NEW c \in Crons
  PROVE  \/ todo'[c] = todo[c]
         \/ CronList(c) \/ (\E s \in Subs : CronNext(c, s)) \/ Crash(c)
<1>1. \/ UNCHANGED todo
      \/ \E d \in Crons : CronList(d) \/ \E s \in Subs : CronNext(d, s)
      \/ \E q \in Procs : Crash(q)
  <2>1. ASSUME NEW h \in Workers, HandlerStep(h)
        PROVE  UNCHANGED todo
    BY <2>1, HandlerFacts
  <2>2. CASE StripeStep
    BY <2>2 DEF StripeStep, StripeBegins, StripeRenews, StripePaymentFails,
       StripeRecovers, StripeEnds, StripeRefunds, StripeChange
  <2>3. ASSUME NEW h \in Workers, NEW e \in pending, Deliver(h, e)
        PROVE  UNCHANGED todo
    BY <2>3 DEF Deliver
  <2>4. CASE RequestStep
    BY <2>4 DEF RequestStep, Checkout, StartRequest, RequestStripe
  <2>5. ASSUME NEW q \in Procs, SendExpiringMail(q) \/ UpdateStep(q) \/ CallFails(q)
        PROVE  UNCHANGED todo
    BY <2>5 DEF SendExpiringMail, UpdateStep, UpdateRead, UpdateSave, CallFails
  <2>6. CASE MarkExpired \/ Tick
    BY <2>6 DEF MarkExpired, Tick
  <2> QED
    BY <2>1, <2>2, <2>3, <2>4, <2>5, <2>6 DEF Next, CronStep, Procs
<1>2. ASSUME NEW d \in Crons, CronList(d) \/ \E s \in Subs : CronNext(d, s), d # c
      PROVE  todo'[c] = todo[c]
  BY <1>2 DEF CronList, CronNext, TypeOK
<1>3. ASSUME NEW q \in Procs, Crash(q), q # c
      PROVE  todo'[c] = todo[c]
  BY <1>3 DEF Crash, TypeOK
<1> QED
  BY <1>1, <1>2, <1>3

\* Who writes rows.
LEMMA RowSteps ==
  ASSUME TypeOK, Next
  PROVE  \/ UNCHANGED rows
         \/ \E h \in Workers : CreateRow(h) /\ ~Exists(task[h].sub)
         \/ \E p \in Procs : UpdateSave(p)
         \/ MarkExpired
<1>1. ASSUME NEW h \in Workers, HandlerStep(h)
      PROVE  UNCHANGED rows \/ (CreateRow(h) /\ ~Exists(task[h].sub))
  <2>1. CASE CreateRow(h)
    BY <2>1 DEF CreateRow
  <2> QED BY <1>1, <2>1, HandlerFacts
<1>2. CASE StripeStep
  BY <1>2 DEF StripeStep, StripeBegins, StripeRenews, StripePaymentFails,
     StripeRecovers, StripeEnds, StripeRefunds, StripeChange
<1>3. ASSUME NEW h \in Workers, NEW e \in pending, Deliver(h, e)
      PROVE  UNCHANGED rows
  BY <1>3 DEF Deliver
<1>4. CASE RequestStep
  BY <1>4 DEF RequestStep, Checkout, StartRequest, RequestStripe
<1>5. ASSUME NEW c \in Crons, CronStep(c)
      PROVE  UNCHANGED rows
  BY <1>5 DEF CronStep, CronList, CronNext
<1>6. ASSUME NEW q \in Procs, SendExpiringMail(q) \/ CallFails(q) \/ Crash(q) \/ UpdateRead(q)
      PROVE  UNCHANGED rows
  BY <1>6 DEF SendExpiringMail, CallFails, Crash, UpdateRead
<1>7. CASE Tick
  BY <1>7 DEF Tick
<1> QED
  BY <1>1, <1>2, <1>3, <1>4, <1>5, <1>6, <1>7 DEF Next, UpdateStep, Procs

-----------------------------------------------------------------------------
\* What each kind of process writes.

\* A user request writes cancel_at_period_end and nothing else.
RequestsInv ==
    \A r \in Requests :
        /\ task[r].pc \in {"idle", "stripe", "read", "save"}
        /\ task[r].pc # "idle" => task[r].ev.kind \in RequestKind
        /\ task[r].pc \in {"read", "save"} => task[r].set = {"cape"}

\* The cron job marks rows that exist, one after the other.
CronsInv ==
    \A c \in Crons :
        /\ task[c].pc \in {"idle", "notice", "read", "save"}
        /\ task[c].pc # "idle" =>
              task[c].ev.kind = "cron" /\ Exists(task[c].sub) /\ task[c].sub \notin todo[c]
        /\ task[c].pc \in {"read", "save"} => task[c].set = {"notified"}
        /\ \A s \in todo[c] : Exists(s)

\* A webhook handler warns, and marks the warning, only when it handles an
\* update of a row that exists and that it found without the mark.
WorkersInv ==
    \A h \in Workers :
        /\ task[h].pc # "stripe"
        /\ task[h].pc \in {"read", "save", "notice"} /\ task[h].ev.kind = "updated" =>
              Exists(task[h].sub)
        /\ task[h].pc \in {"read", "save"} /\ "notified" \in task[h].set =>
              task[h].ev.kind = "updated" /\ task[h].set = {"notified"}
        /\ task[h].pc = "notice" =>
              /\ task[h].ev.kind = "updated" /\ "status" \in task[h].set
              /\ ~task[h].old.notified

\* The mark is only ever set, and what is not there is not marked.
MarksInv ==
    /\ \A p \in Procs : task[p].pc \in {"read", "save"} /\ "notified" \in task[p].set =>
          /\ task[p].body.notified
          /\ task[p].pc = "save" /\ task[p].seen.notified => rows[task[p].sub].notified
    /\ \A s \in Subs : ~Exists(s) => ~rows[s].notified

WritersInv == RequestsInv /\ CronsInv /\ WorkersInv /\ MarksInv

\* A row stays, and so does its mark.
LEMMA RowsStay ==
  ASSUME TypeOK, MarksInv, Next, NEW s \in Subs
  PROVE  /\ Exists(s) => Exists(s)'
         /\ rows[s].notified => rows'[s].notified
<1>1. ASSUME Exists(s) PROVE Exists(s)'
  <2>1. ASSUME NEW h \in Workers, CreateRow(h)
        PROVE  born'[s] > 0
    BY <1>1, <2>1, RankType DEF CreateRow, TypeOK, Exists
  <2> QED
    BY <1>1, <2>1, BornSteps DEF Exists
<1>2. ASSUME rows[s].notified PROVE rows'[s].notified
  <2>1. ASSUME NEW h \in Workers, CreateRow(h), ~Exists(task[h].sub)
        PROVE  rows'[s].notified
    <3>1. Exists(s) /\ s # task[h].sub
      BY <1>2, <2>1 DEF MarksInv
    <3> QED BY <1>2, <2>1, <3>1 DEF CreateRow, TypeOK
  <2>2. ASSUME NEW p \in Procs, UpdateSave(p)
        PROVE  rows'[s].notified
    <3>1. task[p].pc = "save" /\ task[p].sub \in Subs
      BY <2>2 DEF UpdateSave, TypeOK, Task
    <3>2. CASE s # task[p].sub
      BY <1>2, <2>2, <3>2 DEF UpdateSave, TypeOK
    <3>3. CASE s = task[p].sub
      <4>1. rows'[s] = Saved(rows[s], task[p].seen, task[p].body, task[p].set)
        BY <2>2, <3>3 DEF UpdateSave, TypeOK
      <4>2. rows'[s].notified = IF "notified" \in task[p].set
                                   /\ task[p].body.notified # task[p].seen.notified
                                THEN task[p].body.notified ELSE rows[s].notified
        BY <4>1 DEF Saved
      <4> QED BY <1>2, <3>1, <4>2 DEF MarksInv
    <3> QED BY <3>2, <3>3
  <2>3. CASE MarkExpired
    BY <1>2, <2>3 DEF MarkExpired, TypeOK, Row
  <2> QED BY <1>2, <2>1, <2>2, <2>3, RowSteps
<1> QED BY <1>1, <1>2

-----------------------------------------------------------------------------
\* It holds of every reachable state.

\* What follows an update.
LEMMA AfterUpdateFacts ==
  ASSUME NEW t \in Task
  PROVE  LET u == AfterUpdate(t) IN
         /\ u.pc \in {"idle", "notice", "cancel_mail"}
         /\ u.pc # "idle" => /\ t.ev.kind = "updated" /\ u.ev = t.ev /\ u.sub = t.sub
                             /\ u.set = t.set /\ u.old = t.old
         /\ u.pc = "notice" => "status" \in t.set /\ ~t.old.notified
<1>1. ASSUME NEW pc \in Step
      PROVE  /\ At(t, pc).pc = pc /\ At(t, pc).ev = t.ev /\ At(t, pc).sub = t.sub
             /\ At(t, pc).set = t.set /\ At(t, pc).old = t.old
  BY DEF At, Task
<1>2. Idle.pc = "idle" /\ {"notice", "cancel_mail"} \subseteq Step
  BY DEF Idle, Step
<1>3. CASE AfterUpdate(t) = Idle
  BY <1>2, <1>3
<1>4. CASE /\ AfterUpdate(t) = At(t, "notice") /\ t.ev.kind = "updated"
           /\ "status" \in t.set /\ ExpiryDue(t)
  BY <1>1, <1>2, <1>4 DEF ExpiryDue
<1>5. CASE AfterUpdate(t) = At(t, "cancel_mail") /\ t.ev.kind = "updated"
  BY <1>1, <1>2, <1>5
<1> QED
  BY <1>3, <1>4, <1>5 DEF AfterUpdate

\* The mark of a warning.
LEMMA MarkingFacts ==
  ASSUME NEW t \in Task
  PROVE  LET u == Marking(t) IN
         /\ u.pc = "read" /\ u.ev = t.ev /\ u.sub = t.sub
         /\ u.set = {"notified"} /\ u.body.notified
<1> DEFINE body == [t.old EXCEPT !.notified = TRUE]
<1>1. body.notified
  BY DEF Task, Row
<1>2. Marking(t) = Writing(t, {"notified"}, body)
  BY DEF Marking
<1> HIDE DEF body
<1> QED
  BY <1>1, <1>2, TaskFields DEF Step

\* What follows a failed call.
LEMMA AfterFailureFacts ==
  ASSUME NEW t \in Task
  PROVE  LET u == AfterFailure(t) IN
         \/ u.pc = "idle"
         \/ /\ t.pc \in {"start", "find"} /\ u.pc \in {"find", "create", "fetch"}
            /\ u.ev = t.ev /\ u.sub = t.sub
         \/ t.pc \in {"read", "save"} /\ u = AfterUpdate(t)
         \/ t.pc = "notice" /\ u = Marking(t)
<1>1. Idle.pc = "idle" /\ {"find", "create", "fetch"} \subseteq Step
  BY DEF Idle, Step
<1>2. \/ AfterFailure(t) = Idle
      \/ t.pc \in {"start", "find"} /\ \E pc \in {"find", "create", "fetch"} :
            AfterFailure(t) = At(t, pc)
      \/ t.pc \in {"read", "save"} /\ AfterFailure(t) = AfterUpdate(t)
      \/ t.pc = "notice" /\ AfterFailure(t) = Marking(t)
  BY DEF AfterFailure
<1> QED
  BY <1>1, <1>2, TaskFields

\* What the four steps that any process may take make of its task.
LEMMA OwnSteps ==
  ASSUME TypeOK, NEW p \in Procs,
         SendExpiringMail(p) \/ UpdateStep(p) \/ CallFails(p) \/ Crash(p)
  PROVE  LET t == task[p]
             u == task'[p] IN
         \/ u.pc = "idle"
         \/ /\ t.pc = "read" /\ UpdateRead(p)
            /\ u.pc = "save" /\ u.ev = t.ev /\ u.sub = t.sub /\ u.set = t.set
            /\ u.old = t.old /\ u.body = t.body /\ u.seen = rows[t.sub]
         \/ t.pc \in {"read", "save"} /\ u = AfterUpdate(t)
         \/ t.pc = "notice" /\ u = Marking(t)
         \/ /\ CallFails(p) /\ t.pc \in {"start", "find"}
            /\ u.pc \in {"find", "create", "fetch"} /\ u.ev = t.ev /\ u.sub = t.sub
<1> DEFINE t == task[p]
<1>1. t \in Task
  BY DEF TypeOK
<1>2. CASE UpdateRead(p)
  <2> DEFINE u == [t EXCEPT !.pc = "save", !.seen = rows[t.sub]]
  <2>1. /\ u.pc = "save" /\ u.ev = t.ev /\ u.sub = t.sub /\ u.set = t.set
        /\ u.old = t.old /\ u.body = t.body /\ u.seen = rows[t.sub]
    BY <1>1 DEF Task
  <2>2. t.pc = "read" /\ task'[p] = u
    BY <1>2, GotoTask DEF UpdateRead
  <2> HIDE DEF u
  <2> QED BY <1>2, <2>1, <2>2
<1>3. CASE UpdateSave(p)
  BY <1>3, GotoTask DEF UpdateSave
<1>4. CASE SendExpiringMail(p)
  BY <1>4, GotoTask DEF SendExpiringMail
<1>5. CASE CallFails(p)
  <2>1. task'[p] = AfterFailure(t)
    BY <1>5, GotoTask DEF CallFails
  <2> QED BY <1>1, <1>5, <2>1, AfterFailureFacts
<1>6. CASE Crash(p)
  BY <1>6, GotoTask DEF Crash, Idle
<1> QED
  BY <1>2, <1>3, <1>4, <1>5, <1>6 DEF UpdateStep

\* The tasks of user requests.
LEMMA RequestsNext ==
  ASSUME TypeOK, WritersInv, Next
  PROVE  RequestsInv'
<1> SUFFICES ASSUME NEW r \in Requests
             PROVE  /\ task'[r].pc \in {"idle", "stripe", "read", "save"}
                    /\ task'[r].pc # "idle" => task'[r].ev.kind \in RequestKind
                    /\ task'[r].pc \in {"read", "save"} => task'[r].set = {"cape"}
  BY DEF RequestsInv
<1> DEFINE t == task[r]
<1>1. r \in Procs /\ r \notin Workers /\ r \notin Crons /\ t \in Task
  BY ConstantsAssumption DEF Procs, TypeOK
<1>2. /\ t.pc \in {"idle", "stripe", "read", "save"}
      /\ t.pc # "idle" => t.ev.kind \in RequestKind
      /\ t.pc \in {"read", "save"} => t.set = {"cape"}
  BY DEF WritersInv, RequestsInv
<1>3. "updated" \notin RequestKind
  BY DEF RequestKind
<1>4. ASSUME t.pc \in {"read", "save"} PROVE AfterUpdate(t).pc = "idle"
  BY <1>1, <1>2, <1>3, <1>4, AfterUpdateFacts
<1>5. ASSUME NEW s \in Subs, NEW kind \in RequestKind, StartRequest(r, s, kind)
      PROVE  task'[r].pc = "stripe" /\ task'[r].ev.kind = kind
  <2> DEFINE u == WithRow([Idle EXCEPT !.pc = "stripe", !.ev.kind = kind, !.sub = s])
  <2>1. u.pc = "stripe" /\ u.ev.kind = kind
    BY DEF WithRow, Idle, NoCause
  <2>2. Goto(r, u)
    BY <1>5 DEF StartRequest
  <2> HIDE DEF u
  <2> QED BY <1>1, <2>1, <2>2, GotoTask
<1>6. ASSUME RequestStripe(r)
      PROVE  \/ task'[r].pc = "idle"
             \/ /\ task'[r].pc = "read" /\ task'[r].set = {"cape"}
                /\ task'[r].ev.kind \in RequestKind
  <2>1. t.pc = "stripe" /\ \/ Goto(r, Idle)
                           \/ \E body : Goto(r, Writing(t, {"cape"}, body))
    BY <1>6 DEF RequestStripe
  <2>2. ASSUME NEW body, Goto(r, Writing(t, {"cape"}, body))
        PROVE  /\ task'[r].pc = "read" /\ task'[r].set = {"cape"}
               /\ task'[r].ev.kind \in RequestKind
    BY <1>1, <1>2, <2>1, <2>2, GotoTask, TaskFields DEF Step
  <2>3. ASSUME Goto(r, Idle) PROVE task'[r].pc = "idle"
    BY <1>1, <2>3, GotoTask DEF Idle
  <2> QED BY <2>1, <2>2, <2>3
<1>7. ASSUME SendExpiringMail(r) \/ UpdateStep(r) \/ CallFails(r) \/ Crash(r)
      PROVE  \/ task'[r].pc = "idle"
             \/ /\ task'[r].pc = "save" /\ task'[r].set = {"cape"}
                /\ task'[r].ev.kind \in RequestKind
  BY <1>1, <1>2, <1>4, <1>7, OwnSteps
<1> QED
  BY <1>1, <1>2, <1>5, <1>6, <1>7, ProcSteps

\* The tasks and the lists of the cron jobs.
LEMMA CronsNext ==
  ASSUME TypeOK, WritersInv, Next
  PROVE  CronsInv'
<1> SUFFICES ASSUME NEW c \in Crons
             PROVE  /\ task'[c].pc \in {"idle", "notice", "read", "save"}
                    /\ task'[c].pc # "idle" =>
                          /\ task'[c].ev.kind = "cron" /\ Exists(task[c].sub)'
                          /\ task'[c].sub \notin todo'[c]
                    /\ task'[c].pc \in {"read", "save"} => task'[c].set = {"notified"}
                    /\ \A s \in todo'[c] : Exists(s)'
  BY DEF CronsInv
<1> DEFINE t == task[c]
           u == task'[c]
<1>1. /\ c \in Procs /\ c \notin Workers /\ c \notin Requests /\ t \in Task
      /\ t.sub \in Subs /\ todo[c] \in SUBSET Subs
  BY ConstantsAssumption DEF Procs, TypeOK, Task
<1>2. /\ t.pc \in {"idle", "notice", "read", "save"}
      /\ t.pc # "idle" => t.ev.kind = "cron" /\ Exists(t.sub) /\ t.sub \notin todo[c]
      /\ t.pc \in {"read", "save"} => t.set = {"notified"}
      /\ \A s \in todo[c] : Exists(s)
  BY DEF WritersInv, CronsInv
<1>3. \A s \in Subs : Exists(s) => Exists(s)'
  BY RowsStay DEF WritersInv
<1>4. ASSUME NEW s \in Subs, CronNext(c, s)
      PROVE  /\ u.pc = "notice" /\ u.ev.kind = "cron" /\ u.sub = s
             /\ s \in todo[c] /\ todo'[c] = todo[c] \ {s}
  <2> DEFINE v == WithRow([Idle EXCEPT !.pc = "notice", !.ev.kind = "cron", !.sub = s])
  <2>1. v.pc = "notice" /\ v.ev.kind = "cron" /\ v.sub = s
    BY DEF WithRow, Idle, NoCause
  <2>2. Goto(c, v) /\ s \in todo[c] /\ todo' = [todo EXCEPT ![c] = @ \ {s}]
    BY <1>4 DEF CronNext
  <2> HIDE DEF v
  <2>3. todo'[c] = todo[c] \ {s}
    BY <2>2 DEF TypeOK
  <2> QED BY <1>1, <2>1, <2>2, <2>3, GotoTask
<1>5. ASSUME CronList(c)
      PROVE  task' = task /\ t.pc = "idle" /\ \A s \in todo'[c] : s \in Subs /\ Exists(s)
  <2>1. PICK page \in SUBSET {s \in Subs : ExpiringSoon(s)} : todo' = [todo EXCEPT ![c] = page]
    BY <1>5 DEF CronList
  <2>2. todo'[c] = page
    BY <2>1 DEF TypeOK
  <2> QED BY <1>5, <2>2 DEF CronList, Busy, ExpiringSoon
<1>6. ASSUME Crash(c) PROVE u.pc = "idle" /\ todo'[c] = {}
  BY <1>1, <1>6, GotoTask DEF Crash, Idle, TypeOK
<1>7. ASSUME t.pc \in {"read", "save"} PROVE AfterUpdate(t).pc = "idle"
  BY <1>1, <1>2, <1>7, AfterUpdateFacts
<1>8. ASSUME SendExpiringMail(c) \/ UpdateStep(c) \/ CallFails(c)
      PROVE  /\ todo'[c] = todo[c]
             /\ \/ u.pc = "idle"
                \/ /\ u.pc \in {"read", "save"} /\ u.set = {"notified"}
                   /\ u.ev = t.ev /\ u.sub = t.sub /\ t.pc # "idle"
  <2>1. todo' = todo
    BY <1>8 DEF SendExpiringMail, UpdateStep, UpdateRead, UpdateSave, CallFails
  <2> QED BY <1>1, <1>2, <1>7, <1>8, <2>1, OwnSteps, MarkingFacts
<1>9. CASE \E s \in Subs : CronNext(c, s)
  BY <1>1, <1>2, <1>3, <1>4, <1>9
<1>10. CASE CronList(c)
  BY <1>1, <1>2, <1>3, <1>5, <1>10
<1>11. CASE Crash(c)
  BY <1>6, <1>11
<1>12. CASE SendExpiringMail(c) \/ UpdateStep(c) \/ CallFails(c)
  BY <1>1, <1>2, <1>3, <1>8, <1>12
<1>13. CASE task'[c] = task[c] /\ todo'[c] = todo[c]
  BY <1>1, <1>2, <1>3, <1>13
<1> QED
  BY <1>1, <1>9, <1>10, <1>11, <1>12, <1>13, ProcSteps, TodoSteps

\* The tasks of webhook handlers.
LEMMA WorkersNext ==
  ASSUME TypeOK, TypeOK', WritersInv, Next
  PROVE  WorkersInv'
<1> SUFFICES ASSUME NEW h \in Workers
             PROVE  /\ task'[h].pc # "stripe"
                    /\ task'[h].pc \in {"read", "save", "notice"}
                       /\ task'[h].ev.kind = "updated" => Exists(task[h].sub)'
                    /\ task'[h].pc \in {"read", "save"} /\ "notified" \in task'[h].set =>
                          task'[h].ev.kind = "updated" /\ task'[h].set = {"notified"}
                    /\ task'[h].pc = "notice" =>
                          /\ task'[h].ev.kind = "updated" /\ "status" \in task'[h].set
                          /\ ~task'[h].old.notified
  BY DEF WorkersInv
<1> DEFINE t == task[h]
           u == task'[h]
<1>1. /\ h \in Procs /\ h \notin Requests /\ h \notin Crons /\ t \in Task /\ u \in Task
      /\ t.sub \in Subs /\ u.sub \in Subs
  BY ConstantsAssumption DEF Procs, TypeOK, Task
<1>2. /\ t.pc # "stripe"
      /\ t.pc \in {"read", "save", "notice"} /\ t.ev.kind = "updated" => Exists(t.sub)
      /\ t.pc \in {"read", "save"} /\ "notified" \in t.set =>
            t.ev.kind = "updated" /\ t.set = {"notified"}
      /\ t.pc = "notice" => t.ev.kind = "updated" /\ "status" \in t.set /\ ~t.old.notified
  BY DEF WritersInv, WorkersInv
<1>3. \A s \in Subs : Exists(s) => Exists(s)'
  BY RowsStay DEF WritersInv
<1>4. CASE u = t
  BY <1>1, <1>2, <1>3, <1>4
<1>5. ASSUME NEW e \in pending, Deliver(h, e)
      PROVE  u.pc = "start"
  <2> DEFINE v == [Idle EXCEPT !.pc = "start", !.ev = e, !.sub = e.sub,
                               !.snap = PeriodView(e.snap, HookLegacy)]
  <2>1. v.pc = "start" /\ Goto(h, v)
    BY <1>5 DEF Deliver, Idle
  <2> HIDE DEF v
  <2> QED BY <1>1, <2>1, GotoTask
<1>6. CASE HandlerStep(h)
  <2>1. /\ u.pc \in {"idle", "find", "fetch", "create", "created_mail", "read"}
        /\ u.pc = "idle" \/ u.ev = t.ev
        /\ u.pc = "read" => "notified" \notin u.set
                            /\ (t.ev.kind = "updated" => Exists(u.sub))
    BY <1>6, HandlerFacts
  <2> QED BY <1>1, <1>3, <2>1
<1>7. CASE SendExpiringMail(h) \/ UpdateStep(h) \/ CallFails(h) \/ Crash(h)
  <2>1. \/ u.pc = "idle"
        \/ t.pc = "read" /\ u.pc = "save" /\ u.ev = t.ev /\ u.sub = t.sub /\ u.set = t.set
        \/ t.pc \in {"read", "save"} /\ u = AfterUpdate(t)
        \/ t.pc = "notice" /\ u = Marking(t)
        \/ u.pc \in {"find", "create", "fetch"}
    BY <1>1, <1>7, OwnSteps
  <2>2. CASE t.pc = "read" /\ u.pc = "save" /\ u.ev = t.ev /\ u.sub = t.sub /\ u.set = t.set
    BY <1>1, <1>2, <1>3, <2>2
  <2>3. CASE t.pc \in {"read", "save"} /\ u = AfterUpdate(t)
    <3>1. /\ u.pc \in {"idle", "notice", "cancel_mail"}
          /\ u.pc # "idle" => t.ev.kind = "updated" /\ u.ev = t.ev /\ u.sub = t.sub
                              /\ u.set = t.set /\ u.old = t.old
          /\ u.pc = "notice" => "status" \in t.set /\ ~t.old.notified
      BY <1>1, <2>3, AfterUpdateFacts
    <3> QED BY <1>1, <1>2, <1>3, <2>3, <3>1
  <2>4. CASE t.pc = "notice" /\ u = Marking(t)
    <3>1. u.pc = "read" /\ u.ev = t.ev /\ u.sub = t.sub /\ u.set = {"notified"}
      BY <1>1, <2>4, MarkingFacts
    <3> QED BY <1>1, <1>2, <1>3, <2>4, <3>1
  <2> QED BY <2>1, <2>2, <2>3, <2>4
<1> QED
  BY <1>1, <1>4, <1>5, <1>6, <1>7, ProcSteps

\* The marks.
LEMMA MarksNext ==
  ASSUME TypeOK, TypeOK', WritersInv, RequestsInv', Next
  PROVE  MarksInv'
<1>1. \A s \in Subs : /\ Exists(s) => Exists(s)'
                      /\ rows[s].notified => rows'[s].notified
  BY RowsStay DEF WritersInv
<1>2. ASSUME NEW p \in Procs, task'[p].pc \in {"read", "save"}, "notified" \in task'[p].set
      PROVE  /\ task'[p].body.notified
             /\ task'[p].pc = "save" /\ task'[p].seen.notified => rows'[task'[p].sub].notified
  <2> DEFINE t == task[p]
             u == task'[p]
  <2>1. t \in Task /\ t.sub \in Subs /\ p \notin Requests
    BY <1>2 DEF TypeOK, Task, RequestsInv
  <2>2. t.pc \in {"read", "save"} /\ "notified" \in t.set =>
          t.body.notified /\ (t.pc = "save" /\ t.seen.notified => rows[t.sub].notified)
    BY DEF WritersInv, MarksInv
  <2>3. CASE u = t
    BY <1>1, <1>2, <2>1, <2>2, <2>3
  <2>4. ASSUME p \in Workers, NEW e \in pending, Deliver(p, e)
        PROVE  FALSE
    <3> DEFINE v == [Idle EXCEPT !.pc = "start", !.ev = e, !.sub = e.sub,
                                 !.snap = PeriodView(e.snap, HookLegacy)]
    <3>1. v.pc = "start" /\ Goto(p, v)
      BY <2>4 DEF Deliver, Idle
    <3> HIDE DEF v
    <3> QED BY <1>2, <3>1, GotoTask
  <2>5. ASSUME p \in Workers, HandlerStep(p)
        PROVE  FALSE
    BY <1>2, <2>5, HandlerFacts
  <2>6. ASSUME NEW s \in Subs, CronNext(p, s)
        PROVE  FALSE
    <3> DEFINE v == WithRow([Idle EXCEPT !.pc = "notice", !.ev.kind = "cron", !.sub = s])
    <3>1. v.pc = "notice" /\ Goto(p, v)
      BY <2>6 DEF CronNext, WithRow, Idle
    <3> HIDE DEF v
    <3> QED BY <1>2, <3>1, GotoTask
  <2>7. CASE SendExpiringMail(p) \/ UpdateStep(p) \/ CallFails(p) \/ Crash(p)
    <3>1. \/ /\ t.pc = "read" /\ u.pc = "save" /\ u.sub = t.sub /\ u.set = t.set
             /\ u.body = t.body /\ u.seen = rows[t.sub]
          \/ u = AfterUpdate(t)
          \/ u = Marking(t)
      BY <1>2, <2>1, <2>7, OwnSteps
    <3>2. CASE /\ t.pc = "read" /\ u.pc = "save" /\ u.sub = t.sub /\ u.set = t.set
               /\ u.body = t.body /\ u.seen = rows[t.sub]
      BY <1>1, <1>2, <2>1, <2>2, <3>2
    <3>3. CASE u = AfterUpdate(t)
      BY <1>2, <2>1, <3>3, AfterUpdateFacts
    <3>4. CASE u = Marking(t)
      BY <2>1, <3>4, MarkingFacts
    <3> QED BY <3>1, <3>2, <3>3, <3>4
  <2> QED
    BY <2>1, <2>3, <2>4, <2>5, <2>6, <2>7, ProcSteps
<1>3. ASSUME NEW s \in Subs, ~Exists(s)'
      PROVE  ~rows'[s].notified
  <2>1. ~Exists(s) /\ ~rows[s].notified
    BY <1>1, <1>3 DEF WritersInv, MarksInv
  <2>2. ASSUME NEW h \in Workers, CreateRow(h), ~Exists(task[h].sub)
        PROVE  ~rows'[s].notified
    <3>1. CASE s = task[h].sub
      <4>1. born'[s] = NextRank
        BY <2>2, <3>1 DEF CreateRow, TypeOK
      <4> QED BY <1>3, <4>1, RankType DEF Exists
    <3>2. CASE s # task[h].sub
      BY <2>1, <2>2, <3>2 DEF CreateRow, TypeOK
    <3> QED BY <3>1, <3>2
  <2>3. ASSUME NEW p \in Procs, UpdateSave(p)
        PROVE  ~rows'[s].notified
    <3> DEFINE t == task[p]
    <3>1. t.pc = "save" /\ t.sub \in Subs
      BY <2>3 DEF UpdateSave, TypeOK, Task
    <3>2. CASE s # t.sub
      BY <2>1, <2>3, <3>2 DEF UpdateSave, TypeOK
    <3>3. CASE s = t.sub
      <4>1. rows'[s] = Saved(rows[s], t.seen, t.body, t.set)
        BY <2>3, <3>3 DEF UpdateSave, TypeOK
      <4>2. "notified" \notin t.set
        BY <2>1, <3>1, <3>3 DEF WritersInv, WorkersInv, CronsInv, RequestsInv, Procs
      <4>3. rows'[s].notified = rows[s].notified
        BY <4>1, <4>2 DEF Saved
      <4> QED BY <2>1, <4>3
    <3> QED BY <3>2, <3>3
  <2>4. CASE MarkExpired
    BY <2>1, <2>4 DEF MarkExpired, TypeOK, Row
  <2> QED BY <2>1, <2>2, <2>3, <2>4, RowSteps
<1> QED
  BY <1>2, <1>3 DEF MarksInv

\* Nothing is written at the start ...
LEMMA WritersInit == ASSUME Init PROVE WritersInv
<1>1. \A p \in Procs : task[p].pc = "idle"
  BY DEF Init, Idle
<1>2. \A s \in Subs : ~rows[s].notified
  BY DEF Init, NoRow
<1>3. \A c \in Crons : todo[c] = {}
  BY DEF Init
<1> QED
  BY <1>1, <1>2, <1>3 DEF WritersInv, RequestsInv, CronsInv, WorkersInv, MarksInv, Procs

\* ... and every step keeps to it.
LEMMA WritersNext == ASSUME IInv, IInv', WritersInv, [Next]_vars PROVE WritersInv'
<1>1. TypeOK /\ TypeOK'
  BY DEF IInv
<1>2. CASE Next
  <2>1. RequestsInv' /\ CronsInv' /\ WorkersInv'
    BY <1>1, <1>2, RequestsNext, CronsNext, WorkersNext
  <2> QED BY <1>1, <1>2, <2>1, MarksNext DEF WritersInv
<1>3. CASE UNCHANGED vars
  BY <1>3 DEF vars, WritersInv, RequestsInv, CronsInv, WorkersInv, MarksInv, Exists
<1> QED
  BY <1>2, <1>3

-----------------------------------------------------------------------------
\* The end of a subscription is final.

\* While no webhook handler is on s, its billing status is left alone.
LEMMA FinalStep ==
  ASSUME TypeOK, WritersInv, Next, NEW s \in Subs, Handled(s)
  PROVE  rows'[s].billing = rows[s].billing
<1>1. ASSUME NEW h \in Workers, CreateRow(h)
      PROVE  rows'[s] = rows[s]
  <2>1. s # task[h].sub
    BY <1>1 DEF Handled, Busy, CreateRow
  <2> QED BY <1>1, <2>1 DEF CreateRow, TypeOK
<1>2. ASSUME NEW p \in Procs, UpdateSave(p)
      PROVE  rows'[s].billing = rows[s].billing
  <2> DEFINE t == task[p]
  <2>1. t.pc = "save" /\ t.sub \in Subs
    BY <1>2 DEF UpdateSave, TypeOK, Task
  <2>2. CASE s # t.sub
    BY <1>2, <2>2 DEF UpdateSave, TypeOK
  <2>3. CASE s = t.sub
    <3>1. p \notin Workers
      BY <2>1, <2>3 DEF Handled, Busy
    <3>2. "billing" \notin t.set
      BY <2>1, <3>1 DEF WritersInv, RequestsInv, CronsInv, Procs
    <3>3. rows'[s] = Saved(rows[s], t.seen, t.body, t.set)
      BY <1>2, <2>3 DEF UpdateSave, TypeOK
    <3> QED BY <3>2, <3>3 DEF Saved
  <2> QED BY <2>2, <2>3
<1>3. CASE MarkExpired
  BY <1>3 DEF MarkExpired, TypeOK, Row
<1> QED
  BY <1>1, <1>2, <1>3, RowSteps

\* Once the end of a subscription has been handled nothing brings it back, with
\* any number of requests and cron jobs that read the row before.
THEOREM FinalCorrect == Spec => CanceledIsFinal
<1>1. Init => IInv /\ WritersInv
  BY InitInv, WritersInit
<1>2. (IInv /\ WritersInv) /\ [Next]_vars => (IInv /\ WritersInv)'
  BY NextInv, WritersNext
<1>3. ASSUME IInv, WritersInv, [Next]_vars
      PROVE  [\A s \in Subs : Handled(s) /\ rows[s].billing = "canceled"
                                => rows'[s].billing = "canceled"]_vars
  <2>1. CASE Next
    BY <1>3, <2>1, FinalStep DEF IInv
  <2> QED BY <1>3, <2>1
<1> QED
  BY <1>1, <1>2, <1>3, PTL DEF Spec, CanceledIsFinal

-----------------------------------------------------------------------------
\* How often an expiry is warned of.

Senders == Workers \cup Crons

\* Process p may still send a warning about s: a webhook handler that found the
\* row unmarked, a cron job that has the row on its list.
Primed(p, s) ==
    \/ /\ p \in Workers /\ task[p].sub = s /\ task[p].pc \in {"read", "save", "notice"}
       /\ task[p].ev.kind = "updated" /\ "status" \in task[p].set
       /\ ~task[p].old.notified
    \/ p \in Crons /\ (s \in todo[p] \/ (task[p].pc = "notice" /\ task[p].sub = s))

\* Process p has sent a warning about s and not marked it yet.
Owes(p, s) ==
    task[p].sub = s /\ task[p].pc \in {"read", "save"} /\ "notified" \in task[p].set

PrimedFor(s) == {p \in Senders : Primed(p, s)}
OwingFor(s) == {p \in Senders : Owes(p, s)}

\* A warning sent before the mark is owed or was lost to a failure; once the
\* mark is there, no process comes to send another.
Counted(s) ==
    IF rows[s].notified
    THEN expiring[s] + Cardinality(PrimedFor(s))
            <= HandlersAtOnce + Cardinality(Crons) + faults.crash + faults.fail
    ELSE expiring[s]
            <= faults.crash + faults.fail + Cardinality(OwingFor(s))

\* With deliveries in order, one webhook is handled at a time.
OneHandler == InOrder => \A h, g \in Workers : Busy(h) /\ Busy(g) => h = g

CountInv == OneHandler /\ \A s \in Subs : Counted(s)

\* One webhook is handled at a time, after every step.
LEMMA OneHandlerNext ==
  ASSUME TypeOK, WritersInv, OneHandler, Next
  PROVE  OneHandler'
<1> SUFFICES ASSUME InOrder, NEW h \in Workers, NEW g \in Workers,
                    task'[h].pc # "idle", task'[g].pc # "idle", h # g
             PROVE  FALSE
  BY DEF OneHandler, Busy
<1>1. ASSUME NEW w \in Workers, task'[w].pc # "idle", task[w].pc = "idle"
      PROVE  \E e \in pending : Deliver(w, e)
  <2>1. w \in Procs /\ w \notin Requests /\ w \notin Crons
    BY ConstantsAssumption DEF Procs
  <2>2. ~HandlerStep(w)
    BY <1>1, HandlerFacts
  <2>3. ~(SendExpiringMail(w) \/ UpdateStep(w) \/ CallFails(w) \/ Crash(w))
    <3> SUFFICES ASSUME SendExpiringMail(w) \/ UpdateStep(w) \/ CallFails(w) \/ Crash(w)
                 PROVE  FALSE
      OBVIOUS
    <3> QED BY <1>1, <2>1, OwnSteps
  <2> QED BY <1>1, <2>1, <2>2, <2>3, ProcSteps
<1>2. ASSUME NEW w \in Workers, NEW v \in Workers, w # v, NEW e \in pending, Deliver(w, e)
      PROVE  task'[v].pc = "idle"
  <2>1. task[v].pc = "idle" /\ w \in Procs /\ v \in Procs
    BY <1>2 DEF Deliver, Busy, Procs
  <2>2. \E t : Goto(w, t)
    BY <1>2 DEF Deliver
  <2> QED BY <1>2, <2>1, <2>2, GotoTask
<1>3. task[h].pc # "idle" /\ task[g].pc # "idle"
  BY <1>1, <1>2
<1> QED
  BY <1>3 DEF OneHandler, Busy

\* As many processes as may be about s at once.
LEMMA SendersBound ==
  ASSUME OneHandler, NEW S \in SUBSET Senders, \A p \in S \cap Workers : Busy(p)
  PROVE  /\ IsFiniteSet(S) /\ Cardinality(S) \in Nat
         /\ Cardinality(S) <= HandlersAtOnce + Cardinality(Crons)
         /\ HandlersAtOnce \in Nat /\ Cardinality(Crons) \in Nat
<1> DEFINE W == S \cap Workers
           C == S \cap Crons
<1>1. IsFiniteSet(Workers) /\ IsFiniteSet(Crons)
  BY ConstantsAssumption
<1>2. /\ IsFiniteSet(W) /\ Cardinality(W) <= Cardinality(Workers)
      /\ IsFiniteSet(C) /\ Cardinality(C) <= Cardinality(Crons)
  <2>1. W \in SUBSET Workers /\ C \in SUBSET Crons
    OBVIOUS
  <2> QED BY <1>1, <2>1, FS_Subset
<1>3. /\ Cardinality(Workers) \in Nat /\ Cardinality(Crons) \in Nat
      /\ Cardinality(W) \in Nat /\ Cardinality(C) \in Nat
  BY <1>1, <1>2, FS_CardinalityType
<1>4. S = W \cup C /\ W \cap C = {}
  BY ConstantsAssumption DEF Senders
<1>5. \A h, g \in W : InOrder => h = g
  BY DEF OneHandler
<1> HIDE DEF W, C
<1>6. IsFiniteSet(S) /\ Cardinality(S) = Cardinality(W) + Cardinality(C)
  <2>1. /\ IsFiniteSet(W \cup C)
        /\ Cardinality(W \cup C) = Cardinality(W) + Cardinality(C) - Cardinality(W \cap C)
    BY <1>2, FS_Union
  <2>2. Cardinality({}) = 0
    BY FS_EmptySet
  <2>3. Cardinality(W \cap C) = 0
    BY <1>4, <2>2, Zenon
  <2>4. IsFiniteSet(S) /\ Cardinality(S) = Cardinality(W \cup C)
    BY <1>4, <2>1, Zenon
  <2> QED BY <1>3, <2>1, <2>3, <2>4
<1>7. HandlersAtOnce \in Nat /\ Cardinality(W) <= HandlersAtOnce
  <2>1. CASE ~InOrder
    BY <1>2, <1>3, <2>1 DEF HandlersAtOnce
  <2>2. CASE InOrder /\ W = {}
    BY <2>2, FS_EmptySet DEF HandlersAtOnce
  <2>3. CASE InOrder /\ W # {}
    <3>1. PICK w : W = {w}
      BY <1>5, <2>3
    <3>2. Cardinality({w}) = 1
      BY FS_Singleton
    <3>3. Cardinality(W) = 1
      BY <3>1, <3>2, Zenon
    <3> QED BY <2>3, <3>3 DEF HandlersAtOnce
  <2> QED BY <2>1, <2>2, <2>3
<1> QED
  BY <1>2, <1>3, <1>6, <1>7

\* Nobody comes to warn of a row that is marked.
LEMMA PrimedNext ==
  ASSUME TypeOK, TypeOK', WritersInv, Next, NEW s \in Subs, rows[s].notified,
         NEW p \in Senders, Primed(p, s)'
  PROVE  Primed(p, s)
<1> DEFINE t == task[p]
           u == task'[p]
<1>1. p \in Procs /\ p \notin Requests /\ t \in Task /\ u \in Task
  BY ConstantsAssumption DEF Procs, TypeOK, Senders
<1>2. CASE p \in Workers
  <2>1. p \notin Crons
    BY <1>2, ConstantsAssumption
  <2>2. /\ u.sub = s /\ u.pc \in {"read", "save", "notice"}
        /\ u.ev.kind = "updated" /\ "status" \in u.set /\ ~u.old.notified
    BY <2>1 DEF Primed
  <2>3. CASE u = t
    BY <1>2, <2>2, <2>3 DEF Primed
  <2>4. ASSUME NEW e \in pending, Deliver(p, e)
        PROVE  FALSE
    <3> DEFINE v == [Idle EXCEPT !.pc = "start", !.ev = e, !.sub = e.sub,
                                 !.snap = PeriodView(e.snap, HookLegacy)]
    <3>1. v.pc = "start" /\ Goto(p, v)
      BY <2>4 DEF Deliver, Idle
    <3> HIDE DEF v
    <3> QED BY <1>1, <2>2, <3>1, GotoTask
  <2>5. ASSUME HandlerStep(p)
        PROVE  FALSE
    <3>1. u.pc = "read" /\ u.ev = t.ev /\ u.old = rows[u.sub]
      BY <1>2, <2>2, <2>5, HandlerFacts
    <3> QED BY <2>2, <3>1
  <2>6. CASE SendExpiringMail(p) \/ UpdateStep(p) \/ CallFails(p) \/ Crash(p)
    <3>1. \/ /\ t.pc = "read" /\ u.pc = "save" /\ u.ev = t.ev /\ u.sub = t.sub
             /\ u.set = t.set /\ u.old = t.old
          \/ t.pc \in {"read", "save"} /\ u = AfterUpdate(t)
          \/ u = Marking(t)
      BY <1>1, <2>2, <2>6, OwnSteps
    <3>2. CASE /\ t.pc = "read" /\ u.pc = "save" /\ u.ev = t.ev /\ u.sub = t.sub
               /\ u.set = t.set /\ u.old = t.old
      BY <1>2, <2>2, <3>2 DEF Primed
    <3>3. CASE t.pc \in {"read", "save"} /\ u = AfterUpdate(t)
      <4>1. t.ev.kind = "updated" /\ u.ev = t.ev /\ u.sub = t.sub /\ u.set = t.set
            /\ u.old = t.old
        BY <1>1, <2>2, <3>3, AfterUpdateFacts
      <4> QED BY <1>2, <2>2, <3>3, <4>1 DEF Primed
    <3>4. CASE u = Marking(t)
      BY <1>1, <2>2, <3>4, MarkingFacts
    <3> QED BY <3>1, <3>2, <3>3, <3>4
  <2> QED BY <1>1, <2>1, <2>3, <2>4, <2>5, <2>6, ProcSteps
<1>3. CASE p \in Crons
  <2>1. p \notin Workers
    BY <1>3, ConstantsAssumption
  <2>2. s \in todo'[p] \/ (u.pc = "notice" /\ u.sub = s)
    BY <2>1 DEF Primed
  <2>3. ASSUME NEW r \in Subs, CronNext(p, r)
        PROVE  Primed(p, s)
    <3> DEFINE v == WithRow([Idle EXCEPT !.pc = "notice", !.ev.kind = "cron", !.sub = r])
    <3>1. v.sub = r /\ Goto(p, v) /\ r \in todo[p] /\ todo' = [todo EXCEPT ![p] = @ \ {r}]
      BY <2>3 DEF CronNext, WithRow, Idle
    <3> HIDE DEF v
    <3>2. todo'[p] = todo[p] \ {r} /\ u.sub = r
      BY <1>1, <1>3, <3>1, GotoTask DEF TypeOK
    <3> QED BY <1>3, <2>2, <3>1, <3>2 DEF Primed
  <2>4. ASSUME CronList(p)
        PROVE  Primed(p, s)
    <3>1. PICK page \in SUBSET {r \in Subs : ExpiringSoon(r)} : todo' = [todo EXCEPT ![p] = page]
      BY <2>4 DEF CronList
    <3>2. todo'[p] = page
      BY <1>3, <3>1 DEF TypeOK
    <3>3. s \notin todo'[p]
      BY <3>2 DEF ExpiringSoon
    <3>4. u = t
      BY <2>4 DEF CronList
    <3> QED BY <1>3, <2>2, <3>3, <3>4 DEF Primed
  <2>5. ASSUME Crash(p)
        PROVE  FALSE
    BY <1>1, <1>3, <2>2, <2>5, GotoTask DEF Crash, Idle, TypeOK
  <2>6. ASSUME SendExpiringMail(p) \/ UpdateStep(p) \/ CallFails(p)
        PROVE  u.pc # "notice"
    <3>1. t.pc \in {"read", "save"} => t.ev.kind = "cron"
      BY <1>3 DEF WritersInv, CronsInv
    <3>2. t.pc \in {"read", "save"} => AfterUpdate(t).pc = "idle"
      BY <1>1, <3>1, AfterUpdateFacts
    <3> QED BY <1>1, <2>6, <3>2, OwnSteps, MarkingFacts
  <2>7. CASE todo'[p] = todo[p]
    <3>1. u.pc = "notice" => u = t \/ \E r \in Subs : CronNext(p, r)
      BY <1>1, <2>1, <2>5, <2>6, ProcSteps
    <3> QED BY <1>3, <2>2, <2>3, <2>7, <3>1 DEF Primed
  <2> QED BY <1>3, <2>3, <2>4, <2>5, <2>7, TodoSteps
<1> QED
  BY <1>2, <1>3 DEF Senders

\* No process is both about to warn and owing the mark, so together they are no
\* more than there are senders.
LEMMA PrimedOrOwing ==
  ASSUME TypeOK, WritersInv, OneHandler, NEW s \in Subs
  PROVE  /\ \A p \in Senders : ~(Primed(p, s) /\ Owes(p, s))
         /\ IsFiniteSet(PrimedFor(s)) /\ Cardinality(PrimedFor(s)) \in Nat
         /\ IsFiniteSet(OwingFor(s)) /\ Cardinality(OwingFor(s)) \in Nat
         /\ HandlersAtOnce \in Nat /\ Cardinality(Crons) \in Nat
         /\ Cardinality(PrimedFor(s)) + Cardinality(OwingFor(s))
              <= HandlersAtOnce + Cardinality(Crons)
<1> DEFINE P == PrimedFor(s)
           O == OwingFor(s)
<1>1. ASSUME NEW p \in Senders, Primed(p, s), Owes(p, s)
      PROVE  FALSE
  <2>1. task[p].sub = s /\ task[p].pc \in {"read", "save"} /\ "notified" \in task[p].set
    BY <1>1 DEF Owes
  <2>2. CASE p \in Workers
    <3>1. p \notin Crons
      BY <2>2, ConstantsAssumption
    <3>2. "status" \in task[p].set
      BY <1>1, <3>1 DEF Primed
    <3>3. task[p].set = {"notified"}
      BY <2>1, <2>2 DEF WritersInv, WorkersInv
    <3> QED BY <3>2, <3>3
  <2>3. CASE p \in Crons
    <3>1. p \notin Workers
      BY <2>3, ConstantsAssumption
    <3>2. s \in todo[p]
      BY <1>1, <2>1, <3>1 DEF Primed
    <3> QED BY <2>1, <2>3, <3>2 DEF WritersInv, CronsInv
  <2> QED BY <2>2, <2>3 DEF Senders
<1>2. /\ P \in SUBSET Senders /\ \A p \in P \cap Workers : Busy(p)
      /\ O \in SUBSET Senders /\ \A p \in O \cap Workers : Busy(p)
  BY ConstantsAssumption DEF PrimedFor, OwingFor, Primed, Owes, Busy
<1>3. P \cap O = {}
  BY <1>1 DEF PrimedFor, OwingFor
<1> HIDE DEF P, O
<1>4. /\ IsFiniteSet(P) /\ Cardinality(P) \in Nat
      /\ IsFiniteSet(O) /\ Cardinality(O) \in Nat
      /\ HandlersAtOnce \in Nat /\ Cardinality(Crons) \in Nat
  BY <1>2, SendersBound
<1>5. Cardinality(P \cup O) = Cardinality(P) + Cardinality(O)
  <2>1. Cardinality(P \cup O) = Cardinality(P) + Cardinality(O) - Cardinality(P \cap O)
    BY <1>4, FS_Union
  <2>2. Cardinality({}) = 0
    BY FS_EmptySet
  <2>3. Cardinality(P \cap O) = 0
    BY <1>3, <2>2, Zenon
  <2> QED BY <1>4, <2>1, <2>3
<1>6. Cardinality(P \cup O) <= HandlersAtOnce + Cardinality(Crons)
  <2>1. P \cup O \in SUBSET Senders /\ \A p \in (P \cup O) \cap Workers : Busy(p)
    BY <1>2
  <2> QED BY <2>1, SendersBound
<1>7. Cardinality(P) + Cardinality(O) <= HandlersAtOnce + Cardinality(Crons)
  BY <1>4, <1>5, <1>6
<1> QED
  BY <1>1, <1>4, <1>7 DEF P, O

\* Any set of senders is finite, and so is the bound.
LEMMA SendersFinite ==
  ASSUME NEW S, S \subseteq Senders
  PROVE  /\ IsFiniteSet(S) /\ Cardinality(S) \in Nat
         /\ HandlersAtOnce \in Nat /\ Cardinality(Crons) \in Nat
<1>1. IsFiniteSet(Workers) /\ IsFiniteSet(Crons)
  BY ConstantsAssumption
<1>2. IsFiniteSet(Senders)
  BY <1>1, FS_Union DEF Senders
<1>3. IsFiniteSet(S)
  BY <1>2, FS_Subset
<1> QED
  BY <1>1, <1>3, FS_CardinalityType DEF HandlersAtOnce

\* What a step changes of the counts.
LEMMA CountSteps ==
  ASSUME Next
  PROVE  /\ UNCHANGED expiring \/ \E p \in Senders : SendExpiringMail(p)
         /\ \/ faults'.crash = faults.crash /\ faults'.fail = faults.fail
            \/ \E p \in Procs : CallFails(p) \/ Crash(p)
<1>1. CASE StripeStep
  BY <1>1 DEF StripeStep, StripeBegins, StripeRenews, StripePaymentFails,
     StripeRecovers, StripeEnds, StripeRefunds, StripeChange
<1>2. ASSUME NEW h \in Workers, NEW e \in pending, Deliver(h, e)
      PROVE  /\ UNCHANGED expiring
             /\ faults'.crash = faults.crash /\ faults'.fail = faults.fail
  <2>1. UNCHANGED expiring /\ (UNCHANGED faults \/ faults' = [faults EXCEPT !.dup = @ + 1])
    BY <1>2 DEF Deliver
  <2>2. LET g == [faults EXCEPT !.dup = @ + 1] IN g.crash = faults.crash /\ g.fail = faults.fail
    OBVIOUS
  <2> QED BY <2>1, <2>2
<1>3. ASSUME NEW h \in Workers, HandlerStep(h)
      PROVE  UNCHANGED <<expiring, faults>>
  BY <1>3 DEF HandlerStep, SubscriptionCreated, CheckoutCompleted, SubscriptionUpdated,
     SubscriptionDeleted, InvoicePaid, InvoicePaymentFailed, ChargeRefunded, Handle,
     FetchSubscription, FindBeforeCreate, CreateRow, SendCreatedMail, SendCancelledMail
<1>4. CASE RequestStep
  BY <1>4 DEF RequestStep, Checkout, StartRequest, RequestStripe
<1>5. ASSUME NEW c \in Crons, CronStep(c)
      PROVE  UNCHANGED <<expiring, faults>>
  BY <1>5 DEF CronStep, CronList, CronNext
<1>6. ASSUME NEW p \in Procs, UpdateStep(p)
      PROVE  UNCHANGED <<expiring, faults>>
  BY <1>6 DEF UpdateStep, UpdateRead, UpdateSave
<1>7. ASSUME NEW p \in Procs, CallFails(p) \/ Crash(p)
      PROVE  UNCHANGED expiring
  BY <1>7 DEF CallFails, Crash
<1>8. ASSUME NEW p \in Senders, SendExpiringMail(p)
      PROVE  UNCHANGED faults
  BY <1>8 DEF SendExpiringMail
<1>9. CASE MarkExpired \/ Tick
  BY <1>9 DEF MarkExpired, Tick
<1> QED
  BY <1>1, <1>2, <1>3, <1>4, <1>5, <1>6, <1>7, <1>8, <1>9 DEF Next, Senders

\* A warning turns its sender from one that may warn into one that owes.
LEMMA CountMail ==
  ASSUME TypeOK, TypeOK', WritersInv, WritersInv', CountInv, OneHandler',
         NEW s \in Subs, NEW p \in Senders, SendExpiringMail(p)
  PROVE  Counted(s)'
<1> DEFINE t == task[p]
<1>1. /\ p \in Procs /\ t \in Task /\ t.pc = "notice"
      /\ UNCHANGED <<rows, faults, todo>>
      /\ expiring' = [expiring EXCEPT ![t.sub] = @ + 1]
      /\ task'[p] = Marking(t) /\ \A q \in Procs : q # p => task'[q] = task[q]
  BY GotoTask DEF SendExpiringMail, Senders, Procs, TypeOK
<1>2. task'[p].pc = "read" /\ task'[p].sub = t.sub /\ task'[p].set = {"notified"}
  BY <1>1, MarkingFacts
<1>0. PICK x \in Subs : x = t.sub
  BY <1>1 DEF Task
<1>3. Primed(p, x)
  BY <1>0, <1>1 DEF Primed, Senders, WritersInv, WorkersInv
<1>4. /\ ~Owes(p, x) /\ Owes(p, x)' /\ ~Primed(p, x)'
      /\ \A r : r # x => ~Owes(p, r) /\ ~Owes(p, r)' /\ (Primed(p, r)' <=> Primed(p, r))
  <2>1. ~Owes(p, x) /\ Owes(p, x)'
        /\ \A r : r # x => ~Owes(p, r) /\ ~Owes(p, r)'
    BY <1>0, <1>1, <1>2 DEF Owes
  <2>2. CASE p \in Workers
    <3>1. p \notin Crons
      BY <2>2, ConstantsAssumption
    <3>2. "status" \notin task'[p].set
      BY <1>2
    <3> QED BY <1>0, <1>1, <1>2, <2>1, <2>2, <3>1, <3>2 DEF Primed
  <2>3. CASE p \in Crons
    <3>1. p \notin Workers
      BY <2>3, ConstantsAssumption
    <3>2. x \notin todo[p]
      BY <1>0, <1>1, <2>3 DEF WritersInv, CronsInv
    <3> QED BY <1>0, <1>1, <1>2, <2>1, <2>3, <3>1, <3>2 DEF Primed
  <2> QED BY <2>2, <2>3 DEF Senders
<1>5. \A q \in Senders : q # p => \A r : (Owes(q, r)' <=> Owes(q, r))
                                         /\ (Primed(q, r)' <=> Primed(q, r))
  BY <1>1 DEF Owes, Primed, Senders, Procs
<1>6. Counted(s) /\ expiring[s] \in Nat /\ faults.crash \in Nat /\ faults.fail \in Nat
  BY DEF CountInv, TypeOK
<1>7. CASE s # x
  <2>1. PrimedFor(s)' = PrimedFor(s) /\ OwingFor(s)' = OwingFor(s)
    <3>1. \A q \in Senders : (Primed(q, s)' <=> Primed(q, s)) /\ (Owes(q, s)' <=> Owes(q, s))
      BY <1>4, <1>5, <1>7
    <3> QED BY <3>1 DEF PrimedFor, OwingFor
  <2>2. expiring'[s] = expiring[s]
    BY <1>0, <1>1, <1>7 DEF TypeOK
  <2> QED BY <1>1, <1>6, <2>1, <2>2 DEF Counted
<1>8. CASE s = x
  <2>1. PrimedFor(s)' = PrimedFor(s) \ {p} /\ p \in PrimedFor(s)
    <3>1. \A q \in Senders : Primed(q, s)' <=> Primed(q, s) /\ q # p
      BY <1>4, <1>5, <1>8
    <3> QED BY <1>3, <1>8, <3>1 DEF PrimedFor
  <2>2. OwingFor(s)' = OwingFor(s) \cup {p} /\ p \notin OwingFor(s)
    <3>1. \A q \in Senders : Owes(q, s)' <=> Owes(q, s) \/ q = p
      BY <1>4, <1>5, <1>8
    <3> QED BY <1>4, <1>8, <3>1 DEF OwingFor
  <2>3. expiring'[s] = expiring[s] + 1
    BY <1>0, <1>1, <1>8 DEF TypeOK
  <2>4. /\ IsFiniteSet(PrimedFor(s)) /\ Cardinality(PrimedFor(s)) \in Nat
        /\ IsFiniteSet(OwingFor(s)) /\ Cardinality(OwingFor(s)) \in Nat
        /\ HandlersAtOnce \in Nat /\ Cardinality(Crons) \in Nat
    BY PrimedOrOwing DEF CountInv
  <2>5. Cardinality(PrimedFor(s)') = Cardinality(PrimedFor(s)) - 1
    BY <2>1, <2>4, FS_RemoveElement
  <2>6. Cardinality(OwingFor(s)') = Cardinality(OwingFor(s)) + 1
    BY <2>2, <2>4, FS_AddElement
  <2> QED BY <1>1, <1>6, <2>3, <2>4, <2>5, <2>6 DEF Counted
<1> QED BY <1>7, <1>8

\* A failure may lose one mark.
LEMMA CountFault ==
  ASSUME TypeOK, TypeOK', WritersInv, WritersInv', CountInv, OneHandler', Next,
         NEW s \in Subs, NEW p \in Procs, CallFails(p) \/ Crash(p)
  PROVE  Counted(s)'
<1>1. /\ UNCHANGED <<rows, expiring>>
      /\ \A q \in Procs : q # p => task'[q] = task[q]
      /\ \/ faults' = [faults EXCEPT !.fail = @ + 1]
         \/ faults' = [faults EXCEPT !.crash = @ + 1]
  BY GotoTask DEF CallFails, Crash
<1>2. /\ expiring[s] \in Nat /\ faults.crash \in Nat /\ faults.fail \in Nat
      /\ faults'.crash \in Nat /\ faults'.fail \in Nat
  BY DEF TypeOK
<1>3. faults'.crash + faults'.fail = faults.crash + faults.fail + 1
  <2>1. faults \in [dup: Nat, fail: Nat, crash: Nat]
    BY DEF TypeOK
  <2>2. CASE faults' = [faults EXCEPT !.fail = @ + 1]
    BY <2>1, <2>2
  <2>3. CASE faults' = [faults EXCEPT !.crash = @ + 1]
    BY <2>1, <2>3
  <2> QED BY <1>1, <2>2, <2>3
<1>4. OwingFor(s) \subseteq OwingFor(s)' \cup {p}
  BY <1>1 DEF OwingFor, Owes, Senders, Procs
<1>5. rows[s].notified => PrimedFor(s)' \subseteq PrimedFor(s)
  BY PrimedNext DEF PrimedFor
<1>6. /\ IsFiniteSet(PrimedFor(s)) /\ Cardinality(PrimedFor(s)) \in Nat
      /\ IsFiniteSet(OwingFor(s)) /\ Cardinality(OwingFor(s)) \in Nat
      /\ HandlersAtOnce \in Nat /\ Cardinality(Crons) \in Nat
  BY PrimedOrOwing DEF CountInv
<1>7. /\ IsFiniteSet(PrimedFor(s)') /\ Cardinality(PrimedFor(s)') \in Nat
      /\ IsFiniteSet(OwingFor(s)') /\ Cardinality(OwingFor(s)') \in Nat
  <2>1. PrimedFor(s)' \subseteq Senders /\ OwingFor(s)' \subseteq Senders
    BY DEF PrimedFor, OwingFor
  <2> QED BY <2>1, SendersFinite
<1>8. Cardinality(OwingFor(s)) <= Cardinality(OwingFor(s)') + 1
  <2> DEFINE O2 == OwingFor(s)'
  <2>0. IsFiniteSet(O2) /\ Cardinality(O2) \in Nat
    BY <1>7
  <2>1. /\ IsFiniteSet(O2 \cup {p})
        /\ Cardinality(O2 \cup {p}) \in Nat
        /\ Cardinality(O2 \cup {p}) <= Cardinality(O2) + 1
    <3> HIDE DEF O2
    <3>1. CASE p \in O2
      <4>1. O2 \cup {p} = O2
        BY <3>1
      <4>2. Cardinality(O2 \cup {p}) = Cardinality(O2)
        BY <4>1, Zenon
      <4>3. IsFiniteSet(O2 \cup {p})
        BY <2>0, <4>1, Zenon
      <4> QED BY <2>0, <4>2, <4>3
    <3>2. CASE p \notin O2
      <4>1. /\ IsFiniteSet(O2 \cup {p})
            /\ Cardinality(O2 \cup {p}) = Cardinality(O2) + 1
        BY <2>0, <3>2, FS_AddElement
      <4> QED BY <2>0, <4>1
    <3> QED BY <3>1, <3>2
  <2>2. Cardinality(OwingFor(s)) <= Cardinality(OwingFor(s)' \cup {p})
    BY <1>4, <2>1, FS_Subset
  <2> QED BY <1>6, <1>7, <2>1, <2>2
<1>9. rows[s].notified => Cardinality(PrimedFor(s)') <= Cardinality(PrimedFor(s))
  BY <1>5, <1>6, FS_Subset
<1>10. Counted(s)
  BY DEF CountInv
<1> QED
  BY <1>1, <1>2, <1>3, <1>6, <1>7, <1>8, <1>9, <1>10 DEF Counted

\* What is owed is marked by the save.
LEMMA CountSave ==
  ASSUME TypeOK, TypeOK', WritersInv, WritersInv', CountInv, OneHandler', Next,
         NEW s \in Subs, NEW p \in Procs, UpdateSave(p)
  PROVE  Counted(s)'
<1> DEFINE t == task[p]
<1>1. /\ t.pc = "save" /\ t \in Task /\ t.sub \in Subs
      /\ rows' = [rows EXCEPT ![t.sub] = Saved(@, t.seen, t.body, t.set)]
      /\ UNCHANGED <<expiring, faults>>
      /\ \A q \in Procs : q # p => task'[q] = task[q]
  BY GotoTask DEF UpdateSave, TypeOK, Task
<1>2. expiring[s] \in Nat /\ faults.crash \in Nat /\ faults.fail \in Nat /\ Counted(s)
  BY DEF TypeOK, CountInv
<1>3. /\ \A q \in Senders : ~(Primed(q, s) /\ Owes(q, s))
      /\ IsFiniteSet(PrimedFor(s)) /\ Cardinality(PrimedFor(s)) \in Nat
      /\ IsFiniteSet(OwingFor(s)) /\ Cardinality(OwingFor(s)) \in Nat
      /\ HandlersAtOnce \in Nat /\ Cardinality(Crons) \in Nat
      /\ Cardinality(PrimedFor(s)) + Cardinality(OwingFor(s))
           <= HandlersAtOnce + Cardinality(Crons)
  BY PrimedOrOwing DEF CountInv
<1>4. /\ IsFiniteSet(PrimedFor(s)') /\ Cardinality(PrimedFor(s)') \in Nat
      /\ IsFiniteSet(OwingFor(s)') /\ Cardinality(OwingFor(s)') \in Nat
  <2>1. PrimedFor(s)' \subseteq Senders /\ OwingFor(s)' \subseteq Senders
    BY DEF PrimedFor, OwingFor
  <2> QED BY <2>1, SendersFinite
<1>5. CASE rows[s].notified
  <2>1. rows'[s].notified
    BY <1>5, RowsStay DEF WritersInv
  <2>2. PrimedFor(s)' \subseteq PrimedFor(s)
    BY <1>5, PrimedNext DEF PrimedFor
  <2>3. Cardinality(PrimedFor(s)') <= Cardinality(PrimedFor(s))
    BY <1>3, <2>2, FS_Subset
  <2> QED BY <1>1, <1>2, <1>3, <1>4, <1>5, <2>1, <2>3 DEF Counted
<1>6. CASE ~rows[s].notified /\ Owes(p, s)
  <2>1. t.sub = s /\ "notified" \in t.set /\ t.body.notified /\ ~t.seen.notified
    BY <1>1, <1>6 DEF Owes, WritersInv, MarksInv
  <2>2. rows'[s] = Saved(rows[s], t.seen, t.body, t.set)
    BY <1>1, <2>1 DEF TypeOK
  <2>3. rows'[s].notified
    BY <2>1, <2>2 DEF Saved
  <2>4. PrimedFor(s)' \subseteq PrimedFor(s)
    <3>1. ASSUME NEW q \in Senders, Primed(q, s)'
          PROVE  Primed(q, s)
      <4>1. CASE q # p
        BY <1>1, <3>1, <4>1 DEF Primed, Senders, Procs, UpdateSave
      <4>2. CASE q = p
        <5>1. task'[p] = AfterUpdate(t)
          BY GotoTask DEF UpdateSave
        <5>2. /\ task'[p].pc \in {"idle", "notice", "cancel_mail"}
              /\ task'[p].pc = "notice" => "status" \in t.set /\ t.ev.kind = "updated"
          BY <1>1, <5>1, AfterUpdateFacts
        <5>3. CASE p \in Workers
          <6>1. p \notin Crons /\ t.set = {"notified"}
            BY <1>1, <2>1, <5>3, ConstantsAssumption DEF WritersInv, WorkersInv
          <6> QED BY <3>1, <4>2, <5>2, <6>1 DEF Primed
        <5>4. CASE p \in Crons
          <6>1. p \notin Workers /\ t.ev.kind = "cron" /\ UNCHANGED todo
            BY <1>1, <5>4, ConstantsAssumption DEF WritersInv, CronsInv, UpdateSave
          <6> QED BY <3>1, <4>2, <5>2, <5>4, <6>1 DEF Primed
        <5> QED BY <3>1, <4>2, <5>3, <5>4 DEF Senders
      <4> QED BY <4>1, <4>2
    <3> QED BY <3>1 DEF PrimedFor
  <2>5. Cardinality(PrimedFor(s)') <= Cardinality(PrimedFor(s))
    BY <1>3, <2>4, FS_Subset
  <2> QED BY <1>1, <1>2, <1>3, <1>4, <1>6, <2>3, <2>5 DEF Counted
<1>7. CASE ~rows[s].notified /\ ~Owes(p, s)
  <2>1. ~rows'[s].notified
    <3>1. CASE s # t.sub
      BY <1>1, <1>7, <3>1 DEF TypeOK
    <3>2. CASE s = t.sub
      <4>1. "notified" \notin t.set
        BY <1>1, <1>7, <3>2 DEF Owes
      <4>2. rows'[s] = Saved(rows[s], t.seen, t.body, t.set)
        BY <1>1, <3>2 DEF TypeOK
      <4> QED BY <1>7, <4>1, <4>2 DEF Saved
    <3> QED BY <3>1, <3>2
  <2>2. OwingFor(s) \subseteq OwingFor(s)'
    BY <1>1, <1>7 DEF OwingFor, Owes, Senders, Procs
  <2>3. Cardinality(OwingFor(s)) <= Cardinality(OwingFor(s)')
    BY <1>4, <2>2, FS_Subset
  <2> QED BY <1>1, <1>2, <1>3, <1>4, <1>7, <2>1, <2>3 DEF Counted
<1> QED BY <1>5, <1>6, <1>7

\* Every other step leaves the counts as they are, or lowers them.
LEMMA CountQuiet ==
  ASSUME TypeOK, TypeOK', WritersInv, CountInv, Next, NEW s \in Subs,
         \A q \in Senders : ~SendExpiringMail(q),
         \A q \in Procs : ~UpdateSave(q) /\ ~CallFails(q) /\ ~Crash(q)
  PROVE  Counted(s)'
<1>1. /\ expiring'[s] = expiring[s]
      /\ faults'.crash = faults.crash /\ faults'.fail = faults.fail
  BY CountSteps
<1>2. Counted(s) /\ expiring[s] \in Nat /\ faults.crash \in Nat /\ faults.fail \in Nat
  BY DEF CountInv, TypeOK
<1>3. /\ IsFiniteSet(PrimedFor(s)) /\ Cardinality(PrimedFor(s)) \in Nat
      /\ IsFiniteSet(OwingFor(s)) /\ Cardinality(OwingFor(s)) \in Nat
      /\ HandlersAtOnce \in Nat /\ Cardinality(Crons) \in Nat
  BY PrimedOrOwing DEF CountInv
<1>4. /\ IsFiniteSet(PrimedFor(s)') /\ Cardinality(PrimedFor(s)') \in Nat
      /\ IsFiniteSet(OwingFor(s)') /\ Cardinality(OwingFor(s)') \in Nat
  <2>1. PrimedFor(s)' \subseteq Senders /\ OwingFor(s)' \subseteq Senders
    BY DEF PrimedFor, OwingFor
  <2> QED BY <2>1, SendersFinite
<1>5. rows'[s].notified <=> rows[s].notified
  <2>1. ASSUME NEW h \in Workers, CreateRow(h), ~Exists(task[h].sub)
        PROVE  rows'[s].notified <=> rows[s].notified
    <3>1. CASE s # task[h].sub
      BY <2>1, <3>1 DEF CreateRow, TypeOK
    <3>2. CASE s = task[h].sub
      <4>1. rows'[s] = RowFrom(task[h].snap) /\ ~rows[s].notified
        BY <2>1, <3>2 DEF CreateRow, TypeOK, WritersInv, MarksInv
      <4> QED BY <4>1 DEF RowFrom
    <3> QED BY <3>1, <3>2
  <2>2. CASE MarkExpired
    BY <2>2 DEF MarkExpired, TypeOK, Row
  <2> QED BY <2>1, <2>2, RowSteps
<1>6. OwingFor(s) \subseteq OwingFor(s)'
  <2>1. ASSUME NEW q \in Senders, Owes(q, s)
        PROVE  Owes(q, s)'
    <3> DEFINE t == task[q]
               u == task'[q]
    <3>1. /\ q \in Procs /\ t \in Task /\ t.sub = s
          /\ t.pc \in {"read", "save"} /\ "notified" \in t.set
      BY <2>1 DEF Owes, Senders, Procs, TypeOK
    <3>2. ~HandlerStep(q) \/ q \notin Workers
      BY <3>1, HandlerFacts
    <3>3. ASSUME UpdateStep(q)
          PROVE  u.pc = "save" /\ u.sub = t.sub /\ u.set = t.set
      <4> DEFINE v == [t EXCEPT !.pc = "save", !.seen = rows[t.sub]]
      <4>1. Goto(q, v) /\ v.pc = "save" /\ v.sub = t.sub /\ v.set = t.set
        BY <3>1, <3>3 DEF UpdateStep, UpdateRead, Task
      <4> HIDE DEF v
      <4> QED BY <3>1, <4>1, GotoTask
    <3>4. \/ u = t \/ UpdateStep(q)
      <4>1. ASSUME NEW e \in pending, Deliver(q, e)
            PROVE  FALSE
        BY <3>1, <4>1 DEF Deliver, Busy
      <4>2. ASSUME NEW x \in Subs, CronNext(q, x) \/ \E k \in RequestKind : StartRequest(q, x, k)
            PROVE  FALSE
        BY <3>1, <4>2 DEF CronNext, StartRequest, Busy
      <4>3. ~RequestStripe(q)
        BY <3>1 DEF RequestStripe
      <4> QED BY <3>1, <3>2, <4>1, <4>2, <4>3, ProcSteps DEF Senders
    <3> QED BY <3>1, <3>3, <3>4 DEF Owes
  <2> QED BY <2>1 DEF OwingFor
<1>7. Cardinality(OwingFor(s)) <= Cardinality(OwingFor(s)')
  BY <1>4, <1>6, FS_Subset
<1>8. rows[s].notified => Cardinality(PrimedFor(s)') <= Cardinality(PrimedFor(s))
  <2>1. rows[s].notified => PrimedFor(s)' \subseteq PrimedFor(s)
    BY PrimedNext DEF PrimedFor
  <2> QED BY <1>3, <2>1, FS_Subset
<1> QED
  BY <1>1, <1>2, <1>3, <1>4, <1>5, <1>7, <1>8 DEF Counted

\* At the start nothing has been sent.
LEMMA CountInit == ASSUME Init PROVE CountInv
<1>1. OneHandler
  BY DEF Init, Idle, OneHandler, Busy, Procs
<1>2. ASSUME NEW s \in Subs PROVE Counted(s)
  <2>1. ~rows[s].notified /\ expiring[s] = 0 /\ faults.crash = 0 /\ faults.fail = 0
    BY DEF Init, NoRow
  <2>2. OwingFor(s) \subseteq Senders
    BY DEF OwingFor
  <2>3. Cardinality(OwingFor(s)) \in Nat
    BY <2>2, SendersFinite
  <2> QED BY <2>1, <2>3 DEF Counted
<1> QED BY <1>1, <1>2 DEF CountInv

\* The accounts hold after every step.
LEMMA CountNext ==
  ASSUME TypeOK, TypeOK', WritersInv, WritersInv', CountInv, [Next]_vars
  PROVE  CountInv'
<1>1. CASE Next
  <2>1. OneHandler'
    BY <1>1, OneHandlerNext DEF CountInv
  <2>2. ASSUME NEW s \in Subs PROVE Counted(s)'
    <3>1. ASSUME NEW p \in Senders, SendExpiringMail(p) PROVE Counted(s)'
      BY <2>1, <3>1, CountMail
    <3>2. ASSUME NEW p \in Procs, CallFails(p) \/ Crash(p) PROVE Counted(s)'
      BY <1>1, <2>1, <3>2, CountFault
    <3>3. ASSUME NEW p \in Procs, UpdateSave(p) PROVE Counted(s)'
      BY <1>1, <2>1, <3>3, CountSave
    <3> QED BY <1>1, <3>1, <3>2, <3>3, CountQuiet
  <2> QED BY <2>1, <2>2 DEF CountInv
<1>2. CASE UNCHANGED vars
  BY <1>2 DEF vars, CountInv, OneHandler, Busy, Counted, PrimedFor, OwingFor, Primed, Owes
<1> QED BY <1>1, <1>2

\* Each sender warns of an expiry at most once, with any number of handlers and
\* cron instances, whatever fails: only a failure between a warning and its
\* mark adds another.
THEOREM WarningsCorrect == Spec => []WarningsPerSender
<1>1. Init => IInv /\ WritersInv /\ CountInv
  BY InitInv, WritersInit, CountInit
<1>2. (IInv /\ WritersInv /\ CountInv) /\ [Next]_vars => (IInv /\ WritersInv /\ CountInv)'
  <2> SUFFICES ASSUME IInv, WritersInv, CountInv, [Next]_vars
               PROVE  (IInv /\ WritersInv /\ CountInv)'
    OBVIOUS
  <2>1. IInv' /\ WritersInv'
    BY NextInv, WritersNext
  <2>2. TypeOK /\ TypeOK'
    BY <2>1 DEF IInv
  <2> QED BY <2>1, <2>2, CountNext
<1>3. IInv /\ WritersInv /\ CountInv => WarningsPerSender
  <2> SUFFICES ASSUME IInv, WritersInv, CountInv, NEW s \in Subs
               PROVE  expiring[s] <= HandlersAtOnce + Cardinality(Crons)
                                        + faults.crash + faults.fail
    BY DEF WarningsPerSender
  <2>1. TypeOK /\ Counted(s) /\ OneHandler
    BY DEF IInv, CountInv
  <2>2. expiring[s] \in Nat /\ faults.crash \in Nat /\ faults.fail \in Nat
    BY <2>1 DEF TypeOK
  <2> QED BY <2>1, <2>2, PrimedOrOwing DEF Counted
<1> QED
  BY <1>1, <1>2, <1>3, PTL DEF Spec

-----------------------------------------------------------------------------
\* Rows mirror Stripe when its events are handled in order.

\* Stripe hands over one event at a time, in order, and its objects have the
\* shape that the client and the webhooks use; no charge is refunded and no
\* call fails; users make one request at a time.  Processes may crash and
\* deliveries be repeated.
Orderly ==
    /\ InOrder /\ HookLegacy /\ ~FetchLegacy /\ ~Refunds /\ MaxFail = 0
    /\ \A r, q \in Requests : r = q

\* Events that make their handler write the row, and those whose snapshot it
\* writes from.
ToWrite(e) == e.kind \in {"updated", "deleted"}
Carrier(e) == e.kind \in {"created", "updated", "deleted"}

\* The events that are on their way or being handled.
Flying == pending \cup {task[h].ev : h \in {g \in Workers : Busy(g)}}

\* No later event that will write the row of its subscription is on its way.
Latest(e) == \A f \in pending : ToWrite(f) /\ f.sub = e.sub => f.n <= e.n

\* Stripe turns s into new and announces it: by e, and by events F that follow
\* and write nothing.
Announces(s, new, e, F) ==
    /\ new.status # "none"
    /\ stripe' = [stripe EXCEPT ![s] = new]
    /\ pending' = pending \cup {e} \cup F
    /\ sent < sent'
    /\ e.sub = s /\ e.snap = new /\ e.n = sent + 1
    /\ IF stripe[s].status = "none" THEN e.kind = "created" ELSE ToWrite(e)
    /\ e.kind = "deleted" => new.status = "canceled"
    /\ \A f \in F : /\ f.kind \in {"checkout", "invoice_paid", "payment_failed"}
                    /\ f.sub = s /\ f.n \in Nat /\ sent + 1 < f.n /\ f.n <= sent'
    /\ \A f, g \in F : f.n = g.n => f = g
    /\ UNCHANGED <<rows, born>>
    /\ \A h \in Workers : task'[h] = task[h]
    /\ \/ stripe[s].status = "none" \/ new.cape = stripe[s].cape
       \/ \E r \in Requests : RequestStripe(r)

\* What Stripe emits announces its new state.
LEMMA EmitAnnounces ==
  ASSUME TypeOK, NEW s \in Subs, NEW new, new.status # "none",
         NEW kinds \in Seq(EventKind), Len(kinds) > 0, Emit(s, kinds, new),
         stripe' = [stripe EXCEPT ![s] = new],
         IF stripe[s].status = "none" THEN kinds[1] = "created"
                                      ELSE kinds[1] \in {"updated", "deleted"},
         kinds[1] = "deleted" => new.status = "canceled",
         \A i \in DOMAIN kinds : i # 1 =>
            kinds[i] \in {"checkout", "invoice_paid", "payment_failed"},
         UNCHANGED <<rows, born>>, \A h \in Workers : task'[h] = task[h],
         \/ stripe[s].status = "none" \/ new.cape = stripe[s].cape
         \/ \E r \in Requests : RequestStripe(r)
  PROVE  \E e, F : Announces(s, new, e, F)
<1> DEFINE ev(i) == [kind |-> kinds[i], sub |-> s, snap |-> new, n |-> sent + i]
           e == ev(1)
           F == {ev(i) : i \in DOMAIN kinds \ {1}}
<1>1. sent \in Nat /\ DOMAIN kinds = 1..Len(kinds) /\ Len(kinds) \in Nat
  BY DEF TypeOK
<1>2. pending' = pending \cup {ev(i) : i \in DOMAIN kinds} /\ sent' = sent + Len(kinds)
  BY DEF Emit
<1>3. {ev(i) : i \in DOMAIN kinds} = {e} \cup F
  BY <1>1
<1>4. pending' = pending \cup {e} \cup F
  BY <1>2, <1>3
<1>5. e.sub = s /\ e.snap = new /\ e.n = sent + 1 /\ e.kind = kinds[1]
  OBVIOUS
<1>6. \A f \in F : \E i \in DOMAIN kinds :
         i # 1 /\ f = ev(i) /\ f.kind = kinds[i] /\ f.sub = s /\ f.n = sent + i
  OBVIOUS
<1>7. \A f \in F : /\ f.kind \in {"checkout", "invoice_paid", "payment_failed"}
                   /\ f.sub = s /\ f.n \in Nat /\ sent + 1 < f.n /\ f.n <= sent'
  <2> HIDE DEF F, ev
  <2> SUFFICES ASSUME NEW f \in F
               PROVE  /\ f.kind \in {"checkout", "invoice_paid", "payment_failed"}
                      /\ f.sub = s /\ f.n \in Nat /\ sent + 1 < f.n /\ f.n <= sent'
    OBVIOUS
  <2>1. PICK i \in DOMAIN kinds : i # 1 /\ f.kind = kinds[i] /\ f.sub = s /\ f.n = sent + i
    BY <1>6
  <2> QED BY <1>1, <1>2, <2>1
<1>8. \A f, g \in F : f.n = g.n => f = g
  <2> HIDE DEF F, ev
  <2> SUFFICES ASSUME NEW f \in F, NEW g \in F, f.n = g.n
               PROVE  f = g
    OBVIOUS
  <2>1. PICK i \in DOMAIN kinds : f = ev(i) /\ f.n = sent + i
    BY <1>6
  <2>2. PICK j \in DOMAIN kinds : g = ev(j) /\ g.n = sent + j
    BY <1>6
  <2>3. i = j
    BY <1>1, <2>1, <2>2
  <2> QED BY <2>1, <2>2, <2>3
<1> HIDE DEF e, F
<1>9. sent < sent'
  BY <1>1, <1>2
<1> QED
  BY <1>4, <1>5, <1>7, <1>8, <1>9 DEF Announces, ToWrite

\* Each step of Stripe announces one subscription.
LEMMA StripeAnnounces ==
  ASSUME Orderly, TypeOK, StripeStep
  PROVE  \E s \in Subs : \E new, e, F : Announces(s, new, e, F)
<1> SUFFICES ASSUME NEW s \in Subs,
                    \/ StripeBegins(s) \/ StripeRenews(s) \/ StripePaymentFails(s)
                    \/ StripeRecovers(s) \/ StripeEnds(s) \/ StripeRefunds(s)
             PROVE  \E new, e, F : Announces(s, new, e, F)
  BY DEF StripeStep
<1>1. /\ <<"updated", "invoice_paid">> \in Seq(EventKind)
      /\ <<"updated", "payment_failed">> \in Seq(EventKind)
      /\ <<"deleted">> \in Seq(EventKind)
      /\ <<"created", "checkout", "invoice_paid">> \in Seq(EventKind)
  BY DEF EventKind
<1>2. UNCHANGED <<task, rows, born>> /\ stripe[s] \in StripeSub
  BY DEF StripeBegins, StripeRenews, StripePaymentFails, StripeRecovers, StripeEnds,
         StripeRefunds, StripeChange, TypeOK
<1>3. CASE StripeBegins(s)
  <2>1. PICK st \in {"active", "trialing"} :
          LET new == [status |-> st, anchor |-> now, end |-> now + Period,
                      cape |-> FALSE] IN
          /\ stripe' = [stripe EXCEPT ![s] = new]
          /\ Emit(s, <<"created", "checkout", "invoice_paid">>, new)
    BY <1>3 DEF StripeBegins
  <2> DEFINE new == [status |-> st, anchor |-> now, end |-> now + Period,
                     cape |-> FALSE]
             kinds == <<"created", "checkout", "invoice_paid">>
  <2>2. new.status # "none"
    OBVIOUS
  <2>3. stripe[s].status = "none"
    BY <1>3 DEF StripeBegins
  <2>4. /\ kinds \in Seq(EventKind) /\ Len(kinds) > 0 /\ kinds[1] = "created"
        /\ \A i \in DOMAIN kinds : i # 1 => kinds[i] \in {"checkout", "invoice_paid"}
    BY <1>1
  <2>5. stripe' = [stripe EXCEPT ![s] = new] /\ Emit(s, kinds, new)
    BY <2>1
  <2> HIDE DEF new, kinds
  <2> QED BY <1>2, <2>2, <2>3, <2>4, <2>5, EmitAnnounces
<1>4. ASSUME NEW new, new.status # "none", new.cape = stripe[s].cape,
             stripe[s].status # "none", stripe' = [stripe EXCEPT ![s] = new],
             \/ Emit(s, <<"updated", "invoice_paid">>, new)
             \/ Emit(s, <<"updated", "payment_failed">>, new)
             \/ new.status = "canceled" /\ Emit(s, <<"deleted">>, new)
      PROVE  \E e, F : Announces(s, new, e, F)
  <2>1. ASSUME NEW kind \in {"invoice_paid", "payment_failed"},
               Emit(s, <<"updated", kind>>, new)
        PROVE  \E e, F : Announces(s, new, e, F)
    <3> DEFINE kinds == <<"updated", kind>>
    <3>1. /\ kinds \in Seq(EventKind) /\ Len(kinds) > 0 /\ kinds[1] = "updated"
          /\ \A i \in DOMAIN kinds : i # 1 => kinds[i] \in {"invoice_paid", "payment_failed"}
          /\ Emit(s, kinds, new)
      BY <1>1, <2>1
    <3> HIDE DEF kinds
    <3> QED BY <1>2, <1>4, <3>1, EmitAnnounces
  <2>2. ASSUME new.status = "canceled", Emit(s, <<"deleted">>, new)
        PROVE  \E e, F : Announces(s, new, e, F)
    <3> DEFINE kinds == <<"deleted">>
    <3>1. /\ kinds \in Seq(EventKind) /\ Len(kinds) > 0 /\ kinds[1] = "deleted"
          /\ \A i \in DOMAIN kinds : i = 1
          /\ Emit(s, kinds, new)
      BY <1>1, <2>2
    <3> HIDE DEF kinds
    <3> QED BY <1>2, <1>4, <2>2, <3>1, EmitAnnounces
  <2> QED BY <1>4, <2>1, <2>2
<1>5. CASE StripeRenews(s)
  <2> DEFINE new == [stripe[s] EXCEPT !.status = "active", !.end = @ + Period]
  <2>1. new.status # "none" /\ new.cape = stripe[s].cape /\ stripe[s].status # "none"
    BY <1>2, <1>5 DEF StripeRenews, StripeSub
  <2>2. stripe' = [stripe EXCEPT ![s] = new] /\ Emit(s, <<"updated", "invoice_paid">>, new)
    BY <1>5 DEF StripeRenews, StripeChange
  <2> HIDE DEF new
  <2> QED BY <1>4, <2>1, <2>2
<1>6. CASE StripePaymentFails(s)
  <2> DEFINE new == [stripe[s] EXCEPT !.status = "past_due", !.end = @ + Period]
  <2>1. new.status # "none" /\ new.cape = stripe[s].cape /\ stripe[s].status # "none"
    BY <1>2, <1>6 DEF StripePaymentFails, StripeSub
  <2>2. stripe' = [stripe EXCEPT ![s] = new] /\ Emit(s, <<"updated", "payment_failed">>, new)
    BY <1>6 DEF StripePaymentFails, StripeChange
  <2> HIDE DEF new
  <2> QED BY <1>4, <2>1, <2>2
<1>7. CASE StripeRecovers(s)
  <2> DEFINE new == [stripe[s] EXCEPT !.status = "active"]
  <2>1. new.status # "none" /\ new.cape = stripe[s].cape /\ stripe[s].status # "none"
    BY <1>2, <1>7 DEF StripeRecovers, StripeSub
  <2>2. stripe' = [stripe EXCEPT ![s] = new] /\ Emit(s, <<"updated", "invoice_paid">>, new)
    BY <1>7 DEF StripeRecovers, StripeChange
  <2> HIDE DEF new
  <2> QED BY <1>4, <2>1, <2>2
<1>8. CASE StripeEnds(s)
  <2> DEFINE new == [stripe[s] EXCEPT !.status = "canceled"]
  <2>1. /\ new.status = "canceled" /\ new.cape = stripe[s].cape
        /\ stripe[s].status # "none"
    BY <1>2, <1>8 DEF StripeEnds, StripeSub, Live
  <2>2. stripe' = [stripe EXCEPT ![s] = new] /\ Emit(s, <<"deleted">>, new)
    BY <1>8 DEF StripeEnds, StripeChange
  <2> HIDE DEF new
  <2>3. new.status # "none"
    BY <2>1
  <2> QED BY <1>4, <2>1, <2>2, <2>3
<1>9. ~StripeRefunds(s)
  BY DEF Orderly, StripeRefunds
<1> QED BY <1>3, <1>5, <1>6, <1>7, <1>8, <1>9

\* A request announces what it changes, or leaves Stripe as it is.
LEMMA RequestAnnounces ==
  ASSUME Orderly, TypeOK, NEW r \in Requests, RequestStripe(r)
  PROVE  /\ \A h \in Workers : task'[h] = task[h]
         /\ \/ UNCHANGED <<stripe, pending, sent>>
            \/ \E s \in Subs : \E new, e, F : Announces(s, new, e, F)
<1> DEFINE t == task[r]
           s == t.sub
           want == t.ev.kind = "cancel"
           body == [t.old EXCEPT !.cape = want]
<1>1. /\ r \in Procs /\ t.sub \in Subs /\ stripe[t.sub] \in StripeSub
      /\ UNCHANGED <<rows, born>> /\ r \notin Workers
  BY ConstantsAssumption DEF TypeOK, Procs, Task, RequestStripe
<1>2. \A h \in Workers : task'[h] = task[h]
  <2>1. Goto(r, Idle) \/ Goto(r, Writing(t, {"cape"}, body))
    BY DEF RequestStripe
  <2> HIDE DEF body
  <2> QED BY <1>1, <2>1, GotoTask DEF Procs
<1>3. ASSUME NEW kind \in {"updated", "deleted"}, NEW new, new.status # "none",
             kind = "deleted" => new.status = "canceled",
             stripe[s].status # "none", stripe' = [stripe EXCEPT ![s] = new],
             Emit(s, <<kind>>, new)
      PROVE  \E e, F : Announces(s, new, e, F)
  <2> DEFINE kinds == <<kind>>
  <2>1. /\ kinds \in Seq(EventKind) /\ Len(kinds) > 0 /\ kinds[1] = kind
        /\ \A i \in DOMAIN kinds : i = 1
        /\ Emit(s, kinds, new)
    BY <1>3 DEF EventKind
  <2> HIDE DEF kinds
  <2> QED BY <1>1, <1>2, <1>3, <2>1, EmitAnnounces
<1>4. CASE UNCHANGED <<stripe, queueVars>>
  BY <1>2, <1>4
<1>5. CASE /\ Live(s)
           /\ stripe' = [stripe EXCEPT ![s].status = "canceled"]
           /\ Emit(s, <<"deleted">>, stripe'[s])
  <2> DEFINE new == [stripe[s] EXCEPT !.status = "canceled"]
  <2>1. stripe' = [stripe EXCEPT ![s] = new] /\ stripe'[s] = new
    BY <1>1, <1>5 DEF TypeOK
  <2>2. new.status = "canceled" /\ stripe[s].status # "none"
    BY <1>1, <1>5 DEF StripeSub, Live
  <2> HIDE DEF new
  <2>3. new.status # "none"
    BY <2>2
  <2> QED BY <1>1, <1>2, <1>3, <1>5, <2>1, <2>2, <2>3
<1>6. CASE /\ Live(s)
            /\ stripe' = [stripe EXCEPT ![s].cape = want]
            /\ IF stripe[s].cape = want THEN UNCHANGED queueVars
               ELSE Emit(s, <<"updated">>, stripe'[s])
  <2> HIDE DEF want
  <2> DEFINE new == [stripe[s] EXCEPT !.cape = want]
  <2>1. stripe' = [stripe EXCEPT ![s] = new] /\ stripe'[s] = new
    BY <1>1, <1>6 DEF TypeOK
  <2>2. new.status # "none" /\ stripe[s].status # "none"
    BY <1>1, <1>6 DEF StripeSub, Live
  <2>3. CASE stripe[s].cape = want
    <3>1. new = stripe[s]
      BY <1>1, <2>3 DEF StripeSub
    <3>2. stripe' = stripe
      BY <1>1, <2>1, <3>1 DEF TypeOK
    <3> QED BY <1>2, <1>6, <2>3, <3>2
  <2>4. CASE stripe[s].cape # want
    <3> HIDE DEF new
    <3> QED BY <1>1, <1>2, <1>3, <1>6, <2>1, <2>2, <2>4
  <2> QED BY <2>3, <2>4
<1> QED BY <1>4, <1>5, <1>6 DEF RequestStripe

\* What moves the events: Stripe, a delivery, a crash of their handler.
LEMMA FlyMoves ==
  ASSUME Orderly, TypeOK, Next
  PROVE  \/ /\ UNCHANGED <<stripe, pending, sent>>
            /\ \A h \in Workers : task'[h].pc = "idle" \/ task'[h] = task[h]
                  \/ (task[h].pc # "idle" /\ task'[h].ev = task[h].ev)
         \/ \E h \in Workers, e \in pending : Deliver(h, e)
         \/ \E h \in Workers : Crash(h)
         \/ \E s \in Subs : \E new, e, F : Announces(s, new, e, F)
<1>1. Workers \subseteq Procs
  BY DEF Procs
<1>2. CASE StripeStep
  BY <1>2, StripeAnnounces
<1>3. ASSUME NEW h \in Workers, HandlerStep(h)
      PROVE  /\ UNCHANGED <<stripe, pending, sent>>
             /\ \A g \in Workers : task'[g].pc = "idle" \/ task'[g] = task[g]
                   \/ (task[g].pc # "idle" /\ task'[g].ev = task[g].ev)
  <2>1. /\ UNCHANGED <<stripe, pending, sent>> /\ \A g \in Workers : g # h => task'[g] = task[g]
        /\ task'[h].pc = "idle" \/ task'[h].ev = task[h].ev
        /\ task[h].pc # "idle"
    BY <1>1, <1>3, HandlerFacts
  <2> QED BY <2>1
<1>4. CASE RequestStep
  <2>1. ASSUME NEW u \in Users, Checkout(u)
        PROVE  UNCHANGED <<stripe, pending, sent, task>>
    BY <2>1 DEF Checkout
  <2>2. ASSUME NEW r \in Requests, NEW s \in Subs, NEW kind \in RequestKind,
               StartRequest(r, s, kind)
        PROVE  /\ UNCHANGED <<stripe, pending, sent>>
               /\ \A h \in Workers : task'[h] = task[h]
    <3>1. r \in Procs /\ r \notin Workers
      BY ConstantsAssumption DEF Procs
    <3>2. UNCHANGED <<stripe, pending, sent>> /\ \E t : Goto(r, t)
      BY <2>2 DEF StartRequest
    <3> QED BY <1>1, <3>1, <3>2, GotoTask
  <2> QED BY <1>4, <2>1, <2>2, RequestAnnounces DEF RequestStep
<1>5. ASSUME NEW c \in Crons, CronStep(c)
      PROVE  /\ UNCHANGED <<stripe, pending, sent>>
             /\ \A h \in Workers : task'[h] = task[h]
  <2>1. c \in Procs /\ c \notin Workers
    BY ConstantsAssumption DEF Procs
  <2>2. UNCHANGED <<stripe, pending, sent>> /\ (UNCHANGED task \/ \E t : Goto(c, t))
    BY <1>5 DEF CronStep, CronList, CronNext
  <2> QED BY <1>1, <2>1, <2>2, GotoTask
<1>6. ASSUME NEW p \in Procs, SendExpiringMail(p) \/ UpdateStep(p)
      PROVE  /\ UNCHANGED <<stripe, pending, sent>>
             /\ \A h \in Workers : task'[h].pc = "idle" \/ task'[h] = task[h]
                   \/ (task[h].pc # "idle" /\ task'[h].ev = task[h].ev)
  <2>1. UNCHANGED <<stripe, pending, sent>>
    BY <1>6 DEF SendExpiringMail, UpdateStep, UpdateRead, UpdateSave
  <2>2. \E t : Goto(p, t)
    BY <1>6 DEF SendExpiringMail, UpdateStep, UpdateRead, UpdateSave
  <2>3. \A q \in Procs : q # p => task'[q] = task[q]
    BY <2>2, GotoTask
  <2>4. task[p] \in Task /\ task[p].pc # "idle"
    BY <1>6 DEF SendExpiringMail, UpdateStep, UpdateRead, UpdateSave, TypeOK
  <2>5. task'[p].pc = "idle" \/ task'[p].ev = task[p].ev
    <3> HIDE DEF Task
    <3>1. \/ task'[p].pc = "idle" \/ task'[p].ev = task[p].ev
          \/ task'[p] = AfterUpdate(task[p]) \/ task'[p] = Marking(task[p])
          \/ CallFails(p) /\ task'[p].ev = task[p].ev
      BY <1>6, OwnSteps
    <3> QED BY <2>4, <3>1, AfterUpdateFacts, MarkingFacts
  <2> QED BY <1>1, <2>1, <2>3, <2>4, <2>5
<1>7. ASSUME NEW p \in Procs, CallFails(p)
      PROVE  FALSE
  BY <1>7 DEF CallFails, Orderly, TypeOK
<1>8. ASSUME NEW p \in Procs, Crash(p), p \notin Workers
      PROVE  /\ UNCHANGED <<stripe, pending, sent>>
             /\ \A h \in Workers : task'[h] = task[h]
  <2>1. UNCHANGED <<stripe, pending, sent>> /\ Goto(p, Idle)
    BY <1>8 DEF Crash
  <2> QED BY <1>1, <1>8, <2>1, GotoTask
<1>9. CASE MarkExpired \/ Tick
  BY <1>9 DEF MarkExpired, Tick
<1>10. Workers \cup Crons \subseteq Procs
  BY DEF Procs
<1> QED
  BY <1>2, <1>3, <1>4, <1>5, <1>6, <1>7, <1>8, <1>9, <1>10 DEF Next

\* What an event on its way tells: the latest about a subscription carries the
\* state that Stripe has it in.
EventOK(e) ==
    /\ e.n <= sent /\ e.kind # "refunded"
    /\ e.kind = "deleted" => e.snap.status = "canceled"
    /\ stripe[e.sub].status # "none"
    /\ Carrier(e) /\ Latest(e) => e.snap = stripe[e.sub]

\* The events are handled in the order of their numbers.
QueueInv ==
    /\ \A e \in Flying : EventOK(e)
    /\ \A e, f \in Flying : e.n = f.n => e = f
    /\ \A h \in Workers, e \in pending : Busy(h) => task[h].ev.n <= e.n

\* The members of Flying, before and after a step.
LEMMA FlyingMembers ==
  /\ \A e : e \in Flying <=> e \in pending \/ \E h \in Workers : Busy(h) /\ e = task[h].ev
  /\ \A e : e \in Flying' <=>
        e \in pending' \/ \E h \in Workers : task'[h].pc # "idle" /\ e = task'[h].ev
BY DEF Flying, Busy

\* The order is kept.
LEMMA QueueNext ==
  ASSUME Orderly, TypeOK, TypeOK', WorkerHoldsEvent, OneHandler, QueueInv, Next
  PROVE  QueueInv'
<1>1. /\ sent \in Nat /\ sent' \in Nat /\ pending \subseteq Event /\ pending' \subseteq Event
      /\ \A e \in Event : e.n \in Nat /\ e.sub \in Subs
      /\ InOrder
  BY DEF TypeOK, Event, Orderly
<1>2. \A e \in Flying : e \in Event
  BY <1>1, FlyingMembers DEF WorkerHoldsEvent
<1>3. ASSUME Flying' \subseteq Flying, UNCHANGED <<stripe, sent>>,
             \A f \in Flying : Carrier(f) /\ Latest(f)' => Latest(f),
             \A h \in Workers, e \in pending' : task'[h].pc # "idle" => task'[h].ev.n <= e.n
      PROVE  QueueInv'
  <2>1. \A e \in Flying' : EventOK(e)'
    BY <1>3 DEF QueueInv, EventOK
  <2> QED BY <1>3, <2>1 DEF QueueInv, Busy
<1>4. CASE /\ UNCHANGED <<stripe, pending, sent>>
           /\ \A h \in Workers : task'[h].pc = "idle" \/ task'[h] = task[h]
                 \/ (task[h].pc # "idle" /\ task'[h].ev = task[h].ev)
  <2>1. \A h \in Workers : task'[h].pc # "idle" => Busy(h) /\ task'[h].ev = task[h].ev
    BY <1>4 DEF Busy
  <2>2. Flying' \subseteq Flying
    BY <1>4, <2>1, FlyingMembers
  <2>3. \A f \in Flying : Latest(f)' => Latest(f)
    BY <1>4 DEF Latest
  <2>4. \A h \in Workers, e \in pending' : task'[h].pc # "idle" => task'[h].ev.n <= e.n
    BY <1>4, <2>1 DEF QueueInv
  <2> QED BY <1>3, <1>4, <2>2, <2>3, <2>4
<1>5. ASSUME NEW h \in Workers, NEW e \in pending, Deliver(h, e)
      PROVE  QueueInv'
  <2> DEFINE u == [Idle EXCEPT !.pc = "start", !.ev = e, !.sub = e.sub,
                               !.snap = PeriodView(e.snap, HookLegacy)]
  <2>1. Goto(h, u) /\ u.ev = e
    BY <1>5 DEF Deliver, Idle
  <2> HIDE DEF u
  <2>2. /\ UNCHANGED <<stripe, sent>> /\ pending' \subseteq pending
        /\ pending \subseteq pending' \cup {e}
        /\ \A w \in Workers : ~Busy(w)
        /\ \A f \in pending : e.n <= f.n
    BY <1>1, <1>5 DEF Deliver
  <2>3. task'[h].ev = e /\ \A w \in Workers : w # h => task'[w].pc = "idle"
    BY <2>1, <2>2, GotoTask DEF Procs, Busy
  <2>4. Flying' \subseteq pending /\ pending = Flying
    BY <2>2, <2>3, FlyingMembers
  <2>5. ASSUME NEW f \in Flying, Latest(f)'
        PROVE  Latest(f)
    <3> SUFFICES ASSUME NEW g \in pending, ToWrite(g), g.sub = f.sub
                 PROVE  g.n <= f.n
      BY DEF Latest
    <3>1. CASE g = e
      BY <2>2, <2>4, <3>1
    <3>2. CASE g \in pending'
      BY <2>5, <3>2 DEF Latest
    <3> QED BY <2>2, <3>1, <3>2
  <2>6. \A w \in Workers, f \in pending' : task'[w].pc # "idle" => task'[w].ev.n <= f.n
    BY <2>2, <2>3
  <2> QED BY <1>3, <2>2, <2>4, <2>5, <2>6
<1>6. ASSUME NEW h \in Workers, Crash(h)
      PROVE  QueueInv'
  <2>1. /\ UNCHANGED <<stripe, sent>> /\ pending' = pending \cup {task[h].ev}
        /\ Goto(h, Idle) /\ Busy(h)
    BY <1>6 DEF Crash
  <2>2. /\ \A w \in Workers : w # h => ~Busy(w)
        /\ \A w \in Workers : task'[w].pc = "idle"
    <3>1. \A w \in Workers : w # h => ~Busy(w)
      BY <1>1, <2>1 DEF OneHandler
    <3> QED BY <2>1, <3>1, GotoTask DEF Procs, Busy, Idle
  <2>3. Flying' \subseteq Flying
    BY <2>1, <2>2, FlyingMembers
  <2>4. \A f \in Flying : Latest(f)' => Latest(f)
    BY <2>1 DEF Latest
  <2> QED BY <1>3, <2>1, <2>2, <2>3, <2>4
<1>7. ASSUME NEW s \in Subs, NEW new, NEW e, NEW F, Announces(s, new, e, F)
      PROVE  QueueInv'
  <2>1. /\ stripe'[s] = new /\ \A r \in Subs : r # s => stripe'[r] = stripe[r]
        /\ new.status # "none" /\ sent < sent' /\ pending' = pending \cup {e} \cup F
        /\ e.sub = s /\ e.snap = new /\ e.n = sent + 1
        /\ stripe[s].status = "none" \/ ToWrite(e)
        /\ e.kind \in {"created", "updated", "deleted"}
        /\ e.kind = "deleted" => new.status = "canceled"
        /\ \A f \in F : /\ f.kind \in {"checkout", "invoice_paid", "payment_failed"}
                        /\ f.sub = s /\ f.n \in Nat /\ sent + 1 < f.n /\ f.n <= sent'
        /\ \A f, g \in F : f.n = g.n => f = g
        /\ \A h \in Workers : task'[h] = task[h]
    BY <1>7 DEF Announces, TypeOK, ToWrite
  <2>2. Flying' \subseteq Flying \cup {e} \cup F
    BY <2>1, FlyingMembers DEF Busy
  <2>3. ASSUME NEW f \in Flying
        PROVE  EventOK(f)'
    <3>1. EventOK(f) /\ f \in Event
      BY <1>2 DEF QueueInv
    <3>2. f.n <= sent' /\ f.n < e.n /\ f.sub \in Subs
      BY <1>1, <2>1, <3>1 DEF EventOK
    <3>3. CASE f.sub = s
      <4>1. ToWrite(e) /\ e \in pending'
        BY <2>1, <3>1, <3>3 DEF EventOK
      <4>2. ~Latest(f)'
        BY <1>1, <2>1, <3>2, <3>1, <3>3, <4>1 DEF Latest
      <4> QED BY <2>1, <3>1, <3>2, <3>3, <4>2 DEF EventOK
    <3>4. CASE f.sub # s
      <4>1. Latest(f)' => Latest(f)
        BY <2>1 DEF Latest
      <4> QED BY <2>1, <3>1, <3>2, <3>4, <4>1 DEF EventOK
    <3> QED BY <3>3, <3>4
  <2>4. EventOK(e)'
    BY <1>1, <2>1 DEF EventOK
  <2>5. ASSUME NEW f \in F
        PROVE  EventOK(f)'
    BY <2>1 DEF EventOK, Carrier
  <2>6. \A f \in Flying : f.n \in Nat /\ f.n <= sent
    BY <1>1, <1>2 DEF QueueInv, EventOK
  <2>7. \A f, g \in Flying \cup {e} \cup F : f.n = g.n => f = g
    BY <1>1, <2>1, <2>6 DEF QueueInv
  <2>8. \A h \in Workers, f \in pending' : task'[h].pc # "idle" => task'[h].ev.n <= f.n
    <3> SUFFICES ASSUME NEW h \in Workers, NEW f \in pending', Busy(h)
                 PROVE  task[h].ev.n <= f.n
      BY <2>1 DEF Busy
    <3>1. task[h].ev.n \in Nat /\ task[h].ev.n <= sent
      BY <2>6, FlyingMembers
    <3> QED BY <1>1, <2>1, <3>1 DEF QueueInv
  <2> QED BY <2>2, <2>3, <2>4, <2>5, <2>7, <2>8 DEF QueueInv, Busy
<1> QED
  BY <1>4, <1>5, <1>6, <1>7, FlyMoves

\* What a webhook handler holds, by the kind of its event and its step.
KindOK(t) ==
    LET kind == t.ev.kind
        writing == t.pc \in {"read", "save"} IN
    /\ t.sub = t.ev.sub
    /\ t.pc \in {"start", "create"} => t.snap = t.ev.snap
    /\ t.pc = "find" => kind \in {"checkout", "updated", "invoice_paid"}
    /\ t.pc \in {"create", "created_mail"} => kind = "created"
    /\ t.pc = "fetch" => kind \in {"invoice_paid", "payment_failed"}
    /\ t.pc \in {"notice", "cancel_mail"} => kind = "updated"
    /\ writing => kind \in {"updated", "deleted", "payment_failed"}
    /\ writing /\ kind = "updated" =>
          \/ t.set = {"notified"}
          \/ /\ t.set = {"status", "billing", "end", "cape"}
             /\ t.body.status = MapStatus(t.ev.snap.status)
             /\ t.body.billing = t.ev.snap.status
             /\ t.body.end = t.ev.snap.end /\ t.body.cape = t.ev.snap.cape
    /\ writing /\ kind = "deleted" =>
          /\ t.set = {"status", "billing", "cape"}
          /\ t.body.status = "cancelled" /\ t.body.billing = "canceled"
    /\ writing /\ kind = "payment_failed" => t.set = {"status", "billing"}

KindInv == \A h \in Workers : Busy(h) => KindOK(task[h])

\* The first event about a subscription finds no row, each later one does.
Founded(t) == t.ev.kind = "created" \/ t.sub \notin Labelled \/ Exists(t.sub)

\* The task of a handler after one of its steps.
Moved(h) ==
    LET t == task[h]
        u == task'[h]
        kind == t.ev.kind
        same == u.ev = t.ev /\ u.sub = t.sub
        kept == UNCHANGED <<rows, born>> IN
    \/ /\ u.pc = "idle" /\ kept
       /\ t.pc \in {"start", "create"} /\ kind = "created" =>
             Exists(t.sub) \/ t.sub \notin Labelled
       /\ t.pc = "start" /\ ToWrite(t.ev) => ~Exists(t.sub)
    \/ /\ t.pc = "start" /\ kind = "created" /\ u.pc = "create"
       /\ u.snap = t.snap /\ ~Exists(t.sub) /\ same /\ kept
    \/ t.pc = "start" /\ kind = "checkout" /\ u.pc = "find" /\ same /\ kept
    \/ t.pc = "start" /\ kind = "updated" /\ ~Exists(t.sub) /\ u.pc = "find" /\ same /\ kept
    \/ /\ t.pc = "start" /\ kind = "updated" /\ Exists(t.sub) /\ u.pc = "read"
       /\ u.set = {"status", "billing", "end", "cape"}
       /\ u.body.status = MapStatus(t.snap.status) /\ u.body.billing = t.snap.status
       /\ u.body.end = t.snap.end /\ u.body.cape = t.snap.cape /\ same /\ kept
    \/ /\ t.pc = "start" /\ kind = "deleted" /\ Exists(t.sub) /\ u.pc = "read"
       /\ u.set = {"status", "billing", "cape"}
       /\ u.body.status = "cancelled" /\ u.body.billing = "canceled" /\ same /\ kept
    \/ t.pc = "start" /\ kind = "invoice_paid" /\ u.pc = "fetch" /\ same /\ kept
    \/ /\ t.pc = "start" /\ kind = "payment_failed" /\ Exists(t.sub) /\ u.pc = "fetch"
       /\ u.old = rows[t.sub] /\ same /\ kept
    \/ t.pc = "fetch" /\ kind = "invoice_paid" /\ u.pc = "find" /\ same /\ kept
    \/ /\ t.pc = "fetch" /\ kind = "payment_failed" /\ u.pc = "read"
       /\ u.set = {"status", "billing"} /\ u.body.billing = stripe[t.sub].status
       /\ u.body.status = IF stripe[t.sub].status = "past_due" THEN "expired"
                                                               ELSE t.old.status
       /\ same /\ kept
    \/ /\ t.pc = "create" /\ kind = "created" /\ CreateRow(h) /\ ~Exists(t.sub)
       /\ u.pc = "created_mail" /\ same

\* The steps of a handler, case by case.
LEMMA HandlerMoves ==
  ASSUME Orderly, TypeOK, NEW h \in Workers, HandlerStep(h), KindOK(task[h]),
         task[h].ev.kind # "refunded", Founded(task[h])
  PROVE  Moved(h)
<1> DEFINE t == task[h]
           u == task'[h]
           w == WithRow(t)
<1>1. /\ h \in Procs /\ t \in Task /\ t.sub \in Subs /\ Idle.pc = "idle"
      /\ stripe[t.sub] \in StripeSub /\ rows[t.sub] \in Row
      /\ {"create", "created_mail", "find", "fetch"} \subseteq Step
  BY DEF Procs, TypeOK, Idle, Task, Step
<1>2. /\ w \in Task /\ w.ev = t.ev /\ w.sub = t.sub /\ w.old = rows[t.sub]
      /\ w.known = Exists(t.sub) /\ w.snap = t.snap
  BY <1>1, WithRowFields DEF WithRow, Task
<1>3. ASSUME NEW v, Goto(h, v) PROVE u = v
  BY <1>1, <1>3, GotoTask
<1>4. ASSUME NEW a \in Task, NEW set, NEW body
      PROVE  LET v == Writing(a, set, body) IN
             v.pc = "read" /\ v.ev = a.ev /\ v.sub = a.sub /\ v.set = set /\ v.body = body
  BY DEF Writing, Task
<1>5. ASSUME NEW a \in Task, NEW pc \in Step
      PROVE  LET v == At(a, pc) IN
             v.pc = pc /\ v.ev = a.ev /\ v.sub = a.sub /\ v.snap = a.snap /\ v.old = a.old
  BY DEF At, Task
<1>6. ASSUME NEW kind, NEW v, Handle(h, kind, v)
      PROVE  /\ t.pc = "start" /\ t.ev.kind = kind /\ u = v /\ UNCHANGED <<rows, born>>
  BY <1>3, <1>6 DEF Handle
<1>7. ASSUME u = Idle, UNCHANGED <<rows, born>>,
             t.pc \in {"start", "create"} /\ t.ev.kind = "created" =>
                Exists(t.sub) \/ t.sub \notin Labelled,
             t.pc = "start" /\ ToWrite(t.ev) => ~Exists(t.sub)
      PROVE  Moved(h)
  BY <1>1, <1>7 DEF Moved
<1>8. CASE SubscriptionCreated(h)
  <2>1. t.pc = "start" /\ t.ev.kind = "created" /\ u = FindThenCreate(t)
        /\ UNCHANGED <<rows, born>>
    BY <1>6, <1>8 DEF SubscriptionCreated
  <2>2. CASE u = Idle /\ (Exists(t.sub) \/ t.sub \notin Labelled)
    BY <1>7, <2>1, <2>2 DEF ToWrite
  <2>3. CASE u = At(t, "create") /\ ~Exists(t.sub)
    <3>1. u.pc = "create" /\ u.ev = t.ev /\ u.sub = t.sub /\ u.snap = t.snap
      BY <1>1, <1>5, <2>3
    <3> QED BY <2>1, <2>3, <3>1 DEF Moved
  <2> QED BY <2>1, <2>2, <2>3 DEF FindThenCreate, MayCreate
<1>9. CASE CheckoutCompleted(h)
  <2> DEFINE v == [At(t, "find") EXCEPT !.snap = PeriodView(stripe[t.sub], FetchLegacy)]
  <2>1. v.pc = "find" /\ v.ev = t.ev /\ v.sub = t.sub
    BY <1>1 DEF At, Task
  <2>2. Handle(h, "checkout", v)
    BY <1>9 DEF CheckoutCompleted
  <2> HIDE DEF v
  <2> QED BY <1>6, <2>1, <2>2 DEF Moved
<1>10. CASE SubscriptionUpdated(h)
  <2> DEFINE body == [RowFrom(w.snap) EXCEPT !.notified = w.old.notified]
             v == Writing(w, {"status", "billing", "end", "cape"}, body)
  <2>1. Handle(h, "updated", IF ~w.known THEN At(w, "find") ELSE v)
    BY <1>10 DEF SubscriptionUpdated
  <2>2. /\ body.status = MapStatus(t.snap.status) /\ body.billing = t.snap.status
        /\ body.end = t.snap.end /\ body.cape = t.snap.cape
    BY <1>2 DEF RowFrom
  <2> HIDE DEF body
  <2>3. /\ v.pc = "read" /\ v.ev = t.ev /\ v.sub = t.sub /\ v.body = body
        /\ v.set = {"status", "billing", "end", "cape"}
    BY <1>2, <1>4
  <2>4. At(w, "find").pc = "find" /\ At(w, "find").ev = t.ev /\ At(w, "find").sub = t.sub
    BY <1>1, <1>2, <1>5
  <2> HIDE DEF v, w
  <2>5. t.pc = "start" /\ t.ev.kind = "updated" /\ UNCHANGED <<rows, born>>
        /\ u = IF ~w.known THEN At(w, "find") ELSE v
    BY <1>6, <2>1
  <2>6. CASE Exists(t.sub)
    BY <1>2, <2>2, <2>3, <2>5, <2>6 DEF Moved
  <2>7. CASE ~Exists(t.sub)
    BY <1>2, <2>4, <2>5, <2>7 DEF Moved
  <2> QED BY <2>6, <2>7
<1>11. CASE SubscriptionDeleted(h)
  <2> DEFINE body == [w.old EXCEPT !.status = "cancelled", !.billing = "canceled",
                                   !.cape = FALSE]
             v == Writing(w, {"status", "billing", "cape"}, body)
  <2>1. Handle(h, "deleted", IF ~w.known THEN Idle ELSE v)
    BY <1>11 DEF SubscriptionDeleted
  <2>2. body.status = "cancelled" /\ body.billing = "canceled"
    BY <1>1, <1>2 DEF Row
  <2> HIDE DEF body
  <2>3. /\ v.pc = "read" /\ v.ev = t.ev /\ v.sub = t.sub /\ v.body = body
        /\ v.set = {"status", "billing", "cape"}
    BY <1>2, <1>4
  <2> HIDE DEF v, w
  <2>4. t.pc = "start" /\ t.ev.kind = "deleted" /\ UNCHANGED <<rows, born>>
        /\ u = IF ~w.known THEN Idle ELSE v
    BY <1>6, <2>1
  <2>5. CASE Exists(t.sub)
    BY <1>2, <2>2, <2>3, <2>4, <2>5 DEF Moved
  <2>6. CASE ~Exists(t.sub)
    BY <1>2, <1>7, <2>4, <2>6
  <2> QED BY <2>5, <2>6
<1>12. CASE InvoicePaid(h)
  <2>1. Handle(h, "invoice_paid", At(w, "fetch"))
    BY <1>12 DEF InvoicePaid, Orderly
  <2>2. At(w, "fetch").pc = "fetch" /\ At(w, "fetch").ev = t.ev /\ At(w, "fetch").sub = t.sub
    BY <1>1, <1>2, <1>5
  <2> HIDE DEF w
  <2> QED BY <1>6, <2>1, <2>2 DEF Moved
<1>13. CASE InvoicePaymentFailed(h)
  <2>1. Handle(h, "payment_failed", IF w.known THEN At(w, "fetch") ELSE Idle)
    BY <1>13 DEF InvoicePaymentFailed, Orderly
  <2>2. /\ At(w, "fetch").pc = "fetch" /\ At(w, "fetch").ev = t.ev
        /\ At(w, "fetch").sub = t.sub /\ At(w, "fetch").old = rows[t.sub]
    BY <1>1, <1>2, <1>5
  <2> HIDE DEF w
  <2>3. t.pc = "start" /\ t.ev.kind = "payment_failed" /\ UNCHANGED <<rows, born>>
        /\ u = IF w.known THEN At(w, "fetch") ELSE Idle
    BY <1>6, <2>1
  <2>4. CASE Exists(t.sub)
    BY <1>2, <2>2, <2>3, <2>4 DEF Moved
  <2>5. CASE ~Exists(t.sub)
    BY <1>2, <1>7, <2>3, <2>5 DEF ToWrite
  <2> QED BY <2>4, <2>5
<1>14. ~ChargeRefunded(h)
  BY DEF ChargeRefunded, Handle
<1>15. CASE FetchSubscription(h)
  <2> DEFINE live == PeriodView(stripe[t.sub], FetchLegacy)
             failed == [t.old EXCEPT
                          !.status = IF live.status = "past_due" THEN "expired" ELSE @,
                          !.billing = live.status]
             f == [t EXCEPT !.pc = "find", !.snap = live]
             v == Writing(t, {"status", "billing"}, failed)
  <2>1. live.status = stripe[t.sub].status
    BY <1>1 DEF PeriodView, StripeSub
  <2>2. f.pc = "find" /\ f.ev = t.ev /\ f.sub = t.sub
    BY <1>1 DEF Task
  <2>3. /\ failed.billing = stripe[t.sub].status
        /\ failed.status = IF stripe[t.sub].status = "past_due" THEN "expired" ELSE t.old.status
    BY <1>1, <2>1 DEF Task, Row
  <2>4. /\ t.pc = "fetch" /\ UNCHANGED <<rows, born>>
        /\ \/ t.ev.kind = "payment_failed" /\ Goto(h, v)
           \/ t.ev.kind = "invoice_paid" /\ (Goto(h, f) \/ Goto(h, Idle))
    BY <1>15 DEF FetchSubscription, Orderly
  <2> HIDE DEF failed, f
  <2>5. v.pc = "read" /\ v.ev = t.ev /\ v.sub = t.sub /\ v.set = {"status", "billing"}
        /\ v.body = failed
    BY <1>1, <1>4
  <2> HIDE DEF v
  <2>6. CASE t.ev.kind = "payment_failed" /\ Goto(h, v)
    BY <1>3, <2>3, <2>4, <2>5, <2>6 DEF Moved
  <2>7. CASE t.ev.kind = "invoice_paid" /\ Goto(h, f)
    BY <1>3, <2>2, <2>4, <2>7 DEF Moved
  <2>8. CASE t.ev.kind = "invoice_paid" /\ Goto(h, Idle)
    BY <1>3, <1>7, <2>4, <2>8
  <2> QED BY <2>4, <2>6, <2>7, <2>8
<1>16. CASE FindBeforeCreate(h)
  <2>1. t.pc = "find" /\ Goto(h, FindThenCreate(t)) /\ UNCHANGED <<rows, born>>
    BY <1>16 DEF FindBeforeCreate
  <2>2. FindThenCreate(t) = Idle
    BY <2>1 DEF FindThenCreate, MayCreate, Founded, KindOK
  <2> QED BY <1>3, <1>7, <2>1, <2>2
<1>17. CASE CreateRow(h)
  <2>1. /\ t.pc = "create"
        /\ \/ Exists(t.sub) /\ Goto(h, Idle) /\ UNCHANGED <<rows, born>>
           \/ ~Exists(t.sub) /\ Goto(h, At(t, "created_mail"))
    BY <1>17 DEF CreateRow
  <2>2. /\ At(t, "created_mail").pc = "created_mail"
        /\ At(t, "created_mail").ev = t.ev /\ At(t, "created_mail").sub = t.sub
    BY <1>1, <1>5
  <2>3. t.ev.kind = "created"
    BY <2>1 DEF KindOK
  <2>4. CASE Exists(t.sub) /\ Goto(h, Idle) /\ UNCHANGED <<rows, born>>
    BY <1>3, <1>7, <2>1, <2>4
  <2>5. CASE ~Exists(t.sub) /\ Goto(h, At(t, "created_mail"))
    <3>1. u = At(t, "created_mail")
      BY <1>3, <2>5
    <3> QED BY <1>17, <2>1, <2>2, <2>3, <2>5, <3>1 DEF Moved
  <2> QED BY <2>1, <2>4, <2>5
<1>18. CASE SendCreatedMail(h) \/ SendCancelledMail(h)
  <2>1. /\ Goto(h, Idle) /\ UNCHANGED <<rows, born>>
        /\ t.pc \in {"created_mail", "cancel_mail"}
    BY <1>18 DEF SendCreatedMail, SendCancelledMail
  <2> QED BY <1>3, <1>7, <2>1
<1> QED
  BY <1>8, <1>9, <1>10, <1>11, <1>12, <1>13, <1>14, <1>15, <1>16, <1>17, <1>18 DEF HandlerStep

\* As long as s has no row, the event that creates it comes before any other.
FirstInv ==
    \A s \in Labelled : ~Exists(s) /\ stripe[s].status # "none" =>
        \/ /\ \E e \in pending :
                 /\ e.kind = "created" /\ e.sub = s
                 /\ \A f \in pending : f.sub = s => e.n <= f.n
           /\ \A h \in Workers : Busy(h) => task[h].sub # s
        \/ \E h \in Workers :
              /\ task[h].pc \in {"start", "create"} /\ task[h].ev.kind = "created"
              /\ task[h].sub = s

\* So that a handler of a later event finds the row.
LEMMA BusyFounded ==
  ASSUME Orderly, TypeOK, OneHandler, QueueInv, KindInv, FirstInv,
         NEW h \in Workers, Busy(h)
  PROVE  /\ KindOK(task[h]) /\ task[h].ev.kind # "refunded" /\ Founded(task[h])
         /\ task[h].ev \in Flying /\ stripe[task[h].sub].status # "none"
<1> DEFINE t == task[h]
<1>1. KindOK(t) /\ t.sub = t.ev.sub
  BY DEF KindInv, KindOK
<1>2. t.ev \in Flying
  BY FlyingMembers
<1>3. t.ev.kind # "refunded" /\ stripe[t.sub].status # "none"
  BY <1>1, <1>2 DEF QueueInv, EventOK
<1>4. ASSUME t.ev.kind # "created", t.sub \in Labelled, ~Exists(t.sub)
      PROVE  FALSE
  <2>1. PICK g \in Workers : /\ task[g].pc \in {"start", "create"}
                             /\ task[g].ev.kind = "created" /\ task[g].sub = t.sub
    BY <1>3, <1>4 DEF FirstInv
  <2>2. g = h
    BY <2>1 DEF OneHandler, Orderly, Busy
  <2> QED BY <1>4, <2>1, <2>2
<1> QED
  BY <1>1, <1>2, <1>3, <1>4 DEF Founded

\* The steps of a webhook handler, case by case.
LEMMA WorkerMoves ==
  ASSUME Orderly, TypeOK, OneHandler, QueueInv, KindInv, FirstInv, Next, NEW h \in Workers
  PROVE  LET t == task[h]
             u == task'[h] IN
         \/ u = t
         \/ \E e \in pending : /\ Deliver(h, e) /\ t.pc = "idle" /\ u.pc = "start"
                               /\ u.ev = e /\ u.sub = e.sub /\ u.snap = e.snap
         \/ HandlerStep(h) /\ t.pc # "idle" /\ Moved(h)
         \/ /\ UpdateRead(h) /\ t.pc = "read" /\ u.pc = "save" /\ u.ev = t.ev
            /\ u.sub = t.sub /\ u.set = t.set /\ u.body = t.body /\ u.seen = rows[t.sub]
         \/ UpdateSave(h) /\ t.pc = "save" /\ u = AfterUpdate(t)
         \/ SendExpiringMail(h) /\ t.pc = "notice" /\ u = Marking(t)
         \/ Crash(h) /\ t.pc # "idle" /\ u.pc = "idle"
<1> DEFINE t == task[h]
           u == task'[h]
<1>1. h \in Procs /\ h \notin Requests /\ h \notin Crons /\ t \in Task
  BY ConstantsAssumption DEF Procs, TypeOK
<1>2. ASSUME NEW e \in pending, Deliver(h, e)
      PROVE  /\ t.pc = "idle" /\ u.pc = "start" /\ u.ev = e /\ u.sub = e.sub
             /\ u.snap = e.snap
  <2> DEFINE v == [Idle EXCEPT !.pc = "start", !.ev = e, !.sub = e.sub,
                               !.snap = PeriodView(e.snap, HookLegacy)]
  <2>1. v.pc = "start" /\ v.ev = e /\ v.sub = e.sub /\ v.snap = PeriodView(e.snap, HookLegacy)
    BY DEF Idle
  <2>2. PeriodView(e.snap, HookLegacy) = e.snap
    BY DEF PeriodView, Orderly
  <2>3. Goto(h, v) /\ t.pc = "idle"
    BY <1>2 DEF Deliver, Busy
  <2> HIDE DEF v
  <2> QED BY <1>1, <2>1, <2>2, <2>3, GotoTask
<1>3. ASSUME HandlerStep(h)
      PROVE  t.pc # "idle" /\ Moved(h)
  <2>1. t.pc # "idle"
    BY <1>3, HandlerFacts
  <2> QED BY <1>3, <2>1, BusyFounded, HandlerMoves DEF Busy
<1>4. ~CallFails(h)
  BY DEF CallFails, Orderly, TypeOK
<1>5. ASSUME UpdateRead(h)
      PROVE  /\ t.pc = "read" /\ u.pc = "save" /\ u.ev = t.ev
             /\ u.sub = t.sub /\ u.set = t.set /\ u.body = t.body /\ u.seen = rows[t.sub]
  <2> DEFINE v == [t EXCEPT !.pc = "save", !.seen = rows[t.sub]]
  <2>1. /\ v.pc = "save" /\ v.ev = t.ev /\ v.sub = t.sub /\ v.set = t.set
        /\ v.body = t.body /\ v.seen = rows[t.sub]
    BY <1>1 DEF Task
  <2>2. Goto(h, v) /\ t.pc = "read"
    BY <1>5 DEF UpdateRead
  <2> HIDE DEF v
  <2> QED BY <1>1, <2>1, <2>2, GotoTask
<1>6. ASSUME UpdateSave(h) PROVE t.pc = "save" /\ u = AfterUpdate(t)
  BY <1>1, <1>6, GotoTask DEF UpdateSave
<1>7. ASSUME SendExpiringMail(h) PROVE t.pc = "notice" /\ u = Marking(t)
  BY <1>1, <1>7, GotoTask DEF SendExpiringMail
<1>8. ASSUME Crash(h) PROVE t.pc # "idle" /\ u.pc = "idle"
  BY <1>1, <1>8, GotoTask DEF Crash, Busy, Idle
<1> HIDE DEF t, u
<1> QED
  BY <1>1, <1>2, <1>3, <1>4, <1>5, <1>6, <1>7, <1>8, ProcSteps DEF UpdateStep, t, u

\* What a handler holds stays in keeping with the kind of its event.
LEMMA KindNext ==
  ASSUME Orderly, TypeOK, OneHandler, QueueInv, KindInv, FirstInv, Next
  PROVE  KindInv'
<1> SUFFICES ASSUME NEW h \in Workers, task'[h].pc # "idle"
             PROVE  KindOK(task'[h])
  BY DEF KindInv, Busy
<1> DEFINE t == task[h]
           u == task'[h]
<1>1. t \in Task /\ (t.pc # "idle" => KindOK(t))
  BY DEF TypeOK, Procs, KindInv, Busy
<1>2. CASE u = t
  BY <1>1, <1>2
<1>3. CASE \E e \in pending : u.pc = "start" /\ u.ev = e /\ u.sub = e.sub /\ u.snap = e.snap
  BY <1>3 DEF KindOK
<1>4. CASE t.pc # "idle" /\ Moved(h)
  <2>1. KindOK(t)
    BY <1>1, <1>4
  <2> QED BY <1>4, <2>1 DEF Moved, KindOK
<1>5. CASE /\ t.pc = "read" /\ u.pc = "save" /\ u.ev = t.ev
           /\ u.sub = t.sub /\ u.set = t.set /\ u.body = t.body
  BY <1>1, <1>5 DEF KindOK
<1>6. CASE t.pc = "save" /\ u = AfterUpdate(t)
  <2>1. /\ u.pc \in {"notice", "cancel_mail"} /\ t.ev.kind = "updated"
        /\ u.ev = t.ev /\ u.sub = t.sub
    BY <1>1, <1>6, AfterUpdateFacts
  <2> QED BY <1>1, <1>6, <2>1 DEF KindOK
<1>7. CASE t.pc = "notice" /\ u = Marking(t)
  <2>1. /\ u.pc = "read" /\ u.ev = t.ev /\ u.sub = t.sub /\ u.set = {"notified"}
    BY <1>1, <1>7, MarkingFacts
  <2> QED BY <1>1, <1>7, <2>1 DEF KindOK
<1> QED
  BY <1>2, <1>3, <1>4, <1>5, <1>6, <1>7, WorkerMoves

\* What Stripe has begun stays begun, and a row is inserted for nothing else.
ExistsInv == \A s \in Subs : Exists(s) => stripe[s].status # "none"

\* Stripe's subscriptions do not return to nothing.
LEMMA StripeStays ==
  ASSUME Orderly, TypeOK, Next, NEW s \in Subs, stripe[s].status # "none"
  PROVE  stripe'[s].status # "none"
<1>1. ASSUME NEW h \in Workers, (\E e \in pending : Deliver(h, e)) \/ Crash(h)
      PROVE  UNCHANGED stripe
  BY <1>1 DEF Deliver, Crash
<1>2. ASSUME NEW r \in Subs, NEW new, NEW e, NEW F, Announces(r, new, e, F)
      PROVE  stripe'[s] = stripe[s] \/ (stripe'[s].status = new.status /\ new.status # "none")
  BY <1>2 DEF Announces, TypeOK
<1> QED
  BY <1>1, <1>2, FlyMoves

\* Rows exist only of what Stripe has.
LEMMA ExistsNext ==
  ASSUME Orderly, TypeOK, OneHandler, QueueInv, KindInv, FirstInv, ExistsInv, Next
  PROVE  ExistsInv'
<1> SUFFICES ASSUME NEW s \in Subs, born'[s] > 0
             PROVE  stripe'[s].status # "none"
  BY DEF ExistsInv, Exists
<1>1. ASSUME NEW h \in Workers, CreateRow(h), task[h].sub = s
      PROVE  stripe[s].status # "none"
  BY <1>1, BusyFounded DEF CreateRow, Busy
<1>2. ASSUME NEW h \in Workers, CreateRow(h), task[h].sub # s
      PROVE  born'[s] = born[s]
  BY <1>2 DEF CreateRow, TypeOK
<1>3. stripe[s].status # "none"
  BY <1>1, <1>2, BornSteps DEF ExistsInv, Exists
<1> QED
  BY <1>3, StripeStays

\* The creating event stays first.
LEMMA FirstNext ==
  ASSUME Orderly, TypeOK, TypeOK', WorkerHoldsEvent, WritersInv, OneHandler, QueueInv,
         KindInv, KindInv', FirstInv, Next
  PROVE  FirstInv'
<1> SUFFICES ASSUME NEW s \in Labelled, ~(born'[s] > 0), stripe'[s].status # "none"
             PROVE  \/ /\ \E e \in pending' :
                             /\ e.kind = "created" /\ e.sub = s
                             /\ \A f \in pending' : f.sub = s => e.n <= f.n
                       /\ \A h \in Workers : task'[h].pc # "idle" => task'[h].sub # s
                    \/ \E h \in Workers :
                          /\ task'[h].pc \in {"start", "create"}
                          /\ task'[h].ev.kind = "created" /\ task'[h].sub = s
  BY DEF FirstInv, Exists, Busy
<1> DEFINE Waiting(e) == /\ e \in pending /\ e.kind = "created" /\ e.sub = s
                         /\ \A f \in pending : f.sub = s => e.n <= f.n
                         /\ \A h \in Workers : Busy(h) => task[h].sub # s
           Making(h) == /\ task[h].pc \in {"start", "create"}
                        /\ task[h].ev.kind = "created" /\ task[h].sub = s
           Goal == (\E e : Waiting(e)') \/ (\E h \in Workers : Making(h)')
<1>1. s \in Subs /\ ~Exists(s) /\ sent \in Nat /\ InOrder /\ Workers \subseteq Procs
      /\ \A e \in pending : e.n \in Nat /\ e.sub \in Subs
  <2>1. s \in Subs
    BY ConstantsAssumption
  <2>2. ~Exists(s)
    BY <2>1, RowsStay DEF WritersInv, Exists
  <2> QED BY <2>1, <2>2 DEF TypeOK, Event, Orderly, Procs
<1>2. ASSUME stripe[s].status # "none"
      PROVE  (\E e : Waiting(e)) \/ \E h \in Workers : Making(h)
  BY <1>1, <1>2 DEF FirstInv
<1>3. \A e \in pending : EventOK(e) /\ e \in Flying
  BY FlyingMembers DEF QueueInv
<1>4. ASSUME NEW r \in Subs, NEW new, NEW d, NEW F, Announces(r, new, d, F)
      PROVE  Goal
  <2>1. /\ stripe' = [stripe EXCEPT ![r] = new] /\ pending' = pending \cup {d} \cup F
        /\ d.sub = r /\ d.n = sent + 1
        /\ stripe[r].status = "none" => d.kind = "created"
        /\ \A f \in F : f.sub = r /\ f.n \in Nat /\ sent + 1 < f.n
        /\ \A h \in Workers : task'[h] = task[h]
    BY <1>4 DEF Announces
  <2>2. CASE stripe[s].status = "none"
    <3>1. r = s
      BY <1>1, <2>1, <2>2 DEF TypeOK
    <3>2. \A f \in pending : f.sub # s
      BY <1>3, <2>2 DEF EventOK
    <3>3. \A h \in Workers : Busy(h) => task[h].sub # s
      BY <2>2, BusyFounded
    <3>4. Waiting(d)'
      BY <1>1, <2>1, <2>2, <3>1, <3>2, <3>3 DEF Busy
    <3> QED BY <3>4
  <2>3. ASSUME NEW e, Waiting(e)
        PROVE  Waiting(e)'
    <3>1. e.n <= sent /\ e.n \in Nat
      BY <1>1, <1>3, <2>3 DEF EventOK
    <3>2. \A f \in pending' : f.sub = s => e.n <= f.n
      BY <1>1, <2>1, <2>3, <3>1
    <3> QED BY <2>1, <2>3, <3>2 DEF Busy
  <2>4. ASSUME NEW h \in Workers, Making(h)
        PROVE  Making(h)'
    BY <2>1, <2>4
  <2> HIDE DEF Waiting, Making
  <2> QED BY <1>2, <2>2, <2>3, <2>4
<1>5. ASSUME NEW h \in Workers, NEW d \in pending, Deliver(h, d)
      PROVE  Goal
  <2>1. /\ UNCHANGED stripe /\ pending' \subseteq pending /\ pending \subseteq pending' \cup {d}
        /\ \A w \in Workers : ~Busy(w)
        /\ \A f \in pending : d.n <= f.n
    BY <1>1, <1>5 DEF Deliver
  <2>2. /\ task'[h].pc = "start" /\ task'[h].ev = d /\ task'[h].sub = d.sub
        /\ \A w \in Workers : w # h => task'[w].pc = "idle"
    <3> DEFINE u == [Idle EXCEPT !.pc = "start", !.ev = d, !.sub = d.sub,
                                 !.snap = PeriodView(d.snap, HookLegacy)]
    <3>1. u.pc = "start" /\ u.ev = d /\ u.sub = d.sub
      BY DEF Idle
    <3>2. Goto(h, u)
      BY <1>5 DEF Deliver
    <3> HIDE DEF u
    <3> QED BY <1>1, <2>1, <3>1, <3>2, GotoTask DEF Busy
  <2>3. PICK e : Waiting(e)
    <3>1. \A g \in Workers : ~Making(g)
      BY <2>1 DEF Busy
    <3> QED BY <1>2, <2>1, <3>1
  <2>4. CASE d.sub = s
    <3>1. e.n = d.n
      BY <1>1, <2>1, <2>3, <2>4
    <3>2. e = d
      BY <1>3, <2>3, <3>1 DEF QueueInv
    <3>3. Making(h)'
      BY <2>2, <2>3, <3>2
    <3> QED BY <3>3
  <2>5. CASE d.sub # s
    <3>1. Waiting(e)'
      BY <2>1, <2>2, <2>3, <2>5 DEF Busy
    <3> QED BY <3>1
  <2> QED BY <2>4, <2>5
<1>6. ASSUME NEW h \in Workers, Crash(h)
      PROVE  Goal
  <2>1. /\ UNCHANGED stripe /\ pending' = pending \cup {task[h].ev}
        /\ Goto(h, Idle) /\ Busy(h)
    BY <1>6 DEF Crash
  <2>2. \A w \in Workers : task'[w].pc = "idle"
    <3>1. \A w \in Workers : w # h => ~Busy(w)
      BY <1>1, <2>1 DEF OneHandler
    <3> QED BY <1>1, <2>1, <3>1, GotoTask DEF Busy, Idle
  <2>3. task[h].sub = task[h].ev.sub
    BY <2>1 DEF KindInv, KindOK
  <2>4. ASSUME NEW e, Waiting(e)
        PROVE  Waiting(e)'
    BY <2>1, <2>2, <2>3, <2>4 DEF Busy
  <2>5. ASSUME NEW g \in Workers, Making(g)
        PROVE  Goal
    <3>1. g = h
      BY <1>1, <2>1, <2>5 DEF OneHandler, Busy
    <3>2. \A f \in pending : task[h].ev.n <= f.n
      BY <2>1 DEF QueueInv
    <3>3. task[h].ev.n \in Nat
      BY <2>1 DEF WorkerHoldsEvent, Event
    <3> PICK e \in Event : e = task[h].ev
      BY <2>1 DEF WorkerHoldsEvent
    <3>4. e \in pending' /\ e.kind = "created" /\ e.sub = s
      BY <2>1, <2>3, <2>5, <3>1
    <3>5. \A f \in pending' : e.n <= f.n
      BY <2>1, <3>2, <3>3
    <3>6. Waiting(e)'
      BY <2>2, <3>4, <3>5 DEF Busy
    <3> QED BY <3>6
  <2> HIDE DEF Waiting, Making
  <2> QED BY <1>2, <2>1, <2>4, <2>5
<1>7. ASSUME UNCHANGED <<stripe, pending, sent>>,
             \A h \in Workers : task'[h].pc = "idle" \/ task'[h] = task[h]
                 \/ (task[h].pc # "idle" /\ task'[h].ev = task[h].ev)
      PROVE  Goal
  <2>1. ASSUME NEW e, Waiting(e)
        PROVE  Waiting(e)'
    <3>1. ASSUME NEW h \in Workers, task'[h].pc # "idle"
          PROVE  task'[h].sub # s
      <4>1. task[h].pc # "idle" /\ task'[h].ev = task[h].ev
        BY <1>7, <3>1
      <4>2. task[h].sub = task[h].ev.sub /\ task'[h].sub = task'[h].ev.sub
        BY <3>1, <4>1 DEF KindInv, KindOK, Busy
      <4> QED BY <2>1, <4>1, <4>2 DEF Busy
    <3> QED BY <1>7, <2>1, <3>1 DEF Busy
  <2>2. ASSUME NEW h \in Workers, Making(h)
        PROVE  Goal
    <3>1. CASE task'[h] = task[h]
      BY <2>2, <3>1
    <3>2. CASE Moved(h)
      <4>1. ~CreateRow(h) \/ Exists(s)
        <5>1. ASSUME CreateRow(h) PROVE born'[s] > 0 \/ Exists(s)
          BY <1>1, <2>2, <5>1, RankType DEF CreateRow, TypeOK
        <5> QED BY <5>1
      <4> QED BY <1>1, <2>2, <3>2, <4>1 DEF Moved
    <3>3. CASE Crash(h)
      BY <1>6, <3>3
    <3>4. ASSUME Making(h)' PROVE Goal
      BY <3>4
    <3> HIDE DEF Goal
    <3> QED BY <2>2, <3>1, <3>2, <3>3, <3>4, WorkerMoves
  <2>3. stripe[s].status # "none"
    BY <1>7
  <2>4. CASE \E e : Waiting(e)
    <3> HIDE DEF Waiting
    <3> QED BY <2>1, <2>4
  <2>5. CASE \E h \in Workers : Making(h)
    <3> HIDE DEF Goal
    <3> QED BY <2>2, <2>5
  <2> HIDE DEF Waiting, Making
  <2> QED BY <1>2, <2>3, <2>4, <2>5
<1>8. Goal
  <2> HIDE DEF Goal
  <2>1. CASE \E r \in Subs : \E new, d, F : Announces(r, new, d, F)
    BY <1>4, <2>1
  <2>2. CASE \E h \in Workers, d \in pending : Deliver(h, d)
    BY <1>5, <2>2
  <2>3. CASE \E h \in Workers : Crash(h)
    BY <1>6, <2>3
  <2> QED BY <1>7, <2>1, <2>2, <2>3, FlyMoves
<1> QED
  BY <1>8 DEF Busy

-----------------------------------------------------------------------------
\* What the row and the processes about to write it tell of Stripe.

\* The row agrees with Stripe's subscription on what Mirrors asks for.
AgreesWith(row, sub) ==
    /\ row.billing = sub.status
    /\ row.status \in {MapStatus(sub.status), "expired"}
    /\ sub.status \in {"active", "trialing", "past_due"} =>
          row.end = sub.end /\ row.cape = sub.cape

\* A save of what agrees with Stripe leaves a row that agrees.
LEMMA SaveKeeps ==
  ASSUME NEW row, NEW sub, NEW seen, NEW body, NEW set, AgreesWith(row, sub),
         "status" \in set => body.status \in {MapStatus(sub.status), "expired"},
         "billing" \in set => body.billing = sub.status,
         "end" \in set => body.end = sub.end,
         "cape" \in set => body.cape = sub.cape
  PROVE  AgreesWith(Saved(row, seen, body, set), sub)
<1> DEFINE new == Saved(row, seen, body, set)
<1>1. /\ new.billing \in {row.billing, body.billing}
      /\ new.status \in {row.status, body.status}
      /\ new.end \in {row.end, body.end} /\ new.cape \in {row.cape, body.cape}
      /\ "billing" \notin set => new.billing = row.billing
      /\ "status" \notin set => new.status = row.status
      /\ "end" \notin set => new.end = row.end
      /\ "cape" \notin set => new.cape = row.cape
  BY DEF Saved
<1> HIDE DEF new
<1> QED BY <1>1 DEF AgreesWith, new

\* The update of a handler brings the row to what the event told, although the
\* row it read may have been marked or marked as expired since.
LEMMA SaveReaches ==
  ASSUME NEW row, NEW sub, NEW seen, NEW body, NEW set,
         row.billing = seen.billing, row.end = seen.end,
         row.status \in {seen.status, "expired"},
         row.cape \in {seen.cape, sub.cape},
         {"status", "billing"} \subseteq set,
         body.status = MapStatus(sub.status), body.billing = sub.status,
         sub.status # "canceled" =>
            {"end", "cape"} \subseteq set /\ body.end = sub.end /\ body.cape = sub.cape
  PROVE  AgreesWith(Saved(row, seen, body, set), sub)
<1> DEFINE new == Saved(row, seen, body, set)
<1>1. /\ new.billing = IF body.billing # seen.billing THEN body.billing ELSE row.billing
      /\ new.status = IF body.status # seen.status THEN body.status ELSE row.status
      /\ "end" \in set => new.end = IF body.end # seen.end THEN body.end ELSE row.end
      /\ "cape" \in set => new.cape = IF body.cape # seen.cape THEN body.cape ELSE row.cape
  BY DEF Saved
<1> HIDE DEF new
<1>2. new.billing = sub.status /\ new.status \in {MapStatus(sub.status), "expired"}
  BY <1>1
<1>3. sub.status # "canceled" => new.end = sub.end /\ new.cape = sub.cape
  BY <1>1
<1> QED BY <1>2, <1>3 DEF AgreesWith, new

\* A request in its update writes the cancel_at_period_end that Stripe has.
CapeInv ==
    \A r \in Requests :
        /\ Busy(r) => Exists(task[r].sub)
        /\ task[r].pc \in {"read", "save"} => task[r].body.cape = stripe[task[r].sub].cape

\* No event that will write the row of s is on its way; none but the one that t
\* handles.
NoneLeft(s) == \A e \in pending : ToWrite(e) => e.sub # s
Alone(t) == \A e \in pending : ToWrite(e) /\ e.sub = t.sub => e = t.ev

\* Between the read and the save of a handler others change what it does not
\* write, or mark the row as expired.
SeenInv ==
    \A h \in Workers :
        LET t == task[h]
            row == rows[t.sub] IN
        t.pc = "save" /\ "status" \in t.set =>
            /\ row.billing = t.seen.billing /\ row.end = t.seen.end
            /\ row.status \in {t.seen.status, "expired"}
            /\ Alone(t) => row.cape \in {t.seen.cape, stripe[t.sub].cape}

\* The handler of a failed payment, which writes what Stripe answers, writes
\* nothing new, unless an event is on its way.
FailedInv ==
    \A h \in Workers :
        LET t == task[h]
            status == stripe[t.sub].status IN
        t.ev.kind = "payment_failed" /\ NoneLeft(t.sub) =>
            /\ t.pc = "fetch" => t.old.status \in {MapStatus(status), "expired"}
            /\ t.pc \in {"read", "save"} =>
                  /\ t.body.billing = status
                  /\ t.body.status \in {MapStatus(status), "expired"}

\* The handler h is about to write the row of s from its event.
Applying(h, s) ==
    /\ ToWrite(task[h].ev) /\ task[h].sub = s
    /\ \/ task[h].pc = "start"
       \/ task[h].pc \in {"read", "save"} /\ "status" \in task[h].set

\* A row agrees with Stripe unless an event that will write it is on its way or
\* being applied.
RowInv ==
    \A s \in Subs :
        Exists(s) /\ NoneLeft(s) /\ (\A h \in Workers : ~Applying(h, s)) =>
            AgreesWith(rows[s], stripe[s])

\* What has no row has none yet.
NoRowInv == \A s \in Labelled : ~Exists(s) => rows[s] = NoRow

\* What Stripe has begun changes only with an event that will write the row,
\* and with its cancel_at_period_end only at a request.
LEMMA StripeKept ==
  ASSUME Orderly, TypeOK, Next, NEW s \in Subs, stripe[s].status # "none"
  PROVE  /\ \/ stripe'[s] = stripe[s]
            \/ /\ UNCHANGED <<rows, born>>
               /\ \E e \in pending' : ToWrite(e) /\ e.sub = s /\ e.n = sent + 1
         /\ \/ stripe'[s].cape = stripe[s].cape
            \/ \E r \in Requests : RequestStripe(r)
<1>1. ASSUME NEW h \in Workers, (\E e \in pending : Deliver(h, e)) \/ Crash(h)
      PROVE  UNCHANGED stripe
  BY <1>1 DEF Deliver, Crash
<1>2. ASSUME NEW r \in Subs, NEW new, NEW e, NEW F, Announces(r, new, e, F), r # s
      PROVE  stripe'[s] = stripe[s]
  BY <1>2 DEF Announces, TypeOK
<1>3. ASSUME NEW new, NEW e, NEW F, Announces(s, new, e, F)
      PROVE  /\ UNCHANGED <<rows, born>>
             /\ e \in pending' /\ ToWrite(e) /\ e.sub = s /\ e.n = sent + 1
             /\ \/ stripe'[s].cape = stripe[s].cape
                \/ \E r \in Requests : RequestStripe(r)
  BY <1>3 DEF Announces, TypeOK
<1>4. CASE UNCHANGED stripe
  BY <1>4
<1>5. CASE \E r \in Subs : \E new, e, F : Announces(r, new, e, F)
  <2>1. PICK r \in Subs : \E new, e, F : Announces(r, new, e, F)
    BY <1>5
  <2>2. CASE r = s
    BY <1>3, <2>1, <2>2
  <2>3. CASE r # s
    <3>1. stripe'[s] = stripe[s]
      BY <1>2, <2>1, <2>3
    <3> QED BY <3>1
  <2> QED BY <2>2, <2>3
<1> QED
  BY <1>1, <1>4, <1>5, FlyMoves

\* While one event is handled the others stay.
LEMMA PendingKept ==
  ASSUME Orderly, TypeOK, OneHandler, Next, NEW h \in Workers, Busy(h)
  PROVE  pending \subseteq pending'
<1>1. ~\E g \in Workers, e \in pending : Deliver(g, e)
  BY DEF Deliver, Orderly
<1>2. ASSUME NEW g \in Workers, Crash(g)
      PROVE  pending \subseteq pending'
  BY <1>2 DEF Crash
<1>3. ASSUME NEW s \in Subs, NEW new, NEW e, NEW F, Announces(s, new, e, F)
      PROVE  pending \subseteq pending'
  BY <1>3 DEF Announces
<1> QED
  BY <1>1, <1>2, <1>3, FlyMoves

\* What a request is about to write is what Stripe has.
LEMMA CapeNext ==
  ASSUME Orderly, TypeOK, TypeOK', WritersInv, ExistsInv, CapeInv, Next
  PROVE  CapeInv'
<1> SUFFICES ASSUME NEW r \in Requests
             PROVE  /\ task'[r].pc # "idle" => Exists(task[r].sub)'
                    /\ task'[r].pc \in {"read", "save"} =>
                          task'[r].body.cape = stripe'[task'[r].sub].cape
  BY DEF CapeInv, Busy
<1> DEFINE t == task[r]
           u == task'[r]
<1>1. r \in Procs /\ r \notin Workers /\ r \notin Crons /\ t \in Task /\ t.sub \in Subs
  BY ConstantsAssumption DEF Procs, TypeOK, Task
<1>2. \A q \in Requests : q = r
  BY DEF Orderly
<1>3. \A s \in Subs : Exists(s) => born'[s] > 0
  BY RowsStay DEF WritersInv, Exists
<1>4. ASSUME t.pc # "idle", ~RequestStripe(r)
      PROVE  born'[t.sub] > 0 /\ stripe'[t.sub].cape = stripe[t.sub].cape
  <2>1. Exists(t.sub) /\ stripe[t.sub].status # "none"
    BY <1>1, <1>4 DEF CapeInv, Busy, ExistsInv
  <2> QED BY <1>1, <1>2, <1>3, <1>4, <2>1, StripeKept
<1>5. CASE u = t
  <2>1. CASE RequestStripe(r)
    <3>1. t.pc = "stripe"
      BY <2>1 DEF RequestStripe
    <3>2. born'[t.sub] > 0
      BY <1>1, <1>3, <3>1 DEF CapeInv, Busy
    <3> QED BY <1>5, <3>1, <3>2 DEF Exists
  <2>2. CASE ~RequestStripe(r)
    BY <1>4, <1>5, <2>2 DEF CapeInv, Exists
  <2> QED BY <2>1, <2>2
<1>6. ASSUME NEW s \in Subs, NEW kind \in RequestKind, StartRequest(r, s, kind)
      PROVE  u.pc = "stripe" /\ u.sub = s /\ born'[s] > 0
  <2> DEFINE v == WithRow([Idle EXCEPT !.pc = "stripe", !.ev.kind = kind, !.sub = s])
  <2>1. v.pc = "stripe" /\ v.sub = s
    BY DEF WithRow, Idle, NoCause
  <2>2. Goto(r, v) /\ Exists(s) /\ UNCHANGED born
    BY <1>6 DEF StartRequest, IsLatest
  <2> HIDE DEF v
  <2> QED BY <1>1, <2>1, <2>2, GotoTask DEF Exists
<1>7. CASE RequestStripe(r)
  <2> DEFINE want == t.ev.kind = "cancel"
             body == [t.old EXCEPT !.cape = want]
             v == Writing(t, {"cape"}, body)
  <2>1. body.cape = want
    BY <1>1 DEF Task, Row
  <2>2. v.pc = "read" /\ v.sub = t.sub /\ v.body = body
    BY <1>1 DEF Writing, Task
  <2>3. t.pc = "stripe" /\ \/ Goto(r, Idle)
                           \/ /\ stripe' = [stripe EXCEPT ![t.sub].cape = want]
                              /\ Goto(r, v)
    BY <1>7 DEF RequestStripe
  <2>4. born'[t.sub] > 0
    BY <1>1, <1>3, <2>3 DEF CapeInv, Busy
  <2>5. CASE Goto(r, Idle)
    BY <1>1, <2>5, GotoTask DEF Idle
  <2>6. CASE stripe' = [stripe EXCEPT ![t.sub].cape = want] /\ Goto(r, v)
    <3> HIDE DEF want, body, v
    <3>1. stripe'[t.sub].cape = want
      BY <1>1, <2>6 DEF TypeOK, StripeSub
    <3>2. u = v
      BY <1>1, <2>6, GotoTask
    <3>3. u.pc = "read" /\ u.sub = t.sub /\ u.body.cape = want
      BY <2>1, <2>2, <3>2
    <3> QED BY <2>4, <3>1, <3>3 DEF Exists
  <2> QED BY <2>3, <2>5, <2>6
<1>8. CASE SendExpiringMail(r) \/ UpdateStep(r) \/ CallFails(r) \/ Crash(r)
  <2>1. /\ t.pc \in {"idle", "stripe", "read", "save"}
        /\ t.pc # "idle" => t.ev.kind # "updated"
    BY DEF WritersInv, RequestsInv, RequestKind
  <2>2. ~CallFails(r)
    BY DEF CallFails, Orderly, TypeOK
  <2>3. \/ u.pc = "idle"
        \/ t.pc = "read" /\ u.sub = t.sub /\ u.body = t.body
        \/ t.pc \in {"read", "save"} /\ u = AfterUpdate(t)
    BY <1>1, <1>8, <2>1, <2>2, OwnSteps
  <2>4. u.pc = "idle" \/ (t.pc = "read" /\ u.sub = t.sub /\ u.body = t.body)
    BY <1>1, <2>1, <2>3, AfterUpdateFacts
  <2>5. t.pc = "read" => ~RequestStripe(r)
    BY DEF RequestStripe
  <2> QED BY <1>4, <2>4, <2>5 DEF CapeInv, Exists
<1> HIDE DEF u, t
<1>9. CASE \E s \in Subs, kind \in RequestKind : StartRequest(r, s, kind)
  BY <1>6, <1>9 DEF Exists, u
<1> QED
  BY <1>1, <1>5, <1>7, <1>8, <1>9, ProcSteps DEF u, t

\* What becomes of one row.
LEMMA RowMoves ==
  ASSUME TypeOK, Next, NEW s \in Subs
  PROVE  \/ rows'[s] = rows[s]
         \/ \E h \in Workers : /\ CreateRow(h) /\ ~Exists(s) /\ task[h].sub = s
                               /\ rows'[s] = RowFrom(task[h].snap)
         \/ \E p \in Procs :
               LET t == task[p] IN
               /\ UpdateSave(p) /\ t.pc = "save" /\ t.sub = s
               /\ rows'[s] = Saved(rows[s], t.seen, t.body, t.set)
         \/ /\ MarkExpired /\ Exists(s) /\ rows'[s].status = "expired"
            /\ rows'[s].billing = rows[s].billing /\ rows'[s].end = rows[s].end
            /\ rows'[s].cape = rows[s].cape
<1>1. ASSUME NEW h \in Workers, CreateRow(h), ~Exists(task[h].sub)
      PROVE  \/ rows'[s] = rows[s]
             \/ ~Exists(s) /\ task[h].sub = s /\ rows'[s] = RowFrom(task[h].snap)
  BY <1>1 DEF CreateRow, TypeOK
<1>2. ASSUME NEW p \in Procs, UpdateSave(p)
      PROVE  LET t == task[p] IN
             \/ rows'[s] = rows[s]
             \/ t.pc = "save" /\ t.sub = s /\ rows'[s] = Saved(rows[s], t.seen, t.body, t.set)
  BY <1>2 DEF UpdateSave, TypeOK
<1>3. CASE MarkExpired
  <2>1. rows[s] \in Row
    BY DEF TypeOK
  <2>2. \/ rows'[s] = rows[s]
        \/ Exists(s) /\ rows'[s] = [rows[s] EXCEPT !.status = "expired"]
    BY <1>3 DEF MarkExpired
  <2> QED BY <1>3, <2>1, <2>2 DEF Row
<1> QED
  BY <1>1, <1>2, <1>3, RowSteps

\* What is being updated has a row.
LEMMA SaveFounded ==
  ASSUME Orderly, TypeOK, WritersInv, OneHandler, QueueInv, KindInv, FirstInv, CapeInv,
         NEW p \in Procs, task[p].pc \in {"read", "save"}
  PROVE  Exists(task[p].sub) \/ task[p].sub \notin Labelled
<1>1. CASE p \in Workers
  BY <1>1, BusyFounded DEF Busy, Founded, KindOK
<1>2. CASE p \in Requests
  BY <1>2 DEF CapeInv, Busy
<1>3. CASE p \in Crons
  BY <1>3 DEF WritersInv, CronsInv
<1> QED
  BY <1>1, <1>2, <1>3 DEF Procs

\* What has no row is not written.
LEMMA NoRowNext ==
  ASSUME Orderly, TypeOK, WritersInv, OneHandler, QueueInv, KindInv, FirstInv, CapeInv,
         NoRowInv, Next
  PROVE  NoRowInv'
<1> SUFFICES ASSUME NEW s \in Labelled, ~(born'[s] > 0)
             PROVE  rows'[s] = NoRow
  BY DEF NoRowInv, Exists
<1>1. s \in Subs
  BY ConstantsAssumption
<1>2. ~Exists(s)
  BY <1>1, RowsStay DEF WritersInv, Exists
<1>3. ASSUME NEW h \in Workers, CreateRow(h), task[h].sub = s
      PROVE  FALSE
  BY <1>1, <1>2, <1>3, RankType DEF CreateRow, TypeOK
<1>4. ASSUME NEW p \in Procs, task[p].pc = "save", task[p].sub = s
      PROVE  FALSE
  BY <1>2, <1>4, SaveFounded
<1>5. rows'[s] = rows[s]
  BY <1>1, <1>2, <1>3, <1>4, RowMoves
<1> QED BY <1>2, <1>5 DEF NoRowInv

\* A save by another process than the handlers.
LEMMA OtherSaves ==
  ASSUME TypeOK, WritersInv, CapeInv, NEW p \in Procs, p \notin Workers, task[p].pc = "save",
         NEW s \in Subs, task[p].sub = s,
         rows'[s] = Saved(rows[s], task[p].seen, task[p].body, task[p].set)
  PROVE  /\ rows'[s].billing = rows[s].billing /\ rows'[s].end = rows[s].end
         /\ rows'[s].status = rows[s].status
         /\ rows'[s].cape \in {rows[s].cape, stripe[s].cape}
<1>1. \/ p \in Requests /\ task[p].set = {"cape"} /\ task[p].body.cape = stripe[s].cape
      \/ task[p].set = {"notified"}
  BY DEF Procs, WritersInv, RequestsInv, CronsInv, CapeInv
<1>2. rows[s] \in Row
  BY DEF TypeOK
<1> QED BY <1>1, <1>2 DEF Saved, Row

\* What a handler has read stays what the row says.
LEMMA SeenNext ==
  ASSUME Orderly, TypeOK, TypeOK', WritersInv, OneHandler, QueueInv, KindInv, FirstInv,
         CapeInv, SeenInv, Next
  PROVE  SeenInv'
<1> DEFINE OK(t, row) == /\ row.billing = t.seen.billing /\ row.end = t.seen.end
                         /\ row.status \in {t.seen.status, "expired"}
           Last(t) == \A e \in pending' : ToWrite(e) /\ e.sub = t.sub => e = t.ev
<1> SUFFICES ASSUME NEW h \in Workers, NEW s, s = task'[h].sub,
                    task'[h].pc = "save", "status" \in task'[h].set
             PROVE  /\ OK(task'[h], rows'[s])
                    /\ Last(task'[h]) => rows'[s].cape \in {task'[h].seen.cape, stripe'[s].cape}
  BY DEF SeenInv, Alone
<1> DEFINE t == task[h]
           u == task'[h]
<1>1. t \in Task /\ u.sub \in Subs /\ h \in Procs
  BY DEF TypeOK, Task, Procs
<1>2. ASSUME u = t, ~UpdateSave(h)
      PROVE  /\ OK(u, rows'[s])
             /\ Last(u) => rows'[s].cape \in {u.seen.cape, stripe'[s].cape}
  <2>1. /\ OK(t, rows[s]) /\ s = t.sub /\ s \in Subs /\ Busy(h)
        /\ Alone(t) => rows[s].cape \in {t.seen.cape, stripe[s].cape}
    BY <1>1, <1>2 DEF SeenInv, Busy
  <2>2. /\ stripe[s].status # "none" /\ t.ev.n <= sent /\ sent \in Nat
        /\ pending \subseteq pending'
    <3>1. t.ev \in Flying /\ stripe[s].status # "none"
      BY <2>1, BusyFounded
    <3> QED BY <2>1, <3>1, PendingKept DEF QueueInv, EventOK, TypeOK
  <2>3. \A g \in Workers : Busy(g) => g = h
    BY <2>1 DEF OneHandler, Orderly
  <2>4. \/ rows'[s] = rows[s]
        \/ /\ rows'[s].billing = rows[s].billing /\ rows'[s].end = rows[s].end
           /\ rows'[s].status = rows[s].status
           /\ rows'[s].cape \in {rows[s].cape, stripe[s].cape}
        \/ /\ rows'[s].status = "expired"
           /\ rows'[s].billing = rows[s].billing /\ rows'[s].end = rows[s].end
           /\ rows'[s].cape = rows[s].cape
    <3>1. ASSUME NEW g \in Workers, CreateRow(g) PROVE FALSE
      BY <1>2, <2>3, <3>1 DEF CreateRow, Busy
    <3>2. ASSUME NEW p \in Procs, UpdateSave(p), task[p].pc = "save", task[p].sub = s,
                 rows'[s] = Saved(rows[s], task[p].seen, task[p].body, task[p].set)
          PROVE  /\ rows'[s].billing = rows[s].billing /\ rows'[s].end = rows[s].end
                 /\ rows'[s].status = rows[s].status
                 /\ rows'[s].cape \in {rows[s].cape, stripe[s].cape}
      <4>1. p \notin Workers
        BY <1>2, <2>3, <3>2 DEF Busy
      <4> QED BY <2>1, <3>2, <4>1, OtherSaves
    <3> QED BY <2>1, <3>1, <3>2, RowMoves
  <2>5. OK(u, rows'[s])
    BY <1>2, <2>1, <2>4
  <2>6. ASSUME Last(u)
        PROVE  rows'[s].cape \in {u.seen.cape, stripe'[s].cape}
    <3>1. Alone(t)
      BY <1>2, <2>2, <2>6 DEF Alone
    <3>2. ~\E e \in pending' : ToWrite(e) /\ e.sub = s /\ e.n = sent + 1
      <4> SUFFICES ASSUME NEW e \in pending', ToWrite(e), e.sub = s, e.n = sent + 1
                   PROVE  FALSE
        OBVIOUS
      <4>1. e = t.ev
        BY <1>2, <2>1, <2>6 DEF Alone
      <4> QED BY <2>2, <4>1
    <3>3. stripe'[s] = stripe[s]
      BY <2>1, <2>2, <3>2, StripeKept
    <3> QED BY <1>2, <2>1, <2>4, <3>1, <3>3
  <2> QED BY <2>5, <2>6
<1>3. ASSUME UpdateRead(h), u.sub = t.sub, u.seen = rows[t.sub]
      PROVE  /\ OK(u, rows'[s])
             /\ Last(u) => rows'[s].cape \in {u.seen.cape, stripe'[s].cape}
  <2>1. UNCHANGED rows /\ s = t.sub
    BY <1>3 DEF UpdateRead
  <2> QED BY <1>3, <2>1
<1>4. ~(HandlerStep(h) /\ Moved(h))
  BY DEF Moved
<1>5. u # AfterUpdate(t) /\ u # Marking(t)
  BY <1>1, AfterUpdateFacts, MarkingFacts
<1>6. UpdateSave(h) => u = AfterUpdate(t)
  BY <1>1, GotoTask DEF UpdateSave
<1> HIDE DEF OK, Last
<1> QED BY <1>2, <1>3, <1>4, <1>5, <1>6, WorkerMoves

\* The handler of a failed payment goes on writing nothing new.
LEMMA FailedNext ==
  ASSUME Orderly, TypeOK, TypeOK', WritersInv, OneHandler, QueueInv, KindInv, FirstInv,
         RowInv, FailedInv, Next
  PROVE  FailedInv'
<1> DEFINE OK(t, status) ==
             /\ t.pc = "fetch" => t.old.status \in {MapStatus(status), "expired"}
             /\ t.pc \in {"read", "save"} =>
                   t.body.billing = status /\ t.body.status \in {MapStatus(status), "expired"}
<1> SUFFICES ASSUME NEW h \in Workers, NEW s, s = task'[h].sub,
                    task'[h].ev.kind = "payment_failed",
                    task'[h].pc \in {"fetch", "read", "save"},
                    \A e \in pending' : ToWrite(e) => e.sub # s
             PROVE  OK(task'[h], stripe'[s].status)
  BY DEF FailedInv, NoneLeft
<1> DEFINE t == task[h]
           u == task'[h]
<1>1. t \in Task /\ u.sub \in Subs /\ s \in Subs /\ h \in Procs
  BY DEF TypeOK, Task, Procs
<1>2. ASSUME Busy(h), t.sub = s, t.ev = u.ev
      PROVE  /\ NoneLeft(s) /\ stripe'[s] = stripe[s] /\ KindOK(t)
             /\ t.pc \in {"fetch", "read", "save"} => OK(t, stripe[s].status)
             /\ t.pc = "start" /\ Exists(s) =>
                   rows[s].status \in {MapStatus(stripe[s].status), "expired"}
  <2>1. stripe[s].status # "none" /\ pending \subseteq pending' /\ KindOK(t)
    BY <1>2, BusyFounded, PendingKept
  <2>2. NoneLeft(s)
    BY <2>1 DEF NoneLeft
  <2>3. stripe'[s] = stripe[s]
    BY <1>1, <2>1, StripeKept
  <2>4. t.pc \in {"fetch", "read", "save"} => OK(t, stripe[s].status)
    BY <1>2, <2>2 DEF FailedInv
  <2>5. ASSUME t.pc = "start", Exists(s)
        PROVE  rows[s].status \in {MapStatus(stripe[s].status), "expired"}
    <3>1. \A g \in Workers : ~Applying(g, s)
      BY <1>2 DEF Applying, ToWrite, OneHandler, Orderly, Busy
    <3> QED BY <1>1, <2>2, <2>5, <3>1 DEF RowInv, AgreesWith
  <2> QED BY <2>1, <2>2, <2>3, <2>4, <2>5
<1>3. CASE u = t
  BY <1>2, <1>3 DEF Busy
<1>4. CASE Moved(h) /\ t.pc # "idle"
  <2>1. /\ u.ev = t.ev /\ u.sub = t.sub
        /\ \/ t.pc = "start" /\ Exists(t.sub) /\ u.pc = "fetch" /\ u.old = rows[t.sub]
           \/ /\ t.pc = "fetch" /\ u.pc = "read" /\ u.body.billing = stripe[t.sub].status
              /\ u.body.status = IF stripe[t.sub].status = "past_due" THEN "expired"
                                                                      ELSE t.old.status
    BY <1>4 DEF Moved
  <2> QED BY <1>2, <1>4, <2>1 DEF Busy
<1>5. CASE /\ t.pc = "read" /\ u.pc = "save" /\ u.ev = t.ev
           /\ u.sub = t.sub /\ u.body = t.body
  BY <1>2, <1>5 DEF Busy
<1>6. u # AfterUpdate(t)
  BY <1>1, AfterUpdateFacts
<1>7. CASE t.pc = "notice" /\ u = Marking(t)
  <2>1. u.ev = t.ev /\ u.sub = t.sub
    BY <1>1, <1>7, MarkingFacts
  <2> QED BY <1>2, <1>7, <2>1 DEF Busy, KindOK
<1> HIDE DEF OK
<1> QED BY <1>3, <1>4, <1>5, <1>6, <1>7, WorkerMoves

\* A handler that applies its event goes on, saves the row or is interrupted, in
\* which case the event comes again.
LEMMA ApplyingGoesOn ==
  ASSUME Orderly, TypeOK, OneHandler, QueueInv, KindInv, FirstInv, Next,
         NEW h \in Workers, NEW s \in Subs, Applying(h, s), born'[s] > 0
  PROVE  \/ Applying(h, s)'
         \/ UpdateSave(h) /\ task[h].pc = "save" /\ "status" \in task[h].set
         \/ \E e \in pending' : ToWrite(e) /\ e.sub = s
<1> DEFINE t == task[h]
           u == task'[h]
<1>1. t \in Task /\ t.pc # "idle" /\ t.sub = s /\ ToWrite(t.ev) /\ KindOK(t)
  BY BusyFounded DEF TypeOK, Procs, Applying, Busy
<1>2. CASE u = t
  BY <1>2 DEF Applying
<1>3. CASE HandlerStep(h) /\ Moved(h)
  <2>1. t.pc = "start" /\ t.ev.kind \in {"updated", "deleted"}
    BY <1>1, <1>3, HandlerFacts DEF Applying, ToWrite
  <2>2. CASE UNCHANGED born /\ ~Exists(s)
    BY <2>2 DEF Exists
  <2>3. CASE u.pc = "read" /\ "status" \in u.set /\ u.ev = t.ev /\ u.sub = t.sub
    BY <1>1, <2>3 DEF Applying
  <2> QED BY <1>1, <1>3, <2>1, <2>2, <2>3 DEF Moved
<1>4. CASE /\ t.pc = "read" /\ u.pc = "save" /\ u.ev = t.ev
           /\ u.sub = t.sub /\ u.set = t.set
  BY <1>1, <1>4 DEF Applying
<1>5. CASE UpdateSave(h) /\ t.pc = "save"
  BY <1>5 DEF Applying
<1>6. t.pc # "notice"
  BY DEF Applying
<1>7. CASE Crash(h)
  <2>1. t.ev \in pending'
    BY <1>7 DEF Crash
  <2> QED BY <1>1, <2>1 DEF KindOK
<1> QED BY <1>1, <1>2, <1>3, <1>4, <1>5, <1>6, <1>7, WorkerMoves

\* An event that will write the row stays on its way or comes to be applied.
LEMMA PendingGoesOn ==
  ASSUME Orderly, TypeOK, OneHandler, QueueInv, KindInv, FirstInv, Next,
         NEW e \in pending, ToWrite(e)
  PROVE  e \in pending' \/ \E h \in Workers : Applying(h, e.sub)'
<1>1. ASSUME NEW h \in Workers, NEW d \in pending, Deliver(h, d)
      PROVE  pending \subseteq pending' \cup {d}
  BY <1>1 DEF Deliver
<1>2. ASSUME NEW h \in Workers, NEW d \in pending, Deliver(h, d)
      PROVE  task'[h].pc = "start" /\ task'[h].ev = d /\ task'[h].sub = d.sub
  <2> DEFINE u == [Idle EXCEPT !.pc = "start", !.ev = d, !.sub = d.sub,
                               !.snap = PeriodView(d.snap, HookLegacy)]
  <2>1. u.pc = "start" /\ u.ev = d /\ u.sub = d.sub
    BY DEF Idle
  <2>2. Goto(h, u) /\ h \in Procs
    BY <1>2 DEF Deliver, Procs
  <2> HIDE DEF u
  <2> QED BY <2>1, <2>2, GotoTask
<1>3. ASSUME NEW h \in Workers, Crash(h)
      PROVE  pending \subseteq pending'
  BY <1>3 DEF Crash
<1>4. ASSUME NEW s \in Subs, NEW new, NEW d, NEW F, Announces(s, new, d, F)
      PROVE  pending \subseteq pending'
  BY <1>4 DEF Announces
<1>5. CASE \E h \in Workers, d \in pending : Deliver(h, d)
  <2> PICK h \in Workers, d \in pending : Deliver(h, d)
    BY <1>5
  <2>1. e \in pending' \/ e = d
    BY <1>1
  <2>2. e = d => Applying(h, e.sub)'
    BY <1>2 DEF Applying
  <2> QED BY <2>1, <2>2
<1> QED
  BY <1>3, <1>4, <1>5, FlyMoves

\* The rows agree with Stripe after every step.
LEMMA RowNext ==
  ASSUME Orderly, TypeOK, TypeOK', WritersInv, OneHandler, QueueInv, KindInv, FirstInv,
         ExistsInv, CapeInv, SeenInv, FailedInv, RowInv, Next
  PROVE  RowInv'
<1> SUFFICES ASSUME NEW s \in Subs, born'[s] > 0, NoneLeft(s)',
                    \A h \in Workers : ~Applying(h, s)'
             PROVE  AgreesWith(rows'[s], stripe'[s])
  BY DEF RowInv, Exists
<1>1. NoneLeft(s)
  BY PendingGoesOn DEF NoneLeft
<1>2. \A h \in Workers :
         CreateRow(h) /\ task[h].sub = s => KindOK(task[h]) /\ stripe[s].status # "none"
                                               /\ task[h].ev \in Flying
  BY BusyFounded DEF CreateRow, Busy
<1>3. Exists(s) \/ \E h \in Workers : CreateRow(h) /\ task[h].sub = s
  <2>1. ASSUME NEW h \in Workers, CreateRow(h), task[h].sub # s
        PROVE  born'[s] = born[s]
    BY <2>1 DEF CreateRow, TypeOK
  <2> QED BY <2>1, BornSteps DEF Exists
<1>4. stripe[s].status # "none" /\ stripe'[s] = stripe[s]
  <2>1. stripe[s].status # "none"
    BY <1>2, <1>3 DEF ExistsInv
  <2> QED BY <2>1, StripeKept DEF NoneLeft
<1>5. ASSUME NEW h \in Workers, Applying(h, s)
      PROVE  AgreesWith(rows'[s], stripe[s])
  <2> DEFINE t == task[h]
  <2>1. UpdateSave(h) /\ t.pc = "save" /\ "status" \in t.set
    BY <1>5, ApplyingGoesOn DEF NoneLeft
  <2>2. /\ t.sub = s /\ ToWrite(t.ev) /\ KindOK(t) /\ EventOK(t.ev)
    BY <1>5, <2>1, BusyFounded DEF Applying, Busy, QueueInv
  <2>3. t.ev.snap = stripe[s] /\ Alone(t)
    BY <1>1, <2>2 DEF EventOK, Carrier, ToWrite, Latest, NoneLeft, Alone, KindOK
  <2>4. rows'[s] = Saved(rows[s], t.seen, t.body, t.set)
    BY <2>1, <2>2 DEF UpdateSave, TypeOK
  <2>5. /\ rows[s].billing = t.seen.billing /\ rows[s].end = t.seen.end
        /\ rows[s].status \in {t.seen.status, "expired"}
        /\ rows[s].cape \in {t.seen.cape, stripe[s].cape}
    BY <2>1, <2>2, <2>3 DEF SeenInv
  <2>6. CASE t.ev.kind = "updated"
    <3>1. /\ t.set = {"status", "billing", "end", "cape"}
          /\ t.body.status = MapStatus(stripe[s].status)
          /\ t.body.billing = stripe[s].status
          /\ t.body.end = stripe[s].end /\ t.body.cape = stripe[s].cape
      <4>1. t.set # {"notified"}
        BY <2>1
      <4> QED BY <2>1, <2>2, <2>3, <2>6, <4>1 DEF KindOK
    <3> QED BY <2>4, <2>5, <3>1, SaveReaches
  <2>7. CASE t.ev.kind = "deleted"
    <3>1. stripe[s].status = "canceled"
      BY <2>2, <2>3, <2>7 DEF EventOK
    <3>2. /\ t.set = {"status", "billing", "cape"}
          /\ t.body.status = "cancelled" /\ t.body.billing = "canceled"
      BY <2>1, <2>2, <2>7 DEF KindOK
    <3>3. MapStatus(stripe[s].status) = "cancelled"
      BY <3>1 DEF MapStatus
    <3> QED BY <2>4, <2>5, <3>1, <3>2, <3>3, SaveReaches
  <2> QED BY <2>2, <2>6, <2>7 DEF ToWrite
<1>6. ASSUME NEW h \in Workers, CreateRow(h), task[h].sub = s, ~Exists(s)
      PROVE  AgreesWith(rows'[s], stripe[s])
  <2> DEFINE t == task[h]
  <2>1. t.pc = "create" /\ rows'[s] = RowFrom(t.snap)
    BY <1>6 DEF CreateRow, TypeOK
  <2>2. KindOK(t) /\ EventOK(t.ev)
    BY <1>2, <1>6 DEF QueueInv
  <2>3. t.snap = t.ev.snap /\ t.ev.kind = "created" /\ t.ev.sub = s
    BY <1>6, <2>1, <2>2 DEF KindOK
  <2>4. t.snap = stripe[s]
    BY <1>1, <2>2, <2>3 DEF EventOK, Carrier, Latest, NoneLeft
  <2>5. rows'[s] = RowFrom(stripe[s])
    BY <2>1, <2>4
  <2> QED BY <2>5 DEF RowFrom, AgreesWith
<1>7. ASSUME \A h \in Workers : ~Applying(h, s), Exists(s)
      PROVE  AgreesWith(rows'[s], stripe[s])
  <2>1. AgreesWith(rows[s], stripe[s])
    BY <1>1, <1>7 DEF RowInv
  <2>2. ASSUME NEW p \in Procs, task[p].pc = "save", task[p].sub = s,
               rows'[s] = Saved(rows[s], task[p].seen, task[p].body, task[p].set)
        PROVE  AgreesWith(rows'[s], stripe[s])
    <3> DEFINE t == task[p]
    <3>1. CASE t.set = {"notified"}
      BY <2>1, <2>2, <3>1, SaveKeeps
    <3>2. CASE p \in Requests
      <4>1. t.set = {"cape"} /\ t.body.cape = stripe[s].cape
        BY <2>2, <3>2 DEF WritersInv, RequestsInv, CapeInv
      <4> QED BY <2>1, <2>2, <4>1, SaveKeeps
    <3>3. CASE p \in Crons
      BY <2>2, <3>1, <3>3 DEF WritersInv, CronsInv
    <3>4. CASE p \in Workers /\ t.set # {"notified"}
      <4>1. KindOK(t) /\ ~Applying(p, s)
        BY <1>7, <2>2, <3>4 DEF KindInv, Busy
      <4>2. t.ev.kind = "payment_failed" /\ t.set = {"status", "billing"}
        BY <2>2, <3>4, <4>1 DEF KindOK, Applying, ToWrite
      <4>3. /\ t.body.billing = stripe[s].status
            /\ t.body.status \in {MapStatus(stripe[s].status), "expired"}
        BY <1>1, <2>2, <3>4, <4>2 DEF FailedInv
      <4> QED BY <2>1, <2>2, <4>2, <4>3, SaveKeeps
    <3> QED BY <3>1, <3>2, <3>3, <3>4 DEF Procs
  <2>3. CASE /\ rows'[s].status = "expired"
             /\ rows'[s].billing = rows[s].billing /\ rows'[s].end = rows[s].end
             /\ rows'[s].cape = rows[s].cape
    BY <2>1, <2>3 DEF AgreesWith
  <2> QED BY <1>7, <2>1, <2>2, <2>3, RowMoves
<1> QED
  BY <1>3, <1>4, <1>5, <1>6, <1>7

\* All that keeps the rows in agreement with Stripe.
MirrorInv ==
    /\ QueueInv /\ KindInv /\ FirstInv /\ ExistsInv
    /\ CapeInv /\ SeenInv /\ FailedInv /\ RowInv /\ NoRowInv

\* Nothing has happened yet at the start.
LEMMA MirrorInit == ASSUME Init PROVE MirrorInv
<1>1. /\ pending = {} /\ \A p \in Procs : task[p].pc = "idle"
      /\ \A s \in Subs : rows[s] = NoRow /\ ~Exists(s) /\ stripe[s].status = "none"
  BY DEF Init, Idle, Exists, NoSub
<1>2. Workers \subseteq Procs /\ Requests \subseteq Procs /\ Labelled \subseteq Subs
  BY ConstantsAssumption DEF Procs
<1>3. QueueInv
  <2>1. \A e : e \notin Flying
    BY <1>1, <1>2, FlyingMembers DEF Busy
  <2> QED BY <1>1, <2>1 DEF QueueInv
<1>4. KindInv /\ CapeInv
  BY <1>1, <1>2 DEF KindInv, CapeInv, Busy
<1>5. FirstInv /\ ExistsInv /\ NoRowInv
  BY <1>1, <1>2 DEF FirstInv, ExistsInv, NoRowInv
<1>6. SeenInv /\ FailedInv /\ RowInv
  BY <1>1, <1>2 DEF SeenInv, FailedInv, RowInv
<1> QED
  BY <1>3, <1>4, <1>5, <1>6 DEF MirrorInv

\* ... and every step keeps to it.
LEMMA MirrorNext ==
  ASSUME Orderly, IInv, IInv', WritersInv, OneHandler, MirrorInv, [Next]_vars
  PROVE  MirrorInv'
<1>1. TypeOK /\ TypeOK' /\ WorkerHoldsEvent
  BY DEF IInv
<1>2. CASE Next
  <2>1. QueueInv' /\ KindInv' /\ ExistsInv'
    BY <1>1, <1>2, QueueNext, KindNext, ExistsNext DEF MirrorInv
  <2>2. FirstInv'
    BY <1>1, <1>2, <2>1, FirstNext DEF MirrorInv
  <2>3. CapeInv' /\ NoRowInv'
    BY <1>1, <1>2, CapeNext, NoRowNext DEF MirrorInv
  <2>4. SeenInv' /\ FailedInv' /\ RowInv'
    BY <1>1, <1>2, SeenNext, FailedNext, RowNext DEF MirrorInv
  <2> QED BY <2>1, <2>2, <2>3, <2>4 DEF MirrorInv
<1>3. CASE UNCHANGED vars
  <2>1. QueueInv' /\ FirstInv' /\ ExistsInv'
    BY <1>3 DEF MirrorInv, vars, QueueInv, Flying, EventOK, Latest, FirstInv, ExistsInv,
       Busy, Exists
  <2>2. KindInv' /\ CapeInv' /\ NoRowInv'
    BY <1>3 DEF MirrorInv, vars, KindInv, CapeInv, NoRowInv, Busy, Exists
  <2>3. SeenInv' /\ FailedInv' /\ RowInv'
    BY <1>3 DEF MirrorInv, vars, SeenInv, Alone, FailedInv, NoneLeft, RowInv, Applying, Exists
  <2> QED BY <2>1, <2>2, <2>3 DEF MirrorInv
<1> QED
  BY <1>2, <1>3

\* Nothing on its way, nothing in progress: the row is what Stripe has.
LEMMA MirrorSettles ==
  ASSUME MirrorInv, NEW s \in Labelled, Settled(s)
  PROVE  Mirrors(s)
<1>1. s \in Subs /\ Workers \subseteq Procs
  BY ConstantsAssumption DEF Procs
<1>2. ~Exists(s) => stripe[s].status = "none"
  BY <1>1 DEF MirrorInv, FirstInv, Settled, Busy
<1>3. CASE Exists(s)
  <2>1. NoneLeft(s) /\ \A h \in Workers : ~Applying(h, s)
    BY <1>1 DEF Settled, NoneLeft, Applying, Busy
  <2>2. AgreesWith(rows[s], stripe[s]) /\ stripe[s].status # "none"
    BY <1>1, <1>3, <2>1 DEF MirrorInv, RowInv, ExistsInv
  <2> QED BY <1>3, <2>2 DEF Mirrors, AgreesWith, Live
<1>4. CASE ~Exists(s)
  BY <1>2, <1>4 DEF MirrorInv, NoRowInv, Mirrors, NoRow, MapStatus, Live
<1> QED
  BY <1>3, <1>4

\* With deliveries in order, no failing calls and one user request at a time,
\* every row mirrors Stripe once its events have been handled: with any number
\* of subscriptions, handlers, cron jobs, repeated deliveries and crashes.
THEOREM MirrorsCorrect == ASSUME Orderly PROVE Spec => []MirrorsWhenSettled
<1>1. Init => IInv /\ WritersInv /\ OneHandler /\ MirrorInv
  BY InitInv, WritersInit, CountInit, MirrorInit DEF CountInv
<1>2. (IInv /\ WritersInv /\ OneHandler /\ MirrorInv) /\ [Next]_vars
         => (IInv /\ WritersInv /\ OneHandler /\ MirrorInv)'
  <2> SUFFICES ASSUME IInv, WritersInv, OneHandler, MirrorInv, [Next]_vars
               PROVE  (IInv /\ WritersInv /\ OneHandler /\ MirrorInv)'
    OBVIOUS
  <2>1. IInv' /\ WritersInv'
    BY NextInv, WritersNext
  <2>2. MirrorInv'
    BY <2>1, MirrorNext
  <2>3. CASE Next
    <3>1. OneHandler'
      BY <2>3, OneHandlerNext DEF IInv
    <3> QED BY <2>1, <2>2, <3>1
  <2>4. CASE UNCHANGED vars
    <3>1. OneHandler'
      BY <2>4 DEF vars, OneHandler, Busy
    <3> QED BY <2>1, <2>2, <3>1
  <2> QED BY <2>3, <2>4
<1>3. MirrorInv => MirrorsWhenSettled
  BY MirrorSettles DEF MirrorsWhenSettled
<1> QED
  BY <1>1, <1>2, <1>3, PTL DEF Spec

\* Whose subscription is paid for may chat once its events have been handled, or
\* the nightly job has marked the row as expired before a renewal was handled.
PaidUnlessMarked ==
    \A s \in Labelled :
        /\ Settled(s) /\ IsLatest(s)
        /\ stripe[s].status \in {"active", "trialing"} /\ now < stripe[s].end
        => ChatAccess(Owner[s]) \/ (rows[s].status = "expired" /\ ~rows[s].cape)

\* The mark of markExpiredSubscriptions is all that can keep a user who has paid
\* from chatting (checkChatAccess), with deliveries in order.
THEOREM PaidCorrect == ASSUME Orderly PROVE Spec => []PaidUnlessMarked
<1>1. MirrorsWhenSettled => PaidUnlessMarked
  <2> SUFFICES ASSUME MirrorsWhenSettled, NEW s \in Labelled, Settled(s), IsLatest(s),
                      stripe[s].status \in {"active", "trialing"}, now < stripe[s].end
               PROVE  ChatAccess(Owner[s]) \/ (rows[s].status = "expired" /\ ~rows[s].cape)
    BY DEF PaidUnlessMarked
  <2>1. Mirrors(s)
    BY DEF MirrorsWhenSettled
  <2>2. /\ rows[s].billing \in {"active", "trialing"} /\ now < rows[s].end
        /\ rows[s].status \in {"active", "trialing", "expired"}
    BY <2>1 DEF Mirrors, Live, MapStatus
  <2>3. s \in RowsOf(Owner[s])
    BY ConstantsAssumption DEF RowsOf, IsLatest
  <2> QED BY <2>2, <2>3 DEF ChatAccess
<1> QED
  BY <1>1, MirrorsCorrect, PTL

=============================================================================
