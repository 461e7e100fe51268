---------------------------- MODULE Subscription ----------------------------
(***************************************************************************)
(* How the API mirrors Stripe subscriptions in its own database            *)
(* (src/src/modules/sql/subscription).                                     *)
(*                                                                         *)
(* Stripe owns the subscriptions; every change there is announced by       *)
(* webhook events.  A webhook handler, a user request and a cron job are   *)
(* all async functions: each await is a point where the others run, so     *)
(* each process below takes one step per database or Stripe call.  A       *)
(* process is a member of Workers (webhook requests in flight), Requests   *)
(* (user requests in flight) or Crons (instances of the nightly job).      *)
(*                                                                         *)
(* Rows are inserted by webhook handlers only.  POST /subscription, which  *)
(* lets any signed-in user insert a row with a Stripe id and statuses of   *)
(* their own, is a route of Controllers and no step here: what is shown is *)
(* shown of tables without such rows.                                      *)
(***************************************************************************)
EXTENDS Integers, Sequences, FiniteSets

CONSTANTS
    Users,          \* application users, one Stripe customer each
    Subs,           \* Stripe subscription ids
    Owner,          \* Owner[s]: the user in the metadata of s
    Labelled,       \* the subscriptions whose metadata names user and plan
    Workers, Requests, Crons,
    Period,         \* length of a billing period, in days
    HookDays,       \* the webhook warns this many days before the end (3)
    CronDays,       \* the cron job warns this many days before the end (7)
    PageLimit,      \* rows one findAll returns (paginationLimit, 10)
    HookLegacy,     \* webhook objects carry current_period_end, invoice.subscription
    FetchLegacy,    \* objects read through the API carry current_period_end
    InOrder,        \* Stripe delivers one event at a time, in order of emission
    Refunds,        \* charges may be refunded in the Stripe dashboard
    \* Bounds of the model.
    MaxNow, MaxEvents, MaxSessions, MaxDup, MaxFail, MaxCrash

Procs == Workers \cup Requests \cup Crons

ASSUME ConstantsAssumption ==
    /\ Owner \in [Subs -> Users]
    /\ Labelled \subseteq Subs
    /\ Subs # {} /\ IsFiniteSet(Subs)
    /\ Workers \cap Requests = {} /\ Workers \cap Crons = {}
    /\ Requests \cap Crons = {} /\ IsFiniteSet(Workers) /\ IsFiniteSet(Crons)
    /\ Period \in Nat \ {0} /\ HookDays \in Nat /\ CronDays \in Nat
    /\ PageLimit \in Nat \ {0}
    /\ HookLegacy \in BOOLEAN /\ FetchLegacy \in BOOLEAN
    /\ InOrder \in BOOLEAN /\ Refunds \in BOOLEAN
    /\ MaxNow \in Nat /\ MaxEvents \in Nat /\ MaxSessions \in Nat
    /\ MaxDup \in Nat /\ MaxFail \in Nat /\ MaxCrash \in Nat

VARIABLES
    stripe,     \* stripe[s]: the subscription as Stripe has it
    pending,    \* webhook events not yet handed to the API
    sent,       \* number of events Stripe has emitted
    sessions,   \* sessions[u]: open checkout sessions of u
    rows,       \* rows[s]: the Subscription row with stripe_subscription_id = s
    born,       \* born[s]: insertion rank of that row (created_at), 0 if none
    task,       \* task[p]: what process p is in the middle of
    todo,       \* todo[c]: rows the cron instance c has listed and not reached
    created,    \* created[s]: "subscription_created" mails sent for s
    expiring,   \* expiring[s]: expiry warnings sent for s
    cancelMail, \* cancelMail[s]: cancellation mails sent for s
    now,        \* days since the start
    faults      \* duplicated deliveries, failed calls and crashes so far

stripeVars == <<stripe, sessions>>
queueVars  == <<pending, sent>>
dbVars     == <<rows, born>>
mailVars   == <<created, expiring, cancelMail>>
vars == <<stripeVars, queueVars, dbVars, mailVars, task, todo, now, faults>>

-----------------------------------------------------------------------------
StripeStatus == {"none", "active", "trialing", "past_due", "canceled"}
SubscriptionStatus == {"active", "trialing", "inactive", "cancelled", "expired"}
EventKind == {"created", "updated", "deleted", "checkout", "invoice_paid",
              "payment_failed", "refunded"}
RequestKind == {"cancel", "reactivate", "cancel_now"}
Step == {"idle", "start", "find", "create", "created_mail", "fetch", "read",
         "save", "notice", "cancel_mail", "stripe"}
Field == {"status", "billing", "end", "cape", "notified"}

\* A Stripe subscription; cape is cancel_at_period_end, end is the end of the
\* current billing period and anchor its billing_cycle_anchor.
StripeSub == [status: StripeStatus, anchor: Nat, end: Nat, cape: BOOLEAN]
NoSub == [status |-> "none", anchor |-> 0, end |-> 0, cape |-> FALSE]

Event == [kind: EventKind, sub: Subs, snap: StripeSub, n: Nat]

\* The columns of a row that any decision reads.
Row == [status: SubscriptionStatus, billing: StripeStatus, end: Nat,
        cape: BOOLEAN, notified: BOOLEAN]
NoRow == [status |-> "inactive", billing |-> "none", end |-> 0,
          cape |-> FALSE, notified |-> FALSE]

\* A process: the event or the kind of request it serves (ev), the row it is
\* about (sub), the Stripe object it works from (snap), the row it found
\* first (old, known), the columns it is writing (set, body) and the row its
\* update has read (seen).
Cause == [kind: EventKind \cup RequestKind \cup {"none", "cron"}, sub: Subs,
          snap: StripeSub, n: Nat]
Task == [pc: Step, ev: Cause, sub: Subs, snap: StripeSub, known: BOOLEAN,
         old: Row, set: SUBSET Field, body: Row, seen: Row]
AnySub == CHOOSE s \in Subs : TRUE
NoCause == [kind |-> "none", sub |-> AnySub, snap |-> NoSub, n |-> 0]
Idle == [pc |-> "idle", ev |-> NoCause, sub |-> AnySub, snap |-> NoSub,
         known |-> FALSE, old |-> NoRow, set |-> {}, body |-> NoRow,
         seen |-> NoRow]

Exists(s) == born[s] > 0
Busy(p) == task[p].pc # "idle"
\* No call for s is in progress and no event about s is on its way.
Settled(s) == /\ \A e \in pending : e.sub # s
              /\ \A p \in Procs : Busy(p) => task[p].sub # s

-----------------------------------------------------------------------------
\* What the API makes of what it reads.

\* Mutant: Stripe's status is stored as it is.
UnmappedStatus(st) == st

\* The status switch of handleSubscriptionCreated and handleSubscriptionUpdated.
MapStatus(st) ==
    CASE st = "active"   -> "active"
      [] st = "trialing" -> "trialing"
      [] st = "past_due" -> "expired"
      [] st = "canceled" -> "cancelled"
      [] OTHER           -> "inactive"

\* Mutant: the end of the period after the current one.
NextPeriodView(snap, legacy) == [snap EXCEPT !.end = @ + Period]

\* extractPeriodDates: without current_period_end the end is computed from
\* the billing cycle anchor, one interval later.
PeriodView(snap, legacy) ==
    IF legacy THEN snap ELSE [snap EXCEPT !.end = snap.anchor + Period]

\* The row handleSubscriptionCreated inserts.
RowFrom(snap) ==
    [status |-> MapStatus(snap.status), billing |-> snap.status,
     end |-> snap.end, cape |-> snap.cape, notified |-> FALSE]

\* Mutant: the save writes every column, as the update read it.
SavedWhole(row, seen, body, set) ==
    [status   |-> IF "status" \in set THEN body.status ELSE seen.status,
     billing  |-> IF "billing" \in set THEN body.billing ELSE seen.billing,
     end      |-> IF "end" \in set THEN body.end ELSE seen.end,
     cape     |-> IF "cape" \in set THEN body.cape ELSE seen.cape,
     notified |-> IF "notified" \in set THEN body.notified ELSE seen.notified]

\* SqlService.updateRecord: the columns of the body are set on the row it
\* read, and save() writes those whose value changed, and no other.
Saved(row, seen, body, set) ==
    LET writes(f) == f \in set /\ body[f] # seen[f] IN
    [status   |-> IF writes("status") THEN body.status ELSE row.status,
     billing  |-> IF writes("billing") THEN body.billing ELSE row.billing,
     end      |-> IF writes("end") THEN body.end ELSE row.end,
     cape     |-> IF writes("cape") THEN body.cape ELSE row.cape,
     notified |-> IF writes("notified") THEN body.notified ELSE row.notified]

\* Rows of u, and the latest by created_at (getUserSubscription).
RowsOf(u) == {s \in Subs : Owner[s] = u /\ Exists(s)}
IsLatest(s) == Exists(s) /\ \A t \in RowsOf(Owner[s]) : born[t] <= born[s]

\* checkChatAccess for the user u.
ChatAccess(u) ==
    \E s \in RowsOf(u) :
        /\ IsLatest(s)
        /\ rows[s].billing \in {"active", "trialing"}
        /\ now < rows[s].end
        /\ rows[s].cape \/ rows[s].status \in {"active", "trialing"}

\* isSubscriptionActive for the user u.
SubscriptionActive(u) ==
    \E s \in RowsOf(u) :
        /\ IsLatest(s) /\ rows[s].status = "active" /\ now < rows[s].end

-----------------------------------------------------------------------------
\* Stripe (external): every change is followed by its events.

Live(s) == stripe[s].status \in {"active", "trialing", "past_due"}

Emit(s, kinds, snap) ==
    /\ sent + Len(kinds) <= MaxEvents
    /\ sent' = sent + Len(kinds)
    /\ pending' = pending \cup
         {[kind |-> kinds[i], sub |-> s, snap |-> snap, n |-> sent + i] :
             i \in DOMAIN kinds}

StripeChange(s, new, kinds) ==
    /\ stripe' = [stripe EXCEPT ![s] = new]
    /\ Emit(s, kinds, new)
    /\ UNCHANGED <<sessions, dbVars, mailVars, task, todo, now, faults>>

\* The user pays in an open checkout session: the subscription starts.
StripeBegins(s) ==
    /\ stripe[s].status = "none"
    /\ sessions[Owner[s]] > 0
    /\ sessions' = [sessions EXCEPT ![Owner[s]] = @ - 1]
    /\ \E st \in {"active", "trialing"} :
         LET new == [status |-> st, anchor |-> now, end |-> now + Period,
                     cape |-> FALSE] IN
         /\ stripe' = [stripe EXCEPT ![s] = new]
         /\ Emit(s, <<"created", "checkout", "invoice_paid">>, new)
    /\ UNCHANGED <<dbVars, mailVars, task, todo, now, faults>>

StripeRenews(s) ==
    /\ stripe[s].status \in {"active", "trialing"}
    /\ ~stripe[s].cape /\ now >= stripe[s].end
    /\ StripeChange(s, [stripe[s] EXCEPT !.status = "active", !.end = @ + Period],
                    <<"updated", "invoice_paid">>)

StripePaymentFails(s) ==
    /\ stripe[s].status \in {"active", "trialing"}
    /\ ~stripe[s].cape /\ now >= stripe[s].end
    /\ StripeChange(s, [stripe[s] EXCEPT !.status = "past_due", !.end = @ + Period],
                    <<"updated", "payment_failed">>)

StripeRecovers(s) ==
    /\ stripe[s].status = "past_due"
    /\ StripeChange(s, [stripe[s] EXCEPT !.status = "active"],
                    <<"updated", "invoice_paid">>)

\* Cancelled at the end of the period, or given up after failed payments.
StripeEnds(s) ==
    /\ \/ Live(s) /\ stripe[s].cape /\ now >= stripe[s].end
       \/ stripe[s].status = "past_due"
    /\ StripeChange(s, [stripe[s] EXCEPT !.status = "canceled"], <<"deleted">>)

StripeRefunds(s) ==
    /\ Refunds /\ Live(s)
    /\ StripeChange(s, stripe[s], <<"refunded">>)

-----------------------------------------------------------------------------
\* Webhook handlers, up to their first findOne.

Goto(p, t) == task' = [task EXCEPT ![p] = t]

\* The event is handed to worker h; Stripe may deliver it again.  The
\* controller answers 200 whatever happens, so a handler that fails is never
\* retried.
Deliver(h, e) ==
    /\ ~Busy(h) /\ e \in pending
    /\ InOrder => /\ \A w \in Workers : ~Busy(w)
                  /\ \A f \in pending : e.n <= f.n
    /\ Goto(h, [Idle EXCEPT !.pc = "start", !.ev = e, !.sub = e.sub,
                            !.snap = PeriodView(e.snap, HookLegacy)])
    /\ \/ pending' = pending \ {e} /\ UNCHANGED faults
       \/ /\ faults.dup < MaxDup
          /\ faults' = [faults EXCEPT !.dup = @ + 1]
          /\ UNCHANGED pending
    /\ UNCHANGED <<stripeVars, sent, dbVars, mailVars, todo, now>>

WithRow(t) == [t EXCEPT !.known = Exists(t.sub), !.old = rows[t.sub]]
At(t, pc) == [t EXCEPT !.pc = pc]
Writing(t, set, body) == [t EXCEPT !.pc = "read", !.set = set, !.body = body]

\* Worker h, holding an event of this kind, continues as t.
Handle(h, kind, t) ==
    /\ task[h].pc = "start" /\ task[h].ev.kind = kind
    /\ Goto(h, t)
    /\ UNCHANGED <<stripeVars, queueVars, dbVars, mailVars, todo, now, faults>>

\* Mutant: the metadata is not checked.
CreateAny(t) == TRUE

\* handleSubscriptionCreated: the idempotency check, then the metadata check.
MayCreate(t) == t.sub \in Labelled
FindThenCreate(t) == IF Exists(t.sub) \/ ~MayCreate(t) THEN Idle ELSE At(t, "create")
SubscriptionCreated(h) == Handle(h, "created", FindThenCreate(task[h]))

\* handleCheckoutCompleted: the subscription is read from Stripe, then handed
\* to handleSubscriptionCreated.
CheckoutCompleted(h) ==
    LET t == task[h] IN
    Handle(h, "checkout", [At(t, "find") EXCEPT
                             !.snap = PeriodView(stripe[t.sub], FetchLegacy)])

\* Mutant: the update leaves cancel_at_period_end alone.
UpdatedKeepsCape(h) ==
    LET t == WithRow(task[h])
        body == [RowFrom(t.snap) EXCEPT !.notified = t.old.notified] IN
    Handle(h, "updated",
           IF ~t.known THEN At(t, "find")
           ELSE Writing(t, {"status", "billing", "end"}, body))

\* handleSubscriptionUpdated: an unknown subscription is created instead.
SubscriptionUpdated(h) ==
    LET t == WithRow(task[h])
        body == [RowFrom(t.snap) EXCEPT !.notified = t.old.notified] IN
    Handle(h, "updated",
           IF ~t.known THEN At(t, "find")
           ELSE Writing(t, {"status", "billing", "end", "cape"}, body))

\* handleSubscriptionDeleted.
SubscriptionDeleted(h) ==
    LET t == WithRow(task[h])
        body == [t.old EXCEPT !.status = "cancelled", !.billing = "canceled",
                              !.cape = FALSE] IN
    Handle(h, "deleted",
           IF ~t.known THEN Idle ELSE Writing(t, {"status", "billing", "cape"}, body))

\* Mutant: an invoice of an unknown subscription is skipped.
InvoicePaidKnown(h) ==
    Handle(h, "invoice_paid",
           IF HookLegacy /\ Exists(task[h].sub) THEN At(WithRow(task[h]), "fetch")
           ELSE Idle)

\* handleInvoicePaid and handleInvoicePaymentFailed; an invoice without a
\* subscription field is skipped.
InvoicePaid(h) ==
    Handle(h, "invoice_paid",
           IF HookLegacy THEN At(WithRow(task[h]), "fetch") ELSE Idle)

InvoicePaymentFailed(h) ==
    LET t == WithRow(task[h]) IN
    Handle(h, "payment_failed", IF HookLegacy /\ t.known THEN At(t, "fetch") ELSE Idle)

\* handleChargeRefunded: it looks the row up by customer, the latest first,
\* and cancels it if it is active.
ChargeRefunded(h) ==
    LET mine == RowsOf(Owner[task[h].sub]) IN
    \/ mine = {} /\ Handle(h, "refunded", Idle)
    \/ \E s \in mine :
         LET t == WithRow([task[h] EXCEPT !.sub = s]) IN
         /\ IsLatest(s)
         /\ Handle(h, "refunded",
                   IF t.old.status # "active" THEN Idle
                   ELSE Writing(t, {"status"}, [t.old EXCEPT !.status = "cancelled"]))

-----------------------------------------------------------------------------
\* The remaining steps of a process.

\* getSubscription in the two invoice handlers, and what they do with it.
FetchSubscription(h) ==
    LET t == task[h]
        live == PeriodView(stripe[t.sub], FetchLegacy)
        paid == [t.old EXCEPT !.status = "active", !.billing = "active",
                              !.end = live.end]
        failed == [t.old EXCEPT
                     !.status = IF live.status = "past_due" THEN "expired" ELSE @,
                     !.billing = live.status] IN
    /\ t.pc = "fetch"
    /\ \/ /\ t.ev.kind = "payment_failed"
          /\ Goto(h, Writing(t, {"status", "billing"}, failed))
       \/ /\ t.ev.kind = "invoice_paid" /\ ~t.known
          /\ Goto(h, [t EXCEPT !.pc = "find", !.snap = live])
       \/ /\ t.ev.kind = "invoice_paid" /\ t.known /\ FetchLegacy
          /\ Goto(h, Writing([t EXCEPT !.snap = live], {"status", "billing", "end"}, paid))
       \/ /\ t.ev.kind = "invoice_paid" /\ t.known /\ ~FetchLegacy
          /\ Goto(h, Idle)
    /\ UNCHANGED <<stripeVars, queueVars, dbVars, mailVars, todo, now, faults>>

\* handleSubscriptionCreated called by another handler: its own findOne.
FindBeforeCreate(h) ==
    LET t == task[h] IN
    /\ t.pc = "find"
    /\ Goto(h, FindThenCreate(t))
    /\ UNCHANGED <<stripeVars, queueVars, dbVars, mailVars, todo, now, faults>>

NextRank == 1 + Cardinality({s \in Subs : Exists(s)})

\* Mutant: no unique constraint, the second insert goes through.
CreateAgain(h) ==
    LET t == task[h] IN
    /\ t.pc = "create"
    /\ rows' = [rows EXCEPT ![t.sub] = RowFrom(t.snap)]
    /\ born' = [born EXCEPT ![t.sub] = NextRank]
    /\ Goto(h, At(t, "created_mail"))
    /\ UNCHANGED <<stripeVars, queueVars, mailVars, todo, now, faults>>

\* The insert.  stripe_subscription_id is unique: a second insert fails, and
\* the handler stops.
CreateRow(h) ==
    LET t == task[h] IN
    /\ t.pc = "create"
    /\ \/ /\ Exists(t.sub)
          /\ Goto(h, Idle)
          /\ UNCHANGED dbVars
       \/ /\ ~Exists(t.sub)
          /\ rows' = [rows EXCEPT ![t.sub] = RowFrom(t.snap)]
          /\ born' = [born EXCEPT ![t.sub] = NextRank]
          /\ Goto(h, At(t, "created_mail"))
    /\ UNCHANGED <<stripeVars, queueVars, mailVars, todo, now, faults>>

SendCreatedMail(h) ==
    LET t == task[h] IN
    /\ t.pc = "created_mail"
    /\ created' = [created EXCEPT ![t.sub] = @ + 1]
    /\ Goto(h, Idle)
    /\ UNCHANGED <<stripeVars, queueVars, dbVars, expiring, cancelMail, todo,
                   now, faults>>

\* updateRecord: the row is read ...
UpdateRead(p) ==
    LET t == task[p] IN
    /\ t.pc = "read"
    /\ Goto(p, [t EXCEPT !.pc = "save", !.seen = rows[t.sub]])
    /\ UNCHANGED <<stripeVars, queueVars, dbVars, mailVars, todo, now, faults>>

\* What follows a completed update: handleSubscriptionUpdated may warn of the
\* coming expiry, then announces a new cancellation; it judges both from the
\* row it found first.
ExpiryDue(t) ==
    /\ ~t.old.notified /\ MapStatus(t.snap.status) = "active"
    /\ t.snap.end > now /\ t.snap.end <= now + HookDays
CancelDue(t) == t.snap.cape /\ ~t.old.cape
AfterUpdate(t) ==
    IF t.ev.kind # "updated" THEN Idle
    ELSE IF "status" \in t.set /\ ExpiryDue(t) THEN At(t, "notice")
    ELSE IF CancelDue(t) THEN At(t, "cancel_mail")
    ELSE Idle

\* ... and saved.
UpdateSave(p) ==
    LET t == task[p] IN
    /\ t.pc = "save"
    /\ rows' = [rows EXCEPT ![t.sub] = Saved(@, t.seen, t.body, t.set)]
    /\ Goto(p, AfterUpdate(t))
    /\ UNCHANGED <<stripeVars, queueVars, born, mailVars, todo, now, faults>>

\* Mutant: the warning is not marked as sent.
Unmarked(t) == Writing(t, {}, t.old)

\* The mark that keeps the warning from being sent again.
Marking(t) == Writing(t, {"notified"}, [t.old EXCEPT !.notified = TRUE])

SendExpiringMail(p) ==
    LET t == task[p] IN
    /\ t.pc = "notice"
    /\ expiring' = [expiring EXCEPT ![t.sub] = @ + 1]
    /\ Goto(p, Marking(t))
    /\ UNCHANGED <<stripeVars, queueVars, dbVars, created, cancelMail, todo,
                   now, faults>>

SendCancelledMail(h) ==
    LET t == task[h] IN
    /\ t.pc = "cancel_mail"
    /\ cancelMail' = [cancelMail EXCEPT ![t.sub] = @ + 1]
    /\ Goto(h, Idle)
    /\ UNCHANGED <<stripeVars, queueVars, dbVars, created, expiring, todo,
                   now, faults>>

-----------------------------------------------------------------------------
\* User requests.

\* createCheckoutSession.
Checkout(u) ==
    /\ ~SubscriptionActive(u)
    /\ sessions[u] < MaxSessions
    /\ sessions' = [sessions EXCEPT ![u] = @ + 1]
    /\ UNCHANGED <<stripe, queueVars, dbVars, mailVars, task, todo, now, faults>>

\* cancelUserSubscription and reactivateUserSubscription: the latest row is
\* read; reactivating needs the row to be scheduled for cancellation.
StartRequest(r, s, kind) ==
    /\ ~Busy(r)
    /\ IsLatest(s)
    /\ kind = "reactivate" => rows[s].cape
    /\ Goto(r, WithRow([Idle EXCEPT !.pc = "stripe", !.ev.kind = kind, !.sub = s]))
    /\ UNCHANGED <<stripeVars, queueVars, dbVars, mailVars, todo, now, faults>>

\* The call to Stripe, which refuses a subscription that has ended.
RequestStripe(r) ==
    LET t == task[r]
        want == t.ev.kind = "cancel" IN
    /\ t.pc = "stripe"
    /\ \/ /\ ~Live(t.sub)
          /\ Goto(r, Idle)
          /\ UNCHANGED <<stripe, queueVars>>
       \/ /\ Live(t.sub) /\ t.ev.kind = "cancel_now"
          /\ stripe' = [stripe EXCEPT ![t.sub].status = "canceled"]
          /\ Emit(t.sub, <<"deleted">>, stripe'[t.sub])
          /\ Goto(r, Idle)
       \/ /\ Live(t.sub) /\ t.ev.kind # "cancel_now"
          /\ stripe' = [stripe EXCEPT ![t.sub].cape = want]
          /\ IF stripe[t.sub].cape = want THEN UNCHANGED queueVars
             ELSE Emit(t.sub, <<"updated">>, stripe'[t.sub])
          /\ Goto(r, Writing(t, {"cape"}, [t.old EXCEPT !.cape = want]))
    /\ UNCHANGED <<sessions, dbVars, mailVars, todo, now, faults>>

-----------------------------------------------------------------------------
\* The nightly jobs.

\* sendExpirationNotifications: the rows to warn about are listed once ...
ExpiringSoon(s) ==
    /\ Exists(s) /\ rows[s].status = "active" /\ ~rows[s].notified
    /\ rows[s].end >= now /\ rows[s].end <= now + CronDays

CronList(c) ==
    LET due == {s \in Subs : ExpiringSoon(s)} IN
    /\ ~Busy(c) /\ todo[c] = {} /\ due # {}
    /\ \E page \in SUBSET due :
         /\ Cardinality(page) = IF Cardinality(due) < PageLimit
                                THEN Cardinality(due) ELSE PageLimit
         /\ todo' = [todo EXCEPT ![c] = page]
    /\ UNCHANGED <<stripeVars, queueVars, dbVars, mailVars, task, now, faults>>

\* ... and taken one after the other: a mail, then the mark.
CronNext(c, s) ==
    /\ ~Busy(c) /\ s \in todo[c]
    /\ todo' = [todo EXCEPT ![c] = @ \ {s}]
    /\ Goto(c, WithRow([Idle EXCEPT !.pc = "notice", !.ev.kind = "cron", !.sub = s]))
    /\ UNCHANGED <<stripeVars, queueVars, dbVars, mailVars, now, faults>>

\* markExpiredSubscriptions: one UPDATE ... WHERE.
MarkExpired ==
    /\ rows' = [s \in Subs |->
                  IF Exists(s) /\ rows[s].status = "active" /\ rows[s].end < now
                  THEN [rows[s] EXCEPT !.status = "expired"] ELSE rows[s]]
    /\ rows' # rows
    /\ UNCHANGED <<stripeVars, queueVars, born, mailVars, task, todo, now, faults>>

-----------------------------------------------------------------------------
\* The environment.

Tick ==
    /\ now < MaxNow
    /\ now' = now + 1
    /\ UNCHANGED <<stripeVars, queueVars, dbVars, mailVars, task, todo, faults>>

\* What a process makes of a failed call.  A failed findOne reads as "no
\* row", which the handlers that create rows take as a reason to insert; a
\* failed update, and a mail job that could not be queued, are returned as
\* values nobody looks at; anything else ends the handler, whose catch
\* swallows it.
AfterFailure(t) ==
    CASE t.pc = "start" /\ t.ev.kind = "updated" -> At(t, "find")
      [] t.pc = "start" /\ t.ev.kind = "created" /\ MayCreate(t) -> At(t, "create")
      [] t.pc = "start" /\ t.ev.kind = "invoice_paid" /\ HookLegacy -> At(t, "fetch")
      [] t.pc = "find" /\ MayCreate(t) -> At(t, "create")
      [] t.pc \in {"read", "save"} -> AfterUpdate(t)
      [] t.pc = "notice" -> Marking(t)
      [] OTHER -> Idle

CallFails(p) ==
    /\ Busy(p) /\ faults.fail < MaxFail
    /\ faults' = [faults EXCEPT !.fail = @ + 1]
    /\ Goto(p, AfterFailure(task[p]))
    /\ UNCHANGED <<stripeVars, queueVars, dbVars, mailVars, todo, now>>

\* The process running p dies before answering; Stripe delivers the event of
\* a webhook worker again.
Crash(p) ==
    /\ Busy(p) /\ faults.crash < MaxCrash
    /\ faults' = [faults EXCEPT !.crash = @ + 1]
    /\ Goto(p, Idle)
    /\ pending' = IF p \in Workers THEN pending \cup {task[p].ev} ELSE pending
    /\ todo' = IF p \in Crons THEN [todo EXCEPT ![p] = {}] ELSE todo
    /\ UNCHANGED <<stripeVars, sent, dbVars, mailVars, now>>

-----------------------------------------------------------------------------
Init ==
    /\ stripe = [s \in Subs |-> NoSub]
    /\ sessions = [u \in Users |-> 0]
    /\ pending = {} /\ sent = 0
    /\ rows = [s \in Subs |-> NoRow] /\ born = [s \in Subs |-> 0]
    /\ task = [p \in Procs |-> Idle] /\ todo = [c \in Crons |-> {}]
    /\ created = [s \in Subs |-> 0]
    /\ expiring = [s \in Subs |-> 0]
    /\ cancelMail = [s \in Subs |-> 0]
    /\ now = 0
    /\ faults = [dup |-> 0, fail |-> 0, crash |-> 0]

StripeStep ==
    \E s \in Subs :
        \/ StripeBegins(s) \/ StripeRenews(s) \/ StripePaymentFails(s)
        \/ StripeRecovers(s) \/ StripeEnds(s) \/ StripeRefunds(s)

HandlerStep(h) ==
    \/ SubscriptionCreated(h) \/ CheckoutCompleted(h) \/ SubscriptionUpdated(h)
    \/ SubscriptionDeleted(h) \/ InvoicePaid(h) \/ InvoicePaymentFailed(h)
    \/ ChargeRefunded(h) \/ FetchSubscription(h) \/ FindBeforeCreate(h)
    \/ CreateRow(h) \/ SendCreatedMail(h) \/ SendCancelledMail(h)

UpdateStep(p) == UpdateRead(p) \/ UpdateSave(p)

RequestStep ==
    \/ \E u \in Users : Checkout(u)
    \/ \E r \in Requests :
         \/ \E s \in Subs, kind \in RequestKind : StartRequest(r, s, kind)
         \/ RequestStripe(r)

CronStep(c) == CronList(c) \/ \E s \in Subs : CronNext(c, s)

Next ==
    \/ StripeStep
    \/ \E h \in Workers : (\E e \in pending : Deliver(h, e)) \/ HandlerStep(h)
    \/ RequestStep
    \/ \E c \in Crons : CronStep(c)
    \/ \E p \in Workers \cup Crons : SendExpiringMail(p)
    \/ \E p \in Procs : UpdateStep(p) \/ CallFails(p) \/ Crash(p)
    \/ MarkExpired
    \/ Tick

Spec == Init /\ [][Next]_vars

\* Stripe goes on delivering what is pending, and a process that is in the
\* middle of something goes on; nothing makes users or Stripe act.
Fairness ==
    /\ \A h \in Workers : WF_vars(\E e \in pending : Deliver(h, e))
    /\ \A p \in Procs : WF_vars(UpdateStep(p))
    /\ \A h \in Workers : WF_vars(HandlerStep(h) \/ SendExpiringMail(h))
    /\ \A c \in Crons : WF_vars(SendExpiringMail(c))
    /\ \A r \in Requests : WF_vars(RequestStripe(r))

FairSpec == Spec /\ Fairness

-----------------------------------------------------------------------------
\* Correctness.

TypeOK ==
    /\ stripe \in [Subs -> StripeSub] /\ sessions \in [Users -> Nat]
    /\ pending \subseteq Event /\ sent \in Nat
    /\ rows \in [Subs -> Row] /\ born \in [Subs -> Nat]
    /\ task \in [Procs -> Task] /\ todo \in [Crons -> SUBSET Subs]
    /\ created \in [Subs -> Nat] /\ expiring \in [Subs -> Nat]
    /\ cancelMail \in [Subs -> Nat] /\ now \in Nat
    /\ faults \in [dup: Nat, fail: Nat, crash: Nat]

\* A new subscription is announced to its user at most once, although three
\* kinds of event lead to handleSubscriptionCreated, and each may be handled
\* concurrently, delivered twice, or interrupted and delivered again.
CreatedMailOnce == \A s \in Subs : created[s] <= 1

\* No handler, however stale the object it works from, stores a period end
\* beyond the one Stripe has.
RowWithinBilledPeriod == \A s \in Subs : Exists(s) => rows[s].end <= stripe[s].end

\* Chat access never outlasts what was billed: in whatever order webhooks
\* are handled, a user who may chat has a subscription whose period is not over.
AccessIsBilled ==
    \A u \in Users : ChatAccess(u) =>
        \E s \in Subs : Owner[s] = u /\ now < stripe[s].end

\* No webhook handler stores a row for a subscription whose metadata does not
\* name a user and a plan, on any of the four handler paths that insert one.
OnlyLabelledStored == \A s \in Subs : Exists(s) => s \in Labelled

\* The row and the Stripe subscription agree on what chat access depends on,
\* except that the nightly job may have marked the row as expired.
Mirrors(s) ==
    /\ Exists(s) <=> stripe[s].status # "none"
    /\ rows[s].billing = stripe[s].status
    /\ rows[s].status \in {MapStatus(stripe[s].status), "expired"}
    /\ Live(s) => rows[s].end = stripe[s].end /\ rows[s].cape = stripe[s].cape

\* Once every event about s has been handled and no call for it is in
\* progress, the row mirrors Stripe, whatever user requests, crashes and
\* repeated deliveries came in between.
MirrorsWhenSettled == \A s \in Labelled : Settled(s) => Mirrors(s)

\* ... and the user of a subscription that is paid for has access to chat
\* ("Stripe webhooks keep subscription status in sync", checkChatAccess).
PaidMeansAccess ==
    \A s \in Labelled :
        /\ Settled(s) /\ IsLatest(s)
        /\ stripe[s].status \in {"active", "trialing"} /\ now < stripe[s].end
        => ChatAccess(Owner[s])

\* Once the end of a subscription has been handled, no user request or cron
\* job that read the row before, and saves it only now, brings it back.
Handled(s) == /\ \A e \in pending : e.sub # s
              /\ \A h \in Workers : Busy(h) => task[h].sub # s
CanceledIsFinal ==
    [][\A s \in Subs : Handled(s) /\ rows[s].billing = "canceled"
                        => rows'[s].billing = "canceled"]_vars

\* Each sender warns of an expiry at most once per subscription: every cron
\* instance, and every webhook handler that can run beside others, on its own;
\* only a crash or a failed update between the mail and its mark adds one.
HandlersAtOnce == IF InOrder THEN 1 ELSE Cardinality(Workers)
WarningsPerSender ==
    \A s \in Subs :
        expiring[s] <= HandlersAtOnce + Cardinality(Crons) + faults.crash + faults.fail

\* Of the events that announce a new subscription any two may be lost to
\* failures: it is stored all the same.
EventuallyStored == \A s \in Labelled : Live(s) ~> Exists(s)

=============================================================================
