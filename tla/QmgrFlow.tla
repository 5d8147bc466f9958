------------------------------ MODULE QmgrFlow ------------------------------
(***************************************************************************)
(* Flow control in the Postfix queue manager: message delivery transports, *)
(* per-destination in-core queues, delivery agent allocation, and the      *)
(* timers that throttle, suspend and revive them.                          *)
(*                                                                         *)
(* One action is one event handler of qmgr(8): the queue manager is a      *)
(* single-threaded event loop, so a handler runs to completion.  What runs *)
(* concurrently with it are the delivery agents, whose replies arrive in   *)
(* any order, and the clock, which makes any requested timer fire at any   *)
(* later moment.                                                           *)
(*                                                                         *)
(* A queue entry is an opaque member of Entry; which entry of a transport  *)
(* is selected next is the job scheduler's decision and is left open here. *)
(* msg_panic() sets the sticky "panic" field of the object it is about.    *)
(***************************************************************************)
EXTENDS Integers, FiniteSets, Sequences, SequencesExt, Lists

CONSTANTS
    Entry,                \* in-core delivery requests (QMGR_ENTRY)
    Site,                 \* destinations that recipients resolve to
    Transport,            \* delivery transports
    Retry,                \* the retry(8) transport, MAIL_SERVICE_RETRY
    XportOf,              \* [Site -> Transport]: what the resolver answers
    DestConcurrencyLimit, \* [Transport -> Nat], 0: no limit
    InitDestConcurrency,  \* [Transport -> Nat \ {0}]
    RateDelay,            \* [Transport -> BOOLEAN]: rate_delay > 0
    XportRateDelay,       \* [Transport -> BOOLEAN]: xport_rate_delay > 0
    FailCohortLimit,      \* [Transport -> Nat], 0: never throttle
    PosFeedback,          \* [Transport -> [base: Nat, perWindow: BOOLEAN]]
    NegFeedback,          \*   with base in units of 1/Scale
    Scale,                \* feedback 1.0; the doubles are multiples of 1/Scale
    QueueCountLimit,      \* 2 * var_qmgr_rcpt_limit
    MaxPrefix,            \* bound on nested "delivery temporarily suspended:"
    MaxPend,              \* QMGR_TRANSPORT_MAX_PEND
    Unavailable,          \* the reason "mail transport unavailable"
    NoDsn                 \* a null DSN pointer, an empty reason

ASSUME EntryAssumption == IsFiniteSet(Entry)

\* The tables of queues and of their names are in memory.
ASSUME SiteAssumption == IsFiniteSet(Site)

ASSUME ConfigAssumption ==
    /\ Retry \in Transport
    /\ XportOf \in [Site -> Transport]
    /\ DestConcurrencyLimit \in [Transport -> Nat]
    /\ InitDestConcurrency \in [Transport -> Nat \ {0}]
    /\ RateDelay \in [Transport -> BOOLEAN]
    /\ XportRateDelay \in [Transport -> BOOLEAN]
    /\ FailCohortLimit \in [Transport -> Nat]
    /\ Scale \in Nat \ {0}
    /\ QueueCountLimit \in Nat
    /\ MaxPrefix \in Nat
    /\ MaxPend \in Nat \ {0}

\* main.cf feedback is a number between 0 and 1, qmgr_feedback_init().
ASSUME FeedbackAssumption ==
    /\ PosFeedback \in [Transport -> [base : 0..Scale, perWindow : BOOLEAN]]
    /\ NegFeedback \in [Transport -> [base : 0..Scale, perWindow : BOOLEAN]]

-----------------------------------------------------------------------------
(***************************************************************************)
(* Why something is unavailable.  A delivery agent's report about a site   *)
(* is <<site, n>>, n counting the prefixes that the queue manager put in   *)
(* front of the text; "mail transport unavailable" is a text of its own.   *)
(* The retry transport has one queue per such text: a queue is named by    *)
(* its site or, for mail that is waiting to be deferred, by the reason.    *)
(***************************************************************************)
Reported == Site \X (0..MaxPrefix)
Dsn == {Unavailable} \cup Reported
Queue == Site \cup Dsn

\* A reason is a text, a site a domain or an address; no one is the other.
ASSUME DsnAssumption == NoDsn \notin Dsn /\ Site \cap Dsn = {}

qmgr_error_nexthop(dsn) == dsn
SuspendedPrefix(dsn) == <<dsn[1], dsn[2] + 1>>

TransportOf(q) == IF q \in Site THEN XportOf[q] ELSE Retry

\* qmgr_transport_create(): rate-limited means one delivery at a time, and
\* the initial concurrency never exceeds the limit.
dest_concurrency_limit(t) == IF RateDelay[t] THEN 1 ELSE DestConcurrencyLimit[t]

init_dest_concurrency_mutant(t) == InitDestConcurrency[t]

init_dest_concurrency(t) ==
    IF /\ dest_concurrency_limit(t) # 0
       /\ dest_concurrency_limit(t) < InitDestConcurrency[t]
    THEN dest_concurrency_limit(t)
    ELSE InitDestConcurrency[t]

-----------------------------------------------------------------------------
VARIABLES
    queue,       \* [Queue -> QMGR_QUEUE]; live: present in queue_byname
    queue_list,  \* [Transport -> Seq(Queue)]: queues in order of creation
    transport,   \* [Transport -> QMGR_TRANSPORT]
    dsb          \* the static DSN_BUF of qmgr_deliver_update()

vars == <<queue, queue_list, transport, dsb>>

THROTTLED == 0
SUSPENDED == -1

QMGR_QUEUE_READY(q) == q.window > 0
QMGR_QUEUE_THROTTLED(q) == q.window = THROTTLED
QMGR_QUEUE_SUSPENDED(q) == q.window = SUSPENDED

QMGR_QUEUE ==
    [live : BOOLEAN, window : Nat \cup {SUSPENDED},
     todo : SUBSET Entry, busy : SUBSET Entry,
     success : Int, failure : Int, fail_cohorts : Nat,
     dsn : Dsn \cup {NoDsn}, timers : SUBSET {"unthrottle", "resume"},
     panic : BOOLEAN]

QMGR_TRANSPORT ==
    [dead : BOOLEAN, rate_lock : BOOLEAN, pending : Nat,
     connecting : Nat, delayed : Nat,
     dsn : Dsn \cup {NoDsn}, timer : BOOLEAN, panic : BOOLEAN]

IsEmpty(q) == q.todo = {} /\ q.busy = {}

-----------------------------------------------------------------------------
(***************************************************************************)
(* qmgr_queue.c: operations on one queue of transport t.                   *)
(***************************************************************************)

\* A slot that holds no queue.  The memory is gone but a timer that nobody
\* cancelled still points at it, so timers survive qmgr_queue_done().
NoQueue(t) ==
    [live |-> FALSE, window |-> init_dest_concurrency(t),
     todo |-> {}, busy |-> {}, success |-> 0, failure |-> 0,
     fail_cohorts |-> 0, dsn |-> NoDsn, timers |-> {}, panic |-> FALSE]

qmgr_queue_create(t, q) == [q EXCEPT !.live = TRUE]

qmgr_queue_done(t, q) ==
    [NoQueue(t) EXCEPT
        !.timers = q.timers,
        !.panic = \/ q.panic
                  \/ ~IsEmpty(q)
                  \/ ~QMGR_QUEUE_READY(q)
                  \/ q.dsn # NoDsn]

\* The test that ends every handler that leaves a queue in "ready" state.
DoneIfIdle_mutant(t, q) == IF IsEmpty(q) THEN qmgr_queue_done(t, q) ELSE q

DoneIfIdle(t, q) ==
    IF QMGR_QUEUE_READY(q) /\ IsEmpty(q) THEN qmgr_queue_done(t, q) ELSE q

qmgr_queue_suspend(q) ==
    [q EXCEPT !.window = SUSPENDED,
              !.timers = @ \cup {"resume"},
              !.panic = @ \/ ~QMGR_QUEUE_READY(q) \/ q.busy # {}]

qmgr_queue_resume(t, q) ==
    DoneIfIdle(t, [q EXCEPT !.window = 1,
                            !.timers = @ \ {"resume"},
                            !.panic = @ \/ ~QMGR_QUEUE_SUSPENDED(q)])

QMGR_FEEDBACK_VAL(fb, window) ==
    IF fb.perWindow THEN fb.base \div window ELSE fb.base

\* The while loops over the hysteresis (always 1, qmgr_feedback_init), as
\* the number of times they run.
PosSteps(success, feedback) ==
    IF 2 * success + feedback < 2 * Scale THEN 0
    ELSE (2 * success + feedback) \div (2 * Scale)

NegSteps(failure, feedback) ==
    IF 2 * failure >= feedback THEN 0
    ELSE (feedback - 2 * failure + 2 * Scale - 1) \div (2 * Scale)

qmgr_queue_unthrottle(t, q) ==
    LET limit == dest_concurrency_limit(t)
        sane == QMGR_QUEUE_READY(q) \/ QMGR_QUEUE_THROTTLED(q)
        alive == [q EXCEPT
            !.window = IF q.busy # {} THEN Cardinality(q.busy)
                                      ELSE init_dest_concurrency(t),
            !.success = 0, !.failure = 0, !.fail_cohorts = 0,
            !.dsn = NoDsn, !.timers = @ \ {"unthrottle"},
            !.panic = @ \/ ~sane \/ q.dsn = NoDsn]
        feedback == QMGR_FEEDBACK_VAL(PosFeedback[t], q.window)
        success == q.success + feedback
        steps == PosSteps(success, feedback)
        window == q.window + steps
        wider == [q EXCEPT
            !.fail_cohorts = 0,
            !.window = IF limit > 0 /\ window > limit THEN limit ELSE window,
            !.success = success - steps * Scale,
            !.failure = IF steps > 0 THEN 0 ELSE @,
            !.panic = @ \/ ~sane]
    IN  IF QMGR_QUEUE_THROTTLED(q) THEN alive
        ELSE IF /\ limit = 0 \/ limit > q.window
                /\ q.window < Cardinality(q.busy) + init_dest_concurrency(t)
             THEN wider
             ELSE [q EXCEPT !.fail_cohorts = 0, !.panic = @ \/ ~sane]

\* "Prepare for overshoot": the window of a live site stays positive.
NoOvershoot(window) == IF window < 1 THEN 1 ELSE window

\* Without a cohort limit fail_cohorts is never looked at, and not kept.
qmgr_queue_throttle(t, q, dsn) ==
    LET limit == FailCohortLimit[t] * Scale
        cohorts == IF limit = 0 THEN 0
                   ELSE q.fail_cohorts + (Scale \div q.window)
        insane == ~QMGR_QUEUE_READY(q) \/ q.dsn # NoDsn
        feedback == QMGR_FEEDBACK_VAL(NegFeedback[t], q.window)
        failure == q.failure - feedback
        steps == NegSteps(failure, feedback)
        window == q.window - steps
    IN  IF limit > 0 /\ cohorts >= limit
        THEN [q EXCEPT !.window = THROTTLED, !.fail_cohorts = cohorts,
                       !.dsn = dsn, !.timers = @ \cup {"unthrottle"},
                       !.panic = @ \/ insane]
        ELSE [q EXCEPT !.window = NoOvershoot(window),
                       !.fail_cohorts = cohorts,
                       !.failure = failure + steps * Scale,
                       !.success = IF steps > 0 THEN 0 ELSE @,
                       !.panic = @ \/ insane]

-----------------------------------------------------------------------------
(***************************************************************************)
(* qmgr_entry.c: queue entries.                                            *)
(***************************************************************************)
qmgr_entry_create(q, e) ==
    [q EXCEPT !.todo = @ \cup {e}, !.panic = @ \/ QMGR_QUEUE_THROTTLED(q)]

qmgr_entry_select(q, e) ==
    [q EXCEPT !.todo = @ \ {e}, !.busy = @ \cup {e}]

\* The tail of qmgr_entry_done(): an empty queue goes away, a dead one too
\* when there are very many queues ("crowded").
DiscardIfEmpty(t, q, crowded) ==
    LET woken == IF QMGR_QUEUE_THROTTLED(q) /\ crowded
                 THEN qmgr_queue_unthrottle(t, q) ELSE q
    IN  IF IsEmpty(q) THEN DoneIfIdle(t, woken) ELSE q

\* qmgr_entry_done(entry, QMGR_QUEUE_BUSY)
qmgr_entry_done(t, q, e, crowded) ==
    LET taken == [q EXCEPT !.busy = @ \ {e}]
        checked == [taken EXCEPT !.panic = @ \/ taken.window > 1]
        revived == IF QMGR_QUEUE_THROTTLED(checked)
                   THEN qmgr_queue_unthrottle(t, checked) ELSE checked
        paced == IF QMGR_QUEUE_READY(revived)
                 THEN qmgr_queue_suspend(revived) ELSE revived
    IN  DiscardIfEmpty(t, IF RateDelay[t] THEN paced ELSE taken, crowded)

\* qmgr_entry_done(entry, QMGR_QUEUE_TODO), for every todo entry in turn.
TodoDone_mutant(t, q, crowded) == q

TodoDone(t, q, crowded) ==
    IF q.todo = {} THEN q
    ELSE DiscardIfEmpty(t, [q EXCEPT !.todo = {}], crowded)

-----------------------------------------------------------------------------
(***************************************************************************)
(* qmgr_transport.c: operations on one transport.                          *)
(***************************************************************************)
qmgr_transport_unthrottle(tr) ==
    [tr EXCEPT !.dead = FALSE, !.rate_lock = FALSE,
               !.dsn = IF tr.dead THEN NoDsn ELSE @,
               !.timer = IF tr.dead THEN FALSE ELSE @,
               !.panic = @ \/ (tr.dead /\ tr.dsn = NoDsn)]

qmgr_transport_throttle(tr, dsn) ==
    IF tr.dead THEN tr
    ELSE [tr EXCEPT !.dead = TRUE, !.dsn = dsn, !.timer = TRUE,
                    !.panic = @ \/ tr.dsn # NoDsn]

-----------------------------------------------------------------------------
(***************************************************************************)
(* qmgr_error.c and qmgr_defer.c.  The operators take and return the whole *)
(* queue function Q, so that a handler can apply several in sequence.      *)
(***************************************************************************)
QueuesOf(t) == {q \in Queue : TransportOf(q) = t}

\* qmgr_error_queue() finds a queue, possibly after creating it.
HasErrorQueue(Q, T, dsn) ==
    /\ ~T[Retry].dead
    /\ ~QMGR_QUEUE_THROTTLED(Q[qmgr_error_nexthop(dsn)])

qmgr_error_queue(Q, T, dsn) ==
    IF T[Retry].dead THEN Q
    ELSE [Q EXCEPT ![qmgr_error_nexthop(dsn)] = qmgr_queue_create(Retry, @)]

Crowded(Q) == Cardinality({q \in Queue : Q[q].live}) > QueueCountLimit

\* qmgr_defer_todo() for each queue in S: the entries move to the retry
\* queue (qmgr_entry_move_todo), or, when there is none, their recipients
\* are logged by defer(8) on the spot.  Moving entries to the very queue
\* they come from would never end; that counts as a panic here.
qmgr_defer_todo(Q, T, S, dsn) ==
    LET found == IF S = {} THEN Q ELSE qmgr_error_queue(Q, T, dsn)
        moving == UNION {Q[q].todo : q \in S}
        target == qmgr_error_nexthop(dsn)
        sink == [found[target] EXCEPT
                    !.todo = @ \cup moving,
                    !.panic = @ \/ (moving # {} /\ target \in S)]
        drained == [q \in Queue |-> IF q \in S
                                    THEN TodoDone(TransportOf(q), found[q],
                                                  Crowded(found))
                                    ELSE found[q]]
    IN  IF S # {} /\ HasErrorQueue(Q, T, dsn)
        THEN [drained EXCEPT ![target] = sink]
        ELSE drained

qmgr_defer_transport_mutant(Q, T, t, dsn) == Q

qmgr_defer_transport(Q, T, t, dsn) ==
    qmgr_defer_todo(Q, T, {q \in QueuesOf(t) : Q[q].live}, dsn)

-----------------------------------------------------------------------------
(***************************************************************************)
(* The event handlers.                                                     *)
(***************************************************************************)

\* The list that qmgr_queue_create() appends to and qmgr_queue_done() cuts.
Relisted(Q) ==
    [t \in Transport |->
        LET kept == Without(queue_list[t], {q \in Queue : ~Q[q].live})
        IN  kept \o SetToSeq({q \in QueuesOf(t) : Q[q].live} \ ToSet(kept))]

Queues(Q) == queue' = Q /\ queue_list' = Relisted(Q)

InCore == UNION {queue[q].todo \cup queue[q].busy : q \in Queue}

Init ==
    /\ queue = [q \in Queue |-> NoQueue(TransportOf(q))]
    /\ queue_list = [t \in Transport |-> <<>>]
    /\ transport = [t \in Transport |->
            [dead |-> FALSE, rate_lock |-> FALSE, pending |-> 0,
             connecting |-> 0, delayed |-> 0, dsn |-> NoDsn,
             timer |-> FALSE, panic |-> FALSE]]
    /\ dsb = NoDsn

\* qmgr_message_resolve() and qmgr_message_assign() for one recipient of
\* site s that needs a delivery request of its own.  A recipient for whom
\* nothing is available is deferred on the spot and gets no entry.
qmgr_message_assign(e, s, flush) ==
    LET t == XportOf[s]
        T == IF flush /\ transport[t].dead
             THEN [transport EXCEPT ![t] = qmgr_transport_unthrottle(@)]
             ELSE transport
        name == IF T[t].dead THEN qmgr_error_nexthop(T[t].dsn) ELSE s
        made == [queue EXCEPT ![name] = qmgr_queue_create(TransportOf(name), @)]
        Q == IF flush /\ QMGR_QUEUE_THROTTLED(made[name])
             THEN [made EXCEPT ![name] = qmgr_queue_unthrottle(TransportOf(name), @)]
             ELSE made
        dsn == Q[name].dsn
        redirected == qmgr_error_queue(Q, T, dsn)
    IN  /\ e \notin InCore
        /\ transport' = T
        /\ dsb' = dsb
        /\ IF T[t].dead /\ T[Retry].dead
           THEN UNCHANGED <<queue, queue_list>>
           ELSE IF ~QMGR_QUEUE_THROTTLED(Q[name])
           THEN Queues([Q EXCEPT ![name] = qmgr_entry_create(@, e)])
           ELSE IF HasErrorQueue(Q, T, dsn)
           THEN Queues([redirected EXCEPT
                           ![qmgr_error_nexthop(dsn)] = qmgr_entry_create(@, e)])
           ELSE Queues(redirected)

\* What queue q contributes to the sum in qmgr_transport_select(): negative
\* when the window shrank below the number of deliveries under way.
Slots(q) ==
    LET free == queue[q].window - Cardinality(queue[q].busy)
        waiting == Cardinality(queue[q].todo)
    IN  IF ~QMGR_QUEUE_READY(queue[q]) THEN 0
        ELSE IF free < waiting THEN free ELSE waiting

\* The round-robin order in which transports get their turn is left open.
qmgr_transport_select_mutant(t) ==
    /\ ~transport[t].dead
    /\ ~transport[t].rate_lock
    /\ transport[t].pending < MaxPend
    /\ \E n \in 1..Len(queue_list[t]) :
          FoldLeft(LAMBDA sum, q : sum + Slots(q), 0,
                   SubSeq(queue_list[t], 1, n)) > transport[t].pending + 1

qmgr_transport_select(t) ==
    /\ ~transport[t].dead
    /\ ~transport[t].rate_lock
    /\ transport[t].pending < MaxPend
    /\ \E n \in 1..Len(queue_list[t]) :
          FoldLeft(LAMBDA sum, q : sum + Slots(q), 0,
                   SubSeq(queue_list[t], 1, n)) > transport[t].pending

\* qmgr_active_drain().  Whether mail_connect() succeeds shows when the
\* connection is used, in qmgr_deliver().
qmgr_transport_alloc_mutant(t) ==
    /\ qmgr_transport_select(t)
    /\ transport' = [transport EXCEPT
            ![t].connecting = @ + 1,
            ![t].rate_lock = @ \/ XportRateDelay[t]]
    /\ UNCHANGED <<queue, queue_list, dsb>>

qmgr_transport_alloc_mutant2(t) ==
    /\ qmgr_transport_select(t)
    /\ transport' = [transport EXCEPT
            ![t].pending = @ + 1, ![t].connecting = @ + 1]
    /\ UNCHANGED <<queue, queue_list, dsb>>

qmgr_transport_alloc(t) ==
    /\ qmgr_transport_select(t)
    /\ transport' = [transport EXCEPT
            ![t].pending = @ + 1,
            ![t].connecting = @ + 1,
            ![t].rate_lock = @ \/ XportRateDelay[t]]
    /\ UNCHANGED <<queue, queue_list, dsb>>

\* What qmgr_job_entry_select() can choose from.
Selectable(t) ==
    {qe \in QueuesOf(t) \X Entry :
        /\ queue[qe[1]].live
        /\ qe[2] \in queue[qe[1]].todo
        /\ queue[qe[1]].window > Cardinality(queue[qe[1]].busy)}

\* qmgr_deliver(), called with the transport record tr.  The first case is
\* a missing, silent or disconnected agent, or one that hangs up while the
\* request is sent (qmgr_entry_unselect() undoes the selection).
qmgr_deliver(t, tr) ==
    /\ dsb' = dsb
    /\ \/ LET T == [transport EXCEPT
                      ![t] = qmgr_transport_throttle(tr, Unavailable)]
          IN  /\ transport' = T
              /\ Queues(qmgr_defer_transport(queue, T, t, Unavailable))
       \/ /\ Selectable(t) = {}
          /\ transport' = [transport EXCEPT ![t] = tr]
          /\ UNCHANGED <<queue, queue_list>>
       \/ \E qe \in Selectable(t) :
            /\ transport' = [transport EXCEPT ![t] = tr]
            /\ Queues([queue EXCEPT ![qe[1]] = qmgr_entry_select(@, qe[2])])

\* A delivery agent accepted or refused the connection.
qmgr_transport_event(t) ==
    LET tr == [transport[t] EXCEPT !.connecting = @ - 1, !.pending = @ - 1]
    IN  /\ transport[t].connecting > 0
        /\ IF XportRateDelay[t]
           THEN /\ transport' = [transport EXCEPT ![t] =
                      [tr EXCEPT !.delayed = @ + 1,
                                 !.panic = @ \/ ~tr.rate_lock]]
                /\ UNCHANGED <<queue, queue_list, dsb>>
           ELSE qmgr_deliver(t, tr)

qmgr_transport_rate_event(t) ==
    /\ transport[t].delayed > 0
    /\ qmgr_deliver(t, [transport[t] EXCEPT !.delayed = @ - 1])

\* The agent's report about a delivery: "ok" or "defer", with or without a
\* problem with the site; or "crash", when the agent disconnects before it
\* reports or sends something that cannot be parsed.  What qmgr reads is
\* in dsb, which a crashed agent leaves as the previous report left it.
DeliveryReport(q) ==
    LET site == IF q \in Site THEN {<<q, 0>>} ELSE {}
    IN  ([status : {"ok", "defer"}, seen : {NoDsn} \cup site])
        \cup [status : {"crash"}, seen : {NoDsn, dsb} \cup site]

qmgr_deliver_update(q, e, report) ==
    LET t == TransportOf(q)
        site_problem == report.status # "ok" /\ report.seen # NoDsn
        dsn == IF site_problem THEN SuspendedPrefix(report.seen) ELSE report.seen
        throttle == site_problem /\ QMGR_QUEUE_READY(queue[q])
        Q1 == IF throttle
              THEN [queue EXCEPT ![q] = qmgr_queue_throttle(t, @, dsn)]
              ELSE queue
        Q2 == IF throttle /\ QMGR_QUEUE_THROTTLED(Q1[q])
              THEN qmgr_defer_todo(Q1, transport, {q}, dsn)
              ELSE Q1
        Q3 == IF report.status # "crash" /\ report.seen = NoDsn
              THEN [Q2 EXCEPT ![q] = qmgr_queue_unthrottle(t, @)]
              ELSE Q2
    IN  /\ e \in queue[q].busy
        /\ site_problem => report.seen[2] < MaxPrefix
        /\ Queues([Q3 EXCEPT ![q] = qmgr_entry_done(t, @, e, Crowded(Q3))])
        /\ transport' = IF report.status # "crash"
                        THEN [transport EXCEPT ![t] = qmgr_transport_unthrottle(@)]
                        ELSE transport
        /\ dsb' = dsn

\* Timers.
qmgr_transport_unthrottle_wrapper(t) ==
    /\ transport[t].timer
    /\ transport' = [transport EXCEPT ![t] =
            qmgr_transport_unthrottle([@ EXCEPT !.timer = FALSE])]
    /\ UNCHANGED <<queue, queue_list, dsb>>

qmgr_queue_unthrottle_wrapper(q) ==
    LET t == TransportOf(q)
        fired == [queue[q] EXCEPT !.timers = @ \ {"unthrottle"},
                                  !.panic = @ \/ ~queue[q].live]
    IN  /\ "unthrottle" \in queue[q].timers
        /\ Queues([queue EXCEPT
                ![q] = DoneIfIdle(t, qmgr_queue_unthrottle(t, fired))])
        /\ UNCHANGED <<transport, dsb>>

qmgr_queue_resume_event(q) ==
    LET fired == [queue[q] EXCEPT !.panic = @ \/ ~queue[q].live]
    IN  /\ "resume" \in queue[q].timers
        /\ Queues([queue EXCEPT ![q] = qmgr_queue_resume(TransportOf(q), fired)])
        /\ UNCHANGED <<transport, dsb>>

\* qmgr_enable_all(), upon "postqueue -f".
qmgr_enable_queue(t, q) ==
    IF ~q.live THEN q
    ELSE DoneIfIdle(t, IF QMGR_QUEUE_THROTTLED(q)
                       THEN qmgr_queue_unthrottle(t, q) ELSE q)

qmgr_enable_all ==
    /\ transport' = [t \in Transport |->
            IF transport[t].dead THEN qmgr_transport_unthrottle(transport[t])
            ELSE transport[t]]
    /\ Queues([q \in Queue |-> qmgr_enable_queue(TransportOf(q), queue[q])])
    /\ dsb' = dsb

\* The watchdogs qmgr_transport_abort() and qmgr_deliver_abort() end the
\* process; master(8) starts a new one, which begins with nothing in core.
qmgr_abort ==
    /\ \/ \E t \in Transport : transport[t].connecting > 0
       \/ \E q \in Queue : queue[q].busy # {}
    /\ queue' = [q \in Queue |-> NoQueue(TransportOf(q))]
    /\ queue_list' = [t \in Transport |-> <<>>]
    /\ transport' = [t \in Transport |->
            [dead |-> FALSE, rate_lock |-> FALSE, pending |-> 0,
             connecting |-> 0, delayed |-> 0, dsn |-> NoDsn,
             timer |-> FALSE, panic |-> FALSE]]
    /\ dsb' = NoDsn

TransportEvent(t) ==
    \/ qmgr_transport_event(t)
    \/ qmgr_transport_rate_event(t)
    \/ qmgr_transport_unthrottle_wrapper(t)

QueueTimer(q) ==
    \/ qmgr_queue_unthrottle_wrapper(q)
    \/ qmgr_queue_resume_event(q)

Next ==
    \/ \E e \in Entry, s \in Site, flush \in BOOLEAN :
          qmgr_message_assign(e, s, flush)
    \/ \E t \in Transport : qmgr_transport_alloc(t)
    \/ \E t \in Transport : TransportEvent(t)
    \/ \E q \in Queue : QueueTimer(q)
    \/ \E q \in Queue : \E e \in queue[q].busy, r \in DeliveryReport(q) :
          qmgr_deliver_update(q, e, r)
    \/ qmgr_enable_all
    \/ qmgr_abort

Spec == Init /\ [][Next]_vars

-----------------------------------------------------------------------------
(***************************************************************************)
(* Properties.                                                             *)
(***************************************************************************)

\* The state of queues and transports is well formed.
TypeOK ==
    /\ queue \in [Queue -> QMGR_QUEUE]
    /\ transport \in [Transport -> QMGR_TRANSPORT]
    /\ dsb \in Dsn \cup {NoDsn}

\* No msg_panic() sanity check in qmgr_queue.c, qmgr_transport.c,
\* qmgr_entry.c or qmgr_deliver.c can fail, in whatever order agents reply,
\* timers fire, mail arrives and the administrator flushes the queue.
NoPanic ==
    /\ \A q \in Queue : ~queue[q].panic
    /\ \A t \in Transport : ~transport[t].panic

\* qmgr.h: forbidden state transitions "would result in dangling event
\* handlers".  A queue has a back-off timer and a reason exactly while it
\* is throttled, a resume timer exactly while it is suspended, and no timer
\* outlives its queue; likewise for transports.
TimersMatchState ==
    /\ \A q \in Queue :
         /\ ("unthrottle" \in queue[q].timers) <=>
                (queue[q].live /\ QMGR_QUEUE_THROTTLED(queue[q]))
         /\ ("resume" \in queue[q].timers) <=>
                (queue[q].live /\ QMGR_QUEUE_SUSPENDED(queue[q]))
         /\ (queue[q].dsn # NoDsn) <=> QMGR_QUEUE_THROTTLED(queue[q])
    /\ \A t \in Transport :
         /\ transport[t].timer <=> transport[t].dead
         /\ (transport[t].dsn # NoDsn) <=> transport[t].dead

\* Neither the window nor the number of deliveries under way exceeds the
\* destination concurrency limit, also after a dead site comes back with
\* the window set to what is still busy; a rate-limited destination has no
\* delivery under way while it is suspended.
ConcurrencyBounded ==
    \A q \in Queue :
        LET limit == dest_concurrency_limit(TransportOf(q))
        IN  /\ limit > 0 => /\ queue[q].window <= limit
                            /\ Cardinality(queue[q].busy) <= limit
            /\ QMGR_QUEUE_SUSPENDED(queue[q]) => queue[q].busy = {}

\* While a site or a transport is in back-off nothing waits behind it: all
\* of its todo entries were handed to retry(8) or deferred on the spot.
NothingParked ==
    \A q \in Queue :
        \/ QMGR_QUEUE_THROTTLED(queue[q])
        \/ transport[TransportOf(q)].dead
        \/ ~queue[q].live
        => queue[q].todo = {}

\* A transport with a transport rate delay has one request in flight, from
\* allocation until the agent reports, and holds the rate lock all along.
RateLockExclusive ==
    \A t \in Transport : XportRateDelay[t] =>
        LET wire == {qe \in QueuesOf(t) \X Entry : qe[2] \in queue[qe[1]].busy}
            inflight == transport[t].connecting + transport[t].delayed
                        + Cardinality(wire)
        IN  /\ inflight <= 1
            /\ inflight = 1 => transport[t].rate_lock

\* pending counts exactly the connections that qmgr_transport_event() has
\* yet to hear about, and stays within its limit.
PendingExact ==
    \A t \in Transport :
        /\ transport[t].pending = transport[t].connecting
        /\ transport[t].pending <= MaxPend

\* "No-one is supposed to remove a queue in suspended state": only its own
\* resume timer ends the pause that rate_delay imposes, whatever reports,
\* flushes or transport failures come in between.
SuspensionHonoured ==
    [][\A q \in Queue : queue[q].live /\ QMGR_QUEUE_SUSPENDED(queue[q]) =>
          \/ queue'[q].live /\ QMGR_QUEUE_SUSPENDED(queue'[q])
          \/ qmgr_queue_resume_event(q)
          \/ qmgr_abort]_vars

\* qmgr_queue.c: "Every event handler that leaves a queue in the "ready"
\* state should remove the queue when it is empty": no site is kept that
\* has no mail.  (qmgr_defer_todo() does keep empty queues of retry(8).)
NoIdleSite ==
    \A s \in Site :
        queue[s].live /\ QMGR_QUEUE_READY(queue[s]) => ~IsEmpty(queue[s])

\* An entry is on one list of one queue: moving entries between queues
\* neither copies nor shares them (a shared entry is freed twice).
EntryOnOneList ==
    \A q1, q2 \in Queue :
        /\ queue[q1].todo \cap queue[q2].busy = {}
        /\ q1 # q2 => /\ queue[q1].todo \cap queue[q2].todo = {}
                      /\ queue[q1].busy \cap queue[q2].busy = {}

\* The list that qmgr_transport_select() walks holds each live queue of
\* the transport once, and nothing else.
QueueListExact ==
    \A t \in Transport :
        /\ ToSet(queue_list[t]) = {q \in QueuesOf(t) : queue[q].live}
        /\ Len(queue_list[t]) = Cardinality(ToSet(queue_list[t]))

\* The lists stay exact while queues come and go and mail is moved between
\* them (qmgr_defer_todo(), qmgr_queue_done(), qmgr_entry_move_todo()).
ListsExact == EntryOnOneList /\ QueueListExact /\ NoIdleSite

-----------------------------------------------------------------------------
(***************************************************************************)
(* Liveness.  The event loop delivers every event that keeps being due:    *)
(* requested timers fire, a connected agent answers or its watchdog ends   *)
(* the process, and qmgr_loop() drains the active queue in every turn.     *)
(***************************************************************************)
Fairness ==
    /\ \A t \in Transport : WF_vars(qmgr_transport_alloc(t))
    /\ \A t \in Transport : WF_vars(qmgr_transport_event(t))
    /\ \A t \in Transport : WF_vars(qmgr_transport_rate_event(t))
    /\ \A t \in Transport : WF_vars(qmgr_transport_unthrottle_wrapper(t))
    /\ \A q \in Queue : WF_vars(QueueTimer(q))
    /\ \A q \in Queue :
          WF_vars(\E e \in queue[q].busy, r \in DeliveryReport(q) :
                     qmgr_deliver_update(q, e, r))

FairSpec == Spec /\ Fairness

\* qmgr_transport.c: if some code path forgets the rate lock, "transports
\* with non-zero _transport_rate_delay will become stuck".  Mail that waits
\* for a transport is eventually on the wire, or waits there no longer.
TransportNotStuck ==
    \A t \in Transport :
        (\E q \in QueuesOf(t) : queue[q].todo # {})
            ~> \/ \E q \in QueuesOf(t) : queue[q].busy # {}
               \/ \A q \in QueuesOf(t) : queue[q].todo = {}

=============================================================================
