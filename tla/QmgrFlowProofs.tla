--------------------------- MODULE QmgrFlowProofs ---------------------------
(***************************************************************************)
(* Proofs about QmgrFlow, for any number of sites, transports and entries  *)
(* and any concurrency limits, rate delays and feedback settings.          *)
(***************************************************************************)
EXTENDS QmgrFlow, ListsProofs, FiniteSetTheorems, TLAPS

-----------------------------------------------------------------------------
(***************************************************************************)
(* The invariant of one queue of transport t.  Sound(t, q) is what each    *)
(* operation on a queue relies on and restores; a queue that was throttled *)
(* a moment ago may still have todo entries, which qmgr_defer_todo() then  *)
(* takes away.                                                             *)
(***************************************************************************)
Limited(t, n) == dest_concurrency_limit(t) > 0 => n <= dest_concurrency_limit(t)

Sound(t, q) ==
    /\ q \in QMGR_QUEUE
    /\ q.panic = FALSE
    /\ ("unthrottle" \in q.timers) <=> (q.live = TRUE /\ q.window = 0)
    /\ ("resume" \in q.timers) <=> (q.live = TRUE /\ q.window = -1)
    /\ (q.dsn # NoDsn) <=> (q.window = 0)
    /\ Limited(t, q.window)
    /\ Limited(t, Cardinality(q.busy))
    /\ q.window = -1 => q.busy = {}
    /\ q.live = FALSE => q.busy = {} /\ q.todo = {} /\ q.window > 0

Settled(t, q) == Sound(t, q) /\ (q.window = 0 => q.todo = {})

-----------------------------------------------------------------------------
(* Arithmetic.                                                             *)

LEMMA LimitType ==
    ASSUME NEW t \in Transport
    PROVE  dest_concurrency_limit(t) \in Nat
BY ConfigAssumption DEF dest_concurrency_limit

LEMMA RateLimit ==
    ASSUME NEW t \in Transport, RateDelay[t]
    PROVE  dest_concurrency_limit(t) = 1
BY ConfigAssumption DEF dest_concurrency_limit

LEMMA InitType ==
    ASSUME NEW t \in Transport
    PROVE  init_dest_concurrency(t) \in Nat /\ init_dest_concurrency(t) > 0
BY ConfigAssumption DEF dest_concurrency_limit, init_dest_concurrency

LEMMA InitLimited ==
    ASSUME NEW t \in Transport
    PROVE  Limited(t, init_dest_concurrency(t))
BY ConfigAssumption DEF dest_concurrency_limit, init_dest_concurrency, Limited

LEMMA ZeroLimited ==
    ASSUME NEW t \in Transport
    PROVE  Limited(t, 0)
BY LimitType DEF Limited

LEMMA FeedbackType ==
    ASSUME NEW t \in Transport, NEW w \in Nat, w > 0
    PROVE  /\ QMGR_FEEDBACK_VAL(PosFeedback[t], w) \in Nat
           /\ QMGR_FEEDBACK_VAL(NegFeedback[t], w) \in Nat
<1>1. /\ PosFeedback[t].base \in Nat
      /\ NegFeedback[t].base \in Nat
  BY ConfigAssumption, FeedbackAssumption
<1>2. ASSUME NEW n \in Nat PROVE n \div w \in Nat
  OBVIOUS
<1> QED
  BY <1>1, <1>2 DEF QMGR_FEEDBACK_VAL

LEMMA StepsType ==
    ASSUME NEW s \in Int, NEW f \in Nat
    PROVE  PosSteps(s, f) \in Nat /\ NegSteps(s, f) \in Nat
BY ConfigAssumption DEF PosSteps, NegSteps

LEMMA CardinalityType ==
    ASSUME NEW S \in SUBSET Entry
    PROVE  /\ IsFiniteSet(S)
           /\ Cardinality(S) \in Nat
           /\ S # {} => Cardinality(S) > 0
           /\ \A e \in S : Cardinality(S \ {e}) = Cardinality(S) - 1
           /\ \A e \in Entry \ S : Cardinality(S \cup {e}) = Cardinality(S) + 1
<1>1. IsFiniteSet(S)
  BY EntryAssumption, FS_Subset
<1>2. Cardinality(S) \in Nat
  BY <1>1, FS_CardinalityType
<1>3. S # {} => Cardinality(S) > 0
  BY <1>1, <1>2, FS_EmptySet
<1>4. \A e \in S : Cardinality(S \ {e}) = Cardinality(S) - 1
  BY <1>1, FS_RemoveElement
<1>5. \A e \in Entry \ S : Cardinality(S \cup {e}) = Cardinality(S) + 1
  BY <1>1, FS_AddElement
<1> QED
  BY <1>1, <1>2, <1>3, <1>4, <1>5

LEMMA QueueUpdateType ==
    ASSUME NEW q \in QMGR_QUEUE, NEW w \in Nat, NEW s \in Int, NEW f \in Int,
           NEW c \in Nat, NEW d \in Dsn \cup {NoDsn},
           NEW tm \in SUBSET {"unthrottle", "resume"}
    PROVE  [q EXCEPT !.window = w, !.success = s, !.failure = f,
                     !.fail_cohorts = c, !.dsn = d, !.timers = tm,
                     !.panic = FALSE] \in QMGR_QUEUE
BY DEF QMGR_QUEUE

LEMMA WindowUpdateType ==
    ASSUME NEW q \in QMGR_QUEUE, NEW w \in Nat, NEW s \in Int, NEW f \in Int,
           NEW c \in Nat
    PROVE  /\ [q EXCEPT !.fail_cohorts = c, !.window = w, !.success = s,
                        !.failure = f, !.panic = FALSE] \in QMGR_QUEUE
           /\ [q EXCEPT !.window = w, !.fail_cohorts = c, !.failure = f,
                        !.success = s, !.panic = FALSE] \in QMGR_QUEUE
           /\ [q EXCEPT !.fail_cohorts = c, !.panic = FALSE] \in QMGR_QUEUE
BY DEF QMGR_QUEUE

LEMMA NoQueueSound ==
    ASSUME NEW t \in Transport
    PROVE  Settled(t, NoQueue(t))
<1>1. NoQueue(t) \in QMGR_QUEUE
  BY InitType DEF NoQueue, QMGR_QUEUE
<1>2. /\ NoQueue(t).window = init_dest_concurrency(t)
      /\ NoQueue(t).busy = {} /\ NoQueue(t).todo = {}
      /\ NoQueue(t).timers = {} /\ NoQueue(t).dsn = NoDsn
      /\ NoQueue(t).live = FALSE /\ NoQueue(t).panic = FALSE
  BY DEF NoQueue
<1> QED
  BY <1>1, <1>2, InitType, InitLimited, ZeroLimited, FS_EmptySet
  DEF Settled, Sound

-----------------------------------------------------------------------------
(* Operations on one queue.                                                *)

LEMMA CreateSound ==
    ASSUME NEW t \in Transport, NEW q, Sound(t, q)
    PROVE  LET r == qmgr_queue_create(t, q)
           IN  /\ Sound(t, r)
               /\ r.live = TRUE /\ r.window = q.window
               /\ r.todo = q.todo /\ r.busy = q.busy
<1> DEFINE r == qmgr_queue_create(t, q)
<1>1. r \in QMGR_QUEUE
  BY DEF qmgr_queue_create, Sound, QMGR_QUEUE
<1>2. /\ r.live = TRUE /\ r.window = q.window /\ r.dsn = q.dsn
      /\ r.todo = q.todo /\ r.busy = q.busy /\ r.timers = q.timers
      /\ r.panic = q.panic
  BY DEF qmgr_queue_create, Sound, QMGR_QUEUE
<1>3. q.live = FALSE => q.window > 0
  BY DEF Sound
<1>4. q.live \in BOOLEAN /\ q.window \in Int
  BY DEF Sound, QMGR_QUEUE, SUSPENDED
<1> QED
  BY <1>1, <1>2, <1>3, <1>4 DEF Sound

LEMMA DoneIfIdleSettled ==
    ASSUME NEW t \in Transport, NEW q, Settled(t, q)
    PROVE  LET r == DoneIfIdle(t, q)
           IN  Settled(t, r) /\ r.todo = q.todo /\ r.busy = q.busy
<1>1. CASE QMGR_QUEUE_READY(q) /\ IsEmpty(q)
  <2>1. q.timers = {}
    BY <1>1 DEF Settled, Sound, QMGR_QUEUE, QMGR_QUEUE_READY, SUSPENDED
  <2>2. q.dsn = NoDsn /\ q.panic = FALSE
    BY <1>1 DEF Settled, Sound, QMGR_QUEUE, QMGR_QUEUE_READY, SUSPENDED
  <2> DEFINE r == qmgr_queue_done(t, q)
  <2>3. /\ r.window = init_dest_concurrency(t)
        /\ r.busy = {} /\ r.todo = {}
        /\ r.timers = {} /\ r.dsn = NoDsn
        /\ r.live = FALSE /\ r.panic = FALSE
    BY <1>1, <2>1, <2>2 DEF qmgr_queue_done, NoQueue
  <2>4. r \in QMGR_QUEUE
    <3>1. NoQueue(t) \in QMGR_QUEUE
      BY NoQueueSound DEF Settled, Sound
    <3> QED
      BY <3>1, <2>1 DEF qmgr_queue_done, QMGR_QUEUE
  <2>5. Settled(t, r)
    BY <2>3, <2>4, InitType, InitLimited, ZeroLimited, FS_EmptySet
    DEF Settled, Sound
  <2> QED
    BY <1>1, <2>3, <2>5 DEF DoneIfIdle, IsEmpty
<1>2. CASE ~(QMGR_QUEUE_READY(q) /\ IsEmpty(q))
  BY <1>2 DEF DoneIfIdle
<1> QED
  BY <1>1, <1>2

LEMMA SuspendSettled ==
    ASSUME NEW t \in Transport, NEW q, Sound(t, q),
           q.live = TRUE, q.window > 0, q.busy = {}
    PROVE  LET r == qmgr_queue_suspend(q)
           IN  /\ Settled(t, r)
               /\ r.window = -1
               /\ r.todo = q.todo /\ r.busy = q.busy
<1> DEFINE r == qmgr_queue_suspend(q)
<1>1. r \in QMGR_QUEUE
  BY DEF qmgr_queue_suspend, Sound, QMGR_QUEUE, SUSPENDED
<1>2. /\ r.live = TRUE /\ r.window = -1 /\ r.dsn = q.dsn
      /\ r.todo = q.todo /\ r.busy = q.busy
      /\ r.timers = q.timers \cup {"resume"} /\ r.panic = FALSE
  BY DEF qmgr_queue_suspend, Sound, QMGR_QUEUE, SUSPENDED, QMGR_QUEUE_READY
<1>3. Limited(t, -1)
  BY LimitType DEF Limited
<1> QED
  BY <1>1, <1>2, <1>3 DEF Settled, Sound

LEMMA ResumeSettled ==
    ASSUME NEW t \in Transport, NEW q, Sound(t, q),
           q.live = TRUE, q.window = -1
    PROVE  LET r == qmgr_queue_resume(t, q)
           IN  Settled(t, r) /\ r.todo = q.todo /\ r.busy = q.busy
<1> DEFINE r == [q EXCEPT !.window = 1, !.timers = @ \ {"resume"},
                          !.panic = @ \/ ~QMGR_QUEUE_SUSPENDED(q)]
<1>1. r \in QMGR_QUEUE
  BY DEF Sound, QMGR_QUEUE, SUSPENDED
<1>2. /\ r.live = TRUE /\ r.window = 1 /\ r.dsn = q.dsn
      /\ r.todo = q.todo /\ r.busy = q.busy
      /\ r.timers = q.timers \ {"resume"} /\ r.panic = FALSE
  BY DEF Sound, QMGR_QUEUE, SUSPENDED, QMGR_QUEUE_SUSPENDED
<1>3. Limited(t, 1)
  BY LimitType DEF Limited
<1>4. Settled(t, r)
  BY <1>1, <1>2, <1>3 DEF Settled, Sound
<1> QED
  BY <1>2, <1>4, DoneIfIdleSettled DEF qmgr_queue_resume

\* The unthrottle timer has already left the event queue when its own
\* handler runs, so the lemma does not ask for it.
LEMMA UnthrottleSound ==
    ASSUME NEW t \in Transport, NEW q \in QMGR_QUEUE,
           q.panic = FALSE, q.live = TRUE, q.window >= 0,
           "resume" \notin q.timers,
           q.window > 0 => "unthrottle" \notin q.timers,
           (q.dsn # NoDsn) <=> (q.window = 0),
           Limited(t, q.window), Limited(t, Cardinality(q.busy))
    PROVE  LET r == qmgr_queue_unthrottle(t, q)
           IN  /\ Settled(t, r)
               /\ r.live = TRUE /\ r.window > 0
               /\ r.todo = q.todo /\ r.busy = q.busy
<1> DEFINE r == qmgr_queue_unthrottle(t, q)
<1>0. q.window \in Nat /\ q.busy \in SUBSET Entry
  BY DEF QMGR_QUEUE, SUSPENDED
<1>00. /\ Cardinality(q.busy) \in Nat
       /\ q.busy # {} => Cardinality(q.busy) > 0
  BY <1>0, CardinalityType
<1>1. CASE q.window = 0
  <2> DEFINE w == IF q.busy # {} THEN Cardinality(q.busy)
                                 ELSE init_dest_concurrency(t)
  <2>1. w \in Nat /\ w > 0 /\ Limited(t, w)
    BY <1>00, InitType, InitLimited
  <2> HIDE DEF w
  <2>2. r = [q EXCEPT !.window = w, !.success = 0, !.failure = 0,
                      !.fail_cohorts = 0, !.dsn = NoDsn,
                      !.timers = @ \ {"unthrottle"}, !.panic = FALSE]
    BY <1>1 DEF qmgr_queue_unthrottle, QMGR_QUEUE_THROTTLED,
                QMGR_QUEUE_READY, THROTTLED, w
  <2> HIDE DEF r
  <2>3. r \in QMGR_QUEUE
    <3>1. q.timers \ {"unthrottle"} \in SUBSET {"unthrottle", "resume"}
      BY DEF QMGR_QUEUE
    <3>2. [q EXCEPT !.window = w, !.success = 0, !.failure = 0,
                    !.fail_cohorts = 0, !.dsn = NoDsn,
                    !.timers = q.timers \ {"unthrottle"}, !.panic = FALSE]
          \in QMGR_QUEUE
      <4> DEFINE tm == q.timers \ {"unthrottle"}
      <4>1. tm \in SUBSET {"unthrottle", "resume"} /\ w \in Nat
        BY <2>1, <3>1
      <4>2. 0 \in Int /\ 0 \in Nat /\ NoDsn \in Dsn \cup {NoDsn}
        OBVIOUS
      <4> HIDE DEF tm
      <4>3. [q EXCEPT !.window = w, !.success = 0, !.failure = 0,
                      !.fail_cohorts = 0, !.dsn = NoDsn, !.timers = tm,
                      !.panic = FALSE] \in QMGR_QUEUE
        BY <4>1, <4>2, QueueUpdateType, ZenonT(30)
      <4> QED
        BY <4>3 DEF tm
    <3> QED
      BY <2>2, <3>2
  <2>4. /\ r.window = w /\ r.dsn = NoDsn /\ r.live = TRUE
        /\ r.timers = q.timers \ {"unthrottle"} /\ r.panic = FALSE
        /\ r.todo = q.todo /\ r.busy = q.busy
    BY <2>2 DEF QMGR_QUEUE
  <2>5. Settled(t, r)
    BY <2>1, <2>3, <2>4 DEF Settled, Sound
  <2> QED
    BY <2>1, <2>4, <2>5 DEF r
<1>2. CASE q.window > 0
  <2> DEFINE limit == dest_concurrency_limit(t)
             feedback == QMGR_FEEDBACK_VAL(PosFeedback[t], q.window)
             success == q.success + feedback
             steps == PosSteps(success, feedback)
             window == q.window + steps
             w == IF limit > 0 /\ window > limit THEN limit ELSE window
             f == IF steps > 0 THEN 0 ELSE q.failure
  <2>1. feedback \in Nat /\ q.success \in Int /\ q.failure \in Int
    BY <1>0, <1>2, FeedbackType DEF QMGR_QUEUE
  <2>2. success \in Int
    BY <2>1
  <2>3. steps \in Nat
    BY <2>1, <2>2, StepsType
  <2>4. /\ w \in Nat /\ w > 0 /\ Limited(t, w) /\ f \in Int
        /\ success - steps * Scale \in Int
    <3> HIDE DEF steps, success
    <3> QED
      BY <1>0, <1>2, <2>1, <2>2, <2>3, LimitType, ConfigAssumption DEF Limited
  <2>a. ~QMGR_QUEUE_THROTTLED(q) /\ QMGR_QUEUE_READY(q)
    BY <1>0, <1>2 DEF QMGR_QUEUE_THROTTLED, QMGR_QUEUE_READY, THROTTLED
  <2>5. \/ r = [q EXCEPT !.fail_cohorts = 0, !.window = w,
                         !.success = success - steps * Scale,
                         !.failure = f, !.panic = FALSE]
        \/ r = [q EXCEPT !.fail_cohorts = 0, !.panic = FALSE]
    BY <2>a DEF qmgr_queue_unthrottle
  <2> HIDE DEF r, w, f, steps, success
  <2>6. r \in QMGR_QUEUE
    <3>1. [q EXCEPT !.fail_cohorts = 0, !.window = w,
                    !.success = success - steps * Scale,
                    !.failure = f, !.panic = FALSE] \in QMGR_QUEUE
      BY <2>4, WindowUpdateType
    <3>2. [q EXCEPT !.fail_cohorts = 0, !.panic = FALSE] \in QMGR_QUEUE
      BY DEF QMGR_QUEUE
    <3> QED
      BY <2>5, <3>1, <3>2
  <2>7. /\ r.window \in Nat /\ r.window > 0 /\ Limited(t, r.window)
        /\ r.dsn = q.dsn /\ r.live = TRUE
        /\ r.timers = q.timers /\ r.panic = FALSE
        /\ r.todo = q.todo /\ r.busy = q.busy
    BY <1>0, <1>2, <2>4, <2>5, ZenonT(30) DEF QMGR_QUEUE
  <2>8. Settled(t, r)
    BY <1>2, <2>6, <2>7 DEF Settled, Sound
  <2> QED
    BY <2>7, <2>8 DEF r
<1>3. q.window = 0 \/ q.window > 0
  BY <1>0
<1> QED
  BY <1>1, <1>2, <1>3

LEMMA ThrottleSound ==
    ASSUME NEW t \in Transport, NEW q, Sound(t, q), NEW dsn \in Dsn,
           q.live = TRUE, q.window > 0
    PROVE  LET r == qmgr_queue_throttle(t, q, dsn)
           IN  /\ Sound(t, r)
               /\ r.live = TRUE /\ r.window >= 0
               /\ r.todo = q.todo /\ r.busy = q.busy
<1> DEFINE r == qmgr_queue_throttle(t, q, dsn)
           limit == FailCohortLimit[t] * Scale
           cohorts == IF limit = 0 THEN 0
                      ELSE q.fail_cohorts + (Scale \div q.window)
           feedback == QMGR_FEEDBACK_VAL(NegFeedback[t], q.window)
           failure == q.failure - feedback
           steps == NegSteps(failure, feedback)
           w == NoOvershoot(q.window - steps)
           s == IF steps > 0 THEN 0 ELSE q.success
<1>1. /\ q \in QMGR_QUEUE /\ q.window \in Nat /\ q.success \in Int
      /\ q.failure \in Int /\ q.fail_cohorts \in Nat
  BY DEF Sound, QMGR_QUEUE, SUSPENDED
<1>2. q.panic = FALSE /\ q.dsn = NoDsn
  BY DEF Sound
<1>3. cohorts \in Nat
  <2>1. Scale \in Nat /\ Scale > 0
    BY ConfigAssumption
  <2>2. Scale \div q.window \in Nat
    BY <2>1, <1>1
  <2> QED
    BY <1>1, <2>2
<1>4. feedback \in Nat
  BY <1>1, FeedbackType
<1>5. failure \in Int
  BY <1>1, <1>4
<1>6. steps \in Nat
  BY <1>4, <1>5, StepsType
<1>7. \/ r = [q EXCEPT !.window = 0, !.fail_cohorts = cohorts,
                       !.dsn = dsn, !.timers = @ \cup {"unthrottle"},
                       !.panic = FALSE]
      \/ r = [q EXCEPT !.window = w, !.fail_cohorts = cohorts,
                       !.failure = failure + steps * Scale,
                       !.success = s, !.panic = FALSE]
  BY <1>2 DEF qmgr_queue_throttle, QMGR_QUEUE_READY, THROTTLED
<1>8. /\ w \in Nat /\ w > 0 /\ w <= q.window /\ s \in Int
      /\ failure + steps * Scale \in Int
  <2> HIDE DEF steps, failure
  <2> QED
    BY <1>1, <1>5, <1>6, ConfigAssumption DEF NoOvershoot
<1> HIDE DEF r, w, s, steps, failure, cohorts
<1>9. r \in QMGR_QUEUE
  <2>1. CASE r = [q EXCEPT !.window = 0, !.fail_cohorts = cohorts,
                           !.dsn = dsn, !.timers = @ \cup {"unthrottle"},
                           !.panic = FALSE]
    BY <1>1, <1>3, <2>1 DEF QMGR_QUEUE
  <2>2. CASE r = [q EXCEPT !.window = w, !.fail_cohorts = cohorts,
                           !.failure = failure + steps * Scale,
                           !.success = s, !.panic = FALSE]
    BY <1>1, <1>3, <1>8, <2>2, WindowUpdateType
  <2> QED
    BY <1>7, <2>1, <2>2
<1>10. /\ r.live = TRUE /\ r.panic = FALSE
       /\ r.todo = q.todo /\ r.busy = q.busy
       /\ \/ /\ r.window = 0 /\ r.dsn = dsn
             /\ r.timers = q.timers \cup {"unthrottle"}
          \/ /\ r.window = w /\ r.dsn = q.dsn
             /\ r.timers = q.timers
  BY <1>1, <1>7, ZenonT(30) DEF QMGR_QUEUE, Sound
<1>11. Limited(t, w)
  BY <1>1, <1>8, LimitType DEF Sound, Limited
<1>12. dsn # NoDsn
  BY DsnAssumption
<1>13. Sound(t, r)
  BY <1>8, <1>9, <1>10, <1>11, <1>12, ZeroLimited DEF Sound
<1> QED
  BY <1>8, <1>10, <1>13 DEF r

LEMMA SettledUnthrottle ==
    ASSUME NEW t \in Transport, NEW q, Sound(t, q),
           q.live = TRUE, q.window >= 0
    PROVE  LET r == qmgr_queue_unthrottle(t, q)
           IN  /\ Settled(t, r)
               /\ r.live = TRUE /\ r.window > 0
               /\ r.todo = q.todo /\ r.busy = q.busy
<1>1. q \in QMGR_QUEUE /\ q.window \in Int
  BY DEF Sound, QMGR_QUEUE, SUSPENDED
<1>2. /\ q.panic = FALSE
      /\ "resume" \notin q.timers
      /\ q.window > 0 => "unthrottle" \notin q.timers
      /\ (q.dsn # NoDsn) <=> (q.window = 0)
      /\ Limited(t, q.window) /\ Limited(t, Cardinality(q.busy))
  BY <1>1 DEF Sound
<1> QED
  BY <1>1, <1>2, UnthrottleSound

LEMMA EntryCreateSettled ==
    ASSUME NEW t \in Transport, NEW q, Settled(t, q), NEW e \in Entry,
           q.live = TRUE, q.window # 0
    PROVE  LET r == qmgr_entry_create(q, e)
           IN  /\ Settled(t, r)
               /\ r.todo = q.todo \cup {e} /\ r.busy = q.busy
<1> DEFINE r == qmgr_entry_create(q, e)
<1>1. r \in QMGR_QUEUE
  BY DEF qmgr_entry_create, Settled, Sound, QMGR_QUEUE
<1>2. /\ r.live = TRUE /\ r.window = q.window /\ r.dsn = q.dsn
      /\ r.todo = q.todo \cup {e} /\ r.busy = q.busy
      /\ r.timers = q.timers /\ r.panic = FALSE
  BY DEF qmgr_entry_create, Settled, Sound, QMGR_QUEUE,
         QMGR_QUEUE_THROTTLED, THROTTLED
<1> QED
  BY <1>1, <1>2 DEF Settled, Sound

Eligible(q, e) ==
    q.live = TRUE /\ e \in q.todo /\ q.window > Cardinality(q.busy)

LEMMA EntrySelectSettled ==
    ASSUME NEW t \in Transport, NEW q, Settled(t, q), NEW e, Eligible(q, e)
    PROVE  LET r == qmgr_entry_select(q, e)
           IN  /\ Settled(t, r)
               /\ r.todo = q.todo \ {e} /\ r.busy = q.busy \cup {e}
<1> USE DEF Eligible
<1> DEFINE r == qmgr_entry_select(q, e)
<1>1. r \in QMGR_QUEUE
  BY DEF qmgr_entry_select, Settled, Sound, QMGR_QUEUE
<1>2. /\ r.live = TRUE /\ r.window = q.window /\ r.dsn = q.dsn
      /\ r.todo = q.todo \ {e} /\ r.busy = q.busy \cup {e}
      /\ r.timers = q.timers /\ r.panic = FALSE
  BY DEF qmgr_entry_select, Settled, Sound, QMGR_QUEUE
<1>3. e \in Entry /\ q.busy \in SUBSET Entry /\ q.window \in Int
  BY DEF Settled, Sound, QMGR_QUEUE, SUSPENDED
<1>4. Cardinality(q.busy) \in Nat
  BY <1>3, CardinalityType
<1>5. \/ q.busy \cup {e} = q.busy
      \/ Cardinality(q.busy \cup {e}) = Cardinality(q.busy) + 1
  <2>1. CASE e \in q.busy
    BY <2>1
  <2>2. CASE e \notin q.busy
    BY <1>3, <2>2, CardinalityType
  <2> QED
    BY <2>1, <2>2
<1>6. Limited(t, q.window) /\ Limited(t, Cardinality(q.busy))
  BY DEF Settled, Sound
<1>7. Limited(t, Cardinality(q.busy \cup {e}))
  BY <1>3, <1>4, <1>5, <1>6, LimitType DEF Limited
<1>8. q.window > 0
  BY <1>3, <1>4
<1> QED
  BY <1>1, <1>2, <1>3, <1>7, <1>8 DEF Settled, Sound

LEMMA DiscardSettled ==
    ASSUME NEW t \in Transport, NEW q, Settled(t, q), NEW crowded \in BOOLEAN,
           q.live = TRUE
    PROVE  LET r == DiscardIfEmpty(t, q, crowded)
           IN  Settled(t, r) /\ r.todo = q.todo /\ r.busy = q.busy
<1> DEFINE woken == IF QMGR_QUEUE_THROTTLED(q) /\ crowded
                    THEN qmgr_queue_unthrottle(t, q) ELSE q
<1>1. Settled(t, woken) /\ woken.todo = q.todo /\ woken.busy = q.busy
  <2>1. CASE QMGR_QUEUE_THROTTLED(q)
    <3>1. Sound(t, q) /\ q.window >= 0
      BY <2>1 DEF Settled, QMGR_QUEUE_THROTTLED, THROTTLED
    <3> QED
      BY <3>1, SettledUnthrottle
  <2>2. CASE ~QMGR_QUEUE_THROTTLED(q)
    BY <2>2
  <2> QED
    BY <2>1, <2>2
<1> HIDE DEF woken
<1>2. LET r == DoneIfIdle(t, woken)
      IN  Settled(t, r) /\ r.todo = woken.todo /\ r.busy = woken.busy
  BY <1>1, DoneIfIdleSettled
<1>3. DiscardIfEmpty(t, q, crowded)
        = IF IsEmpty(q) THEN DoneIfIdle(t, woken) ELSE q
  BY DEF DiscardIfEmpty, woken
<1> QED
  BY <1>1, <1>2, <1>3

LEMMA TodoDoneSettled ==
    ASSUME NEW t \in Transport, NEW q, Sound(t, q), NEW crowded \in BOOLEAN
    PROVE  LET r == TodoDone(t, q, crowded)
           IN  Settled(t, r) /\ r.todo = {} /\ r.busy = q.busy
<1>1. CASE q.todo = {}
  BY <1>1 DEF TodoDone, Settled
<1>2. CASE q.todo # {}
  <2>0. q.live = TRUE
    BY <1>2 DEF Sound, QMGR_QUEUE
  <2> DEFINE r == [q EXCEPT !.todo = {}]
  <2>1. r \in QMGR_QUEUE
    BY DEF Sound, QMGR_QUEUE
  <2>2. /\ r.live = TRUE /\ r.window = q.window /\ r.dsn = q.dsn
        /\ r.todo = {} /\ r.busy = q.busy
        /\ r.timers = q.timers /\ r.panic = q.panic
    BY <2>0 DEF Sound, QMGR_QUEUE
  <2>3. Settled(t, r)
    BY <2>1, <2>2 DEF Settled, Sound
  <2>4. TodoDone(t, q, crowded) = DiscardIfEmpty(t, r, crowded)
    BY <1>2 DEF TodoDone
  <2> HIDE DEF r
  <2>5. LET d == DiscardIfEmpty(t, r, crowded)
        IN  Settled(t, d) /\ d.todo = r.todo /\ d.busy = r.busy
    BY <2>2, <2>3, DiscardSettled
  <2> QED
    BY <2>2, <2>4, <2>5
<1> QED
  BY <1>1, <1>2

Finishing(q, e) == q.live = TRUE /\ e \in q.busy

Finished(t, q, e, r) ==
    Settled(t, r) /\ r.todo = q.todo /\ r.busy = q.busy \ {e}

LEMMA EntryDoneSettled ==
    ASSUME NEW t \in Transport, NEW q, Settled(t, q), NEW crowded \in BOOLEAN,
           NEW e, Finishing(q, e)
    PROVE  Finished(t, q, e, qmgr_entry_done(t, q, e, crowded))
<1> USE DEF Finishing, Finished
<1> DEFINE taken == [q EXCEPT !.busy = @ \ {e}]
           checked == [taken EXCEPT !.panic = @ \/ taken.window > 1]
           revived == IF QMGR_QUEUE_THROTTLED(checked)
                      THEN qmgr_queue_unthrottle(t, checked) ELSE checked
           paced == IF QMGR_QUEUE_READY(revived)
                    THEN qmgr_queue_suspend(revived) ELSE revived
<1>1. taken \in QMGR_QUEUE
  BY DEF Settled, Sound, QMGR_QUEUE
<1>2. /\ taken.live = TRUE /\ taken.window = q.window /\ taken.dsn = q.dsn
      /\ taken.todo = q.todo /\ taken.busy = q.busy \ {e}
      /\ taken.timers = q.timers /\ taken.panic = FALSE
  BY DEF Settled, Sound, QMGR_QUEUE
<1>3. /\ q.busy \in SUBSET Entry /\ q.window \in Int /\ q.window >= 0
      /\ q.timers \in SUBSET {"unthrottle", "resume"}
  BY DEF Settled, Sound, QMGR_QUEUE, SUSPENDED
<1>4. /\ Cardinality(q.busy) \in Nat
      /\ Cardinality(q.busy \ {e}) = Cardinality(q.busy) - 1
      /\ q.busy \ {e} # {} => Cardinality(q.busy \ {e}) > 0
  BY <1>3, CardinalityType
<1>5. Limited(t, q.window) /\ Limited(t, Cardinality(q.busy))
  BY DEF Settled, Sound
<1>6. Limited(t, Cardinality(q.busy \ {e}))
  BY <1>4, <1>5, LimitType DEF Limited
<1>7. Settled(t, taken)
  BY <1>1, <1>2, <1>3, <1>6 DEF Settled, Sound
<1>8. CASE RateDelay[t]
  <2>1. q.busy \ {e} = {} /\ q.window <= 1
    BY <1>3, <1>4, <1>5, <1>8, RateLimit DEF Limited
  <2> HIDE DEF taken
  <2>2. checked \in QMGR_QUEUE
    BY <1>1 DEF QMGR_QUEUE
  <2>3. /\ checked.live = TRUE /\ checked.window = q.window
        /\ checked.dsn = q.dsn /\ checked.todo = q.todo
        /\ checked.busy = {} /\ checked.timers = q.timers
        /\ checked.panic = FALSE
    BY <1>1, <1>2, <1>3, <2>1 DEF QMGR_QUEUE
  <2> HIDE DEF checked
  <2>4. Settled(t, checked)
    BY <1>2, <1>7, <2>1, <2>2, <2>3 DEF Settled, Sound
  <2>5. /\ Sound(t, revived) /\ revived.live = TRUE /\ revived.window > 0
        /\ revived.todo = q.todo /\ revived.busy = {}
    <3>1. CASE QMGR_QUEUE_THROTTLED(checked)
      BY <3>1, <1>3, <2>3, <2>4, SettledUnthrottle DEF Settled
    <3>2. CASE ~QMGR_QUEUE_THROTTLED(checked)
      BY <3>2, <1>3, <2>3, <2>4 DEF Settled, QMGR_QUEUE_THROTTLED, THROTTLED
    <3> QED
      BY <3>1, <3>2
  <2> HIDE DEF revived
  <2>6. Settled(t, paced) /\ paced.todo = q.todo /\ paced.busy = {}
    BY <2>5, SuspendSettled DEF QMGR_QUEUE_READY
  <2>7. paced.live = TRUE
    BY <2>5 DEF QMGR_QUEUE_READY, qmgr_queue_suspend, Sound, QMGR_QUEUE
  <2> HIDE DEF paced
  <2>8. qmgr_entry_done(t, q, e, crowded) = DiscardIfEmpty(t, paced, crowded)
    BY <1>8 DEF qmgr_entry_done, paced, revived, checked, taken
  <2>9. LET d == DiscardIfEmpty(t, paced, crowded)
        IN  Settled(t, d) /\ d.todo = paced.todo /\ d.busy = paced.busy
    BY <2>6, <2>7, DiscardSettled
  <2> QED
    BY <2>1, <2>6, <2>8, <2>9
<1>9. CASE ~RateDelay[t]
  <2>1. qmgr_entry_done(t, q, e, crowded) = DiscardIfEmpty(t, taken, crowded)
    BY <1>9 DEF qmgr_entry_done
  <2> HIDE DEF taken
  <2>2. LET d == DiscardIfEmpty(t, taken, crowded)
        IN  Settled(t, d) /\ d.todo = taken.todo /\ d.busy = taken.busy
    BY <1>2, <1>7, DiscardSettled
  <2> QED
    BY <1>2, <2>1, <2>2
<1> QED
  BY <1>8, <1>9

-----------------------------------------------------------------------------
(***************************************************************************)
(* The inductive invariant, for a queue function Q, a transport function T *)
(* and the static DSN buffer d.                                            *)
(***************************************************************************)
AllSound(Q) ==
    /\ Q \in [Queue -> QMGR_QUEUE]
    /\ \A q \in Queue : Sound(TransportOf(q), Q[q])

AllSettled(Q) ==
    /\ Q \in [Queue -> QMGR_QUEUE]
    /\ \A q \in Queue : Settled(TransportOf(q), Q[q])

Calm(tr) ==
    /\ tr \in QMGR_TRANSPORT
    /\ tr.panic = FALSE
    /\ tr.timer = tr.dead
    /\ (tr.dsn # NoDsn) <=> (tr.dead = TRUE)
    /\ tr.pending = tr.connecting
    /\ tr.pending <= MaxPend

AllCalm(T) ==
    /\ T \in [Transport -> QMGR_TRANSPORT]
    /\ \A t \in Transport : Calm(T[t])

\* Nothing waits for a dead transport.
Parked(Q, T) ==
    \A q \in Queue : T[TransportOf(q)].dead = TRUE => Q[q].todo = {}

\* A transport with a transport rate delay is connecting, or pausing, or
\* delivering one entry, or none of these; it can be dead only in the last
\* case, and lacks the rate lock only in the last case.
Reserved(tr) == tr.rate_lock = TRUE /\ tr.dead = FALSE

OneInFlight(t, Q, tr) ==
    XportRateDelay[t] =>
        /\ tr.connecting + tr.delayed <= 1
        /\ tr.connecting + tr.delayed > 0 =>
              Reserved(tr) /\ \A q \in QueuesOf(t) : Q[q].busy = {}
        /\ \A q \in QueuesOf(t) : Q[q].busy # {} => Reserved(tr)
        /\ \A q1, q2 \in QueuesOf(t) :
              \A e1 \in Q[q1].busy, e2 \in Q[q2].busy : q1 = q2 /\ e1 = e2

Good(Q, T, d) ==
    /\ AllSettled(Q)
    /\ AllCalm(T)
    /\ d \in Reported \cup {NoDsn}
    /\ Parked(Q, T)
    /\ \A t \in Transport : OneInFlight(t, Q, T[t])

IInv == Good(queue, transport, dsb)

LEMMA TransportOfType ==
    /\ \A q \in Queue : TransportOf(q) \in Transport
    /\ \A d \in Dsn : d \in Queue /\ TransportOf(d) = Retry
    /\ \A s \in Site : s \in Queue /\ TransportOf(s) = XportOf[s]
BY ConfigAssumption, DsnAssumption DEF TransportOf, Queue

LEMMA UpdateSettled ==
    ASSUME NEW Q, AllSettled(Q), NEW q \in Queue,
           NEW r, Settled(TransportOf(q), r)
    PROVE  AllSettled([Q EXCEPT ![q] = r])
<1>1. r \in QMGR_QUEUE
  BY DEF Settled, Sound
<1> QED
  BY <1>1 DEF AllSettled

LEMMA UpdateSound ==
    ASSUME NEW Q, AllSound(Q), NEW q \in Queue,
           NEW r, Sound(TransportOf(q), r)
    PROVE  AllSound([Q EXCEPT ![q] = r])
<1>1. r \in QMGR_QUEUE
  BY DEF Sound
<1> QED
  BY <1>1 DEF AllSound

LEMMA ErrorQueueSound ==
    ASSUME NEW Q, AllSound(Q), NEW T, NEW dsn \in Dsn
    PROVE  LET R == qmgr_error_queue(Q, T, dsn)
           IN  /\ AllSound(R)
               /\ \A q \in Queue : /\ R[q].todo = Q[q].todo
                                   /\ R[q].busy = Q[q].busy
                                   /\ R[q].window = Q[q].window
               /\ ~T[Retry].dead => R[dsn].live = TRUE
<1>1. /\ dsn \in Queue /\ TransportOf(dsn) = Retry /\ Retry \in Transport
      /\ Sound(Retry, Q[dsn])
  BY TransportOfType, ConfigAssumption DEF AllSound
<1> DEFINE r == qmgr_queue_create(Retry, Q[dsn])
<1>2. /\ Sound(Retry, r)
      /\ r.live = TRUE /\ r.window = Q[dsn].window
      /\ r.todo = Q[dsn].todo /\ r.busy = Q[dsn].busy
  BY <1>1, CreateSound
<1>3. qmgr_error_queue(Q, T, dsn)
        = IF T[Retry].dead THEN Q ELSE [Q EXCEPT ![dsn] = r]
  BY DEF qmgr_error_queue, qmgr_error_nexthop
<1> HIDE DEF r
<1>4. AllSound([Q EXCEPT ![dsn] = r])
  BY <1>1, <1>2, UpdateSound
<1>5. \A q \in Queue : [Q EXCEPT ![dsn] = r][q] = IF q = dsn THEN r ELSE Q[q]
  BY DEF AllSound
<1>6. CASE T[Retry].dead
  BY <1>3, <1>6
<1>7. CASE ~T[Retry].dead
  BY <1>1, <1>2, <1>3, <1>4, <1>5, <1>7
<1> QED
  BY <1>6, <1>7

LEMMA SettledIsSound ==
    ASSUME NEW Q
    PROVE  /\ AllSettled(Q) => AllSound(Q)
           /\ /\ AllSound(Q)
              /\ \A q \in Queue : Q[q].window = 0 => Q[q].todo = {}
              => AllSettled(Q)
BY DEF AllSettled, AllSound, Settled

LEMMA SinkSettled ==
    ASSUME NEW t \in Transport, NEW q, Sound(t, q), NEW M \in SUBSET Entry,
           q.live = TRUE, q.window # 0
    PROVE  LET r == [q EXCEPT !.todo = @ \cup M, !.panic = FALSE]
           IN  Settled(t, r) /\ r.busy = q.busy
<1> DEFINE r == [q EXCEPT !.todo = @ \cup M, !.panic = FALSE]
<1>1. r \in QMGR_QUEUE
  BY DEF Sound, QMGR_QUEUE
<1>2. /\ r.live = TRUE /\ r.window = q.window /\ r.dsn = q.dsn
      /\ r.busy = q.busy /\ r.timers = q.timers /\ r.panic = FALSE
  BY DEF Sound, QMGR_QUEUE
<1> QED
  BY <1>1, <1>2 DEF Settled, Sound

\* qmgr_defer_todo() and qmgr_defer_transport() leave nothing in the queues
\* S, whose entries reach the retry queue when retry(8) can take them.
Deferrable(Q, T, S, dsn) ==
    /\ AllSound(Q)
    /\ S \in SUBSET Queue
    /\ \A q \in Queue \ S : Q[q].window = 0 => Q[q].todo = {}
    /\ HasErrorQueue(Q, T, dsn) => dsn \notin S

Deferred(Q, T, S, dsn, R) ==
    /\ AllSettled(R)
    /\ \A q \in Queue : R[q].busy = Q[q].busy
    /\ \A q \in S : R[q].todo = {}
    /\ \A q \in Queue : (q \notin S /\ (q # dsn \/ T[Retry].dead)
                            => R[q].todo = Q[q].todo)

LEMMA DeferTodoSettled ==
    ASSUME NEW Q, NEW T, NEW S, NEW dsn \in Dsn, Deferrable(Q, T, S, dsn)
    PROVE  Deferred(Q, T, S, dsn, qmgr_defer_todo(Q, T, S, dsn))
<1> USE DEF Deferrable, Deferred
<1> DEFINE found == IF S = {} THEN Q ELSE qmgr_error_queue(Q, T, dsn)
           moving == UNION {Q[q].todo : q \in S}
           crowded == Crowded(found)
           drained == [q \in Queue |->
                         IF q \in S THEN TodoDone(TransportOf(q), found[q], crowded)
                         ELSE found[q]]
           sink == [found[dsn] EXCEPT
                      !.todo = @ \cup moving,
                      !.panic = @ \/ (moving # {} /\ dsn \in S)]
           R == qmgr_defer_todo(Q, T, S, dsn)
<1>1. /\ AllSound(found)
      /\ \A q \in Queue : /\ found[q].todo = Q[q].todo
                          /\ found[q].busy = Q[q].busy
                          /\ found[q].window = Q[q].window
      /\ S # {} /\ ~T[Retry].dead => found[dsn].live = TRUE
  <2>1. CASE S = {}
    BY <2>1
  <2>2. CASE S # {}
    <3>1. found = qmgr_error_queue(Q, T, dsn)
      BY <2>2
    <3> HIDE DEF found
    <3>2. LET E == qmgr_error_queue(Q, T, dsn)
          IN  /\ AllSound(E)
              /\ \A q \in Queue : /\ E[q].todo = Q[q].todo
                                  /\ E[q].busy = Q[q].busy
                                  /\ E[q].window = Q[q].window
              /\ ~T[Retry].dead => E[dsn].live = TRUE
      BY ErrorQueueSound, Zenon
    <3> QED
      BY <3>1, <3>2
  <2> QED
    BY <2>1, <2>2
<1>2. crowded \in BOOLEAN
  BY DEF Crowded
<1>3. R = IF S # {} /\ HasErrorQueue(Q, T, dsn)
          THEN [drained EXCEPT ![dsn] = sink] ELSE drained
  BY DEF qmgr_defer_todo, qmgr_error_nexthop
<1> HIDE DEF found, crowded, R
<1>4. \A q \in S : /\ Settled(TransportOf(q), drained[q])
                   /\ drained[q].todo = {}
                   /\ drained[q].busy = Q[q].busy
  <2> TAKE q \in S
  <2>1. Sound(TransportOf(q), found[q]) /\ TransportOf(q) \in Transport
    BY <1>1, TransportOfType DEF AllSound
  <2> DEFINE r == TodoDone(TransportOf(q), found[q], crowded)
  <2>2. Settled(TransportOf(q), r) /\ r.todo = {} /\ r.busy = found[q].busy
    BY <1>2, <2>1, TodoDoneSettled
  <2>3. drained[q] = r
    OBVIOUS
  <2> QED
    BY <1>1, <2>2, <2>3
<1>5. \A q \in Queue \ S : /\ Settled(TransportOf(q), drained[q])
                           /\ drained[q].todo = Q[q].todo
                           /\ drained[q].busy = Q[q].busy
  <2> TAKE q \in Queue \ S
  <2>1. drained[q] = found[q]
    OBVIOUS
  <2>2. Sound(TransportOf(q), found[q])
    BY <1>1 DEF AllSound
  <2>3. found[q].window = 0 => found[q].todo = {}
    BY <1>1
  <2> QED
    BY <1>1, <2>1, <2>2, <2>3 DEF Settled
<1>6. AllSettled(drained)
  <2> HIDE DEF drained
  <2>1. \A q \in Queue : Settled(TransportOf(q), drained[q])
    BY <1>4, <1>5
  <2>2. \A q \in Queue : drained[q] \in QMGR_QUEUE
    BY <2>1 DEF Settled, Sound
  <2>3. drained = [q \in Queue |-> drained[q]]
    BY DEF drained
  <2> QED
    BY <2>1, <2>2, <2>3 DEF AllSettled
<1>7. CASE ~(S # {} /\ HasErrorQueue(Q, T, dsn))
  <2> HIDE DEF drained
  <2> QED
    BY <1>3, <1>4, <1>5, <1>6, <1>7 DEF R
<1>8. CASE S # {} /\ HasErrorQueue(Q, T, dsn)
  <2>1. ~T[Retry].dead /\ Q[dsn].window # 0 /\ dsn \notin S
    BY <1>8 DEF HasErrorQueue, qmgr_error_nexthop, QMGR_QUEUE_THROTTLED, THROTTLED
  <2>2. /\ dsn \in Queue /\ TransportOf(dsn) = Retry /\ Retry \in Transport
        /\ Sound(Retry, found[dsn])
    BY <1>1, TransportOfType, ConfigAssumption DEF AllSound
  <2>3. moving \in SUBSET Entry
    BY DEF AllSound, QMGR_QUEUE
  <2> HIDE DEF moving
  <2>4. sink = [found[dsn] EXCEPT !.todo = @ \cup moving, !.panic = FALSE]
    BY <2>1, <2>2 DEF Sound
  <2>5. Settled(Retry, sink) /\ sink.busy = Q[dsn].busy
    <3>1. /\ found[dsn].live = TRUE /\ found[dsn].window # 0
          /\ found[dsn].busy = Q[dsn].busy
      BY <1>1, <1>8, <2>1, <2>2
    <3> DEFINE f == found[dsn]
               r == [f EXCEPT !.todo = @ \cup moving, !.panic = FALSE]
    <3> HIDE DEF f
    <3>2. Settled(Retry, r) /\ r.busy = f.busy
      BY <2>2, <2>3, <3>1, SinkSettled DEF f
    <3> QED
      BY <2>4, <3>1, <3>2 DEF f
  <2> HIDE DEF sink, drained
  <2>6. AllSettled([drained EXCEPT ![dsn] = sink])
    BY <1>6, <2>2, <2>5, UpdateSettled
  <2>7. R = [drained EXCEPT ![dsn] = sink]
    BY <1>3, <1>8
  <2>8. \A q \in Queue : R[q] = IF q = dsn THEN sink ELSE drained[q]
    BY <1>6, <2>7 DEF AllSettled
  <2> QED
    BY <1>4, <1>5, <2>1, <2>2, <2>5, <2>6, <2>7, <2>8 DEF R
<1> QED
  BY <1>7, <1>8

-----------------------------------------------------------------------------
(* Operations on one transport.                                            *)

LEMMA TransportUnthrottleCalm ==
    ASSUME NEW tr, tr \in QMGR_TRANSPORT,
           tr.panic = FALSE,
           tr.dead = FALSE => tr.timer = FALSE,
           (tr.dsn # NoDsn) <=> (tr.dead = TRUE),
           tr.pending = tr.connecting, tr.pending <= MaxPend
    PROVE  LET r == qmgr_transport_unthrottle(tr)
           IN  /\ Calm(r)
               /\ r.dead = FALSE /\ r.rate_lock = FALSE
               /\ r.connecting = tr.connecting /\ r.delayed = tr.delayed
<1> DEFINE r == qmgr_transport_unthrottle(tr)
<1>1. r \in QMGR_TRANSPORT
  BY DEF qmgr_transport_unthrottle, QMGR_TRANSPORT
<1>2. /\ r.dead = FALSE /\ r.rate_lock = FALSE
      /\ r.connecting = tr.connecting /\ r.delayed = tr.delayed
      /\ r.pending = tr.pending
  BY DEF qmgr_transport_unthrottle, QMGR_TRANSPORT
<1>3. r.dsn = NoDsn /\ r.timer = FALSE /\ r.panic = FALSE
  BY DEF qmgr_transport_unthrottle, QMGR_TRANSPORT
<1> QED
  BY <1>1, <1>2, <1>3 DEF Calm

LEMMA TransportThrottleCalm ==
    ASSUME NEW tr, Calm(tr), NEW dsn \in Dsn
    PROVE  LET r == qmgr_transport_throttle(tr, dsn)
           IN  /\ Calm(r)
               /\ r.dead = TRUE /\ r.rate_lock = tr.rate_lock
               /\ r.connecting = tr.connecting /\ r.delayed = tr.delayed
<1> DEFINE r == qmgr_transport_throttle(tr, dsn)
<1>1. dsn # NoDsn
  BY DsnAssumption
<1>2. CASE tr.dead
  <2>1. tr.dead = TRUE
    BY <1>2 DEF Calm, QMGR_TRANSPORT
  <2>2. r = tr
    BY <1>2 DEF qmgr_transport_throttle
  <2> QED
    BY <2>1, <2>2
<1>3. CASE ~tr.dead
  <2>1. r \in QMGR_TRANSPORT
    BY <1>3 DEF qmgr_transport_throttle, QMGR_TRANSPORT, Calm
  <2>2. /\ r.dead = TRUE /\ r.rate_lock = tr.rate_lock
        /\ r.connecting = tr.connecting /\ r.delayed = tr.delayed
        /\ r.pending = tr.pending /\ r.dsn = dsn /\ r.timer = TRUE
    BY <1>3 DEF qmgr_transport_throttle, QMGR_TRANSPORT, Calm
  <2>3. r.panic = FALSE
    BY <1>3 DEF qmgr_transport_throttle, QMGR_TRANSPORT, Calm
  <2> QED
    BY <1>1, <2>1, <2>2, <2>3 DEF Calm
<1> QED
  BY <1>2, <1>3

LEMMA TransportUpdateType ==
    ASSUME NEW tr \in QMGR_TRANSPORT, NEW p \in Nat, NEW c \in Nat,
           NEW d \in Nat, NEW lock \in BOOLEAN
    PROVE  /\ [tr EXCEPT !.pending = p, !.connecting = c, !.rate_lock = lock]
              \in QMGR_TRANSPORT
           /\ [tr EXCEPT !.connecting = c, !.pending = p] \in QMGR_TRANSPORT
           /\ [tr EXCEPT !.delayed = d] \in QMGR_TRANSPORT
           /\ [tr EXCEPT !.delayed = d, !.panic = FALSE] \in QMGR_TRANSPORT
BY DEF QMGR_TRANSPORT

LEMMA TransportAllocCalm ==
    ASSUME NEW tr, Calm(tr), tr.pending < MaxPend, NEW lock \in BOOLEAN
    PROVE  LET r == [tr EXCEPT !.pending = @ + 1, !.connecting = @ + 1,
                               !.rate_lock = lock]
           IN  /\ Calm(r)
               /\ r.dead = tr.dead /\ r.rate_lock = lock
               /\ r.connecting = tr.connecting + 1 /\ r.delayed = tr.delayed
<1> DEFINE r == [tr EXCEPT !.pending = @ + 1, !.connecting = @ + 1,
                           !.rate_lock = lock]
<1>1. tr \in QMGR_TRANSPORT
  BY DEF Calm
<1>2. r \in QMGR_TRANSPORT
  <2>1. tr.pending + 1 \in Nat /\ tr.connecting + 1 \in Nat
    BY <1>1 DEF QMGR_TRANSPORT
  <2> QED
    BY <1>1, <2>1, TransportUpdateType
<1>3. /\ r.dead = tr.dead /\ r.rate_lock = lock
      /\ r.connecting = tr.connecting + 1 /\ r.pending = tr.pending + 1
      /\ r.delayed = tr.delayed /\ r.dsn = tr.dsn
      /\ r.timer = tr.timer /\ r.panic = tr.panic
  BY <1>1 DEF QMGR_TRANSPORT
<1>4. tr.pending + 1 <= MaxPend
  BY <1>1, ConfigAssumption DEF QMGR_TRANSPORT
<1> HIDE DEF r
<1>5. Calm(r)
  BY <1>2, <1>3, <1>4 DEF Calm
<1> QED
  BY <1>3, <1>5 DEF r

LEMMA TransportArriveCalm ==
    ASSUME NEW tr, Calm(tr), tr.connecting > 0
    PROVE  LET r == [tr EXCEPT !.connecting = @ - 1, !.pending = @ - 1]
           IN  /\ Calm(r)
               /\ r.dead = tr.dead /\ r.rate_lock = tr.rate_lock
               /\ r.connecting = tr.connecting - 1 /\ r.delayed = tr.delayed
<1> DEFINE r == [tr EXCEPT !.connecting = @ - 1, !.pending = @ - 1]
<1>1. tr \in QMGR_TRANSPORT
  BY DEF Calm
<1>2. /\ tr.pending = tr.connecting /\ tr.pending <= MaxPend
      /\ tr.pending \in Nat /\ tr.connecting \in Nat
  BY <1>1 DEF Calm, QMGR_TRANSPORT
<1>3. tr.connecting - 1 \in Nat /\ tr.pending - 1 \in Nat
  BY <1>2
<1>4. r \in QMGR_TRANSPORT
  BY <1>1, <1>3, TransportUpdateType
<1>5. /\ r.dead = tr.dead /\ r.rate_lock = tr.rate_lock
      /\ r.connecting = tr.connecting - 1 /\ r.pending = tr.pending - 1
      /\ r.delayed = tr.delayed /\ r.dsn = tr.dsn
      /\ r.timer = tr.timer /\ r.panic = tr.panic
  BY <1>1 DEF QMGR_TRANSPORT
<1>6. tr.pending - 1 <= MaxPend
  BY <1>2, ConfigAssumption
<1> HIDE DEF r
<1>7. Calm(r)
  BY <1>4, <1>5, <1>6 DEF Calm
<1> QED
  BY <1>5, <1>7 DEF r

LEMMA TransportDelayCalm ==
    ASSUME NEW tr, Calm(tr), NEW d \in Nat
    PROVE  LET r == [tr EXCEPT !.delayed = d]
           IN  /\ Calm(r)
               /\ r.dead = tr.dead /\ r.rate_lock = tr.rate_lock
               /\ r.connecting = tr.connecting /\ r.delayed = d
<1> DEFINE r == [tr EXCEPT !.delayed = d]
<1>1. tr \in QMGR_TRANSPORT
  BY DEF Calm
<1>2. r \in QMGR_TRANSPORT
  BY <1>1, TransportUpdateType
<1>3. /\ r.dead = tr.dead /\ r.rate_lock = tr.rate_lock
      /\ r.connecting = tr.connecting /\ r.pending = tr.pending
      /\ r.delayed = d /\ r.dsn = tr.dsn
      /\ r.timer = tr.timer /\ r.panic = tr.panic
  BY <1>1 DEF QMGR_TRANSPORT
<1> HIDE DEF r
<1>4. Calm(r)
  BY <1>2, <1>3 DEF Calm
<1> QED
  BY <1>3, <1>4 DEF r

-----------------------------------------------------------------------------
(* How a step that concerns transport t preserves the invariant.           *)

LEMMA GoodUpdate ==
    ASSUME NEW Q, NEW T, NEW d, Good(Q, T, d),
           NEW R, AllSettled(R),
           NEW t \in Transport, NEW tr, Calm(tr),
           NEW d2 \in Reported \cup {NoDsn},
           \A q \in Queue : TransportOf(q) # t => R[q].busy = Q[q].busy,
           Parked(R, [T EXCEPT ![t] = tr]),
           OneInFlight(t, R, tr)
    PROVE  Good(R, [T EXCEPT ![t] = tr], d2)
<1> DEFINE T2 == [T EXCEPT ![t] = tr]
<1>1. T \in [Transport -> QMGR_TRANSPORT] /\ \A u \in Transport : Calm(T[u])
  BY DEF Good, AllCalm
<1>2. tr \in QMGR_TRANSPORT
  BY DEF Calm
<1>3. \A u \in Transport : T2[u] = IF u = t THEN tr ELSE T[u]
  BY <1>1
<1>4. T2 \in [Transport -> QMGR_TRANSPORT]
  BY <1>1, <1>2
<1>5. AllCalm(T2)
  BY <1>1, <1>3, <1>4 DEF AllCalm
<1>6. ASSUME NEW u \in Transport, u # t PROVE OneInFlight(u, R, T[u])
  <2>1. OneInFlight(u, Q, T[u])
    BY DEF Good
  <2>2. \A q \in QueuesOf(u) : R[q].busy = Q[q].busy
    BY <1>6 DEF QueuesOf
  <2> QED
    BY <2>1, <2>2 DEF OneInFlight
<1>7. \A u \in Transport : OneInFlight(u, R, T2[u])
  BY <1>3, <1>6
<1> QED
  BY <1>5, <1>7 DEF Good

\* A step that changes queues only, and no delivery under way.
LEMMA GoodQueues ==
    ASSUME NEW Q, NEW T, NEW d, Good(Q, T, d),
           NEW R, AllSettled(R),
           \A q \in Queue : R[q].busy = Q[q].busy,
           Parked(R, T)
    PROVE  Good(R, T, d)
<1>1. ASSUME NEW u \in Transport PROVE OneInFlight(u, R, T[u])
  <2>1. OneInFlight(u, Q, T[u])
    BY DEF Good
  <2>2. \A q \in QueuesOf(u) : R[q].busy = Q[q].busy
    BY DEF QueuesOf
  <2> QED
    BY <2>1, <2>2 DEF OneInFlight
<1> QED
  BY <1>1 DEF Good

LEMMA ParkedSame ==
    ASSUME NEW Q, NEW T \in [Transport -> QMGR_TRANSPORT], Parked(Q, T),
           NEW t \in Transport, NEW tr, tr.dead = TRUE => T[t].dead = TRUE
    PROVE  Parked(Q, [T EXCEPT ![t] = tr])
BY TransportOfType DEF Parked

\* A step that changes the state of one queue, and none of its entries.
LEMMA GoodOneQueue ==
    ASSUME NEW Q, NEW T, NEW d, Good(Q, T, d), NEW q \in Queue,
           NEW r, Settled(TransportOf(q), r),
           r.todo = Q[q].todo, r.busy = Q[q].busy
    PROVE  Good([Q EXCEPT ![q] = r], T, d)
<1> DEFINE R == [Q EXCEPT ![q] = r]
<1>1. AllSettled(Q) /\ Parked(Q, T)
  BY DEF Good
<1>2. \A p \in Queue : R[p] = IF p = q THEN r ELSE Q[p]
  BY <1>1 DEF AllSettled
<1>3. AllSettled(R)
  BY <1>1, UpdateSettled
<1> HIDE DEF R
<1>4. \A p \in Queue : R[p].busy = Q[p].busy /\ R[p].todo = Q[p].todo
  BY <1>2
<1>5. Parked(R, T)
  BY <1>1, <1>4 DEF Parked
<1>6. \A p \in Queue : R[p].busy = Q[p].busy
  BY <1>4
<1>7. Good(R, T, d)
  BY <1>3, <1>5, <1>6, GoodQueues
<1> QED
  BY <1>7 DEF R

\* The initial state, and the state after a restart.
LEMMA InitGood ==
    ASSUME NEW Q, NEW T,
           Q = [q \in Queue |-> NoQueue(TransportOf(q))],
           T = [t \in Transport |->
                  [dead |-> FALSE, rate_lock |-> FALSE, pending |-> 0,
                   connecting |-> 0, delayed |-> 0, dsn |-> NoDsn,
                   timer |-> FALSE, panic |-> FALSE]]
    PROVE  Good(Q, T, NoDsn)
<1> DEFINE tr == [dead |-> FALSE, rate_lock |-> FALSE, pending |-> 0,
                  connecting |-> 0, delayed |-> 0, dsn |-> NoDsn,
                  timer |-> FALSE, panic |-> FALSE]
<1>1. \A q \in Queue : Settled(TransportOf(q), Q[q])
  BY TransportOfType, NoQueueSound
<1>2. AllSettled(Q)
  <2>1. \A q \in Queue : NoQueue(TransportOf(q)) \in QMGR_QUEUE
    BY TransportOfType, NoQueueSound DEF Settled, Sound
  <2> QED
    BY <1>1, <2>1 DEF AllSettled
<1>3. \A q \in Queue : Q[q].todo = {} /\ Q[q].busy = {}
  BY DEF NoQueue
<1>4. /\ tr.dead = FALSE /\ tr.pending = 0 /\ tr.connecting = 0
      /\ tr.delayed = 0 /\ tr.dsn = NoDsn /\ tr.timer = FALSE
      /\ tr.panic = FALSE
  OBVIOUS
<1>5. tr \in QMGR_TRANSPORT
  BY DEF QMGR_TRANSPORT
<1> HIDE DEF tr
<1>6. T = [t \in Transport |-> tr]
  BY DEF tr
<1>a. 0 <= MaxPend
  BY ConfigAssumption
<1>7. Calm(tr)
  BY <1>4, <1>5, <1>a DEF Calm
<1>8. AllCalm(T)
  BY <1>5, <1>6, <1>7 DEF AllCalm
<1>9. Parked(Q, T)
  BY <1>3 DEF Parked
<1>10. \A t \in Transport : OneInFlight(t, Q, T[t])
  <2> TAKE t \in Transport
  <2>1. T[t] = tr
    BY <1>6
  <2>2. \A q \in QueuesOf(t) : Q[q].busy = {}
    BY <1>3 DEF QueuesOf
  <2> QED
    BY <1>4, <2>1, <2>2 DEF OneInFlight
<1> QED
  BY <1>2, <1>8, <1>9, <1>10 DEF Good

-----------------------------------------------------------------------------
(* One lemma per action: each preserves the invariant.                     *)

LEMMA AllocStep ==
    ASSUME IInv, NEW t \in Transport, qmgr_transport_alloc(t)
    PROVE  IInv'
<1> DEFINE old == transport[t]
           lock == old.rate_lock \/ XportRateDelay[t]
           tr == [old EXCEPT !.pending = @ + 1, !.connecting = @ + 1,
                             !.rate_lock = lock]
<1>1. /\ Calm(old) /\ transport \in [Transport -> QMGR_TRANSPORT]
      /\ OneInFlight(t, queue, old) /\ Parked(queue, transport)
      /\ AllSettled(queue) /\ dsb \in Reported \cup {NoDsn}
  BY DEF IInv, Good, AllCalm
<1>2. /\ ~old.dead /\ ~old.rate_lock /\ old.pending < MaxPend
      /\ transport' = [transport EXCEPT ![t] = tr]
      /\ queue' = queue /\ dsb' = dsb
  BY DEF qmgr_transport_alloc, qmgr_transport_select
<1>3. Calm(old)
  BY <1>1
<1>4. /\ old.dead = FALSE /\ old.rate_lock = FALSE
      /\ old.connecting \in Nat /\ old.delayed \in Nat
  BY <1>2, <1>3 DEF Calm, QMGR_TRANSPORT
<1>5. lock \in BOOLEAN /\ (XportRateDelay[t] => lock = TRUE)
  BY <1>4, ConfigAssumption
<1> HIDE DEF old, lock
<1>6. /\ Calm(tr) /\ tr.dead = old.dead /\ tr.rate_lock = lock
      /\ tr.connecting = old.connecting + 1 /\ tr.delayed = old.delayed
  BY <1>2, <1>3, <1>5, TransportAllocCalm
<1> HIDE DEF tr
<1>7. OneInFlight(t, queue, tr)
  <2>1. OneInFlight(t, queue, old)
    BY <1>1
  <2> QED
    BY <2>1, <1>4, <1>5, <1>6 DEF OneInFlight, Reserved
<1>8. Parked(queue, [transport EXCEPT ![t] = tr])
  BY <1>1, <1>6, ParkedSame DEF old
<1>9. Good(queue, [transport EXCEPT ![t] = tr], dsb)
  BY <1>1, <1>6, <1>7, <1>8, GoodUpdate DEF IInv
<1> QED
  BY <1>2, <1>9 DEF IInv

LEMMA DeliverStep ==
    ASSUME IInv, NEW t \in Transport, NEW tr, Calm(tr),
           tr.dead = transport[t].dead,
           XportRateDelay[t] =>
               /\ tr.connecting = 0 /\ tr.delayed = 0 /\ Reserved(tr)
               /\ \A q \in QueuesOf(t) : queue[q].busy = {},
           qmgr_deliver(t, tr)
    PROVE  IInv'
<1>1. /\ transport \in [Transport -> QMGR_TRANSPORT]
      /\ AllSettled(queue) /\ Parked(queue, transport)
      /\ dsb \in Reported \cup {NoDsn} /\ dsb' = dsb
  BY DEF IInv, Good, AllCalm, qmgr_deliver
<1>2. ASSUME NEW T, T = [transport EXCEPT
                            ![t] = qmgr_transport_throttle(tr, Unavailable)],
             transport' = T,
             queue' = qmgr_defer_transport(queue, T, t, Unavailable)
      PROVE  IInv'
  <2> DEFINE dead == qmgr_transport_throttle(tr, Unavailable)
             S == {q \in QueuesOf(t) : queue[q].live}
             R == qmgr_defer_todo(queue, T, S, Unavailable)
  <2>1. Unavailable \in Dsn
    BY DEF Dsn
  <2>2. /\ Calm(dead) /\ dead.dead = TRUE
        /\ dead.connecting = tr.connecting /\ dead.delayed = tr.delayed
    BY <2>1, TransportThrottleCalm
  <2> HIDE DEF dead
  <2>3. \A u \in Transport : T[u] = IF u = t THEN dead ELSE transport[u]
    BY <1>1, <1>2 DEF dead
  <2>4. TransportOf(Unavailable) = Retry /\ Retry \in Transport
    BY <2>1, TransportOfType, ConfigAssumption
  <2>5. HasErrorQueue(queue, T, Unavailable) => Unavailable \notin S
    BY <2>2, <2>3, <2>4 DEF HasErrorQueue, QueuesOf
  <2>6. S \in SUBSET Queue
    BY DEF QueuesOf
  <2>7. AllSound(queue) /\ \A q \in Queue : queue[q].window = 0 => queue[q].todo = {}
    BY <1>1, SettledIsSound DEF AllSettled, Settled
  <2>8. \A q \in Queue : queue[q].live \/ queue[q].todo = {}
    BY <1>1 DEF AllSettled, Settled, Sound, QMGR_QUEUE
  <2>9. \A q \in Queue : q \in S <=> TransportOf(q) = t /\ queue[q].live
    BY DEF QueuesOf
  <2> HIDE DEF S
  <2>a. Deferrable(queue, T, S, Unavailable)
    BY <2>5, <2>6, <2>7 DEF Deferrable
  <2>b. Deferred(queue, T, S, Unavailable, R)
    BY <2>1, <2>a, DeferTodoSettled
  <2> HIDE DEF R
  <2>10. /\ AllSettled(R)
         /\ \A q \in Queue : R[q].busy = queue[q].busy
         /\ \A q \in S : R[q].todo = {}
         /\ \A q \in Queue : (q \notin S /\ (q # Unavailable \/ T[Retry].dead)
                                 => R[q].todo = queue[q].todo)
    BY <2>b DEF Deferred
  <2>11. queue' = R
    BY <1>2 DEF qmgr_defer_transport, S, R
  <2>12. Parked(R, T)
    <3> SUFFICES ASSUME NEW q \in Queue, T[TransportOf(q)].dead = TRUE
                 PROVE  R[q].todo = {}
      BY DEF Parked
    <3>1. TransportOf(q) \in Transport
      BY TransportOfType
    <3>2. CASE q \in S
      BY <3>2, <2>10
    <3>3. CASE q \notin S
      <4>1. q # Unavailable \/ T[Retry].dead
        BY <2>4
      <4>2. R[q].todo = queue[q].todo
        BY <2>10, <3>3, <4>1
      <4>3. queue[q].todo = {}
        BY <1>1, <2>3, <2>8, <2>9, <3>1, <3>3 DEF Parked
      <4> QED
        BY <4>2, <4>3
    <3> QED
      BY <3>2, <3>3
  <2>13. OneInFlight(t, R, dead)
    <3>1. \A q \in QueuesOf(t) : R[q].busy = queue[q].busy
      BY <2>10 DEF QueuesOf
    <3> QED
      BY <3>1, <2>2 DEF OneInFlight
  <2>14. T = [transport EXCEPT ![t] = dead]
    BY <1>2 DEF dead
  <2>15. Good(R, T, dsb)
    BY <1>1, <2>2, <2>10, <2>12, <2>13, <2>14, GoodUpdate, ZenonT(30) DEF IInv
  <2> QED
    BY <1>1, <1>2, <2>11, <2>15 DEF IInv
<1>3. Parked(queue, [transport EXCEPT ![t] = tr])
  BY <1>1, ParkedSame
<1>4. ASSUME transport' = [transport EXCEPT ![t] = tr], queue' = queue
      PROVE  IInv'
  <2>1. OneInFlight(t, queue, tr)
    BY DEF OneInFlight
  <2>2. Good(queue, [transport EXCEPT ![t] = tr], dsb)
    BY <1>1, <1>3, <2>1, GoodUpdate DEF IInv
  <2> QED
    BY <1>1, <1>4, <2>2 DEF IInv
<1>5. ASSUME NEW qe \in Selectable(t),
             transport' = [transport EXCEPT ![t] = tr],
             queue' = [queue EXCEPT ![qe[1]] = qmgr_entry_select(@, qe[2])]
      PROVE  IInv'
  <2> DEFINE q == qe[1]
             e == qe[2]
             r == qmgr_entry_select(queue[q], e)
             R == [queue EXCEPT ![q] = r]
  <2>1. /\ q \in Queue /\ TransportOf(q) = t /\ q \in QueuesOf(t)
        /\ e \in queue[q].todo /\ queue[q].live
        /\ queue[q].window > Cardinality(queue[q].busy)
    BY <1>5 DEF Selectable, QueuesOf
  <2>2. Settled(t, queue[q]) /\ queue[q].live = TRUE
    BY <1>1, <2>1 DEF AllSettled, QMGR_QUEUE
  <2>a. Eligible(queue[q], e)
    BY <2>1, <2>2 DEF Eligible
  <2> HIDE DEF q, e
  <2>3. /\ Settled(t, r)
        /\ r.todo = queue[q].todo \ {e} /\ r.busy = queue[q].busy \cup {e}
    BY <2>2, <2>a, EntrySelectSettled
  <2> HIDE DEF r
  <2>4. AllSettled(R)
    BY <1>1, <2>1, <2>3, UpdateSettled
  <2>5. \A p \in Queue : R[p] = IF p = q THEN r ELSE queue[p]
    BY <1>1 DEF AllSettled
  <2>6. queue' = R
    BY <1>5 DEF q, e, r
  <2> HIDE DEF R
  <2>7. Parked(R, [transport EXCEPT ![t] = tr])
    BY <1>3, <2>3, <2>5 DEF Parked
  <2>8. \A p \in QueuesOf(t) : R[p].busy = IF p = q THEN r.busy ELSE queue[p].busy
    BY <2>5 DEF QueuesOf
  <2>9. OneInFlight(t, R, tr)
    <3> SUFFICES ASSUME XportRateDelay[t]
                 PROVE  /\ tr.connecting + tr.delayed = 0
                        /\ \A p \in QueuesOf(t) : R[p].busy # {} => Reserved(tr)
                        /\ \A q1, q2 \in QueuesOf(t) :
                             \A e1 \in R[q1].busy, e2 \in R[q2].busy :
                                q1 = q2 /\ e1 = e2
      BY DEF OneInFlight
    <3>1. \A p \in QueuesOf(t) : R[p].busy = IF p = q THEN {e} ELSE {}
      BY <2>1, <2>3, <2>8
    <3> QED
      BY <3>1
  <2>10. \A p \in Queue : TransportOf(p) # t => R[p].busy = queue[p].busy
    BY <2>1, <2>5
  <2>11. Good(R, [transport EXCEPT ![t] = tr], dsb)
    BY <1>1, <2>4, <2>7, <2>9, <2>10, GoodUpdate DEF IInv
  <2> QED
    BY <1>1, <1>5, <2>6, <2>11 DEF IInv
<1> QED
  BY <1>2, <1>4, <1>5 DEF qmgr_deliver, Queues

LEMMA EventStep ==
    ASSUME IInv, NEW t \in Transport, qmgr_transport_event(t)
    PROVE  IInv'
<1> DEFINE old == transport[t]
           tr == [old EXCEPT !.connecting = @ - 1, !.pending = @ - 1]
<1>1. /\ transport \in [Transport -> QMGR_TRANSPORT]
      /\ AllSettled(queue) /\ Parked(queue, transport)
      /\ dsb \in Reported \cup {NoDsn}
  BY DEF IInv, Good, AllCalm
<1>2. Calm(old) /\ OneInFlight(t, queue, old)
  BY DEF IInv, Good, AllCalm
<1>3. old.connecting > 0
  BY DEF qmgr_transport_event
<1>4. CASE ~XportRateDelay[t]
  <2>1. qmgr_deliver(t, tr)
    BY <1>4 DEF qmgr_transport_event
  <2> HIDE DEF old
  <2>2. Calm(tr) /\ tr.dead = old.dead
    BY <1>2, <1>3, TransportArriveCalm
  <2> HIDE DEF tr
  <2> QED
    BY <1>4, <2>1, <2>2, DeliverStep DEF old
<1>5. CASE XportRateDelay[t]
  <2> DEFINE r == [tr EXCEPT !.delayed = @ + 1, !.panic = @ \/ ~tr.rate_lock]
  <2>1. /\ transport' = [transport EXCEPT ![t] = r]
        /\ queue' = queue /\ dsb' = dsb
    BY <1>5 DEF qmgr_transport_event
  <2> HIDE DEF old
  <2>2. /\ Calm(tr) /\ tr.dead = old.dead /\ tr.rate_lock = old.rate_lock
        /\ tr.connecting = old.connecting - 1 /\ tr.delayed = old.delayed
    BY <1>2, <1>3, TransportArriveCalm
  <2>3. old.connecting \in Nat /\ old.delayed \in Nat
    BY <1>2 DEF Calm, QMGR_TRANSPORT
  <2>4. /\ old.connecting + old.delayed <= 1 /\ Reserved(old)
        /\ \A q \in QueuesOf(t) : queue[q].busy = {}
    BY <1>2, <1>3, <1>5, <2>3 DEF OneInFlight
  <2> HIDE DEF tr
  <2>5. tr.panic = FALSE /\ tr.rate_lock = TRUE /\ tr \in QMGR_TRANSPORT
    BY <2>2, <2>4 DEF Reserved, Calm
  <2>6. r = [tr EXCEPT !.delayed = tr.delayed + 1]
    BY <2>5 DEF QMGR_TRANSPORT
  <2>7. tr.delayed + 1 \in Nat
    BY <2>2, <2>3
  <2>8. /\ Calm(r) /\ r.dead = tr.dead /\ r.rate_lock = tr.rate_lock
        /\ r.connecting = tr.connecting /\ r.delayed = tr.delayed + 1
    BY <2>2, <2>6, <2>7, TransportDelayCalm
  <2> HIDE DEF r
  <2>9. r.connecting + r.delayed <= 1 /\ Reserved(r)
    BY <1>3, <2>2, <2>3, <2>4, <2>8 DEF Reserved
  <2>10. OneInFlight(t, queue, r)
    BY <2>4, <2>9 DEF OneInFlight
  <2>11. Parked(queue, [transport EXCEPT ![t] = r])
    BY <1>1, <2>2, <2>8, ParkedSame DEF old
  <2>12. Good(queue, [transport EXCEPT ![t] = r], dsb)
    BY <1>1, <2>8, <2>10, <2>11, GoodUpdate DEF IInv
  <2> QED
    BY <2>1, <2>12 DEF IInv
<1> QED
  BY <1>4, <1>5

LEMMA RateEventStep ==
    ASSUME IInv, NEW t \in Transport, qmgr_transport_rate_event(t)
    PROVE  IInv'
<1> DEFINE old == transport[t]
           d == old.delayed - 1
           tr == [old EXCEPT !.delayed = d]
<1>1. Calm(old) /\ OneInFlight(t, queue, old)
  BY DEF IInv, Good, AllCalm
<1>2. old.delayed > 0 /\ qmgr_deliver(t, tr)
  BY DEF qmgr_transport_rate_event
<1> HIDE DEF old
<1>3. old.connecting \in Nat /\ old.delayed \in Nat
  BY <1>1 DEF Calm, QMGR_TRANSPORT
<1>4. d \in Nat
  BY <1>2, <1>3
<1> HIDE DEF d
<1>5. /\ Calm(tr) /\ tr.dead = old.dead /\ tr.rate_lock = old.rate_lock
      /\ tr.connecting = old.connecting /\ tr.delayed = d
  BY <1>1, <1>4, TransportDelayCalm
<1>6. ASSUME XportRateDelay[t]
      PROVE  /\ tr.connecting = 0 /\ tr.delayed = 0 /\ Reserved(tr)
             /\ \A q \in QueuesOf(t) : queue[q].busy = {}
  <2>1. /\ old.connecting + old.delayed <= 1 /\ Reserved(old)
        /\ \A q \in QueuesOf(t) : queue[q].busy = {}
    BY <1>1, <1>2, <1>3, <1>6 DEF OneInFlight
  <2> QED
    BY <1>2, <1>3, <1>5, <2>1 DEF Reserved, d
<1> HIDE DEF tr
<1> QED
  BY <1>2, <1>5, <1>6, DeliverStep DEF old

LEMMA TransportTimerStep ==
    ASSUME IInv, NEW t \in Transport, qmgr_transport_unthrottle_wrapper(t)
    PROVE  IInv'
<1> DEFINE old == transport[t]
           fired == [old EXCEPT !.timer = FALSE]
           tr == qmgr_transport_unthrottle(fired)
<1>1. /\ transport \in [Transport -> QMGR_TRANSPORT]
      /\ AllSettled(queue) /\ Parked(queue, transport)
      /\ dsb \in Reported \cup {NoDsn}
  BY DEF IInv, Good, AllCalm
<1>2. Calm(old) /\ OneInFlight(t, queue, old)
  BY DEF IInv, Good, AllCalm
<1>3. /\ old.timer
      /\ transport' = [transport EXCEPT ![t] = tr]
      /\ queue' = queue /\ dsb' = dsb
  BY DEF qmgr_transport_unthrottle_wrapper
<1> HIDE DEF old
<1>4. old.dead = TRUE /\ old.connecting \in Nat /\ old.delayed \in Nat
  BY <1>2, <1>3 DEF Calm, QMGR_TRANSPORT
<1>5. fired \in QMGR_TRANSPORT
  BY <1>2 DEF Calm, QMGR_TRANSPORT
<1>6. /\ fired.panic = FALSE /\ fired.timer = FALSE /\ fired.dead = TRUE
      /\ fired.dsn = old.dsn /\ fired.pending = old.pending
      /\ fired.connecting = old.connecting /\ fired.delayed = old.delayed
  BY <1>2, <1>4 DEF Calm, QMGR_TRANSPORT
<1> HIDE DEF fired
<1>7. /\ fired.dsn # NoDsn /\ fired.pending = fired.connecting
      /\ fired.pending <= MaxPend
  BY <1>2, <1>4, <1>6 DEF Calm
<1>8. /\ Calm(tr) /\ tr.dead = FALSE
      /\ tr.connecting = fired.connecting /\ tr.delayed = fired.delayed
  BY <1>5, <1>6, <1>7, TransportUnthrottleCalm
<1> HIDE DEF tr
<1>9. OneInFlight(t, queue, tr)
  BY <1>2, <1>4, <1>6, <1>8 DEF OneInFlight, Reserved
<1>10. Parked(queue, [transport EXCEPT ![t] = tr])
  BY <1>1, <1>8, ParkedSame
<1>11. Good(queue, [transport EXCEPT ![t] = tr], dsb)
  BY <1>1, <1>8, <1>9, <1>10, GoodUpdate DEF IInv
<1> QED
  BY <1>3, <1>11 DEF IInv

LEMMA QueueTimerStep ==
    ASSUME IInv, NEW q \in Queue, qmgr_queue_unthrottle_wrapper(q)
    PROVE  IInv'
<1> DEFINE t == TransportOf(q)
           old == queue[q]
           fired == [old EXCEPT !.timers = @ \ {"unthrottle"},
                                !.panic = @ \/ ~old.live]
           woken == qmgr_queue_unthrottle(t, fired)
           r == DoneIfIdle(t, woken)
<1>1. Settled(t, old) /\ t \in Transport
  BY TransportOfType DEF IInv, Good, AllSettled
<1>2. /\ "unthrottle" \in old.timers
      /\ queue' = [queue EXCEPT ![q] = r]
      /\ transport' = transport /\ dsb' = dsb
  BY DEF qmgr_queue_unthrottle_wrapper, Queues
<1> HIDE DEF old, t
<1>3. /\ old.live = TRUE /\ old.window = 0 /\ old.panic = FALSE
      /\ "resume" \notin old.timers /\ old.dsn # NoDsn
      /\ old \in QMGR_QUEUE
  BY <1>1, <1>2 DEF Settled, Sound
<1>4. Limited(t, 0) /\ Limited(t, Cardinality(old.busy))
  BY <1>1, <1>3 DEF Settled, Sound
<1>5. fired \in QMGR_QUEUE
  BY <1>3 DEF QMGR_QUEUE
<1>6. /\ fired.live = TRUE /\ fired.window = 0 /\ fired.panic = FALSE
      /\ fired.timers = old.timers \ {"unthrottle"} /\ fired.dsn = old.dsn
      /\ fired.todo = old.todo /\ fired.busy = old.busy
  BY <1>3 DEF QMGR_QUEUE
<1> HIDE DEF fired
<1>7. /\ fired.panic = FALSE /\ fired.live = TRUE /\ fired.window >= 0
      /\ "resume" \notin fired.timers
      /\ fired.window > 0 => "unthrottle" \notin fired.timers
      /\ (fired.dsn # NoDsn) <=> (fired.window = 0)
      /\ Limited(t, fired.window) /\ Limited(t, Cardinality(fired.busy))
  BY <1>3, <1>4, <1>6
<1>8. /\ Settled(t, woken)
      /\ woken.todo = fired.todo /\ woken.busy = fired.busy
  BY <1>1, <1>5, <1>7, UnthrottleSound
<1> HIDE DEF woken
<1>9. Settled(t, r) /\ r.todo = old.todo /\ r.busy = old.busy
  BY <1>1, <1>6, <1>8, DoneIfIdleSettled
<1> HIDE DEF r
<1>10. Good([queue EXCEPT ![q] = r], transport, dsb)
  BY <1>9, GoodOneQueue DEF IInv, old, t
<1> QED
  BY <1>2, <1>10 DEF IInv

LEMMA ResumeStep ==
    ASSUME IInv, NEW q \in Queue, qmgr_queue_resume_event(q)
    PROVE  IInv'
<1> DEFINE t == TransportOf(q)
           old == queue[q]
           fired == [old EXCEPT !.panic = @ \/ ~old.live]
           r == qmgr_queue_resume(t, fired)
<1>1. Settled(t, old) /\ t \in Transport
  BY TransportOfType DEF IInv, Good, AllSettled
<1>2. /\ "resume" \in old.timers
      /\ queue' = [queue EXCEPT ![q] = r]
      /\ transport' = transport /\ dsb' = dsb
  BY DEF qmgr_queue_resume_event, Queues
<1> HIDE DEF old, t
<1>3. /\ old.live = TRUE /\ old.window = -1 /\ old.panic = FALSE
      /\ old \in QMGR_QUEUE
  BY <1>1, <1>2 DEF Settled, Sound
<1>4. fired \in QMGR_QUEUE
  BY <1>3 DEF QMGR_QUEUE
<1>5. /\ fired.live = TRUE /\ fired.window = -1 /\ fired.panic = FALSE
      /\ fired.timers = old.timers /\ fired.dsn = old.dsn
      /\ fired.todo = old.todo /\ fired.busy = old.busy
  BY <1>3 DEF QMGR_QUEUE
<1> HIDE DEF fired
<1>6. Sound(t, fired)
  BY <1>1, <1>3, <1>4, <1>5 DEF Settled, Sound
<1>7. Settled(t, r) /\ r.todo = old.todo /\ r.busy = old.busy
  BY <1>1, <1>5, <1>6, ResumeSettled
<1> HIDE DEF r
<1>8. Good([queue EXCEPT ![q] = r], transport, dsb)
  BY <1>7, GoodOneQueue DEF IInv, old, t
<1> QED
  BY <1>2, <1>8 DEF IInv

LEMMA AbortStep ==
    ASSUME qmgr_abort
    PROVE  IInv'
<1>1. Good(queue', transport', NoDsn)
  BY InitGood DEF qmgr_abort
<1> QED
  BY <1>1 DEF IInv, qmgr_abort

LEMMA EnableQueueSettled ==
    ASSUME NEW t \in Transport, NEW q, Settled(t, q)
    PROVE  LET r == qmgr_enable_queue(t, q)
           IN  Settled(t, r) /\ r.todo = q.todo /\ r.busy = q.busy
<1> DEFINE woken == IF QMGR_QUEUE_THROTTLED(q)
                    THEN qmgr_queue_unthrottle(t, q) ELSE q
<1>1. CASE ~q.live
  BY <1>1 DEF qmgr_enable_queue
<1>2. CASE q.live
  <2>1. q.live = TRUE
    BY <1>2 DEF Settled, Sound, QMGR_QUEUE
  <2>2. Settled(t, woken) /\ woken.todo = q.todo /\ woken.busy = q.busy
    <3>1. CASE QMGR_QUEUE_THROTTLED(q)
      <4>1. Sound(t, q) /\ q.window >= 0
        BY <3>1 DEF Settled, QMGR_QUEUE_THROTTLED, THROTTLED
      <4> QED
        BY <2>1, <3>1, <4>1, SettledUnthrottle
    <3>2. CASE ~QMGR_QUEUE_THROTTLED(q)
      BY <3>2
    <3> QED
      BY <3>1, <3>2
  <2> HIDE DEF woken
  <2>3. LET r == DoneIfIdle(t, woken)
        IN  Settled(t, r) /\ r.todo = woken.todo /\ r.busy = woken.busy
    BY <2>2, DoneIfIdleSettled
  <2>4. qmgr_enable_queue(t, q) = DoneIfIdle(t, woken)
    BY <1>2 DEF qmgr_enable_queue, woken
  <2> QED
    BY <2>2, <2>3, <2>4
<1> QED
  BY <1>1, <1>2

\* Reviving a dead transport; with a transport rate delay, a dead transport
\* has nothing in flight, so dropping its rate lock is harmless.
LEMMA ReviveGood ==
    ASSUME NEW Q, NEW t, NEW tr, Calm(tr), OneInFlight(t, Q, tr), tr.dead
    PROVE  LET r == qmgr_transport_unthrottle(tr)
           IN  Calm(r) /\ OneInFlight(t, Q, r) /\ r.dead = FALSE
<1> DEFINE r == qmgr_transport_unthrottle(tr)
<1>1. /\ tr \in QMGR_TRANSPORT /\ tr.panic = FALSE /\ tr.dead = TRUE
      /\ tr.dsn # NoDsn /\ tr.pending = tr.connecting /\ tr.pending <= MaxPend
      /\ tr.connecting \in Nat /\ tr.delayed \in Nat
  BY DEF Calm, QMGR_TRANSPORT
<1>2. /\ Calm(r) /\ r.dead = FALSE
      /\ r.connecting = tr.connecting /\ r.delayed = tr.delayed
  BY <1>1, TransportUnthrottleCalm
<1> HIDE DEF r
<1>3. OneInFlight(t, Q, r)
  BY <1>1, <1>2 DEF OneInFlight, Reserved
<1> QED
  BY <1>2, <1>3 DEF r

LEMMA EnableStep ==
    ASSUME IInv, qmgr_enable_all
    PROVE  IInv'
<1> DEFINE T == [t \in Transport |->
                   IF transport[t].dead
                   THEN qmgr_transport_unthrottle(transport[t])
                   ELSE transport[t]]
           R == [q \in Queue |-> qmgr_enable_queue(TransportOf(q), queue[q])]
<1>1. transport' = T /\ queue' = R /\ dsb' = dsb
  BY DEF qmgr_enable_all, Queues
<1>2. ASSUME NEW t \in Transport
      PROVE  /\ Calm(T[t]) /\ OneInFlight(t, queue, T[t])
             /\ T[t].dead = FALSE
  <2>1. Calm(transport[t]) /\ OneInFlight(t, queue, transport[t])
    BY DEF IInv, Good, AllCalm
  <2>2. CASE transport[t].dead
    <3>1. T[t] = qmgr_transport_unthrottle(transport[t])
      BY <2>2
    <3> HIDE DEF T
    <3> QED
      BY <2>1, <2>2, <3>1, ReviveGood
  <2>3. CASE ~transport[t].dead
    <3>1. T[t] = transport[t]
      BY <2>3
    <3> HIDE DEF T
    <3>2. transport[t].dead = FALSE
      BY <2>1, <2>3 DEF Calm, QMGR_TRANSPORT
    <3> QED
      BY <2>1, <3>1, <3>2
  <2> QED
    BY <2>2, <2>3
<1>3. T \in [Transport -> QMGR_TRANSPORT]
  <2>1. \A t \in Transport : T[t] \in QMGR_TRANSPORT
    BY <1>2 DEF Calm
  <2>2. T = [t \in Transport |-> T[t]]
    OBVIOUS
  <2> HIDE DEF T
  <2> QED
    BY <2>1, <2>2
<1>4. ASSUME NEW q \in Queue
      PROVE  /\ Settled(TransportOf(q), R[q])
             /\ R[q].todo = queue[q].todo /\ R[q].busy = queue[q].busy
  <2>1. Settled(TransportOf(q), queue[q]) /\ TransportOf(q) \in Transport
    BY TransportOfType DEF IInv, Good, AllSettled
  <2>2. R[q] = qmgr_enable_queue(TransportOf(q), queue[q])
    OBVIOUS
  <2> HIDE DEF R
  <2> QED
    BY <2>1, <2>2, EnableQueueSettled
<1>5. AllSettled(R)
  <2>1. \A q \in Queue : R[q] \in QMGR_QUEUE
    BY <1>4 DEF Settled, Sound
  <2>2. R = [q \in Queue |-> R[q]]
    OBVIOUS
  <2> HIDE DEF R
  <2> QED
    BY <1>4, <2>1, <2>2 DEF AllSettled
<1> HIDE DEF T, R
<1>6. AllCalm(T) /\ Parked(R, T)
  BY <1>2, <1>3, TransportOfType DEF AllCalm, Parked
<1>7. ASSUME NEW t \in Transport PROVE OneInFlight(t, R, T[t])
  <2>1. OneInFlight(t, queue, T[t])
    BY <1>2
  <2>2. \A q \in QueuesOf(t) : R[q].busy = queue[q].busy
    BY <1>4 DEF QueuesOf
  <2> QED
    BY <2>1, <2>2 DEF OneInFlight
<1>8. Good(R, T, dsb)
  BY <1>5, <1>6, <1>7 DEF IInv, Good
<1> QED
  BY <1>1, <1>8 DEF IInv

LEMMA GoodEntryCreate ==
    ASSUME NEW Q, NEW T, NEW d, Good(Q, T, d), NEW q \in Queue, NEW e \in Entry,
           Q[q].live = TRUE, Q[q].window # 0, ~T[TransportOf(q)].dead
    PROVE  Good([Q EXCEPT ![q] = qmgr_entry_create(@, e)], T, d)
<1> DEFINE old == Q[q]
           t == TransportOf(q)
           r == qmgr_entry_create(old, e)
           R == [Q EXCEPT ![q] = r]
<1>1. AllSettled(Q) /\ Parked(Q, T) /\ Settled(t, old) /\ t \in Transport
  BY TransportOfType DEF Good, AllSettled
<1>2. old.live = TRUE /\ old.window # 0
  OBVIOUS
<1> HIDE DEF old
<1>3. Settled(t, r) /\ r.busy = old.busy
  BY <1>1, <1>2, EntryCreateSettled
<1> HIDE DEF r
<1>4. AllSettled(R)
  BY <1>1, <1>3, UpdateSettled
<1>5. \A p \in Queue : R[p] = IF p = q THEN r ELSE Q[p]
  BY <1>1 DEF AllSettled
<1>6. R = [Q EXCEPT ![q] = qmgr_entry_create(@, e)]
  BY DEF r, old
<1> HIDE DEF R
<1>7. \A p \in Queue : R[p].busy = Q[p].busy
  BY <1>3, <1>5 DEF old
<1>8. Parked(R, T)
  BY <1>1, <1>5 DEF Parked
<1>9. Good(R, T, d)
  BY <1>4, <1>7, <1>8, GoodQueues
<1> QED
  BY <1>6, <1>9

LEMMA GoodErrorQueue ==
    ASSUME NEW Q, NEW T, NEW d, Good(Q, T, d), NEW dsn \in Dsn
    PROVE  LET R == qmgr_error_queue(Q, T, dsn)
           IN  /\ Good(R, T, d)
               /\ R[dsn].window = Q[dsn].window
               /\ ~T[Retry].dead => R[dsn].live = TRUE
<1> DEFINE R == qmgr_error_queue(Q, T, dsn)
<1>1. AllSound(Q) /\ AllSettled(Q) /\ Parked(Q, T) /\ dsn \in Queue
  BY SettledIsSound, TransportOfType DEF Good
<1>2. AllSound(Q)
  BY <1>1
<1>3. LET E == qmgr_error_queue(Q, T, dsn)
      IN  /\ AllSound(E)
          /\ \A q \in Queue : /\ E[q].todo = Q[q].todo
                              /\ E[q].busy = Q[q].busy
                              /\ E[q].window = Q[q].window
          /\ ~T[Retry].dead => E[dsn].live = TRUE
  BY <1>2, ErrorQueueSound, Zenon
<1> HIDE DEF R
<1>4. /\ AllSound(R)
      /\ \A q \in Queue : /\ R[q].todo = Q[q].todo
                          /\ R[q].busy = Q[q].busy
                          /\ R[q].window = Q[q].window
      /\ ~T[Retry].dead => R[dsn].live = TRUE
  BY <1>3 DEF R
<1>5. \A q \in Queue : R[q].window = 0 => R[q].todo = {}
  BY <1>1, <1>4 DEF AllSettled, Settled
<1>6. AllSettled(R)
  BY <1>4, <1>5, SettledIsSound
<1>7. Parked(R, T)
  BY <1>1, <1>4 DEF Parked
<1>8. \A q \in Queue : R[q].busy = Q[q].busy
  BY <1>4
<1>9. Good(R, T, d)
  BY <1>6, <1>7, <1>8, GoodQueues
<1> QED
  BY <1>1, <1>4, <1>9 DEF R

LEMMA AssignStep ==
    ASSUME IInv, NEW e \in Entry, NEW s \in Site, NEW flush \in BOOLEAN,
           qmgr_message_assign(e, s, flush)
    PROVE  IInv'
<1> DEFINE t == XportOf[s]
           T == IF flush /\ transport[t].dead
                THEN [transport EXCEPT ![t] = qmgr_transport_unthrottle(@)]
                ELSE transport
           name == IF T[t].dead THEN qmgr_error_nexthop(T[t].dsn) ELSE s
           made == [queue EXCEPT ![name] = qmgr_queue_create(TransportOf(name), @)]
           Q == IF flush /\ QMGR_QUEUE_THROTTLED(made[name])
                THEN [made EXCEPT ![name] = qmgr_queue_unthrottle(TransportOf(name), @)]
                ELSE made
           dsn == Q[name].dsn
           redirected == qmgr_error_queue(Q, T, dsn)
<1>1. /\ transport' = T /\ dsb' = dsb
      /\ \/ /\ T[t].dead /\ T[Retry].dead
            /\ queue' = queue
         \/ /\ ~(T[t].dead /\ T[Retry].dead)
            /\ ~QMGR_QUEUE_THROTTLED(Q[name])
            /\ queue' = [Q EXCEPT ![name] = qmgr_entry_create(@, e)]
         \/ /\ QMGR_QUEUE_THROTTLED(Q[name])
            /\ HasErrorQueue(Q, T, dsn)
            /\ queue' = [redirected EXCEPT ![qmgr_error_nexthop(dsn)]
                             = qmgr_entry_create(@, e)]
         \/ /\ QMGR_QUEUE_THROTTLED(Q[name])
            /\ queue' = redirected
  BY DEF qmgr_message_assign, Queues
<1>2. t \in Transport /\ Retry \in Transport
  BY ConfigAssumption
<1>3. Good(queue, T, dsb)
  <2>1. CASE flush /\ transport[t].dead
    <3> DEFINE r == qmgr_transport_unthrottle(transport[t])
    <3>1. /\ Calm(transport[t]) /\ OneInFlight(t, queue, transport[t])
          /\ AllSettled(queue) /\ Parked(queue, transport)
          /\ transport \in [Transport -> QMGR_TRANSPORT]
          /\ dsb \in Reported \cup {NoDsn}
      BY <1>2 DEF IInv, Good, AllCalm
    <3>2. Calm(r) /\ OneInFlight(t, queue, r) /\ r.dead = FALSE
      BY <2>1, <3>1, ReviveGood
    <3>3. T = [transport EXCEPT ![t] = r]
      BY <2>1
    <3> HIDE DEF r, t
    <3>4. Parked(queue, [transport EXCEPT ![t] = r])
      BY <1>2, <3>1, <3>2, ParkedSame
    <3>5. Good(queue, [transport EXCEPT ![t] = r], dsb)
      BY <1>2, <3>1, <3>2, <3>4, GoodUpdate DEF IInv
    <3> QED
      BY <3>3, <3>5
  <2>2. CASE ~(flush /\ transport[t].dead)
    BY <2>2 DEF IInv
  <2> QED
    BY <2>1, <2>2
<1> HIDE DEF T
<1>4. /\ name \in Queue /\ TransportOf(name) \in Transport
      /\ TransportOf(name) = IF T[t].dead THEN Retry ELSE t
  <2>1. Calm(T[t])
    BY <1>2, <1>3 DEF Good, AllCalm
  <2>2. T[t].dead => T[t].dsn \in Dsn
    BY <2>1 DEF Calm, QMGR_TRANSPORT
  <2> QED
    BY <1>2, <2>2, TransportOfType DEF qmgr_error_nexthop
<1> HIDE DEF name, t
<1>5. Good(made, T, dsb) /\ made[name].live = TRUE
  <2> DEFINE old == queue[name]
             r == qmgr_queue_create(TransportOf(name), old)
  <2>1. Settled(TransportOf(name), old) /\ queue \in [Queue -> QMGR_QUEUE]
    BY <1>4 DEF IInv, Good, AllSettled
  <2>2. Sound(TransportOf(name), old) /\ (old.window = 0 => old.todo = {})
    BY <2>1 DEF Settled
  <2> HIDE DEF old
  <2>3. /\ Sound(TransportOf(name), r) /\ r.live = TRUE
        /\ r.window = old.window /\ r.todo = old.todo /\ r.busy = old.busy
    BY <1>4, <2>2, CreateSound
  <2>4. made = [queue EXCEPT ![name] = r]
    BY DEF old
  <2> HIDE DEF r
  <2>5. Settled(TransportOf(name), r)
    BY <2>2, <2>3 DEF Settled
  <2>6. Good([queue EXCEPT ![name] = r], T, dsb)
    BY <1>3, <1>4, <2>3, <2>5, GoodOneQueue DEF old
  <2>7. made[name] = r
    BY <1>4, <2>1, <2>4
  <2> QED
    BY <2>3, <2>4, <2>6, <2>7
<1> HIDE DEF made
<1>6. Good(Q, T, dsb) /\ Q[name].live = TRUE
  <2>1. CASE flush /\ QMGR_QUEUE_THROTTLED(made[name])
    <3> DEFINE old == made[name]
               r == qmgr_queue_unthrottle(TransportOf(name), old)
    <3>1. /\ Settled(TransportOf(name), old) /\ made \in [Queue -> QMGR_QUEUE]
          /\ old.live = TRUE /\ old.window >= 0
      BY <1>4, <1>5, <2>1 DEF Good, AllSettled, QMGR_QUEUE_THROTTLED, THROTTLED
    <3>2. Sound(TransportOf(name), old)
      BY <3>1 DEF Settled
    <3> HIDE DEF old
    <3>3. /\ Settled(TransportOf(name), r) /\ r.live = TRUE
          /\ r.todo = old.todo /\ r.busy = old.busy
      BY <1>4, <3>1, <3>2, SettledUnthrottle
    <3>4. Q = [made EXCEPT ![name] = r]
      BY <2>1 DEF old
    <3> HIDE DEF r
    <3>5. Good([made EXCEPT ![name] = r], T, dsb)
      BY <1>4, <1>5, <3>3, GoodOneQueue DEF old
    <3>6. Q[name] = r
      BY <1>4, <3>1, <3>4
    <3> QED
      BY <3>3, <3>4, <3>5, <3>6
  <2>2. CASE ~(flush /\ QMGR_QUEUE_THROTTLED(made[name]))
    BY <1>5, <2>2
  <2> QED
    BY <2>1, <2>2
<1> HIDE DEF Q
<1>7. CASE queue' = queue
  BY <1>1, <1>3, <1>7 DEF IInv
<1>8. CASE /\ ~(T[t].dead /\ T[Retry].dead)
           /\ ~QMGR_QUEUE_THROTTLED(Q[name])
           /\ queue' = [Q EXCEPT ![name] = qmgr_entry_create(@, e)]
  <2>1. ~T[TransportOf(name)].dead /\ Q[name].window # 0
    BY <1>4, <1>8 DEF QMGR_QUEUE_THROTTLED, THROTTLED
  <2>2. Good(queue', T, dsb)
    BY <1>4, <1>6, <1>8, <2>1, GoodEntryCreate
  <2> QED
    BY <1>1, <2>2 DEF IInv
<1>9. ASSUME QMGR_QUEUE_THROTTLED(Q[name])
      PROVE  /\ dsn \in Dsn
             /\ Good(redirected, T, dsb)
             /\ redirected[dsn].window = Q[dsn].window
             /\ ~T[Retry].dead => redirected[dsn].live = TRUE
  <2>1. dsn \in Dsn
    BY <1>4, <1>6, <1>9 DEF Good, AllSettled, Settled, Sound, QMGR_QUEUE,
                            QMGR_QUEUE_THROTTLED, THROTTLED
  <2> HIDE DEF dsn
  <2> QED
    BY <1>6, <2>1, GoodErrorQueue
<1> HIDE DEF redirected
<1>10. CASE QMGR_QUEUE_THROTTLED(Q[name]) /\ queue' = redirected
  BY <1>1, <1>9, <1>10 DEF IInv
<1>11. CASE /\ QMGR_QUEUE_THROTTLED(Q[name])
            /\ HasErrorQueue(Q, T, dsn)
            /\ queue' = [redirected EXCEPT ![qmgr_error_nexthop(dsn)]
                              = qmgr_entry_create(@, e)]
  <2>1. ~T[Retry].dead /\ Q[dsn].window # 0
    BY <1>11 DEF HasErrorQueue, qmgr_error_nexthop, QMGR_QUEUE_THROTTLED, THROTTLED
  <2>2. dsn \in Queue /\ TransportOf(dsn) = Retry
    BY <1>9, <1>11, TransportOfType
  <2>3. queue' = [redirected EXCEPT ![dsn] = qmgr_entry_create(@, e)]
    BY <1>11 DEF qmgr_error_nexthop
  <2>a. /\ Good(redirected, T, dsb) /\ redirected[dsn].live = TRUE
        /\ redirected[dsn].window # 0 /\ ~T[TransportOf(dsn)].dead
    BY <1>9, <1>11, <2>1, <2>2
  <2> HIDE DEF dsn
  <2>4. Good(queue', T, dsb)
    BY <2>2, <2>3, <2>a, GoodEntryCreate
  <2> QED
    BY <1>1, <2>4 DEF IInv
<1> QED
  BY <1>1, <1>7, <1>8, <1>10, <1>11

\* The agent's report names the site it was sent to, or repeats what the
\* static buffer holds: in both cases a reason that qmgr can prefix.
LEMMA ReportType ==
    ASSUME NEW q \in Queue, dsb \in Reported \cup {NoDsn},
           NEW r \in DeliveryReport(q)
    PROVE  r.seen \in Reported \cup {NoDsn}
<1>1. q \in Site => <<q, 0>> \in Reported
  BY ConfigAssumption DEF Reported
<1> QED
  BY <1>1 DEF DeliveryReport

LEMMA PrefixType ==
    ASSUME NEW d \in Reported, d[2] < MaxPrefix
    PROVE  SuspendedPrefix(d) \in Reported
BY ConfigAssumption DEF SuspendedPrefix, Reported

\* A site that is found dead has its todo entries deferred at once.
Avoided(Q, T, q, dsn) ==
    LET Q1 == [Q EXCEPT ![q] = qmgr_queue_throttle(TransportOf(q), @, dsn)]
    IN  IF QMGR_QUEUE_THROTTLED(Q1[q])
        THEN qmgr_defer_todo(Q1, T, {q}, dsn) ELSE Q1

LEMMA GoodThrottle ==
    ASSUME NEW Q, NEW T, NEW d, Good(Q, T, d), NEW q \in Queue, NEW dsn \in Dsn,
           Q[q].live = TRUE, Q[q].window > 0
    PROVE  LET R == Avoided(Q, T, q, dsn)
           IN  Good(R, T, d) /\ R[q].busy = Q[q].busy
<1> DEFINE t == TransportOf(q)
           old == Q[q]
           r == qmgr_queue_throttle(t, old, dsn)
           Q1 == [Q EXCEPT ![q] = qmgr_queue_throttle(t, @, dsn)]
           R == Avoided(Q, T, q, dsn)
<1>1. /\ AllSettled(Q) /\ AllSound(Q) /\ Parked(Q, T)
      /\ Q \in [Queue -> QMGR_QUEUE] /\ t \in Transport
      /\ \A p \in Queue : Q[p].window = 0 => Q[p].todo = {}
  BY TransportOfType, SettledIsSound DEF Good, AllSettled, Settled
<1>2. Sound(t, old) /\ old.live = TRUE /\ old.window > 0
  BY <1>1 DEF AllSound
<1> HIDE DEF old
<1>3. Sound(t, r) /\ r.todo = old.todo /\ r.busy = old.busy
  BY <1>1, <1>2, ThrottleSound
<1>4. Q1 = [Q EXCEPT ![q] = r]
  BY DEF old
<1> HIDE DEF r, Q1, R
<1>5. AllSound(Q1)
  <2>1. AllSound(Q) /\ Sound(TransportOf(q), r)
    BY <1>1, <1>3
  <2>2. AllSound([Q EXCEPT ![q] = r])
    BY <2>1, UpdateSound
  <2> QED
    BY <1>4, <2>2
<1>6. \A p \in Queue : Q1[p] = IF p = q THEN r ELSE Q[p]
  BY <1>1, <1>4
<1>7. \A p \in Queue : Q1[p].busy = Q[p].busy /\ Q1[p].todo = Q[p].todo
  BY <1>3, <1>6 DEF old
<1>8. /\ AllSettled(R)
      /\ \A p \in Queue : R[p].busy = Q[p].busy
      /\ Parked(R, T)
  <2>1. CASE QMGR_QUEUE_THROTTLED(Q1[q])
    <3>1. HasErrorQueue(Q1, T, dsn) => dsn \notin {q}
      BY <2>1 DEF HasErrorQueue, qmgr_error_nexthop
    <3>2. \A p \in Queue \ {q} : Q1[p].window = 0 => Q1[p].todo = {}
      BY <1>1, <1>6
    <3>3. Deferrable(Q1, T, {q}, dsn)
      BY <1>5, <3>1, <3>2 DEF Deferrable
    <3>4. Deferred(Q1, T, {q}, dsn, qmgr_defer_todo(Q1, T, {q}, dsn))
      BY <3>3, DeferTodoSettled
    <3>5. Deferred(Q1, T, {q}, dsn, R)
      BY <2>1, <3>4 DEF Avoided, R, Q1
    <3>6. /\ AllSettled(R)
          /\ \A p \in Queue : R[p].busy = Q1[p].busy
          /\ R[q].todo = {}
          /\ \A p \in Queue : (p # q /\ (p # dsn \/ T[Retry].dead)
                                  => R[p].todo = Q1[p].todo)
      BY <3>5 DEF Deferred
    <3>7. TransportOf(dsn) = Retry
      BY TransportOfType
    <3>8. Parked(R, T)
      BY <1>1, <1>7, <3>6, <3>7 DEF Parked
    <3> QED
      BY <1>7, <3>6, <3>8
  <2>2. CASE ~QMGR_QUEUE_THROTTLED(Q1[q])
    <3>1. R = Q1
      BY <2>2 DEF Avoided, R, Q1
    <3>2. \A p \in Queue : Q1[p].window = 0 => Q1[p].todo = {}
      BY <1>1, <1>6, <2>2 DEF QMGR_QUEUE_THROTTLED, THROTTLED
    <3>3. AllSettled(Q1)
      BY <1>5, <3>2, SettledIsSound
    <3>4. Parked(Q1, T)
      BY <1>1, <1>7 DEF Parked
    <3> QED
      BY <1>7, <3>1, <3>3, <3>4
  <2> QED
    BY <2>1, <2>2
<1>9. Good(R, T, d)
  BY <1>8, GoodQueues
<1> QED
  BY <1>8, <1>9 DEF R

LEMMA UpdateStep ==
    ASSUME IInv, NEW q \in Queue, NEW e \in queue[q].busy,
           NEW report \in DeliveryReport(q), qmgr_deliver_update(q, e, report)
    PROVE  IInv'
<1> DEFINE t == TransportOf(q)
           site_problem == report.status # "ok" /\ report.seen # NoDsn
           dsn == IF site_problem THEN SuspendedPrefix(report.seen) ELSE report.seen
           throttle == site_problem /\ QMGR_QUEUE_READY(queue[q])
           Q1 == IF throttle
                 THEN [queue EXCEPT ![q] = qmgr_queue_throttle(t, @, dsn)]
                 ELSE queue
           Q2 == IF throttle /\ QMGR_QUEUE_THROTTLED(Q1[q])
                 THEN qmgr_defer_todo(Q1, transport, {q}, dsn)
                 ELSE Q1
           Q3 == IF report.status # "crash" /\ report.seen = NoDsn
                 THEN [Q2 EXCEPT ![q] = qmgr_queue_unthrottle(t, @)]
                 ELSE Q2
           R == [Q3 EXCEPT ![q] = qmgr_entry_done(t, @, e, Crowded(Q3))]
<1>1. /\ site_problem => report.seen[2] < MaxPrefix
      /\ queue' = R
      /\ transport' = IF report.status # "crash"
                      THEN [transport EXCEPT ![t] = qmgr_transport_unthrottle(@)]
                      ELSE transport
      /\ dsb' = dsn
  BY DEF qmgr_deliver_update, Queues
<1>2. /\ AllSettled(queue) /\ Settled(t, queue[q]) /\ t \in Transport
      /\ queue \in [Queue -> QMGR_QUEUE] /\ dsb \in Reported \cup {NoDsn}
  BY TransportOfType DEF IInv, Good, AllSettled
<1>3. queue[q].live = TRUE
  BY <1>2 DEF Settled, Sound, QMGR_QUEUE
<1>4. /\ dsn \in Reported \cup {NoDsn}
      /\ site_problem => dsn \in Dsn
  <2>1. report.seen \in Reported \cup {NoDsn}
    BY <1>2, ReportType
  <2>2. site_problem => SuspendedPrefix(report.seen) \in Reported
    BY <1>1, <2>1, PrefixType
  <2> QED
    BY <2>1, <2>2 DEF Dsn
<1> HIDE DEF t, dsn
<1>5. Good(Q2, transport, dsb) /\ Q2[q].busy = queue[q].busy
  <2>1. CASE throttle
    <3>1. /\ dsn \in Dsn /\ queue[q].window > 0
      BY <1>4, <2>1 DEF QMGR_QUEUE_READY
    <3>2. Q2 = Avoided(queue, transport, q, dsn)
      BY <2>1 DEF Avoided, t
    <3> HIDE DEF Q1, Q2
    <3> QED
      BY <1>3, <3>1, <3>2, GoodThrottle DEF IInv
  <2>2. CASE ~throttle
    BY <2>2 DEF IInv
  <2> QED
    BY <2>1, <2>2
<1> HIDE DEF Q2
<1>6. Good(Q3, transport, dsb) /\ Q3[q].busy = queue[q].busy
  <2>1. CASE report.status # "crash" /\ report.seen = NoDsn
    <3> DEFINE old == Q2[q]
               r == qmgr_queue_unthrottle(t, old)
    <3>1. /\ Settled(t, old) /\ Q2 \in [Queue -> QMGR_QUEUE]
          /\ old.busy = queue[q].busy
      BY <1>5 DEF Good, AllSettled, t
    <3> HIDE DEF old
    <3>2. Sound(t, old) /\ old.live = TRUE /\ old.window >= 0
      BY <3>1 DEF Settled, Sound, QMGR_QUEUE, SUSPENDED
    <3>3. Settled(t, r) /\ r.todo = old.todo /\ r.busy = old.busy
      BY <1>2, <3>2, SettledUnthrottle
    <3>4. Q3 = [Q2 EXCEPT ![q] = r]
      BY <2>1 DEF old
    <3> HIDE DEF r, Q3
    <3>5. Good([Q2 EXCEPT ![q] = r], transport, dsb)
      BY <1>5, <3>3, GoodOneQueue DEF old, t
    <3>6. Q3[q] = r
      BY <3>1, <3>4
    <3> QED
      BY <3>1, <3>3, <3>4, <3>5, <3>6
  <2>2. CASE ~(report.status # "crash" /\ report.seen = NoDsn)
    BY <1>5, <2>2
  <2> QED
    BY <2>1, <2>2
<1> HIDE DEF Q3
<1> DEFINE old == Q3[q]
           crowded == Crowded(Q3)
           r == qmgr_entry_done(t, old, e, crowded)
<1>7. /\ AllSettled(Q3) /\ Parked(Q3, transport) /\ Settled(t, old)
      /\ Q3 \in [Queue -> QMGR_QUEUE] /\ e \in old.busy
  BY <1>6 DEF Good, AllSettled, t
<1>8. crowded \in BOOLEAN
  BY DEF Crowded
<1> HIDE DEF old, crowded
<1>9. old.live = TRUE
  BY <1>7 DEF Settled, Sound, QMGR_QUEUE
<1>10. Settled(t, r) /\ r.todo = old.todo /\ r.busy = old.busy \ {e}
  <2>1. t \in Transport /\ Settled(t, old) /\ Finishing(old, e)
    BY <1>2, <1>7, <1>9 DEF Finishing
  <2> HIDE DEF r
  <2>2. Finished(t, old, e, r)
    BY <1>8, <2>1, EntryDoneSettled DEF r
  <2> QED
    BY <2>2 DEF Finished
<1>11. R = [Q3 EXCEPT ![q] = r]
  BY DEF old, crowded
<1> HIDE DEF r, R
<1>12. AllSettled(R)
  BY <1>7, <1>10, <1>11, UpdateSettled DEF t
<1>13. \A p \in Queue : R[p] = IF p = q THEN r ELSE Q3[p]
  BY <1>7, <1>11
<1>14. \A p \in Queue : R[p].todo = Q3[p].todo
  BY <1>10, <1>13 DEF old
<1>15. \A p \in Queue : TransportOf(p) # t => R[p].busy = Q3[p].busy
  BY <1>13 DEF t
<1>16. Parked(R, transport)
  BY <1>7, <1>14 DEF Parked
<1>17. ASSUME NEW tr, tr.connecting = transport[t].connecting,
              tr.delayed = transport[t].delayed
       PROVE  OneInFlight(t, R, tr)
  <2> SUFFICES ASSUME XportRateDelay[t] PROVE OneInFlight(t, R, tr)
    BY DEF OneInFlight
  <2>1. OneInFlight(t, Q3, transport[t]) /\ Calm(transport[t])
    BY <1>2, <1>6 DEF Good, AllCalm
  <2>2. q \in QueuesOf(t) /\ e \in Q3[q].busy
    BY <1>7 DEF QueuesOf, t, old
  <2>3. \A p \in QueuesOf(t) : \A x \in Q3[p].busy : p = q /\ x = e
    BY <2>1, <2>2 DEF OneInFlight
  <2>4. transport[t].connecting \in Nat /\ transport[t].delayed \in Nat
    BY <2>1 DEF Calm, QMGR_TRANSPORT
  <2>5. transport[t].connecting + transport[t].delayed = 0
    BY <2>1, <2>2, <2>4 DEF OneInFlight
  <2>6. \A p \in QueuesOf(t) : R[p].busy = {}
    BY <1>10, <1>13, <2>3 DEF QueuesOf, old
  <2> QED
    BY <1>17, <2>5, <2>6 DEF OneInFlight
<1>18. transport \in [Transport -> QMGR_TRANSPORT] /\ Calm(transport[t])
  BY <1>2 DEF IInv, Good, AllCalm
<1>19. CASE report.status # "crash"
  <2> DEFINE was == transport[t]
             tr == qmgr_transport_unthrottle(was)
  <2>1. /\ was \in QMGR_TRANSPORT /\ was.panic = FALSE
        /\ was.dead = FALSE => was.timer = FALSE
        /\ (was.dsn # NoDsn) <=> (was.dead = TRUE)
        /\ was.pending = was.connecting /\ was.pending <= MaxPend
    BY <1>18 DEF Calm
  <2> HIDE DEF was
  <2>2. /\ Calm(tr) /\ tr.dead = FALSE
        /\ tr.connecting = was.connecting /\ tr.delayed = was.delayed
    BY <2>1, TransportUnthrottleCalm
  <2>3. transport' = [transport EXCEPT ![t] = tr]
    BY <1>1, <1>19 DEF was
  <2> HIDE DEF tr
  <2>4. OneInFlight(t, R, tr)
    BY <1>17, <2>2 DEF was
  <2>5. Parked(R, [transport EXCEPT ![t] = tr])
    BY <1>2, <1>16, <1>18, <2>2, ParkedSame
  <2>6. Good(R, [transport EXCEPT ![t] = tr], dsn)
    BY <1>2, <1>4, <1>6, <1>12, <1>15, <2>2, <2>4, <2>5, GoodUpdate
  <2> QED
    BY <1>1, <2>3, <2>6 DEF IInv
<1>20. CASE report.status = "crash"
  <2> DEFINE tr == transport[t]
  <2>1. transport = [transport EXCEPT ![t] = tr]
    BY <1>18
  <2>2. Calm(tr) /\ OneInFlight(t, R, tr)
    BY <1>17, <1>18
  <2> HIDE DEF tr
  <2>3. Parked(R, [transport EXCEPT ![t] = tr])
    BY <1>16, <2>1
  <2>4. Good(R, [transport EXCEPT ![t] = tr], dsn)
    BY <1>2, <1>4, <1>6, <1>12, <1>15, <2>2, <2>3, GoodUpdate
  <2>5. transport' = transport
    BY <1>1, <1>20
  <2> QED
    BY <1>1, <2>1, <2>4, <2>5 DEF IInv
<1> QED
  BY <1>19, <1>20

-----------------------------------------------------------------------------
(***************************************************************************)
(* Suspension, and what is on the lists of a queue.  Follows(Q, R) is what *)
(* an operation that turns Q into R guarantees; it is transitive, so that  *)
(* a handler is the composition of its operations.                         *)
(***************************************************************************)
Paused(q) == q.live = TRUE /\ q.window = -1

Tidy(q) == q.live = TRUE /\ q.window > 0 => ~IsEmpty(q)

TidySites(Q) == \A s \in Site : Tidy(Q[s])

Exclusive(Q) ==
    \A q1, q2 \in Queue :
        /\ Q[q1].todo \cap Q[q2].busy = {}
        /\ q1 # q2 => /\ Q[q1].todo \cap Q[q2].todo = {}
                      /\ Q[q1].busy \cap Q[q2].busy = {}

Orderly(Q) == TidySites(Q) /\ Exclusive(Q)

StillPaused(Q, R) == \A q \in Queue : Paused(Q[q]) => Paused(R[q])

Follows(Q, R) == (Orderly(Q) => Orderly(R)) /\ StillPaused(Q, R)

LEMMA FollowsChain ==
    ASSUME NEW Q, NEW R, NEW U, Follows(Q, R), Follows(R, U)
    PROVE  Follows(Q, U)
BY DEF Follows, StillPaused

\* One queue changes, and no entry is added.
LEMMA FollowsOne ==
    ASSUME NEW Q \in [Queue -> QMGR_QUEUE], NEW q \in Queue, NEW r,
           r.todo \subseteq Q[q].todo, r.busy \subseteq Q[q].busy,
           q \in Site /\ Tidy(Q[q]) => Tidy(r), Paused(Q[q]) => Paused(r)
    PROVE  Follows(Q, [Q EXCEPT ![q] = r])
<1> DEFINE R == [Q EXCEPT ![q] = r]
<1>1. \A p \in Queue : R[p] = IF p = q THEN r ELSE Q[p]
  OBVIOUS
<1>2. \A p \in Queue : R[p].todo \subseteq Q[p].todo /\ R[p].busy \subseteq Q[p].busy
  BY <1>1
<1>3. Site \subseteq Queue
  BY DEF Queue
<1> HIDE DEF R
<1>4. StillPaused(Q, R)
  BY <1>1 DEF StillPaused
<1>5. TidySites(Q) => TidySites(R)
  BY <1>1, <1>3 DEF TidySites
<1>6. Exclusive(Q) => Exclusive(R)
  BY <1>2 DEF Exclusive
<1> QED BY <1>4, <1>5, <1>6 DEF Follows, Orderly, R

Fresh(Q, e) == \A p \in Queue : e \notin Q[p].todo /\ e \notin Q[p].busy

\* One queue gets a new entry.
LEMMA FollowsNew ==
    ASSUME NEW Q \in [Queue -> QMGR_QUEUE], NEW q \in Queue, NEW r, NEW e, Fresh(Q, e),
           r.todo = Q[q].todo \cup {e}, r.busy = Q[q].busy, Paused(Q[q]) => Paused(r)
    PROVE  Follows(Q, [Q EXCEPT ![q] = r])
<1> DEFINE R == [Q EXCEPT ![q] = r]
<1>1. \A p \in Queue : R[p] = IF p = q THEN r ELSE Q[p]
  OBVIOUS
<1>2. \A p \in Queue : /\ R[p].todo = IF p = q THEN Q[p].todo \cup {e} ELSE Q[p].todo
                       /\ R[p].busy = Q[p].busy
  BY <1>1
<1>3. Site \subseteq Queue
  BY DEF Queue
<1>4. Tidy(r)
  BY DEF Tidy, IsEmpty
<1> HIDE DEF R
<1>5. StillPaused(Q, R)
  BY <1>1 DEF StillPaused
<1>6. TidySites(Q) => TidySites(R)
  BY <1>1, <1>3, <1>4 DEF TidySites
<1>7. ASSUME Exclusive(Q) PROVE Exclusive(R)
  <2> SUFFICES ASSUME NEW q1 \in Queue, NEW q2 \in Queue
               PROVE  /\ R[q1].todo \cap R[q2].busy = {}
                      /\ q1 # q2 => /\ R[q1].todo \cap R[q2].todo = {}
                                    /\ R[q1].busy \cap R[q2].busy = {}
    BY DEF Exclusive
  <2>1. /\ Q[q1].todo \cap Q[q2].busy = {}
        /\ q1 # q2 => /\ Q[q1].todo \cap Q[q2].todo = {}
                      /\ Q[q1].busy \cap Q[q2].busy = {}
    BY <1>7 DEF Exclusive
  <2>2. /\ e \notin Q[q1].todo /\ e \notin Q[q2].todo /\ e \notin Q[q2].busy
        /\ R[q1].todo \subseteq Q[q1].todo \cup {e} /\ R[q2].todo \subseteq Q[q2].todo \cup {e}
        /\ R[q1].todo = Q[q1].todo \/ R[q2].todo = Q[q2].todo \/ q1 = q2
        /\ R[q1].busy = Q[q1].busy /\ R[q2].busy = Q[q2].busy
    BY <1>2 DEF Fresh
  <2> QED BY <2>1, <2>2
<1> QED BY <1>5, <1>6, <1>7 DEF Follows, Orderly, R

\* A queue that is taken off the list is not there to be idle.
LEMMA DoneTidy ==
    ASSUME NEW t, NEW q
    PROVE  Tidy(DoneIfIdle(t, q))
<1>1. CASE QMGR_QUEUE_READY(q) /\ IsEmpty(q)
  <2>1. qmgr_queue_done(t, q).live = FALSE
    BY DEF qmgr_queue_done, NoQueue
  <2> QED BY <1>1, <2>1 DEF DoneIfIdle, Tidy
<1>2. CASE ~(QMGR_QUEUE_READY(q) /\ IsEmpty(q))
  BY <1>2 DEF DoneIfIdle, Tidy, QMGR_QUEUE_READY
<1> QED BY <1>1, <1>2

LEMMA DiscardTidy ==
    ASSUME NEW t, NEW q, NEW crowded
    PROVE  Tidy(DiscardIfEmpty(t, q, crowded))
<1>1. CASE IsEmpty(q)
  BY <1>1, DoneTidy DEF DiscardIfEmpty
<1>2. CASE ~IsEmpty(q)
  BY <1>2 DEF DiscardIfEmpty, Tidy
<1> QED BY <1>1, <1>2

LEMMA EntryDoneTidy ==
    ASSUME NEW t, NEW q, NEW e, NEW crowded
    PROVE  Tidy(qmgr_entry_done(t, q, e, crowded))
BY DiscardTidy DEF qmgr_entry_done

LEMMA TodoDoneTidy ==
    ASSUME NEW t, NEW q, NEW crowded, Tidy(q)
    PROVE  Tidy(TodoDone(t, q, crowded))
BY DiscardTidy DEF TodoDone

\* The operations that a suspended queue meets.
LEMMA PausedOps ==
    ASSUME NEW t, NEW q \in QMGR_QUEUE, Paused(q), NEW e, NEW crowded
    PROVE  /\ Paused(qmgr_queue_create(t, q)) /\ Paused(qmgr_entry_create(q, e))
           /\ Paused(qmgr_entry_select(q, e)) /\ Paused(DoneIfIdle(t, q))
           /\ Paused(TodoDone(t, q, crowded)) /\ Paused(qmgr_enable_queue(t, q))
<1>1. ~QMGR_QUEUE_READY(q) /\ ~QMGR_QUEUE_THROTTLED(q)
  BY DEF Paused, QMGR_QUEUE_READY, QMGR_QUEUE_THROTTLED, THROTTLED
<1>2. DoneIfIdle(t, q) = q
  BY <1>1 DEF DoneIfIdle
<1>3. /\ Paused(qmgr_queue_create(t, q)) /\ Paused(qmgr_entry_create(q, e))
      /\ Paused(qmgr_entry_select(q, e))
  BY DEF Paused, QMGR_QUEUE, qmgr_queue_create, qmgr_entry_create, qmgr_entry_select
<1>4. Paused(TodoDone(t, q, crowded))
  <2> DEFINE r == [q EXCEPT !.todo = {}]
  <2>1. r.live = TRUE /\ r.window = -1
    BY DEF Paused, QMGR_QUEUE
  <2>2. TodoDone(t, q, crowded) = IF q.todo = {} THEN q ELSE DiscardIfEmpty(t, r, crowded)
    BY DEF TodoDone
  <2> HIDE DEF r
  <2>3. DiscardIfEmpty(t, r, crowded) = r
    BY <2>1 DEF DiscardIfEmpty, DoneIfIdle, QMGR_QUEUE_READY, QMGR_QUEUE_THROTTLED, THROTTLED
  <2> QED BY <2>1, <2>2, <2>3 DEF Paused
<1>5. qmgr_enable_queue(t, q) = q
  BY <1>1, <1>2 DEF qmgr_enable_queue, Paused
<1> QED BY <1>2, <1>3, <1>4, <1>5

\* qmgr_error_queue() may create a queue of retry(8), which is no site.
LEMMA FollowsError ==
    ASSUME NEW Q, AllSound(Q), NEW T, NEW dsn \in Dsn
    PROVE  LET R == qmgr_error_queue(Q, T, dsn)
           IN  /\ Follows(Q, R) /\ R \in [Queue -> QMGR_QUEUE]
               /\ \A q \in Queue : R[q].todo = Q[q].todo /\ R[q].busy = Q[q].busy
               /\ \A q \in Queue \ {dsn} : R[q] = Q[q]
<1> DEFINE r == qmgr_queue_create(Retry, Q[dsn])
<1>1. dsn \in Queue /\ dsn \notin Site /\ TransportOf(dsn) = Retry /\ Retry \in Transport
  BY TransportOfType, DsnAssumption, ConfigAssumption
<1>2. Q \in [Queue -> QMGR_QUEUE] /\ Sound(Retry, Q[dsn])
  BY <1>1 DEF AllSound
<1>3. r.todo = Q[dsn].todo /\ r.busy = Q[dsn].busy /\ r \in QMGR_QUEUE
  BY <1>1, <1>2, CreateSound DEF Sound
<1>4. Paused(Q[dsn]) => Paused(r)
  BY <1>1, <1>2, PausedOps
<1>5. qmgr_error_queue(Q, T, dsn) = IF T[Retry].dead THEN Q ELSE [Q EXCEPT ![dsn] = r]
  BY DEF qmgr_error_queue, qmgr_error_nexthop
<1> HIDE DEF r
<1>6. Follows(Q, [Q EXCEPT ![dsn] = r])
  BY <1>1, <1>2, <1>3, <1>4, FollowsOne
<1>7. Follows(Q, Q)
  BY DEF Follows, StillPaused
<1>8. /\ [Q EXCEPT ![dsn] = r] \in [Queue -> QMGR_QUEUE]
      /\ \A q \in Queue : [Q EXCEPT ![dsn] = r][q] = IF q = dsn THEN r ELSE Q[q]
  BY <1>2, <1>3
<1> QED BY <1>2, <1>3, <1>5, <1>6, <1>7, <1>8

\* qmgr_defer_todo() moves each entry to one queue.
LEMMA FollowsDefer ==
    ASSUME NEW Q, NEW T, NEW S, NEW dsn \in Dsn, Deferrable(Q, T, S, dsn)
    PROVE  Follows(Q, qmgr_defer_todo(Q, T, S, dsn))
<1> DEFINE found == IF S = {} THEN Q ELSE qmgr_error_queue(Q, T, dsn)
           moving == UNION {Q[q].todo : q \in S}
           crowded == Crowded(found)
           drained == [q \in Queue |->
                         IF q \in S THEN TodoDone(TransportOf(q), found[q], crowded)
                         ELSE found[q]]
           sink == [found[dsn] EXCEPT
                      !.todo = @ \cup moving,
                      !.panic = @ \/ (moving # {} /\ dsn \in S)]
           R == qmgr_defer_todo(Q, T, S, dsn)
<1>0. /\ AllSound(Q) /\ S \in SUBSET Queue
      /\ Site \subseteq Queue /\ dsn \in Queue /\ dsn \notin Site
      /\ HasErrorQueue(Q, T, dsn) => dsn \notin S
  BY TransportOfType, DsnAssumption DEF Deferrable, Queue
<1>1. /\ Follows(Q, found) /\ found \in [Queue -> QMGR_QUEUE]
      /\ \A q \in Queue : found[q].todo = Q[q].todo /\ found[q].busy = Q[q].busy
      /\ \A q \in Queue \ {dsn} : found[q] = Q[q]
  <2>1. CASE S = {}
    BY <1>0, <2>1 DEF Follows, StillPaused, AllSound
  <2>2. CASE S # {}
    <3>1. found = qmgr_error_queue(Q, T, dsn)
      BY <2>2
    <3> HIDE DEF found
    <3> QED BY <1>0, <3>1, FollowsError
  <2> QED BY <2>1, <2>2
<1>2. R = IF S # {} /\ HasErrorQueue(Q, T, dsn)
          THEN [drained EXCEPT ![dsn] = sink] ELSE drained
  BY DEF qmgr_defer_todo, qmgr_error_nexthop
<1>3. Deferred(Q, T, S, dsn, R)
  BY DeferTodoSettled
<1> HIDE DEF found, crowded, moving, R
<1>4. \A q \in Queue : Paused(found[q]) =>
          Paused(TodoDone(TransportOf(q), found[q], crowded))
  BY <1>1, PausedOps
<1>5. /\ Paused(found[dsn]) => Paused(sink)
      /\ sink.todo = Q[dsn].todo \cup moving
  BY <1>0, <1>1 DEF Paused, QMGR_QUEUE
<1> HIDE DEF sink
<1>6. \A q \in Queue :
          \/ R[q] = found[q] /\ q \notin S
          \/ R[q] = TodoDone(TransportOf(q), found[q], crowded) /\ q \in S
          \/ R[q] = sink /\ q = dsn
  BY <1>0, <1>2
<1>7. StillPaused(Q, R)
  BY <1>1, <1>4, <1>5, <1>6 DEF StillPaused, Follows
<1>8. TidySites(Q) => TidySites(R)
  BY <1>0, <1>1, <1>6, TodoDoneTidy DEF TidySites
<1>9. ASSUME dsn \notin S
      PROVE  R[dsn].todo \subseteq Q[dsn].todo \cup moving
  BY <1>0, <1>1, <1>5, <1>6, <1>9
<1>10. /\ \A q \in Queue : R[q].busy = Q[q].busy
       /\ \A q \in S : R[q].todo = {}
       /\ \A q \in Queue \ S : q # dsn => R[q].todo = Q[q].todo
  BY <1>3 DEF Deferred
<1>11. ASSUME Exclusive(Q) PROVE Exclusive(R)
  <2>1. ASSUME NEW q1 \in Queue, NEW q2 \in Queue
        PROVE  R[q1].todo \cap R[q2].busy = {}
    <3>1. \A p \in Queue : Q[p].todo \cap Q[q2].busy = {}
      BY <1>11 DEF Exclusive
    <3>2. moving \cap Q[q2].busy = {}
      BY <1>0, <3>1 DEF moving
    <3> QED BY <1>9, <1>10, <3>1, <3>2
  <2>2. ASSUME NEW q1 \in Queue, NEW q2 \in Queue, q1 # q2
        PROVE  R[q1].busy \cap R[q2].busy = {}
    BY <1>10, <1>11, <2>2 DEF Exclusive
  <2>3. ASSUME NEW p \in Queue, p # dsn
        PROVE  R[dsn].todo \cap R[p].todo = {}
    <3>1. CASE p \in S \/ dsn \in S
      BY <1>10, <3>1
    <3>2. CASE p \notin S /\ dsn \notin S
      <4>1. \A x \in S : Q[x].todo \cap Q[p].todo = {}
        BY <1>0, <1>11, <3>2 DEF Exclusive
      <4>2. moving \cap Q[p].todo = {}
        BY <4>1 DEF moving
      <4>3. Q[dsn].todo \cap Q[p].todo = {}
        BY <1>0, <1>11, <2>3 DEF Exclusive
      <4> QED BY <1>9, <1>10, <2>3, <3>2, <4>2, <4>3
    <3> QED BY <3>1, <3>2
  <2>4. ASSUME NEW q1 \in Queue, NEW q2 \in Queue, q1 # q2
        PROVE  R[q1].todo \cap R[q2].todo = {}
    <3>1. CASE q1 = dsn \/ q2 = dsn
      BY <2>3, <2>4, <3>1
    <3>2. CASE q1 # dsn /\ q2 # dsn
      BY <1>10, <1>11, <2>4, <3>2 DEF Exclusive
    <3> QED BY <3>1, <3>2
  <2> QED BY <2>1, <2>2, <2>4 DEF Exclusive
<1> QED BY <1>7, <1>8, <1>11 DEF Follows, Orderly, R

\* The event handlers, one after the other.
LEMMA FollowsDeliver ==
    ASSUME IInv, NEW t \in Transport, NEW tr, Calm(tr), qmgr_deliver(t, tr)
    PROVE  Follows(queue, queue')
<1>1. /\ AllSettled(queue) /\ AllSound(queue) /\ queue \in [Queue -> QMGR_QUEUE]
      /\ \A q \in Queue : queue[q].window = 0 => queue[q].todo = {}
  BY SettledIsSound DEF IInv, Good, AllSettled, Settled
<1>2. Unavailable \in Dsn
  BY DEF Dsn
<1>3. ASSUME NEW T,
             queue' = qmgr_defer_transport(queue, T, t, Unavailable),
             T = [transport EXCEPT ![t] = qmgr_transport_throttle(tr, Unavailable)]
      PROVE  Follows(queue, queue')
  <2> DEFINE S == {q \in QueuesOf(t) : queue[q].live}
  <2>1. HasErrorQueue(queue, T, Unavailable) => Unavailable \notin S
    <3> SUFFICES ASSUME Unavailable \in S PROVE T[Retry].dead
      BY DEF HasErrorQueue
    <3>1. t = Retry
      BY <1>2, TransportOfType DEF QueuesOf
    <3>2. T[t].dead
      <4>1. transport \in [Transport -> QMGR_TRANSPORT]
        BY DEF IInv, Good, AllCalm
      <4>2. qmgr_transport_throttle(tr, Unavailable).dead
        BY DEF qmgr_transport_throttle, Calm, QMGR_TRANSPORT
      <4> QED BY <1>3, <4>1, <4>2
    <3> QED BY <3>1, <3>2
  <2>2. Deferrable(queue, T, S, Unavailable)
    BY <1>1, <2>1 DEF Deferrable, QueuesOf
  <2>3. queue' = qmgr_defer_todo(queue, T, S, Unavailable)
    BY <1>3 DEF qmgr_defer_transport
  <2> HIDE DEF S
  <2> QED BY <1>2, <2>2, <2>3, FollowsDefer
<1>4. ASSUME queue' = queue PROVE Follows(queue, queue')
  BY <1>4 DEF Follows, StillPaused
<1>5. ASSUME NEW qe \in Selectable(t),
             queue' = [queue EXCEPT ![qe[1]] = qmgr_entry_select(@, qe[2])]
      PROVE  Follows(queue, queue')
  <2> DEFINE q == qe[1]
             e == qe[2]
             r == qmgr_entry_select(queue[q], e)
  <2>1. q \in Queue /\ e \in queue[q].todo
    BY <1>5 DEF Selectable, QueuesOf
  <2>2. queue' = [queue EXCEPT ![q] = r]
    BY <1>5
  <2> HIDE DEF q, e
  <2>3. /\ r.todo = queue[q].todo \ {e} /\ r.busy = queue[q].busy \cup {e}
        /\ Paused(queue[q]) => Paused(r)
    <3>1. queue[q] \in QMGR_QUEUE
      BY <1>1, <2>1
    <3>2. Paused(queue[q]) => Paused(r)
      BY <3>1, PausedOps
    <3> QED BY <3>1, <3>2 DEF qmgr_entry_select, QMGR_QUEUE
  <2> HIDE DEF r
  <2>4. \A p \in Queue : queue'[p] = IF p = q THEN r ELSE queue[p]
    BY <1>1, <2>1, <2>2
  <2>5. Tidy(r)
    BY <2>3 DEF Tidy, IsEmpty
  <2>6. StillPaused(queue, queue')
    BY <2>3, <2>4 DEF StillPaused
  <2>7. TidySites(queue) => TidySites(queue')
    BY <2>4, <2>5 DEF TidySites, Queue
  <2>8. ASSUME Exclusive(queue) PROVE Exclusive(queue')
    <3> SUFFICES ASSUME NEW q1 \in Queue, NEW q2 \in Queue
                 PROVE  /\ queue'[q1].todo \cap queue'[q2].busy = {}
                        /\ q1 # q2 => /\ queue'[q1].todo \cap queue'[q2].todo = {}
                                      /\ queue'[q1].busy \cap queue'[q2].busy = {}
      BY DEF Exclusive
    <3>1. \A p1, p2 \in Queue :
             /\ queue[p1].todo \cap queue[p2].busy = {}
             /\ p1 # p2 => /\ queue[p1].todo \cap queue[p2].todo = {}
                           /\ queue[p1].busy \cap queue[p2].busy = {}
      BY <2>8 DEF Exclusive
    <3>2. /\ queue'[q].todo = queue[q].todo \ {e} /\ queue'[q].busy = queue[q].busy \cup {e}
          /\ \A p \in Queue \ {q} : queue'[p] = queue[p]
      BY <2>1, <2>3, <2>4
    <3>3. /\ \A p \in Queue : e \notin queue[p].busy
          /\ \A p \in Queue \ {q} : e \notin queue[p].todo
      BY <2>1, <3>1
    <3>4. CASE q1 # q /\ q2 # q
      <4>1. queue'[q1] = queue[q1] /\ queue'[q2] = queue[q2]
        BY <3>2, <3>4
      <4> QED BY <3>1, <4>1
    <3>5. CASE q1 = q /\ q2 = q
      <4>1. queue[q].todo \cap queue[q].busy = {}
        BY <2>1, <3>1
      <4> QED BY <3>2, <3>5, <4>1
    <3>6. ASSUME NEW p \in Queue, p # q
          PROVE  /\ queue'[p].todo \cap queue'[q].busy = {}
                 /\ queue'[q].todo \cap queue'[p].busy = {}
                 /\ queue'[p].todo \cap queue'[q].todo = {}
                 /\ queue'[p].busy \cap queue'[q].busy = {}
      <4>1. queue'[p] = queue[p]
        BY <3>2, <3>6
      <4>2. /\ queue[p].todo \cap queue[q].busy = {} /\ queue[q].todo \cap queue[p].busy = {}
            /\ queue[p].todo \cap queue[q].todo = {} /\ queue[p].busy \cap queue[q].busy = {}
        BY <2>1, <3>1, <3>6
      <4>3. e \notin queue[p].busy /\ e \notin queue[p].todo
        BY <3>3, <3>6
      <4> QED BY <3>2, <4>1, <4>2, <4>3
    <3> QED BY <3>4, <3>5, <3>6
  <2> QED BY <2>6, <2>7, <2>8 DEF Follows, Orderly
<1> QED BY <1>3, <1>4, <1>5 DEF qmgr_deliver, Queues

LEMMA FollowsEvent ==
    ASSUME IInv, NEW t \in Transport,
           qmgr_transport_event(t) \/ qmgr_transport_rate_event(t)
    PROVE  Follows(queue, queue')
<1> DEFINE old == transport[t]
           came == [old EXCEPT !.connecting = @ - 1, !.pending = @ - 1]
           d == old.delayed - 1
           waited == [old EXCEPT !.delayed = d]
<1>1. Calm(old)
  BY DEF IInv, Good, AllCalm
<1>2. CASE queue' = queue
  BY <1>2 DEF Follows, StillPaused
<1>3. ASSUME qmgr_deliver(t, came), old.connecting > 0 PROVE Follows(queue, queue')
  <2>1. old.connecting > 0
    BY <1>3
  <2> HIDE DEF old
  <2>2. Calm(came)
    BY <1>1, <2>1, TransportArriveCalm, Zenon
  <2> HIDE DEF came
  <2> QED BY <1>3, <2>2, FollowsDeliver DEF old
<1>4. ASSUME qmgr_deliver(t, waited), old.delayed > 0 PROVE Follows(queue, queue')
  <2> HIDE DEF old
  <2>1. d \in Nat
    BY <1>1, <1>4 DEF Calm, QMGR_TRANSPORT
  <2> HIDE DEF d
  <2>2. Calm(waited)
    BY <1>1, <2>1, TransportDelayCalm
  <2> HIDE DEF waited
  <2> QED BY <1>4, <2>2, FollowsDeliver DEF old
<1> QED BY <1>2, <1>3, <1>4 DEF qmgr_transport_event, qmgr_transport_rate_event

LEMMA FollowsUnthrottle ==
    ASSUME IInv, NEW q \in Queue, qmgr_queue_unthrottle_wrapper(q)
    PROVE  Follows(queue, queue')
<1> DEFINE t == TransportOf(q)
           old == queue[q]
           fired == [old EXCEPT !.timers = @ \ {"unthrottle"}, !.panic = @ \/ ~old.live]
           woken == qmgr_queue_unthrottle(t, fired)
           r == DoneIfIdle(t, woken)
<1>1. /\ queue \in [Queue -> QMGR_QUEUE] /\ Settled(t, old) /\ t \in Transport
      /\ "unthrottle" \in old.timers
      /\ queue' = [queue EXCEPT ![q] = r]
  BY TransportOfType
  DEF IInv, Good, AllSettled, qmgr_queue_unthrottle_wrapper, Queues
<1> HIDE DEF old, t
<1>2. /\ old \in QMGR_QUEUE /\ old.live = TRUE /\ old.window = 0 /\ old.panic = FALSE
      /\ "resume" \notin old.timers /\ old.dsn # NoDsn
      /\ Limited(t, 0) /\ Limited(t, Cardinality(old.busy))
  BY <1>1 DEF Settled, Sound, QMGR_QUEUE
<1>3. /\ fired \in QMGR_QUEUE /\ fired.live = TRUE /\ fired.window = 0 /\ fired.panic = FALSE
      /\ "resume" \notin fired.timers /\ fired.dsn = old.dsn
      /\ fired.todo = old.todo /\ fired.busy = old.busy
  BY <1>2 DEF QMGR_QUEUE
<1> HIDE DEF fired
<1>4. Settled(t, woken) /\ woken.todo = old.todo /\ woken.busy = old.busy
  <2>1. (fired.dsn # NoDsn) <=> (fired.window = 0)
    BY <1>2, <1>3
  <2>2. Limited(t, fired.window) /\ Limited(t, Cardinality(fired.busy)) /\ fired.window >= 0
    BY <1>2, <1>3
  <2>3. fired.window > 0 => "unthrottle" \notin fired.timers
    BY <1>3
  <2> HIDE DEF woken
  <2>4. Settled(t, woken) /\ woken.todo = fired.todo /\ woken.busy = fired.busy
    BY <1>1, <1>3, <2>1, <2>2, <2>3, UnthrottleSound DEF woken
  <2> QED BY <1>3, <2>4
<1> HIDE DEF woken
<1>5. r.todo = old.todo /\ r.busy = old.busy /\ Tidy(r)
  BY <1>1, <1>4, DoneIfIdleSettled, DoneTidy
<1> HIDE DEF r
<1>6. ~Paused(old)
  BY <1>2 DEF Paused
<1> QED BY <1>1, <1>5, <1>6, FollowsOne DEF old

\* The resume timer is the one event that ends a pause.
LEMMA FollowsResume ==
    ASSUME IInv, NEW q \in Queue, qmgr_queue_resume_event(q)
    PROVE  /\ Orderly(queue) => Orderly(queue')
           /\ \A p \in Queue \ {q} : queue'[p] = queue[p]
<1> DEFINE t == TransportOf(q)
           old == queue[q]
           fired == [old EXCEPT !.panic = @ \/ ~old.live]
           r == qmgr_queue_resume(t, fired)
<1>1. /\ queue \in [Queue -> QMGR_QUEUE] /\ Settled(t, old) /\ t \in Transport
      /\ "resume" \in old.timers
      /\ queue' = [queue EXCEPT ![q] = r]
  BY TransportOfType
  DEF IInv, Good, AllSettled, qmgr_queue_resume_event, Queues
<1> HIDE DEF old, t
<1>2. old \in QMGR_QUEUE /\ old.live = TRUE /\ old.window = -1 /\ old.panic = FALSE
  BY <1>1 DEF Settled, Sound, QMGR_QUEUE
<1>3. fired = old
  BY <1>2 DEF QMGR_QUEUE
<1>4. r.todo = old.todo /\ r.busy = old.busy
  <2> HIDE DEF fired
  <2>1. Sound(t, old)
    BY <1>1 DEF Settled
  <2>2. r = qmgr_queue_resume(t, old)
    BY <1>3
  <2> QED BY <1>1, <1>2, <2>1, <2>2, ResumeSettled
<1>5. Tidy(r)
  BY DoneTidy DEF qmgr_queue_resume
<1> HIDE DEF r, fired
<1>6. \A p \in Queue : queue'[p] = IF p = q THEN r ELSE queue[p]
  BY <1>1
<1>7. TidySites(queue) => TidySites(queue')
  BY <1>5, <1>6 DEF TidySites, Queue
<1>8. Exclusive(queue) => Exclusive(queue')
  BY <1>4, <1>6 DEF Exclusive, old
<1> QED BY <1>6, <1>7, <1>8 DEF Orderly

LEMMA FollowsEnable ==
    ASSUME IInv, qmgr_enable_all
    PROVE  Follows(queue, queue')
<1>1. /\ queue' = [q \in Queue |-> qmgr_enable_queue(TransportOf(q), queue[q])]
      /\ queue \in [Queue -> QMGR_QUEUE]
  BY DEF qmgr_enable_all, Queues, IInv, Good, AllSettled
<1>2. ASSUME NEW q \in Queue
      PROVE  /\ queue'[q].todo = queue[q].todo /\ queue'[q].busy = queue[q].busy
             /\ Tidy(queue'[q])
             /\ Paused(queue[q]) => Paused(queue'[q])
  <2> DEFINE t == TransportOf(q)
             old == queue[q]
             woken == IF QMGR_QUEUE_THROTTLED(old) THEN qmgr_queue_unthrottle(t, old) ELSE old
  <2>1. Settled(t, old) /\ t \in Transport /\ old \in QMGR_QUEUE
    BY <1>1, TransportOfType DEF IInv, Good, AllSettled
  <2>2. queue'[q] = qmgr_enable_queue(t, old)
    BY <1>1
  <2> HIDE DEF old, t
  <2>3. Paused(old) => Paused(queue'[q])
    BY <2>1, <2>2, PausedOps
  <2>4. CASE ~old.live
    BY <2>1, <2>2, <2>3, <2>4 DEF qmgr_enable_queue, Tidy, old, QMGR_QUEUE
  <2>5. CASE old.live
    <3>1. queue'[q] = DoneIfIdle(t, woken)
      BY <2>2, <2>5 DEF qmgr_enable_queue
    <3>2. Settled(t, woken) /\ woken.todo = old.todo /\ woken.busy = old.busy
      <4>1. CASE QMGR_QUEUE_THROTTLED(old)
        <5>1. Sound(t, old) /\ old.live = TRUE /\ old.window >= 0
          BY <2>1, <2>5, <4>1 DEF Settled, QMGR_QUEUE_THROTTLED, THROTTLED, QMGR_QUEUE
        <5> QED BY <2>1, <4>1, <5>1, SettledUnthrottle
      <4>2. CASE ~QMGR_QUEUE_THROTTLED(old)
        BY <2>1, <4>2
      <4> QED BY <4>1, <4>2
    <3> HIDE DEF woken
    <3>3. queue'[q].todo = old.todo /\ queue'[q].busy = old.busy /\ Tidy(queue'[q])
      BY <2>1, <3>1, <3>2, DoneIfIdleSettled, DoneTidy
    <3> QED BY <2>3, <3>3 DEF old
  <2> QED BY <2>4, <2>5
<1>3. StillPaused(queue, queue')
  BY <1>2 DEF StillPaused
<1>4. TidySites(queue')
  BY <1>2 DEF TidySites, Queue
<1>5. Exclusive(queue) => Exclusive(queue')
  BY <1>2 DEF Exclusive
<1> QED BY <1>3, <1>4, <1>5 DEF Follows, Orderly

LEMMA FollowsAssign ==
    ASSUME IInv, NEW e \in Entry, NEW s \in Site, NEW flush \in BOOLEAN,
           qmgr_message_assign(e, s, flush)
    PROVE  Follows(queue, queue')
<1> DEFINE t == XportOf[s]
           T == IF flush /\ transport[t].dead
                THEN [transport EXCEPT ![t] = qmgr_transport_unthrottle(@)]
                ELSE transport
           name == IF T[t].dead THEN qmgr_error_nexthop(T[t].dsn) ELSE s
           made == [queue EXCEPT ![name] = qmgr_queue_create(TransportOf(name), @)]
           Q == IF flush /\ QMGR_QUEUE_THROTTLED(made[name])
                THEN [made EXCEPT ![name] = qmgr_queue_unthrottle(TransportOf(name), @)]
                ELSE made
           dsn == Q[name].dsn
           redirected == qmgr_error_queue(Q, T, dsn)
<1>1. /\ e \notin InCore
      /\ \/ queue' = queue
         \/ /\ ~QMGR_QUEUE_THROTTLED(Q[name])
            /\ queue' = [Q EXCEPT ![name] = qmgr_entry_create(@, e)]
         \/ /\ QMGR_QUEUE_THROTTLED(Q[name])
            /\ \/ queue' = redirected
               \/ queue' = [redirected EXCEPT ![dsn] = qmgr_entry_create(@, e)]
  BY Zenon DEF qmgr_message_assign, Queues, qmgr_error_nexthop
<1>2. /\ queue \in [Queue -> QMGR_QUEUE] /\ AllSound(queue) /\ Fresh(queue, e)
      /\ t \in Transport
  <2>1. queue \in [Queue -> QMGR_QUEUE] /\ AllSound(queue)
    BY SettledIsSound DEF IInv, Good, AllSettled
  <2>2. Fresh(queue, e)
    <3>1. e \notin InCore
      BY <1>1
    <3> QED BY <3>1 DEF InCore, Fresh
  <2>3. t \in Transport
    BY ConfigAssumption
  <2> HIDE DEF t
  <2> QED BY <2>1, <2>2, <2>3
<1>3. name \in Queue /\ TransportOf(name) \in Transport
  <2>1. Calm(transport[t]) /\ transport \in [Transport -> QMGR_TRANSPORT]
    BY <1>2 DEF IInv, Good, AllCalm
  <2>2. T[t].dead => T[t] = transport[t]
    <3>1. qmgr_transport_unthrottle(transport[t]).dead = FALSE
      BY <2>1, TransportUnthrottleCalm DEF Calm
    <3> HIDE DEF t
    <3> QED BY <1>2, <2>1, <3>1
  <2>3. T[t].dead => T[t].dsn \in Dsn
    BY <2>1, <2>2 DEF Calm, QMGR_TRANSPORT
  <2> QED BY <2>3, TransportOfType DEF qmgr_error_nexthop
<1> HIDE DEF name, T, t
<1> DEFINE old == queue[name]
           c == qmgr_queue_create(TransportOf(name), old)
           u == IF flush /\ QMGR_QUEUE_THROTTLED(c)
                THEN qmgr_queue_unthrottle(TransportOf(name), c) ELSE c
<1>4. /\ Sound(TransportOf(name), c) /\ c.live = TRUE
      /\ c.todo = old.todo /\ c.busy = old.busy
      /\ Paused(old) => Paused(c)
  <2>1. Sound(TransportOf(name), old) /\ old \in QMGR_QUEUE
    BY <1>2, <1>3 DEF AllSound
  <2> HIDE DEF old
  <2>2. Paused(old) => Paused(c)
    BY <2>1, PausedOps
  <2> QED BY <1>3, <2>1, <2>2, CreateSound
<1>5. made = [queue EXCEPT ![name] = c] /\ made[name] = c /\ AllSound(made)
  <2>1. made = [queue EXCEPT ![name] = c]
    OBVIOUS
  <2>2. AllSound([queue EXCEPT ![name] = c])
    BY <1>2, <1>3, <1>4, UpdateSound
  <2> QED BY <1>2, <1>3, <2>1, <2>2
<1> HIDE DEF made, c
<1>6. /\ u.todo = old.todo /\ u.busy = old.busy /\ u \in QMGR_QUEUE
      /\ Paused(old) => Paused(u)
      /\ QMGR_QUEUE_THROTTLED(u) => u = c
  <2>1. CASE flush /\ QMGR_QUEUE_THROTTLED(c)
    <3>1. c.window >= 0 /\ ~Paused(c)
      BY <2>1 DEF QMGR_QUEUE_THROTTLED, THROTTLED, Paused
    <3>2. /\ Settled(TransportOf(name), u) /\ u.window > 0
          /\ u.todo = c.todo /\ u.busy = c.busy
      BY <1>3, <1>4, <2>1, <3>1, SettledUnthrottle
    <3> HIDE DEF u
    <3> QED BY <1>4, <3>1, <3>2 DEF Settled, Sound, QMGR_QUEUE_THROTTLED, THROTTLED
  <2>2. CASE ~(flush /\ QMGR_QUEUE_THROTTLED(c))
    BY <1>4, <2>2 DEF Sound
  <2> QED BY <2>1, <2>2
<1>7. Q = [queue EXCEPT ![name] = u] /\ Q[name] = u
  BY <1>2, <1>3, <1>5, Zenon
<1> HIDE DEF u, Q
<1>8. CASE queue' = queue
  BY <1>8 DEF Follows, StillPaused
<1>9. CASE queue' = [Q EXCEPT ![name] = qmgr_entry_create(@, e)]
  <2> DEFINE r == qmgr_entry_create(u, e)
  <2>1. queue' = [queue EXCEPT ![name] = r]
    BY <1>2, <1>7, <1>9
  <2>2. r.todo = old.todo \cup {e} /\ r.busy = old.busy
    BY <1>6 DEF qmgr_entry_create, QMGR_QUEUE
  <2>3. Paused(old) => Paused(r)
    BY <1>6, PausedOps
  <2> HIDE DEF r
  <2> QED BY <1>2, <1>3, <2>1, <2>2, <2>3, FollowsNew
<1>10. CASE QMGR_QUEUE_THROTTLED(Q[name])
  <2>1. Q = made /\ Q[name] = c /\ c.window = 0
    BY <1>5, <1>6, <1>7, <1>10 DEF QMGR_QUEUE_THROTTLED, THROTTLED
  <2>2. AllSound(Q) /\ dsn \in Dsn
    BY <1>4, <1>5, <2>1 DEF Sound, QMGR_QUEUE
  <2>3. Follows(queue, Q)
    <3>1. Tidy(c)
      BY <2>1 DEF Tidy
    <3>2. Follows(queue, [queue EXCEPT ![name] = c])
      BY <1>2, <1>3, <1>4, <3>1, FollowsOne
    <3> QED BY <1>5, <2>1, <3>2
  <2> HIDE DEF dsn
  <2>4. /\ Follows(Q, redirected) /\ redirected \in [Queue -> QMGR_QUEUE]
        /\ \A q \in Queue : redirected[q].todo = Q[q].todo /\ redirected[q].busy = Q[q].busy
    BY <2>2, FollowsError
  <2> HIDE DEF redirected
  <2>5. Follows(queue, redirected)
    BY <2>3, <2>4, FollowsChain
  <2>6. CASE queue' = redirected
    BY <2>5, <2>6
  <2>7. CASE queue' = [redirected EXCEPT ![dsn] = qmgr_entry_create(@, e)]
    <3> DEFINE o == redirected[dsn]
               r == qmgr_entry_create(o, e)
    <3>1. dsn \in Queue
      BY <2>2, TransportOfType
    <3>2. o \in QMGR_QUEUE
      BY <2>4, <3>1
    <3>3. queue' = [redirected EXCEPT ![dsn] = r]
      BY <2>7
    <3>4. r.todo = o.todo \cup {e} /\ r.busy = o.busy
      BY <3>2 DEF qmgr_entry_create, QMGR_QUEUE
    <3>5. Paused(o) => Paused(r)
      BY <3>2, PausedOps
    <3>6. Fresh(redirected, e)
      <4>1. \A q \in Queue : Q[q].todo = queue[q].todo /\ Q[q].busy = queue[q].busy
        BY <1>2, <1>3, <1>6, <1>7
      <4> QED BY <1>2, <2>4, <4>1 DEF Fresh
    <3> HIDE DEF r
    <3>7. Follows(redirected, [redirected EXCEPT ![dsn] = r])
      BY <2>4, <3>1, <3>4, <3>5, <3>6, FollowsNew
    <3> QED BY <2>5, <3>3, <3>7, FollowsChain
  <2> QED BY <1>1, <1>8, <1>9, <1>10, <2>6, <2>7
<1> QED BY <1>1, <1>8, <1>9, <1>10

LEMMA FollowsThrottle ==
    ASSUME NEW Q, NEW T, NEW d, Good(Q, T, d), NEW q \in Queue, NEW dsn \in Dsn,
           Q[q].live = TRUE, Q[q].window > 0, Q[q].busy # {}
    PROVE  Follows(Q, Avoided(Q, T, q, dsn))
<1> DEFINE t == TransportOf(q)
           old == Q[q]
           r == qmgr_queue_throttle(t, old, dsn)
           Q1 == [Q EXCEPT ![q] = qmgr_queue_throttle(t, @, dsn)]
<1>1. /\ AllSound(Q) /\ Q \in [Queue -> QMGR_QUEUE] /\ t \in Transport
      /\ \A p \in Queue : Q[p].window = 0 => Q[p].todo = {}
  BY TransportOfType, SettledIsSound DEF Good, AllSettled, Settled
<1>2. Sound(t, old) /\ old.live = TRUE /\ old.window > 0 /\ old.busy # {}
  BY <1>1 DEF AllSound
<1> HIDE DEF old
<1>3. Sound(t, r) /\ r.todo = old.todo /\ r.busy = old.busy
  <2>1. t \in Transport
    BY <1>1
  <2> HIDE DEF t
  <2> QED BY <1>2, <2>1, ThrottleSound, Zenon
<1>4. Q1 = [Q EXCEPT ![q] = r]
  BY DEF old
<1> HIDE DEF r, Q1
<1>5. AllSound(Q1)
  <2>1. AllSound([Q EXCEPT ![q] = r])
    BY <1>1, <1>3, UpdateSound
  <2> QED BY <1>4, <2>1
<1>6. Follows(Q, Q1)
  <2>1. Tidy(r) /\ ~Paused(old)
    BY <1>2, <1>3 DEF Tidy, IsEmpty, Paused
  <2>2. Follows(Q, [Q EXCEPT ![q] = r])
    BY <1>1, <1>3, <2>1, FollowsOne DEF old
  <2> QED BY <1>4, <2>2
<1>7. CASE QMGR_QUEUE_THROTTLED(Q1[q])
  <2>1. HasErrorQueue(Q1, T, dsn) => dsn \notin {q}
    BY <1>7 DEF HasErrorQueue, qmgr_error_nexthop
  <2>2. \A p \in Queue \ {q} : Q1[p].window = 0 => Q1[p].todo = {}
    BY <1>1, <1>4
  <2>3. Deferrable(Q1, T, {q}, dsn)
    BY <1>5, <2>1, <2>2 DEF Deferrable
  <2>4. Follows(Q1, qmgr_defer_todo(Q1, T, {q}, dsn))
    BY <2>3, FollowsDefer
  <2>5. Avoided(Q, T, q, dsn) = qmgr_defer_todo(Q1, T, {q}, dsn)
    BY <1>7 DEF Avoided, Q1
  <2> QED BY <1>6, <2>4, <2>5, FollowsChain
<1>8. CASE ~QMGR_QUEUE_THROTTLED(Q1[q])
  <2>1. Avoided(Q, T, q, dsn) = Q1
    BY <1>8 DEF Avoided, Q1
  <2> QED BY <1>6, <2>1
<1> QED BY <1>7, <1>8

LEMMA FollowsUpdate ==
    ASSUME IInv, NEW q \in Queue, NEW e \in queue[q].busy,
           NEW report \in DeliveryReport(q), qmgr_deliver_update(q, e, report)
    PROVE  Follows(queue, queue')
<1> DEFINE t == TransportOf(q)
           site_problem == report.status # "ok" /\ report.seen # NoDsn
           dsn == IF site_problem THEN SuspendedPrefix(report.seen) ELSE report.seen
           throttle == site_problem /\ QMGR_QUEUE_READY(queue[q])
           Q1 == IF throttle
                 THEN [queue EXCEPT ![q] = qmgr_queue_throttle(t, @, dsn)]
                 ELSE queue
           Q2 == IF throttle /\ QMGR_QUEUE_THROTTLED(Q1[q])
                 THEN qmgr_defer_todo(Q1, transport, {q}, dsn)
                 ELSE Q1
           Q3 == IF report.status # "crash" /\ report.seen = NoDsn
                 THEN [Q2 EXCEPT ![q] = qmgr_queue_unthrottle(t, @)]
                 ELSE Q2
           R == [Q3 EXCEPT ![q] = qmgr_entry_done(t, @, e, Crowded(Q3))]
<1>1. (site_problem => report.seen[2] < MaxPrefix) /\ queue' = R
  BY DEF qmgr_deliver_update, Queues
<1>2. /\ AllSettled(queue) /\ Settled(t, queue[q]) /\ t \in Transport
      /\ queue \in [Queue -> QMGR_QUEUE] /\ dsb \in Reported \cup {NoDsn}
  BY TransportOfType DEF IInv, Good, AllSettled
<1>3. queue[q].live = TRUE
  BY <1>2 DEF Settled, Sound, QMGR_QUEUE
<1>4. site_problem => dsn \in Dsn
  <2>1. report.seen \in Reported \cup {NoDsn}
    BY <1>2, ReportType
  <2>2. site_problem => SuspendedPrefix(report.seen) \in Reported
    BY <1>1, <2>1, PrefixType
  <2> QED BY <2>2 DEF Dsn
<1> HIDE DEF t, dsn
<1>5. /\ Good(Q2, transport, dsb) /\ Q2[q].busy = queue[q].busy
      /\ Follows(queue, Q2)
  <2>1. CASE throttle
    <3>1. dsn \in Dsn /\ queue[q].window > 0 /\ queue[q].busy # {}
      BY <1>4, <2>1 DEF QMGR_QUEUE_READY
    <3>2. Q2 = Avoided(queue, transport, q, dsn)
      BY <2>1 DEF Avoided, t
    <3> HIDE DEF Q1, Q2
    <3>3. Good(Q2, transport, dsb) /\ Q2[q].busy = queue[q].busy
      BY <1>3, <3>1, <3>2, GoodThrottle DEF IInv
    <3>4. Follows(queue, Q2)
      BY <1>3, <3>1, <3>2, FollowsThrottle DEF IInv
    <3> QED BY <3>3, <3>4
  <2>2. CASE ~throttle
    BY <2>2 DEF IInv, Follows, StillPaused
  <2> QED BY <2>1, <2>2
<1> HIDE DEF Q2
<1>6. ASSUME NEW Q, Good(Q, transport, dsb), Q[q].busy = queue[q].busy
      PROVE  /\ Q \in [Queue -> QMGR_QUEUE] /\ Settled(t, Q[q]) /\ Sound(t, Q[q])
             /\ Q[q].live = TRUE /\ Q[q].window >= 0 /\ ~Paused(Q[q])
  <2>1. Q \in [Queue -> QMGR_QUEUE] /\ Settled(t, Q[q])
    BY <1>6 DEF Good, AllSettled, t
  <2>2. Sound(t, Q[q]) /\ Q[q].busy # {}
    BY <1>6, <2>1 DEF Settled
  <2> QED BY <2>1, <2>2 DEF Sound, QMGR_QUEUE, SUSPENDED, Paused
<1>7. Good(Q3, transport, dsb) /\ Q3[q].busy = queue[q].busy /\ Follows(queue, Q3)
  <2>1. CASE report.status # "crash" /\ report.seen = NoDsn
    <3> DEFINE old == Q2[q]
               r == qmgr_queue_unthrottle(t, old)
    <3>1. /\ Q2 \in [Queue -> QMGR_QUEUE] /\ Sound(t, old)
          /\ old.live = TRUE /\ old.window >= 0 /\ ~Paused(old) /\ old.busy = queue[q].busy
      BY <1>5, <1>6
    <3> HIDE DEF old
    <3>2. Settled(t, r) /\ r.todo = old.todo /\ r.busy = old.busy
      BY <1>2, <3>1, SettledUnthrottle
    <3>3. Q3 = [Q2 EXCEPT ![q] = r]
      BY <2>1 DEF old
    <3> HIDE DEF r, Q3
    <3>4. Tidy(r)
      BY <3>1, <3>2 DEF Tidy, IsEmpty
    <3>5. Follows(Q2, [Q2 EXCEPT ![q] = r])
      BY <3>1, <3>2, <3>4, FollowsOne DEF old
    <3>6. Good([Q2 EXCEPT ![q] = r], transport, dsb)
      BY <1>5, <3>2, GoodOneQueue DEF old, t
    <3> QED BY <1>5, <3>1, <3>2, <3>3, <3>5, <3>6, FollowsChain
  <2>2. CASE ~(report.status # "crash" /\ report.seen = NoDsn)
    BY <1>5, <2>2
  <2> QED BY <2>1, <2>2
<1> HIDE DEF Q3
<1> DEFINE old == Q3[q]
           crowded == Crowded(Q3)
           r == qmgr_entry_done(t, old, e, crowded)
<1>8. /\ Q3 \in [Queue -> QMGR_QUEUE] /\ Settled(t, old)
      /\ Finishing(old, e) /\ ~Paused(old) /\ crowded \in BOOLEAN
  <2>1. Good(Q3, transport, dsb) /\ old.busy = queue[q].busy
    BY <1>7
  <2>2. /\ Q3 \in [Queue -> QMGR_QUEUE] /\ Settled(t, old)
        /\ old.live = TRUE /\ ~Paused(old)
    BY <1>6, <2>1
  <2>3. crowded \in BOOLEAN
    BY DEF Crowded
  <2> HIDE DEF old, crowded
  <2> QED BY <2>1, <2>2, <2>3 DEF Finishing
<1>9. R = [Q3 EXCEPT ![q] = r]
  OBVIOUS
<1> HIDE DEF old, crowded
<1>10. r.todo = old.todo /\ r.busy = old.busy \ {e} /\ Tidy(r)
  <2>1. Tidy(r)
    BY EntryDoneTidy
  <2> HIDE DEF r
  <2>2. Finished(t, old, e, r)
    BY <1>2, <1>8, EntryDoneSettled DEF r
  <2> QED BY <2>1, <2>2 DEF Finished
<1> HIDE DEF r, R
<1>11. Follows(Q3, [Q3 EXCEPT ![q] = r])
  BY <1>8, <1>10, FollowsOne DEF old
<1> QED BY <1>1, <1>7, <1>9, <1>11, FollowsChain

LEMMA FollowsInit == Init => Orderly(queue)
<1> SUFFICES ASSUME Init PROVE Orderly(queue)
  OBVIOUS
<1>1. ASSUME NEW q \in Queue
      PROVE  queue[q].live = FALSE /\ queue[q].todo = {} /\ queue[q].busy = {}
  BY DEF Init, NoQueue
<1>2. Site \subseteq Queue
  BY DEF Queue
<1> QED BY <1>1, <1>2 DEF Orderly, TidySites, Tidy, Exclusive

\* One event: only the queue's own timer ends its pause.
LEMMA OrderlyStep ==
    ASSUME IInv, [Next]_vars
    PROVE  /\ Orderly(queue) => Orderly(queue')
           /\ \A q \in Queue : Paused(queue[q]) =>
                 Paused(queue'[q]) \/ qmgr_queue_resume_event(q) \/ qmgr_abort
<1>1. CASE Follows(queue, queue')
  BY <1>1 DEF Follows, StillPaused
<1>2. CASE UNCHANGED queue
  BY <1>2
<1>3. ASSUME NEW t \in Transport, qmgr_transport_alloc(t) \/ TransportEvent(t)
      PROVE  Follows(queue, queue') \/ UNCHANGED queue
  BY <1>3, FollowsEvent
  DEF qmgr_transport_alloc, TransportEvent, qmgr_transport_unthrottle_wrapper
<1>4. ASSUME NEW q \in Queue, qmgr_queue_resume_event(q)
      PROVE  /\ Orderly(queue) => Orderly(queue')
             /\ \A p \in Queue : Paused(queue[p]) =>
                   Paused(queue'[p]) \/ qmgr_queue_resume_event(p)
  <2>1. /\ Orderly(queue) => Orderly(queue')
        /\ \A p \in Queue \ {q} : queue'[p] = queue[p]
    BY <1>4, FollowsResume
  <2> QED BY <1>4, <2>1
<1>5. CASE qmgr_abort
  <2>1. queue' = [q \in Queue |-> NoQueue(TransportOf(q))]
    BY <1>5 DEF qmgr_abort
  <2>2. ASSUME NEW q \in Queue
        PROVE  queue'[q].live = FALSE /\ queue'[q].todo = {} /\ queue'[q].busy = {}
    BY <2>1 DEF NoQueue
  <2>3. Site \subseteq Queue
    BY DEF Queue
  <2>4. Orderly(queue')
    BY <2>2, <2>3 DEF Orderly, TidySites, Tidy, Exclusive
  <2> QED BY <1>5, <2>4
<1>6. CASE UNCHANGED vars
  BY <1>2, <1>6 DEF vars
<1>7. CASE Next
  <2>1. CASE \E e \in Entry, s \in Site, flush \in BOOLEAN : qmgr_message_assign(e, s, flush)
    BY <1>1, <2>1, FollowsAssign
  <2>2. CASE \E q \in Queue : QueueTimer(q)
    BY <1>1, <1>4, <2>2, FollowsUnthrottle DEF QueueTimer
  <2>3. CASE \E q \in Queue : \E e \in queue[q].busy, r \in DeliveryReport(q) :
                qmgr_deliver_update(q, e, r)
    BY <1>1, <2>3, FollowsUpdate
  <2>4. CASE qmgr_enable_all
    BY <1>1, <2>4, FollowsEnable
  <2> QED BY <1>1, <1>2, <1>3, <1>5, <1>7, <2>1, <2>2, <2>3, <2>4 DEF Next
<1> QED BY <1>6, <1>7

-----------------------------------------------------------------------------
(***************************************************************************)
(* The theorems.                                                           *)
(***************************************************************************)

\* Every event handler preserves the invariant.
THEOREM Inductive == Spec => []IInv
<1>1. ASSUME Init PROVE IInv
  BY <1>1, InitGood DEF Init, IInv
<1>2. ASSUME IInv, [Next]_vars PROVE IInv'
  <2>1. CASE UNCHANGED vars
    BY <1>2, <2>1 DEF IInv, vars
  <2>2. ASSUME NEW e \in Entry, NEW s \in Site, NEW flush \in BOOLEAN,
               qmgr_message_assign(e, s, flush)
        PROVE  IInv'
    BY <1>2, <2>2, AssignStep
  <2>3. ASSUME NEW t \in Transport, qmgr_transport_alloc(t) PROVE IInv'
    BY <1>2, <2>3, AllocStep
  <2>4. ASSUME NEW t \in Transport, TransportEvent(t) PROVE IInv'
    BY <1>2, <2>4, EventStep, RateEventStep, TransportTimerStep
    DEF TransportEvent
  <2>5. ASSUME NEW q \in Queue, QueueTimer(q) PROVE IInv'
    BY <1>2, <2>5, QueueTimerStep, ResumeStep DEF QueueTimer
  <2>6. ASSUME NEW q \in Queue, NEW e \in queue[q].busy,
               NEW r \in DeliveryReport(q), qmgr_deliver_update(q, e, r)
        PROVE  IInv'
    BY <1>2, <2>6, UpdateStep
  <2>7. CASE qmgr_enable_all
    BY <1>2, <2>7, EnableStep
  <2>8. CASE qmgr_abort
    BY <2>8, AbortStep
  <2> QED
    BY <1>2, <2>1, <2>2, <2>3, <2>4, <2>5, <2>6, <2>7, <2>8 DEF Next
<1> QED
  BY <1>1, <1>2, PTL DEF Spec

\* The state of queues and transports is always well formed.
THEOREM TypeCorrect == Spec => []TypeOK
<1>1. ASSUME IInv PROVE TypeOK
  BY <1>1 DEF IInv, Good, AllSettled, AllCalm, TypeOK, Dsn
<1> QED
  BY <1>1, Inductive, PTL

\* No sanity check of the queue manager's flow control ever calls
\* msg_panic(), whatever agents, timers and administrators do.
THEOREM NeverPanics == Spec => []NoPanic
<1>1. ASSUME IInv PROVE NoPanic
  BY <1>1 DEF IInv, Good, AllSettled, AllCalm, Settled, Sound, Calm, NoPanic
<1> QED
  BY <1>1, Inductive, PTL

\* Back-off and resume timers are pending exactly in the states that they
\* end, so no event handler is left dangling when a queue goes away.
THEOREM TimersExact == Spec => []TimersMatchState
<1>1. ASSUME IInv PROVE TimersMatchState
  <2>1. ASSUME NEW q \in Queue
        PROVE  /\ ("unthrottle" \in queue[q].timers) <=>
                     (queue[q].live /\ QMGR_QUEUE_THROTTLED(queue[q]))
               /\ ("resume" \in queue[q].timers) <=>
                     (queue[q].live /\ QMGR_QUEUE_SUSPENDED(queue[q]))
               /\ (queue[q].dsn # NoDsn) <=> QMGR_QUEUE_THROTTLED(queue[q])
    BY <1>1 DEF IInv, Good, AllSettled, Settled, Sound, QMGR_QUEUE,
       QMGR_QUEUE_THROTTLED, QMGR_QUEUE_SUSPENDED, THROTTLED, SUSPENDED
  <2>2. ASSUME NEW t \in Transport
        PROVE  /\ transport[t].timer <=> transport[t].dead
               /\ (transport[t].dsn # NoDsn) <=> transport[t].dead
    BY <1>1 DEF IInv, Good, AllCalm, Calm, QMGR_TRANSPORT
  <2> QED
    BY <2>1, <2>2 DEF TimersMatchState
<1> QED
  BY <1>1, Inductive, PTL

\* No destination gets more deliveries at a time than its limit, for any
\* limit, any feedback and any order of agent reports.
THEOREM WithinLimits == Spec => []ConcurrencyBounded
<1>1. ASSUME IInv PROVE ConcurrencyBounded
  <2> SUFFICES ASSUME NEW q \in Queue
               PROVE  LET limit == dest_concurrency_limit(TransportOf(q))
                      IN  /\ limit > 0 => /\ queue[q].window <= limit
                                          /\ Cardinality(queue[q].busy) <= limit
                          /\ QMGR_QUEUE_SUSPENDED(queue[q]) => queue[q].busy = {}
    BY DEF ConcurrencyBounded
  <2>1. Sound(TransportOf(q), queue[q])
    BY <1>1 DEF IInv, Good, AllSettled, Settled
  <2> QED
    BY <2>1 DEF Sound, Limited, QMGR_QUEUE_SUSPENDED, SUSPENDED
<1> QED
  BY <1>1, Inductive, PTL

\* Nothing waits behind a site or a transport that is in back-off.
THEOREM BackoffIsEmpty == Spec => []NothingParked
<1>1. ASSUME IInv PROVE NothingParked
  <2> SUFFICES ASSUME NEW q \in Queue,
                      \/ QMGR_QUEUE_THROTTLED(queue[q])
                      \/ transport[TransportOf(q)].dead
                      \/ ~queue[q].live
               PROVE  queue[q].todo = {}
    BY DEF NothingParked
  <2>1. /\ Settled(TransportOf(q), queue[q])
        /\ Calm(transport[TransportOf(q)])
    BY <1>1, TransportOfType DEF IInv, Good, AllSettled, AllCalm
  <2>2. CASE QMGR_QUEUE_THROTTLED(queue[q])
    BY <2>1, <2>2 DEF Settled, QMGR_QUEUE_THROTTLED, THROTTLED
  <2>3. CASE transport[TransportOf(q)].dead
    BY <1>1, <2>1, <2>3 DEF IInv, Good, Parked, Calm, QMGR_TRANSPORT
  <2>4. CASE ~queue[q].live
    BY <2>1, <2>4 DEF Settled, Sound, QMGR_QUEUE
  <2> QED
    BY <2>2, <2>3, <2>4
<1> QED
  BY <1>1, Inductive, PTL

\* The count of pending connections never drifts from the connections that
\* are pending, and stays within QMGR_TRANSPORT_MAX_PEND.
THEOREM PendingCount == Spec => []PendingExact
<1>1. ASSUME IInv PROVE PendingExact
  BY <1>1 DEF IInv, Good, AllCalm, Calm, PendingExact
<1> QED
  BY <1>1, Inductive, PTL

\* A transport with a transport rate delay never has two requests in
\* flight, and never one without the rate lock.
THEOREM RateLockHeld == Spec => []RateLockExclusive
<1>1. ASSUME IInv PROVE RateLockExclusive
  <2> SUFFICES ASSUME NEW t \in Transport, XportRateDelay[t]
               PROVE  LET wire == {qe \in QueuesOf(t) \X Entry :
                                     qe[2] \in queue[qe[1]].busy}
                          inflight == transport[t].connecting + transport[t].delayed
                                      + Cardinality(wire)
                      IN  /\ inflight <= 1
                          /\ inflight = 1 => transport[t].rate_lock
    BY DEF RateLockExclusive
  <2> DEFINE wire == {qe \in QueuesOf(t) \X Entry : qe[2] \in queue[qe[1]].busy}
             tr == transport[t]
  <2>1. Calm(tr) /\ OneInFlight(t, queue, tr)
    BY <1>1 DEF IInv, Good, AllCalm
  <2> HIDE DEF tr
  <2>2. tr.connecting \in Nat /\ tr.delayed \in Nat
    BY <2>1 DEF Calm, QMGR_TRANSPORT
  <2>3. CASE wire = {}
    <3>1. Cardinality(wire) = 0
      BY <2>3, FS_EmptySet
    <3> HIDE DEF wire
    <3>2. tr.connecting + tr.delayed <= 1
      BY <2>1 DEF OneInFlight
    <3>3. tr.connecting + tr.delayed > 0 => tr.rate_lock
      BY <2>1 DEF OneInFlight, Reserved
    <3> QED
      BY <2>2, <3>1, <3>2, <3>3 DEF tr, wire
  <2>4. CASE wire # {}
    <3>1. PICK x \in wire : TRUE
      BY <2>4
    <3>2. /\ x[1] \in QueuesOf(t) /\ x[2] \in queue[x[1]].busy
      BY <3>1
    <3>3. \A y \in wire : y = x
      BY <2>1, <3>1, <3>2 DEF OneInFlight
    <3>4. wire = {x}
      BY <3>1, <3>3
    <3> HIDE DEF wire
    <3>5. Cardinality(wire) = 1
      BY <3>4, FS_Singleton
    <3>6. tr.rate_lock = TRUE /\ ~(tr.connecting + tr.delayed > 0)
      BY <2>1, <3>2 DEF OneInFlight, Reserved
    <3> QED
      BY <2>2, <3>5, <3>6 DEF tr, wire
  <2> QED
    BY <2>3, <2>4
<1> QED
  BY <1>1, Inductive, PTL

\* Nobody removes or revives a suspended queue but qmgr_queue_resume_event()
\* for that very queue, in whatever order reports about its other entries,
\* flushes, and failures of its transport come; only the end of the queue
\* manager itself ends the pause early.
THEOREM PauseHonoured == Spec => SuspensionHonoured
<1>1. ASSUME IInv, [Next]_vars
      PROVE  [\A q \in Queue : queue[q].live /\ QMGR_QUEUE_SUSPENDED(queue[q]) =>
                 \/ queue'[q].live /\ QMGR_QUEUE_SUSPENDED(queue'[q])
                 \/ qmgr_queue_resume_event(q)
                 \/ qmgr_abort]_vars
  <2> SUFFICES ASSUME NEW q \in Queue, queue[q].live, QMGR_QUEUE_SUSPENDED(queue[q])
               PROVE  \/ queue'[q].live /\ QMGR_QUEUE_SUSPENDED(queue'[q])
                      \/ qmgr_queue_resume_event(q)
                      \/ qmgr_abort
    OBVIOUS
  <2>1. Paused(queue[q])
    BY DEF IInv, Good, AllSettled, QMGR_QUEUE, Paused, QMGR_QUEUE_SUSPENDED, SUSPENDED
  <2>2. Paused(queue'[q]) \/ qmgr_queue_resume_event(q) \/ qmgr_abort
    BY <1>1, <2>1, OrderlyStep
  <2> QED BY <2>2 DEF Paused, QMGR_QUEUE_SUSPENDED, SUSPENDED
<1> QED BY <1>1, Inductive, PTL DEF Spec, SuspensionHonoured

\* An entry is never on two lists or in two queues, although
\* qmgr_entry_move_todo() moves whole lists; and no site without mail stays
\* behind in ready state.  With QueueListExact these make up ListsExact.
THEOREM EntriesExact == Spec => [](EntryOnOneList /\ NoIdleSite)
<1>1. Init => Orderly(queue)
  BY FollowsInit
<1>2. IInv /\ Orderly(queue) /\ [Next]_vars => Orderly(queue)'
  BY OrderlyStep
<1>3. IInv /\ Orderly(queue) => EntryOnOneList /\ NoIdleSite
  <2> SUFFICES ASSUME IInv, Orderly(queue) PROVE EntryOnOneList /\ NoIdleSite
    OBVIOUS
  <2>1. EntryOnOneList
    BY DEF Orderly, Exclusive, EntryOnOneList
  <2>2. NoIdleSite
    <3>1. \A s \in Site : queue[s] \in QMGR_QUEUE
      BY TransportOfType DEF IInv, Good, AllSettled
    <3> QED BY <3>1 DEF Orderly, TidySites, Tidy, NoIdleSite, QMGR_QUEUE_READY, QMGR_QUEUE
  <2> QED BY <2>1, <2>2
<1> QED BY <1>1, <1>2, <1>3, Inductive, PTL DEF Spec

-----------------------------------------------------------------------------
(***************************************************************************)
(* The list of queues of a transport.                                      *)
(***************************************************************************)
\* The list holds each live queue of the transport once, and nothing else.
Listed(t, list, Q) ==
    /\ list \in Seq(Queue)
    /\ Once(list)
    /\ ToSet(list) = {q \in QueuesOf(t) : Q[q].live}

AllListed == \A t \in Transport : Listed(t, queue_list[t], queue)

\* There are finitely many names of queues.
LEMMA QueueFinite == IsFiniteSet(Queue)
<1>1. IsFiniteSet(0..MaxPrefix)
  BY ConfigAssumption, FS_Interval
<1>2. IsFiniteSet(Reported)
  BY <1>1, SiteAssumption, FS_Product DEF Reported
<1>3. IsFiniteSet(Dsn)
  BY <1>2, FS_Singleton, FS_Union DEF Dsn
<1> QED BY <1>3, SiteAssumption, FS_Union DEF Queue

\* SetToSeq: a list of all elements of a finite set, each once.
LEMMA InSomeOrder ==
    ASSUME NEW S, IsFiniteSet(S)
    PROVE  /\ SetToSeq(S) \in Seq(S)
           /\ Once(SetToSeq(S))
           /\ \A x \in S : \E i \in 1..Len(SetToSeq(S)) : SetToSeq(S)[i] = x
<1> DEFINE n == Cardinality(S)
<1>1. n \in Nat /\ ExistsBijection(1..n, S)
  BY FS_CardinalityType
<1>2. PICK g \in Bijection(1..n, S) : TRUE
  BY <1>1 DEF ExistsBijection
<1>3. g \in [1..n -> S] /\ IsInjective(g)
  BY <1>2 DEF Bijection, Injection, IsInjective
<1>4. SetToSeq(S) \in [1..n -> S] /\ IsInjective(SetToSeq(S))
  <2> DEFINE P(f) == f \in [1..n -> S] /\ IsInjective(f)
  <2>1. P(g)
    BY <1>3
  <2>2. SetToSeq(S) = CHOOSE f \in [1..n -> S] : IsInjective(f)
    BY DEF SetToSeq
  <2> QED BY <1>3, <2>2
<1> DEFINE s == SetToSeq(S)
<1>5. s \in Injection(1..n, S)
  BY <1>4 DEF Injection, IsInjective
<1>6. Cardinality(1..n) = n
  BY <1>1, FS_Interval
<1>7. s \in Surjection(1..n, S)
  BY <1>5, <1>6, FS_Injection
<1>8. \A x \in S : \E i \in 1..n : s[i] = x
  BY <1>7 DEF Surjection
<1>9. s \in Seq(S) /\ Len(s) = n
  BY <1>1, <1>4
<1>10. DOMAIN s = 1..n
  BY <1>4
<1> HIDE DEF s
<1>11. Once(s)
  BY <1>4, <1>9, <1>10 DEF Once, IsInjective, s
<1> QED BY <1>8, <1>9, <1>11 DEF s

\* The length of a list that holds nothing twice.
LEMMA OnceCounts ==
    ASSUME NEW S, NEW list \in Seq(S), Once(list)
    PROVE  Len(list) = Cardinality(ToSet(list))
<1>1. Len(list) \in Nat /\ list \in [1..Len(list) -> ToSet(list)]
  BY DEF ToSet
<1>2. \A x \in ToSet(list) : \E i \in 1..Len(list) : list[i] = x
  BY DEF ToSet
<1>6. DOMAIN list = 1..Len(list)
  OBVIOUS
<1>3. list \in Bijection(1..Len(list), ToSet(list))
  BY <1>1, <1>2, <1>6 DEF Bijection, Injection, Surjection, IsInjective, Once
<1>4. IsFiniteSet(1..Len(list)) /\ Cardinality(1..Len(list)) = Len(list)
  BY <1>1, FS_Interval
<1>5. ExistsBijection(1..Len(list), ToSet(list))
  BY <1>3 DEF ExistsBijection
<1> QED BY <1>4, <1>5, FS_Bijection

\* Two lists without an element in common, one after the other.
LEMMA Joined ==
    ASSUME NEW S, NEW a \in Seq(S), NEW b \in Seq(S), Once(a), Once(b),
           ToSet(a) \cap ToSet(b) = {}
    PROVE  a \o b \in Seq(S) /\ Once(a \o b) /\ ToSet(a \o b) = ToSet(a) \cup ToSet(b)
<1>1. /\ Len(a) \in Nat /\ Len(b) \in Nat
      /\ \A i \in 1..Len(a) : a[i] \in ToSet(a)
      /\ \A i \in 1..Len(b) : b[i] \in ToSet(b)
      /\ \A x \in ToSet(a) : \E i \in 1..Len(a) : a[i] = x
      /\ \A x \in ToSet(b) : \E i \in 1..Len(b) : b[i] = x
  BY DEF ToSet
<1> DEFINE c == a \o b
<1>2. /\ c \in Seq(S) /\ Len(c) = Len(a) + Len(b)
      /\ \A i \in 1..Len(c) : c[i] = IF i <= Len(a) THEN a[i] ELSE b[i - Len(a)]
  BY <1>1, ConcatProperties
<1>3. /\ ToSet(c) = {c[i] : i \in 1..Len(c)}
  BY <1>2 DEF ToSet
<1> HIDE DEF c
<1>4. ASSUME NEW i \in 1..Len(c)
      PROVE  \/ i \in 1..Len(a) /\ c[i] = a[i] /\ c[i] \in ToSet(a)
             \/ i - Len(a) \in 1..Len(b) /\ c[i] = b[i - Len(a)] /\ c[i] \in ToSet(b)
  <2>1. CASE i <= Len(a)
    BY <1>1, <1>2, <2>1
  <2>2. CASE ~(i <= Len(a))
    <3>1. i - Len(a) \in 1..Len(b)
      BY <1>1, <1>2, <2>2
    <3> QED BY <1>1, <1>2, <2>2, <3>1
  <2> QED BY <2>1, <2>2
<1>5. Once(c)
  <2> SUFFICES ASSUME NEW i \in 1..Len(c), NEW j \in 1..Len(c), c[i] = c[j] PROVE i = j
    BY DEF Once
  <2>1. CASE i \in 1..Len(a) /\ j \in 1..Len(a) /\ c[i] = a[i] /\ c[j] = a[j]
    BY <2>1 DEF Once
  <2>2. CASE /\ i - Len(a) \in 1..Len(b) /\ j - Len(a) \in 1..Len(b)
             /\ c[i] = b[i - Len(a)] /\ c[j] = b[j - Len(a)]
    <3>1. i - Len(a) = j - Len(a)
      BY <2>2 DEF Once
    <3> QED BY <3>1, <1>1, <1>2
  <2> QED BY <1>4, <2>1, <2>2
<1>6. ASSUME NEW x \in ToSet(a) PROVE x \in ToSet(c)
  <2>1. PICK i \in 1..Len(a) : a[i] = x
    BY <1>1
  <2>2. i \in 1..Len(c) /\ i <= Len(a)
    BY <1>1, <1>2
  <2> QED BY <2>1, <2>2, <1>2, <1>3
<1>7. ASSUME NEW x \in ToSet(b) PROVE x \in ToSet(c)
  <2>1. PICK i \in 1..Len(b) : b[i] = x
    BY <1>1
  <2>2. i + Len(a) \in 1..Len(c) /\ ~(i + Len(a) <= Len(a)) /\ (i + Len(a)) - Len(a) = i
    BY <1>1, <1>2
  <2> QED BY <2>1, <2>2, <1>2, <1>3
<1>8. ToSet(c) = ToSet(a) \cup ToSet(b)
  BY <1>3, <1>4, <1>6, <1>7
<1> QED BY <1>2, <1>5, <1>8 DEF c

\* qmgr_queue_create() and qmgr_queue_done(), any number of them in a step.
LEMMA RelistExact ==
    ASSUME AllListed, NEW Q, NEW t \in Transport
    PROVE  Listed(t, Relisted(Q)[t], Q)
<1> DEFINE D == {q \in Queue : ~Q[q].live}
           list == queue_list[t]
           kept == Without(list, D)
           live == {q \in QueuesOf(t) : Q[q].live}
           more == SetToSeq(live \ ToSet(kept))
<1>1. Relisted(Q)[t] = kept \o more
  BY DEF Relisted
<1>2. list \in Seq(Queue) /\ Once(list) /\ ToSet(list) \subseteq QueuesOf(t)
  BY DEF AllListed, Listed
<1>3. QueuesOf(t) \subseteq Queue
  BY DEF QueuesOf
<1>4. \A q \in Queue : q \in D <=> ~Q[q].live
  OBVIOUS
<1>5. \A q : q \in live <=> q \in QueuesOf(t) /\ Q[q].live
  OBVIOUS
<1> HIDE DEF D, live, list
<1>6. Retains(list, D, kept, Queue, Len(list))
  BY <1>2, Unlinked DEF Remains
<1>7. kept \in Seq(Queue) /\ Once(kept)
  BY <1>2, <1>6 DEF Retains
<1>8. ToSet(kept) \subseteq live
  <2> SUFFICES ASSUME NEW x \in ToSet(kept) PROVE x \in live
    OBVIOUS
  <2>1. PICK a \in 1..Len(kept) : kept[a] = x
    BY <1>7 DEF ToSet
  <2>2. PICK k \in 1..Len(list) : x = list[k] /\ list[k] \notin D
    BY <1>6, <2>1 DEF Retains
  <2>3. x \in ToSet(list)
    BY <1>2, <2>2 DEF ToSet
  <2> QED BY <2>2, <2>3, <1>2, <1>3, <1>4, <1>5
<1>9. IsFiniteSet(live \ ToSet(kept))
  <2>1. live \ ToSet(kept) \in SUBSET Queue
    BY <1>3, <1>5
  <2> QED BY <2>1, QueueFinite, FS_Subset
<1> HIDE DEF kept
<1>10. /\ more \in Seq(live \ ToSet(kept)) /\ Once(more)
       /\ \A x \in live \ ToSet(kept) : \E i \in 1..Len(more) : more[i] = x
  BY <1>9, InSomeOrder
<1> HIDE DEF more
<1>11. ToSet(more) = live \ ToSet(kept)
  BY <1>10 DEF ToSet
<1>12. more \in Seq(Queue)
  <2>1. \A i \in 1..Len(more) : more[i] \in Queue
    BY <1>3, <1>5, <1>10
  <2>2. Len(more) \in Nat /\ more \in [1..Len(more) -> live \ ToSet(kept)]
    BY <1>10
  <2>3. more \in [1..Len(more) -> Queue]
    BY <2>1, <2>2
  <2> QED BY <2>2, <2>3
<1>13. /\ kept \o more \in Seq(Queue) /\ Once(kept \o more)
       /\ ToSet(kept \o more) = ToSet(kept) \cup ToSet(more)
  <2>1. ToSet(kept) \cap ToSet(more) = {}
    BY <1>11
  <2> QED BY <2>1, <1>7, <1>10, <1>12, Joined
<1>14. ToSet(kept \o more) = live
  BY <1>8, <1>11, <1>13
<1> QED BY <1>1, <1>13, <1>14 DEF Listed, live

\* The list is adapted in each step that creates or ends a queue.
Adapted ==
    \/ queue_list' = Relisted(queue')
    \/ queue' = queue /\ queue_list' = queue_list

LEMMA QueuesAdapted ==
    ASSUME NEW Q, Queues(Q)
    PROVE  Adapted
BY DEF Queues, Adapted

LEMMA DeliverAdapted ==
    ASSUME NEW t, NEW tr, qmgr_deliver(t, tr)
    PROVE  Adapted
<1>1. CASE Queues(qmgr_defer_transport(queue,
                 [transport EXCEPT ![t] = qmgr_transport_throttle(tr, Unavailable)], t, Unavailable))
  BY <1>1, QueuesAdapted
<1>2. CASE UNCHANGED <<queue, queue_list>>
  BY <1>2 DEF Adapted
<1>3. CASE \E qe \in Selectable(t) :
               Queues([queue EXCEPT ![qe[1]] = qmgr_entry_select(@, qe[2])])
  BY <1>3, QueuesAdapted
<1> QED BY <1>1, <1>2, <1>3 DEF qmgr_deliver

LEMMA AssignAdapted ==
    ASSUME NEW e, NEW s, NEW flush, qmgr_message_assign(e, s, flush)
    PROVE  Adapted
<1>1. (\E Q : Queues(Q)) \/ UNCHANGED <<queue, queue_list>>
  BY Zenon DEF qmgr_message_assign
<1> QED BY <1>1, QueuesAdapted DEF Adapted

LEMMA UpdateAdapted ==
    ASSUME NEW q, NEW e, NEW r, qmgr_deliver_update(q, e, r)
    PROVE  Adapted
<1>1. \E Q : Queues(Q)
  BY Zenon DEF qmgr_deliver_update
<1> QED BY <1>1, QueuesAdapted

LEMMA ListMoves ==
    ASSUME Next
    PROVE  Adapted \/ qmgr_abort
<1>1. CASE \E e \in Entry, s \in Site, flush \in BOOLEAN : qmgr_message_assign(e, s, flush)
  BY <1>1, AssignAdapted
<1>2. CASE \E t \in Transport : qmgr_transport_alloc(t)
  BY <1>2 DEF qmgr_transport_alloc, Adapted
<1>3. CASE \E t \in Transport : TransportEvent(t)
  <2>1. PICK t \in Transport : TransportEvent(t)
    BY <1>3
  <2>2. CASE qmgr_transport_event(t)
    <3>1. \/ \E tr : qmgr_deliver(t, tr)
          \/ UNCHANGED <<queue, queue_list, dsb>>
      BY <2>2, Zenon DEF qmgr_transport_event
    <3> QED BY <3>1, DeliverAdapted DEF Adapted
  <2>3. CASE qmgr_transport_rate_event(t)
    BY <2>3, DeliverAdapted DEF qmgr_transport_rate_event
  <2>4. CASE qmgr_transport_unthrottle_wrapper(t)
    BY <2>4 DEF qmgr_transport_unthrottle_wrapper, Adapted
  <2> QED BY <2>1, <2>2, <2>3, <2>4 DEF TransportEvent
<1>4. CASE \E q \in Queue : QueueTimer(q)
  <2>1. PICK q \in Queue : QueueTimer(q)
    BY <1>4
  <2>2. \E Q : Queues(Q)
    BY <2>1, Zenon DEF QueueTimer, qmgr_queue_unthrottle_wrapper, qmgr_queue_resume_event
  <2> QED BY <2>2, QueuesAdapted
<1>5. CASE \E q \in Queue : \E e \in queue[q].busy, r \in DeliveryReport(q) :
               qmgr_deliver_update(q, e, r)
  BY <1>5, UpdateAdapted
<1>6. CASE qmgr_enable_all
  BY <1>6, QueuesAdapted DEF qmgr_enable_all
<1> QED BY <1>1, <1>2, <1>3, <1>4, <1>5, <1>6 DEF Next

\* When there is no queue there is nothing on the list.
LEMMA NoneListed ==
    ASSUME NEW t, NEW Q, NEW list, list = <<>>, \A q \in Queue : Q[q].live = FALSE
    PROVE  Listed(t, list, Q)
<1>1. <<>> \in Seq(Queue) /\ Len(<<>>) = 0 /\ ToSet(<<>>) = {}
  BY DEF ToSet
<1>2. {q \in QueuesOf(t) : Q[q].live} = {}
  BY DEF QueuesOf
<1>3. Once(<<>>)
  BY <1>1 DEF Once
<1> QED BY <1>1, <1>2, <1>3 DEF Listed

LEMMA NewQueueDead == \A t : NoQueue(t).live = FALSE
BY DEF NoQueue

LEMMA ListedStep ==
    ASSUME AllListed, [Next]_vars
    PROVE  AllListed'
<1>1. CASE UNCHANGED vars
  BY <1>1 DEF AllListed, Listed, vars
<1>2. CASE queue' = queue /\ queue_list' = queue_list
  BY <1>2 DEF AllListed, Listed
<1>3. CASE queue_list' = Relisted(queue')
  <2>1. \A t \in Transport : Listed(t, Relisted(queue')[t], queue')
    BY RelistExact
  <2> QED BY <1>3, <2>1 DEF AllListed, Listed
<1>4. CASE qmgr_abort
  <2>1. \A q \in Queue : queue'[q].live = FALSE
    BY <1>4, NewQueueDead DEF qmgr_abort
  <2>2. \A t \in Transport : queue_list'[t] = <<>>
    BY <1>4 DEF qmgr_abort
  <2>3. \A t \in Transport : Listed(t, queue_list'[t], queue')
    BY <2>1, <2>2, NoneListed
  <2> QED BY <2>3 DEF AllListed, Listed
<1> QED BY <1>1, <1>2, <1>3, <1>4, ListMoves DEF Adapted

\* The list that qmgr_transport_select() walks holds each live queue of the
\* transport once and nothing else, an entry is on one list of one queue, and
\* no site without mail stays behind in ready state (qmgr_queue_create(),
\* qmgr_queue_done(), qmgr_entry_move_todo()).
THEOREM ListsAlwaysExact == Spec => []ListsExact
<1>1. Init => AllListed
  <2> SUFFICES ASSUME Init PROVE AllListed
    OBVIOUS
  <2>1. \A q \in Queue : queue[q].live = FALSE
    BY NewQueueDead DEF Init
  <2>2. \A t \in Transport : queue_list[t] = <<>>
    BY DEF Init
  <2> QED BY <2>1, <2>2, NoneListed DEF AllListed
<1>2. AllListed /\ [Next]_vars => AllListed'
  BY ListedStep
<1>3. AllListed => QueueListExact
  BY OnceCounts DEF AllListed, Listed, QueueListExact
<1>4. EntryOnOneList /\ NoIdleSite /\ QueueListExact => ListsExact
  BY DEF ListsExact
<1> QED BY <1>1, <1>2, <1>3, <1>4, EntriesExact, PTL DEF Spec

=============================================================================
