------------------------------- MODULE QmgrJob -------------------------------
(***************************************************************************)
(* The preemptive scheduler of qmgr(8): qmgr_job.c and qmgr_peer.c, with   *)
(* the parts of qmgr_message.c, qmgr_entry.c and qmgr_defer.c that feed    *)
(* it.  A job is the part of one message that goes through one transport,  *)
(* a peer the part of a job that goes to one destination queue.  Small     *)
(* jobs may be delivered in front of (preempt) large ones, and recipients  *)
(* are read into core as far as a transport-wide pool of recipient slots   *)
(* allows.                                                                 *)
(*                                                                         *)
(* Every handler of the queue manager's event loop is one action.  What a  *)
(* handler does is a chain of functions on the scheduler's state S, a      *)
(* record of all variables.  The clock is left open where the code reads   *)
(* it; an entry has one recipient, as with VERP mail or a destination      *)
(* recipient limit of one, so that the recipient count of a job is the     *)
(* number of its entries.  A job or queue is a blocker when its tag is the *)
(* transport's: adding two to that one unmarks all of them at once.        *)
(***************************************************************************)
EXTENDS Integers, Sequences, FiniteSets, SequencesExt, Lists

CONSTANTS
    Message, Transport, Queue,
    NONE,            \* the null pointer
    TransportOf,     \* the transport of each queue
    RetryQueue,      \* where mail for dead destinations goes
    QueueOrder,      \* qmgr_message_sort(): queues, those of a transport together
    Mail,            \* recipients (by queue) that a message may have
    Sites,           \* queues whose agents can report a dead site
    Unreliable,      \* transports whose agents may be unavailable
    RateDelay,       \* transports with a destination rate delay
    InitConc,        \* initial_destination_concurrency
    MaxConc,         \* destination_concurrency_limit
    RcptLimit,       \* qmgr_message_recipient_limit
    MsgRcptLimit,    \* qmgr_message_recipient_minimum
    XportRcptLimit,  \* transport_recipient_limit
    StackRcptLimit,  \* extra recipient slots for preempting messages
    RefillLimit,     \* read this many recipients at once, or wait a while
    SlotCost, SlotLoan, SlotLoanFactor, MinSlots

ASSUME JobAssumption ==
    /\ NONE \notin Message
    /\ TransportOf \in [Queue -> Transport]
    /\ RetryQueue \in Queue
    /\ QueueOrder \in Seq(Queue) /\ ToSet(QueueOrder) = Queue
    /\ Mail \in [Message -> SUBSET Seq(Queue)]
    /\ Sites \subseteq Queue /\ Unreliable \subseteq Transport
    /\ RateDelay \subseteq Transport
    /\ InitConc \in 1..MaxConc
    /\ {RcptLimit, MsgRcptLimit, RefillLimit} \subseteq Nat \ {0}
    /\ {XportRcptLimit, StackRcptLimit, SlotCost, SlotLoan, MinSlots} \subseteq Nat
    /\ SlotLoanFactor \in 0..100

VARIABLES
    xport,    \* QMGR_TRANSPORT: the scheduler's lists and its caches
    queue,    \* QMGR_QUEUE
    job,      \* QMGR_JOB, per message and transport
    msg,      \* QMGR_MESSAGE
    order,    \* messages in core by queued_time, oldest first
    panic     \* a msg_panic() was reached

vars == <<xport, queue, job, msg, order, panic>>

Ptr == Message \cup {NONE}

QMGR_TRANSPORT ==
    [job_list : Seq(Message), job_bytime : Seq(Message), job_current : Ptr,
     job_next_unread : Ptr, rcpt_unused : Int,
     candidate_cache : Ptr, candidate_cache_current : Ptr, dead : BOOLEAN,
     blockers : SUBSET Message, blocked : SUBSET Queue]

\* window: -1 suspended, 0 throttled.
QMGR_QUEUE ==
    [window : (-1)..MaxConc, busy_refcount : Nat, todo_refcount : Nat]

QMGR_PEER == [queue : Queue, todo : Nat, busy : Nat]

\* stack_level: -2 there is no such job, -1 it is not on the job lists.
QMGR_JOB ==
    [stack_level : Int, stack_parent : Ptr,
     slots_used : Int, slots_available : Int, selected_entries : Nat,
     read_entries : Nat, rcpt_limit : Nat, rcpt_count : Nat, peer_list : Seq(QMGR_PEER)]

\* A message that comes back from the deferred queue is another message.
\* more: rcpt_offset is not zero.  unread: recipients from there on.
QMGR_MESSAGE ==
    [stage : {"new", "active", "done", "gone"}, more : BOOLEAN, unread : Seq(Queue),
     rcpt_limit : Nat, rcpt_count : Nat, job_list : Seq(Transport)]

qmgr_transport_create ==
    [job_list |-> <<>>, job_bytime |-> <<>>, job_current |-> NONE,
     job_next_unread |-> NONE, rcpt_unused |-> XportRcptLimit,
     candidate_cache |-> NONE, candidate_cache_current |-> NONE, dead |-> FALSE,
     blockers |-> {}, blocked |-> {}]

qmgr_queue_create ==
    [window |-> InitConc, busy_refcount |-> 0, todo_refcount |-> 0]

NoJob ==
    [stack_level |-> -2, stack_parent |-> NONE,
     slots_used |-> 0, slots_available |-> 0, selected_entries |-> 0,
     read_entries |-> 0, rcpt_limit |-> 0, rcpt_count |-> 0, peer_list |-> <<>>]

NewMessage ==
    [stage |-> "new", more |-> FALSE, unread |-> <<>>, rcpt_limit |-> 0,
     rcpt_count |-> 0, job_list |-> <<>>]

Init ==
    /\ xport = [t \in Transport |-> qmgr_transport_create]
    /\ queue = [q \in Queue |-> qmgr_queue_create]
    /\ job = [m \in Message |-> [t \in Transport |-> NoJob]]
    /\ msg = [m \in Message |-> NewMessage]
    /\ order = <<>>
    /\ panic = FALSE

Now == [xport |-> xport, queue |-> queue, job |-> job, msg |-> msg,
        order |-> order, panic |-> panic]

\* The event handler ends with this state.
Commit(S) ==
    /\ xport' = S.xport /\ queue' = S.queue /\ job' = S.job
    /\ msg' = S.msg /\ order' = S.order /\ panic' = S.panic

Check(S, sane) == [S EXCEPT !.panic = @ \/ ~sane]

-----------------------------------------------------------------------------
(***************************************************************************)
(* Counts and positions.                                                   *)
(***************************************************************************)
Busy(j, q) == \E p \in ToSet(j.peer_list) : p.queue = q /\ p.busy > 0

Todo(j, q) ==
    LET i == SelectInSeq(j.peer_list, LAMBDA p : p.queue = q)
    IN  IF i = 0 THEN 0 ELSE j.peer_list[i].todo

\* todo entries more (or less) wait for q, busy ones more are in progress.
CountEntries(peers, q, todo, busy) ==
    [i \in DOMAIN peers |->
        IF peers[i].queue # q THEN peers[i]
        ELSE [queue |-> q, todo |-> peers[i].todo + todo, busy |-> peers[i].busy + busy]]

qmgr_recipient_count(S) == Each(LAMBDA n, m : n + S.msg[m].rcpt_count, 0, S.order)

IS_BLOCKER(S, m, t) == m \in S.xport[t].blockers

QMGR_QUEUE_READY(S, q) == S.queue[q].window > 0

QMGR_QUEUE_THROTTLED(S, q) == S.queue[q].window = 0

HAS_ENTRIES(j) == j.selected_entries < j.read_entries

MAX_ENTRIES(S, m, t) == S.job[m][t].read_entries + Len(S.msg[m].unread)

Position(list, m) == SelectInSeq(list, LAMBDA x : x = m)

\* m was queued before n, or at the same time.
Older(S, m, n) == Position(S.order, m) < Position(S.order, n)

\* The part of a list behind an element.
Behind(list, m) == SubSeq(list, Position(list, m) + 1, Len(list))

First(list) == IF list = <<>> THEN NONE ELSE Head(list)

\* stack_children
Children(S, m, t) == {c \in Message : S.job[c][t].stack_parent = m}

RESET_CANDIDATE_CACHE(S, t) ==
    [S EXCEPT !.xport[t].candidate_cache_current = NONE]

-----------------------------------------------------------------------------
(***************************************************************************)
(* Recipient slots and the job lists.                                      *)
(***************************************************************************)

\* n slots for a job and its message, out of the transport's pool.
GiveSlots_mutant(S, m, t, n) ==
    [S EXCEPT !.job[m][t].rcpt_limit = @ + n, !.xport[t].rcpt_unused = @ - n]

GiveSlots(S, m, t, n) ==
    [S EXCEPT !.job[m][t].rcpt_limit = @ + n,
              !.msg[m].rcpt_limit = @ + n,
              !.xport[t].rcpt_unused = @ - n]

\* The first job that is not fully read, other than m.
NextUnread(S, m, t) ==
    LET T == S.xport[t]
    IN  IF m # T.job_next_unread THEN T.job_next_unread
        ELSE First(Without(Behind(T.job_bytime, m), {x \in Message : ~S.msg[x].more}))

\* Recipient slots that neither the job nor its message needs.
Unused(S, m, t) ==
    LET own == S.job[m][t].rcpt_limit - S.job[m][t].rcpt_count
        whole == S.msg[m].rcpt_limit - S.msg[m].rcpt_count
    IN  IF whole < own THEN whole ELSE own

\* m gets what is in the pool.
TakePool(S, m, t) ==
    IF m # NONE /\ S.xport[t].rcpt_unused > 0
    THEN GiveSlots(S, m, t, S.xport[t].rcpt_unused) ELSE S

\* Give away what a job does not use, to the next job that is not fully read.
qmgr_job_move_limits(S, m, t) ==
    LET S1 == [S EXCEPT !.xport[t].job_next_unread = NextUnread(S, m, t)]
    IN  IF Unused(S, m, t) <= 0 THEN S1
        ELSE TakePool(GiveSlots(S1, m, t, -Unused(S, m, t)), NextUnread(S, m, t), t)

\* Put the job on both lists, by the time it was queued.  On the scheduler's
\* list jobs that preempt another one are passed over.
ListInsert(S, m, t) ==
    LET T == S.xport[t]
        i == SelectLastInSeq(T.job_list,
                LAMBDA x : S.job[x][t].stack_parent = NONE /\ Older(S, x, m))
        k == SelectLastInSeq(T.job_bytime, LAMBDA x : Older(S, x, m))
        passed(list, n, x) == x = NONE \/ Position(list, x) > n
    IN  [Check(S, S.job[m][t].stack_level < 0) EXCEPT
            !.job[m][t].stack_level = 0,
            !.xport[t] = [T EXCEPT
                !.job_list = InsertAt(T.job_list, i + 1, m),
                !.job_bytime = InsertAt(T.job_bytime, k + 1, m),
                !.job_current =
                    IF passed(T.job_list, i, T.job_current) THEN m ELSE T.job_current,
                !.job_next_unread =
                    IF passed(T.job_bytime, k, T.job_next_unread) THEN m
                    ELSE T.job_next_unread]]

\* A new first unread job gets the slots of the former one ...
StealSlots(S, m, t, former) ==
    IF former # NONE /\ S.xport[t].job_next_unread = m
    THEN qmgr_job_move_limits(S, former, t) ELSE S

\* ... and what is in the pool.
qmgr_job_link(S, m, t) ==
    TakePool(StealSlots(ListInsert(S, m, t), m, t, S.xport[t].job_next_unread), m, t)

qmgr_job_create(S, m, t) ==
    IF S.job[m][t].stack_level > -2 THEN S
    ELSE [S EXCEPT !.job[m][t].stack_level = -1,
                   !.msg[m].job_list = Append(@, t)]

LinkIfRetired(S, m, t) ==
    IF S.job[m][t].stack_level < 0 THEN qmgr_job_link(S, m, t) ELSE S

\* The job has new entries, so it does not block any more.
Unblock(S, m, t) ==
    IF IS_BLOCKER(S, m, t)
    THEN [S EXCEPT !.xport[t].blockers = @ \ {m},
                   !.xport[t].job_current = First(S.xport[t].job_list)]
    ELSE S

\* Find, create or revive a job.
qmgr_job_obtain(S, m, t) ==
    Unblock(RESET_CANDIDATE_CACHE(LinkIfRetired(qmgr_job_create(S, m, t), m, t), t), m, t)

\* Children of a job that leaves the stack get its parent, if any.
qmgr_job_parent_gone(S, m, t, parent) ==
    Each(LAMBDA R, c : [R EXCEPT !.job[c][t].stack_parent = parent],
         S, Without(S.xport[t].job_list, Message \ Children(S, m, t)))

\* The parent gets back the slots that it was charged for and that were not
\* used, unless it adopted the job.
PayBack(S, m, t) ==
    LET j == S.job[m][t]
        p == j.stack_parent
    IN  IF p # NONE /\ j.stack_level = S.job[p][t].stack_level + 1
        THEN [S EXCEPT !.job[p][t].slots_available = @ - j.slots_used * SlotCost]
        ELSE S

\* Take a job from its preemption stack.
qmgr_job_pop(S, m, t) ==
    RESET_CANDIDATE_CACHE(
        qmgr_job_parent_gone(
            [PayBack(Check(S, S.job[m][t].stack_level > 0), m, t) EXCEPT
                !.job[m][t].stack_parent = NONE, !.job[m][t].stack_level = 0],
            m, t, S.job[m][t].stack_parent), t)

\* Take a job off the lists.  Its children lose their parent.
qmgr_job_unlink(S, m, t) ==
    LET T == S.xport[t]
        j == S.job[m][t]
        S1 == Check(S, j.stack_level = 0 /\ j.stack_parent = NONE)
        S2 == qmgr_job_parent_gone(S1, m, t, NONE)
    IN  [S2 EXCEPT
            !.xport[t] = [T EXCEPT
                !.job_current =
                    IF T.job_current = m THEN First(Behind(T.job_list, m)) ELSE T.job_current,
                !.candidate_cache_current =
                    IF m \in {T.candidate_cache, T.candidate_cache_current} THEN NONE
                    ELSE T.candidate_cache_current,
                !.job_list = Without(T.job_list, {m}),
                !.job_bytime = Without(T.job_bytime, {m})],
            !.job[m][t].stack_level = -1]

PopIfStacked(S, m, t) ==
    IF S.job[m][t].stack_level > 0 THEN qmgr_job_pop(S, m, t) ELSE S

\* Take a job without entries off the lists; it can be revived.
qmgr_job_retire_mutant(S, m, t) ==
    qmgr_job_unlink(PopIfStacked(S, m, t), m, t)

qmgr_job_retire(S, m, t) ==
    qmgr_job_unlink(qmgr_job_move_limits(PopIfStacked(S, m, t), m, t), m, t)

UnlinkIfListed(S, m, t) ==
    IF S.job[m][t].stack_level >= 0 THEN qmgr_job_unlink(S, m, t) ELSE S

\* Panic if the slots of a job were not all returned.
LeakCheck(S, m, t) == Check(S, S.job[m][t].rcpt_limit = 0)

qmgr_job_free(S, m, t) ==
    [UnlinkIfListed(
        LeakCheck(
            qmgr_job_move_limits(
                PopIfStacked(Check(S, S.job[m][t].rcpt_count = 0), m, t),
                m, t), m, t), m, t)
     EXCEPT !.job[m][t] = NoJob,
            !.xport[t].blockers = @ \ {m},
            !.msg[m].job_list = Without(@, {t})]

-----------------------------------------------------------------------------
(***************************************************************************)
(* Reading recipients and making entries (qmgr_message.c).                 *)
(***************************************************************************)

\* qmgr_error_queue(): the retry queue, if it can be used.
RetryOK(S) ==
    /\ ~S.xport[TransportOf[RetryQueue]].dead
    /\ ~QMGR_QUEUE_THROTTLED(S, RetryQueue)

\* Where a recipient for q goes now; NONE when it is deferred on the spot.
qmgr_message_resolve(S, q) ==
    IF S.xport[TransportOf[q]].dead \/ QMGR_QUEUE_THROTTLED(S, q)
    THEN IF RetryOK(S) THEN RetryQueue ELSE NONE
    ELSE q

\* qmgr_peer_obtain() and qmgr_entry_create().
qmgr_entry_create(S, m, q) ==
    LET t == TransportOf[q]
        j == S.job[m][t]
        i == SelectInSeq(j.peer_list, LAMBDA p : p.queue = q)
    IN  [Check(S, ~QMGR_QUEUE_THROTTLED(S, q)) EXCEPT
            !.msg[m].rcpt_count = @ + 1,
            !.queue[q].todo_refcount = @ + 1,
            !.job[m][t] = [j EXCEPT
                !.rcpt_count = j.rcpt_count + 1,
                !.read_entries = j.read_entries + 1,
                !.peer_list =
                    IF i = 0 THEN Append(j.peer_list, [queue |-> q, todo |-> 1, busy |-> 0])
                             ELSE CountEntries(j.peer_list, q, 1, 0)]]

ResetIfCandidate(S, m, t) ==
    IF HAS_ENTRIES(S.job[m][t]) /\ ~IS_BLOCKER(S, m, t)
    THEN RESET_CANDIDATE_CACHE(S, t) ELSE S

\* The message has become a candidate: forget a cached one.
ResetCandidates(S, m) ==
    Each(LAMBDA R, t : ResetIfCandidate(R, m, t), S, S.msg[m].job_list)

NewEntry(S, m, q) == qmgr_entry_create(qmgr_job_obtain(S, m, TransportOf[q]), m, q)

\* Entries for the recipients that go to q.
NewEntries(S, m, q, bound) ==
    Each(LAMBDA R, x : NewEntry(R, m, x), S, Without(bound, (Queue \cup {NONE}) \ {q}))

\* Sort the recipients by queue and make their entries.
qmgr_message_assign(S, m, rcpts) ==
    LET bound == [i \in DOMAIN rcpts |-> qmgr_message_resolve(S, rcpts[i])]
    IN  ResetCandidates(
            Each(LAMBDA R, q : NewEntries(R, m, q, bound), S, QueueOrder), m)

qmgr_message_move_limits(S, m) ==
    IF S.msg[m].more THEN S
    ELSE Each(LAMBDA R, t : qmgr_job_move_limits(R, m, t), S, S.msg[m].job_list)

\* qmgr_message_read() of at most "limit" recipients, and what follows it.
ReadAndAssign(S, m, limit) ==
    LET file == S.msg[m].unread
        n == IF limit < Len(file) THEN limit ELSE Len(file)
    IN  IF limit <= 0 THEN Check(S, FALSE)
        ELSE qmgr_message_move_limits(
                qmgr_message_assign([S EXCEPT
                                        !.msg[m].unread = SubSeq(file, n + 1, Len(file)),
                                        !.msg[m].more = (n = limit)],
                                    m, SubSeq(file, 1, n)), m)

\* The first read takes what the queue manager as a whole has room for.
qmgr_message_alloc(S, m, file) ==
    LET room == RcptLimit - qmgr_recipient_count(S)
        S1 == [S EXCEPT !.msg[m] = [NewMessage EXCEPT !.stage = "active",
                                        !.unread = file, !.rcpt_limit = MsgRcptLimit],
                        !.order = Append(@, m)]
    IN  ReadAndAssign(S1, m, IF room < MsgRcptLimit THEN MsgRcptLimit ELSE room)

\* Later reads are limited by the slots of the message's jobs.
qmgr_message_realloc(S, m) ==
    ReadAndAssign(S, m, S.msg[m].rcpt_limit - S.msg[m].rcpt_count)

qmgr_message_free(S, m) ==
    [Each(LAMBDA R, t : qmgr_job_free(R, m, t), S, S.msg[m].job_list) EXCEPT
        !.msg[m] = [NewMessage EXCEPT !.stage = "gone"],
        !.order = Without(@, {m})]

\* The last reference to the message is gone: qmgr_active_done().
Settle(S, m) ==
    IF S.msg[m].rcpt_count = 0 THEN [S EXCEPT !.msg[m].stage = "done"] ELSE S

-----------------------------------------------------------------------------
(***************************************************************************)
(* The end of an entry (qmgr_entry.c, qmgr_defer.c).                       *)
(***************************************************************************)

Unmark(S, t) == [S EXCEPT !.xport[t].blockers = {}, !.xport[t].blocked = {}]

NoBlockers_mutant(S, t) == RESET_CANDIDATE_CACHE(Unmark(S, t), t)

NoBlockers(S, t) ==
    [RESET_CANDIDATE_CACHE(Unmark(S, t), t) EXCEPT
        !.xport[t].job_current = First(S.xport[t].job_list)]

\* A queue that blocked some jobs has room again: reconsider every job.
qmgr_job_blocker_update(S, q) ==
    LET t == TransportOf[q]
        room == S.queue[q].window > S.queue[q].busy_refcount
    IN  IF q \notin S.xport[t].blocked THEN S
        ELSE [IF room /\ S.queue[q].todo_refcount > 0 THEN NoBlockers(S, t) ELSE S
              EXCEPT !.xport[t].blocked =
                        IF room \/ QMGR_QUEUE_THROTTLED(S, q) THEN @ \ {q} ELSE @]

\* A queue that is ready and empty is removed.
QueueDoneIfIdle(S, q) ==
    IF QMGR_QUEUE_READY(S, q) /\ S.queue[q].todo_refcount = 0 /\ S.queue[q].busy_refcount = 0
    THEN [S EXCEPT !.queue[q] = qmgr_queue_create,
                   !.xport[TransportOf[q]].blocked = @ \ {q}]
    ELSE S

\* Every job of the message returns the slots that it cannot use any more.
SponsorReturns(S, m, x, t) ==
    IF /\ x # t => S.job[m][x].rcpt_count < S.job[m][x].rcpt_limit
       /\ ~S.msg[m].more \/ (x # t /\ S.job[m][x].stack_level < 0)
    THEN qmgr_job_move_limits(S, m, x) ELSE S

ReturnSlots(S, m, t) ==
    Each(LAMBDA R, x : SponsorReturns(R, m, x, t), S,
         Without(S.msg[m].job_list, {t}) \o <<t>>)

\* With a rate delay, every delivery is followed by a pause.
RateLimit(S, q, which) ==
    LET w == S.queue[q].window
    IN  IF which # "busy" \/ TransportOf[q] \notin RateDelay \/ w = -1 THEN S
        ELSE [Check(S, w <= 1 /\ S.queue[q].busy_refcount = 0) EXCEPT !.queue[q].window = -1]

\* peer->refcount dropped: free the peer when it is the last entry.
PeerRelease(S, m, q) ==
    [S EXCEPT !.job[m][TransportOf[q]].peer_list =
        Without(@, {p \in ToSet(@) : p.queue = q /\ p.todo = 0 /\ p.busy = 0})]

\* One entry less in the job's and the queue's "todo" or "busy" list.
Unlist_mutant(S, m, q, which) ==
    [S EXCEPT !.msg[m].rcpt_count = @ - 1,
              !.queue[q].busy_refcount = @ - 1,
              !.job[m][TransportOf[q]].rcpt_count = @ - 1,
              !.job[m][TransportOf[q]].peer_list = CountEntries(@, q, 0, -1)]

Unlist(S, m, q, which) ==
    LET t == TransportOf[q]
        j == S.job[m][t]
        Q == S.queue[q]
        todo == IF which = "todo" THEN 1 ELSE 0
    IN  [S EXCEPT
            !.msg[m].rcpt_count = @ - 1,
            !.queue[q] = [Q EXCEPT !.todo_refcount = Q.todo_refcount - todo,
                                   !.busy_refcount = Q.busy_refcount - (1 - todo)],
            !.job[m][t] = [j EXCEPT
                !.rcpt_count = j.rcpt_count - 1,
                !.selected_entries = j.selected_entries + todo,
                !.peer_list = CountEntries(j.peer_list, q, -todo, todo - 1)]]

UpdateBlocker(S, q) ==
    IF S.queue[q].window = -1 THEN S ELSE qmgr_job_blocker_update(S, q)

qmgr_entry_done(S, m, q, which) ==
    Settle(
        QueueDoneIfIdle(
            PeerRelease(
                UpdateBlocker(
                    RateLimit(ReturnSlots(Unlist(S, m, q, which), m, TransportOf[q]),
                              q, which), q), m, q), q), m)

\* Move an entry for a dead destination to the retry queue.
qmgr_entry_move_todo(S, m) ==
    qmgr_entry_create(qmgr_job_obtain(S, m, TransportOf[RetryQueue]), m, RetryQueue)

DeferEntry(S, m, q) ==
    qmgr_entry_done(IF RetryOK(S) THEN qmgr_entry_move_todo(S, m) ELSE S, m, q, "todo")

\* The entries of one message are deferred together, ...
DeferEntries(S, m, q) ==
    Each(LAMBDA R, k : DeferEntry(R, m, q), S,
         [k \in 1..Todo(S.job[m][TransportOf[q]], q) |-> k])

\* ... older messages first.
qmgr_defer_todo(S, q) == Each(LAMBDA R, m : DeferEntries(R, m, q), S, S.order)

DeferIfOf(S, q, t) == IF TransportOf[q] = t THEN qmgr_defer_todo(S, q) ELSE S

qmgr_defer_transport(S, t) == Each(LAMBDA R, q : DeferIfOf(R, q, t), S, QueueOrder)

-----------------------------------------------------------------------------
(***************************************************************************)
(* Selecting an entry (qmgr_job.c).                                        *)
(***************************************************************************)

\* Jobs behind the current one that are not parents, have entries left, and
\* fit into the slots that the current job can still accumulate.
Fitting_mutant(S, t, current) ==
    {m \in ToSet(Behind(S.xport[t].job_list, current)) :
        /\ Children(S, m, t) = {} /\ ~IS_BLOCKER(S, m, t)
        /\ MAX_ENTRIES(S, m, t) > S.job[m][t].selected_entries}

Fitting(S, t, current) ==
    LET j == S.job[current][t]
        max_slots == (j.read_entries - j.selected_entries + j.slots_available) \div SlotCost
    IN  {m \in ToSet(Behind(S.xport[t].job_list, current)) :
            /\ Children(S, m, t) = {}
            /\ ~IS_BLOCKER(S, m, t)
            /\ MAX_ENTRIES(S, m, t) - S.job[m][t].selected_entries \in 1..max_slots}

\* The candidates with the best time_since_queued/total_recipients score,
\* for some time of the day.  No time makes a job better than one that was
\* queued earlier and is smaller, or is as large and comes first.
BestOf(S, t, fitting) ==
    {m \in fitting : \A n \in fitting \ {m} :
        Older(S, n, m) =>
            \/ MAX_ENTRIES(S, n, t) > MAX_ENTRIES(S, m, t)
            \/ /\ MAX_ENTRIES(S, n, t) = MAX_ENTRIES(S, m, t)
               /\ Contains(Behind(S.xport[t].job_list, m), n)}

\* The outcomes of a search for a candidate: a cached one, or a new one.
\* A positive result is valid for the current second only.
qmgr_job_candidate_mutant(S, t, current) ==
    IF S.xport[t].candidate_cache # NONE
    THEN {S}
    ELSE {[S EXCEPT !.xport[t].candidate_cache = best,
                    !.xport[t].candidate_cache_current = current] :
             best \in LET B == BestOf(S, t, Fitting(S, t, current))
                      IN  IF B = {} THEN {NONE} ELSE B}

qmgr_job_candidate(S, t, current) ==
    LET T == S.xport[t]
        valid == T.candidate_cache_current = current
        best == BestOf(S, t, Fitting(S, t, current))
    IN  (IF valid THEN {S} ELSE {}) \cup
        (IF valid /\ T.candidate_cache = NONE THEN {}
         ELSE {[S EXCEPT !.xport[t].candidate_cache = b,
                         !.xport[t].candidate_cache_current = current] :
                  b \in IF best = {} THEN {NONE} ELSE best})

\* A preempting job that is not fully read gets half of the reserved slots.
StackSlots(S, m, t) ==
    IF S.msg[m].more
    THEN GiveSlots(S, m, t, (StackRcptLimit + S.xport[t].rcpt_unused + 1) \div 2)
    ELSE S

\* Put the candidate in front of the current job, and charge the current job
\* for the slots that the candidate is expected to use.
InFront(S, m, t, current, expected) ==
    LET rest == Without(S.xport[t].job_list, {m})
    IN  [S EXCEPT
            !.xport[t] = [S.xport[t] EXCEPT
                !.job_list = InsertAt(rest, Position(rest, current), m),
                !.job_current = m,
                !.candidate_cache_current = NONE],
            !.job[current][t].slots_available = @ - expected * SlotCost,
            !.job[m][t] = [S.job[m][t] EXCEPT
                !.stack_parent = current,
                !.stack_level = S.job[current][t].stack_level + 1,
                !.slots_used = -expected]]

Needed(S, m, t) == MAX_ENTRIES(S, m, t) - S.job[m][t].selected_entries

\* Preempt if the current job has accumulated enough slots, or can loan some.
PreemptIfPaid(S, t, current, m) ==
    IF \/ m = NONE \/ S.panic
       \/ (S.job[current][t].slots_available \div SlotCost + SlotLoan) * 100
              < Needed(S, m, t) * SlotLoanFactor
    THEN S
    ELSE StackSlots(InFront(PopIfStacked(S, m, t), m, t, current, Needed(S, m, t)), m, t)

CandidateCheck(S, t, current, m) ==
    Check(S, m # NONE => /\ m # current
                         /\ Children(S, m, t) = {}
                         /\ S.job[m][t].stack_level >= 0)

qmgr_job_preempt(S, t) ==
    LET current == S.xport[t].job_current
    IN  IF \/ S.job[current][t].slots_available <= 0
           \/ MAX_ENTRIES(S, current, t) < MinSlots * SlotCost
        THEN {S}
        ELSE {PreemptIfPaid(CandidateCheck(R, t, current, R.xport[t].candidate_cache),
                            t, current, R.xport[t].candidate_cache) :
                  R \in qmgr_job_candidate(S, t, current)}

\* The first peer with an entry whose queue has room; the others are next.
qmgr_peer_select(S, m, t) ==
    LET peers == S.job[m][t].peer_list
        i == SelectInSeq(peers, LAMBDA p :
                p.todo > 0 /\ S.queue[p.queue].window > S.queue[p.queue].busy_refcount)
    IN  IF i = 0 THEN [S |-> S, q |-> NONE]
        ELSE [S |-> [S EXCEPT !.job[m][t].peer_list =
                        SubSeq(peers, i + 1, Len(peers)) \o SubSeq(peers, 1, i)],
              q |-> peers[i].queue]

\* There are more recipients to read, and slots for n of them.  A message
\* whose qmgr_active_done() is under way is left alone.
CanRead(S, m, n) ==
    /\ S.msg[m].more /\ S.msg[m].rcpt_count > 0
    /\ S.msg[m].rcpt_limit - S.msg[m].rcpt_count >= n

ReadIf(S, m, n) == IF CanRead(S, m, n) THEN qmgr_message_realloc(S, m) ELSE S

PeerIfAny(S, m, t) ==
    IF HAS_ENTRIES(S.job[m][t]) THEN qmgr_peer_select(S, m, t) ELSE [S |-> S, q |-> NONE]

\* "This is our last chance to get suitable peer before giving up."
LastChance(E, m, t) ==
    IF E.q = NONE /\ CanRead(E.S, m, 1) THEN PeerIfAny(ReadIf(E.S, m, 1), m, t) ELSE E

\* Read recipients when there is room for enough of them, or for some and it
\* is late; look for a peer; if there is none, read what there is room for.
qmgr_job_peer_select(S, m, t, late) ==
    LastChance(PeerIfAny(ReadIf(S, m, IF late THEN 1 ELSE RefillLimit), m, t), m, t)

\* A job that has no more entries leaves the lists.
RetireIfEmpty(S, m, t) ==
    IF ~HAS_ENTRIES(S.job[m][t]) /\ ~S.msg[m].more THEN qmgr_job_retire(S, m, t) ELSE S

qmgr_entry_select(S, m, t, q) ==
    LET j == S.job[m][t]
        Q == S.queue[q]
    IN  [S EXCEPT
            !.job[m][t] = [j EXCEPT !.selected_entries = j.selected_entries + 1,
                                    !.peer_list = CountEntries(j.peer_list, q, -1, 1)],
            !.queue[q] = [Q EXCEPT !.todo_refcount = Q.todo_refcount - 1,
                                   !.busy_refcount = Q.busy_refcount + 1]]

qmgr_job_count_slots(S, m, t) ==
    LET j == S.job[m][t]
        T == S.xport[t]
    IN  [S EXCEPT
            !.job[m][t] = [j EXCEPT !.slots_available = j.slots_available + 1,
                                    !.slots_used = j.slots_used + 1],
            !.xport[t] = [T EXCEPT
                !.candidate_cache_current =
                    IF T.candidate_cache_current = m THEN m ELSE NONE,
                !.job_current = m]]

\* The job waits for room in its queues.
MarkBlocker(S, m, t) ==
    [S EXCEPT !.xport[t].blockers = @ \cup {m},
              !.xport[t].blocked = @ \cup {q \in Queue : Todo(S.job[m][t], q) > 0}]

\* What becomes of a job: an entry is selected, or it waits, or is retired.
JobOutcome(p, m, t) ==
    IF p.q # NONE
    THEN [S |-> RetireIfEmpty(
                    qmgr_job_count_slots(qmgr_entry_select(p.S, m, t, p.q), m, t), m, t),
          m |-> m, q |-> p.q]
    ELSE [S |-> IF HAS_ENTRIES(p.S.job[m][t]) THEN MarkBlocker(p.S, m, t)
                                              ELSE qmgr_job_retire(p.S, m, t),
          m |-> NONE, q |-> NONE]

\* One turn of the loop in qmgr_job_entry_select().
TryJob(E, m, t, late) ==
    IF E.m # NONE \/ IS_BLOCKER(E.S, m, t) THEN E
    ELSE JobOutcome(qmgr_job_peer_select(E.S, m, t, late), m, t)

NoCurrentIfNone(E, t) ==
    IF E.m # NONE THEN E ELSE [E EXCEPT !.S.xport[t].job_current = NONE]

Nothing(S) == [S |-> S, m |-> NONE, q |-> NONE]

\* Walk down the list from the current job on.
WalkJobs(S, t, late) ==
    LET T == S.xport[t]
    IN  NoCurrentIfNone(
            Each(LAMBDA E, m : TryJob(E, m, t, late), Nothing(S),
                 <<T.job_current>> \o Behind(T.job_list, T.job_current)), t)

\* The possible outcomes: the state, the job selected and its queue.
qmgr_job_entry_select(S, t) ==
    IF S.xport[t].job_current = NONE THEN {Nothing(S)}
    ELSE {WalkJobs(R, t, late) : late \in BOOLEAN,
             R \in IF SlotCost >= 2 THEN qmgr_job_preempt(S, t) ELSE {S}}

-----------------------------------------------------------------------------
(***************************************************************************)
(* The events of the queue manager.                                        *)
(***************************************************************************)
qmgr_active_feed(m) ==
    /\ msg[m].stage = "new"
    /\ \E file \in Mail[m] : Commit(Settle(qmgr_message_alloc(Now, m, file), m))

\* Transport dead: qmgr_transport_throttle() and qmgr_defer_transport().
TransportFails(S, t) == qmgr_defer_transport([S EXCEPT !.xport[t].dead = TRUE], t)

qmgr_entry_unselect(S, m, q) ==
    LET t == TransportOf[q]
        j == S.job[m][t]
        Q == S.queue[q]
    IN  [S EXCEPT
            !.queue[q] = [Q EXCEPT !.todo_refcount = Q.todo_refcount + 1,
                                   !.busy_refcount = Q.busy_refcount - 1],
            !.job[m][t] = [j EXCEPT !.selected_entries = j.selected_entries - 1,
                                    !.peer_list = CountEntries(j.peer_list, q, 1, -1)]]

\* An agent for transport t is available, or not, and takes a request, or
\* fails to.  The work that it was allocated for may have gone meanwhile.
qmgr_deliver(t) ==
    \/ /\ t \in Unreliable /\ ~xport[t].dead
       /\ Commit(TransportFails(Now, t))
    \/ /\ xport[t].job_list # <<>>
       /\ \E E \in qmgr_job_entry_select(Now, t) :
            \/ Commit(E.S)
            \/ /\ E.m # NONE /\ t \in Unreliable
               /\ Commit(TransportFails(qmgr_entry_unselect(E.S, E.m, E.q), t))

DeferIfDead(S, q) == IF QMGR_QUEUE_THROTTLED(S, q) THEN qmgr_defer_todo(S, q) ELSE S

Window(S, q, w) == [S EXCEPT !.queue[q].window = w]

\* qmgr_transport_unthrottle()
Alive(S, t) == [S EXCEPT !.xport[t].dead = FALSE]

\* The window after good news: a dead site is given another chance.
Wider(q) ==
    LET w == queue[q].window
        busy == queue[q].busy_refcount
    IN  IF w = 0 THEN {busy}
        ELSE {w} \cup {x \in {w + 1} : /\ TransportOf[q] \notin RateDelay
                                       /\ w < MaxConc /\ w < busy + InitConc}

\* ... and after bad news, with zero for a dead site.
Narrower(q) == {0, queue[q].window} \cup {w \in {queue[q].window - 1} : w > 0}

\* An agent reports: success may widen the window, trouble with the site may
\* close it, and then everything that waits for the site is deferred.  The
\* agent may also go away without a report.
qmgr_deliver_update(m, q) ==
    /\ Busy(job[m][TransportOf[q]], q)
    /\ \/ \E w \in Wider(q) :
            Commit(qmgr_entry_done(Alive(Window(Now, q, w), TransportOf[q]), m, q, "busy"))
       \/ /\ q \in Sites /\ QMGR_QUEUE_READY(Now, q)
          /\ \E w \in Narrower(q) :
               Commit(qmgr_entry_done(Alive(DeferIfDead(Window(Now, q, w), q), TransportOf[q]),
                                      m, q, "busy"))
       \/ /\ TransportOf[q] \in Unreliable
          /\ Commit(qmgr_entry_done(Now, m, q, "busy"))

\* The back-off of a site is over.
qmgr_queue_unthrottle(q) ==
    /\ QMGR_QUEUE_THROTTLED(Now, q)
    /\ LET busy == queue[q].busy_refcount
       IN  Commit(QueueDoneIfIdle([Now EXCEPT !.queue[q].window =
                                      IF busy > 0 THEN busy ELSE InitConc], q))

\* The pause of a rate-limited site is over.
qmgr_queue_resume(q) ==
    /\ queue[q].window = -1
    /\ LET S == [Now EXCEPT !.queue[q].window = 1]
       IN  Commit(IF S.queue[q].todo_refcount = 0 /\ S.queue[q].busy_refcount = 0
                  THEN QueueDoneIfIdle(S, q)
                  ELSE qmgr_job_blocker_update(S, q))

qmgr_transport_unthrottle(t) ==
    /\ xport[t].dead
    /\ Commit(Alive(Now, t))

\* The rest of qmgr_active_done(), when bounce(8) has answered: go on with
\* the recipients that were not read yet, or drop the message.
qmgr_active_done(m) ==
    /\ msg[m].stage = "done"
    /\ Commit(IF msg[m].more
              THEN Settle([qmgr_message_realloc(Now, m) EXCEPT !.msg[m].stage = "active"], m)
              ELSE qmgr_message_free(Now, m))

Next ==
    \/ \E m \in Message : qmgr_active_feed(m)
    \/ \E m \in Message : qmgr_active_done(m)
    \/ \E t \in Transport : qmgr_deliver(t)
    \/ \E t \in Transport : qmgr_transport_unthrottle(t)
    \/ \E m \in Message, q \in Queue : qmgr_deliver_update(m, q)
    \/ \E q \in Queue : qmgr_queue_unthrottle(q)
    \/ \E q \in Queue : qmgr_queue_resume(q)

Spec == Init /\ [][Next]_vars

-----------------------------------------------------------------------------
(***************************************************************************)
(* Properties.                                                             *)
(***************************************************************************)

\* The state is well formed.
TypeOK ==
    /\ DOMAIN xport = Transport /\ DOMAIN queue = Queue
    /\ \A t \in Transport : xport[t] \in QMGR_TRANSPORT
    /\ \A q \in Queue : queue[q] \in QMGR_QUEUE
    /\ \A m \in Message : msg[m] \in QMGR_MESSAGE
    /\ \A m \in Message, t \in Transport : job[m][t] \in QMGR_JOB
    /\ order \in Seq(Message)
    /\ panic \in BOOLEAN

\* None of the scheduler's sanity checks fails (the msg_panic() calls of
\* qmgr_job.c and qmgr_message.c): in no order of feeding, preempting,
\* retiring, reviving, deferring and freeing is a stale pointer or a leaked
\* recipient slot found.
NoPanic == ~panic

\* A job that could be delivered right now.
Selectable(m, t) ==
    \E p \in ToSet(job[m][t].peer_list) :
        p.todo > 0 /\ queue[p.queue].window > queue[p.queue].busy_refcount

\* The shortcuts of qmgr_job_entry_select() (start at job_current, skip the
\* blockers) never hide work: if some job of a transport can be delivered,
\* then one that can be is found from the current job on.
NoHiddenWork ==
    \A t \in Transport :
        (\E m \in Message : Selectable(m, t)) =>
            LET T == xport[t]
            IN  /\ T.job_current # NONE
                /\ \E m \in {T.job_current} \cup ToSet(Behind(T.job_list, T.job_current)) :
                      Selectable(m, t) /\ ~IS_BLOCKER(Now, m, t)

\* Recipient slots are neither lost nor made up, whatever order jobs are
\* created, preempted, retired, revived and freed in.  "Note that
\* transport->rcpt_unused is within <-rcpt_per_stack,0> in such case": however
\* deep jobs preempt one another, the slots they take in advance never exceed
\* the reserve that is kept for them.
SlotsConserved ==
    /\ \A t \in Transport : xport[t].rcpt_unused >= -StackRcptLimit
    /\ \A t \in Transport :
          xport[t].rcpt_unused
            + FoldLeft(LAMBDA n, m : n + job[m][t].rcpt_limit, 0, order) = XportRcptLimit
    /\ \A m \in ToSet(order) :
          msg[m].rcpt_limit = MsgRcptLimit
            + FoldLeft(LAMBDA n, t : n + job[m][t].rcpt_limit, 0, msg[m].job_list)

\* Both lists of a transport have the same jobs, in time order where the code
\* relies on it; no pointer is to a job that is not on the lists.
ListsMatch ==
    \A t \in Transport :
        LET T == xport[t]
            linked == {m \in Message : job[m][t].stack_level >= 0}
        IN  /\ ToSet(T.job_list) = linked /\ ToSet(T.job_bytime) = linked
            /\ \A i, j \in DOMAIN T.job_list : T.job_list[i] = T.job_list[j] => i = j
            /\ \A i, j \in DOMAIN T.job_bytime :
                  i < j => Older(Now, T.job_bytime[i], T.job_bytime[j])
            /\ {T.job_current, T.job_next_unread} \subseteq linked \cup {NONE}
            /\ linked \subseteq ToSet(order)

\* A preempting job precedes its parent on the scheduler's list and is deeper
\* in the stack, also after the job between them was retired and it was
\* adopted; no job points to a parent that has left the lists.
StacksNested ==
    \A t \in Transport, m \in Message :
        LET p == job[m][t].stack_parent
        IN  p # NONE =>
              /\ job[p][t].stack_level >= 0
              /\ job[m][t].stack_level > job[p][t].stack_level
              /\ Contains(Behind(xport[t].job_list, m), p)

\* Entries wait only in jobs that are on the lists.
NoEntryOffList ==
    \A t \in Transport, m \in Message :
        (\E p \in ToSet(job[m][t].peer_list) : p.todo > 0) => job[m][t].stack_level >= 0

\* The lists, stacks and pointers of a transport agree with its jobs, whatever
\* order jobs are linked, pushed, popped, adopted and retired in;
\* qmgr_entry_unselect() may put an entry back into a job that was just retired,
\* but not for long (qmgr_job_link(), qmgr_job_pop(), qmgr_job_retire()).
ListsAgree == ListsMatch /\ StacksNested /\ NoEntryOffList

\* A job is charged only for slots that it has or can still earn, so its debt
\* never exceeds its size: preemption delays a large message by a number of
\* deliveries that the message itself bounds, however many small ones come.
DebtBounded ==
    \A t \in Transport, m \in Message :
        job[m][t].slots_available >= -job[m][t].read_entries

=============================================================================
