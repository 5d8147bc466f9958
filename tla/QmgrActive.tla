----------------------------- MODULE QmgrActive -----------------------------
(***************************************************************************)
(* The life of one message in the active queue: qmgr(8) reads its          *)
(* recipients from the queue file in batches, hands them to delivery       *)
(* agents, asks bounce(8) and defer(8) for non-delivery notifications, and *)
(* then removes the queue file or moves it to the deferred queue.          *)
(*                                                                         *)
(* Queue manager, agents and bounce daemons are processes of their own.    *)
(* They share the queue file (recipients are marked as done in place, an   *)
(* flock() says that somebody works on it) and the bounce and defer logs.  *)
(* Any of them can die; the others go on with what they have.  The queue   *)
(* manager's chain of qmgr_active_done functions is one action each, so    *)
(* that agents left over from an earlier queue manager can run in between. *)
(*                                                                         *)
(* Recipients are numbered in queue file order, and each one is a delivery *)
(* request of its own.  An empty log file counts as no log file.           *)
(***************************************************************************)
EXTENDS Integers, FiniteSets

CONSTANTS
    N,        \* number of recipients
    Agent,    \* delivery agent processes
    Daemon,   \* bounce(8) and defer(8) processes
    FaultSets \* what can happen besides the normal course of events: alternatives

ASSUME RcptAssumption == N \in Nat \ {0}

Fault == {"batch",    \* there are more recipients than one read takes
          "agent",    \* an agent dies, or cannot append to the defer log
          "corrupt",  \* an agent finds that the queue file is damaged
          "notify",   \* a notification cannot be posted
          "timeout",  \* ... or takes longer than ABOUNCE_TIMEOUT
          "expire",   \* the message is too old
          "force",    \* postsuper -e
          "restart",  \* the queue manager dies and is restarted
          "transit"}  \* ... before a request it sent was picked up

ASSUME FaultsAssumption == FaultSets \subseteq SUBSET Fault

Rcpt == 1..N

VARIABLES
    file,      \* the queue file
    log,       \* the bounce and defer logs: recipients with a record in them
    msg,       \* the in-core QMGR_MESSAGE
    agent,     \* delivery agents
    daemon,    \* bounce(8) and defer(8)
    delivered, \* history: recipients that were delivered
    notified,  \* history: recipients in notifications that were posted
    faults     \* which of the faults can happen

vars == <<file, log, msg, agent, daemon, delivered, notified, faults>>

Dir == {"incoming", "active", "deferred", "corrupt", "none"}

QueueFile == [dir : Dir, done : SUBSET Rcpt, bad : BOOLEAN, expire : BOOLEAN]

\* stage: which function of qmgr_active.c comes next, or what it waits for.
Stage == {"none", "down", "deliver", "done", "bounce", "done_2", "trace",
          "done_25", "defer", "warn", "done_3"}

QMGR_MESSAGE ==
    [stage : Stage, flags : BOOLEAN, force : BOOLEAN, rcpt_offset : 0..(N + 1),
     rcpt_list : SUBSET Rcpt, todo : SUBSET Rcpt, panic : BOOLEAN]

DELIVER_REQUEST ==
    [phase : {"idle", "sent", "open", "delivered", "bounced", "ok", "failed"},
     rcpt : Rcpt, own : BOOLEAN, retry : BOOLEAN]

BOUNCE_INFO ==
    [phase : {"idle", "sent", "open", "posted"}, service : {"bounce", "defer"},
     lock : BOOLEAN, own : BOOLEAN, rcpts : SUBSET Rcpt]

NoMessage ==
    [stage |-> "none", flags |-> FALSE, force |-> FALSE, rcpt_offset |-> 0,
     rcpt_list |-> {}, todo |-> {}, panic |-> FALSE]

IdleAgent == [phase |-> "idle", rcpt |-> 1, own |-> FALSE, retry |-> FALSE]

IdleDaemon == [phase |-> "idle", service |-> "bounce", lock |-> FALSE,
               own |-> FALSE, rcpts |-> {}]

Init ==
    /\ file = [dir |-> "incoming", done |-> {}, bad |-> FALSE, expire |-> FALSE]
    /\ log = [bounce |-> {}, defer |-> {}]
    /\ msg = NoMessage
    /\ agent = [a \in Agent |-> IdleAgent]
    /\ daemon = [d \in Daemon |-> IdleDaemon]
    /\ delivered = {} /\ notified = {}
    /\ faults \in FaultSets

-----------------------------------------------------------------------------
(***************************************************************************)
(* Reading recipients and making delivery requests (qmgr_message.c).       *)
(***************************************************************************)

\* Somebody holds a shared lock on the queue file.
Locked ==
    \/ \E a \in Agent : agent[a].phase \notin {"idle", "sent"}
    \/ \E d \in Daemon : daemon[d].phase # "idle" /\ daemon[d].lock

\* qmgr_message_read() from record "first" on: what it adds to rcpt_list,
\* and rcpt_offset, zero when it read to the end of the file.
qmgr_message_read_mutant(first) ==
    {[list |-> (first..N) \ file.done, offset |-> 0]} \cup
    {[list |-> (first..last) \ file.done, offset |-> last + 2] :
        last \in IF "batch" \in faults THEN (first..N) \ file.done ELSE {}}

qmgr_message_read(first) ==
    {[list |-> (first..N) \ file.done, offset |-> 0]} \cup
    {[list |-> (first..last) \ file.done, offset |-> last + 1] :
        last \in IF "batch" \in faults THEN (first..N) \ file.done ELSE {}}

Outstanding(m, A) ==
    m.todo # {} \/ \E a \in Agent : A[a].phase # "idle" /\ A[a].own

\* The message after its refcount changed: the last reference is gone or not.
Settle(m, A) ==
    [m EXCEPT !.stage = IF Outstanding(m, A) THEN "deliver" ELSE "done"]

\* qmgr_message_resolve() and qmgr_message_assign(): recipients get a
\* request, are deferred on the spot (a dead destination and no retry(8)
\* service) or are discarded (the local double-bounce address).
Assign(m, read, deferLog) ==
    \E deferred \in SUBSET read.list : \E discarded \in SUBSET (read.list \ deferred) :
        /\ m.force => discarded = {}
        /\ msg' = Settle([m EXCEPT !.rcpt_offset = read.offset,
                                   !.flags = @ \/ deferred # {},
                                   !.todo = @ \cup (read.list \ (deferred \cup discarded))],
                         agent)
        /\ \E lost \in SUBSET deferred :
             /\ "agent" \notin faults => lost = {}
             /\ log' = [log EXCEPT !.defer = deferLog \cup (deferred \ lost)]
        /\ file' = [file EXCEPT !.dir = "active", !.done = @ \cup discarded]
        /\ delivered' = delivered \cup discarded
        /\ UNCHANGED <<agent, daemon, notified>>

qmgr_message_alloc_mutant(read) ==
    LET m == [NoMessage EXCEPT !.force = file.expire]
    IN  IF file.expire /\ log.defer # {}
        THEN /\ msg' = [m EXCEPT !.stage = "done", !.flags = TRUE,
                                 !.rcpt_list = read.list,
                                 !.rcpt_offset = read.offset]
             /\ file' = [file EXCEPT !.dir = "active"]
             /\ UNCHANGED <<log, agent, daemon, delivered, notified>>
        ELSE Assign(m, read, log.defer)

qmgr_message_alloc(read) ==
    LET m == [NoMessage EXCEPT !.force = file.expire]
    IN  IF file.expire /\ log.defer # {}
        THEN /\ msg' = [m EXCEPT !.stage = "done", !.flags = TRUE,
                                 !.rcpt_list = read.list,
                                 !.rcpt_offset = read.offset]
             /\ file' = [file EXCEPT !.dir = "active"]
             /\ UNCHANGED <<log, agent, daemon, delivered, notified>>
        ELSE Assign(m, read, {})

\* qmgr_active_corrupt() and qmgr_message_free().
qmgr_active_corrupt ==
    /\ file' = [file EXCEPT !.dir = "corrupt"]
    /\ msg' = NoMessage
    /\ UNCHANGED <<log, agent, daemon, delivered, notified>>

\* qmgr_active_feed().  A future time stamp only delays this, and a flush
\* request ignores it.
qmgr_active_feed_mutant ==
    /\ msg.stage = "none"
    /\ file.dir \in {"incoming", "deferred"}
    /\ ~file.bad
    /\ \E read \in qmgr_message_read(1) : qmgr_message_alloc(read)

qmgr_active_feed ==
    /\ msg.stage = "none"
    /\ file.dir \in {"incoming", "deferred"}
    /\ ~file.bad
    /\ IF Locked
       THEN /\ file' = [file EXCEPT !.dir = "incoming"]
            /\ UNCHANGED <<log, msg, agent, daemon, delivered, notified>>
       ELSE \/ \E read \in qmgr_message_read(1) : qmgr_message_alloc(read)
            \/ "corrupt" \in faults /\ qmgr_active_corrupt

\* qmgr_message_realloc(), which takes no lock.
qmgr_message_realloc_mutant ==
    \E read \in qmgr_message_read(msg.rcpt_offset) : Assign(msg, read, {})

qmgr_message_realloc ==
    IF msg.rcpt_list # {}
    THEN /\ msg' = [msg EXCEPT !.panic = TRUE]
         /\ UNCHANGED <<file, log, agent, daemon, delivered, notified>>
    ELSE \E read \in qmgr_message_read(msg.rcpt_offset) :
            Assign(msg, read, log.defer)

\* qmgr_job_peer_select() refills the in-core recipients; "if the refcount
\* is zero, it means that qmgr_active_done() is being completed".
qmgr_job_peer_select_mutant ==
    /\ msg.stage \in {"deliver", "bounce"}
    /\ msg.rcpt_offset # 0
    /\ qmgr_message_realloc

qmgr_job_peer_select ==
    /\ msg.stage = "deliver"
    /\ msg.rcpt_offset # 0
    /\ qmgr_message_realloc

\* qmgr_defer_todo() without a retry queue.
qmgr_defer_todo(r) ==
    /\ r \in msg.todo
    /\ msg' = Settle([msg EXCEPT !.todo = @ \ {r}, !.flags = TRUE], agent)
    /\ \/ log' = [log EXCEPT !.defer = @ \cup {r}]
       \/ "agent" \in faults /\ log' = log
    /\ UNCHANGED <<file, agent, daemon, delivered, notified>>

-----------------------------------------------------------------------------
(***************************************************************************)
(* Delivery agents.                                                        *)
(***************************************************************************)
qmgr_deliver_send_request(a, r) ==
    /\ r \in msg.todo
    /\ agent[a].phase = "idle"
    /\ agent' = [agent EXCEPT ![a] = [phase |-> "sent", rcpt |-> r,
                                      own |-> TRUE, retry |-> msg.force]]
    /\ msg' = [msg EXCEPT !.todo = @ \ {r}]
    /\ UNCHANGED <<file, log, daemon, delivered, notified>>

\* Open the queue file and lock it.  It is looked for in the active queue.
deliver_request_get(a) ==
    /\ agent[a].phase = "sent"
    /\ agent' = [agent EXCEPT ![a].phase =
                    IF file.dir = "active" THEN "open" ELSE "failed"]
    /\ UNCHANGED <<file, log, msg, daemon, delivered, notified>>

sent(a) ==
    /\ agent[a].phase = "open" /\ ~agent[a].retry
    /\ delivered' = delivered \cup {agent[a].rcpt}
    /\ agent' = [agent EXCEPT ![a].phase = "delivered"]
    /\ UNCHANGED <<file, log, msg, daemon, notified>>

bounce_append(a) ==
    /\ agent[a].phase = "open" /\ ~agent[a].retry
    /\ log' = [log EXCEPT !.bounce = @ \cup {agent[a].rcpt}]
    /\ agent' = [agent EXCEPT ![a].phase = "bounced"]
    /\ UNCHANGED <<file, msg, daemon, delivered, notified>>

defer_append(a) ==
    /\ agent[a].phase = "open"
    /\ \/ log' = [log EXCEPT !.defer = @ \cup {agent[a].rcpt}]
       \/ "agent" \in faults /\ log' = log
    /\ agent' = [agent EXCEPT ![a].phase = "failed"]
    /\ UNCHANGED <<file, msg, daemon, delivered, notified>>

\* "A delivery agent marks a queue file as corrupt by changing its
\* attributes, and by pretending that delivery was deferred."
mark_corrupt(a) ==
    /\ "corrupt" \in faults
    /\ agent[a].phase = "open" /\ ~agent[a].retry
    /\ file' = [file EXCEPT !.bad = TRUE, !.expire = FALSE]
    /\ agent' = [agent EXCEPT ![a].phase = "failed"]
    /\ UNCHANGED <<log, msg, daemon, delivered, notified>>

\* The open file is updated in place, wherever it has been moved to.
deliver_completed(a) ==
    /\ agent[a].phase \in {"delivered", "bounced"}
    /\ file' = [file EXCEPT !.done = @ \cup {agent[a].rcpt}]
    /\ agent' = [agent EXCEPT ![a].phase = "ok"]
    /\ UNCHANGED <<log, msg, daemon, delivered, notified>>

\* The queue manager hears about the agent, unless it is a newer one.
AgentGone(a, failed) ==
    LET A == [agent EXCEPT ![a] = IdleAgent]
    IN  /\ agent' = A
        /\ msg' = IF agent[a].own
                  THEN Settle([msg EXCEPT !.flags = @ \/ failed], A)
                  ELSE msg
        /\ UNCHANGED <<file, log, daemon, delivered, notified>>

qmgr_deliver_update(a) ==
    /\ agent[a].phase \in {"ok", "failed"}
    /\ AgentGone(a, agent[a].phase = "failed")

\* DELIVER_STAT_CRASH.
AgentDies_mutant(a) ==
    /\ "agent" \in faults
    /\ agent[a].phase # "idle"
    /\ agent' = [agent EXCEPT ![a] = IdleAgent]
    /\ UNCHANGED <<file, log, msg, daemon, delivered, notified>>

AgentDies(a) ==
    /\ "agent" \in faults
    /\ agent[a].phase # "idle"
    /\ AgentGone(a, TRUE)

-----------------------------------------------------------------------------
(***************************************************************************)
(* Notifications: abounce.c and bounce(8).                                 *)
(***************************************************************************)

\* Ask a daemon to flush a log, or fail at once.
abounce_flush(service, failure) ==
    \/ \E d \in Daemon :
         /\ daemon[d].phase = "idle"
         /\ daemon' = [daemon EXCEPT ![d] = [IdleDaemon EXCEPT
                            !.phase = "sent", !.service = service, !.own = TRUE]]
         /\ msg' = [msg EXCEPT !.stage = service]
    \/ /\ \/ "notify" \in faults
          \/ \A d \in Daemon : daemon[d].phase # "idle"
       /\ msg' = failure
       /\ daemon' = daemon

\* The status callbacks.
qmgr_active_done_2_bounce_flush(failed) ==
    [msg EXCEPT !.flags = @ \/ failed, !.stage = "done_2"]

qmgr_active_done_3_defer_flush(failed) ==
    [msg EXCEPT !.flags = failed, !.stage = "done_3"]

Flushed(service, failed) ==
    IF service = "bounce" THEN qmgr_active_done_2_bounce_flush(failed)
                          ELSE qmgr_active_done_3_defer_flush(failed)

\* bounce_mail_init() opens the log and the queue file and locks the latter
\* if it is still in the active queue.  Without a log the notification says
\* that no report is available: it names nobody, and is about everybody.
bounce_mail_init(d) ==
    /\ daemon[d].phase = "sent"
    /\ daemon' = [daemon EXCEPT ![d].phase = "open",
                                ![d].lock = file.dir = "active",
                                ![d].rcpts = log[daemon[d].service]]
    /\ UNCHANGED <<file, log, msg, agent, delivered, notified>>

post_mail_fclose(d) ==
    /\ daemon[d].phase = "open"
    /\ notified' = notified \cup
                      (IF daemon[d].rcpts = {} THEN Rcpt ELSE daemon[d].rcpts)
    /\ daemon' = [daemon EXCEPT ![d].phase = "posted"]
    /\ UNCHANGED <<file, log, msg, agent, delivered>>

\* "Delete the bounce log file only when the bounce was posted
\* successfully", then tell the queue manager if it still listens.
bounce_notify_service_mutant(d) ==
    /\ daemon[d].phase \in {"open", "posted"}
    /\ log' = [log EXCEPT ![daemon[d].service] = {}]
    /\ msg' = IF daemon[d].own THEN Flushed(daemon[d].service, FALSE) ELSE msg
    /\ daemon' = [daemon EXCEPT ![d] = IdleDaemon]
    /\ UNCHANGED <<file, agent, delivered, notified>>

bounce_notify_service(d) ==
    /\ daemon[d].phase = "posted"
    /\ log' = [log EXCEPT ![daemon[d].service] = {}]
    /\ msg' = IF daemon[d].own THEN Flushed(daemon[d].service, FALSE) ELSE msg
    /\ daemon' = [daemon EXCEPT ![d] = IdleDaemon]
    /\ UNCHANGED <<file, agent, delivered, notified>>

\* The notification is not posted, or the daemon dies.
NotifyFails(d) ==
    /\ "notify" \in faults
    /\ daemon[d].phase # "idle"
    /\ msg' = IF daemon[d].own THEN Flushed(daemon[d].service, TRUE) ELSE msg
    /\ daemon' = [daemon EXCEPT ![d] = IdleDaemon]
    /\ UNCHANGED <<file, log, agent, delivered, notified>>

\* ABOUNCE_TIMEOUT: the queue manager goes on, and so does the daemon.
abounce_timeout(d) ==
    /\ "timeout" \in faults
    /\ daemon[d].phase \in {"open", "posted"} /\ daemon[d].own
    /\ msg' = Flushed(daemon[d].service, TRUE)
    /\ daemon' = [daemon EXCEPT ![d].own = FALSE]
    /\ UNCHANGED <<file, log, agent, delivered, notified>>

-----------------------------------------------------------------------------
(***************************************************************************)
(* qmgr_active.c, after the last recipient that is in core was tried.      *)
(***************************************************************************)
qmgr_active_done ==
    /\ msg.stage = "done" /\ ~msg.panic
    /\ IF log.bounce # {}
       THEN abounce_flush("bounce", qmgr_active_done_2_bounce_flush(TRUE))
       ELSE msg' = [msg EXCEPT !.stage = "done_2"] /\ daemon' = daemon
    /\ UNCHANGED <<file, log, agent, delivered, notified>>

\* Whether a trace was requested is left open.
qmgr_active_done_2_generic ==
    /\ msg.stage = "done_2" /\ ~msg.panic
    /\ \/ msg.flags /\ file.bad /\ qmgr_active_corrupt
       \/ /\ ~(msg.flags /\ file.bad)
          /\ IF msg.rcpt_offset > 0
             THEN \/ qmgr_message_realloc
                  \/ "corrupt" \in faults /\ qmgr_active_corrupt
             ELSE /\ \E next \in {"trace", "done_25"} :
                       msg' = [msg EXCEPT !.stage = next]
                  /\ UNCHANGED <<file, log, agent, daemon, delivered, notified>>

qmgr_active_done_25_trace_flush ==
    /\ msg.stage = "trace"
    /\ \E failed \in {FALSE} \cup {"notify" \in faults} :
         msg' = [msg EXCEPT !.flags = @ \/ failed, !.stage = "done_25"]
    /\ UNCHANGED <<file, log, agent, daemon, delivered, notified>>

\* Whether it is time for a delay warning is left open.
qmgr_active_done_25_generic ==
    /\ msg.stage = "done_25"
    /\ \E expired \in {msg.force, msg.force \/ "expire" \in faults} :
         IF msg.flags /\ expired
         THEN abounce_flush("defer", qmgr_active_done_3_defer_flush(TRUE))
         ELSE /\ \E next \in {"done_3"} \cup (IF msg.flags THEN {"warn"} ELSE {}) :
                    msg' = [msg EXCEPT !.stage = next]
              /\ daemon' = daemon
    /\ UNCHANGED <<file, log, agent, delivered, notified>>

\* The status of a delay warning does not matter.
qmgr_active_done_3_defer_warn ==
    /\ msg.stage = "warn"
    /\ msg' = [msg EXCEPT !.stage = "done_3"]
    /\ UNCHANGED <<file, log, agent, daemon, delivered, notified>>

qmgr_active_done_3_generic ==
    /\ msg.stage = "done_3"
    /\ file' = [file EXCEPT !.dir = IF msg.flags THEN "deferred" ELSE "none"]
    /\ msg' = NoMessage
    /\ UNCHANGED <<log, agent, daemon, delivered, notified>>

-----------------------------------------------------------------------------
(***************************************************************************)
(* The administrator, and the end and the start of a queue manager.        *)
(***************************************************************************)
postsuper_expire ==
    /\ "force" \in faults
    /\ file.dir \in {"incoming", "active", "deferred"}
    /\ ~file.expire /\ ~file.bad
    /\ file' = [file EXCEPT !.expire = TRUE]
    /\ UNCHANGED <<log, msg, agent, daemon, delivered, notified>>

\* Killed, ended by its watchdog, or by its own msg_panic().
qmgr_dies ==
    /\ "restart" \in faults \/ msg.panic
    /\ msg.stage # "down"
    /\ msg' = [NoMessage EXCEPT !.stage = "down"]
    /\ agent' = [a \in Agent |-> [agent[a] EXCEPT !.own = FALSE]]
    /\ daemon' = [d \in Daemon |-> [daemon[d] EXCEPT !.own = FALSE]]
    /\ UNCHANGED <<file, log, delivered, notified>>

InTransit ==
    \/ \E a \in Agent : agent[a].phase = "sent"
    \/ \E d \in Daemon : daemon[d].phase = "sent"

\* qmgr_move() from the active to the incoming queue.
qmgr_post_init ==
    /\ msg.stage = "down"
    /\ "transit" \notin faults => ~InTransit
    /\ msg' = NoMessage
    /\ file' = [file EXCEPT !.dir = IF @ = "active" THEN "incoming" ELSE @]
    /\ UNCHANGED <<log, agent, daemon, delivered, notified>>

AgentStep(a) ==
    \/ deliver_request_get(a)
    \/ sent(a)
    \/ bounce_append(a)
    \/ defer_append(a)
    \/ mark_corrupt(a)
    \/ deliver_completed(a)
    \/ qmgr_deliver_update(a)
    \/ AgentDies(a)

DaemonStep(d) ==
    \/ bounce_mail_init(d)
    \/ post_mail_fclose(d)
    \/ bounce_notify_service(d)
    \/ NotifyFails(d)
    \/ abounce_timeout(d)

\* The functions that finish with the message.
ActiveDone ==
    \/ qmgr_active_done
    \/ qmgr_active_done_2_generic
    \/ qmgr_active_done_25_trace_flush
    \/ qmgr_active_done_25_generic
    \/ qmgr_active_done_3_defer_warn
    \/ qmgr_active_done_3_generic

SendRequest == \E a \in Agent, r \in msg.todo : qmgr_deliver_send_request(a, r)

Step ==
    \/ qmgr_active_feed
    \/ qmgr_job_peer_select
    \/ \E r \in Rcpt : qmgr_defer_todo(r)
    \/ SendRequest
    \/ \E a \in Agent : AgentStep(a)
    \/ \E d \in Daemon : DaemonStep(d)
    \/ ActiveDone
    \/ postsuper_expire
    \/ qmgr_dies
    \/ qmgr_post_init

Next == Step /\ UNCHANGED faults

Spec == Init /\ [][Next]_vars

-----------------------------------------------------------------------------
(***************************************************************************)
(* Properties.                                                             *)
(***************************************************************************)

\* The state is well formed.
TypeOK ==
    /\ file \in QueueFile
    /\ log \in [bounce : SUBSET Rcpt, defer : SUBSET Rcpt]
    /\ msg \in QMGR_MESSAGE
    /\ agent \in [Agent -> DELIVER_REQUEST]
    /\ daemon \in [Daemon -> BOUNCE_INFO]
    /\ delivered \in SUBSET Rcpt /\ notified \in SUBSET Rcpt

\* "Throwing away queue files seems bad": a recipient who did not get the
\* message, and whose failure was not reported to the sender, is still in
\* the queue file, either not marked as done or else with a bounce log
\* record that the sender will hear about.
NoMailLost ==
    \A r \in Rcpt \ (delivered \cup notified) :
        /\ file.dir # "none"
        /\ r \in file.done => r \in log.bounce

\* The active queue holds exactly what the queue manager has in core (a file
\* that is there and not in core would sit there until a restart, one that is
\* in core and elsewhere would be fed a second time), and a message waits in
\* core only for something that will happen: a request that is queued or under
\* way, or a notification that is under way.
NotForgotten ==
    /\ msg.stage # "down" => (file.dir = "active" <=> msg.stage # "none")
    /\ msg.stage = "deliver" => Outstanding(msg, agent)
    /\ msg.stage \in {"bounce", "defer"} =>
          \E d \in Daemon : daemon[d].own /\ daemon[d].service = msg.stage
    /\ msg.stage \notin {"deliver"} => ~Outstanding(msg, agent)

\* deliver_request.c: the shared lock is there "in order to prevent
\* duplicate deliveries when the queue is flushed immediately after queue
\* manager restart".  No two agents work on the same recipient.
NoParallelDelivery ==
    \A a, b \in Agent :
        /\ a # b
        /\ agent[a].phase \notin {"idle", "sent"}
        /\ agent[b].phase \notin {"idle", "sent"}
        => agent[a].rcpt # agent[b].rcpt

\* A notification is about recipients who still wait.  qmgr_message.c: "it is
\* safe to remove the defer logfile from a previous queue run of this queue
\* file, because the defer log contains information about recipients that still
\* exist in this queue file."  And no record of an earlier attempt survives into
\* a later one that succeeded, unless an agent, a notification or the queue file
\* failed in between.
NoFalseAlarm ==
    /\ log.defer \cap file.done = {}
    /\ faults \subseteq {"batch", "expire", "restart"} =>
          \A d \in Daemon :
             daemon[d].phase = "posted" => daemon[d].rcpts \cap delivered = {}

\* The queue manager, its agents and the bounce daemons together keep the
\* promise of MailStore: the queue file is removed once, after every
\* recipient was delivered or reported, and no process that is still at
\* work delivers or reports afterwards.
Store == INSTANCE MailStore WITH
            Recipients <- Rcpt,
            stored <- file.dir # "none",
            reported <- notified

KeepsPromise == Store!Spec

-----------------------------------------------------------------------------
(***************************************************************************)
(* Liveness.  Every process takes its next step: agents and daemons have   *)
(* watchdogs and time limits of their own, and the queue manager's event   *)
(* loop allocates agents as long as there are requests.                    *)
(***************************************************************************)
Fairness ==
    /\ WF_vars(SendRequest /\ UNCHANGED faults)
    /\ WF_vars(ActiveDone /\ UNCHANGED faults)
    /\ WF_vars(msg.panic /\ qmgr_dies /\ UNCHANGED faults)
    /\ WF_vars(qmgr_post_init /\ UNCHANGED faults)
    /\ \A a \in Agent : WF_vars(AgentStep(a) /\ UNCHANGED faults)
    /\ \A d \in Daemon : WF_vars(DaemonStep(d) /\ UNCHANGED faults)

FairSpec == Spec /\ Fairness

\* Whatever fails, the message leaves the active queue: it is removed,
\* deferred, saved as corrupt, or recovered by a new queue manager.
LeavesActive == file.dir = "active" ~> file.dir # "active"

=============================================================================
