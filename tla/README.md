# TLA+ models of Postfix

This directory specifies what Postfix does with a message and with the processes
that handle it, from the moment a client connects until a remote server has
answered for every recipient: `master(8)`, the way in (`smtpd(8)`, `postdrop(1)`,
`pickup(8)`, `cleanup(8)`), the queue manager `qmgr(8)` with `bounce(8)` and
`defer(8)`, and the way out (`smtp(8)`, also as LMTP client). Modules are checked
with TLC on small instances; the theorems of the `*Proofs` modules, about every
part but the job scheduler, are proved with TLAPS for all instances.
Source paths below are relative to `src/postfix/src/`.

    Lists.tla           a list without some of its elements, and a loop over a list
    ListsProofs.tla     what remains of such a list
    QmgrFlow.tla        transports, per-site queues, concurrency control, timers
    QmgrFlowProofs.tla  theorems about QmgrFlow
    QmgrActive.tla      one message in the active queue: batches, agents, logs
    QmgrActiveProofs.tla  theorems about QmgrActive
    MailStore.tla       what a mail system promises; QmgrActive implements it
    QmgrJob.tla         the preemptive job scheduler
    Master.tla          master(8) and the server processes it supervises
    MasterProofs.tla    theorems about Master
    Cleanup.tla         cleanup(8) processes, queue files and their commit
    Smtpd.tla           an SMTP session (extends Cleanup)
    Pickup.tla          postdrop(1) and pickup(8) (extends Cleanup)
    Submission.tla      composition of Smtpd, Pickup, Cleanup and the queue
    SubmissionProofs.tla  theorems about Submission
    SubmissionOnceProofs.tla  its runs without a fault (extends SubmissionProofs)
    SmtpProto.tla       the SMTP and LMTP client's conversation with one server
    SmtpProtoProofs.tla theorem and lemmas about SmtpProto
    SmtpClient.tla      the choice of servers and cached connections around it
    SmtpClientProofs.tla  theorems about SmtpClient (extends SmtpProtoProofs)
    MC*.tla, *.cfg      instances for TLC
    PROJECT.json        components, runs, mutants, source map, findings,
                        hazards, theorems

    tlc -config QmgrFlow.cfg MCQmgrFlow
    tlapm ListsProofs.tla
    tlapm QmgrFlowProofs.tla
    tlapm QmgrActiveProofs.tla
    tlapm MasterProofs.tla
    tlapm SubmissionProofs.tla
    tlapm SubmissionOnceProofs.tla
    tlapm SmtpProtoProofs.tla
    tlapm SmtpClientProofs.tla

## 1. Inventory

Postfix is a set of cooperating processes that share a queue directory and talk
over local sockets; `master(8)` starts them. The last column names the module;
rows without one are not modelled (section 10).

| Component | State | Operations | Talks to | What is hard | Correct when | Module |
|---|---|---|---|---|---|---|
| Flow control: `qmgr/qmgr_{transport,queue,entry,deliver,defer,error,enable}.c` | transports (dead, rate lock, pending), queues per transport and site (window, feedback counters, todo and busy lists, timers), a static report buffer | select and allocate an agent, send a request, handle its report, throttle, suspend, resume, revive, defer, flush | agents, `retry(8)`, the job scheduler, event timers | replies, timers, new mail and flushes in any order; state encoded in one integer (`window`: -1 suspended, 0 throttled) guarded by `msg_panic()`; queues that disappear while a list is walked | no panic, no dangling timer, limits kept, nothing waits behind a dead site, no transport gets stuck | `QmgrFlow` |
| Message life cycle: `qmgr/qmgr_active.c`, `qmgr_message.c` | queue file (directory, done marks, mode bits), in-core message, bounce and defer logs | feed, read a batch, assign, finish, flush logs, defer or remove | agents, `bounce(8)`, `defer(8)`, `postsuper(1)` | three kinds of processes and five files without transactions; any process can die between two steps; asynchronous completion | every recipient is delivered or reported; nothing is delivered twice at the same time; the message leaves the active queue | `QmgrActive` |
| `bounce(8)`, `defer(8)`: `bounce/*.c`, `global/abounce.c`, `global/defer.c` | one log file per message and service | append, notify (read, post, remove), time out | cleanup, qmgr, agents | a log that grows while it is read, late daemons | a log is removed only when all it says was reported | `QmgrActive` |
| Job scheduler: `qmgr/qmgr_job.c`, `qmgr_peer.c` | jobs, peers, slots, stack of preempting jobs, recipient slots | create, preempt, retire, select, refill | flow control | slot accounting under preemption | an entry is found when one is eligible; slots are conserved; no starvation | `QmgrJob` |
| `master(8)`: `master/master_*.c` | services, children, available and total counts, throttle state | spawn, status message, child exit, wakeup, reload | every daemon | status messages that arrive after the exit they precede; reload during use | counts exact, limit kept, a service with demand gets a process | `Master` |
| Server skeletons: `master/*_server.c` | accept lock, use and idle counters | accept, serve, exit | master, clients | many processes wait for one socket | a client is served once, max_use and max_idle honoured | `Master` (single_server) |
| `cleanup(8)` and `global/mail_stream.c`, `mail_queue.c` | queue file under construction | write, sync, make ready, reply | smtpd, pickup, qmgr | crash between sync, chmod and reply | what was acknowledged is in the queue | `Cleanup`, `Submission` |
| `master/mail_flow.c` | tokens in a pipe | get, put, count | cleanup, qmgr | lost tokens | senders slow down and never stop for good |  |
| `scache(8)`, `postscreen(8)`, `anvil(8)`, `flush(8)`, `verify(8)` | caches with time limits | see source | smtp, smtpd | expiry against use | one user per session, no result past its time |  |
| `smtpd(8)`: `smtpd/smtpd.c`, `smtpd_state.c` | the session and its mail transaction, the stream to cleanup | MAIL, RCPT, DATA, BDAT, RSET, ... | clients, cleanup | a command that fails half way, a client that leaves, a cleanup that dies | what the client was told is true; nothing of one transaction is left for the next | `Smtpd`, `Submission` |
| `postdrop(1)`, `pickup(8)`: `postdrop/`, `pickup/` | maildrop files | write, commit, copy, remove | users, cleanup | a crash between hand-over and removal | local mail is neither lost nor, without a fault, doubled | `Pickup`, `Submission` |
| `smtp(8)`: `smtp/smtp_{connect,proto,trouble,rcpt,reuse,session}.c` | recipients and their marks, sender and receiver state, the session | connect, reuse, pipeline commands, account for replies, give up | servers, scache, qmgr | replies that lag behind commands; errors half way; several servers and cached connections | each recipient has one outcome, which is about that recipient | `SmtpProto`, `SmtpClient` |
| `local(8)`, `virtual(8)`, `pipe(8)`, `error(8)` | per delivery | file and process I/O | qmgr | partial writes | recipients are settled once | |
| Rewriting, lookup tables, TLS, milters, DNS, administrative commands | none, or in external programs | text and I/O | | | |  |

`PROJECT.json` lists every component with its sources and status, and under
`hazards` the places in the code, line by line, that the properties are aimed
at.

## 2. Plan

Done: all modules listed above, their runs and mutants, and the theorems of
section 9: every invariant of every module but `QmgrJob`, the refinement of
`MailStore`, and the action properties `WithinLimit` and `SuspensionHonoured`.

`QmgrJob` is written with folds over sequences, about which the prover knows
little; it stays with TLC.

## 3. QmgrFlow: flow control

**State.** `queue` maps each queue name (a site, or for `retry(8)` a reason text)
to its `QMGR_QUEUE`; `live` says whether the C object exists. `queue_list` is the
order in which `qmgr_transport_select()` walks the queues of a transport.
`transport` holds the flags, `pending`, and, for connections that the C code has
only as event registrations, `connecting` and `delayed`. `timers` and `timer` are
the requested timers. `dsb` is the static `DSN_BUF` of `qmgr_deliver_update()`. A
`msg_panic()` sets the sticky `panic` of the object concerned.

**Actions** are the event handlers, each to completion since qmgr is single
threaded: `qmgr_message_assign` (new mail, which may be deferred at once),
`qmgr_transport_alloc`, `qmgr_transport_event`, `qmgr_transport_rate_event`,
`qmgr_deliver_update` (every report: success, deferral with and without a
reason, death of the agent), the two queue timers, the transport timer,
`qmgr_enable_all` (flush) and `qmgr_abort` (watchdog). Helpers carry the names of
the C functions and map an object to the object after the call.

**Abstractions.** Feedback and cohort sums are exact multiples of `1/Scale`, not
doubles; hysteresis is 1. Which entry the job scheduler selects, and which
transport the round robin visits, is left open. `qmgr_loop()` drains the active
queue one allocation per step. A connection that could not be made
(`stream == 0`) is an outcome of `qmgr_deliver`. Reason texts are reduced to the
site they are about and the number of "delivery temporarily suspended"
prefixes, capped by `MaxPrefix`. Session caching flags and logging are left out.

| Run | Instance | Checks | Shows |
|---|---|---|---|
| `flow` | 1 site, 3 entries, limit 3, initial concurrency 4, `Scale` 6 | `TypeOK`, `NoPanic`, `TimersMatchState`, `ConcurrencyBounded`, `NothingParked`, `PendingExact` | consistency of queues, transports and timers |
| `flow_rate` | 2 sites, 2 entries, destination and transport rate delay | `RateLockExclusive`, `ListsExact`, `SuspensionHonoured` | one request in flight; an entry is on one list and a site without mail is removed; only the timer ends a suspension |
| `flow_live` | 1 site, 2 entries, no rate delay | `TransportNotStuck` | waiting mail gets on the wire or is deferred |
| `flow_stuck` | the same with a transport rate delay | `TransportNotStuck` | finding, section 8 |

`ListsExact` is the conjunction of `EntryOnOneList`, `QueueListExact` and
`NoIdleSite`.

Why the bounds suffice: three entries with limit three let the window rise, fall
below the number of busy deliveries and reach the cohort limit while two other
deliveries are under way; two sites are needed where one site's state influences
another's (rate lock, static buffer, selection). `QueueCountLimit` 2 makes the
retry queue both accept and refuse entries. `Scale` 6 is divisible by every
window up to three. The theorems remove these bounds.

**Fairness** (`FairSpec`): weak fairness of agent allocation, of connection events,
of timers, and of an agent's report. It stands for the event loop, which runs
every event that is due in each turn; an agent that does not answer is ended by
its watchdog, or by the queue manager's `qmgr_deliver_abort()`. Arrival of mail,
flushes and aborts are not fair.

## 4. QmgrActive: one message in the active queue

**State.** `file` is the queue file: its directory, the recipients marked as done,
and the mode bits "corrupt" and "expire". `log` holds the recipients in the bounce
and defer logs. `msg` is the in-core message: `stage` is the function of
`qmgr_active.c` that runs next or the reply it waits for, `flags` whether anything
was deferred, `rcpt_offset` where the next batch starts, `todo` the requests not
yet sent. `agent` and `daemon` are the other processes; `own` says whether the
present queue manager listens to them. `delivered` and `notified` are history.

**Actions.** Queue manager: `qmgr_active_feed`, refill by `qmgr_job_peer_select`,
`qmgr_defer_todo`, `qmgr_deliver_send_request`, and one per function of the
`qmgr_active_done` chain. Agents: open and lock, deliver, append to a log, mark the
recipient or the file, report, die. Daemons: read the log, post, remove the log
and answer, fail, be too late. `postsuper_expire`. Death and restart of the queue
manager. The
constant `FaultSets` is a set of sets of faults; the initial state picks one
(variable `faults`), and only the troubles in it happen.

**Abstractions.** One request per recipient. A recipient's file offset is its
number. An empty log counts as none, as in the code. Trace and delay warning
daemons are their status callbacks only. The time stamp given to a deferred file
only delays the next attempt and is left out. Unless `"transit"` is in `faults`, a
new queue manager starts only after the requests of the old one were picked up:
a timing assumption that holds on a machine that is not overloaded. Redirection
and content filters are left out.

**Refinement.** `MailStore` says what a mail system owes its clients: a message is
stored until each recipient has it or was reported to the sender, and nothing
is done with it afterwards. `KeepsPromise` says that `QmgrActive` implements it;
`stored` is the existence of the queue file, `delivered` and `reported` are the
history variables. The code keeps this promise only while the faults of section
8 do not occur, which is why the run has three sets of faults and not all
faults together.

| Run | Instance | Checks | Shows |
|---|---|---|---|
| `active` | 3 recipients; batches and restarts, with: agents and notifications that fail; damaged files; expiry | `TypeOK`, `NoMailLost`, `NotForgotten`, `NoParallelDelivery`, `NoFalseAlarm`, `KeepsPromise` | nothing is lost whatever dies; expired mail is returned with all its recipients, and only those |
| `active_live` | 2 recipients, all faults but transit | `LeavesActive` | no message stays in the active queue |
| `active_bounce` | 2 recipients; expiry and failed notifications | `NoMailLost` | finding, section 8 |

Why the bounds suffice: three recipients give a message that is read in one, two
or three batches, and a recipient each that is delivered, bounced and deferred;
two agents are the least for parallel delivery and for one agent of the old and
one of the new queue manager; two daemons for a late one beside a current one.

**Fairness.** Every process takes its next step: agents and daemons have watchdogs
and I/O time limits, the queue manager's event loop sends requests while there
are any, a `msg_panic()` ends the process, and `master(8)` restarts a queue manager. Feeding, refilling, faults and
`postsuper` are not fair.

## 5. QmgrJob: the preemptive scheduler

**State.** Per transport: `job_list` (the scheduler's order), `job_bytime`,
`job_current`, `job_next_unread`, the pool `rcpt_unused`, and the candidate cache.
Per message and transport a `QMGR_JOB` with its stack position, its slots and its
peers; `order` has the messages in core by age. A `msg_panic()` sets `panic`.

**Actions** are the events of the queue manager: `qmgr_active_feed`, `qmgr_deliver`
(an agent takes the entry that `qmgr_job_entry_select()` finds, or is not there),
`qmgr_deliver_update`, the timers of queues and transports, and the end of
`qmgr_active_done`, which reads more recipients or frees the message. Everything
below them is a function from scheduler state to scheduler state, one for each C
function, composed in the order of the code.

**Abstractions.** An entry has one recipient. The clock is open: a candidate's
score is any that some time of day gives. Blocker tags are two sets of each
transport, the jobs and the queues that have its tag. A message
that comes back from the deferred queue is another message. Deferred entries are
taken in the order of message age. The delay between the last entry and
`qmgr_active_done()` is a stage of the message.

**Run** `job`: three messages of one, two and four recipients, read in pieces
(`RefillLimit` 2, three recipients in core), a transport with two sites of which
one can die, and `retry(8)` with a rate delay and an agent that may be
unavailable. `SlotCost` 2 and `MinSlots` 1 make four recipients enough to be
preempted; three messages are the least for a job that is adopted when the one
between is retired. Checks `TypeOK`; `NoPanic`, no sanity check fails;
`NoHiddenWork`, the shortcuts of `qmgr_job_entry_select()` never miss work;
`SlotsConserved`, recipient slots are not leaked; `ListsAgree` (`ListsMatch`,
`StacksNested`, `NoEntryOffList`); `DebtBounded`, what preemption costs a message
is bounded by the size of the message, which is the scheduler's protection
against starvation.

## 6. Master: process supervision

**State.** `conf` is master.cf, `serv` the `MASTER_SERV` table, `proc` the master's
table of children, `child` the processes as they are, `chan` the status pipes,
`backlog` the listen queues, `batch` the events that one call of `event_loop()`
has collected and not yet delivered, `got` signals caught, `stuck` a master that
is blocked in `read()` or has panicked.

**Actions.** `event_loop` collects ready descriptors, and `master_avail_event` and
`master_status_event` handle them one by one; between two batches come
`master_reap_child`, `master_refresh` (reload), the wakeup and unthrottle timers,
and the stress timer. Server processes lock the socket, accept, serve, report,
and leave after `max_use` clients, after `max_idle`, when the master has closed
the status pipe, or by a crash. Clients connect; the operator edits
master.cf, one service at a time.

**Abstractions.** The generation number of a process is compared for equality
only; a new process gets one that no process or message with its ID has. The
services of master.cf and the process IDs are finite sets. `accept()` and the "taken" message are one step. Servers are those of
`single_server.c`. A process ID is reused as soon as it was waited for.

| Run | Instance | Checks | Shows |
|---|---|---|---|
| `master` | 2 services (one with stress, one with a wakeup timer), 2 process IDs, 1 client, pipe of 1 message | `TypeOK`, `TableIsExact`, `BeliefIsTrue`, `SomebodyListens`, `WithinLimit` | counters, tables and beliefs are right or only late |
| `master_live` | 1 service, 2 process IDs, pipe of 2 messages | `ClientServed` | a client is accepted |

Two process IDs and a limit of one or two, changed by a reload, give a process
that is reported after its exit, an ID that is used again while an old message
is under way, and a service that takes the ID of another. `Budget` 1 is one
crash, failed fork or reload at any moment; `MaxUse` 2 makes a process both
return to the socket and leave.

**Fairness.** Weak for the event loop, its handlers and server processes. Strong
for reaping, reload and unthrottling, which the loop does in each turn although
it may be between batches only now and then, and for accepting: an idle timeout
does not coincide with each new connection. Clients, crashes and the operator
are not fair. `ClientServed` exempts the blocked master of section 8.

## 7. Mail in, mail out

### 7.1 Submission: Smtpd, Pickup, Cleanup

**State.** A cleanup process has a phase, the records on its stream, error bits and
flags; a file has its directory, the data in it, and whether it is ready
(`fchmod`), synced, torn, or orphaned by a kill. `sess` is `SMTPD_STATE`, `drop`
the maildrop files with their postdrop process, `pick` the pickup process. `asked`
is what policy demanded of each message, `sent` what the client got positive
replies for, `told` and `user` the final answers.

**Actions.** Each SMTP command from reading to reply (DATA in three steps: the
command, end of data, the answer of cleanup); each record in cleanup, with its
error and policy outcomes; each step at the end of a message (drain, hold,
bounce, `fchmod`, `fsync`, close, reply, remove); the steps of postdrop and
pickup; signals, kills, I/O errors and a power failure at any of them; the queue
manager takes a ready file.

**Abstractions.** A record is what identifies it: the message, the recipient's
number, a piece of content. The n-th recipient of message `m` is `<<m, n>>`. What
access tables, header checks and Milters decide is open; access tables act at
RCPT. Error and junk limits, TLS and HELO state are left out because the session
may end at any time anyway. The rename to the hold queue and the change of
`cleanup_path` are one step, as are connecting and `cleanup_open()`. Before-queue
filters, stand-alone mode and MAIL options are not modelled.

**Run** `submission`: five setups. Two messages in a session with one fault; two
messages in pieces (BDAT) with one policy verdict; one message with two
recipients, a fault and a verdict, without `smtpd_delay_open`; one local message
with both; and both kinds of client at once. Two messages are enough for one
transaction to disturb the next; two cleanup processes for the old one to be
still at work. Checks `TypeOK`; `NoMailLost`, what was acknowledged is in the
queue, whole and on disk; `QueueIsClean` (`OnlyWholeMessages`, `NoLeftover`,
`NoDuplicate`); `PolicyRespected`, a verdict sticks to its own message;
`WellFormedStream`, no sequence of commands gives cleanup a record out of place;
`EveryoneServed`. **Fairness**: weak for cleanup's steps, for smtpd once the client
has sent its message, and for pickup. Clients, faults and the queue manager are
not fair.

### 7.2 SmtpProto and SmtpClient

**State.** `st` has the recipients with the marks of `smtp_rcpt.c`, the pending reason
`why`, `final_server` and the outcome of each recipient; `ses` the session; `lp`
the local variables of `smtp_loop()`, where a sender and a receiver walk through
the same list of states, the sender ahead; `it` those of `smtp_connect_inet()`;
`cache` the connection cache. `srv` is the server: the commands without a reply,
and its own transaction.

**Actions.** Address lookup; reuse by destination, by address, and for backup
servers; connect; `smtp_helo()` and its failures; each command sent, each reply
received, the lost connection; the end of a session, of a next hop and of the
request.

**Abstractions.** The server is external: it replies in order, with any of four
classes, and takes responsibility only at the end of data; an LMTP server refuses
DATA without recipients; replies that come before the body is complete after a
lost connection are refusals. The RSET probe of a cached connection and QUIT are
atomic. TLS is opportunistic with fallback to plaintext; a policy that cannot be
looked up is a failed connection. XFORWARD, an early TLS reply, loop detection,
Unix-domain destinations, `soft_bounce`, SASL and failures to write the bounce log
are not modelled.

**Run** `smtp`: the setups of `MCSmtpClient`: with and without pipelining, SMTP and
LMTP, TLS, two next hops with and without fallback relay, probes that end at RCPT
or DATA, cached connections by address and by destination with session limits
one and two, no limit on servers and sessions (a limit of zero), a server that is
not allowed, three recipients. The order in which `qsort()` leaves the recipients
that are kept is open, since all of them have the same key. Checks `TypeOK`, with
the limits on servers and sessions;
`ExactlyOnce`, each recipient has one outcome, and it is "sent" exactly if a
server said so; `RepliesMatch`, each reply is taken for the command and the
recipient that it answers; `BounceIsAboutMe`, nobody is bounced for what was said
of another; `Terminates`. The last needs weak fairness of the program's next
step: servers answer, or a time limit ends the wait. Two recipients and two
servers give an error about one recipient with the other still in the game;
three recipients let the sender be two ahead of the receiver with a refused one
between.

## 8. Where the code and its comments disagree

Two are runs that TLC must find violated; `PROJECT.json` quotes the lines.

* `flow_stuck`: with a transport rate delay, an agent that dies before it reports
  leaves the rate lock set, and the transport does nothing more.
* `active_bounce`: a failed bounce is forgotten when the defer notification of the
  same message succeeds.

The others were met while modelling and have no run of their own; properties
that they would violate name them as exceptions or are checked without the
fault that leads to them. Those of the queue manager can be reproduced by giving
the faults in quotes to `QmgrActive.cfg`.

* A site is throttled with the reason reported for another site, from the static
  `DSN_BUF` of `qmgr_deliver_update()` (`qmgr/qmgr_deliver.c:348`).
* Forced expiration of a message with more than one batch of recipients ends in
  the "recipient list not empty" panic (`qmgr/qmgr_message.c:1560`; "force",
  "batch").
* A recipient whose agent died is missing from the notification when the message
  expires (`qmgr/qmgr_deliver.c:347`; "expire" or "force" with "agent"). The same happens
  to one whose defer record was lost or cut off with the log, by a notification
  that failed half way or was late ("expire" or "force" with "notify";
  "expire", "timeout").
* A request picked up after a restart of the queue manager is delivered in
  parallel with the new one (`qmgr/qmgr.c:743`; "restart", "transit").
* A `bounce(8)` that outlives `ABOUNCE_TIMEOUT` removes records appended after it
  read the log ("batch", "timeout"); forced expiration after an interrupted
  attempt uses an incomplete defer log ("force", "restart").
* `qmgr_defer_todo()` creates a retry queue before it knows whether there is
  anything to move, and the empty ready queue stays (`NoIdleSite` is therefore
  about sites only). The sum in `qmgr_transport_select()` has negative terms for
  sites with more deliveries than window, which hides the work of their sisters
  until a delivery ends.
* A cached "no candidate" of `qmgr_job_candidate()` may be stale: a preemption is
  missed, no work is hidden.
* `master/master_status.c:169` makes the status pipe blocking where the comments at
  74 and 163 reckon with a read that does not wait: when a reload has replaced the
  pipe during a batch of events, the master waits in `read()` until some child
  reports (`ClientServed` exempts it). A "taken" message that a reload throws away
  makes the master count on that process until its client is done.
* `postdrop/postdrop.c:617` leaves an incomplete maildrop file behind when the input
  is refused; the comment at 466 says that it is cleaned up.
* `smtpd/smtpd.c:2634` clears per-message flags before the nested MAIL check, so a
  refused MAIL changes the running transaction; what its `AUTH=` and `SIZE=` set
  (2732, 2808) is not undone, and the 553 return for SMTPUTF8 (2878) skips
  `mail_reset()`.
* `smtp/smtp_proto.c:2086` against 2460: with `smtp_skip_quit_response = no`, an error
  reply at end of data that disables caching makes the receiver wait for the
  reply to a QUIT that was not sent (an exception in `RepliesMatch`; the wait ends
  with the time limit). An unexpected end of the session also overwrites the mark
  "throttled" (1735).
* `smtp/smtp_connect.c:901`: a reused connection is called the final server although
  addresses that have no cached connection remain, against the comment at
  `smtp_trouble.c:247`.
* `smtp/smtp_connect.c:1208` (and 1200): a server that policy does not allow is
  skipped without a new reason, so that a recipient who was kept for another
  server may be bounced at 1441 with the reason of an earlier one (an exception
  in `BounceIsAboutMe`).

## 9. What is proved

TLC shows each property below on a small instance, the theorem for every value of
the constants. The proofs hold for each module by itself; that the modules fit
together where they meet is by construction, not proved.

### 9.1 QmgrFlow

`QmgrFlowProofs` proves for every number of sites, transports and entries, every
concurrency limit and every feedback setting from 0 to 1:

* `Inductive`: `Spec => []IInv`;
* `TypeCorrect`, `NeverPanics`, `TimersExact`, `WithinLimits`, `BackoffIsEmpty`,
  `PendingCount`, `RateLockHeld`: the invariants `TypeOK`, `NoPanic`,
  `TimersMatchState`, `ConcurrencyBounded`, `NothingParked`, `PendingExact` and
  `RateLockExclusive`;
* `ListsAlwaysExact`: `ListsExact`; `EntriesExact` has the parts about entries and
  idle sites;
* `PauseHonoured`: the action property `SuspensionHonoured`.

**Assumptions**: finite sets of entries and sites (`EntryAssumption`,
`SiteAssumption`); the types of the
configuration parameters (`ConfigAssumption`); feedback between 0 and 1, which
`qmgr_feedback_init()` enforces (`FeedbackAssumption`); reasons are not site names
(`DsnAssumption`). TLC evaluates all of them in every run.

**Argument.** None of the properties is inductive by itself. That
`qmgr_queue_done()` does not panic depends on the queue being ready and empty,
that it is ready on timers matching states, that the window stays positive on
the feedback counters lying within one step (a counter that ran away would
change the window by more than the loop allows for), and for rate-limited sites
on the limit being one. `IInv` collects these facts: every queue is `Sound` (types,
counter ranges, timers, reason, limits, no panic), a throttled or removed queue
has no todo entry, every transport is `Calm` (pending exact, timer and reason match
`dead`), nothing is parked at a dead transport, and a rate-delayed transport has at
most one request in flight. The lemmas follow the code: one for each C function
that changes a queue (`CreateSound`, `ThrottleSound`, `UnthrottleSound`,
`EntryDoneSettled`, ...), one for a deferral that touches several queues
(`DeferTodoSettled`, `SinkSettled`), one for each event handler (`AllocStep`,
`DeliverStep`, `UpdateStep`, ...); `Inductive` combines them. For `EntriesExact` and `PauseHonoured` a
handler is a chain of operations that each satisfy `Follows`, a transitive
relation between the queues before and after: entries stay on one list, no idle
site appears, and what is suspended stays so (`FollowsDefer`, `FollowsUpdate`, ...).
`QueueListExact` follows from `Unlinked` and `InSomeOrder` (section 9.6) in every
step, since each of them adapts the list in one way (`ListMoves`).

### 9.2 QmgrActive and MailStore

`QmgrActiveProofs` proves for every number of recipients, agents and daemons:

| Theorem | States | For the faults |
|---|---|---|
| `TypeCorrect` | `TypeOK` | any |
| `NeverForgotten` | `NotForgotten` | any |
| `NoDuplicateWork` | `NoParallelDelivery` | all but "transit" |
| `NobodyAlarmed` | `NoFalseAlarm` | all but "transit" |
| `MailIsKept` | `NoMailLost` | `Safe` |
| `ImplementsMailStore` | `KeepsPromise` | `Safe` |

**Assumptions**: the number of recipients is a positive natural number (`RcptAssumption`), and
the condition on `FaultSets` in the last column, a hypothesis of the theorem.
`Safe(F)` is the exact form of section 8: not "transit"; not "batch" with "timeout";
no failed agent, notification or timeout for a message that expires; no restart
when expiration is forced. Every set of faults of the run `active` is safe. It is as
weak as the code allows but for one pair: for each of the others that it
excludes, TLC finds a loss with two recipients ("transit" needs a restart to have
an effect); for "force" with "timeout" alone it found none.

**Argument.** The invariant has six layers, each proved from those before it, so that
no proof has to look at everything. `Control` is the queue manager's own program
counter: it waits for what is under way and for nothing else, and a message
partly read has a place to read on from; it holds under all faults. `Locking`
says that requests and notifications of an earlier queue manager keep the file
locked until it can be fed again, hence never meet those of the present one.
`Reporting` says that a log does not grow while a daemon reads it, and that a mark
in the queue file is about a recipient who has the message, was reported, or is
in the bounce log. `Truthful` keeps the defer log about recipients who still
wait; `Honest` says that, without faults of an agent, a recipient has one outcome,
so that nobody is bounced who has the message. `Promise` is the point of it all:
when nothing was deferred, every recipient that was read is marked or in
somebody's hands (`Accounted`); and, because a message that expires is reported
from its defer log, that log has everybody who was tried and is not marked
(`Excused`). The second half is what the faults that `Safe` excludes destroy. For
each C function a lemma (`FeedCases`, `DoneTwoCases`, `AgentCases`, ...) says once, field
by field, what it changes; the layers cite these and do not expand the actions.

`ImplementsMailStore` is shown by `StoreStep`: each step is a `Deliver`, a `Report`, a
`Forget` or a stutter of `MailStore`. `Forget` is the removal of the queue file by
`qmgr_active_done_3_generic()`, where `Accounted` gives the guard; that `Deliver` and
`Report` happen only while the file exists follows from the locks.

### 9.3 Master

`MasterProofs` proves for every number of services, process IDs and clients, every
process limit and every size of the pipe and the listen queue: `TypeCorrect`
(`TypeOK`), `TableExact` (`TableIsExact`), `BeliefCorrect` (`BeliefIsTrue`), `ListenersExact`
(`SomebodyListens`), and `LimitKept`, the action property `WithinLimit`.

**Assumptions** (`MasterAssumption`): finite sets of services and process IDs, a
nonempty set of limits for each service, a pipe and a listen queue that hold at
least one item. TLC evaluates it in both runs.

**Argument.** The counters of a `MASTER_SERV` are equal to the cardinality of sets of
table entries (`Counted`), which has the consequence that the sanity checks of
`master_avail_less()` and `master_delete_child()` never panic (`Table`), but only as
long as the table agrees with the processes that exist (`Table`: service,
generation, and that the service is still configured). `Listening` states for every
record the policy of `master_avail.c` on when to monitor the socket, a relation
between five fields that each event must restore. `Belief` is the hard part: what
the table says of a connected process is true, or a message that makes it true
is the last one from that process in the pipe (`Known`). It survives the reuse of a
process ID only with `Messages`: a message with the generation of the process that
has the ID now came through the pipe of that process's service. One lemma for
each event (`StatusStep`, `ReapStep`, `RefreshStep`, ...) restores the invariant; `KnownTail`
is about the removal of a message from the front of a pipe. For `LimitKept`, `WhoAdds`
says that a process is added only to a service that is being listened to, so that
`Listening` and `Counted` give the limit.

### 9.4 Submission

`SubmissionProofs` proves for every number of cleanup processes, queue files,
messages, recipients, faults and verdicts: `TypeCorrect` (`TypeOK`), `AcceptedIsKept`
(`NoMailLost`), `StreamsWellFormed` (`WellFormedStream`), `PolicyHonoured`
(`PolicyRespected`), and two of the three parts of `QueueIsClean`:
`QueueHoldsWholeMessages` and `NothingLeftOver`. `SubmissionOnceProofs` adds the third
part, `NoDuplicate`, which makes the theorem `QueueClean` (`QueueIsClean`).

**Assumptions.** `SubmissionAssumption`: a message has one way in, of two, a message can have
a recipient, and every setting in `Setups` gives the messages that may come a number in
`Mail` and has at most `MaxRcpt` recipients for each. The assumptions of
`Cleanup`, `Smtpd` and `Pickup` are about the types of the constants. TLC evaluates
all of them in the run `submission`.

**Argument.** What a client has written, what is still on its way and what cleanup
made of the rest is one thing seen from three sides, and none of the properties is
inductive without it. A *plan* describes a stream by its message, the number of
recipients, the flags, the pieces of content and how far the client is;
`RecordAt` gives the record at each place of the stream, `ActAt` and `DataAt` the state
and the file of a process that has read up to that place. `PlanOf` says that the
pipe of a process that reads is the rest of its plan, and for a process that serves
a session or pickup that the plan is the one that the fields of the session
describe (`SessPlan`, `PickPlan`). `PlaceStep` is the heart of `StreamsWellFormed`: the
next record of a plan fits the place where the process is. The other layers: a
file and its process, phase by phase (`ProcOK`); what each state of a file needs
(`FileOK`); who has a file (`OwnFile`) and which file can get a message (`OneFile`); what
clients know (`SessOK`, `PickOK`, `DropOK`). A message that was accepted is `Kept`: in a good
file that no process can remove any more. That is stronger than `NoMailLost`,
which by itself would allow `cleanup_sig()` to remove the file in the next step.
`NoDuplicate` is only about runs without a fault, and its invariant `CleanInv` is as well:
a local message is in one file at most (`OnceOK`), the one that pickup's process is
writing or one that was accepted, and in the latter case pickup does not touch the
maildrop file again but to remove it; a process that cancels has not made its file
visible, and when it answers anything but success the file is gone (`CancelOK`). For a
message from SMTP `OneFile` already says it, with faults or without.

There is one lemma for each action. Frame lemmas (`CleanupFrame`, `SmtpdFrame`,
`PickupFrame`) carry over the conjuncts about processes, files and clients that
an action has nothing to do with.

For this proof the name of a new queue file became an arbitrary free one, where the
model had the smallest, as `mail_queue_enter()` promises no order.

### 9.5 SmtpProto and SmtpClient

`SmtpProtoProofs` proves of `smtp_loop()` by itself, for any server and any number of
recipients, that each step keeps `ProtoInv` (`LoopInvariant`). `SmtpClientProofs`
builds on it and proves for every set of setups: `Inductive` (`Spec => []IInv`),
`TypeCorrect` (`TypeOK`), `OneOutcome` (`ExactlyOnce`), `RepliesAreMatched`
(`RepliesMatch`) and `BouncesAreJust` (`BounceIsAboutMe`). Any number of next hops,
servers and recipients, any list of servers with any of them in the cache, SMTP
and LMTP, pipelining, probes, both limits including none.

**Assumptions** (`SetupsAssumption`): a finite set of recipients; `NoRcpt` and `NoAddr`
are none of them and none of the addresses; setups are of the type `Setup`; the recipients of
a request are different records, though their addresses may be the same; a
connection that the cache has under the name of the destination it also has
under its own address, as `scache(8)` keeps it. TLC evaluates it in the run `smtp`.

**Argument.** Four things have to be true together. First, `Account`: every
recipient is on the list or has an outcome; those with both carry the mark "drop";
the last server marks nobody "keep". It is the reason why no count of
`smtp_rcpt_cleanup()` is off. `Taken` adds that those whom the server took are those
who are sent, but for the one reply that was lost after end-of-data, when a
recipient is deferred although it may have arrived.

Second, `Talks`, for `RepliesMatch`: the sender and the receiver of `smtp_loop()`
walk along one plan of commands, at the places `SendPlace` and `RecvPlace`. Which
recipients may still be undecided depends only on these places (`Open`): those
whose reply has not been read, and the survivors. While recipients are being asked
the wire is the stretch of the plan between the places (`Asking`). When the plan
changes under commands that are under way, because all recipients were refused
or the transaction is aborted, the stretch is no longer on the plan: for each
way there is a separate description of what is owed (`Aborting`, `Closing`), with
the number of replies that the receiver will still wait for (`Count`) and which
they are (`Awaited`). `Hearing` reads off that the first command on the wire is
the one the receiver expects. The exception in `RepliesMatch`, a reply to QUIT
awaited that was not sent, comes out of `Closing` as the case that has one reply less.

Third, `Counted`, for the limits: a list of servers that is not empty has room for
one more under both limits, in each of the four loops that walk such a list. A
limit of zero is never equal to a count, so that the code's `==` is "no limit".

Fourth, `Reasoned`, for `BounceIsAboutMe`: when a 5xx reason is left at the end of a next hop,
it is about everybody who is still on the list, or another server follows and
will replace it. A session with the last server sets `final_server`, which
makes the failures of that session decide everybody there and then; what remains
for `smtp_connect()` is a reason from a lookup or from a server that was not
allowed, and the latter is the exception `skipped`.

There is one lemma for each C function (`MiscFailOK`, `StreamExceptOK`, `CleanupOK`,
...), one for each action (`MailReplyOK`, `EmitCommandOK`, `XferOK`, ...); the latter all
conclude with one predicate of the values a step leaves, `Moves` for the loop and
`Served` for the rest, which `ProtoNext` and `ServedNext` turn into the invariant of
the next state.

Two things in the model changed for these proofs, both towards the code:
`smtp_rcpt_cleanup()` kept the order of the recipients, which `qsort()` does not
promise; and `TypeOK` did not allow for limits of zero.

### 9.6 Lists

Two places in the code walk over a list and unlink some of it: `smtp_scrub_addr_list()`
and the removal of queues, `QMGR_LIST_UNLINK` in `qmgr_queue_done()`. Both are
`Without` of the module `Lists`, a recursive function on positions, because the
library's `SelectSeq` is opaque to the prover. `Unlinked` in `ListsProofs` says for
every list what is left: the elements that are not removed, each once if it was
there once. There is no induction rule to cite, since those of the library take an
operator as a parameter; `NatMin`, a set of natural numbers has a least element,
takes its place, and follows from the well-foundedness of strict inclusion among
the subsets of a finite set.

### 9.7 Only model-checked

* `QmgrJob`: a handler is a chain of loops over jobs, peers and messages (`Each` of
  `Lists`), and every loop needs an invariant of its own on a state in the middle of
  the handler, where the lists and the counters do not agree.
* Liveness under fairness and anything with ENABLED, for the same reason:
  `TransportNotStuck`, `LeavesActive`, `ClientServed`, `EveryoneServed`, `Terminates`.

## 10. What is not modelled

* Within the modelled components: see the abstractions above. The rounding of
  doubles in the feedback sums is left out, and so is the lost update of mode bits
  between `qmgr_active_feed()` and `postsuper -e`, a hazard without a property.
* Mail flow tokens change when cleanup proceeds, not what it does.
* The server skeletons other than `single_server.c`: the same protocol with
  the master, with more than one client per process, or none.
* `scache(8)`, `postscreen(8)`, `anvil(8)`, `flush(8)`, `verify(8)`: each is one event
  driven process with a table and time limits of its own. None of them is
  responsible for a message; `scache(8)` is an external service of `SmtpClient`.
* `local(8)`, `virtual(8)`, `pipe(8)`: file and process I/O for one recipient at a
  time; what the queue manager sees of them is in `QmgrActive`.
* Text processing (addresses, headers, MIME, notification texts, record formats,
  `smtpd_check.c` restrictions, configuration), lookup tables, TLS, DNS, SASL and
  the Milter protocol are most of the 276,000 lines of the source. Their
  correctness is about text, numbers and calls of external libraries, not about
  state that processes share, and a state machine would be a copy of the code.
  Where a decision of theirs matters it is an open choice in the modules above.
