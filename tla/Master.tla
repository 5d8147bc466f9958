------------------------------- MODULE Master -------------------------------
(***************************************************************************)
(* The master(8) daemon and the server processes it supervises.            *)
(*                                                                         *)
(* Clients connect to a service's listen socket.  Either some idle server  *)
(* process accepts them, or, when it believes that there is none, the      *)
(* master watches the socket and forks one.  The master's belief comes     *)
(* from status messages on a pipe per service and from exit statuses: they *)
(* arrive late, in either order, about process IDs that may have been      *)
(* reused, and a reload throws away the pipe with what is in it.           *)
(*                                                                         *)
(* The master is one thread: event_loop() collects the descriptors that    *)
(* are ready and calls their handlers one by one (variable batch); signals *)
(* are looked at in between.  Server processes are those of                *)
(* single_server.c, which take turns on the listen socket with a lock.     *)
(* Every unbounded kind of trouble (crash, failed fork, reload) draws on   *)
(* one budget.                                                             *)
(***************************************************************************)
EXTENDS Integers, Sequences, FiniteSets

CONSTANTS
    Service,     \* what master.cf can contain
    Stress,      \* services with a stress parameter (public internet services)
    Wakeup,      \* services with a wakeup timer
    Pid,         \* process IDs
    Client,      \* client programs, each with one connection at a time
    Trigger,     \* a connection that the master makes to wake a service up
    NoService,
    Limits,      \* the values that max_proc of a service takes, zero is no limit
    MaxUse,      \* max_use: clients per server process
    Backlog,     \* connections that wait on one listen socket
    PipeSize,    \* messages that fit in a status pipe
    Budget       \* how often something goes wrong or the operator reloads

ASSUME MasterAssumption ==
    /\ IsFiniteSet(Service) /\ IsFiniteSet(Pid)
    /\ Stress \subseteq Service /\ Wakeup \subseteq Service
    /\ Trigger \notin Client /\ NoService \notin Service
    /\ Limits \in [Service -> (SUBSET Nat) \ {{}}]
    /\ MaxUse \in Nat \ {0} /\ Backlog \in Nat \ {0} /\ PipeSize \in Nat \ {0}
    /\ Budget \in Nat

VARIABLES
    conf,      \* master.cf: which services exist, and their settings
    serv,      \* MASTER_SERV: what the master keeps about each service
    proc,      \* master_child_table: what it believes about each process
    child,     \* the server processes themselves
    chan,      \* messages in the status pipe of each service
    backlog,   \* clients that wait on the listen socket of each service
    batch,     \* events that event_loop() has yet to deliver
    got,       \* signals that were caught and not looked at
    stuck,     \* "no", "blocked" in a read, or "panic"
    budget

vars == <<conf, serv, proc, child, chan, backlog, batch, got, stuck, budget>>

NoProc == [serv |-> NoService, gen |-> 0, use_count |-> 0, avail |-> FALSE]

\* A process ID that is not in use, a process that waits for the lock, one
\* that watches the socket, one that works for its client, one that exited
\* (and how) and has not been waited for.
Phase == {"none", "wait", "select", "busy", "exit", "fail"}

NoChild == [phase |-> "none", serv |-> NoService, gen |-> 0,
            conn |-> FALSE, use |-> 0]

\* What an entry in master.cf can say, or that there is none.
Entry(s) ==
    {e \in [on : BOOLEAN, max_proc : Limits[s] \cup {0}, condwake : BOOLEAN] :
        /\ IF e.on THEN e.max_proc \in Limits[s] ELSE e.max_proc = 0
        /\ e.condwake => e.on /\ s \in Wakeup}

Stopped ==
    [on |-> FALSE, listen |-> FALSE, throttle |-> FALSE, condwake |-> FALSE,
     timer |-> FALSE, max_proc |-> 0, avail_proc |-> 0, total_proc |-> 0,
     stress |-> FALSE]

Alive(p) == child[p].phase \in {"wait", "select", "busy"}
Dead(p)  == child[p].phase \in {"exit", "fail"}

-----------------------------------------------------------------------------
(***************************************************************************)
(* Socket monitoring policy, throttle, wakeup timers: functions from a     *)
(* MASTER_SERV to what the code makes of it.                               *)
(***************************************************************************)

MASTER_LIMIT_OK_mutant(limit, count) == limit = 0 \/ count <= limit

MASTER_LIMIT_OK(limit, count) == limit = 0 \/ count < limit

master_avail_listen(v) ==
    [v EXCEPT !.listen = /\ ~v.throttle
                         /\ v.avail_proc = 0
                         /\ MASTER_LIMIT_OK(v.max_proc, v.total_proc)]

master_avail_more(v) == master_avail_listen([v EXCEPT !.avail_proc = @ + 1])

master_avail_less(v) == master_avail_listen([v EXCEPT !.avail_proc = @ - 1])

master_throttle(v) == master_avail_listen([v EXCEPT !.throttle = TRUE])

master_unthrottle_mutant(v) == [v EXCEPT !.throttle = FALSE]

master_unthrottle(v) == master_avail_listen([v EXCEPT !.throttle = FALSE])

\* Whether master_wakeup_init() does something.  Then the first trigger is
\* sent at once, and the timer runs.
WakesUp(s, v) == s \in Wakeup /\ ~v.condwake

master_wakeup_init(s, v) == [v EXCEPT !.timer = @ \/ WakesUp(s, v)]

\* The connection made by master_wakeup_timer_event(), unless the service is
\* throttled or its backlog q is full.
Triggered(v, q) ==
    IF v.throttle \/ Len(q) >= Backlog THEN q ELSE Append(q, Trigger)

Woken(s, v, q) == IF WakesUp(s, v) THEN Triggered(v, q) ELSE q

-----------------------------------------------------------------------------
(***************************************************************************)
(* event_loop().  An event is delivered if its descriptor is still         *)
(* monitored.  A status pipe that was replaced by a new one has, more      *)
(* likely than not, the same descriptor.                                   *)
(***************************************************************************)

Running == stuck = "no"

Ready ==
    {<<"listen", s>> : s \in {t \in Service : serv[t].listen /\ backlog[t] # <<>>}}
    \cup {<<"status", s>> : s \in {t \in Service : serv[t].on /\ chan[t] # <<>>}}

event_loop ==
    /\ Running /\ batch = {} /\ Ready # {}
    /\ batch' = Ready
    /\ UNCHANGED <<conf, serv, proc, child, chan, backlog, got, stuck, budget>>

\* The generation is a counter.  All that matters is whether a message of
\* process ID p has the generation of the process that now has this ID: this
\* is a value that no message of p has.
Gens(p) == UNION {{chan[s][i].gen : i \in {j \in 1..Len(chan[s]) : chan[s][j].pid = p}} :
                     s \in Service}

master_generation(p) ==
    CHOOSE g \in 1..(Cardinality(Gens(p)) + 1) : g \notin Gens(p)

\* The service is used: turn on its wakeup timer if it waits for this.
FirstUse(s, v) ==
    IF v.condwake THEN master_wakeup_init(s, [v EXCEPT !.condwake = FALSE]) ELSE v

\* master_spawn() for service s: v is its record, ch are the processes and q
\* its backlog after the caller did its part.
master_spawn(s, v, ch, q) ==
    /\ stuck' = IF MASTER_LIMIT_OK(v.max_proc, v.total_proc) /\ v.avail_proc = 0 /\ ~v.throttle
                THEN stuck ELSE "panic"
    /\ \/ \* fork() fails
          /\ budget > 0 /\ budget' = budget - 1
          /\ serv' = [serv EXCEPT ![s] = master_throttle(v)]
          /\ child' = ch
          /\ backlog' = [backlog EXCEPT ![s] = q]
          /\ UNCHANGED proc
       \/ \E p \in Pid :
             /\ ch[p].phase = "none"
             /\ child' = [ch EXCEPT ![p] = [phase |-> "wait", serv |-> s,
                             gen |-> master_generation(p), conn |-> TRUE, use |-> 0]]
             /\ proc' = [proc EXCEPT ![p] = [serv |-> s, gen |-> master_generation(p),
                             use_count |-> 0, avail |-> TRUE]]
             /\ LET w == master_avail_more([v EXCEPT !.total_proc = @ + 1])
                IN /\ serv' = [serv EXCEPT ![s] = FirstUse(s, w)]
                   /\ backlog' = [backlog EXCEPT ![s] =
                          IF v.condwake THEN Woken(s, FirstUse(s, w), q) ELSE q]
             /\ UNCHANGED budget

\* The processes of s lose their status pipe.
master_status_cleanup(s) ==
    [p \in Pid |-> IF child[p].serv = s THEN [child[p] EXCEPT !.conn = FALSE] ELSE child[p]]

\* A client is waiting, and nobody else is listening.
master_avail_event(s) ==
    /\ Running /\ <<"listen", s>> \in batch
    /\ UNCHANGED <<conf, got>>
    /\ IF ~serv[s].listen
       THEN /\ batch' = batch \ {<<"listen", s>>}
            /\ UNCHANGED <<serv, proc, child, chan, backlog, stuck, budget>>
       ELSE LET full == s \in Stress
                        /\ ~MASTER_LIMIT_OK(serv[s].max_proc, serv[s].total_proc + 1)
                restart == full /\ ~serv[s].stress
                v == [serv[s] EXCEPT !.stress = @ \/ full]
            IN /\ chan' = IF restart THEN [chan EXCEPT ![s] = <<>>] ELSE chan
               /\ \E closed \in IF restart THEN {{}, {<<"status", s>>}} ELSE {{}} :
                     batch' = batch \ ({<<"listen", s>>} \cup closed)
               /\ IF restart
                  THEN master_spawn(s, master_wakeup_init(s, [v EXCEPT !.timer = FALSE]),
                                    master_status_cleanup(s), Woken(s, v, backlog[s]))
                  ELSE master_spawn(s, v, child, backlog[s])

\* A status message from a process that is gone, or that had this process
\* ID before.
Stale_mutant(m) == proc[m.pid] = NoProc

Stale(m) == proc[m.pid] = NoProc \/ proc[m.pid].gen # m.gen

master_status_event(s) ==
    /\ Running /\ <<"status", s>> \in batch
    /\ batch' = batch \ {<<"status", s>>}
    /\ UNCHANGED <<conf, child, backlog, got, budget>>
    /\ IF chan[s] = <<>>
       THEN stuck' = "blocked" /\ UNCHANGED <<serv, proc, chan>>
       ELSE LET m == Head(chan[s])
                p == proc[m.pid]
            IN /\ chan' = [chan EXCEPT ![s] = Tail(@)]
               /\ stuck' = IF Stale(m) \/ p.serv = s THEN stuck ELSE "panic"
               /\ IF Stale(m) \/ p.avail = m.avail
                  THEN UNCHANGED <<serv, proc>>
                  ELSE /\ proc' = [proc EXCEPT ![m.pid] =
                             [p EXCEPT !.avail = m.avail,
                                       !.use_count = IF m.avail THEN 1 ELSE p.use_count]]
                       /\ serv' = [serv EXCEPT ![s] =
                             IF m.avail THEN master_avail_more(@) ELSE master_avail_less(@)]

\* The blocked read() returns when a process writes to the new pipe.
master_status_unblock(s) ==
    /\ stuck = "blocked" /\ chan[s] # <<>> /\ serv[s].on
    /\ stuck' = "no"
    /\ batch' = batch \cup {<<"status", s>>}
    /\ UNCHANGED <<conf, serv, proc, child, chan, backlog, got, budget>>

-----------------------------------------------------------------------------
(***************************************************************************)
(* Between two calls of event_loop(): timers and signals.                  *)
(***************************************************************************)

Between == Running /\ batch = {}

master_unthrottle_wrapper(s) ==
    /\ Between /\ serv[s].throttle
    /\ serv' = [serv EXCEPT ![s] = master_unthrottle(@)]
    /\ UNCHANGED <<conf, proc, child, chan, backlog, batch, got, stuck, budget>>

master_wakeup_timer_event(s) ==
    /\ Between /\ serv[s].timer
    /\ backlog' = [backlog EXCEPT ![s] = Triggered(serv[s], @)]
    /\ UNCHANGED <<conf, serv, proc, child, chan, batch, got, stuck, budget>>

\* stress_expire_time passes.
StressExpires(s) ==
    /\ Between /\ serv[s].stress
    /\ serv' = [serv EXCEPT ![s].stress = FALSE]
    /\ UNCHANGED <<conf, proc, child, chan, backlog, batch, got, stuck, budget>>

\* What master_reap_child() makes of v when it waits for the processes in P,
\* using the tables pr and ch.  A process that failed on its first client
\* throttles the service.
Count(P, Q(_)) == Cardinality({p \in P : Q(p)})

ReapedAvail_all_idle(v, P, pr, bad) ==
    IF P = {} THEN v
    ELSE master_avail_listen([v EXCEPT !.total_proc = @ - Cardinality(P),
                                       !.avail_proc = @ - Cardinality(P),
                                       !.throttle = @ \/ bad])

ReapedAvail_not_idle(v, P, pr, bad) ==
    IF P = {} THEN v
    ELSE master_avail_listen([v EXCEPT !.total_proc = @ - Cardinality(P),
                                       !.throttle = @ \/ bad])

ReapedAvail_no_listen(v, P, pr, bad) ==
    LET idle == Count(P, LAMBDA p : pr[p].avail)
        w == [v EXCEPT !.total_proc = @ - Cardinality(P), !.avail_proc = @ - idle,
                       !.throttle = @ \/ bad]
    IN IF idle > 0 \/ bad THEN master_avail_listen(w) ELSE w

ReapedAvail(v, P, pr, bad) ==
    LET gone == Cardinality(P)
        idle == Count(P, LAMBDA p : pr[p].avail)
    IN IF P = {} THEN v
       ELSE master_avail_listen([v EXCEPT !.total_proc = @ - gone,
                                          !.avail_proc = @ - idle,
                                          !.throttle = @ \/ bad])

Reaped(v, s, P, pr, ch) ==
    LET mine == {p \in P : pr[p].serv = s}
    IN ReapedAvail(v, mine, pr, \E p \in mine : ch[p].phase = "fail" /\ pr[p].use_count = 0)

Forget(f, P, none) == [p \in Pid |-> IF p \in P THEN none ELSE f[p]]

Zombies == {p \in Pid : Dead(p)}

master_reap_child ==
    /\ Between /\ "SIGCHLD" \in got
    /\ got' = got \ {"SIGCHLD"}
    /\ stuck' = IF \E p \in Zombies : proc[p] = NoProc THEN "panic" ELSE stuck
    /\ serv' = [s \in Service |-> Reaped(serv[s], s, Zombies, proc, child)]
    /\ proc' = Forget(proc, Zombies, NoProc)
    /\ child' = Forget(child, Zombies, NoChild)
    /\ UNCHANGED <<conf, chan, backlog, batch, budget>>

\* master_start_service() and master_restart_service().
master_restart_service(s, v) ==
    master_avail_listen(master_wakeup_init(s, [v EXCEPT !.on = TRUE, !.timer = FALSE]))

\* An entry of master.cf is given to a service that is new or exists.
master_config(s, v) ==
    master_restart_service(s, [v EXCEPT !.max_proc = conf[s].max_proc,
                                        !.condwake = conf[s].condwake])

\* master_delete_children() for the services that disappeared: the processes
\* that it waits for, every other process that has exited among them.
master_delete_children(gone) ==
    LET killed == {p \in Pid : proc[p].serv \in gone}
    IN IF killed = {} THEN {} ELSE killed \cup Zombies

\* SIGHUP: services that are no longer in master.cf are stopped, all others
\* are started or restarted.
master_refresh ==
    LET waited == master_delete_children({s \in Service : serv[s].on /\ ~conf[s].on})
        disc == [p \in Pid |-> [child[p] EXCEPT !.conn = FALSE]]
    IN /\ Between /\ "SIGHUP" \in got
       /\ got' = got \ {"SIGHUP"}
       /\ serv' = [s \in Service |->
                     IF conf[s].on
                     THEN Reaped(master_config(s, serv[s]), s, waited, proc, child)
                     ELSE Stopped]
       /\ proc' = Forget(proc, waited, NoProc)
       /\ child' = Forget(disc, waited, NoChild)
       /\ chan' = [s \in Service |-> <<>>]
       /\ backlog' = [s \in Service |->
                        IF conf[s].on
                        THEN Woken(s, [serv[s] EXCEPT !.condwake = conf[s].condwake],
                                   backlog[s])
                        ELSE <<>>]
       /\ UNCHANGED <<conf, batch, stuck, budget>>

-----------------------------------------------------------------------------
(***************************************************************************)
(* Server processes (single_server.c).                                     *)
(***************************************************************************)

\* master_notify(): write() waits for room in the pipe, and fails when the
\* master has closed it.
CanNotify(p) == child[p].conn => Len(chan[child[p].serv]) < PipeSize

Notify(p, avail) ==
    IF child[p].conn
    THEN [chan EXCEPT ![child[p].serv] =
             Append(@, [pid |-> p, gen |-> child[p].gen, avail |-> avail])]
    ELSE chan

\* A process exits; its exit status is left.
Exits(p, how) ==
    [child EXCEPT ![p] = [NoChild EXCEPT !.phase = how, !.serv = child[p].serv,
                                         !.gen = child[p].gen]]

\* myflock() on the listen lock.
ServerLock(p) ==
    /\ child[p].phase = "wait"
    /\ \A q \in Pid : child[q].serv = child[p].serv => child[q].phase # "select"
    /\ child' = [child EXCEPT ![p].phase = "select"]
    /\ UNCHANGED <<conf, serv, proc, chan, backlog, batch, got, stuck, budget>>

\* single_server_accept_*(), where the lock is released, and
\* single_server_wakeup() up to the service routine.
single_server_accept(p) ==
    LET s == child[p].serv IN
    /\ child[p].phase = "select" /\ backlog[s] # <<>> /\ CanNotify(p)
    /\ child' = [child EXCEPT ![p].phase = "busy"]
    /\ chan' = Notify(p, FALSE)
    /\ backlog' = [backlog EXCEPT ![s] = Tail(@)]
    /\ UNCHANGED <<conf, serv, proc, batch, got, stuck, budget>>

\* single_server_wakeup(), the rest of it, and the end of the loop in
\* single_server_main().
single_server_done(p) ==
    LET last == ~child[p].conn \/ child[p].use + 1 >= MaxUse IN
    /\ child[p].phase = "busy" /\ CanNotify(p)
    /\ chan' = Notify(p, TRUE)
    /\ child' = IF last THEN Exits(p, "exit")
                ELSE [child EXCEPT ![p].phase = "wait", ![p].use = @ + 1]
    /\ got' = IF last THEN got \cup {"SIGCHLD"} ELSE got
    /\ UNCHANGED <<conf, serv, proc, backlog, batch, stuck, budget>>

\* Only the process that has the lock looks at timers and at the status pipe.
single_server_exit(p) ==
    /\ child[p].phase = "select"
    /\ child' = Exits(p, "exit")
    /\ got' = got \cup {"SIGCHLD"}
    /\ UNCHANGED <<conf, serv, proc, chan, backlog, batch, stuck, budget>>

single_server_timeout(p) == child[p].conn /\ single_server_exit(p)

single_server_abort(p) == ~child[p].conn /\ single_server_exit(p)

\* msg_fatal(), a signal, the watchdog: at any time.
ServerFails(p) ==
    /\ Alive(p) /\ budget > 0
    /\ budget' = budget - 1
    /\ child' = Exits(p, "fail")
    /\ got' = got \cup {"SIGCHLD"}
    /\ UNCHANGED <<conf, serv, proc, chan, backlog, batch, stuck>>

-----------------------------------------------------------------------------
(***************************************************************************)
(* Clients, and the operator.                                              *)
(***************************************************************************)

Waiting(c, s) == \E i \in 1..Len(backlog[s]) : backlog[s][i] = c

ClientConnects(c, s) ==
    /\ serv[s].on /\ Len(backlog[s]) < Backlog
    /\ \A t \in Service : ~Waiting(c, t)
    /\ backlog' = [backlog EXCEPT ![s] = Append(@, c)]
    /\ UNCHANGED <<conf, serv, proc, child, chan, batch, got, stuck, budget>>

\* "postfix reload" after master.cf was edited.
Reload(s, e) ==
    /\ budget > 0 /\ budget' = budget - 1
    /\ conf' = [conf EXCEPT ![s] = e]
    /\ got' = got \cup {"SIGHUP"}
    /\ UNCHANGED <<serv, proc, child, chan, backlog, batch, stuck>>

Init ==
    /\ conf \in {c \in [Service -> UNION {Entry(s) : s \in Service}] :
                 \A s \in Service : c[s] \in Entry(s) /\ c[s].on}
    /\ serv = [s \in Service |-> master_config(s, Stopped)]
    /\ proc = [p \in Pid |-> NoProc]
    /\ child = [p \in Pid |-> NoChild]
    /\ chan = [s \in Service |-> <<>>]
    /\ backlog = [s \in Service |-> IF WakesUp(s, conf[s]) THEN <<Trigger>> ELSE <<>>]
    /\ batch = {} /\ got = {} /\ stuck = "no" /\ budget = Budget

MasterNext ==
    \/ event_loop \/ master_reap_child \/ master_refresh
    \/ \E s \in Service :
          \/ master_avail_event(s) \/ master_status_event(s) \/ master_status_unblock(s)
          \/ master_unthrottle_wrapper(s) \/ master_wakeup_timer_event(s) \/ StressExpires(s)

ServerNext(p) ==
    \/ ServerLock(p) \/ single_server_accept(p)
    \/ single_server_done(p) \/ single_server_timeout(p) \/ single_server_abort(p)
    \/ ServerFails(p)

Next ==
    \/ MasterNext
    \/ \E p \in Pid : ServerNext(p)
    \/ \E c \in Client, s \in Service : ClientConnects(c, s)
    \/ \E s \in Service : \E e \in Entry(s) : Reload(s, e)

Spec == Init /\ [][Next]_vars

\* The master goes through its loop for ever, and looks at signals and timers
\* every time; a server process goes on with what it does; an idle timeout
\* does not coincide with every new connection.
Fairness ==
    /\ WF_vars(event_loop) /\ SF_vars(master_reap_child) /\ SF_vars(master_refresh)
    /\ \A s \in Service :
          /\ WF_vars(master_avail_event(s)) /\ WF_vars(master_status_event(s))
          /\ WF_vars(master_status_unblock(s)) /\ SF_vars(master_unthrottle_wrapper(s))
          /\ WF_vars(\E p \in Pid : child[p].serv = s /\ ServerLock(p))
          /\ SF_vars(\E p \in Pid : child[p].serv = s /\ single_server_accept(p))
    /\ \A p \in Pid :
          /\ WF_vars(single_server_done(p)) /\ WF_vars(single_server_abort(p))

FairSpec == Spec /\ Fairness

-----------------------------------------------------------------------------
(***************************************************************************)
(* Properties.                                                             *)
(***************************************************************************)

MASTER_SERV ==
    [on : BOOLEAN, listen : BOOLEAN, throttle : BOOLEAN, condwake : BOOLEAN,
     timer : BOOLEAN, max_proc : Nat, avail_proc : 0..Cardinality(Pid),
     total_proc : 0..Cardinality(Pid), stress : BOOLEAN]

MASTER_PROC == [serv : Service, gen : Nat \ {0}, use_count : {0, 1}, avail : BOOLEAN]

MASTER_CHILD ==
    [phase : Phase \ {"none"}, serv : Service, gen : Nat \ {0}, conn : BOOLEAN, use : 0..MaxUse]

MASTER_STATUS == [pid : Pid, gen : Nat \ {0}, avail : BOOLEAN]

\* Type invariant.
TypeOK ==
    /\ conf \in [Service -> UNION {Entry(s) : s \in Service}]
    /\ \A s \in Service : conf[s] \in Entry(s)
    /\ serv \in [Service -> MASTER_SERV]
    /\ proc \in [Pid -> MASTER_PROC \cup {NoProc}]
    /\ child \in [Pid -> MASTER_CHILD \cup {NoChild}]
    /\ chan \in [Service -> Seq(MASTER_STATUS)]
    /\ backlog \in [Service -> Seq(Client \cup {Trigger})]
    /\ \A s \in Service : Len(chan[s]) <= PipeSize /\ Len(backlog[s]) <= Backlog
    /\ batch \subseteq {"listen", "status"} \X Service
    /\ got \subseteq {"SIGCHLD", "SIGHUP"}
    /\ stuck \in {"no", "blocked", "panic"}
    /\ budget \in 0..Budget

\* The table of processes, the counters in MASTER_SERV and the processes
\* that exist agree at all times: no process is forgotten, none is counted
\* twice, and a service that was removed has none (master_delete_child(),
\* master_delete_children()).  So the msg_panic() calls of master_spawn(),
\* master_status_event() and master_reap_child() are not reached.
TableIsExact ==
    /\ stuck # "panic"
    /\ \A p \in Pid :
          /\ proc[p] = NoProc <=> child[p].phase = "none"
          /\ proc[p] # NoProc => /\ proc[p].serv = child[p].serv
                                 /\ proc[p].gen = child[p].gen
                                 /\ serv[proc[p].serv].on
    /\ \A s \in Service :
          /\ serv[s].total_proc = Count(Pid, LAMBDA p : proc[p].serv = s)
          /\ serv[s].avail_proc = Count(Pid, LAMBDA p : proc[p].serv = s /\ proc[p].avail)

\* What the last message of a process says, or said.
LastStatus(p) ==
    LET q == chan[child[p].serv]
        mine == {i \in 1..Len(q) : q[i].pid = p /\ q[i].gen = child[p].gen}
    IN IF mine = {} THEN proc[p].avail
       ELSE q[CHOOSE i \in mine : \A j \in mine : j <= i].avail

\* While a process has its status pipe, the master's belief about it, once
\* the messages under way have arrived, is the truth: a message of another
\* process with the same ID, or an old one, never replaces it
\* (master_status_event(), single_server_wakeup()).
BeliefIsTrue ==
    \A p \in Pid :
        Alive(p) /\ child[p].conn => (LastStatus(p) <=> child[p].phase # "busy")

\* Somebody watches the listen socket: the master does if no process is
\* available, unless the service is throttled or at its limit; and never
\* together with a process that it takes for available (master_avail_listen()
\* and all who must call it).  A service with a wakeup timer has it running,
\* unless the timer waits for the first use of the service; a removed service
\* has none (master_wakeup_init(), master_wakeup_cleanup()).
SomebodyListens ==
    \A s \in Service :
        /\ serv[s].on =>
             (serv[s].listen <=> /\ ~serv[s].throttle
                                 /\ ~\E p \in Pid : proc[p].serv = s /\ proc[p].avail
                                 /\ \/ serv[s].max_proc = 0
                                    \/ Count(Pid, LAMBDA p : proc[p].serv = s) < serv[s].max_proc)
        /\ serv[s].timer <=> serv[s].on /\ WakesUp(s, serv[s])

\* A process is added only while the operating system has fewer processes of
\* this service than master.cf allows, those included that exited and those
\* that have lost their status pipe (master_spawn()).
WithinLimit ==
    [][\A s \in Service :
          LET n == Count(Pid, LAMBDA p : child[p].serv = s)
              m == Count(Pid, LAMBDA p : (child[p].serv)' = s)
          IN m > n => serv[s].max_proc = 0 \/ n < serv[s].max_proc]_vars

\* A client that waits on the listen socket is accepted, or the service is
\* removed; crashes, failed forks, lost status messages and process IDs used
\* again only delay this.  The exception is a master that waits in read().
ClientServed ==
    \A c \in Client, s \in Service : Waiting(c, s) ~> (~Waiting(c, s) \/ stuck = "blocked")

=============================================================================
