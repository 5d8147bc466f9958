---------------------------- MODULE MasterProofs ----------------------------
(***************************************************************************)
(* Theorems about Master.                                                  *)
(*                                                                         *)
(* The inductive invariant has five parts: the types, with counters that   *)
(* are just integers; the socket monitoring policy of master_avail.c for   *)
(* every MASTER_SERV; the process table, which agrees with the processes   *)
(* that exist; the counters; and what the messages in a status pipe say    *)
(* about the process that wrote them.                                      *)
(***************************************************************************)
EXTENDS Master, FiniteSetTheorems, SequenceTheorems, TLAPS

SERV ==
    [on : BOOLEAN, listen : BOOLEAN, throttle : BOOLEAN, condwake : BOOLEAN,
     timer : BOOLEAN, max_proc : Nat, avail_proc : Int, total_proc : Int,
     stress : BOOLEAN]

Sockets == Seq(Client \cup {Trigger})

Typed ==
    /\ conf \in [Service -> UNION {Entry(s) : s \in Service}]
    /\ \A s \in Service : conf[s] \in Entry(s)
    /\ serv \in [Service -> SERV]
    /\ proc \in [Pid -> MASTER_PROC \cup {NoProc}]
    /\ child \in [Pid -> MASTER_CHILD \cup {NoChild}]
    /\ chan \in [Service -> Seq(MASTER_STATUS)]
    /\ backlog \in [Service -> Sockets]
    /\ \A s \in Service : Len(chan[s]) <= PipeSize /\ Len(backlog[s]) <= Backlog
    /\ batch \subseteq {"listen", "status"} \X Service
    /\ got \subseteq {"SIGCHLD", "SIGHUP"}
    /\ stuck \in {"no", "blocked", "panic"}
    /\ budget \in 0..Budget

\* Who listens, and whether the wakeup timer runs.
Policy(s, v) ==
    /\ v.listen <=> /\ v.on /\ ~v.throttle /\ v.avail_proc = 0
                    /\ MASTER_LIMIT_OK(v.max_proc, v.total_proc)
    /\ v.timer <=> v.on /\ WakesUp(s, v)
    /\ ~v.on => ~v.throttle

Procs(s) == {p \in Pid : proc[p].serv = s}
Idle(s) == {p \in Pid : proc[p].serv = s /\ proc[p].avail}

\* The table of processes.
Table ==
    /\ stuck # "panic"
    /\ \A p \in Pid :
          /\ proc[p] = NoProc <=> child[p] = NoChild
          /\ proc[p] # NoProc => /\ proc[p].serv = child[p].serv
                                 /\ proc[p].gen = child[p].gen
                                 /\ serv[proc[p].serv].on

Counted ==
    \A s \in Service : /\ serv[s].total_proc = Cardinality(Procs(s))
                       /\ serv[s].avail_proc = Cardinality(Idle(s))

Listening == \A s \in Service : Policy(s, serv[s])

\* A message with the generation of the process that has the process ID came
\* through the pipe of the service that this process belongs to.
Messages ==
    \A s \in Service : \A i \in 1..Len(chan[s]) :
        child[chan[s][i].pid].gen = chan[s][i].gen => child[chan[s][i].pid].serv = s

\* The messages in pipe q of generation gen of process p.
Mine(q, p, gen) == {i \in 1..Len(q) : q[i].pid = p /\ q[i].gen = gen}

\* The last of them or, if there are none, the table tells the truth.
Known(q, p, gen, table, phase) ==
    \/ Mine(q, p, gen) = {} /\ (table <=> phase # "busy")
    \/ \E i \in Mine(q, p, gen) : /\ \A j \in Mine(q, p, gen) : j <= i
                                  /\ q[i].avail <=> phase # "busy"

Belief ==
    \A p \in Pid : Alive(p) /\ child[p].conn =>
        Known(chan[child[p].serv], p, child[p].gen, proc[p].avail, child[p].phase)

IInv == Typed /\ Listening /\ Table /\ Counted /\ Messages /\ Belief

-----------------------------------------------------------------------------
(***************************************************************************)
(* Records.                                                                *)
(***************************************************************************)
LEMMA NoChildFields ==
    /\ NoChild.phase = "none" /\ NoChild.serv = NoService /\ NoChild.gen = 0
    /\ NoChild.conn = FALSE /\ NoChild.use = 0
    /\ NoProc.serv = NoService /\ NoProc.gen = 0 /\ NoProc.avail = FALSE
    /\ NoProc.use_count = 0
BY DEF NoChild, NoProc

LEMMA Constants ==
    /\ IsFiniteSet(Service) /\ IsFiniteSet(Pid) /\ NoService \notin Service
    /\ Limits \in [Service -> (SUBSET Nat) \ {{}}]
    /\ MaxUse \in Nat \ {0} /\ Backlog \in Nat \ {0} /\ PipeSize \in Nat \ {0}
    /\ Budget \in Nat
BY MasterAssumption

\* What the fields of a process and of its entry in the table can be.
LEMMA TableFields ==
    ASSUME Typed, NEW p \in Pid
    PROVE  /\ child[p] \in MASTER_CHILD \cup {NoChild}
           /\ proc[p] \in MASTER_PROC \cup {NoProc}
           /\ child[p] # NoChild => child[p] \in MASTER_CHILD
           /\ child[p] # NoChild <=> child[p].phase # "none"
           /\ child[p] # NoChild <=> child[p].serv \in Service
           /\ child[p] # NoChild => child[p].gen \in Nat \ {0}
           /\ child[p].serv \in Service \cup {NoService}
           /\ proc[p] # NoProc => proc[p] \in MASTER_PROC
           /\ proc[p] # NoProc <=> proc[p].serv \in Service
           /\ proc[p].serv \in Service \cup {NoService}
           /\ proc[p].avail \in BOOLEAN /\ child[p].conn \in BOOLEAN
           /\ child[p].phase \in Phase
<1>1. /\ child[p] \in MASTER_CHILD \cup {NoChild}
      /\ proc[p] \in MASTER_PROC \cup {NoProc}
  BY DEF Typed
<1> QED
  BY <1>1, NoChildFields, Constants DEF MASTER_CHILD, MASTER_PROC, Phase

LEMMA ChanFields ==
    ASSUME Typed, NEW s \in Service
    PROVE  /\ chan[s] \in Seq(MASTER_STATUS) /\ Len(chan[s]) \in Nat /\ Len(chan[s]) <= PipeSize
           /\ \A i \in 1..Len(chan[s]) : /\ chan[s][i].pid \in Pid
                                         /\ chan[s][i].gen \in Nat \ {0}
                                         /\ chan[s][i].avail \in BOOLEAN
<1>1. chan[s] \in Seq(MASTER_STATUS) /\ Len(chan[s]) <= PipeSize
  BY DEF Typed
<1>2. ASSUME NEW i \in 1..Len(chan[s]) PROVE chan[s][i] \in MASTER_STATUS
  BY <1>1, ElementOfSeq
<1>3. Len(chan[s]) \in Nat
  BY <1>1, LenProperties
<1> QED BY <1>1, <1>2, <1>3 DEF MASTER_STATUS

\* A record that master_avail_listen() has dealt with.
Good(s, w, total, avail) ==
    /\ w \in SERV /\ w.on = TRUE /\ Policy(s, w)
    /\ w.total_proc = total /\ w.avail_proc = avail

LEMMA ListenGood ==
    ASSUME NEW s \in Service, NEW v \in SERV, v.on = TRUE, v.timer <=> WakesUp(s, v)
    PROVE  /\ Good(s, master_avail_listen(v), v.total_proc, v.avail_proc)
           /\ master_avail_listen(v).condwake = v.condwake
           /\ master_avail_listen(v).throttle = v.throttle
<1> DEFINE listens == /\ ~v.throttle /\ v.avail_proc = 0
                      /\ MASTER_LIMIT_OK(v.max_proc, v.total_proc)
           w == [v EXCEPT !.listen = listens]
<1>1. listens \in BOOLEAN
  BY DEF MASTER_LIMIT_OK
<1>2. /\ w \in SERV /\ w.listen = listens
      /\ w.on = v.on /\ w.throttle = v.throttle /\ w.condwake = v.condwake
      /\ w.timer = v.timer /\ w.max_proc = v.max_proc /\ w.avail_proc = v.avail_proc
      /\ w.total_proc = v.total_proc /\ w.stress = v.stress
  <2> HIDE DEF listens
  <2> QED BY <1>1 DEF SERV
<1>3. w = master_avail_listen(v)
  BY DEF master_avail_listen
<1>4. Policy(s, w)
  <2> HIDE DEF w
  <2> QED BY <1>2 DEF Policy, WakesUp, MASTER_LIMIT_OK
<1> QED
  <2> HIDE DEF w, listens
  <2> QED BY <1>2, <1>3, <1>4 DEF Good

\* A change that leaves the timer alone, followed by master_avail_listen().
LEMMA CountersGood ==
    ASSUME NEW s \in Service, NEW v \in SERV, v.on = TRUE, v.timer <=> WakesUp(s, v)
    PROVE  /\ Good(s, master_avail_more(v), v.total_proc, v.avail_proc + 1)
           /\ Good(s, master_avail_less(v), v.total_proc, v.avail_proc - 1)
           /\ Good(s, master_throttle(v), v.total_proc, v.avail_proc)
           /\ Good(s, master_unthrottle(v), v.total_proc, v.avail_proc)
           /\ master_avail_more(v).condwake = v.condwake
<1>1. ASSUME NEW n \in Int, NEW w, w = [v EXCEPT !.avail_proc = n]
      PROVE  /\ Good(s, master_avail_listen(w), v.total_proc, n)
             /\ master_avail_listen(w).condwake = v.condwake
  <2>1. /\ w \in SERV /\ w.on = TRUE /\ w.timer = v.timer /\ w.condwake = v.condwake
        /\ w.total_proc = v.total_proc /\ w.avail_proc = n
    BY <1>1 DEF SERV
  <2> QED BY <2>1, ListenGood DEF WakesUp
<1>2. ASSUME NEW t \in BOOLEAN, NEW w, w = [v EXCEPT !.throttle = t]
      PROVE  Good(s, master_avail_listen(w), v.total_proc, v.avail_proc)
  <2>1. /\ w \in SERV /\ w.on = TRUE /\ w.timer = v.timer /\ w.condwake = v.condwake
        /\ w.total_proc = v.total_proc /\ w.avail_proc = v.avail_proc
    BY <1>2 DEF SERV
  <2> QED BY <2>1, ListenGood DEF WakesUp
<1>3. v.avail_proc + 1 \in Int /\ v.avail_proc - 1 \in Int
  BY DEF SERV
<1>4. /\ Good(s, master_avail_more(v), v.total_proc, v.avail_proc + 1)
      /\ master_avail_more(v).condwake = v.condwake
  BY <1>1, <1>3 DEF master_avail_more
<1>5. Good(s, master_avail_less(v), v.total_proc, v.avail_proc - 1)
  BY <1>1, <1>3 DEF master_avail_less
<1>6. Good(s, master_throttle(v), v.total_proc, v.avail_proc)
  BY <1>2 DEF master_throttle
<1>7. Good(s, master_unthrottle(v), v.total_proc, v.avail_proc)
  BY <1>2 DEF master_unthrottle
<1> QED
  BY <1>4, <1>5, <1>6, <1>7

LEMMA FirstUseGood ==
    ASSUME NEW s \in Service, NEW total, NEW avail, NEW w, Good(s, w, total, avail)
    PROVE  Good(s, FirstUse(s, w), total, avail)
<1>1. CASE ~w.condwake
  BY <1>1 DEF FirstUse
<1>2. CASE w.condwake
  <2> DEFINE u == [w EXCEPT !.condwake = FALSE]
             t == u.timer \/ WakesUp(s, u)
             x == [u EXCEPT !.timer = t]
  <2>1. w \in SERV
    BY DEF Good
  <2>2. /\ u \in SERV /\ u.condwake = FALSE /\ u.on = w.on /\ u.throttle = w.throttle
        /\ u.listen = w.listen /\ u.timer = w.timer /\ u.max_proc = w.max_proc
        /\ u.avail_proc = w.avail_proc /\ u.total_proc = w.total_proc
    BY <2>1 DEF SERV
  <2>3. t \in BOOLEAN
    <3> HIDE DEF u
    <3> QED BY <2>2 DEF SERV, WakesUp
  <2>4. /\ x \in SERV /\ x.condwake = FALSE /\ x.on = w.on /\ x.throttle = w.throttle
        /\ x.listen = w.listen /\ x.timer = t /\ x.max_proc = w.max_proc
        /\ x.avail_proc = w.avail_proc /\ x.total_proc = w.total_proc
    <3> HIDE DEF u, t
    <3> QED BY <2>2, <2>3 DEF SERV
  <2>5. FirstUse(s, w) = x
    BY <1>2 DEF FirstUse, master_wakeup_init
  <2>6. Policy(s, x)
    <3>1. t <=> WakesUp(s, x)
      <4> HIDE DEF x, u
      <4> QED BY <1>2, <2>2, <2>4 DEF Good, Policy, WakesUp
    <3> HIDE DEF x, t, u
    <3> QED BY <2>4, <3>1 DEF Good, Policy
  <2> HIDE DEF x
  <2> QED BY <2>4, <2>5, <2>6 DEF Good
<1> QED BY <1>1, <1>2

LEMMA ReapGood ==
    ASSUME NEW s \in Service, NEW total, NEW avail, NEW v, Good(s, v, total, avail),
           NEW P \in SUBSET Pid, NEW pr, NEW bad \in BOOLEAN
    PROVE  Good(s, ReapedAvail(v, P, pr, bad), total - Cardinality(P),
                avail - Cardinality({p \in P : pr[p].avail}))
<1> DEFINE idle == {p \in P : pr[p].avail}
<1>1. /\ Cardinality(P) \in Nat /\ Cardinality(idle) \in Nat
      /\ P = {} => Cardinality(P) = 0 /\ Cardinality(idle) = 0
  <2>1. IsFiniteSet(P) /\ IsFiniteSet(idle) /\ (P = {} => idle = {})
    BY Constants, FS_Subset
  <2> QED BY <2>1, FS_CardinalityType, FS_EmptySet
<1>2. v \in SERV /\ v.total_proc = total /\ v.avail_proc = avail /\ v.on = TRUE
      /\ (v.timer <=> WakesUp(s, v)) /\ total \in Int /\ avail \in Int
  BY DEF Good, Policy, SERV
<1>3. CASE P = {}
  BY <1>1, <1>2, <1>3 DEF ReapedAvail
<1>4. CASE P # {}
  <2> DEFINE total2 == v.total_proc - Cardinality(P)
             avail2 == v.avail_proc - Cardinality(idle)
             throttle == v.throttle \/ bad
             w == [v EXCEPT !.total_proc = total2, !.avail_proc = avail2,
                            !.throttle = throttle]
  <2>1. /\ w \in SERV /\ w.on = TRUE /\ w.timer = v.timer /\ w.condwake = v.condwake
        /\ w.total_proc = total2 /\ w.avail_proc = avail2
    <3>1. total2 \in Int /\ avail2 \in Int /\ throttle \in BOOLEAN
      BY <1>1, <1>2
    <3> HIDE DEF total2, avail2, throttle
    <3> QED BY <1>2, <3>1 DEF SERV
  <2>2. ReapedAvail(v, P, pr, bad) = master_avail_listen(w)
    BY <1>4 DEF ReapedAvail, Count
  <2>3. w.timer <=> WakesUp(s, w)
    <3> HIDE DEF w
    <3> QED BY <1>2, <2>1 DEF WakesUp
  <2>4. total2 = total - Cardinality(P) /\ avail2 = avail - Cardinality(idle)
    BY <1>2
  <2> HIDE DEF w, total2, avail2
  <2> QED BY <2>1, <2>2, <2>3, <2>4, ListenGood
<1> QED BY <1>3, <1>4

LEMMA ConfigGood ==
    ASSUME NEW s \in Service, NEW v \in SERV, conf[s] \in Entry(s), conf[s].on
    PROVE  Good(s, master_config(s, v), v.total_proc, v.avail_proc)
<1>1. conf[s].max_proc \in Nat /\ conf[s].condwake \in BOOLEAN
  BY Constants DEF Entry
<1> DEFINE u == [v EXCEPT !.max_proc = conf[s].max_proc, !.condwake = conf[s].condwake]
           w == [u EXCEPT !.on = TRUE, !.timer = FALSE]
           t == w.timer \/ WakesUp(s, w)
           x == [w EXCEPT !.timer = t]
<1>2. /\ u \in SERV /\ u.total_proc = v.total_proc /\ u.avail_proc = v.avail_proc
  BY <1>1 DEF SERV
<1>3. /\ w \in SERV /\ w.total_proc = v.total_proc /\ w.avail_proc = v.avail_proc
      /\ w.on = TRUE /\ w.timer = FALSE
  <2> HIDE DEF u
  <2> QED BY <1>2 DEF SERV
<1>4. t \in BOOLEAN /\ t = WakesUp(s, w)
  <2> HIDE DEF w
  <2> QED BY <1>3 DEF SERV, WakesUp
<1>5. /\ x \in SERV /\ x.total_proc = v.total_proc /\ x.avail_proc = v.avail_proc
      /\ x.on = TRUE /\ x.timer = t /\ x.condwake = w.condwake
  <2> HIDE DEF w, t
  <2> QED BY <1>3, <1>4 DEF SERV
<1>6. x.timer <=> WakesUp(s, x)
  <2> HIDE DEF w, x, t
  <2> QED BY <1>4, <1>5 DEF WakesUp
<1>7. master_config(s, v) = master_avail_listen(x)
  BY DEF master_config, master_restart_service, master_wakeup_init
<1> HIDE DEF x
<1> QED BY <1>5, <1>6, <1>7, ListenGood

\* A trigger is one more client, if there is room.
LEMMA WokenQueue ==
    ASSUME NEW s \in Service, NEW v, NEW q \in Sockets, Len(q) <= Backlog
    PROVE  /\ Woken(s, v, q) \in Sockets /\ Len(Woken(s, v, q)) <= Backlog
           /\ Triggered(v, q) \in Sockets /\ Len(Triggered(v, q)) <= Backlog
BY Constants DEF Woken, Triggered, Sockets

-----------------------------------------------------------------------------
(***************************************************************************)
(* Generations and counters.                                               *)
(***************************************************************************)

\* No message has the generation that a new process gets.
LEMMA GenerationFresh ==
    ASSUME Typed, NEW p \in Pid
    PROVE  /\ master_generation(p) \in Nat \ {0}
           /\ \A s \in Service : \A i \in 1..Len(chan[s]) :
                 chan[s][i].pid = p => chan[s][i].gen # master_generation(p)
<1> DEFINE J(s) == {j \in 1..Len(chan[s]) : chan[s][j].pid = p}
           G(s) == {chan[s][i].gen : i \in J(s)}
           all == {G(s) : s \in Service}
<1>1. ASSUME NEW s \in Service PROVE IsFiniteSet(G(s))
  <2> DEFINE f == [i \in J(s) |-> chan[s][i].gen]
  <2>1. Len(chan[s]) \in Nat
    BY LenProperties DEF Typed
  <2>2. IsFiniteSet(J(s))
    <3>1. IsFiniteSet(1..Len(chan[s]))
      BY <2>1, FS_Interval
    <3>2. J(s) \in SUBSET (1..Len(chan[s]))
      OBVIOUS
    <3> HIDE DEF J
    <3> QED BY <3>1, <3>2, FS_Subset
  <2>3. f \in Surjection(J(s), G(s))
    BY DEF Surjection
  <2> HIDE DEF f, G, J
  <2> QED BY <2>2, <2>3, FS_Surjection
<1>2. IsFiniteSet(all)
  <2> DEFINE f == [s \in Service |-> G(s)]
  <2>1. f \in Surjection(Service, all)
    <3> HIDE DEF G
    <3> QED BY DEF Surjection
  <2> HIDE DEF f, all
  <2> QED BY <2>1, Constants, FS_Surjection
<1>3. IsFiniteSet(UNION all)
  <2>1. \A T \in all : IsFiniteSet(T)
    <3> HIDE DEF G
    <3> QED BY <1>1
  <2> HIDE DEF all
  <2> QED BY <1>2, <2>1, FS_UNION
<1>4. Gens(p) = UNION all
  BY DEF Gens
<1>5. Cardinality(Gens(p)) \in Nat
  <2> HIDE DEF all
  <2> QED BY <1>3, <1>4, FS_CardinalityType
<1>6. \E g \in 1..(Cardinality(Gens(p)) + 1) : g \notin Gens(p)
  <2> SUFFICES ASSUME 1..(Cardinality(Gens(p)) + 1) \subseteq Gens(p) PROVE FALSE
    OBVIOUS
  <2>1. IsFiniteSet(Gens(p))
    <3> HIDE DEF all
    <3> QED BY <1>3, <1>4
  <2>2. Cardinality(1..(Cardinality(Gens(p)) + 1)) = Cardinality(Gens(p)) + 1
    BY <1>5, FS_Interval
  <2>3. Cardinality(1..(Cardinality(Gens(p)) + 1)) <= Cardinality(Gens(p))
    BY <2>1, FS_Subset
  <2> QED BY <1>5, <2>2, <2>3
<1>7. master_generation(p) \in 1..(Cardinality(Gens(p)) + 1) /\ master_generation(p) \notin Gens(p)
  BY <1>6 DEF master_generation
<1>8. ASSUME NEW s \in Service, NEW i \in 1..Len(chan[s]), chan[s][i].pid = p
      PROVE  chan[s][i].gen \in Gens(p)
  BY <1>8 DEF Gens
<1> HIDE DEF all, G, J
<1> QED BY <1>5, <1>7, <1>8

LEMMA CountedFinite ==
    ASSUME NEW s
    PROVE  /\ IsFiniteSet(Procs(s)) /\ IsFiniteSet(Idle(s))
           /\ Cardinality(Procs(s)) \in Nat /\ Cardinality(Idle(s)) \in Nat
           /\ Cardinality(Procs(s)) <= Cardinality(Pid)
           /\ Cardinality(Idle(s)) <= Cardinality(Pid)
           /\ Cardinality(Procs(s)) = 0 <=> Procs(s) = {}
           /\ Cardinality(Idle(s)) = 0 <=> Idle(s) = {}
<1>1. Procs(s) \in SUBSET Pid /\ Idle(s) \in SUBSET Pid
  BY DEF Procs, Idle
<1>2. IsFiniteSet(Procs(s)) /\ IsFiniteSet(Idle(s))
  BY <1>1, Constants, FS_Subset
<1> QED BY <1>1, <1>2, Constants, FS_Subset, FS_CardinalityType, FS_EmptySet

\* A process is added.
LEMMA AddedCount ==
    ASSUME Typed, Table, NEW p \in Pid, proc[p] = NoProc, NEW s \in Service,
           NEW e, e.serv = s, e.avail = TRUE, proc' = [proc EXCEPT ![p] = e]
    PROVE  /\ Cardinality(Procs(s)') = Cardinality(Procs(s)) + 1
           /\ Cardinality(Idle(s)') = Cardinality(Idle(s)) + 1
           /\ \A t \in Service \ {s} : Procs(t)' = Procs(t) /\ Idle(t)' = Idle(t)
<1>1. proc \in [Pid -> MASTER_PROC \cup {NoProc}]
  BY DEF Typed
<1>2. Procs(s)' = Procs(s) \cup {p} /\ p \notin Procs(s)
  BY <1>1, NoChildFields, Constants DEF Procs
<1>3. Idle(s)' = Idle(s) \cup {p} /\ p \notin Idle(s)
  BY <1>1, NoChildFields, Constants DEF Idle
<1>4. \A t \in Service \ {s} : Procs(t)' = Procs(t) /\ Idle(t)' = Idle(t)
  BY <1>1, NoChildFields, Constants DEF Procs, Idle
<1>5. IsFiniteSet(Procs(s)) /\ IsFiniteSet(Idle(s))
  BY CountedFinite
<1> QED BY <1>2, <1>3, <1>4, <1>5, FS_AddElement

\* The master changes its mind about a process.
LEMMA FlippedCount ==
    ASSUME Typed, NEW p \in Pid, NEW s \in Service, proc[p].serv = s,
           NEW e, e.serv = s, e.avail = ~proc[p].avail, proc' = [proc EXCEPT ![p] = e]
    PROVE  /\ Cardinality(Procs(s)') = Cardinality(Procs(s))
           /\ Cardinality(Idle(s)') = IF e.avail THEN Cardinality(Idle(s)) + 1
                                                 ELSE Cardinality(Idle(s)) - 1
           /\ \A t \in Service \ {s} : Procs(t)' = Procs(t) /\ Idle(t)' = Idle(t)
<1>1. proc \in [Pid -> MASTER_PROC \cup {NoProc}] /\ proc[p].avail \in BOOLEAN
  BY TableFields DEF Typed
<1>2. Procs(s)' = Procs(s)
  BY <1>1 DEF Procs
<1>3. /\ e.avail => Idle(s)' = Idle(s) \cup {p} /\ p \notin Idle(s)
      /\ ~e.avail => Idle(s)' = Idle(s) \ {p} /\ p \in Idle(s)
  BY <1>1 DEF Idle
<1>4. \A t \in Service \ {s} : Procs(t)' = Procs(t) /\ Idle(t)' = Idle(t)
  BY <1>1 DEF Procs, Idle
<1>5. IsFiniteSet(Procs(s)) /\ IsFiniteSet(Idle(s))
  BY CountedFinite
<1> QED BY <1>2, <1>3, <1>4, <1>5, FS_AddElement, FS_RemoveElement

\* Processes are removed.
LEMMA ForgottenCount ==
    ASSUME Typed, NEW P \in SUBSET Pid, proc' = Forget(proc, P, NoProc), NEW s \in Service
    PROVE  /\ Cardinality(Procs(s)') =
                 Cardinality(Procs(s)) - Cardinality({p \in P : proc[p].serv = s})
           /\ Cardinality(Idle(s)') =
                 Cardinality(Idle(s))
                 - Cardinality({q \in {p \in P : proc[p].serv = s} : proc[q].avail})
<1> DEFINE mine == {p \in P : proc[p].serv = s}
           idle == {q \in mine : proc[q].avail}
<1>1. /\ Procs(s)' = Procs(s) \ P /\ Procs(s) \cap P = mine
      /\ Idle(s)' = Idle(s) \ P /\ Idle(s) \cap P = idle
  BY NoChildFields, Constants DEF Procs, Idle, Forget
<1>2. IsFiniteSet(Procs(s)) /\ IsFiniteSet(Idle(s))
  BY CountedFinite
<1>3. /\ Cardinality(Procs(s)') = Cardinality(Procs(s)) - Cardinality(mine)
      /\ Cardinality(Idle(s)') = Cardinality(Idle(s)) - Cardinality(idle)
  <2> HIDE DEF mine, idle
  <2> QED BY <1>1, <1>2, FS_Difference
<1> QED BY <1>3

-----------------------------------------------------------------------------
(***************************************************************************)
(* Steps that leave processes, table and pipes alone.                      *)
(***************************************************************************)
LEMMA OtherStep ==
    ASSUME IInv, Typed', UNCHANGED <<serv, proc, child, chan>>, stuck' # "panic"
    PROVE  IInv'
<1>1. Listening' BY DEF IInv, Listening
<1>2. Table' BY DEF IInv, Table
<1>3. Counted' BY DEF IInv, Counted, Procs, Idle
<1>4. Messages' BY DEF IInv, Messages
<1>5. Belief' BY DEF IInv, Belief, Alive, Known, Mine
<1> QED BY <1>1, <1>2, <1>3, <1>4, <1>5 DEF IInv

\* A change in the record of one service that the policy allows.
LEMMA ServStep ==
    ASSUME IInv, UNCHANGED <<conf, proc, child, chan, backlog, batch, got, stuck, budget>>,
           NEW s \in Service, NEW w, serv' = [serv EXCEPT ![s] = w],
           Good(s, w, serv[s].total_proc, serv[s].avail_proc)
    PROVE  IInv'
<1>0. Typed /\ serv \in [Service -> SERV] /\ w \in SERV
  BY DEF IInv, Typed, Good
<1>1. Typed'
  BY <1>0 DEF Typed
<1>2. Listening'
  BY <1>0 DEF IInv, Listening, Good
<1>3. Table'
  BY <1>0 DEF IInv, Table, Good
<1>4. Counted'
  BY <1>0 DEF IInv, Counted, Procs, Idle, Good
<1>5. Messages' BY DEF IInv, Messages
<1>6. Belief' BY DEF IInv, Belief, Alive, Known, Mine
<1> QED BY <1>1, <1>2, <1>3, <1>4, <1>5, <1>6 DEF IInv

LEMMA LoopStep ==
    ASSUME IInv, event_loop \/ \E s \in Service : master_status_unblock(s)
    PROVE  IInv'
<1>1. Ready \subseteq {"listen", "status"} \X Service
  BY DEF Ready
<1>2. batch' \subseteq {"listen", "status"} \X Service /\ stuck' \in {"no", "blocked", "panic"}
  <2>1. batch \subseteq {"listen", "status"} \X Service /\ stuck \in {"no", "blocked", "panic"}
    BY DEF IInv, Typed
  <2> QED BY <1>1, <2>1 DEF event_loop, master_status_unblock
<1>3. Typed'
  BY <1>2 DEF IInv, Typed, event_loop, master_status_unblock
<1> QED
  BY <1>3, OtherStep DEF IInv, Table, event_loop, master_status_unblock

LEMMA TimerStep ==
    ASSUME IInv, NEW s \in Service,
           master_unthrottle_wrapper(s) \/ master_wakeup_timer_event(s) \/ StressExpires(s)
    PROVE  IInv'
<1>0. Typed /\ serv[s] \in SERV /\ Policy(s, serv[s])
  BY DEF IInv, Typed, Listening
<1>1. CASE master_unthrottle_wrapper(s)
  <2>1. serv[s].on = TRUE /\ (serv[s].timer <=> WakesUp(s, serv[s]))
    BY <1>0, <1>1 DEF master_unthrottle_wrapper, Policy, SERV
  <2> QED BY <1>0, <1>1, <2>1, CountersGood, ServStep DEF master_unthrottle_wrapper
<1>2. CASE master_wakeup_timer_event(s)
  <2>1. backlog[s] \in Sockets /\ Len(backlog[s]) <= Backlog
    BY <1>0 DEF Typed
  <2>2. /\ Triggered(serv[s], backlog[s]) \in Sockets
        /\ Len(Triggered(serv[s], backlog[s])) <= Backlog
    BY <2>1, WokenQueue
  <2>3. backlog' \in [Service -> Sockets] /\ \A t \in Service : Len(backlog'[t]) <= Backlog
    BY <1>0, <1>2, <2>2 DEF Typed, master_wakeup_timer_event
  <2>4. Typed'
    BY <1>0, <1>2, <2>3 DEF Typed, master_wakeup_timer_event
  <2> QED BY <1>2, <2>4, OtherStep DEF master_wakeup_timer_event, IInv, Table
<1>3. CASE StressExpires(s)
  <2> DEFINE w == [serv[s] EXCEPT !.stress = FALSE]
  <2>1. /\ w \in SERV /\ w.on = serv[s].on /\ w.throttle = serv[s].throttle
        /\ w.listen = serv[s].listen /\ w.timer = serv[s].timer
        /\ w.max_proc = serv[s].max_proc /\ w.avail_proc = serv[s].avail_proc
        /\ w.total_proc = serv[s].total_proc /\ w.condwake = serv[s].condwake
    BY <1>0 DEF SERV
  <2>2. serv' = [serv EXCEPT ![s] = w]
    BY <1>0, <1>3 DEF StressExpires, Typed
  <2> HIDE DEF w
  <2>3. Policy(s, w)
    BY <1>0, <2>1 DEF Policy, WakesUp
  <2>4. serv \in [Service -> SERV]
    BY <1>0 DEF Typed
  <2>5. Typed'
    BY <1>0, <1>3, <2>1, <2>2, <2>4 DEF Typed, StressExpires
  <2>6. Listening'
    BY <2>2, <2>3, <2>4 DEF IInv, Listening
  <2>7. Table'
    BY <1>3, <2>1, <2>2, <2>4 DEF IInv, Table, StressExpires
  <2>8. Counted'
    BY <1>3, <2>1, <2>2, <2>4 DEF IInv, Counted, Procs, Idle, StressExpires
  <2>9. Messages' BY <1>3 DEF IInv, Messages, StressExpires
  <2>10. Belief' BY <1>3 DEF IInv, Belief, Alive, Known, Mine, StressExpires
  <2> QED BY <2>5, <2>6, <2>7, <2>8, <2>9, <2>10 DEF IInv
<1> QED BY <1>1, <1>2, <1>3

LEMMA ClientStep ==
    ASSUME IInv,
           \/ \E c \in Client, s \in Service : ClientConnects(c, s)
           \/ \E s \in Service : \E e \in Entry(s) : Reload(s, e)
    PROVE  IInv'
<1>0. Typed
  BY DEF IInv
<1>1. ASSUME NEW c \in Client, NEW s \in Service, ClientConnects(c, s) PROVE IInv'
  <2>1. backlog[s] \in Sockets /\ Len(backlog[s]) \in Nat
    BY <1>0, LenProperties DEF Typed, Sockets
  <2>2. Append(backlog[s], c) \in Sockets /\ Len(Append(backlog[s], c)) <= Backlog
    BY <1>1, <2>1, Constants DEF Sockets, ClientConnects
  <2>3. backlog' \in [Service -> Sockets] /\ \A t \in Service : Len(backlog'[t]) <= Backlog
    BY <1>0, <1>1, <2>2 DEF Typed, ClientConnects
  <2>4. Typed'
    BY <1>0, <1>1, <2>3 DEF Typed, ClientConnects
  <2> QED BY <1>1, <2>4, OtherStep DEF ClientConnects, IInv, Table
<1>2. ASSUME NEW s \in Service, NEW e \in Entry(s), Reload(s, e) PROVE IInv'
  <2>1. /\ conf' \in [Service -> UNION {Entry(t) : t \in Service}]
        /\ \A t \in Service : conf'[t] \in Entry(t)
    <3>1. e \in UNION {Entry(t) : t \in Service}
      OBVIOUS
    <3> QED BY <1>0, <1>2, <3>1 DEF Typed, Reload
  <2>2. budget' \in 0..Budget /\ got' \subseteq {"SIGCHLD", "SIGHUP"}
    <3>1. budget \in 0..Budget /\ got \subseteq {"SIGCHLD", "SIGHUP"}
      BY <1>0 DEF Typed
    <3>2. budget > 0 /\ budget' = budget - 1 /\ got' = got \cup {"SIGHUP"}
      BY <1>2 DEF Reload
    <3> QED BY <3>1, <3>2, Constants
  <2>3. Typed'
    BY <1>0, <1>2, <2>1, <2>2 DEF Typed, Reload
  <2> QED BY <1>2, <2>3, OtherStep DEF Reload, IInv, Table
<1> QED BY <1>1, <1>2

-----------------------------------------------------------------------------
(***************************************************************************)
(* Server processes.                                                       *)
(***************************************************************************)

\* What a process does to itself, if it sends no message.
Silent(p, c) ==
    /\ chan' = chan
    /\ c.phase \in {"wait", "select", "busy"} /\ c.conn =>
          /\ Alive(p) /\ child[p].conn
          /\ c.phase = "busy" <=> child[p].phase = "busy"

\* And if it sends one.
Sends(p, c, avail) ==
    /\ chan' = [chan EXCEPT ![child[p].serv] =
                   Append(@, [pid |-> p, gen |-> child[p].gen, avail |-> avail])]
    /\ Len(chan[child[p].serv]) < PipeSize
    /\ c.phase \in {"wait", "select", "busy"} /\ c.conn => (avail <=> c.phase # "busy")

LEMMA KnownAppend ==
    ASSUME NEW q \in Seq(MASTER_STATUS), NEW m \in MASTER_STATUS, NEW p, NEW gen,
           NEW table, NEW phase
    PROVE  /\ m.pid # p /\ Known(q, p, gen, table, phase)
                 => Known(Append(q, m), p, gen, table, phase)
           /\ m.pid = p /\ m.gen = gen /\ (m.avail <=> phase # "busy")
                 => Known(Append(q, m), p, gen, table, phase)
<1> DEFINE new == Append(q, m)
<1>1. Len(q) \in Nat
  BY LenProperties
<1>2. /\ Len(new) = Len(q) + 1 /\ new[Len(q) + 1] = m
      /\ \A i \in 1..Len(q) : new[i] = q[i]
  BY <1>1
<1> HIDE DEF new
<1>3. ASSUME m.pid # p, Known(q, p, gen, table, phase) PROVE Known(new, p, gen, table, phase)
  <2>1. Mine(new, p, gen) = Mine(q, p, gen)
    BY <1>1, <1>2, <1>3 DEF Mine
  <2>2. \A i \in Mine(q, p, gen) : new[i] = q[i]
    BY <1>2 DEF Mine
  <2> QED BY <1>3, <2>1, <2>2 DEF Known
<1>4. ASSUME m.pid = p, m.gen = gen, m.avail <=> phase # "busy" PROVE Known(new, p, gen, table, phase)
  <2>1. Len(q) + 1 \in Mine(new, p, gen) /\ \A j \in Mine(new, p, gen) : j <= Len(q) + 1
    BY <1>1, <1>2, <1>4 DEF Mine
  <2> QED BY <1>2, <1>4, <2>1 DEF Known
<1> QED BY <1>3, <1>4 DEF new

LEMMA ProcessStep ==
    ASSUME IInv, NEW p \in Pid, child[p] # NoChild,
           NEW c \in MASTER_CHILD, c.serv = child[p].serv, c.gen = child[p].gen,
           child' = [child EXCEPT ![p] = c],
           UNCHANGED <<conf, serv, proc, batch, stuck>>,
           backlog' \in [Service -> Sockets], \A t \in Service : Len(backlog'[t]) <= Backlog,
           got' \subseteq {"SIGCHLD", "SIGHUP"}, budget' \in 0..Budget,
           Silent(p, c) \/ \E avail \in BOOLEAN : Sends(p, c, avail)
    PROVE  IInv'
<1>0. /\ Typed /\ Table /\ child \in [Pid -> MASTER_CHILD \cup {NoChild}]
      /\ child[p].serv \in Service /\ child[p].gen \in Nat \ {0}
  BY TableFields DEF IInv, Typed
<1>1. /\ child' \in [Pid -> MASTER_CHILD \cup {NoChild}]
      /\ child'[p] = c /\ \A q \in Pid \ {p} : child'[q] = child[q]
      /\ \A q \in Pid : child'[q].serv = child[q].serv /\ child'[q].gen = child[q].gen
  BY <1>0
<1>2. c # NoChild
  BY NoChildFields DEF MASTER_CHILD, Phase
<1>3. Listening' /\ Counted'
  BY DEF IInv, Listening, Counted, Procs, Idle
<1>4. Table'
  BY <1>0, <1>1, <1>2 DEF Table
<1>5. CASE Silent(p, c)
  <2>1. Typed'
    BY <1>0, <1>1, <1>5 DEF Typed, Silent
  <2>2. Messages'
    <3>1. \A s \in Service : \A i \in 1..Len(chan[s]) : chan[s][i].pid \in Pid
      BY <1>0, ChanFields
    <3> QED BY <1>1, <1>5, <3>1 DEF IInv, Messages, Silent
  <2>3. Belief'
    <3> SUFFICES ASSUME NEW q \in Pid, Alive(q)', child'[q].conn
                 PROVE  Known(chan'[child'[q].serv], q, child'[q].gen, proc'[q].avail,
                              child'[q].phase)
      BY DEF Belief
    <3>1. Alive(q) /\ child[q].conn /\ (child'[q].phase = "busy" <=> child[q].phase = "busy")
      BY <1>1, <1>5 DEF Silent, Alive
    <3>2. Known(chan[child[q].serv], q, child[q].gen, proc[q].avail, child[q].phase)
      BY <3>1 DEF IInv, Belief
    <3> QED BY <1>1, <1>5, <3>1, <3>2 DEF Known, Silent
  <2> QED BY <1>3, <1>4, <2>1, <2>2, <2>3 DEF IInv
<1>6. ASSUME NEW avail \in BOOLEAN, Sends(p, c, avail) PROVE IInv'
  <2> DEFINE s == child[p].serv
             old == chan[s]
             m == [pid |-> p, gen |-> child[p].gen, avail |-> avail]
             new == Append(old, m)
  <2>1. m \in MASTER_STATUS /\ m.pid = p /\ m.gen = child[p].gen /\ m.avail = avail
    BY <1>0 DEF MASTER_STATUS
  <2>2. s \in Service /\ old \in Seq(MASTER_STATUS) /\ Len(old) \in Nat /\ Len(old) < PipeSize
    BY <1>0, <1>6, LenProperties DEF Typed, Sends
  <2>3. /\ new \in Seq(MASTER_STATUS) /\ Len(new) = Len(old) + 1
        /\ \A i \in 1..Len(old) : new[i] = old[i]
        /\ new[Len(old) + 1] = m
    <3> HIDE DEF m, old
    <3> QED BY <2>1, <2>2
  <2>4. chan' = [chan EXCEPT ![s] = new] /\ chan \in [Service -> Seq(MASTER_STATUS)]
    BY <1>0, <1>6 DEF Sends, Typed
  <2> HIDE DEF m, new
  <2>5. chan'[s] = new /\ \A t \in Service \ {s} : chan'[t] = chan[t]
    BY <2>2, <2>4
  <2>6. Typed'
    <3>1. chan' \in [Service -> Seq(MASTER_STATUS)]
      BY <2>2, <2>3, <2>4
    <3>2. Len(new) <= PipeSize
      BY <2>2, <2>3, Constants
    <3>3. \A t \in Service \ {s} : Len(chan[t]) <= PipeSize
      BY <1>0, ChanFields
    <3>4. \A t \in Service : Len(chan'[t]) <= PipeSize
      BY <2>5, <3>2, <3>3
    <3> QED BY <1>0, <1>1, <3>1, <3>4 DEF Typed
  <2>7. Messages'
    <3> SUFFICES ASSUME NEW t \in Service, NEW i \in 1..Len(chan'[t]),
                        child'[chan'[t][i].pid].gen = chan'[t][i].gen
                 PROVE  child'[chan'[t][i].pid].serv = t
      BY DEF Messages
    <3>1. CASE t = s /\ i = Len(old) + 1
      BY <1>1, <2>1, <2>3, <2>5, <3>1
    <3>2. CASE t # s \/ i # Len(old) + 1
      <4>1. i \in 1..Len(chan[t]) /\ chan'[t][i] = chan[t][i]
        BY <2>2, <2>3, <2>5, <3>2
      <4>2. chan[t][i].pid \in Pid
        BY <1>0, <4>1, ChanFields
      <4> QED BY <1>1, <4>1, <4>2 DEF IInv, Messages
    <3> QED BY <3>1, <3>2
  <2>8. Belief'
    <3> SUFFICES ASSUME NEW q \in Pid, Alive(q)', child'[q].conn
                 PROVE  Known(chan'[child'[q].serv], q, child'[q].gen, proc'[q].avail,
                              child'[q].phase)
      BY DEF Belief
    <3>1. CASE q = p
      <4>1. chan'[child'[q].serv] = new /\ (m.avail <=> child'[q].phase # "busy")
        BY <1>1, <1>6, <2>1, <2>5, <3>1 DEF Sends, Alive
      <4>2. Known(new, p, child[p].gen, proc[p].avail, child'[q].phase)
        BY <2>1, <2>2, <4>1, KnownAppend DEF new
      <4> QED BY <1>1, <3>1, <4>1, <4>2
    <3>2. CASE q # p
      <4>1. child'[q] = child[q] /\ Alive(q) /\ child[q].conn
        BY <1>1, <3>2 DEF Alive
      <4>2. /\ child[q].serv \in Service
            /\ Known(chan[child[q].serv], q, child[q].gen, proc[q].avail,
                     child[q].phase)
        BY <1>0, <4>1, TableFields, NoChildFields DEF IInv, Belief, Alive
      <4>3. CASE child[q].serv # s
        BY <2>5, <4>1, <4>2, <4>3
      <4>4. CASE child[q].serv = s
        <5>1. Known(new, q, child[q].gen, proc[q].avail, child[q].phase)
          BY <2>1, <2>2, <3>2, <4>2, <4>4, KnownAppend DEF new
        <5> QED BY <2>5, <4>1, <4>4, <5>1
      <4> QED BY <4>3, <4>4
    <3> QED BY <3>1, <3>2
  <2> QED BY <1>3, <1>4, <2>6, <2>7, <2>8 DEF IInv
<1> QED BY <1>5, <1>6

LEMMA ServerStep ==
    ASSUME IInv, NEW p \in Pid, ServerNext(p)
    PROVE  IInv'
<1>0. /\ Typed /\ child \in [Pid -> MASTER_CHILD \cup {NoChild}]
      /\ backlog \in [Service -> Sockets] /\ (\A t \in Service : Len(backlog[t]) <= Backlog)
      /\ got \subseteq {"SIGCHLD", "SIGHUP"} /\ budget \in 0..Budget
  BY DEF IInv, Typed
<1>1. /\ child[p] # NoChild /\ child[p] \in MASTER_CHILD
      /\ child[p].serv \in Service /\ child[p].gen \in Nat \ {0}
      /\ child[p].conn \in BOOLEAN /\ child[p].use \in 0..MaxUse
  <2>1. child[p].phase # "none"
    BY DEF ServerNext, ServerLock, single_server_accept, single_server_done,
           single_server_timeout, single_server_abort, single_server_exit, ServerFails, Alive
  <2>2. child[p] \in MASTER_CHILD
    BY <1>0, <2>1, TableFields
  <2> QED BY <1>0, <2>1, <2>2, NoChildFields DEF MASTER_CHILD
\* The process goes on.
<1>2. ASSUME NEW phase \in {"wait", "select", "busy"}, NEW use \in 0..MaxUse, NEW c,
             c = [child[p] EXCEPT !.phase = phase, !.use = use]
      PROVE  /\ c \in MASTER_CHILD /\ c.phase = phase /\ c.serv = child[p].serv
             /\ c.gen = child[p].gen /\ c.conn = child[p].conn
  BY <1>1, <1>2 DEF MASTER_CHILD, Phase
\* The process exits.
<1>3. ASSUME NEW how \in {"exit", "fail"}
      PROVE  \E c \in MASTER_CHILD :
                /\ Exits(p, how) = [child EXCEPT ![p] = c]
                /\ c.phase = how /\ c.serv = child[p].serv /\ c.gen = child[p].gen
  <2> DEFINE c == [NoChild EXCEPT !.phase = how, !.serv = child[p].serv, !.gen = child[p].gen]
  <2>1. /\ c \in MASTER_CHILD /\ c.phase = how /\ c.serv = child[p].serv
        /\ c.gen = child[p].gen
    <3>1. NoChild \in [phase : {"none"}, serv : {NoService}, gen : {0}, conn : {FALSE}, use : {0}]
      BY DEF NoChild
    <3>2. 0 \in 0..MaxUse /\ how \in Phase \ {"none"}
      BY Constants DEF Phase
    <3> QED BY <1>1, <3>1, <3>2 DEF MASTER_CHILD
  <2>2. Exits(p, how) = [child EXCEPT ![p] = c]
    BY DEF Exits
  <2> QED BY <2>1, <2>2
\* The status message.
<1>4. ASSUME NEW avail \in BOOLEAN, CanNotify(p), chan' = Notify(p, avail), NEW c,
             c.phase \in {"wait", "select", "busy"} /\ c.conn =>
                child[p].conn /\ (avail <=> c.phase # "busy")
      PROVE  Silent(p, c) \/ Sends(p, c, avail)
  <2>1. CASE child[p].conn
    BY <1>4, <2>1 DEF CanNotify, Notify, Sends
  <2>2. CASE ~child[p].conn
    BY <1>4, <2>2 DEF Notify, Silent
  <2> QED BY <2>1, <2>2
<1>5. CASE ServerLock(p)
  <2> DEFINE c == [child[p] EXCEPT !.phase = "select", !.use = child[p].use]
  <2>1. child' = [child EXCEPT ![p] = c]
    BY <1>0, <1>1, <1>5 DEF ServerLock, MASTER_CHILD
  <2>2. /\ c \in MASTER_CHILD /\ c.phase = "select" /\ c.serv = child[p].serv
        /\ c.gen = child[p].gen /\ c.conn = child[p].conn
    BY <1>1 DEF MASTER_CHILD, Phase
  <2> HIDE DEF c
  <2>3. Silent(p, c)
    BY <1>5, <2>2 DEF Silent, ServerLock, Alive
  <2> QED BY <1>0, <1>1, <1>5, <2>1, <2>2, <2>3, ProcessStep DEF ServerLock
<1>6. CASE single_server_accept(p)
  <2> DEFINE c == [child[p] EXCEPT !.phase = "busy", !.use = child[p].use]
             s == child[p].serv
  <2>1. child' = [child EXCEPT ![p] = c]
    BY <1>0, <1>1, <1>6 DEF single_server_accept, MASTER_CHILD
  <2>2. /\ c \in MASTER_CHILD /\ c.phase = "busy" /\ c.serv = child[p].serv
        /\ c.gen = child[p].gen /\ c.conn = child[p].conn
    BY <1>1 DEF MASTER_CHILD, Phase
  <2> HIDE DEF c
  <2>3. Silent(p, c) \/ Sends(p, c, FALSE)
    BY <1>4, <1>6, <2>2 DEF single_server_accept
  <2>4. backlog[s] \in Sockets /\ Len(backlog[s]) <= Backlog /\ backlog[s] # <<>>
    BY <1>0, <1>1, <1>6 DEF single_server_accept
  <2>5. Tail(backlog[s]) \in Sockets /\ Len(Tail(backlog[s])) <= Backlog
    BY <2>4, HeadTailProperties, LenProperties, Constants DEF Sockets
  <2>6. backlog' \in [Service -> Sockets] /\ \A t \in Service : Len(backlog'[t]) <= Backlog
    BY <1>0, <1>1, <1>6, <2>5 DEF single_server_accept
  <2> QED BY <1>0, <1>1, <1>6, <2>1, <2>2, <2>3, <2>6, ProcessStep DEF single_server_accept
<1>7. CASE single_server_done(p)
  <2>0. got' \subseteq {"SIGCHLD", "SIGHUP"} /\ CanNotify(p) /\ chan' = Notify(p, TRUE)
    BY <1>0, <1>7 DEF single_server_done
  <2>1. CASE ~child[p].conn \/ child[p].use + 1 >= MaxUse
    <3>1. child' = Exits(p, "exit")
      BY <1>7, <2>1 DEF single_server_done
    <3>2. PICK c \in MASTER_CHILD :
             /\ child' = [child EXCEPT ![p] = c]
             /\ c.phase = "exit" /\ c.serv = child[p].serv /\ c.gen = child[p].gen
      BY <1>3, <3>1
    <3>3. Silent(p, c) \/ Sends(p, c, TRUE)
      BY <1>4, <2>0, <3>2
    <3> QED BY <1>0, <1>1, <1>7, <2>0, <3>2, <3>3, ProcessStep DEF single_server_done
  <2>2. CASE ~(~child[p].conn \/ child[p].use + 1 >= MaxUse)
    <3> DEFINE c == [child[p] EXCEPT !.phase = "wait", !.use = child[p].use + 1]
    <3>1. child' = [child EXCEPT ![p] = c]
      BY <1>0, <1>1, <1>7, <2>2 DEF single_server_done, MASTER_CHILD
    <3>2. child[p].use + 1 \in 0..MaxUse
      BY <1>1, <2>2, Constants
    <3>3. /\ c \in MASTER_CHILD /\ c.phase = "wait" /\ c.serv = child[p].serv
          /\ c.gen = child[p].gen /\ c.conn = child[p].conn
      BY <1>1, <1>2, <3>2
    <3> HIDE DEF c
    <3>4. Silent(p, c) \/ Sends(p, c, TRUE)
      BY <1>4, <2>0, <3>3
    <3> QED BY <1>0, <1>1, <1>7, <2>0, <3>1, <3>3, <3>4, ProcessStep DEF single_server_done
  <2> QED BY <2>1, <2>2
<1>8. CASE single_server_exit(p)
  <2>1. PICK c \in MASTER_CHILD :
           /\ child' = [child EXCEPT ![p] = c]
           /\ c.phase = "exit" /\ c.serv = child[p].serv /\ c.gen = child[p].gen
    BY <1>3, <1>8 DEF single_server_exit
  <2>2. got' \subseteq {"SIGCHLD", "SIGHUP"} /\ Silent(p, c)
    BY <1>0, <1>8, <2>1 DEF single_server_exit, Silent
  <2> QED BY <1>0, <1>1, <1>8, <2>1, <2>2, ProcessStep DEF single_server_exit
<1>9. CASE ServerFails(p)
  <2>1. PICK c \in MASTER_CHILD :
           /\ child' = [child EXCEPT ![p] = c]
           /\ c.phase = "fail" /\ c.serv = child[p].serv /\ c.gen = child[p].gen
    BY <1>3, <1>9 DEF ServerFails
  <2>2. got' \subseteq {"SIGCHLD", "SIGHUP"} /\ Silent(p, c)
    BY <1>0, <1>9, <2>1 DEF ServerFails, Silent
  <2>3. budget' \in 0..Budget
    <3>1. budget' = budget - 1 /\ budget > 0
      BY <1>9 DEF ServerFails
    <3> QED BY <1>0, <3>1, Constants
  <2> QED BY <1>0, <1>1, <1>9, <2>1, <2>2, <2>3, ProcessStep DEF ServerFails
<1> QED
  BY <1>5, <1>6, <1>7, <1>8, <1>9
  DEF ServerNext, single_server_timeout, single_server_abort

-----------------------------------------------------------------------------
(***************************************************************************)
(* A new process.                                                          *)
(***************************************************************************)

\* The pipe of service s is as before, or it was replaced by an empty one and
\* the processes of this service have lost their end.
Replaced(s, ch) ==
    \/ chan' = chan /\ ch = child
    \/ /\ chan' = [chan EXCEPT ![s] = <<>>]
       /\ \A p \in Pid : IF child[p].serv = s
                         THEN /\ ~ch[p].conn /\ ch[p].phase = child[p].phase
                              /\ ch[p].serv = child[p].serv /\ ch[p].gen = child[p].gen
                         ELSE ch[p] = child[p]

LEMMA ReplacedFields ==
    ASSUME Typed, NEW s \in Service, NEW ch \in [Pid -> MASTER_CHILD \cup {NoChild}],
           Replaced(s, ch)
    PROVE  /\ chan' \in [Service -> Seq(MASTER_STATUS)]
           /\ \A t \in Service : chan'[t] = chan[t] \/ (t = s /\ chan'[t] = <<>>)
           /\ \A t \in Service : Len(chan'[t]) <= PipeSize
           /\ \A p \in Pid : /\ ch[p].phase = child[p].phase
                             /\ ch[p].serv = child[p].serv /\ ch[p].gen = child[p].gen
                             /\ ch[p] = NoChild <=> child[p] = NoChild
                             /\ ch[p].conn => /\ child[p].conn
                                              /\ ch[p].serv \in Service
                                              /\ chan'[ch[p].serv] = chan[ch[p].serv]
<1>0. /\ chan \in [Service -> Seq(MASTER_STATUS)] /\ <<>> \in Seq(MASTER_STATUS)
      /\ Len(<<>>) <= PipeSize
  BY Constants, EmptySeq DEF Typed
<1>1. /\ chan' \in [Service -> Seq(MASTER_STATUS)]
      /\ \A t \in Service : chan'[t] = chan[t] \/ (t = s /\ chan'[t] = <<>>)
      /\ chan' = chan \/ \A t \in Service \ {s} : chan'[t] = chan[t]
  BY <1>0 DEF Replaced
<1>2. \A t \in Service : Len(chan'[t]) <= PipeSize
  BY <1>0, <1>1, ChanFields
<1>3. ASSUME NEW p \in Pid
      PROVE  /\ ch[p].phase = child[p].phase
             /\ ch[p].serv = child[p].serv /\ ch[p].gen = child[p].gen
             /\ ch[p].conn => ch[p] = child[p] /\ (chan' = chan \/ ch[p].serv # s)
  BY DEF Replaced
<1>4. ASSUME NEW p \in Pid
      PROVE  /\ ch[p] = NoChild <=> ch[p].phase = "none"
             /\ ch[p].conn => ch[p].serv \in Service
  <2>1. ch[p] \in MASTER_CHILD \cup {NoChild}
    OBVIOUS
  <2> QED BY <2>1, NoChildFields DEF MASTER_CHILD
<1>5. \A p \in Pid : child[p] # NoChild <=> child[p].phase # "none"
  BY TableFields
<1> QED BY <1>1, <1>2, <1>3, <1>4, <1>5

LEMMA SpawnStep ==
    ASSUME IInv, NEW s \in Service,
           NEW v \in SERV, v.on = TRUE, v.timer <=> WakesUp(s, v), ~v.throttle, v.avail_proc = 0,
           MASTER_LIMIT_OK(v.max_proc, v.total_proc),
           v.total_proc = serv[s].total_proc, v.avail_proc = serv[s].avail_proc,
           NEW ch \in [Pid -> MASTER_CHILD \cup {NoChild}], Replaced(s, ch),
           NEW q \in Sockets, Len(q) <= Backlog,
           master_spawn(s, v, ch, q), UNCHANGED <<conf, got>>, batch' \subseteq batch
    PROVE  IInv'
<1>0. /\ Typed /\ Table /\ Counted /\ Listening /\ Messages /\ Belief
      /\ serv \in [Service -> SERV] /\ backlog \in [Service -> Sockets]
      /\ proc \in [Pid -> MASTER_PROC \cup {NoProc}]
      /\ (\A t \in Service : Len(backlog[t]) <= Backlog)
      /\ budget \in 0..Budget /\ stuck' = stuck
      /\ batch' \subseteq {"listen", "status"} \X Service
  BY DEF IInv, Typed, master_spawn
<1>1. /\ chan' \in [Service -> Seq(MASTER_STATUS)]
      /\ \A t \in Service : chan'[t] = chan[t] \/ (t = s /\ chan'[t] = <<>>)
      /\ \A t \in Service : Len(chan'[t]) <= PipeSize
      /\ \A p \in Pid : /\ ch[p].phase = child[p].phase
                        /\ ch[p].serv = child[p].serv /\ ch[p].gen = child[p].gen
                        /\ ch[p] = NoChild <=> child[p] = NoChild
                        /\ ch[p].conn => /\ child[p].conn
                                         /\ ch[p].serv \in Service
                                         /\ chan'[ch[p].serv] = chan[ch[p].serv]
  BY <1>0, ReplacedFields
<1>2. \A t \in Service : \A i \in 1..Len(chan'[t]) :
         /\ i \in 1..Len(chan[t]) /\ chan'[t][i] = chan[t][i]
         /\ chan[t][i].pid \in Pid /\ chan[t][i].gen \in Nat \ {0}
  <2>1. Len(<<>>) = 0
    OBVIOUS
  <2> QED BY <1>0, <1>1, <2>1, ChanFields
\* What both outcomes have in common.
<1>3. ASSUME serv' \in [Service -> SERV], Policy(s, serv'[s]), serv'[s].on,
             \A t \in Service \ {s} : serv'[t] = serv[t],
             backlog' \in [Service -> Sockets], \A t \in Service : Len(backlog'[t]) <= Backlog,
             budget' \in 0..Budget,
             proc' \in [Pid -> MASTER_PROC \cup {NoProc}],
             child' \in [Pid -> MASTER_CHILD \cup {NoChild}]
      PROVE  /\ Typed' /\ Listening'
             /\ \A t \in Service : serv[t].on => serv'[t].on
  <2>1. Typed'
    BY <1>0, <1>1, <1>3 DEF Typed
  <2>2. Listening'
    BY <1>0, <1>3 DEF Listening
  <2> QED BY <1>3, <2>1, <2>2
\* A process that was there is as well known as before.
<1>4. ASSUME NEW p \in Pid, ch[p].phase \in {"wait", "select", "busy"}, ch[p].conn
      PROVE  Known(chan'[ch[p].serv], p, ch[p].gen, proc[p].avail, ch[p].phase)
  BY <1>0, <1>1, <1>4 DEF Belief, Alive
<1>5. CASE /\ budget > 0 /\ budget' = budget - 1
           /\ serv' = [serv EXCEPT ![s] = master_throttle(v)]
           /\ child' = ch
           /\ backlog' = [backlog EXCEPT ![s] = q]
           /\ UNCHANGED proc
  <2>1. budget' \in 0..Budget
    BY <1>0, <1>5, Constants
  <2>2. Good(s, master_throttle(v), v.total_proc, v.avail_proc)
    BY CountersGood
  <2>3. /\ serv' \in [Service -> SERV] /\ Policy(s, serv'[s]) /\ serv'[s].on
        /\ serv'[s].total_proc = v.total_proc /\ serv'[s].avail_proc = v.avail_proc
        /\ \A t \in Service \ {s} : serv'[t] = serv[t]
    BY <1>0, <1>5, <2>2 DEF Good
  <2>4. /\ backlog' \in [Service -> Sockets] /\ (\A t \in Service : Len(backlog'[t]) <= Backlog)
        /\ proc' = proc /\ child' = ch
    BY <1>0, <1>5
  <2>5. /\ Typed' /\ Listening'
        /\ \A t \in Service : serv[t].on => serv'[t].on
    BY <1>0, <1>3, <2>1, <2>3, <2>4
  <2>6. Table'
    BY <1>0, <1>1, <1>5, <2>5, TableFields DEF Table
  <2>7. Counted'
    <3>1. \A t \in Service : Procs(t)' = Procs(t) /\ Idle(t)' = Idle(t)
      BY <2>4 DEF Procs, Idle
    <3>2. \A t \in Service : /\ serv'[t].total_proc = serv[t].total_proc
                             /\ serv'[t].avail_proc = serv[t].avail_proc
      BY <2>3
    <3> QED BY <1>0, <3>1, <3>2 DEF Counted
  <2>8. Messages'
    <3> SUFFICES ASSUME NEW t \in Service, NEW i \in 1..Len(chan'[t]),
                        child'[chan'[t][i].pid].gen = chan'[t][i].gen
                 PROVE  child'[chan'[t][i].pid].serv = t
      BY DEF Messages
    <3>1. i \in 1..Len(chan[t]) /\ chan'[t][i] = chan[t][i] /\ chan[t][i].pid \in Pid
      BY <1>2
    <3>2. child[chan[t][i].pid].gen = chan[t][i].gen
      BY <1>1, <2>4, <3>1
    <3>3. child[chan[t][i].pid].serv = t
      BY <1>0, <3>1, <3>2 DEF Messages
    <3> QED BY <1>1, <2>4, <3>1, <3>3
  <2>9. Belief'
    BY <1>4, <1>5 DEF Belief, Alive
  <2> QED BY <2>5, <2>6, <2>7, <2>8, <2>9 DEF IInv
<1>6. ASSUME NEW p \in Pid, ch[p].phase = "none",
             child' = [ch EXCEPT ![p] = [phase |-> "wait", serv |-> s,
                             gen |-> master_generation(p), conn |-> TRUE, use |-> 0]],
             proc' = [proc EXCEPT ![p] = [serv |-> s, gen |-> master_generation(p),
                             use_count |-> 0, avail |-> TRUE]],
             LET w == master_avail_more([v EXCEPT !.total_proc = @ + 1])
             IN /\ serv' = [serv EXCEPT ![s] = FirstUse(s, w)]
                /\ backlog' = [backlog EXCEPT ![s] =
                       IF v.condwake THEN Woken(s, FirstUse(s, w), q) ELSE q],
             UNCHANGED budget
      PROVE  IInv'
  <2> DEFINE g == master_generation(p)
             c == [phase |-> "wait", serv |-> s, gen |-> g, conn |-> TRUE, use |-> 0]
             e == [serv |-> s, gen |-> g, use_count |-> 0, avail |-> TRUE]
             u == [v EXCEPT !.total_proc = v.total_proc + 1]
             w == FirstUse(s, master_avail_more(u))
  <2>1. /\ g \in Nat \ {0}
        /\ \A t \in Service : \A i \in 1..Len(chan[t]) : chan[t][i].pid = p => chan[t][i].gen # g
    BY <1>0, GenerationFresh
  <2> HIDE DEF g
  <2>2. c \in MASTER_CHILD /\ e \in MASTER_PROC
    BY <2>1, Constants DEF MASTER_CHILD, MASTER_PROC, Phase
  <2>3. /\ c.phase = "wait" /\ c.serv = s /\ c.gen = g /\ c.conn = TRUE
        /\ e.serv = s /\ e.gen = g /\ e.avail = TRUE
    OBVIOUS
  <2>4. child' = [ch EXCEPT ![p] = c] /\ proc' = [proc EXCEPT ![p] = e]
    BY <1>6 DEF g
  <2>5. /\ u \in SERV /\ u.on = TRUE /\ u.timer = v.timer /\ u.condwake = v.condwake
        /\ u.total_proc = v.total_proc + 1 /\ u.avail_proc = v.avail_proc
    BY DEF SERV
  <2>6. serv' = [serv EXCEPT ![s] = w]
    BY <1>6
  <2>7. backlog' \in [Service -> Sockets] /\ \A t \in Service : Len(backlog'[t]) <= Backlog
    <3>1. Woken(s, w, q) \in Sockets /\ Len(Woken(s, w, q)) <= Backlog
      BY WokenQueue
    <3>2. backlog' = [backlog EXCEPT ![s] = IF v.condwake THEN Woken(s, w, q) ELSE q]
      BY <1>6
    <3> HIDE DEF w
    <3> DEFINE r == IF v.condwake THEN Woken(s, w, q) ELSE q
    <3>3. r \in Sockets /\ Len(r) <= Backlog
      BY <3>1
    <3> HIDE DEF r
    <3> QED BY <1>0, <3>2, <3>3 DEF r
  <2> HIDE DEF c, e, u
  <2>8. Good(s, w, v.total_proc + 1, v.avail_proc + 1)
    <3>1. Good(s, master_avail_more(u), v.total_proc + 1, v.avail_proc + 1)
      BY <2>5, CountersGood DEF WakesUp
    <3> QED BY <3>1, FirstUseGood
  <2> HIDE DEF w
  <2>9. /\ child' \in [Pid -> MASTER_CHILD \cup {NoChild}]
        /\ child'[p] = c /\ \A k \in Pid \ {p} : child'[k] = ch[k]
        /\ proc' \in [Pid -> MASTER_PROC \cup {NoProc}]
        /\ proc'[p] = e /\ \A k \in Pid \ {p} : proc'[k] = proc[k]
    BY <1>0, <2>2, <2>4
  <2>10. /\ serv' \in [Service -> SERV] /\ Policy(s, serv'[s]) /\ serv'[s].on
         /\ serv'[s].total_proc = v.total_proc + 1 /\ serv'[s].avail_proc = v.avail_proc + 1
         /\ \A t \in Service \ {s} : serv'[t] = serv[t]
    BY <1>0, <2>6, <2>8 DEF Good
  <2>11. /\ Typed' /\ Listening'
         /\ \A t \in Service : serv[t].on => serv'[t].on
    <3>1. budget' \in 0..Budget
      BY <1>0, <1>6
    <3> QED BY <1>3, <2>7, <2>9, <2>10, <3>1
  <2>12. proc[p] = NoProc /\ c # NoChild /\ e # NoProc
    BY <1>0, <1>1, <1>6, <2>2, NoChildFields, TableFields, Constants DEF Table, MASTER_CHILD, MASTER_PROC
  <2>13. Table'
    <3> SUFFICES ASSUME NEW k \in Pid
                 PROVE  /\ proc'[k] = NoProc <=> child'[k] = NoChild
                        /\ proc'[k] # NoProc => /\ proc'[k].serv = child'[k].serv
                                                /\ proc'[k].gen = child'[k].gen
                                                /\ serv'[proc'[k].serv].on
      BY <1>0 DEF Table
    <3>1. CASE k = p
      BY <2>3, <2>9, <2>12, <2>10, <3>1
    <3>2. CASE k # p
      <4>1. proc'[k] = proc[k] /\ child'[k] = ch[k]
        BY <2>9, <3>2
      <4>2. proc[k] # NoProc => proc[k].serv \in Service /\ serv[proc[k].serv].on
        BY <1>0, TableFields DEF Table
      <4> QED BY <1>0, <1>1, <2>11, <4>1, <4>2 DEF Table
    <3> QED BY <3>1, <3>2
  <2>14. Counted'
    <3>1. /\ Cardinality(Procs(s)') = Cardinality(Procs(s)) + 1
          /\ Cardinality(Idle(s)') = Cardinality(Idle(s)) + 1
          /\ \A t \in Service \ {s} : Procs(t)' = Procs(t) /\ Idle(t)' = Idle(t)
      BY <1>0, <2>3, <2>4, <2>12, AddedCount
    <3> QED BY <1>0, <2>10, <3>1 DEF Counted
  <2>15. Messages'
    <3> SUFFICES ASSUME NEW t \in Service, NEW i \in 1..Len(chan'[t]),
                        child'[chan'[t][i].pid].gen = chan'[t][i].gen
                 PROVE  child'[chan'[t][i].pid].serv = t
      BY DEF Messages
    <3>1. i \in 1..Len(chan[t]) /\ chan'[t][i] = chan[t][i] /\ chan[t][i].pid \in Pid
      BY <1>2
    <3>2. chan[t][i].pid # p
      BY <2>1, <2>3, <2>9, <3>1
    <3>3. child'[chan[t][i].pid] = ch[chan[t][i].pid]
      BY <2>9, <3>1, <3>2
    <3>4. child[chan[t][i].pid].gen = chan[t][i].gen
      BY <1>1, <3>1, <3>3
    <3>5. child[chan[t][i].pid].serv = t
      BY <1>0, <3>1, <3>4 DEF Messages
    <3> QED BY <1>1, <3>1, <3>3, <3>5
  <2>16. Belief'
    <3> SUFFICES ASSUME NEW k \in Pid, Alive(k)', child'[k].conn
                 PROVE  Known(chan'[child'[k].serv], k, child'[k].gen, proc'[k].avail,
                              child'[k].phase)
      BY DEF Belief
    <3>1. CASE k # p
      BY <1>4, <2>9, <3>1 DEF Alive
    <3>2. CASE k = p
      <4>1. Mine(chan'[s], p, g) = {}
        BY <1>2, <2>1 DEF Mine
      <4>2. Known(chan'[s], p, g, e.avail, c.phase)
        BY <2>3, <4>1 DEF Known
      <4> QED BY <2>3, <2>9, <3>2, <4>2
    <3> QED BY <3>1, <3>2
  <2> QED BY <2>11, <2>13, <2>14, <2>15, <2>16 DEF IInv
<1> QED BY <1>5, <1>6 DEF master_spawn

LEMMA AvailEventStep ==
    ASSUME IInv, NEW s \in Service, master_avail_event(s)
    PROVE  IInv'
<1>0. /\ Typed /\ Table /\ serv[s] \in SERV /\ Policy(s, serv[s])
      /\ child \in [Pid -> MASTER_CHILD \cup {NoChild}]
      /\ chan \in [Service -> Seq(MASTER_STATUS)]
      /\ backlog[s] \in Sockets /\ Len(backlog[s]) <= Backlog
      /\ batch \subseteq {"listen", "status"} \X Service
  BY DEF IInv, Typed, Listening
<1>1. batch' \subseteq batch /\ UNCHANGED <<conf, got>>
  BY DEF master_avail_event
<1>2. CASE ~serv[s].listen
  <2>1. UNCHANGED <<serv, proc, child, chan, backlog, stuck, budget>>
    BY <1>2 DEF master_avail_event
  <2>2. batch' \subseteq {"listen", "status"} \X Service
    BY <1>0, <1>1
  <2>3. Typed'
    BY <1>0, <1>1, <2>1, <2>2 DEF Typed
  <2> QED BY <1>0, <2>1, <2>3, OtherStep DEF Table
<1>3. CASE serv[s].listen
  <2> DEFINE full == s \in Stress /\ ~MASTER_LIMIT_OK(serv[s].max_proc, serv[s].total_proc + 1)
             stress == serv[s].stress \/ full
             v == [serv[s] EXCEPT !.stress = stress]
             stopped == [v EXCEPT !.timer = FALSE]
             timer == stopped.timer \/ WakesUp(s, stopped)
             u == [stopped EXCEPT !.timer = timer]
  <2>1. /\ serv[s].on = TRUE /\ ~serv[s].throttle /\ serv[s].avail_proc = 0
        /\ MASTER_LIMIT_OK(serv[s].max_proc, serv[s].total_proc)
        /\ serv[s].timer <=> WakesUp(s, serv[s])
    BY <1>0, <1>3 DEF Policy, SERV
  <2>2. full \in BOOLEAN /\ stress \in BOOLEAN
    BY <1>0 DEF MASTER_LIMIT_OK, SERV
  <2>3. IF full /\ ~serv[s].stress
        THEN /\ chan' = [chan EXCEPT ![s] = <<>>]
             /\ master_spawn(s, master_wakeup_init(s, stopped),
                             master_status_cleanup(s), Woken(s, v, backlog[s]))
        ELSE chan' = chan /\ master_spawn(s, v, child, backlog[s])
    BY <1>3 DEF master_avail_event
  <2>4. master_wakeup_init(s, stopped) = u
    BY DEF master_wakeup_init
  <2> HIDE DEF full, stress
  <2>5. /\ v \in SERV /\ v.on = serv[s].on /\ v.throttle = serv[s].throttle
        /\ v.avail_proc = serv[s].avail_proc /\ v.total_proc = serv[s].total_proc
        /\ v.max_proc = serv[s].max_proc /\ v.timer = serv[s].timer
        /\ v.condwake = serv[s].condwake
    BY <1>0, <2>2 DEF SERV
  <2> HIDE DEF v
  <2>6. /\ stopped \in SERV /\ stopped.on = v.on /\ stopped.throttle = v.throttle
        /\ stopped.avail_proc = v.avail_proc /\ stopped.total_proc = v.total_proc
        /\ stopped.max_proc = v.max_proc /\ stopped.timer = FALSE
        /\ stopped.condwake = v.condwake
    BY <2>5 DEF SERV
  <2> HIDE DEF stopped
  <2>7. timer \in BOOLEAN /\ timer = WakesUp(s, stopped)
    BY <2>6 DEF WakesUp, SERV
  <2> HIDE DEF timer
  <2>8. /\ u \in SERV /\ u.on = v.on /\ u.throttle = v.throttle
        /\ u.avail_proc = v.avail_proc /\ u.total_proc = v.total_proc
        /\ u.max_proc = v.max_proc /\ u.timer = timer
        /\ u.condwake = v.condwake
    BY <2>6, <2>7 DEF SERV
  <2> HIDE DEF u
  <2>9. (v.timer <=> WakesUp(s, v)) /\ (u.timer <=> WakesUp(s, u))
    BY <2>1, <2>5, <2>6, <2>7, <2>8 DEF WakesUp
  <2>10. CASE full /\ ~serv[s].stress
    <3> DEFINE ch == master_status_cleanup(s)
    <3>1. /\ ch \in [Pid -> MASTER_CHILD \cup {NoChild}]
          /\ \A p \in Pid : IF child[p].serv = s
                            THEN /\ ~ch[p].conn /\ ch[p].phase = child[p].phase
                                 /\ ch[p].serv = child[p].serv /\ ch[p].gen = child[p].gen
                            ELSE ch[p] = child[p]
      <4>1. ASSUME NEW p \in Pid, child[p].serv = s
            PROVE  /\ [child[p] EXCEPT !.conn = FALSE] \in MASTER_CHILD
                   /\ [child[p] EXCEPT !.conn = FALSE].conn = FALSE
                   /\ [child[p] EXCEPT !.conn = FALSE].phase = child[p].phase
                   /\ [child[p] EXCEPT !.conn = FALSE].serv = child[p].serv
                   /\ [child[p] EXCEPT !.conn = FALSE].gen = child[p].gen
        <5>1. child[p] \in MASTER_CHILD
          BY <1>0, <4>1, TableFields
        <5> QED BY <5>1 DEF MASTER_CHILD
      <4> QED BY <1>0, <4>1 DEF master_status_cleanup
    <3> HIDE DEF ch
    <3>2. chan' = [chan EXCEPT ![s] = <<>>] /\ master_spawn(s, u, ch, Woken(s, v, backlog[s]))
      BY <2>3, <2>4, <2>10 DEF ch
    <3>3. Replaced(s, ch)
      BY <3>1, <3>2 DEF Replaced
    <3>4. Woken(s, v, backlog[s]) \in Sockets /\ Len(Woken(s, v, backlog[s])) <= Backlog
      BY <1>0, WokenQueue
    <3> QED BY <1>1, <2>1, <2>5, <2>8, <2>9, <3>1, <3>2, <3>3, <3>4, SpawnStep
  <2>11. CASE ~(full /\ ~serv[s].stress)
    <3>1. chan' = chan /\ master_spawn(s, v, child, backlog[s]) /\ Replaced(s, child)
      BY <2>3, <2>11 DEF Replaced
    <3> QED BY <1>0, <1>1, <2>1, <2>5, <2>9, <3>1, SpawnStep
  <2> QED BY <2>10, <2>11
<1> QED BY <1>2, <1>3

-----------------------------------------------------------------------------
(***************************************************************************)
(* A status message is read.                                               *)
(***************************************************************************)

\* A message that is not about the process changes nothing, and after its own
\* message the table says what the message said.
LEMMA KnownTail ==
    ASSUME NEW q \in Seq(MASTER_STATUS), q # <<>>, NEW p, NEW gen, NEW table, NEW phase,
           NEW next, Known(q, p, gen, table, phase),
           IF Head(q).pid = p /\ Head(q).gen = gen THEN next = Head(q).avail ELSE next = table
    PROVE  Known(Tail(q), p, gen, next, phase)
<1> DEFINE rest == Tail(q)
<1>1. Len(q) \in Nat \ {0} /\ Head(q) = q[1] /\ Len(rest) = Len(q) - 1
      /\ \A i \in 1..Len(rest) : rest[i] = q[i + 1]
  BY HeadTailProperties, LenProperties, EmptySeq
<1> HIDE DEF rest
<1>2. \A i : i \in Mine(rest, p, gen) <=> i \in 1..Len(rest) /\ i + 1 \in Mine(q, p, gen)
  BY <1>1 DEF Mine
<1>3. \A i \in Mine(q, p, gen) : i = 1 \/ (i - 1 \in 1..Len(rest) /\ rest[i - 1] = q[i]
                                             /\ i - 1 \in Mine(rest, p, gen))
  BY <1>1 DEF Mine
<1>4. CASE Mine(q, p, gen) = {} /\ (table <=> phase # "busy")
  <2>1. Mine(rest, p, gen) = {}
    BY <1>2, <1>4
  <2>2. ~(Head(q).pid = p /\ Head(q).gen = gen)
    BY <1>1, <1>4 DEF Mine
  <2> QED BY <1>4, <2>1, <2>2 DEF Known, rest
<1>5. ASSUME NEW i \in Mine(q, p, gen), \A j \in Mine(q, p, gen) : j <= i,
             q[i].avail <=> phase # "busy"
      PROVE  Known(rest, p, gen, next, phase)
  <2>1. CASE i = 1
    <3>1. Mine(rest, p, gen) = {}
      <4>1. ASSUME NEW j \in Mine(rest, p, gen) PROVE FALSE
        <5>1. j \in 1..Len(rest) /\ j + 1 <= 1
          BY <1>2, <1>5, <2>1
        <5> QED BY <1>1, <5>1
      <4> QED BY <4>1
    <3>2. Head(q).pid = p /\ Head(q).gen = gen /\ next = q[i].avail
      BY <1>1, <2>1 DEF Mine
    <3> QED BY <1>5, <3>1, <3>2 DEF Known
  <2>2. CASE i # 1
    <3>1. i - 1 \in Mine(rest, p, gen) /\ rest[i - 1] = q[i]
      BY <1>3, <2>2
    <3>2. ASSUME NEW j \in Mine(rest, p, gen) PROVE j <= i - 1
      <4>1. j \in 1..Len(rest) /\ j + 1 <= i /\ i \in 1..Len(q)
        BY <1>2, <1>5 DEF Mine
      <4> QED BY <1>1, <4>1
    <3> QED BY <1>5, <3>1, <3>2 DEF Known
  <2> QED BY <2>1, <2>2
<1> QED BY <1>4, <1>5 DEF Known, rest

LEMMA StatusStep ==
    ASSUME IInv, NEW s \in Service, master_status_event(s)
    PROVE  IInv'
<1>0. /\ Typed /\ Table /\ Counted /\ Listening /\ Messages /\ Belief
      /\ serv \in [Service -> SERV] /\ serv[s] \in SERV /\ Policy(s, serv[s])
      /\ proc \in [Pid -> MASTER_PROC \cup {NoProc}]
      /\ chan \in [Service -> Seq(MASTER_STATUS)]
      /\ UNCHANGED <<conf, child, backlog, got, budget>>
      /\ batch' \subseteq {"listen", "status"} \X Service
  BY DEF IInv, Typed, Listening, master_status_event
<1>1. CASE chan[s] = <<>>
  <2>1. stuck' = "blocked" /\ UNCHANGED <<serv, proc, chan>>
    BY <1>1 DEF master_status_event
  <2>2. Typed'
    BY <1>0, <2>1 DEF Typed
  <2> QED BY <1>0, <2>1, <2>2, OtherStep
<1>2. CASE chan[s] # <<>>
  <2> DEFINE m == Head(chan[s])
             p == m.pid
             rest == Tail(chan[s])
             e == [proc[p] EXCEPT !.avail = m.avail,
                                  !.use_count = IF m.avail THEN 1 ELSE proc[p].use_count]
             flips == ~(Stale(m) \/ proc[p].avail = m.avail)
             w == IF m.avail THEN master_avail_more(serv[s]) ELSE master_avail_less(serv[s])
  <2>1. /\ Len(chan[s]) \in Nat \ {0} /\ Len(chan[s]) <= PipeSize /\ m = chan[s][1]
        /\ rest \in Seq(MASTER_STATUS) /\ Len(rest) = Len(chan[s]) - 1
        /\ \A i \in 1..Len(rest) : rest[i] = chan[s][i + 1]
    BY <1>0, <1>2, ChanFields, HeadTailProperties, LenProperties, EmptySeq
  <2>2. p \in Pid /\ m.gen \in Nat \ {0} /\ m.avail \in BOOLEAN
    BY <1>0, <2>1, ChanFields
  <2>3. chan' = [chan EXCEPT ![s] = rest]
    BY <1>2 DEF master_status_event
  <2>4. stuck' = IF Stale(m) \/ proc[p].serv = s THEN stuck ELSE "panic"
    BY <1>2 DEF master_status_event
  <2>5. IF flips THEN proc' = [proc EXCEPT ![p] = e] /\ serv' = [serv EXCEPT ![s] = w]
                 ELSE UNCHANGED <<serv, proc>>
    BY <1>0, <1>2 DEF master_status_event
  <2>6. ~Stale(m) => /\ proc[p] \in MASTER_PROC /\ proc[p].serv = s /\ child[p].serv = s
                     /\ serv[s].on /\ proc[p] # NoProc
    <3>1. ~Stale(m) => /\ proc[p] # NoProc /\ child[p].gen = m.gen
                       /\ proc[p].serv = child[p].serv /\ serv[proc[p].serv].on
      BY <1>0, <2>2 DEF Stale, Table
    <3>2. child[p].gen = m.gen => child[p].serv = s
      BY <1>0, <2>1 DEF Messages
    <3> QED BY <1>0, <2>2, <3>1, <3>2, TableFields
  <2>7. stuck' = stuck
    BY <2>4, <2>6
  <2>8. flips => /\ e \in MASTER_PROC /\ e.serv = s /\ e.gen = proc[p].gen
                 /\ e.avail = m.avail /\ e.avail = ~proc[p].avail
    <3> SUFFICES ASSUME flips
                 PROVE  /\ e \in MASTER_PROC /\ e.serv = s /\ e.gen = proc[p].gen
                        /\ e.avail = m.avail /\ e.avail = ~proc[p].avail
      OBVIOUS
    <3>1. proc[p] \in MASTER_PROC /\ proc[p].serv = s /\ proc[p].avail # m.avail
      BY <2>6
    <3> HIDE DEF p, m, flips
    <3> QED BY <2>2, <3>1 DEF MASTER_PROC
  <2>9. flips => Good(s, w, serv[s].total_proc,
                      IF m.avail THEN serv[s].avail_proc + 1 ELSE serv[s].avail_proc - 1)
    <3>1. flips => serv[s].on = TRUE /\ (serv[s].timer <=> WakesUp(s, serv[s]))
      BY <1>0, <2>6 DEF Policy, SERV
    <3> QED BY <1>0, <3>1, CountersGood
  <2> HIDE DEF m, p, e, w, rest, flips
  <2>10. chan'[s] = rest /\ (\A t \in Service \ {s} : chan'[t] = chan[t])
         /\ chan' \in [Service -> Seq(MASTER_STATUS)]
    BY <1>0, <2>1, <2>3
  <2>11. /\ serv' \in [Service -> SERV]
         /\ \A t \in Service : serv'[t].on = serv[t].on /\ Policy(t, serv'[t])
    <3>1. CASE flips
      <4>1. w \in SERV /\ w.on = TRUE /\ Policy(s, w) /\ serv[s].on = TRUE
        BY <1>0, <2>6, <2>9, <3>1 DEF Good, flips, SERV
      <4> QED BY <1>0, <2>5, <3>1, <4>1 DEF Listening
    <3>2. CASE ~flips
      BY <1>0, <2>5, <3>2 DEF Listening
    <3> QED BY <3>1, <3>2
  <2>12. /\ proc' \in [Pid -> MASTER_PROC \cup {NoProc}]
         /\ \A k \in Pid : /\ proc'[k] = NoProc <=> proc[k] = NoProc
                           /\ proc'[k].serv = proc[k].serv /\ proc'[k].gen = proc[k].gen
                           /\ k # p => proc'[k] = proc[k]
         /\ proc'[p].avail = IF Stale(m) THEN proc[p].avail ELSE m.avail
    <3>1. CASE flips
      <4>1. e # NoProc /\ proc[p] # NoProc /\ proc[p].serv = s /\ ~Stale(m)
        BY <2>6, <2>8, <3>1, NoChildFields, Constants DEF flips
      <4> QED BY <1>0, <2>2, <2>5, <2>8, <3>1, <4>1
    <3>2. CASE ~flips
      BY <1>0, <2>5, <3>2 DEF flips
    <3> QED BY <3>1, <3>2
  <2>13. Typed'
    <3>1. ASSUME NEW t \in Service PROVE Len(chan'[t]) <= PipeSize
      <4>1. Len(chan[t]) \in Nat /\ Len(chan[t]) <= PipeSize /\ PipeSize \in Nat
        BY <1>0, ChanFields, Constants
      <4>2. CASE t = s
        BY <2>1, <2>10, <4>1, <4>2
      <4>3. CASE t # s
        BY <2>10, <4>1, <4>3
      <4> QED BY <4>2, <4>3
    <3> QED BY <1>0, <2>7, <2>10, <2>11, <2>12, <3>1 DEF Typed
  <2>14. Listening'
    BY <2>11 DEF Listening
  <2>15. Table'
    <3>1. \A k \in Pid : proc[k] # NoProc => proc[k].serv \in Service
      BY <1>0, TableFields
    <3> QED BY <1>0, <2>7, <2>11, <2>12, <3>1 DEF Table
  <2>16. Counted'
    <3>1. CASE flips
      <4>1. /\ Cardinality(Procs(s)') = Cardinality(Procs(s))
            /\ Cardinality(Idle(s)') = IF e.avail THEN Cardinality(Idle(s)) + 1
                                                  ELSE Cardinality(Idle(s)) - 1
            /\ \A t \in Service \ {s} : Procs(t)' = Procs(t) /\ Idle(t)' = Idle(t)
        <5>1. proc[p].serv = s /\ proc' = [proc EXCEPT ![p] = e]
          BY <2>5, <2>6, <3>1 DEF flips
        <5> QED BY <1>0, <2>2, <2>8, <3>1, <5>1, FlippedCount
      <4>2. /\ serv'[s].total_proc = serv[s].total_proc
            /\ serv'[s].avail_proc = IF m.avail THEN serv[s].avail_proc + 1
                                                ELSE serv[s].avail_proc - 1
            /\ \A t \in Service \ {s} : serv'[t] = serv[t]
        BY <1>0, <2>5, <2>9, <3>1 DEF Good
      <4> QED BY <1>0, <2>8, <3>1, <4>1, <4>2 DEF Counted
    <3>2. CASE ~flips
      <4>1. serv' = serv /\ proc' = proc
        BY <2>5, <3>2
      <4> QED BY <1>0, <4>1 DEF Counted, Procs, Idle
    <3> QED BY <3>1, <3>2
  <2>17. Messages'
    <3> SUFFICES ASSUME NEW t \in Service, NEW i \in 1..Len(chan'[t]),
                        child'[chan'[t][i].pid].gen = chan'[t][i].gen
                 PROVE  child'[chan'[t][i].pid].serv = t
      BY DEF Messages
    <3>1. \E j \in 1..Len(chan[t]) : chan'[t][i] = chan[t][j]
      <4>1. CASE t = s
        <5>1. i \in 1..Len(rest) /\ i + 1 \in 1..Len(chan[s])
          BY <2>1, <2>10, <4>1
        <5> QED BY <2>1, <2>10, <4>1, <5>1
      <4>2. CASE t # s
        BY <2>10, <4>2
      <4> QED BY <4>1, <4>2
    <3> QED BY <1>0, <3>1 DEF Messages
  <2>18. Belief'
    <3> SUFFICES ASSUME NEW k \in Pid, Alive(k), child[k].conn
                 PROVE  Known(chan'[child[k].serv], k, child[k].gen, proc'[k].avail,
                              child[k].phase)
      BY <1>0 DEF Belief, Alive
    <3>1. Known(chan[child[k].serv], k, child[k].gen, proc[k].avail, child[k].phase)
      BY <1>0 DEF Belief
    <3>2. child[k].serv \in Service /\ proc[k] # NoProc /\ proc[k].gen = child[k].gen
      BY <1>0, TableFields DEF Table, Alive
    <3>3. CASE child[k].serv # s
      <4>1. k = p => Stale(m)
        BY <2>6, <3>3
      <4> QED BY <2>10, <2>12, <3>1, <3>2, <3>3, <4>1
    <3>4. CASE child[k].serv = s
      <4>1. m.pid = k /\ m.gen = child[k].gen => proc'[k].avail = m.avail
        BY <2>12, <3>2 DEF p, Stale
      <4>2. ~(m.pid = k /\ m.gen = child[k].gen) => proc'[k].avail = proc[k].avail
        BY <2>12, <3>2 DEF p, Stale
      <4>3. Known(rest, k, child[k].gen, proc'[k].avail, child[k].phase)
        BY <1>0, <1>2, <3>1, <3>4, <4>1, <4>2, KnownTail DEF m, rest
      <4> QED BY <2>10, <3>4, <4>3
    <3> QED BY <3>3, <3>4
  <2> QED BY <2>13, <2>14, <2>15, <2>16, <2>17, <2>18 DEF IInv
<1> QED BY <1>1, <1>2

-----------------------------------------------------------------------------
(***************************************************************************)
(* Processes are waited for.                                               *)
(***************************************************************************)

\* The processes in P that belong to service s, and those that the master
\* believes to be available.
Gone(P, s) == {p \in P : proc[p].serv = s}
GoneIdle(P, s) == {q \in Gone(P, s) : proc[q].avail}

LEMMA ForgetStep ==
    ASSUME IInv, NEW P \in SUBSET Pid, proc' = Forget(proc, P, NoProc),
           child' \in [Pid -> MASTER_CHILD \cup {NoChild}],
           \A p \in P : child'[p] = NoChild,
           \A p \in Pid \ P : /\ child'[p].phase = child[p].phase
                              /\ child'[p].serv = child[p].serv
                              /\ child'[p].gen = child[p].gen
                              /\ child'[p].conn => child[p].conn /\ chan' = chan,
           chan' = chan \/ chan' = [s \in Service |-> <<>>],
           serv' \in [Service -> SERV], \A s \in Service : Policy(s, serv'[s]),
           \A s \in Service :
              /\ serv'[s].total_proc = serv[s].total_proc - Cardinality(Gone(P, s))
              /\ serv'[s].avail_proc = serv[s].avail_proc - Cardinality(GoneIdle(P, s)),
           \A p \in Pid \ P : proc[p] # NoProc => serv'[proc[p].serv].on,
           backlog' \in [Service -> Sockets], \A s \in Service : Len(backlog'[s]) <= Backlog,
           got' \subseteq got, UNCHANGED <<conf, batch, stuck, budget>>
    PROVE  IInv'
<1>0. /\ Typed /\ Table /\ Counted /\ Messages /\ Belief
      /\ proc \in [Pid -> MASTER_PROC \cup {NoProc}]
      /\ chan \in [Service -> Seq(MASTER_STATUS)]
      /\ got' \subseteq {"SIGCHLD", "SIGHUP"}
  BY DEF IInv, Typed
<1>1. /\ proc' \in [Pid -> MASTER_PROC \cup {NoProc}]
      /\ \A p \in P : proc'[p] = NoProc
      /\ \A p \in Pid \ P : proc'[p] = proc[p]
  BY <1>0 DEF Forget
<1>2. /\ chan' \in [Service -> Seq(MASTER_STATUS)]
      /\ \A s \in Service : chan'[s] = chan[s] \/ chan'[s] = <<>>
      /\ \A s \in Service : Len(chan'[s]) <= PipeSize
  <2>1. <<>> \in Seq(MASTER_STATUS) /\ Len(<<>>) <= PipeSize
    BY Constants, EmptySeq
  <2>2. /\ chan' \in [Service -> Seq(MASTER_STATUS)]
        /\ \A s \in Service : chan'[s] = chan[s] \/ chan'[s] = <<>>
    BY <1>0, <2>1
  <2> QED BY <1>0, <2>1, <2>2, ChanFields
<1>3. Typed'
  BY <1>0, <1>1, <1>2 DEF Typed
<1>4. Listening'
  BY DEF Listening
<1>5. Table'
  <2> SUFFICES ASSUME NEW p \in Pid
               PROVE  /\ proc'[p] = NoProc <=> child'[p] = NoChild
                      /\ proc'[p] # NoProc => /\ proc'[p].serv = child'[p].serv
                                              /\ proc'[p].gen = child'[p].gen
                                              /\ serv'[proc'[p].serv].on
    BY <1>0 DEF Table
  <2>1. CASE p \in P
    BY <1>1, <2>1
  <2>2. CASE p \notin P
    <3>1. child'[p] = NoChild <=> child[p] = NoChild
      <4>1. child[p] # NoChild <=> child[p].phase # "none"
        BY <1>0, TableFields
      <4>2. child'[p] # NoChild <=> child'[p].phase # "none"
        <5>1. child'[p] \in MASTER_CHILD \cup {NoChild}
          OBVIOUS
        <5> QED BY <5>1, NoChildFields DEF MASTER_CHILD
      <4> QED BY <2>2, <4>1, <4>2
    <3> QED BY <1>0, <1>1, <2>2, <3>1 DEF Table
  <2> QED BY <2>1, <2>2
<1>6. Counted'
  <2> SUFFICES ASSUME NEW s \in Service
               PROVE  /\ serv'[s].total_proc = Cardinality(Procs(s)')
                      /\ serv'[s].avail_proc = Cardinality(Idle(s)')
    BY DEF Counted
  <2>1. /\ Cardinality(Procs(s)') = Cardinality(Procs(s)) - Cardinality(Gone(P, s))
        /\ Cardinality(Idle(s)') = Cardinality(Idle(s)) - Cardinality(GoneIdle(P, s))
    BY <1>0, ForgottenCount DEF Gone, GoneIdle
  <2> QED BY <1>0, <2>1 DEF Counted
<1>7. Messages'
  <2> SUFFICES ASSUME NEW s \in Service, NEW i \in 1..Len(chan'[s]),
                      child'[chan'[s][i].pid].gen = chan'[s][i].gen
               PROVE  child'[chan'[s][i].pid].serv = s
    BY DEF Messages
  <2>1. chan'[s] = chan[s]
    BY <1>2
  <2>2. chan[s][i].pid \in Pid /\ chan[s][i].gen \in Nat \ {0}
    BY <1>0, <2>1, ChanFields
  <2>3. chan[s][i].pid \notin P
    BY <2>1, <2>2, NoChildFields
  <2>4. child[chan[s][i].pid].gen = chan[s][i].gen
    BY <2>1, <2>2, <2>3
  <2>5. child[chan[s][i].pid].serv = s
    BY <1>0, <2>1, <2>4 DEF Messages
  <2> QED BY <2>1, <2>2, <2>3, <2>5
<1>8. Belief'
  <2> SUFFICES ASSUME NEW k \in Pid, Alive(k)', child'[k].conn
               PROVE  Known(chan'[child'[k].serv], k, child'[k].gen, proc'[k].avail,
                            child'[k].phase)
    BY DEF Belief
  <2>1. k \notin P
    BY NoChildFields
  <2>2. Alive(k) /\ child[k].conn /\ chan' = chan
    BY <2>1 DEF Alive
  <2>3. Known(chan[child[k].serv], k, child[k].gen, proc[k].avail, child[k].phase)
    BY <1>0, <2>2 DEF Belief
  <2> QED BY <1>1, <2>1, <2>2, <2>3
<1> QED BY <1>3, <1>4, <1>5, <1>6, <1>7, <1>8 DEF IInv

LEMMA ReapStep ==
    ASSUME IInv, master_reap_child
    PROVE  IInv'
<1>0. /\ Typed /\ Table /\ Listening /\ serv \in [Service -> SERV]
      /\ child \in [Pid -> MASTER_CHILD \cup {NoChild}]
      /\ backlog \in [Service -> Sockets] /\ \A s \in Service : Len(backlog[s]) <= Backlog
  BY DEF IInv, Typed
<1>1. Zombies \in SUBSET Pid /\ \A p \in Zombies : proc[p] # NoProc
  <2>1. \A p \in Zombies : p \in Pid /\ child[p].phase # "none"
    BY DEF Zombies, Dead
  <2> QED BY <1>0, <2>1, TableFields DEF Table
<1>2. /\ proc' = Forget(proc, Zombies, NoProc) /\ child' = Forget(child, Zombies, NoChild)
      /\ serv' = [s \in Service |-> Reaped(serv[s], s, Zombies, proc, child)]
      /\ got' \subseteq got /\ UNCHANGED <<conf, chan, backlog, batch, stuck, budget>>
  BY <1>1 DEF master_reap_child
<1>3. /\ child' \in [Pid -> MASTER_CHILD \cup {NoChild}]
      /\ \A p \in Zombies : child'[p] = NoChild
      /\ \A p \in Pid \ Zombies : child'[p] = child[p]
  BY <1>0, <1>1, <1>2 DEF Forget
<1>4. ASSUME NEW s \in Service
      PROVE  /\ serv'[s] \in SERV /\ Policy(s, serv'[s]) /\ (serv[s].on => serv'[s].on)
             /\ serv'[s].total_proc = serv[s].total_proc - Cardinality(Gone(Zombies, s))
             /\ serv'[s].avail_proc = serv[s].avail_proc - Cardinality(GoneIdle(Zombies, s))
  <2> DEFINE bad == \E p \in Gone(Zombies, s) : child[p].phase = "fail" /\ proc[p].use_count = 0
  <2>1. serv'[s] = ReapedAvail(serv[s], Gone(Zombies, s), proc, bad)
    BY <1>2 DEF Reaped, Gone
  <2>2. bad \in BOOLEAN /\ Gone(Zombies, s) \in SUBSET Pid
    BY <1>1 DEF Gone
  <2> HIDE DEF bad
  <2>3. CASE serv[s].on
    <3>1. Good(s, serv[s], serv[s].total_proc, serv[s].avail_proc)
      BY <1>0, <2>3 DEF Good, Listening, SERV
    <3>2. Good(s, serv'[s], serv[s].total_proc - Cardinality(Gone(Zombies, s)),
               serv[s].avail_proc - Cardinality(GoneIdle(Zombies, s)))
      BY <2>1, <2>2, <3>1, ReapGood DEF GoneIdle
    <3> QED BY <3>2 DEF Good
  <2>4. CASE ~serv[s].on
    <3>1. Gone(Zombies, s) = {} /\ GoneIdle(Zombies, s) = {}
      BY <1>0, <1>1, <2>4 DEF Gone, GoneIdle, Table
    <3>2. serv'[s] = serv[s]
      BY <2>1, <3>1 DEF ReapedAvail
    <3> QED BY <1>0, <2>4, <3>1, <3>2, FS_EmptySet DEF Listening, SERV
  <2> QED BY <2>3, <2>4
<1>5. serv' \in [Service -> SERV]
  BY <1>2, <1>4
<1>6. \A p \in Pid \ Zombies : proc[p] # NoProc => serv'[proc[p].serv].on
  <2>1. \A p \in Pid : proc[p] # NoProc => proc[p].serv \in Service /\ serv[proc[p].serv].on
    BY <1>0, TableFields DEF Table
  <2> QED BY <1>4, <2>1
<1> QED BY <1>0, <1>1, <1>2, <1>3, <1>4, <1>5, <1>6, ForgetStep

LEMMA RefreshStep ==
    ASSUME IInv, master_refresh
    PROVE  IInv'
<1> DEFINE removed == {s \in Service : serv[s].on /\ ~conf[s].on}
           waited == master_delete_children(removed)
           disc == [p \in Pid |-> [child[p] EXCEPT !.conn = FALSE]]
<1>0. /\ Typed /\ Table /\ Counted /\ Listening /\ serv \in [Service -> SERV]
      /\ child \in [Pid -> MASTER_CHILD \cup {NoChild}]
      /\ backlog \in [Service -> Sockets] /\ (\A s \in Service : Len(backlog[s]) <= Backlog)
      /\ \A s \in Service : conf[s] \in Entry(s)
  BY DEF IInv, Typed
<1>1. waited \in SUBSET Pid /\ \A p \in Pid : proc[p].serv \in removed => p \in waited
  BY DEF master_delete_children, Zombies
<1>2. /\ proc' = Forget(proc, waited, NoProc) /\ child' = Forget(disc, waited, NoChild)
      /\ serv' = [s \in Service |->
                     IF conf[s].on
                     THEN Reaped(master_config(s, serv[s]), s, waited, proc, child)
                     ELSE Stopped]
      /\ chan' = [s \in Service |-> <<>>]
      /\ backlog' = [s \in Service |->
                        IF conf[s].on
                        THEN Woken(s, [serv[s] EXCEPT !.condwake = conf[s].condwake],
                                   backlog[s])
                        ELSE <<>>]
      /\ got' \subseteq got /\ UNCHANGED <<conf, batch, stuck, budget>>
  BY DEF master_refresh
<1> HIDE DEF waited
<1>3. /\ child' \in [Pid -> MASTER_CHILD \cup {NoChild}]
      /\ \A p \in waited : child'[p] = NoChild
      /\ \A p \in Pid \ waited : /\ child'[p].phase = child[p].phase
                                 /\ child'[p].serv = child[p].serv
                                 /\ child'[p].gen = child[p].gen
                                 /\ child'[p].conn = FALSE
  <2>1. ASSUME NEW p \in Pid
        PROVE  /\ disc[p] \in MASTER_CHILD \cup {NoChild}
               /\ disc[p].phase = child[p].phase /\ disc[p].serv = child[p].serv
               /\ disc[p].gen = child[p].gen /\ disc[p].conn = FALSE
    <3>1. CASE child[p] = NoChild
      <4>1. [NoChild EXCEPT !.conn = FALSE] = NoChild
        <5> DEFINE R == [phase : {"none"}, serv : {NoService}, gen : {0}, conn : {FALSE}, use : {0}]
        <5>1. NoChild \in R
          BY DEF NoChild
        <5>2. [NoChild EXCEPT !.conn = FALSE] \in R
          BY <5>1
        <5>3. ASSUME NEW x \in R
              PROVE  x = [phase |-> "none", serv |-> NoService, gen |-> 0, conn |-> FALSE,
                          use |-> 0]
          OBVIOUS
        <5> QED BY <5>2, <5>3 DEF NoChild
      <4>2. disc[p] = NoChild
        BY <3>1, <4>1
      <4> QED BY <3>1, <4>2, NoChildFields
    <3>2. CASE child[p] \in MASTER_CHILD
      BY <3>2 DEF MASTER_CHILD
    <3> QED BY <1>0, <3>1, <3>2
  <2> HIDE DEF disc
  <2> QED BY <1>1, <1>2, <2>1 DEF Forget
<1>4. ASSUME NEW s \in Service
      PROVE  /\ serv'[s] \in SERV /\ Policy(s, serv'[s]) /\ (conf[s].on => serv'[s].on)
             /\ serv'[s].total_proc = serv[s].total_proc - Cardinality(Gone(waited, s))
             /\ serv'[s].avail_proc = serv[s].avail_proc - Cardinality(GoneIdle(waited, s))
  <2> DEFINE bad == \E p \in Gone(waited, s) : child[p].phase = "fail" /\ proc[p].use_count = 0
  <2>1. CASE conf[s].on
    <3>1. serv'[s] = ReapedAvail(master_config(s, serv[s]), Gone(waited, s), proc, bad)
      BY <1>2, <2>1 DEF Reaped, Gone
    <3>2. bad \in BOOLEAN /\ Gone(waited, s) \in SUBSET Pid
      BY <1>1 DEF Gone
    <3> HIDE DEF bad
    <3>3. Good(s, master_config(s, serv[s]), serv[s].total_proc, serv[s].avail_proc)
      BY <1>0, <2>1, ConfigGood
    <3>4. Good(s, serv'[s], serv[s].total_proc - Cardinality(Gone(waited, s)),
               serv[s].avail_proc - Cardinality(GoneIdle(waited, s)))
      BY <3>1, <3>2, <3>3, ReapGood DEF GoneIdle
    <3> QED BY <3>4 DEF Good
  <2>2. CASE ~conf[s].on
    <3>1. serv'[s] = Stopped
      BY <1>2, <2>2
    <3>2. Stopped \in SERV /\ Policy(s, Stopped) /\ Stopped.total_proc = 0 /\ Stopped.avail_proc = 0
      BY DEF Stopped, SERV, Policy, WakesUp, MASTER_LIMIT_OK
    <3>3. Gone(waited, s) = Procs(s) /\ GoneIdle(waited, s) = Idle(s)
      <4>1. ASSUME NEW p \in Pid, proc[p].serv = s PROVE p \in waited
        <5>1. serv[s].on
          BY <1>0, <4>1, TableFields DEF Table
        <5> QED BY <1>1, <2>2, <4>1, <5>1
      <4> QED BY <1>1, <4>1 DEF Gone, GoneIdle, Procs, Idle
    <3>4. Cardinality(Procs(s)) \in Nat /\ Cardinality(Idle(s)) \in Nat
      BY CountedFinite
    <3>5. /\ serv[s].total_proc = Cardinality(Procs(s))
          /\ serv[s].avail_proc = Cardinality(Idle(s))
      BY <1>0 DEF Counted
    <3> QED BY <2>2, <3>1, <3>2, <3>3, <3>4, <3>5
  <2> QED BY <2>1, <2>2
<1>5. serv' \in [Service -> SERV]
  BY <1>2, <1>4
<1>6. \A p \in Pid \ waited : proc[p] # NoProc => serv'[proc[p].serv].on
  <2>1. \A p \in Pid : proc[p] # NoProc => proc[p].serv \in Service /\ serv[proc[p].serv].on
    BY <1>0, TableFields DEF Table
  <2> QED BY <1>1, <1>4, <2>1
<1>7. backlog' \in [Service -> Sockets] /\ \A s \in Service : Len(backlog'[s]) <= Backlog
  <2>1. ASSUME NEW s \in Service PROVE backlog'[s] \in Sockets /\ Len(backlog'[s]) <= Backlog
    <3>1. CASE conf[s].on
      BY <1>0, <1>2, <3>1, WokenQueue
    <3>2. CASE ~conf[s].on
      BY <1>2, <3>2, Constants, EmptySeq DEF Sockets
    <3> QED BY <3>1, <3>2
  <2> QED BY <1>2, <2>1
<1> QED BY <1>1, <1>2, <1>3, <1>4, <1>5, <1>6, <1>7, ForgetStep

-----------------------------------------------------------------------------
(***************************************************************************)
(* The invariant.                                                          *)
(***************************************************************************)
LEMMA InitGood ==
    ASSUME Init
    PROVE  IInv
<1>1. /\ conf \in [Service -> UNION {Entry(s) : s \in Service}]
      /\ \A s \in Service : conf[s] \in Entry(s) /\ conf[s].on
      /\ serv = [s \in Service |-> master_config(s, Stopped)]
      /\ proc = [p \in Pid |-> NoProc] /\ child = [p \in Pid |-> NoChild]
      /\ chan = [s \in Service |-> <<>>]
      /\ backlog = [s \in Service |-> IF WakesUp(s, conf[s]) THEN <<Trigger>> ELSE <<>>]
      /\ batch = {} /\ got = {} /\ stuck = "no" /\ budget = Budget
  BY DEF Init
<1>2. Stopped \in SERV /\ Stopped.total_proc = 0 /\ Stopped.avail_proc = 0
  BY DEF Stopped, SERV
<1>3. \A s \in Service : Good(s, serv[s], 0, 0)
  BY <1>1, <1>2, ConfigGood
<1>4. serv \in [Service -> SERV]
  BY <1>1, <1>3 DEF Good
<1>5. backlog \in [Service -> Sockets] /\ \A s \in Service : Len(backlog[s]) <= Backlog
  <2>1. /\ <<Trigger>> \in Sockets /\ <<>> \in Sockets
        /\ Len(<<Trigger>>) <= Backlog /\ Len(<<>>) <= Backlog
    BY Constants DEF Sockets
  <2> QED BY <1>1, <2>1
<1>6. chan \in [Service -> Seq(MASTER_STATUS)] /\ \A s \in Service : chan[s] = <<>> /\ Len(chan[s]) = 0
  BY <1>1
<1>7. Typed
  <2>1. /\ proc \in [Pid -> MASTER_PROC \cup {NoProc}]
        /\ child \in [Pid -> MASTER_CHILD \cup {NoChild}]
    BY <1>1
  <2>2. \A s \in Service : Len(chan[s]) <= PipeSize
    BY <1>6, Constants
  <2>3. budget \in 0..Budget
    BY <1>1, Constants
  <2> QED BY <1>1, <1>4, <1>5, <1>6, <2>1, <2>2, <2>3 DEF Typed
<1>8. Listening
  BY <1>3 DEF Listening, Good
<1>9. Table
  BY <1>1 DEF Table
<1>10. Counted
  <2>1. \A s \in Service : Procs(s) = {} /\ Idle(s) = {}
    BY <1>1, NoChildFields, Constants DEF Procs, Idle
  <2> QED BY <1>3, <2>1, FS_EmptySet DEF Counted, Good
<1>11. Messages
  BY <1>6 DEF Messages
<1>12. Belief
  BY <1>1, NoChildFields DEF Belief
<1> QED BY <1>7, <1>8, <1>9, <1>10, <1>11, <1>12 DEF IInv

LEMMA NextGood ==
    ASSUME IInv, [Next]_vars
    PROVE  IInv'
<1>1. CASE MasterNext
  BY <1>1, LoopStep, ReapStep, RefreshStep, AvailEventStep, StatusStep, TimerStep DEF MasterNext
<1>2. CASE \E p \in Pid : ServerNext(p)
  BY <1>2, ServerStep
<1>3. CASE \/ \E c \in Client, s \in Service : ClientConnects(c, s)
           \/ \E s \in Service : \E e \in Entry(s) : Reload(s, e)
  BY <1>3, ClientStep
<1>4. CASE UNCHANGED vars
  <2>1. UNCHANGED <<conf, serv, proc, child, chan, backlog, batch, got, stuck, budget>>
    BY <1>4 DEF vars
  <2>2. Typed'
    BY <2>1 DEF IInv, Typed
  <2> QED BY <2>1, <2>2, OtherStep DEF IInv, Table
<1> QED BY <1>1, <1>2, <1>3, <1>4 DEF Next

LEMMA Inductive == Spec => []IInv
<1>1. Init => IInv
  BY InitGood
<1>2. IInv /\ [Next]_vars => IInv'
  BY NextGood
<1> QED BY <1>1, <1>2, PTL DEF Spec

-----------------------------------------------------------------------------
(***************************************************************************)
(* Theorems.                                                               *)
(***************************************************************************)

\* Every variable of the master and of the server processes keeps its type:
\* the counters of a MASTER_SERV stay between zero and the number of
\* processes, which master_avail_less() and master_reap_child() decrement
\* without a check, and a status pipe or a backlog never overflows.
THEOREM TypeCorrect == Spec => []TypeOK
<1>1. IInv => TypeOK
  <2> SUFFICES ASSUME IInv PROVE TypeOK
    OBVIOUS
  <2>1. Typed /\ Counted
    BY DEF IInv
  <2>2. serv \in [Service -> MASTER_SERV]
    <3>1. ASSUME NEW s \in Service PROVE serv[s] \in MASTER_SERV
      <4>1. serv[s] \in SERV
        BY <2>1 DEF Typed
      <4>2. /\ serv[s].total_proc \in 0..Cardinality(Pid)
            /\ serv[s].avail_proc \in 0..Cardinality(Pid)
        <5>1. /\ serv[s].total_proc = Cardinality(Procs(s))
              /\ serv[s].avail_proc = Cardinality(Idle(s))
          BY <2>1 DEF Counted
        <5>2. Cardinality(Pid) \in Nat
          BY Constants, FS_CardinalityType
        <5> QED BY <5>1, <5>2, CountedFinite
      <4> QED BY <4>1, <4>2 DEF SERV, MASTER_SERV
    <3>2. serv \in [Service -> SERV]
      BY <2>1 DEF Typed
    <3> QED BY <3>1, <3>2
  <2> QED BY <2>1, <2>2 DEF Typed, TypeOK, Sockets
<1> QED BY <1>1, Inductive, PTL

\* The table of processes, the counters and the processes that exist agree,
\* so that none of the msg_panic() calls in master_spawn(),
\* master_status_event() and master_reap_child() is reached.
THEOREM TableExact == Spec => []TableIsExact
<1>1. IInv => TableIsExact
  <2> SUFFICES ASSUME IInv PROVE TableIsExact
    OBVIOUS
  <2>1. Typed /\ Table /\ Counted
    BY DEF IInv
  <2>2. \A p \in Pid : child[p].phase = "none" <=> child[p] = NoChild
    BY <2>1, TableFields
  <2>3. ASSUME NEW s \in Service
        PROVE  /\ serv[s].total_proc = Count(Pid, LAMBDA p : proc[p].serv = s)
               /\ serv[s].avail_proc = Count(Pid, LAMBDA p : proc[p].serv = s /\ proc[p].avail)
    BY <2>1 DEF Counted, Procs, Idle, Count
  <2> QED BY <2>1, <2>2, <2>3 DEF TableIsExact, Table
<1> QED BY <1>1, Inductive, PTL

\* While a process has its status pipe, the master knows, once the messages
\* under way have arrived, whether it is available: neither the reuse of its
\* process ID nor a message of an earlier process can change this
\* (master_status_event(), single_server_wakeup()).
THEOREM BeliefCorrect == Spec => []BeliefIsTrue
<1>1. IInv => BeliefIsTrue
  <2> SUFFICES ASSUME IInv, NEW p \in Pid, Alive(p), child[p].conn
               PROVE  LastStatus(p) <=> child[p].phase # "busy"
    BY DEF BeliefIsTrue
  <2> DEFINE q == chan[child[p].serv]
             mine == Mine(q, p, child[p].gen)
  <2>1. Known(q, p, child[p].gen, proc[p].avail, child[p].phase)
    BY DEF IInv, Belief
  <2>2. LastStatus(p) = IF mine = {} THEN proc[p].avail
                        ELSE q[CHOOSE i \in mine : \A j \in mine : j <= i].avail
    BY DEF LastStatus, Mine
  <2>3. \A i \in mine : i \in Int
    BY DEF Mine
  <2> HIDE DEF q, mine
  <2>4. CASE mine = {}
    BY <2>1, <2>2, <2>4 DEF Known, mine
  <2>5. CASE mine # {}
    <3>1. PICK i \in mine : (\A j \in mine : j <= i) /\ (q[i].avail <=> child[p].phase # "busy")
      BY <2>1, <2>5 DEF Known, mine
    <3> DEFINE k == CHOOSE n \in mine : \A j \in mine : j <= n
    <3>2. k \in mine /\ \A j \in mine : j <= k
      BY <3>1
    <3> HIDE DEF k
    <3>3. k = i
      BY <2>3, <3>1, <3>2
    <3> QED BY <2>2, <2>5, <3>1, <3>3 DEF k
  <2> QED BY <2>4, <2>5
<1> QED BY <1>1, Inductive, PTL

\* The master watches the listen socket of a service exactly when it must:
\* it takes no process for available, and it is allowed to start one
\* (master_avail_listen(), at the end of everything that changes the record
\* of a service); and wakeup timers run when they should.
THEOREM ListenersExact == Spec => []SomebodyListens
<1>1. IInv => SomebodyListens
  <2> SUFFICES ASSUME IInv, NEW s \in Service
               PROVE  /\ serv[s].on =>
                           (serv[s].listen <=>
                               /\ ~serv[s].throttle
                               /\ ~\E p \in Pid : proc[p].serv = s /\ proc[p].avail
                               /\ \/ serv[s].max_proc = 0
                                  \/ Count(Pid, LAMBDA p : proc[p].serv = s) < serv[s].max_proc)
                      /\ serv[s].timer <=> serv[s].on /\ WakesUp(s, serv[s])
    BY DEF SomebodyListens
  <2>1. Policy(s, serv[s])
    BY DEF IInv, Listening
  <2>2. /\ serv[s].total_proc = Cardinality(Procs(s)) /\ serv[s].avail_proc = Cardinality(Idle(s))
    BY DEF IInv, Counted
  <2>3. serv[s].avail_proc = 0 <=> ~\E p \in Pid : proc[p].serv = s /\ proc[p].avail
    <3>1. Idle(s) = {} <=> ~\E p \in Pid : proc[p].serv = s /\ proc[p].avail
      BY DEF Idle
    <3> QED BY <2>2, <3>1, CountedFinite
  <2>4. Count(Pid, LAMBDA p : proc[p].serv = s) = serv[s].total_proc
    BY <2>2 DEF Count, Procs
  <2> QED BY <2>1, <2>3, <2>4 DEF Policy, MASTER_LIMIT_OK
<1> QED BY <1>1, Inductive, PTL

\* Only master_spawn() gives a process to a service.
LEMMA WhoAdds ==
    ASSUME IInv, [Next]_vars
    PROVE  \/ \A p \in Pid : child'[p].serv \in {child[p].serv, NoService}
           \/ \E s \in Service : /\ serv[s].listen
                                 /\ \A p \in Pid : child'[p].serv \in {child[p].serv, s}
<1>0. /\ Typed /\ child \in [Pid -> MASTER_CHILD \cup {NoChild}]
      /\ \A p \in Pid : child[p].serv \in Service \cup {NoService}
  <2>1. Typed
    BY DEF IInv
  <2> QED BY <2>1, TableFields DEF Typed
<1> DEFINE stays == \A p \in Pid : child'[p].serv \in {child[p].serv, NoService}
<1>1. ASSUME UNCHANGED child PROVE stays
  BY <1>1
\* The processes that are left have changed in fields that are of no interest.
<1>2. ASSUME NEW P, NEW f, child' = Forget(f, P, NoChild),
             \A p \in Pid : f[p].serv = child[p].serv
      PROVE  stays
  BY <1>2, NoChildFields DEF Forget
<1>3. ASSUME NEW p \in Pid, ServerNext(p) PROVE stays
  <2>1. CASE ServerLock(p) \/ single_server_accept(p)
    <3>1. \E c : child' = [child EXCEPT ![p] = c] /\ c.serv = child[p].serv
      <4>1. child[p] # NoChild
        BY <2>1, NoChildFields DEF ServerLock, single_server_accept
      <4>2. child[p] \in MASTER_CHILD
        BY <1>0, <4>1
      <4>3. \A phase : [child[p] EXCEPT !.phase = phase].serv = child[p].serv
        BY <4>2 DEF MASTER_CHILD
      <4> QED BY <1>0, <2>1, <4>3 DEF ServerLock, single_server_accept
    <3> QED BY <1>0, <3>1
  <2>2. ASSUME NEW how, child' = Exits(p, how) PROVE stays
    <3>1. [NoChild EXCEPT !.phase = how, !.serv = child[p].serv, !.gen = child[p].gen].serv
             = child[p].serv
      BY DEF NoChild
    <3> QED BY <1>0, <2>2, <3>1 DEF Exits
  <2>3. CASE single_server_done(p)
    <3>1. CASE child' = Exits(p, "exit")
      BY <2>2, <3>1
    <3>2. CASE child' = [child EXCEPT ![p].phase = "wait", ![p].use = @ + 1]
      <4>1. child[p] # NoChild
        BY <2>3, NoChildFields DEF single_server_done
      <4>2. child[p] \in MASTER_CHILD
        BY <1>0, <4>1
      <4>3. child'[p].serv = child[p].serv /\ \A k \in Pid \ {p} : child'[k] = child[k]
        BY <1>0, <3>2, <4>2 DEF MASTER_CHILD
      <4> QED BY <4>3
    <3> QED BY <2>3, <3>1, <3>2 DEF single_server_done
  <2>4. CASE single_server_exit(p)
    BY <2>2, <2>4 DEF single_server_exit
  <2>5. CASE ServerFails(p)
    BY <2>2, <2>5 DEF ServerFails
  <2> QED BY <1>3, <2>1, <2>3, <2>4, <2>5
          DEF ServerNext, single_server_timeout, single_server_abort
<1>4. ASSUME NEW s \in Service, master_avail_event(s)
      PROVE  \/ stays
             \/ serv[s].listen /\ \A p \in Pid : child'[p].serv \in {child[p].serv, s}
  <2>1. CASE ~serv[s].listen
    BY <1>1, <1>4, <2>1 DEF master_avail_event
  <2>2. CASE serv[s].listen
    <3>1. \E v, ch, q : /\ master_spawn(s, v, ch, q)
                        /\ ch = child \/ ch = master_status_cleanup(s)
      BY <1>4, <2>2 DEF master_avail_event
    <3>2. PICK v, ch, q : /\ master_spawn(s, v, ch, q)
                          /\ ch = child \/ ch = master_status_cleanup(s)
      BY <3>1
    <3>3. DOMAIN ch = Pid /\ \A p \in Pid : ch[p].serv = child[p].serv
      <4>1. ASSUME NEW p \in Pid, child[p].serv = s
            PROVE  [child[p] EXCEPT !.conn = FALSE].serv = child[p].serv
        <5>1. child[p] \in MASTER_CHILD
          BY <1>0, <4>1, TableFields
        <5> QED BY <5>1 DEF MASTER_CHILD
      <4> QED BY <1>0, <3>2, <4>1 DEF master_status_cleanup
    <3>4. \/ child' = ch
          \/ \E p \in Pid : \E c : child' = [ch EXCEPT ![p] = c] /\ c.serv = s
      <4>1. ASSUME NEW p \in Pid,
                   child' = [ch EXCEPT ![p] = [phase |-> "wait", serv |-> s,
                                gen |-> master_generation(p), conn |-> TRUE, use |-> 0]]
            PROVE  \E c : child' = [ch EXCEPT ![p] = c] /\ c.serv = s
        <5> DEFINE c == [phase |-> "wait", serv |-> s, gen |-> master_generation(p),
                         conn |-> TRUE, use |-> 0]
        <5>1. child' = [ch EXCEPT ![p] = c] /\ c.serv = s
          BY <4>1
        <5> QED BY <5>1
      <4> QED BY <3>2, <4>1 DEF master_spawn
    <3> QED BY <2>2, <3>3, <3>4
  <2> QED BY <2>1, <2>2
<1>5. ASSUME master_reap_child PROVE stays
  BY <1>2, <1>5 DEF master_reap_child
<1>6. ASSUME master_refresh PROVE stays
  <2>1. ASSUME NEW p \in Pid PROVE [child[p] EXCEPT !.conn = FALSE].serv = child[p].serv
    <3>1. CASE child[p] = NoChild
      <4>1. [NoChild EXCEPT !.conn = FALSE].serv = NoChild.serv
        BY DEF NoChild
      <4> QED BY <3>1, <4>1
    <3>2. CASE child[p] \in MASTER_CHILD
      BY <3>2 DEF MASTER_CHILD
    <3> QED BY <1>0, <3>1, <3>2
  <2> DEFINE disc == [p \in Pid |-> [child[p] EXCEPT !.conn = FALSE]]
  <2>2. \A p \in Pid : disc[p].serv = child[p].serv
    BY <2>1
  <2>3. child' = Forget(disc, master_delete_children({s \in Service : serv[s].on /\ ~conf[s].on}),
                        NoChild)
    BY <1>6 DEF master_refresh
  <2> HIDE DEF disc
  <2> QED BY <1>2, <2>2, <2>3
<1>7. ASSUME \/ event_loop
             \/ \E s \in Service : \/ master_status_event(s) \/ master_status_unblock(s)
                                   \/ master_unthrottle_wrapper(s)
                                   \/ master_wakeup_timer_event(s) \/ StressExpires(s)
             \/ \E c \in Client, s \in Service : ClientConnects(c, s)
             \/ \E s \in Service : \E e \in Entry(s) : Reload(s, e)
             \/ UNCHANGED vars
      PROVE  stays
  <2>1. UNCHANGED child
    BY <1>7 DEF event_loop, master_status_event, master_status_unblock, StressExpires,
                master_unthrottle_wrapper, master_wakeup_timer_event, ClientConnects, Reload, vars
  <2> QED BY <1>1, <2>1
<1> HIDE DEF stays
<1> QED BY <1>3, <1>4, <1>5, <1>6, <1>7 DEF Next, MasterNext, stays

\* The number of processes of a service that the operating system has, those
\* that exited and were not waited for included, grows only while it is below
\* the limit of the service (master_spawn()).
THEOREM LimitKept == Spec => WithinLimit
<1>1. IInv /\ [Next]_vars =>
         [\A s \in Service :
             LET n == Count(Pid, LAMBDA p : child[p].serv = s)
                 m == Count(Pid, LAMBDA p : (child[p].serv)' = s)
             IN m > n => serv[s].max_proc = 0 \/ n < serv[s].max_proc]_vars
  <2> SUFFICES ASSUME IInv, [Next]_vars, NEW s \in Service,
                      Count(Pid, LAMBDA p : (child[p].serv)' = s)
                         > Count(Pid, LAMBDA p : child[p].serv = s)
               PROVE  \/ serv[s].max_proc = 0
                      \/ Count(Pid, LAMBDA p : child[p].serv = s) < serv[s].max_proc
    OBVIOUS
  <2> DEFINE before == {p \in Pid : child[p].serv = s}
             after == {p \in Pid : child'[p].serv = s}
  <2>1. /\ Count(Pid, LAMBDA p : child[p].serv = s) = Cardinality(before)
        /\ Count(Pid, LAMBDA p : (child[p].serv)' = s) = Cardinality(after)
    BY DEF Count
  <2>2. ~(after \subseteq before)
    <3> SUFFICES ASSUME after \subseteq before PROVE FALSE
      OBVIOUS
    <3>1. IsFiniteSet(before)
      BY Constants, FS_Subset
    <3>2. Cardinality(after) <= Cardinality(before) /\ Cardinality(before) \in Nat
          /\ Cardinality(after) \in Nat
      <4>1. IsFiniteSet(after)
        BY Constants, FS_Subset
      <4> HIDE DEF before, after
      <4> QED BY <3>1, <4>1, FS_Subset, FS_CardinalityType
    <3> HIDE DEF before, after
    <3> QED BY <2>1, <3>2
  <2>3. serv[s].listen
    <3>1. PICK p \in Pid : child'[p].serv = s /\ child[p].serv # s
      BY <2>2
    <3> QED BY <3>1, WhoAdds, Constants
  <2>4. before = Procs(s)
    <3>1. ASSUME NEW p \in Pid PROVE proc[p].serv = child[p].serv
      BY NoChildFields DEF IInv, Table
    <3> QED BY <3>1 DEF Procs
  <2>5. MASTER_LIMIT_OK(serv[s].max_proc, Cardinality(before))
    BY <2>3, <2>4 DEF IInv, Counted, Listening, Policy
  <2> HIDE DEF before, after
  <2> QED BY <2>1, <2>5 DEF MASTER_LIMIT_OK
<1> QED BY <1>1, Inductive, PTL DEF Spec, WithinLimit
=============================================================================
