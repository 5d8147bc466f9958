-------------------------- MODULE QmgrActiveProofs --------------------------
(***************************************************************************)
(* Proofs about QmgrActive, for any number of recipients, delivery agents, *)
(* bounce daemons, and sets of faults.                                     *)
(***************************************************************************)
EXTENDS QmgrActive, TLAPS

-----------------------------------------------------------------------------
(***************************************************************************)
(* What reading a batch and assigning it does, field by field.             *)
(***************************************************************************)
Batch == [list : SUBSET Rcpt, offset : 0..(N + 1)]

\* What a batch is that was read from record "first" on.
ReadFrom(first, read) ==
    /\ read.list \cap file.done = {}
    /\ \A r \in read.list : first <= r
    /\ read.offset = 0 => read.list = (first..N) \ file.done
    /\ read.offset # 0 => /\ read.list = (first..(read.offset - 1)) \ file.done
                          /\ read.offset - 1 \in read.list
                          /\ "batch" \in faults

LEMMA ReadBatch ==
    ASSUME TypeOK, NEW first \in 1..(N + 1), NEW read \in qmgr_message_read(first)
    PROVE  read \in Batch /\ ReadFrom(first, read)
<1> USE DEF ReadFrom
<1>1. CASE read = [list |-> (first..N) \ file.done, offset |-> 0]
  BY <1>1, RcptAssumption DEF Batch, Rcpt
<1>2. ASSUME "batch" \in faults, NEW last \in (first..N) \ file.done,
             read = [list |-> (first..last) \ file.done, offset |-> last + 1]
      PROVE  read \in Batch /\ read.list = (first..last) \ file.done /\ read.offset = last + 1
  BY <1>2, RcptAssumption DEF Batch, Rcpt
<1>3. CASE \E last \in (first..N) \ file.done :
              "batch" \in faults /\ read = [list |-> (first..last) \ file.done, offset |-> last + 1]
  BY <1>2, <1>3, RcptAssumption DEF Rcpt
<1> QED
  BY <1>1, <1>3 DEF qmgr_message_read

\* The choices that Assign makes, and the fields of the new state.
Assigned(m, read, kept, deferred, discarded, lost) ==
    /\ deferred \in SUBSET read.list /\ discarded \in SUBSET (read.list \ deferred)
    /\ lost \in SUBSET deferred
    /\ m.force => discarded = {}
    /\ "agent" \notin faults => lost = {}
    /\ msg' \in QMGR_MESSAGE /\ file' \in QueueFile
    /\ log' \in [bounce : SUBSET Rcpt, defer : SUBSET Rcpt]
    /\ msg'.todo = m.todo \cup (read.list \ (deferred \cup discarded))
    /\ msg'.stage = IF Outstanding(msg', agent) THEN "deliver" ELSE "done"
    /\ msg'.flags <=> (m.flags \/ deferred # {})
    /\ msg'.force = m.force /\ msg'.rcpt_offset = read.offset
    /\ msg'.rcpt_list = m.rcpt_list /\ msg'.panic = m.panic
    /\ log'.bounce = log.bounce /\ log'.defer = kept \cup (deferred \ lost)
    /\ file'.dir = "active" /\ file'.done = file.done \cup discarded
    /\ file'.bad = file.bad /\ file'.expire = file.expire
    /\ delivered' = delivered \cup discarded
    /\ UNCHANGED <<agent, daemon, notified>>

LEMMA AssignFields ==
    ASSUME TypeOK, NEW m \in QMGR_MESSAGE, NEW read \in Batch, NEW kept \in SUBSET Rcpt,
           Assign(m, read, kept)
    PROVE  \E deferred, discarded, lost \in SUBSET Rcpt :
               Assigned(m, read, kept, deferred, discarded, lost)
<1>1. PICK deferred \in SUBSET read.list, discarded \in SUBSET read.list :
        /\ discarded \in SUBSET (read.list \ deferred)
        /\ m.force => discarded = {}
        /\ msg' = Settle([m EXCEPT !.rcpt_offset = read.offset,
                                   !.flags = @ \/ deferred # {},
                                   !.todo = @ \cup (read.list \ (deferred \cup discarded))],
                         agent)
        /\ \E lost \in SUBSET deferred :
             /\ "agent" \notin faults => lost = {}
             /\ log' = [log EXCEPT !.defer = kept \cup (deferred \ lost)]
        /\ file' = [file EXCEPT !.dir = "active", !.done = @ \cup discarded]
        /\ delivered' = delivered \cup discarded
        /\ UNCHANGED <<agent, daemon, notified>>
  BY DEF Assign
<1>2. PICK lost \in SUBSET deferred :
        /\ "agent" \notin faults => lost = {}
        /\ log' = [log EXCEPT !.defer = kept \cup (deferred \ lost)]
  BY <1>1
<1>3. deferred \in SUBSET Rcpt /\ discarded \in SUBSET Rcpt /\ lost \in SUBSET Rcpt
  BY DEF Batch
<1> DEFINE todo == m.todo \cup (read.list \ (deferred \cup discarded))
           n == [m EXCEPT !.rcpt_offset = read.offset,
                          !.flags = @ \/ deferred # {}, !.todo = todo]
<1>4. /\ n \in QMGR_MESSAGE
      /\ n.todo = todo /\ (n.flags <=> (m.flags \/ deferred # {}))
      /\ n.force = m.force /\ n.rcpt_offset = read.offset
      /\ n.rcpt_list = m.rcpt_list /\ n.panic = m.panic
  BY DEF QMGR_MESSAGE, Batch
<1>5. msg' = [n EXCEPT !.stage = IF Outstanding(n, agent) THEN "deliver" ELSE "done"]
  BY <1>1 DEF Settle
<1>6. /\ msg' \in QMGR_MESSAGE
      /\ msg'.todo = n.todo /\ msg'.flags = n.flags
      /\ msg'.force = n.force /\ msg'.rcpt_offset = n.rcpt_offset
      /\ msg'.rcpt_list = n.rcpt_list /\ msg'.panic = n.panic
      /\ msg'.stage = IF Outstanding(n, agent) THEN "deliver" ELSE "done"
  <2> HIDE DEF n
  <2> QED BY <1>4, <1>5 DEF QMGR_MESSAGE, Stage
<1>7. Outstanding(msg', agent) <=> Outstanding(n, agent)
  BY <1>6 DEF Outstanding
<1>8. /\ log' \in [bounce : SUBSET Rcpt, defer : SUBSET Rcpt]
      /\ log'.bounce = log.bounce /\ log'.defer = kept \cup (deferred \ lost)
  BY <1>2, <1>3 DEF TypeOK
<1>9. /\ file' \in QueueFile
      /\ file'.dir = "active" /\ file'.done = file.done \cup discarded
      /\ file'.bad = file.bad /\ file'.expire = file.expire
  BY <1>1, <1>3 DEF TypeOK, QueueFile, Dir
<1>10. Assigned(m, read, kept, deferred, discarded, lost)
  <2> HIDE DEF n
  <2> QED BY <1>1, <1>2, <1>4, <1>6, <1>7, <1>8, <1>9 DEF Assigned
<1> QED
  BY <1>3, <1>10

-----------------------------------------------------------------------------
(***************************************************************************)
(* Types.                                                                  *)
(***************************************************************************)
LEMMA NoMessageFields ==
    /\ NoMessage \in QMGR_MESSAGE
    /\ NoMessage.stage = "none" /\ NoMessage.flags = FALSE /\ NoMessage.force = FALSE
    /\ NoMessage.rcpt_offset = 0 /\ NoMessage.rcpt_list = {} /\ NoMessage.todo = {}
    /\ NoMessage.panic = FALSE
<1>1. 0 \in 0..(N + 1)
  BY RcptAssumption
<1> QED
  BY <1>1 DEF NoMessage, QMGR_MESSAGE, Stage

LEMMA NoMessageType ==
    /\ NoMessage \in QMGR_MESSAGE
    /\ \A b \in BOOLEAN : [NoMessage EXCEPT !.force = b] \in QMGR_MESSAGE
    /\ [NoMessage EXCEPT !.stage = "down"] \in QMGR_MESSAGE
BY NoMessageFields DEF QMGR_MESSAGE, Stage

LEMMA IdleType ==
    IdleAgent \in DELIVER_REQUEST /\ IdleDaemon \in BOUNCE_INFO
BY RcptAssumption DEF IdleAgent, DELIVER_REQUEST, IdleDaemon, BOUNCE_INFO, Rcpt

LEMMA InitType == Init => TypeOK
BY NoMessageType, IdleType, RcptAssumption
DEF Init, TypeOK, QueueFile, Dir

LEMMA RealBatch ==
    ASSUME TypeOK, qmgr_message_realloc, msg.rcpt_offset # 0
    PROVE  \/ /\ msg.rcpt_list # {}
              /\ msg' = [msg EXCEPT !.panic = TRUE]
              /\ UNCHANGED <<file, log, agent, daemon, delivered, notified>>
           \/ /\ msg.rcpt_list = {}
              /\ msg.rcpt_offset \in 1..(N + 1)
              /\ \E read \in Batch, deferred, discarded, lost \in SUBSET Rcpt :
                    /\ ReadFrom(msg.rcpt_offset, read)
                    /\ Assigned(msg, read, log.defer, deferred, discarded, lost)
<1>1. msg \in QMGR_MESSAGE /\ log.defer \in SUBSET Rcpt /\ msg.rcpt_offset \in 1..(N + 1)
  BY RcptAssumption DEF TypeOK, QMGR_MESSAGE
<1>2. ASSUME NEW read \in qmgr_message_read(msg.rcpt_offset), Assign(msg, read, log.defer)
      PROVE  /\ read \in Batch /\ ReadFrom(msg.rcpt_offset, read)
             /\ \E deferred, discarded, lost \in SUBSET Rcpt :
                   Assigned(msg, read, log.defer, deferred, discarded, lost)
  <2>1. read \in Batch /\ ReadFrom(msg.rcpt_offset, read)
    BY <1>1, ReadBatch
  <2> QED BY <1>1, <1>2, <2>1, AssignFields
<1> QED
  BY <1>1, <1>2 DEF qmgr_message_realloc

\* The message after the last reference to it is gone, or not.
Settled(m, flags, todo, A) ==
    /\ msg' \in QMGR_MESSAGE
    /\ msg'.stage = IF Outstanding(msg', A) THEN "deliver" ELSE "done"
    /\ msg'.todo = todo /\ (msg'.flags <=> flags)
    /\ msg'.force = m.force /\ msg'.rcpt_offset = m.rcpt_offset
    /\ msg'.rcpt_list = m.rcpt_list /\ msg'.panic = m.panic

LEMMA SettleFields ==
    ASSUME TypeOK, NEW flags \in BOOLEAN, NEW todo \in SUBSET Rcpt, NEW A,
           msg' = Settle([msg EXCEPT !.flags = flags, !.todo = todo], A)
    PROVE  Settled(msg, flags, todo, A)
<1> DEFINE n == [msg EXCEPT !.flags = flags, !.todo = todo]
<1>1. /\ n \in QMGR_MESSAGE
      /\ n.todo = todo /\ n.flags = flags /\ n.force = msg.force
      /\ n.rcpt_offset = msg.rcpt_offset /\ n.rcpt_list = msg.rcpt_list /\ n.panic = msg.panic
  BY DEF TypeOK, QMGR_MESSAGE
<1>2. msg' = [n EXCEPT !.stage = IF Outstanding(n, A) THEN "deliver" ELSE "done"]
  BY DEF Settle
<1> HIDE DEF n
<1>3. /\ msg' \in QMGR_MESSAGE
      /\ msg'.stage = IF Outstanding(n, A) THEN "deliver" ELSE "done"
      /\ msg'.todo = n.todo /\ msg'.flags = n.flags /\ msg'.force = n.force
      /\ msg'.rcpt_offset = n.rcpt_offset /\ msg'.rcpt_list = n.rcpt_list
      /\ msg'.panic = n.panic
  BY <1>1, <1>2 DEF QMGR_MESSAGE, Stage
<1>4. Outstanding(msg', A) <=> Outstanding(n, A)
  BY <1>3 DEF Outstanding
<1> QED
  BY <1>1, <1>3, <1>4 DEF Settled

\* Only the stage of the message changes, and perhaps its flags.
Staged(stage, flags) ==
    /\ msg' \in QMGR_MESSAGE
    /\ msg'.stage = stage /\ (msg'.flags <=> flags)
    /\ msg'.force = msg.force /\ msg'.rcpt_offset = msg.rcpt_offset
    /\ msg'.rcpt_list = msg.rcpt_list /\ msg'.todo = msg.todo /\ msg'.panic = msg.panic

LEMMA StageFields ==
    ASSUME TypeOK, NEW stage \in Stage, NEW flags \in BOOLEAN
    PROVE  /\ msg' = [msg EXCEPT !.stage = stage] => Staged(stage, msg.flags)
           /\ msg' = [msg EXCEPT !.flags = flags, !.stage = stage] => Staged(stage, flags)
           /\ msg' = [msg EXCEPT !.flags = @ \/ flags, !.stage = stage]
                 => Staged(stage, msg.flags \/ flags)
<1>1. msg.flags \in BOOLEAN
  BY DEF TypeOK, QMGR_MESSAGE
<1>2. ASSUME NEW f \in BOOLEAN, msg' = [msg EXCEPT !.flags = f, !.stage = stage]
      PROVE  Staged(stage, f)
  BY <1>2 DEF TypeOK, QMGR_MESSAGE, Staged
<1>3. msg' = [msg EXCEPT !.stage = stage] => Staged(stage, msg.flags)
  BY DEF TypeOK, QMGR_MESSAGE, Staged
<1>4. (msg.flags \/ flags) \in BOOLEAN
  OBVIOUS
<1>5. msg' = [msg EXCEPT !.flags = @ \/ flags, !.stage = stage]
         => Staged(stage, msg.flags \/ flags)
  BY <1>2, <1>4
<1> QED
  BY <1>2, <1>3, <1>5

\* An agent, or a daemon, takes a step of its own.
Moved(a, phase) ==
    /\ agent' \in [Agent -> DELIVER_REQUEST]
    /\ agent'[a].phase = phase /\ agent'[a].rcpt = agent[a].rcpt
    /\ agent'[a].own = agent[a].own /\ agent'[a].retry = agent[a].retry
    /\ \A b \in Agent \ {a} : agent'[b] = agent[b]

LEMMA MoveFields ==
    ASSUME TypeOK, NEW a \in Agent,
           NEW phase \in {"open", "delivered", "bounced", "ok", "failed"},
           agent' = [agent EXCEPT ![a].phase = phase]
    PROVE  Moved(a, phase)
BY DEF TypeOK, DELIVER_REQUEST, Moved

LEMMA DeferTodoCases ==
    ASSUME TypeOK, NEW r \in Rcpt, qmgr_defer_todo(r)
    PROVE  /\ r \in msg.todo /\ Settled(msg, TRUE, msg.todo \ {r}, agent)
           /\ log' \in [bounce : SUBSET Rcpt, defer : SUBSET Rcpt]
           /\ log'.bounce = log.bounce
           /\ \/ log'.defer = log.defer \cup {r}
              \/ "agent" \in faults /\ log'.defer = log.defer
           /\ UNCHANGED <<file, agent, daemon, delivered, notified>>
<1>1. msg.todo \ {r} \in SUBSET Rcpt
  BY DEF TypeOK, QMGR_MESSAGE
<1>2. msg' = Settle([msg EXCEPT !.flags = TRUE, !.todo = msg.todo \ {r}], agent)
  <2>1. [msg EXCEPT !.todo = @ \ {r}, !.flags = TRUE]
           = [msg EXCEPT !.flags = TRUE, !.todo = msg.todo \ {r}]
    BY DEF TypeOK, QMGR_MESSAGE
  <2> QED BY <2>1 DEF qmgr_defer_todo
<1>3. Settled(msg, TRUE, msg.todo \ {r}, agent)
  BY <1>1, <1>2, SettleFields
<1> QED
  BY <1>3 DEF qmgr_defer_todo, TypeOK

LEMMA SendCases ==
    ASSUME TypeOK, NEW a \in Agent, NEW r \in Rcpt, qmgr_deliver_send_request(a, r)
    PROVE  /\ r \in msg.todo /\ agent[a].phase = "idle"
           /\ msg' \in QMGR_MESSAGE /\ msg'.todo = msg.todo \ {r}
           /\ msg'.stage = msg.stage /\ msg'.flags = msg.flags /\ msg'.force = msg.force
           /\ msg'.rcpt_offset = msg.rcpt_offset /\ msg'.rcpt_list = msg.rcpt_list
           /\ msg'.panic = msg.panic
           /\ agent' \in [Agent -> DELIVER_REQUEST]
           /\ agent'[a].phase = "sent" /\ agent'[a].rcpt = r
           /\ agent'[a].own = TRUE /\ agent'[a].retry = msg.force
           /\ \A b \in Agent \ {a} : agent'[b] = agent[b]
           /\ UNCHANGED <<file, log, daemon, delivered, notified>>
<1>1. msg.force \in BOOLEAN
  BY DEF TypeOK, QMGR_MESSAGE
<1> DEFINE request == [phase |-> "sent", rcpt |-> r, own |-> TRUE, retry |-> msg.force]
<1>2. /\ request \in DELIVER_REQUEST /\ request.phase = "sent" /\ request.rcpt = r
      /\ request.own = TRUE /\ request.retry = msg.force
  BY <1>1 DEF DELIVER_REQUEST
<1>3. agent' = [agent EXCEPT ![a] = request]
  BY DEF qmgr_deliver_send_request
<1> HIDE DEF request
<1>4. agent' \in [Agent -> DELIVER_REQUEST] /\ agent'[a] = request
      /\ \A b \in Agent \ {a} : agent'[b] = agent[b]
  BY <1>2, <1>3 DEF TypeOK
<1> QED
  BY <1>2, <1>4 DEF qmgr_deliver_send_request, TypeOK, QMGR_MESSAGE

\* The queue manager hears about an agent: it is idle again.
Gone(a, failed) ==
    /\ agent' \in [Agent -> DELIVER_REQUEST]
    /\ agent'[a].phase = "idle" /\ agent'[a].own = FALSE /\ agent'[a].retry = FALSE
    /\ \A b \in Agent \ {a} : agent'[b] = agent[b]
    /\ agent[a].own => Settled(msg, msg.flags \/ failed, msg.todo, agent')
    /\ ~agent[a].own => msg' = msg
    /\ UNCHANGED <<file, log, daemon, delivered, notified>>

LEMMA GoneFields ==
    ASSUME TypeOK, NEW a \in Agent, NEW failed \in BOOLEAN, AgentGone(a, failed)
    PROVE  Gone(a, failed)
<1>1. /\ IdleAgent \in DELIVER_REQUEST
      /\ IdleAgent.phase = "idle" /\ IdleAgent.own = FALSE /\ IdleAgent.retry = FALSE
  BY IdleType DEF IdleAgent
<1>2. /\ agent' = [agent EXCEPT ![a] = IdleAgent]
      /\ agent' \in [Agent -> DELIVER_REQUEST] /\ agent'[a] = IdleAgent
      /\ \A b \in Agent \ {a} : agent'[b] = agent[b]
  BY <1>1 DEF AgentGone, TypeOK
<1>3. ASSUME agent[a].own PROVE Settled(msg, msg.flags \/ failed, msg.todo, agent')
  <2>1. (msg.flags \/ failed) \in BOOLEAN /\ msg.todo \in SUBSET Rcpt
    BY DEF TypeOK, QMGR_MESSAGE
  <2>2. [msg EXCEPT !.flags = @ \/ failed]
           = [msg EXCEPT !.flags = msg.flags \/ failed, !.todo = msg.todo]
    BY DEF TypeOK, QMGR_MESSAGE
  <2>3. msg' = Settle([msg EXCEPT !.flags = msg.flags \/ failed, !.todo = msg.todo], agent')
    BY <1>2, <1>3, <2>2 DEF AgentGone
  <2> QED BY <2>1, <2>3, SettleFields
<1> QED
  BY <1>1, <1>2, <1>3 DEF AgentGone, Gone

LEMMA AgentCases ==
    ASSUME TypeOK, NEW a \in Agent, AgentStep(a)
    PROVE  \/ /\ agent[a].phase = "sent"
              /\ Moved(a, IF file.dir = "active" THEN "open" ELSE "failed")
              /\ UNCHANGED <<file, log, msg, daemon, delivered, notified>>
           \/ /\ agent[a].phase = "open" /\ Moved(a, "delivered")
              /\ delivered' = delivered \cup {agent[a].rcpt}
              /\ UNCHANGED <<file, log, msg, daemon, notified>>
           \/ /\ agent[a].phase = "open" /\ Moved(a, "bounced") /\ ~agent[a].retry
              /\ log' \in [bounce : SUBSET Rcpt, defer : SUBSET Rcpt]
              /\ log'.bounce = log.bounce \cup {agent[a].rcpt} /\ log'.defer = log.defer
              /\ UNCHANGED <<file, msg, daemon, delivered, notified>>
           \/ /\ agent[a].phase = "open" /\ Moved(a, "failed")
              /\ log' \in [bounce : SUBSET Rcpt, defer : SUBSET Rcpt]
              /\ log'.bounce = log.bounce
              /\ \/ log'.defer = log.defer \cup {agent[a].rcpt}
                 \/ "agent" \in faults /\ log'.defer = log.defer
              /\ UNCHANGED <<file, msg, daemon, delivered, notified>>
           \/ /\ "corrupt" \in faults /\ ~agent[a].retry
              /\ agent[a].phase = "open" /\ Moved(a, "failed")
              /\ file' \in QueueFile /\ file'.bad = TRUE /\ file'.expire = FALSE
              /\ file'.dir = file.dir /\ file'.done = file.done
              /\ UNCHANGED <<log, msg, daemon, delivered, notified>>
           \/ /\ agent[a].phase \in {"delivered", "bounced"} /\ Moved(a, "ok")
              /\ file' \in QueueFile /\ file'.done = file.done \cup {agent[a].rcpt}
              /\ file'.dir = file.dir /\ file'.bad = file.bad /\ file'.expire = file.expire
              /\ UNCHANGED <<log, msg, daemon, delivered, notified>>
           \/ agent[a].phase \in {"ok", "failed"} /\ Gone(a, agent[a].phase = "failed")
           \/ "agent" \in faults /\ agent[a].phase # "idle" /\ Gone(a, TRUE)
<1>0. agent[a] \in DELIVER_REQUEST /\ agent[a].rcpt \in Rcpt
  BY DEF TypeOK, DELIVER_REQUEST
<1>1. CASE deliver_request_get(a)
  <2>1. (IF file.dir = "active" THEN "open" ELSE "failed") \in {"open", "failed"}
    OBVIOUS
  <2>2. Moved(a, IF file.dir = "active" THEN "open" ELSE "failed")
    BY <1>1, <2>1, MoveFields DEF deliver_request_get
  <2> QED BY <1>1, <2>2 DEF deliver_request_get
<1>2. CASE sent(a)
  BY <1>2, MoveFields DEF sent
<1>3. CASE bounce_append(a)
  <2>1. Moved(a, "bounced")
    BY <1>3, MoveFields DEF bounce_append
  <2> QED BY <1>0, <1>3, <2>1 DEF bounce_append, TypeOK
<1>4. CASE defer_append(a)
  <2>1. Moved(a, "failed")
    BY <1>4, MoveFields DEF defer_append
  <2>2. /\ log' \in [bounce : SUBSET Rcpt, defer : SUBSET Rcpt]
        /\ log'.bounce = log.bounce
        /\ \/ log'.defer = log.defer \cup {agent[a].rcpt}
           \/ "agent" \in faults /\ log'.defer = log.defer
    <3>1. [log EXCEPT !.defer = @ \cup {agent[a].rcpt}]
             \in [bounce : SUBSET Rcpt, defer : SUBSET Rcpt]
      BY <1>0 DEF TypeOK
    <3> QED BY <1>0, <1>4, <3>1 DEF defer_append, TypeOK
  <2> QED BY <1>4, <2>1, <2>2 DEF defer_append
<1>5. CASE mark_corrupt(a)
  <2>1. Moved(a, "failed")
    BY <1>5, MoveFields DEF mark_corrupt
  <2> QED BY <1>5, <2>1 DEF mark_corrupt, TypeOK, QueueFile
<1>6. CASE deliver_completed(a)
  <2>1. Moved(a, "ok")
    BY <1>6, MoveFields DEF deliver_completed
  <2> QED BY <1>0, <1>6, <2>1 DEF deliver_completed, TypeOK, QueueFile
<1>7. CASE qmgr_deliver_update(a)
  BY <1>7, GoneFields DEF qmgr_deliver_update
<1>8. CASE AgentDies(a)
  BY <1>8, GoneFields DEF AgentDies
<1> QED
  BY <1>1, <1>2, <1>3, <1>4, <1>5, <1>6, <1>7, <1>8 DEF AgentStep

LEMMA FlushedFields ==
    ASSUME TypeOK, NEW failed \in BOOLEAN
    PROVE  /\ msg' = Flushed("bounce", failed) => Staged("done_2", msg.flags \/ failed)
           /\ msg' = Flushed("defer", failed) => Staged("done_3", failed)
BY StageFields DEF Flushed, qmgr_active_done_2_bounce_flush,
                   qmgr_active_done_3_defer_flush, Stage

\* The queue manager hears about a notification: the daemon's reply is the
\* status of what it was asked for.
Replied(d, failed) ==
    /\ daemon[d].own /\ daemon[d].service = "bounce" => Staged("done_2", msg.flags \/ failed)
    /\ daemon[d].own /\ daemon[d].service = "defer" => Staged("done_3", failed)
    /\ ~daemon[d].own => msg' = msg

\* The daemon is idle again.
Idle(d) ==
    /\ daemon' \in [Daemon -> BOUNCE_INFO]
    /\ daemon'[d].phase = "idle" /\ daemon'[d].own = FALSE
    /\ \A e \in Daemon \ {d} : daemon'[e] = daemon[e]

\* The daemon goes on with its work.
Working(d, phase, lock, own, rcpts) ==
    /\ daemon' \in [Daemon -> BOUNCE_INFO]
    /\ daemon'[d].phase = phase /\ daemon'[d].service = daemon[d].service
    /\ (daemon'[d].lock <=> lock) /\ (daemon'[d].own <=> own) /\ daemon'[d].rcpts = rcpts
    /\ \A e \in Daemon \ {d} : daemon'[e] = daemon[e]

LEMMA IdleFields ==
    ASSUME TypeOK, NEW d \in Daemon, daemon' = [daemon EXCEPT ![d] = IdleDaemon]
    PROVE  Idle(d)
<1>1. IdleDaemon \in BOUNCE_INFO /\ IdleDaemon.phase = "idle" /\ IdleDaemon.own = FALSE
  BY IdleType DEF IdleDaemon
<1> QED
  BY <1>1 DEF TypeOK, Idle

LEMMA DaemonCases ==
    ASSUME TypeOK, NEW d \in Daemon, DaemonStep(d)
    PROVE  \/ /\ daemon[d].phase = "sent"
              /\ Working(d, "open", file.dir = "active", daemon[d].own, log[daemon[d].service])
              /\ UNCHANGED <<file, log, msg, agent, delivered, notified>>
           \/ /\ daemon[d].phase = "open"
              /\ Working(d, "posted", daemon[d].lock, daemon[d].own, daemon[d].rcpts)
              /\ notified' = notified \cup
                                (IF daemon[d].rcpts = {} THEN Rcpt ELSE daemon[d].rcpts)
              /\ notified' \in SUBSET Rcpt
              /\ UNCHANGED <<file, log, msg, agent, delivered>>
           \/ /\ daemon[d].phase = "posted" /\ Idle(d) /\ Replied(d, FALSE)
              /\ log' \in [bounce : SUBSET Rcpt, defer : SUBSET Rcpt]
              /\ log'[daemon[d].service] = {}
              /\ \A s \in {"bounce", "defer"} \ {daemon[d].service} : log'[s] = log[s]
              /\ UNCHANGED <<file, agent, delivered, notified>>
           \/ /\ "notify" \in faults
              /\ daemon[d].phase # "idle" /\ Idle(d) /\ Replied(d, TRUE)
              /\ UNCHANGED <<file, log, agent, delivered, notified>>
           \/ /\ "timeout" \in faults
              /\ daemon[d].phase \in {"open", "posted"} /\ daemon[d].own
              /\ Working(d, daemon[d].phase, daemon[d].lock, FALSE, daemon[d].rcpts)
              /\ Replied(d, TRUE)
              /\ UNCHANGED <<file, log, agent, delivered, notified>>
<1>0. /\ daemon[d] \in BOUNCE_INFO /\ daemon[d].service \in {"bounce", "defer"}
      /\ daemon[d].rcpts \in SUBSET Rcpt /\ daemon[d].own \in BOOLEAN
  BY DEF TypeOK, BOUNCE_INFO
<1>1. CASE bounce_mail_init(d)
  <2>1. log[daemon[d].service] \in SUBSET Rcpt
    BY <1>0 DEF TypeOK
  <2> DEFINE rcpts == log[daemon[d].service]
             lock == file.dir = "active"
             D == [daemon[d] EXCEPT !.phase = "open", !.lock = lock, !.rcpts = rcpts]
  <2>2. lock \in BOOLEAN /\ rcpts \in SUBSET Rcpt
    BY <2>1
  <2>3. /\ D \in BOUNCE_INFO /\ D.phase = "open" /\ D.service = daemon[d].service
        /\ D.lock = lock /\ D.own = daemon[d].own /\ D.rcpts = rcpts
    <3> HIDE DEF lock, rcpts
    <3> QED BY <1>0, <2>2 DEF BOUNCE_INFO
  <2>4. daemon' = [daemon EXCEPT ![d] = D]
    BY <1>1 DEF bounce_mail_init, TypeOK
  <2>5. daemon' \in [Daemon -> BOUNCE_INFO] /\ daemon'[d] = D
        /\ \A e \in Daemon \ {d} : daemon'[e] = daemon[e]
    <3> HIDE DEF D
    <3> QED BY <2>3, <2>4 DEF TypeOK
  <2>6. Working(d, "open", lock, daemon[d].own, rcpts)
    <3> HIDE DEF D, lock, rcpts
    <3> QED BY <2>3, <2>5 DEF Working
  <2> QED BY <1>1, <2>6 DEF bounce_mail_init
<1>2. CASE post_mail_fclose(d)
  <2>1. Working(d, "posted", daemon[d].lock, daemon[d].own, daemon[d].rcpts)
    BY <1>0, <1>2 DEF post_mail_fclose, TypeOK, BOUNCE_INFO, Working
  <2> QED BY <1>0, <1>2, <2>1 DEF post_mail_fclose, TypeOK
<1>3. ASSUME NEW failed \in BOOLEAN, msg' = IF daemon[d].own THEN Flushed(daemon[d].service, failed) ELSE msg
      PROVE  Replied(d, failed)
  BY <1>0, <1>3, FlushedFields DEF Replied
<1>4. CASE bounce_notify_service(d)
  <2>1. /\ log' \in [bounce : SUBSET Rcpt, defer : SUBSET Rcpt]
        /\ log'[daemon[d].service] = {}
        /\ \A s \in {"bounce", "defer"} \ {daemon[d].service} : log'[s] = log[s]
    BY <1>0, <1>4 DEF bounce_notify_service, TypeOK
  <2> QED BY <1>3, <1>4, <2>1, IdleFields DEF bounce_notify_service
<1>5. CASE NotifyFails(d)
  BY <1>3, <1>5, IdleFields DEF NotifyFails
<1>6. CASE abounce_timeout(d)
  <2>1. Working(d, daemon[d].phase, daemon[d].lock, FALSE, daemon[d].rcpts)
    BY <1>0, <1>6 DEF abounce_timeout, TypeOK, BOUNCE_INFO, Working
  <2>2. Replied(d, TRUE)
    BY <1>3, <1>6 DEF abounce_timeout
  <2> QED BY <1>6, <2>1, <2>2 DEF abounce_timeout
<1> QED
  BY <1>1, <1>2, <1>4, <1>5, <1>6 DEF DaemonStep

\* The queue file moves to another queue; the message leaves memory.
Renamed(dir) ==
    /\ file' \in QueueFile /\ file'.dir = dir
    /\ file'.done = file.done /\ file'.bad = file.bad /\ file'.expire = file.expire

Cleared(stage) ==
    /\ msg' \in QMGR_MESSAGE
    /\ msg'.stage = stage /\ msg'.flags = FALSE /\ msg'.force = FALSE
    /\ msg'.rcpt_offset = 0 /\ msg'.rcpt_list = {} /\ msg'.todo = {} /\ msg'.panic = FALSE

LEMMA RenameFields ==
    ASSUME TypeOK, NEW dir \in Dir, file' = [file EXCEPT !.dir = dir]
    PROVE  Renamed(dir)
BY DEF TypeOK, QueueFile, Renamed

LEMMA ClearFields ==
    /\ msg' = NoMessage => Cleared("none")
    /\ msg' = [NoMessage EXCEPT !.stage = "down"] => Cleared("down")
BY NoMessageFields DEF Cleared, QMGR_MESSAGE, Stage

LEMMA CorruptFields ==
    ASSUME TypeOK, qmgr_active_corrupt
    PROVE  /\ Renamed("corrupt") /\ Cleared("none")
           /\ UNCHANGED <<log, agent, daemon, delivered, notified>>
BY RenameFields, ClearFields DEF qmgr_active_corrupt, Dir

\* A message that was just fed.
Fresh == [NoMessage EXCEPT !.force = file.expire]

LEMMA FreshFields ==
    ASSUME TypeOK
    PROVE  /\ Fresh \in QMGR_MESSAGE /\ Fresh.flags = FALSE /\ Fresh.force = file.expire
           /\ Fresh.rcpt_offset = 0 /\ Fresh.rcpt_list = {} /\ Fresh.todo = {}
           /\ Fresh.panic = FALSE
BY NoMessageFields DEF Fresh, TypeOK, QueueFile, QMGR_MESSAGE

\* The defer log of an earlier run is enough to report the message as expired.
Expired(read) ==
    /\ msg' \in QMGR_MESSAGE
    /\ msg'.stage = "done" /\ msg'.flags = TRUE /\ msg'.force = file.expire
    /\ msg'.rcpt_offset = read.offset /\ msg'.rcpt_list = read.list
    /\ msg'.todo = {} /\ msg'.panic = FALSE

LEMMA FeedCases ==
    ASSUME TypeOK, qmgr_active_feed
    PROVE  /\ msg.stage = "none" /\ file.dir \in {"incoming", "deferred"} /\ ~file.bad
           /\ \/ /\ Locked /\ Renamed("incoming")
                 /\ UNCHANGED <<log, msg, agent, daemon, delivered, notified>>
              \/ /\ ~Locked /\ Renamed("corrupt") /\ Cleared("none")
                 /\ UNCHANGED <<log, agent, daemon, delivered, notified>>
              \/ /\ ~Locked /\ file.expire /\ log.defer # {}
                 /\ \E read \in Batch : ReadFrom(1, read) /\ Expired(read)
                 /\ Renamed("active")
                 /\ UNCHANGED <<log, agent, daemon, delivered, notified>>
              \/ /\ ~Locked /\ ~(file.expire /\ log.defer # {})
                 /\ \E read \in Batch, deferred, discarded, lost \in SUBSET Rcpt :
                       /\ ReadFrom(1, read)
                       /\ Assigned(Fresh, read, {}, deferred, discarded, lost)
<1>1. 1 \in 1..(N + 1)
  BY RcptAssumption
<1>2. ASSUME NEW read \in qmgr_message_read(1) PROVE read \in Batch /\ ReadFrom(1, read)
  BY <1>1, ReadBatch
<1>3. ASSUME NEW read \in qmgr_message_read(1), Assign(Fresh, read, {})
      PROVE  \E deferred, discarded, lost \in SUBSET Rcpt :
                Assigned(Fresh, read, {}, deferred, discarded, lost)
  BY <1>2, <1>3, FreshFields, AssignFields
<1>4. ASSUME NEW read \in qmgr_message_read(1),
             msg' = [Fresh EXCEPT !.stage = "done", !.flags = TRUE,
                                  !.rcpt_list = read.list, !.rcpt_offset = read.offset]
      PROVE  Expired(read)
  <2> HIDE DEF Fresh
  <2> QED BY <1>2, <1>4, FreshFields DEF Expired, QMGR_MESSAGE, Stage, Batch
<1>5. /\ file' = [file EXCEPT !.dir = "active"] => Renamed("active")
      /\ file' = [file EXCEPT !.dir = "incoming"] => Renamed("incoming")
  BY RenameFields DEF Dir
<1>6. CASE Locked
  BY <1>5, <1>6 DEF qmgr_active_feed
<1>7. CASE ~Locked /\ qmgr_active_corrupt
  BY <1>7, CorruptFields DEF qmgr_active_feed
<1>8. CASE ~Locked /\ \E read \in qmgr_message_read(1) : qmgr_message_alloc(read)
  BY <1>2, <1>3, <1>4, <1>5, <1>8 DEF qmgr_active_feed, qmgr_message_alloc, Fresh
<1> QED
  BY <1>6, <1>7, <1>8 DEF qmgr_active_feed

\* A daemon that was just asked to flush a log.
Asked(service) ==
    \E d \in Daemon :
       /\ daemon[d].phase = "idle"
       /\ daemon' \in [Daemon -> BOUNCE_INFO]
       /\ daemon'[d].phase = "sent" /\ daemon'[d].service = service /\ daemon'[d].own = TRUE
       /\ \A e \in Daemon \ {d} : daemon'[e] = daemon[e]

LEMMA AskFields ==
    ASSUME TypeOK, NEW service \in {"bounce", "defer"}, NEW failure,
           abounce_flush(service, failure)
    PROVE  \/ Asked(service) /\ Staged(service, msg.flags)
           \/ /\ "notify" \in faults \/ \A d \in Daemon : daemon[d].phase # "idle"
              /\ msg' = failure /\ daemon' = daemon
<1>1. ASSUME NEW d \in Daemon, daemon[d].phase = "idle",
             daemon' = [daemon EXCEPT ![d] = [IdleDaemon EXCEPT
                            !.phase = "sent", !.service = service, !.own = TRUE]]
      PROVE  Asked(service)
  <2> DEFINE D == [IdleDaemon EXCEPT !.phase = "sent", !.service = service, !.own = TRUE]
  <2>1. D \in BOUNCE_INFO /\ D.phase = "sent" /\ D.service = service /\ D.own = TRUE
    BY IdleType DEF BOUNCE_INFO
  <2>2. daemon' = [daemon EXCEPT ![d] = D]
    BY <1>1
  <2> HIDE DEF D
  <2> QED BY <1>1, <2>1, <2>2 DEF Asked, TypeOK
<1>2. msg' = [msg EXCEPT !.stage = service] => Staged(service, msg.flags)
  BY StageFields DEF Stage, TypeOK, QMGR_MESSAGE
<1> QED
  BY <1>1, <1>2 DEF abounce_flush

LEMMA DoneCases ==
    ASSUME TypeOK, qmgr_active_done
    PROVE  /\ msg.stage = "done" /\ ~msg.panic
           /\ UNCHANGED <<file, log, agent, delivered, notified>>
           /\ \/ log.bounce = {} /\ Staged("done_2", msg.flags) /\ daemon' = daemon
              \/ log.bounce # {} /\ Staged("bounce", msg.flags) /\ Asked("bounce")
              \/ /\ log.bounce # {} /\ Staged("done_2", TRUE) /\ daemon' = daemon
                 /\ "notify" \in faults \/ \A d \in Daemon : daemon[d].phase # "idle"
<1>1. msg' = qmgr_active_done_2_bounce_flush(TRUE) => Staged("done_2", TRUE)
  BY StageFields DEF qmgr_active_done_2_bounce_flush, Stage
<1>2. msg' = [msg EXCEPT !.stage = "done_2"] => Staged("done_2", msg.flags)
  BY StageFields DEF Stage, TypeOK, QMGR_MESSAGE
<1> QED
  BY <1>1, <1>2, AskFields DEF qmgr_active_done

LEMMA DoneTwoCases ==
    ASSUME TypeOK, qmgr_active_done_2_generic
    PROVE  /\ msg.stage = "done_2" /\ ~msg.panic
           /\ \/ /\ Renamed("corrupt") /\ Cleared("none")
                 /\ UNCHANGED <<log, agent, daemon, delivered, notified>>
              \/ /\ ~(msg.flags /\ file.bad) /\ msg.rcpt_offset # 0
                 /\ qmgr_message_realloc
              \/ /\ ~(msg.flags /\ file.bad) /\ msg.rcpt_offset = 0
                 /\ \E next \in {"trace", "done_25"} : Staged(next, msg.flags)
                 /\ UNCHANGED <<file, log, agent, daemon, delivered, notified>>
<1>1. msg.rcpt_offset \in 0..(N + 1)
  BY DEF TypeOK, QMGR_MESSAGE
<1>2. \A next \in {"trace", "done_25"} :
         msg' = [msg EXCEPT !.stage = next] => Staged(next, msg.flags)
  BY StageFields DEF Stage, TypeOK, QMGR_MESSAGE
<1> QED
  BY <1>1, <1>2, RcptAssumption, CorruptFields DEF qmgr_active_done_2_generic

LEMMA TraceCases ==
    ASSUME TypeOK, qmgr_active_done_25_trace_flush
    PROVE  /\ msg.stage = "trace"
           /\ \/ Staged("done_25", msg.flags)
              \/ "notify" \in faults /\ Staged("done_25", TRUE)
           /\ UNCHANGED <<file, log, agent, daemon, delivered, notified>>
<1>1. ASSUME NEW failed \in BOOLEAN, failed => "notify" \in faults,
             msg' = [msg EXCEPT !.flags = @ \/ failed, !.stage = "done_25"]
      PROVE  Staged("done_25", msg.flags) \/ ("notify" \in faults /\ Staged("done_25", TRUE))
  <2>1. Staged("done_25", msg.flags \/ failed)
    BY <1>1, StageFields DEF Stage
  <2> QED BY <1>1, <2>1 DEF Staged
<1>2. PICK failed \in {FALSE} \cup {"notify" \in faults} :
         msg' = [msg EXCEPT !.flags = @ \/ failed, !.stage = "done_25"]
  BY DEF qmgr_active_done_25_trace_flush
<1>3. failed \in BOOLEAN
  <2> DEFINE can == "notify" \in faults
  <2>1. can = TRUE \/ can = FALSE
    OBVIOUS
  <2>2. failed \in {FALSE} \cup {can}
    BY <1>2
  <2> HIDE DEF can
  <2> QED BY <2>1, <2>2
<1>4. failed => "notify" \in faults
  BY <1>2, Zenon
<1> QED
  BY <1>1, <1>2, <1>3, <1>4 DEF qmgr_active_done_25_trace_flush

LEMMA DoneDeferCases ==
    ASSUME TypeOK, qmgr_active_done_25_generic
    PROVE  /\ msg.stage = "done_25"
           /\ UNCHANGED <<file, log, agent, delivered, notified>>
           /\ \/ /\ \/ Staged("done_3", msg.flags)
                    \/ Staged("warn", msg.flags) /\ msg.flags
                 /\ ~(msg.flags /\ msg.force)
                 /\ daemon' = daemon
              \/ /\ msg.flags /\ (msg.force \/ "expire" \in faults)
                 /\ Staged("defer", msg.flags) /\ Asked("defer")
              \/ /\ msg.flags /\ (msg.force \/ "expire" \in faults)
                 /\ "notify" \in faults \/ \A d \in Daemon : daemon[d].phase # "idle"
                 /\ Staged("done_3", TRUE) /\ daemon' = daemon
<1>1. msg' = qmgr_active_done_3_defer_flush(TRUE) => Staged("done_3", TRUE)
  BY StageFields DEF qmgr_active_done_3_defer_flush, Stage
<1>2. /\ msg' = [msg EXCEPT !.stage = "done_3"] => Staged("done_3", msg.flags)
      /\ msg' = [msg EXCEPT !.stage = "warn"] => Staged("warn", msg.flags)
  BY StageFields DEF Stage, TypeOK, QMGR_MESSAGE
<1>3. CASE abounce_flush("defer", qmgr_active_done_3_defer_flush(TRUE)) /\ msg.flags
           /\ (msg.force \/ "expire" \in faults)
  BY <1>1, <1>3, AskFields DEF qmgr_active_done_25_generic
<1>4. CASE /\ \E next \in {"done_3"} \cup (IF msg.flags THEN {"warn"} ELSE {}) :
                    msg' = [msg EXCEPT !.stage = next]
           /\ daemon' = daemon /\ ~(msg.flags /\ msg.force)
  BY <1>2, <1>4 DEF qmgr_active_done_25_generic
<1> QED
  BY <1>3, <1>4 DEF qmgr_active_done_25_generic

LEMMA WarnCases ==
    ASSUME TypeOK, qmgr_active_done_3_defer_warn
    PROVE  /\ msg.stage = "warn" /\ Staged("done_3", msg.flags)
           /\ UNCHANGED <<file, log, agent, daemon, delivered, notified>>
BY StageFields DEF qmgr_active_done_3_defer_warn, Stage, TypeOK, QMGR_MESSAGE

LEMMA FinishCases ==
    ASSUME TypeOK, qmgr_active_done_3_generic
    PROVE  /\ msg.stage = "done_3" /\ Cleared("none")
           /\ Renamed(IF msg.flags THEN "deferred" ELSE "none")
           /\ UNCHANGED <<log, agent, daemon, delivered, notified>>
<1>1. (IF msg.flags THEN "deferred" ELSE "none") \in Dir
  BY DEF Dir
<1> QED
  BY <1>1, RenameFields, ClearFields DEF qmgr_active_done_3_generic

LEMMA ExpireCases ==
    ASSUME TypeOK, postsuper_expire
    PROVE  /\ "force" \in faults /\ file.dir \in {"incoming", "active", "deferred"}
           /\ ~file.expire /\ ~file.bad
           /\ file' \in QueueFile /\ file'.expire = TRUE /\ file'.dir = file.dir
           /\ file'.done = file.done /\ file'.bad = file.bad
           /\ UNCHANGED <<log, msg, agent, daemon, delivered, notified>>
BY DEF postsuper_expire, TypeOK, QueueFile

\* Nobody reports to the next queue manager.
Orphaned ==
    /\ agent' \in [Agent -> DELIVER_REQUEST]
    /\ \A a \in Agent : /\ agent'[a].phase = agent[a].phase
                        /\ agent'[a].rcpt = agent[a].rcpt
                        /\ agent'[a].own = FALSE /\ agent'[a].retry = agent[a].retry
    /\ daemon' \in [Daemon -> BOUNCE_INFO]
    /\ \A d \in Daemon : /\ daemon'[d].phase = daemon[d].phase
                         /\ daemon'[d].service = daemon[d].service
                         /\ daemon'[d].lock = daemon[d].lock
                         /\ daemon'[d].own = FALSE /\ daemon'[d].rcpts = daemon[d].rcpts

LEMMA DieCases ==
    ASSUME TypeOK, qmgr_dies
    PROVE  /\ "restart" \in faults \/ msg.panic
           /\ msg.stage # "down" /\ Cleared("down") /\ Orphaned
           /\ UNCHANGED <<file, log, delivered, notified>>
<1>1. \A a \in Agent :
        LET A == [agent[a] EXCEPT !.own = FALSE]
        IN  /\ A \in DELIVER_REQUEST /\ A.own = FALSE
            /\ A.phase = agent[a].phase /\ A.rcpt = agent[a].rcpt /\ A.retry = agent[a].retry
  BY DEF TypeOK, DELIVER_REQUEST
<1>2. \A d \in Daemon :
        LET D == [daemon[d] EXCEPT !.own = FALSE]
        IN  /\ D \in BOUNCE_INFO /\ D.own = FALSE
            /\ D.phase = daemon[d].phase /\ D.service = daemon[d].service
            /\ D.lock = daemon[d].lock /\ D.rcpts = daemon[d].rcpts
  BY DEF TypeOK, BOUNCE_INFO
<1>3. /\ agent' = [a \in Agent |-> [agent[a] EXCEPT !.own = FALSE]]
      /\ daemon' = [d \in Daemon |-> [daemon[d] EXCEPT !.own = FALSE]]
  BY DEF qmgr_dies
<1>4. Orphaned
  <2>1. agent' \in [Agent -> DELIVER_REQUEST] /\ daemon' \in [Daemon -> BOUNCE_INFO]
    BY <1>1, <1>2, <1>3
  <2>2. /\ \A a \in Agent : agent'[a] = [agent[a] EXCEPT !.own = FALSE]
        /\ \A d \in Daemon : daemon'[d] = [daemon[d] EXCEPT !.own = FALSE]
    BY <1>3
  <2>3. \A a \in Agent : /\ agent'[a].phase = agent[a].phase
                         /\ agent'[a].rcpt = agent[a].rcpt
                         /\ agent'[a].own = FALSE /\ agent'[a].retry = agent[a].retry
    BY <1>1, <2>2
  <2>4. \A d \in Daemon : /\ daemon'[d].phase = daemon[d].phase
                          /\ daemon'[d].service = daemon[d].service
                          /\ daemon'[d].lock = daemon[d].lock
                          /\ daemon'[d].own = FALSE /\ daemon'[d].rcpts = daemon[d].rcpts
    BY <1>2, <2>2
  <2> QED BY <2>1, <2>3, <2>4 DEF Orphaned
<1> QED
  BY <1>4, ClearFields DEF qmgr_dies

LEMMA StartCases ==
    ASSUME TypeOK, qmgr_post_init
    PROVE  /\ msg.stage = "down" /\ Cleared("none")
           /\ "transit" \notin faults => ~InTransit
           /\ Renamed(IF file.dir = "active" THEN "incoming" ELSE file.dir)
           /\ UNCHANGED <<log, agent, daemon, delivered, notified>>
<1>1. (IF file.dir = "active" THEN "incoming" ELSE file.dir) \in Dir
  BY DEF TypeOK, QueueFile, Dir
<1>2. file' = [file EXCEPT !.dir = IF file.dir = "active" THEN "incoming" ELSE file.dir]
  BY DEF qmgr_post_init
<1> QED
  BY <1>1, <1>2, RenameFields, ClearFields DEF qmgr_post_init

-----------------------------------------------------------------------------
(***************************************************************************)
(* Types.                                                                  *)
(***************************************************************************)
LEMMA TypeStep ==
    ASSUME TypeOK, [Next]_vars
    PROVE  TypeOK'
<1> USE DEF TypeOK
<1>1. CASE qmgr_active_feed
  BY <1>1, FeedCases DEF Renamed, Cleared, Expired, Assigned
<1>2. ASSUME qmgr_message_realloc, msg.rcpt_offset # 0 PROVE TypeOK'
  <2>1. [msg EXCEPT !.panic = TRUE] \in QMGR_MESSAGE
    BY DEF QMGR_MESSAGE
  <2> QED BY <1>2, <2>1, RealBatch DEF Assigned
<1>3. CASE qmgr_job_peer_select
  BY <1>2, <1>3 DEF qmgr_job_peer_select
<1>4. ASSUME NEW r \in Rcpt, qmgr_defer_todo(r) PROVE TypeOK'
  BY <1>4, DeferTodoCases DEF Settled
<1>5. CASE SendRequest
  <2>1. PICK a \in Agent, r \in msg.todo : qmgr_deliver_send_request(a, r)
    BY <1>5 DEF SendRequest
  <2>2. r \in Rcpt
    BY DEF QMGR_MESSAGE
  <2> QED BY <2>1, <2>2, SendCases
<1>6. ASSUME NEW a \in Agent, AgentStep(a) PROVE TypeOK'
  <2>1. agent[a] \in DELIVER_REQUEST /\ agent[a].rcpt \in Rcpt
    BY DEF DELIVER_REQUEST
  <2> QED BY <1>6, <2>1, AgentCases DEF Moved, Gone, Settled
<1>7. ASSUME NEW d \in Daemon, DaemonStep(d) PROVE TypeOK'
  <2>1. daemon[d].service \in {"bounce", "defer"}
    BY DEF BOUNCE_INFO
  <2>2. \A failed : Replied(d, failed) => msg' \in QMGR_MESSAGE
    BY <2>1 DEF Replied, Staged
  <2> QED BY <1>7, <2>2, DaemonCases DEF Working, Idle
<1>8. CASE qmgr_active_done
  BY <1>8, DoneCases DEF Staged, Asked
<1>9. CASE qmgr_active_done_2_generic
  BY <1>2, <1>9, DoneTwoCases DEF Staged, Renamed, Cleared
<1>10. CASE qmgr_active_done_25_trace_flush
  BY <1>10, TraceCases DEF Staged
<1>11. CASE qmgr_active_done_25_generic
  BY <1>11, DoneDeferCases DEF Staged, Asked
<1>12. CASE qmgr_active_done_3_defer_warn
  BY <1>12, WarnCases DEF Staged
<1>13. CASE qmgr_active_done_3_generic
  BY <1>13, FinishCases DEF Renamed, Cleared
<1>14. CASE postsuper_expire
  BY <1>14, ExpireCases
<1>15. CASE qmgr_dies
  BY <1>15, DieCases DEF Orphaned, Cleared
<1>16. CASE qmgr_post_init
  BY <1>16, StartCases DEF Renamed, Cleared
<1>17. CASE UNCHANGED vars
  BY <1>17 DEF vars
<1> QED
  BY <1>1, <1>3, <1>4, <1>5, <1>6, <1>7, <1>8, <1>9, <1>10, <1>11, <1>12, <1>13, <1>14,
     <1>15, <1>16, <1>17
  DEF Next, Step, ActiveDone

-----------------------------------------------------------------------------
(***************************************************************************)
(* The inductive invariant, in layers: each layer relies on those above.   *)
(***************************************************************************)
Busy(a) == agent[a].phase # "idle"
Serving(d) == daemon[d].phase # "idle"

\* The queue manager waits for one daemon at most; a daemon that it waits for
\* is at work on what the message waits for.
OneReply ==
    /\ \A d \in Daemon : daemon[d].own => Serving(d) /\ daemon[d].service = msg.stage
    /\ \A d, e \in Daemon : daemon[d].own /\ daemon[e].own => d = e

\* Recipients are left to be read only until the last batch was tried.
Reading ==
    /\ "batch" \notin faults => msg.rcpt_offset = 0
    /\ msg.stage \in {"none", "down", "trace", "done_25", "defer", "warn", "done_3"}
          => msg.rcpt_offset = 0
    /\ msg.rcpt_list # {} => msg.stage \notin {"none", "down", "deliver"} /\ msg.force
    /\ msg.panic => msg.rcpt_list # {} /\ msg.stage = "done_2"

Control == TypeOK /\ NotForgotten /\ OneReply /\ Reading

\* What follows from it at once.
LEMMA ControlFacts ==
    ASSUME Control
    PROVE  /\ TypeOK
           /\ \A d \in Daemon : daemon[d].service \in {"bounce", "defer"}
           /\ \A d \in Daemon : daemon[d].own =>
                 /\ Serving(d) /\ daemon[d].service = msg.stage
                 /\ msg.stage \in {"bounce", "defer"}
           /\ msg.stage # "deliver" =>
                 msg.todo = {} /\ \A a \in Agent : Busy(a) => ~agent[a].own
           /\ file.dir = "active" => msg.stage # "none"
<1>1. \A d \in Daemon : daemon[d].service \in {"bounce", "defer"}
  BY DEF Control, TypeOK, BOUNCE_INFO
<1> QED
  BY <1>1 DEF Control, OneReply, NotForgotten, Outstanding, Busy

LEMMA ControlInit == Init => Control
<1> SUFFICES ASSUME Init PROVE Control
  OBVIOUS
<1>1. TypeOK
  BY InitType
<1>2. /\ \A a \in Agent : agent[a].phase = "idle"
      /\ \A d \in Daemon : daemon[d].phase = "idle" /\ daemon[d].own = FALSE
      /\ file.dir = "incoming" /\ msg = NoMessage
  BY DEF Init, IdleAgent, IdleDaemon
<1> QED
  BY <1>1, <1>2, NoMessageFields
  DEF Control, NotForgotten, Outstanding, OneReply, Reading, Serving

LEMMA ControlStep ==
    ASSUME Control, [Next]_vars
    PROVE  Control'
<1> USE DEF Control, Busy, Serving, Outstanding
<1>0. /\ TypeOK' /\ TypeOK /\ faults' = faults
      /\ \A d \in Daemon : daemon[d].service \in {"bounce", "defer"}
      /\ \A d \in Daemon : daemon[d].own =>
            /\ Serving(d) /\ daemon[d].service = msg.stage
            /\ msg.stage \in {"bounce", "defer"}
      /\ msg.stage # "deliver" =>
            msg.todo = {} /\ \A a \in Agent : Busy(a) => ~agent[a].own
  BY TypeStep, ControlFacts DEF Next, vars
<1>18. ASSUME NEW m, NEW first, NEW read \in Batch, NEW kept, NEW deferred \in SUBSET Rcpt,
             NEW discarded \in SUBSET Rcpt, NEW lost \in SUBSET Rcpt,
             ReadFrom(first, read), Assigned(m, read, kept, deferred, discarded, lost),
             m.rcpt_list = {}, ~m.panic, msg.stage \in {"none", "deliver", "done_2"}
      PROVE  Control'
  <2>1. /\ agent' = agent /\ daemon' = daemon /\ msg'.rcpt_list = {} /\ ~msg'.panic
        /\ file'.dir = "active" /\ msg'.rcpt_offset = read.offset
        /\ msg'.stage = IF Outstanding(msg', agent) THEN "deliver" ELSE "done"
    BY <1>18 DEF Assigned
  <2>2. NotForgotten'
    BY <2>1 DEF NotForgotten
  <2>3. OneReply'
    BY <1>0, <1>18, <2>1 DEF OneReply
  <2>4. Reading'
    BY <1>0, <1>18, <2>1 DEF Reading, ReadFrom
  <2> QED BY <1>0, <2>2, <2>3, <2>4
<1>19. ASSUME msg.stage \in {"done", "done_25"}, UNCHANGED <<file, agent>>,
              NEW flags \in BOOLEAN, NEW stage \in {"done_2", "done_3", "warn", "bounce", "defer"},
              msg.stage = "done" => stage \in {"done_2", "bounce"},
              Staged(stage, flags), stage \in {"bounce", "defer"} => Asked(stage),
              stage \notin {"bounce", "defer"} => daemon' = daemon
       PROVE  Control'
  <2>1. /\ agent' = agent /\ msg'.todo = msg.todo /\ msg'.stage = stage
        /\ msg'.rcpt_offset = msg.rcpt_offset /\ msg'.force = msg.force
        /\ msg'.rcpt_list = msg.rcpt_list /\ msg'.panic = msg.panic
    BY <1>19 DEF Staged
  <2>2. NotForgotten'
    BY <1>0, <1>19, <2>1 DEF NotForgotten, Asked
  <2>3. OneReply'
    BY <1>0, <1>19, <2>1 DEF OneReply, Asked
  <2>4. Reading'
    BY <1>0, <1>19, <2>1 DEF Reading
  <2> QED BY <1>0, <2>2, <2>3, <2>4
<1>1. CASE qmgr_active_feed
  <2>1. CASE Renamed("incoming") /\ UNCHANGED <<msg, agent, daemon>>
    BY <1>0, <1>1, <2>1, FeedCases DEF Renamed, NotForgotten, OneReply, Reading
  <2>2. CASE Renamed("corrupt") /\ Cleared("none") /\ UNCHANGED <<agent, daemon>>
    BY <1>0, <1>1, <2>2, FeedCases DEF Renamed, Cleared, NotForgotten, OneReply, Reading
  <2>3. ASSUME NEW read \in Batch, ReadFrom(1, read), Expired(read), file.expire,
               Renamed("active"), UNCHANGED <<agent, daemon>>
        PROVE  Control'
    BY <1>0, <1>1, <2>3, FeedCases
    DEF Renamed, Expired, ReadFrom, NotForgotten, OneReply, Reading
  <2>4. ASSUME NEW read \in Batch, NEW deferred \in SUBSET Rcpt,
               NEW discarded \in SUBSET Rcpt, NEW lost \in SUBSET Rcpt,
               ReadFrom(1, read), Assigned(Fresh, read, {}, deferred, discarded, lost)
        PROVE  Control'
    <3>1. msg.stage = "none" /\ Fresh.rcpt_list = {} /\ Fresh.panic = FALSE
      BY <1>0, <1>1, FeedCases, FreshFields
    <3> QED BY <1>0, <1>18, <2>4, <3>1
  <2> QED BY <1>0, <1>1, <2>1, <2>2, <2>3, <2>4, FeedCases
<1>2. ASSUME qmgr_message_realloc, msg.rcpt_offset # 0, msg.stage \in {"deliver", "done_2"}, ~msg.panic
      PROVE  Control'
  <2>1. CASE msg.rcpt_list # {} /\ msg' = [msg EXCEPT !.panic = TRUE]
             /\ UNCHANGED <<file, agent, daemon>>
    <3>1. /\ msg'.stage = msg.stage /\ msg'.rcpt_offset = msg.rcpt_offset
          /\ msg'.rcpt_list = msg.rcpt_list /\ msg'.todo = msg.todo /\ msg'.force = msg.force
      BY <1>0, <2>1 DEF TypeOK, QMGR_MESSAGE
    <3>2. NotForgotten' /\ OneReply'
      BY <1>0, <2>1, <3>1 DEF NotForgotten, OneReply
    <3>3. msg.stage = "done_2"
      BY <1>2, <2>1 DEF Reading
    <3>4. Reading'
      BY <1>0, <2>1, <3>1, <3>3 DEF Reading
    <3> QED BY <1>0, <3>2, <3>4
  <2>2. ASSUME NEW read \in Batch, NEW deferred \in SUBSET Rcpt,
               NEW discarded \in SUBSET Rcpt, NEW lost \in SUBSET Rcpt,
               msg.rcpt_list = {}, ReadFrom(msg.rcpt_offset, read),
               Assigned(msg, read, log.defer, deferred, discarded, lost)
        PROVE  Control'
    BY <1>0, <1>2, <1>18, <2>2
  <2> QED BY <1>0, <1>2, <2>1, <2>2, RealBatch
<1>3. CASE qmgr_job_peer_select
  BY <1>2, <1>3 DEF qmgr_job_peer_select, Reading
<1>4. ASSUME NEW r \in Rcpt, qmgr_defer_todo(r) PROVE Control'
  BY <1>0, <1>4, DeferTodoCases DEF Settled, NotForgotten, OneReply, Reading
<1>5. CASE SendRequest
  <2>1. PICK a \in Agent, r \in Rcpt : qmgr_deliver_send_request(a, r)
    BY <1>5, <1>0 DEF SendRequest, TypeOK, QMGR_MESSAGE
  <2> QED BY <1>0, <2>1, SendCases DEF NotForgotten, OneReply, Reading
<1>6. ASSUME NEW a \in Agent, AgentStep(a) PROVE Control'
  <2>1. CASE \E phase \in {"open", "delivered", "bounced", "ok", "failed"} :
               /\ agent[a].phase # "idle" /\ Moved(a, phase)
               /\ file'.dir = file.dir
               /\ UNCHANGED <<msg, daemon, faults>>
    BY <1>0, <2>1 DEF Moved, NotForgotten, OneReply, Reading
  <2>2. ASSUME NEW failed \in BOOLEAN, agent[a].phase # "idle", Gone(a, failed), UNCHANGED faults
        PROVE  Control'
    BY <1>0, <2>2 DEF Gone, Settled, NotForgotten, OneReply, Reading
  <2> QED BY <1>0, <1>6, <2>1, <2>2, AgentCases
<1>7. ASSUME NEW d \in Daemon, DaemonStep(d) PROVE Control'
  <2>1. ASSUME NEW failed \in BOOLEAN, daemon[d].own, Replied(d, failed)
        PROVE  /\ \E flags \in BOOLEAN, stage \in {"done_2", "done_3"} :
                       (stage = "done_3" => msg.stage = "defer") /\ Staged(stage, flags)
               /\ msg.stage \in {"bounce", "defer"} /\ ~Outstanding(msg, agent)
    BY <1>0, <2>1 DEF Replied, NotForgotten, TypeOK, QMGR_MESSAGE
  <2>2. ASSUME NEW failed \in BOOLEAN, Replied(d, failed), Idle(d) \/ (Serving(d) /\ daemon[d].own /\ Working(d, daemon[d].phase, daemon[d].lock, FALSE, daemon[d].rcpts)),
               UNCHANGED <<file, agent>>
        PROVE  Control'
    <3>1. CASE daemon[d].own
      BY <1>0, <2>1, <2>2, <3>1 DEF Working, Idle, Staged, NotForgotten, OneReply, Reading
    <3>2. CASE ~daemon[d].own
      BY <1>0, <2>2, <3>2 DEF Working, Idle, Replied, NotForgotten, OneReply, Reading
    <3> QED BY <3>1, <3>2
  <2>3. ASSUME NEW phase \in {"open", "posted"}, NEW lock, NEW rcpts, Serving(d),
               Working(d, phase, lock, daemon[d].own, rcpts), UNCHANGED <<file, agent, msg>>
        PROVE  Control'
    BY <1>0, <2>3 DEF Working, NotForgotten, OneReply, Reading
  <2> QED BY <1>0, <1>7, <2>2, <2>3, DaemonCases
<1>8. CASE qmgr_active_done
  <2>1. msg.flags \in BOOLEAN
    BY <1>0 DEF TypeOK, QMGR_MESSAGE
  <2>2. PICK stage \in {"done_2", "bounce"}, flags \in BOOLEAN :
           /\ Staged(stage, flags)
           /\ IF stage = "bounce" THEN Asked(stage) ELSE daemon' = daemon
    BY <1>0, <1>8, <2>1, DoneCases
  <2> QED BY <1>0, <1>8, <1>19, <2>2, DoneCases
<1>9. CASE qmgr_active_done_2_generic
  BY <1>0, <1>2, <1>9, DoneTwoCases DEF Staged, Renamed, Cleared, NotForgotten, OneReply, Reading
<1>10. CASE qmgr_active_done_25_trace_flush
  BY <1>0, <1>10, TraceCases DEF Staged, NotForgotten, OneReply, Reading
<1>11. CASE qmgr_active_done_25_generic
  <2>1. msg.flags \in BOOLEAN
    BY <1>0 DEF TypeOK, QMGR_MESSAGE
  <2>2. PICK stage \in {"done_3", "warn", "defer"}, flags \in BOOLEAN :
           /\ Staged(stage, flags)
           /\ IF stage = "defer" THEN Asked(stage) ELSE daemon' = daemon
    BY <1>0, <1>11, <2>1, DoneDeferCases
  <2> QED BY <1>0, <1>11, <1>19, <2>2, DoneDeferCases
<1>12. CASE qmgr_active_done_3_defer_warn
  BY <1>0, <1>12, WarnCases DEF Staged, NotForgotten, OneReply, Reading
<1>13. CASE qmgr_active_done_3_generic
  BY <1>0, <1>13, FinishCases DEF Renamed, Cleared, NotForgotten, OneReply, Reading
<1>14. CASE postsuper_expire
  BY <1>0, <1>14, ExpireCases DEF NotForgotten, OneReply, Reading
<1>15. CASE qmgr_dies
  BY <1>0, <1>15, DieCases DEF Orphaned, Cleared, NotForgotten, OneReply, Reading
<1>16. CASE qmgr_post_init
  <2>1. NotForgotten'
    BY <1>0, <1>16, StartCases DEF Renamed, Cleared, NotForgotten
  <2>2. OneReply'
    BY <1>0, <1>16, StartCases DEF OneReply
  <2>3. Reading'
    BY <1>0, <1>16, StartCases DEF Cleared, Reading
  <2> QED BY <1>0, <2>1, <2>2, <2>3
<1>17. CASE UNCHANGED vars
  BY <1>0, <1>17 DEF vars, NotForgotten, OneReply, Reading
<1> QED
  BY <1>1, <1>3, <1>4, <1>5, <1>6, <1>7, <1>8, <1>9, <1>10, <1>11, <1>12, <1>13, <1>14,
     <1>15, <1>16, <1>17
  DEF Next, Step, ActiveDone

-----------------------------------------------------------------------------
(***************************************************************************)
(* Locks.                                                                  *)
(***************************************************************************)
NoTransit == "transit" \notin faults

\* Requests under way.  Those of an earlier queue manager keep the file locked
\* until they are finished, so they never meet those of the present one.
Requests ==
    /\ \A a \in Agent : agent[a].phase = "sent" => file.dir = "active"
    /\ \A a \in Agent : Busy(a) /\ ~agent[a].own => msg.stage \in {"none", "down"}
    /\ \A a \in Agent : agent[a].phase = "sent" /\ ~agent[a].own => msg.stage = "down"
    /\ \A a \in Agent : Busy(a) => file.dir # "none" /\ agent[a].rcpt \notin msg.todo
    /\ \A a, b \in Agent : a # b /\ Busy(a) /\ Busy(b) => agent[a].rcpt # agent[b].rcpt
    /\ msg.rcpt_offset # 0 =>
          /\ \A r \in msg.todo : r < msg.rcpt_offset
          /\ \A a \in Agent : Busy(a) => agent[a].rcpt < msg.rcpt_offset

\* Notifications under way.
Notifying ==
    /\ \A d \in Daemon : daemon[d].phase = "sent" => file.dir = "active"
    /\ \A d \in Daemon : daemon[d].phase \in {"open", "posted"} => daemon[d].lock
    /\ \A d \in Daemon : daemon[d].phase = "sent" /\ ~daemon[d].own => msg.stage = "down"

Locking == NoTransit => Requests /\ Notifying

LEMMA LockingInit == Init => Locking
<1> SUFFICES ASSUME Init PROVE Locking
  OBVIOUS
<1>1. /\ \A a \in Agent : agent[a].phase = "idle"
      /\ \A d \in Daemon : daemon[d].phase = "idle"
      /\ msg = NoMessage
  BY DEF Init, IdleAgent, IdleDaemon
<1> QED
  BY <1>1, NoMessageFields DEF Locking, Requests, Notifying, Busy

\* Agents are at work only while the queue manager waits for them, or after
\* it died; nobody is left to work on a message that is fed.
LEMMA LockingFacts ==
    ASSUME Control, Locking, NoTransit
    PROVE  /\ msg.stage \notin {"none", "down", "deliver"} => \A a \in Agent : ~Busy(a)
           /\ msg.stage = "none" /\ ~Locked =>
                 /\ \A a \in Agent : ~Busy(a)
                 /\ \A d \in Daemon : ~Serving(d)
           /\ msg.stage = "none" => /\ \A a \in Agent : agent[a].phase # "sent"
                                    /\ \A d \in Daemon : daemon[d].phase # "sent"
<1>1. /\ \A d \in Daemon : daemon[d].phase \in {"idle", "sent", "open", "posted"}
      /\ \A a \in Agent : agent[a].own \in BOOLEAN
  BY DEF Control, TypeOK, BOUNCE_INFO, DELIVER_REQUEST
<1> QED
  BY <1>1, ControlFacts DEF Locking, Requests, Notifying, Locked, Busy, Serving

LEMMA LockingStep ==
    ASSUME Control, Control', Locking, [Next]_vars
    PROVE  Locking'
<1> SUFFICES ASSUME NoTransit PROVE Requests' /\ Notifying'
  BY DEF Locking, NoTransit, Next, vars
<1> USE DEF Busy, Serving
<1>0. /\ TypeOK /\ Requests /\ Notifying /\ N \in Nat
      /\ msg.rcpt_offset \in 0..(N + 1) /\ msg.todo \in SUBSET Rcpt
      /\ \A a \in Agent : agent[a].rcpt \in Rcpt
      /\ \A d \in Daemon : daemon[d].phase \in {"idle", "sent", "open", "posted"}
  BY ControlFacts, RcptAssumption DEF Locking, TypeOK, QMGR_MESSAGE, DELIVER_REQUEST, BOUNCE_INFO
<1>1. CASE qmgr_active_feed
  <2>1. CASE Renamed("incoming") /\ UNCHANGED <<msg, agent, daemon>>
    BY <1>0, <1>1, <2>1, FeedCases, LockingFacts DEF Renamed, Requests, Notifying
  <2>2. CASE /\ ~Locked /\ UNCHANGED <<agent, daemon>> /\ msg'.todo \in SUBSET Rcpt
             /\ msg'.rcpt_offset # 0 => \A r \in msg'.todo : r < msg'.rcpt_offset
    BY <1>0, <1>1, <2>2, FeedCases, LockingFacts DEF Requests, Notifying
  <2>3. ASSUME NEW read \in Batch, NEW deferred \in SUBSET Rcpt,
               NEW discarded \in SUBSET Rcpt, NEW lost \in SUBSET Rcpt,
               ReadFrom(1, read), Assigned(Fresh, read, {}, deferred, discarded, lost)
        PROVE  /\ msg'.todo \in SUBSET Rcpt
               /\ msg'.rcpt_offset # 0 => \A r \in msg'.todo : r < msg'.rcpt_offset
    <3>1. msg'.todo \subseteq read.list /\ msg'.rcpt_offset = read.offset
      BY <1>0, <2>3, FreshFields DEF Assigned
    <3>2. read.list \in SUBSET Rcpt /\ read.offset \in 0..(N + 1)
      BY <1>0 DEF Batch
    <3>3. ASSUME read.offset # 0 PROVE \A r \in read.list : r < read.offset
      BY <1>0, <2>3, <3>2, <3>3 DEF ReadFrom, Rcpt
    <3> QED BY <3>1, <3>2, <3>3
  <2>4. ASSUME NEW read \in Batch, Expired(read) PROVE msg'.todo = {}
    BY <2>4 DEF Expired
  <2>5. Cleared("none") => msg'.todo = {}
    BY DEF Cleared
  <2>6. CASE ~Locked
    <3>1. UNCHANGED <<agent, daemon>>
      BY <1>0, <1>1, <2>6, FeedCases DEF Assigned
    <3>2. /\ msg'.todo \in SUBSET Rcpt
          /\ msg'.rcpt_offset # 0 => \A r \in msg'.todo : r < msg'.rcpt_offset
      BY <1>0, <1>1, <2>3, <2>4, <2>5, <2>6, FeedCases
    <3> QED BY <2>2, <2>6, <3>1, <3>2
  <2> QED BY <1>0, <1>1, <2>1, <2>6, FeedCases
<1>2. ASSUME qmgr_message_realloc, msg.rcpt_offset # 0, msg.stage \in {"deliver", "done_2"}
      PROVE  Requests' /\ Notifying'
  <2>1. CASE msg' = [msg EXCEPT !.panic = TRUE] /\ UNCHANGED <<file, agent, daemon>>
    <3>1. /\ msg'.stage = msg.stage /\ msg'.rcpt_offset = msg.rcpt_offset
          /\ msg'.todo = msg.todo
      BY <1>0, <2>1 DEF TypeOK, QMGR_MESSAGE
    <3> QED BY <1>0, <2>1, <3>1 DEF Requests, Notifying
  <2>2. ASSUME NEW read \in Batch, NEW deferred \in SUBSET Rcpt,
               NEW discarded \in SUBSET Rcpt, NEW lost \in SUBSET Rcpt,
               ReadFrom(msg.rcpt_offset, read),
               Assigned(msg, read, log.defer, deferred, discarded, lost)
        PROVE  Requests' /\ Notifying'
    <3>1. /\ agent' = agent /\ daemon' = daemon /\ file'.dir = "active"
          /\ msg'.todo \subseteq msg.todo \cup read.list /\ msg'.rcpt_offset = read.offset
          /\ msg'.stage \in {"deliver", "done"}
      BY <2>2 DEF Assigned
    <3>2. /\ read.list \in SUBSET Rcpt /\ read.offset \in 0..(N + 1)
          /\ \A r \in read.list : msg.rcpt_offset <= r
          /\ read.offset # 0 =>
                msg.rcpt_offset < read.offset /\ \A r \in read.list : r < read.offset
      BY <1>0, <2>2 DEF Batch, ReadFrom, Rcpt
    <3>3. /\ \A r \in msg.todo : r < msg.rcpt_offset
          /\ \A a \in Agent : Busy(a) => agent[a].rcpt < msg.rcpt_offset
      BY <1>0, <1>2 DEF Requests
    <3>4. Requests'
      BY <1>0, <1>2, <3>1, <3>2, <3>3 DEF Requests, Rcpt
    <3>5. Notifying'
      BY <1>0, <1>2, <3>1 DEF Notifying
    <3> QED BY <3>4, <3>5
  <2> QED BY <1>0, <1>2, <2>1, <2>2, RealBatch
<1>3. CASE qmgr_job_peer_select
  BY <1>2, <1>3 DEF qmgr_job_peer_select
<1>4. ASSUME NEW r \in Rcpt, qmgr_defer_todo(r) PROVE Requests' /\ Notifying'
  <2>1. msg.stage = "deliver"
    BY <1>0, <1>4, ControlFacts, DeferTodoCases
  <2> QED BY <1>0, <1>4, <2>1, DeferTodoCases DEF Settled, Requests, Notifying
<1>5. CASE SendRequest
  <2>1. PICK a \in Agent, r \in Rcpt : qmgr_deliver_send_request(a, r)
    BY <1>5, <1>0 DEF SendRequest
  <2>2. msg.stage = "deliver" /\ file.dir = "active"
    BY <1>0, <2>1, ControlFacts, SendCases DEF Control, NotForgotten
  <2>3. Notifying'
    BY <1>0, <2>1, <2>2, SendCases DEF Notifying
  <2>4. /\ \A b \in Agent : b # a => agent'[b] = agent[b]
        /\ agent'[a].rcpt = r /\ agent'[a].own = TRUE
        /\ r \in msg.todo /\ msg'.todo = msg.todo \ {r} /\ msg'.stage = msg.stage
        /\ msg'.rcpt_offset = msg.rcpt_offset /\ file' = file
    <3>1. \A b \in Agent \ {a} : agent'[b] = agent[b]
      BY <1>0, <2>1, SendCases
    <3>2. /\ agent'[a].rcpt = r /\ agent'[a].own = TRUE
          /\ r \in msg.todo /\ msg'.todo = msg.todo \ {r} /\ msg'.stage = msg.stage
          /\ msg'.rcpt_offset = msg.rcpt_offset /\ file' = file
      BY <1>0, <2>1, SendCases
    <3> QED BY <3>1, <3>2
  <2>5. \A b, c \in Agent : b # c /\ Busy(b)' /\ Busy(c)' => agent'[b].rcpt # agent'[c].rcpt
    BY <1>0, <2>4 DEF Requests
  <2>6. \A b \in Agent : Busy(b)' => agent'[b].rcpt \notin msg'.todo
    BY <1>0, <2>4 DEF Requests
  <2>7. msg.rcpt_offset # 0 => \A b \in Agent : Busy(b)' => agent'[b].rcpt < msg.rcpt_offset
    BY <1>0, <2>4 DEF Requests
  <2>8. Requests'
    BY <1>0, <2>2, <2>4, <2>5, <2>6, <2>7 DEF Requests
  <2> QED BY <2>3, <2>8
<1>6. ASSUME NEW a \in Agent, AgentStep(a) PROVE Requests' /\ Notifying'
  <2>1. CASE \E phase \in {"open", "delivered", "bounced", "ok", "failed"} :
               /\ agent[a].phase # "idle" /\ Moved(a, phase)
               /\ file'.dir = file.dir
               /\ UNCHANGED <<msg, daemon>>
    BY <1>0, <2>1 DEF Moved, Requests, Notifying
  <2>2. ASSUME NEW failed \in BOOLEAN, agent[a].phase # "idle", Gone(a, failed)
        PROVE  Requests' /\ Notifying'
    <3>1. CASE agent[a].own
      BY <1>0, <2>2, <3>1, ControlFacts DEF Gone, Settled, Requests, Notifying
    <3>2. CASE ~agent[a].own
      BY <1>0, <2>2, <3>2 DEF Gone, Requests, Notifying
    <3> QED BY <3>1, <3>2
  <2> QED BY <1>0, <1>6, <2>1, <2>2, AgentCases
<1>7. ASSUME NEW d \in Daemon, DaemonStep(d) PROVE Requests' /\ Notifying'
  <2>1. ASSUME NEW failed \in BOOLEAN, Replied(d, failed)
        PROVE  /\ msg'.todo = msg.todo /\ msg'.rcpt_offset = msg.rcpt_offset
               /\ msg' = msg \/ msg.stage \notin {"none", "down", "deliver"}
    BY <1>0, <2>1, ControlFacts DEF Replied, Staged
  <2>2. ASSUME UNCHANGED <<file, agent>>, msg'.todo = msg.todo, msg'.rcpt_offset = msg.rcpt_offset,
               msg' = msg \/ msg.stage \notin {"none", "down", "deliver"}
        PROVE  Requests'
    BY <1>0, <2>2, LockingFacts DEF Requests
  <2>3. CASE Idle(d) /\ \E failed \in BOOLEAN : Replied(d, failed) /\ UNCHANGED <<file, agent>>
    BY <1>0, <2>1, <2>2, <2>3 DEF Idle, Notifying
  <2>4. CASE \E phase, lock, own, rcpts : Working(d, phase, lock, own, rcpts)
                /\ phase \in {"open", "posted"}
                /\ lock = (file.dir = "active") /\ daemon[d].phase = "sent"
                /\ UNCHANGED <<file, agent, msg>>
    BY <1>0, <2>2, <2>4 DEF Working, Notifying
  <2>5. CASE \E phase, own, rcpts : Working(d, phase, daemon[d].lock, own, rcpts)
                /\ phase \in {"open", "posted"} /\ daemon[d].phase \in {"open", "posted"}
                /\ UNCHANGED <<file, agent>>
                /\ (msg' = msg \/ \E failed \in BOOLEAN : Replied(d, failed))
    BY <1>0, <2>1, <2>2, <2>5 DEF Working, Notifying
  <2> QED BY <1>0, <1>7, <2>3, <2>4, <2>5, DaemonCases
<1>8. ASSUME NEW stage, NEW flags, Staged(stage, flags), UNCHANGED <<file, agent>>,
             msg.stage \notin {"none", "down", "deliver"},
             daemon' = daemon \/ Asked("bounce") \/ Asked("defer")
      PROVE  Requests' /\ Notifying'
  <2>1. file.dir = "active" /\ \A a \in Agent : ~Busy(a)
    BY <1>0, <1>8, LockingFacts DEF Control, NotForgotten
  <2>2. Requests'
    BY <1>0, <1>8, <2>1 DEF Staged, Requests
  <2>3. Notifying'
    BY <1>0, <1>8, <2>1 DEF Staged, Notifying, Asked
  <2> QED BY <2>2, <2>3
<1>9. CASE qmgr_active_done
  BY <1>0, <1>8, <1>9, DoneCases
<1>10. ASSUME Renamed("corrupt") \/ Renamed("deferred") \/ Renamed("none"), Cleared("none"),
              msg.stage \in {"done_2", "done_3"}, UNCHANGED <<agent, daemon>>
       PROVE  Requests' /\ Notifying'
  BY <1>0, <1>10, LockingFacts, ControlFacts DEF Cleared, Requests, Notifying
<1>11. CASE qmgr_active_done_2_generic
  BY <1>0, <1>2, <1>8, <1>10, <1>11, DoneTwoCases
<1>12. CASE qmgr_active_done_25_trace_flush
  BY <1>0, <1>8, <1>12, TraceCases
<1>13. CASE qmgr_active_done_25_generic
  BY <1>0, <1>8, <1>13, DoneDeferCases
<1>14. CASE qmgr_active_done_3_defer_warn
  BY <1>0, <1>8, <1>14, WarnCases
<1>15. CASE qmgr_active_done_3_generic
  BY <1>0, <1>10, <1>15, FinishCases
<1>16. CASE postsuper_expire
  BY <1>0, <1>16, ExpireCases DEF Requests, Notifying
<1>17. CASE qmgr_dies
  <2>3. /\ file' = file /\ msg'.stage = "down" /\ msg'.todo = {} /\ msg'.rcpt_offset = 0
        /\ \A a \in Agent : agent'[a].phase = agent[a].phase /\ agent'[a].rcpt = agent[a].rcpt
    BY <1>0, <1>17, DieCases DEF Orphaned, Cleared
  <2>1. Requests'
    BY <1>0, <2>3 DEF Requests
  <2>2. Notifying'
    BY <1>0, <1>17, DieCases DEF Orphaned, Cleared, Notifying
  <2> QED BY <2>1, <2>2
<1>18. CASE qmgr_post_init
  <2>1. ~InTransit
    BY <1>0, <1>18, StartCases DEF NoTransit
  <2> QED BY <1>0, <1>18, <2>1, StartCases DEF Renamed, Cleared, InTransit, Requests, Notifying
<1>19. CASE UNCHANGED vars
  BY <1>0, <1>19 DEF vars, Requests, Notifying
<1> QED
  BY <1>1, <1>3, <1>4, <1>5, <1>6, <1>7, <1>9, <1>11, <1>12, <1>13, <1>14,
     <1>15, <1>16, <1>17, <1>18, <1>19
  DEF Next, Step, ActiveDone

-----------------------------------------------------------------------------
(***************************************************************************)
(* Notifications.                                                          *)
(***************************************************************************)
Patient == NoTransit /\ ~({"batch", "timeout"} \subseteq faults)

\* A log does not grow while somebody reads it.
Quiet ==
    /\ \A d \in Daemon : Serving(d) =>
          /\ msg.stage \notin {"deliver", "done"}
          /\ \A a \in Agent : ~Busy(a)
    /\ \A d \in Daemon : Serving(d) /\ ~daemon[d].own /\ msg.stage \notin {"none", "down"}
          => "timeout" \in faults
    /\ \A d \in Daemon : daemon[d].phase \in {"open", "posted"} =>
          log[daemon[d].service] \subseteq daemon[d].rcpts
    /\ \A d \in Daemon : daemon[d].phase = "posted" =>
          (IF daemon[d].rcpts = {} THEN Rcpt ELSE daemon[d].rcpts) \subseteq notified

\* The marks in the queue file are about recipients who are taken care of.
Marks ==
    /\ \A a \in Agent : agent[a].phase = "delivered" => agent[a].rcpt \in delivered
    /\ \A a \in Agent : agent[a].phase = "bounced" => agent[a].rcpt \in log.bounce
    /\ \A a \in Agent : agent[a].phase = "ok" => agent[a].rcpt \in file.done
    /\ \A r \in file.done : r \in delivered \cup notified \cup log.bounce

Reporting == Patient => Quiet /\ Marks

LEMMA ReportingInit == Init => Reporting
<1> SUFFICES ASSUME Init PROVE Reporting
  OBVIOUS
<1>1. /\ \A a \in Agent : agent[a].phase = "idle"
      /\ \A d \in Daemon : daemon[d].phase = "idle"
      /\ file.done = {}
  BY DEF Init, IdleAgent, IdleDaemon
<1> QED
  BY <1>1 DEF Reporting, Quiet, Marks, Serving

\* Nothing that a daemon or a mark depends on changes.
LEMMA QuietFrame ==
    ASSUME Quiet, faults' = faults, UNCHANGED <<log, agent, daemon, notified>>,
           \A d \in Daemon : Serving(d) =>
               /\ msg'.stage \notin {"deliver", "done"}
               /\ msg.stage \in {"none", "down"} => msg'.stage \in {"none", "down"}
    PROVE  Quiet'
BY DEF Quiet, Serving, Busy

LEMMA MarksFrame ==
    ASSUME Marks, UNCHANGED <<agent, log, notified>>,
           \E R \in SUBSET Rcpt : delivered' = delivered \cup R /\ file'.done = file.done \cup R
    PROVE  Marks'
BY DEF Marks

LEMMA ReportingStep ==
    ASSUME Control, Control', Locking, Locking', Reporting, [Next]_vars
    PROVE  Reporting'
<1> SUFFICES ASSUME Patient PROVE Quiet' /\ Marks'
  BY DEF Reporting, Patient, NoTransit, Next, vars
<1> USE DEF Busy, Serving
<1>0. /\ TypeOK /\ NoTransit /\ Quiet /\ Marks /\ faults' = faults
      /\ \A a \in Agent : agent[a].rcpt \in Rcpt
      /\ \A d \in Daemon : daemon[d].phase \in {"idle", "sent", "open", "posted"}
      /\ \A d \in Daemon : daemon[d].service \in {"bounce", "defer"}
      /\ log.bounce \in SUBSET Rcpt /\ log.defer \in SUBSET Rcpt
  BY ControlFacts
  DEF Reporting, Patient, Next, vars, TypeOK, QMGR_MESSAGE, DELIVER_REQUEST, BOUNCE_INFO
<1>1. ASSUME NEW m, NEW read, NEW kept, NEW deferred \in SUBSET Rcpt,
             NEW discarded \in SUBSET Rcpt, NEW lost \in SUBSET Rcpt,
             \A d \in Daemon : ~Serving(d), Assigned(m, read, kept, deferred, discarded, lost)
      PROVE  Quiet' /\ Marks'
  <2>1. /\ UNCHANGED <<agent, daemon, notified>> /\ log'.bounce = log.bounce
        /\ file'.done = file.done \cup discarded /\ delivered' = delivered \cup discarded
    BY <1>1 DEF Assigned
  <2>2. Quiet'
    BY <1>0, <1>1, <2>1 DEF Quiet
  <2>3. Marks'
    BY <1>0, <2>1 DEF Marks
  <2> QED BY <2>2, <2>3
<1>2. ASSUME UNCHANGED <<log, agent, daemon, delivered, notified>>, file'.done = file.done,
             \A d \in Daemon : Serving(d) =>
                /\ msg'.stage \notin {"deliver", "done"}
                /\ msg.stage \in {"none", "down"} => msg'.stage \in {"none", "down"}
      PROVE  Quiet' /\ Marks'
  <2>1. \E R \in SUBSET Rcpt : delivered' = delivered \cup R /\ file'.done = file.done \cup R
    <3>1. delivered' = delivered \cup {} /\ file'.done = file.done \cup {}
      BY <1>2
    <3> QED BY <3>1
  <2> QED BY <1>0, <1>2, <2>1, QuietFrame, MarksFrame
<1>3. CASE qmgr_active_feed
  <2>1. CASE Locked
    BY <1>0, <1>2, <1>3, <2>1, FeedCases DEF Renamed, Quiet
  <2>2. CASE ~Locked
    <3>1. \A d \in Daemon : ~Serving(d)
      BY <1>0, <1>3, <2>2, FeedCases, LockingFacts
    <3> QED BY <1>0, <1>1, <1>2, <1>3, <2>2, <3>1, FeedCases DEF Renamed
  <2> QED BY <2>1, <2>2
<1>4. ASSUME qmgr_message_realloc, msg.rcpt_offset # 0, msg.stage \in {"deliver", "done_2"}
      PROVE  Quiet' /\ Marks'
  <2>1. \A d \in Daemon : ~Serving(d)
    <3>1. "batch" \in faults
      BY <1>4 DEF Control, Reading
    <3>2. "timeout" \notin faults
      BY <3>1 DEF Patient
    <3> QED BY <1>0, <1>4, <3>2, ControlFacts DEF Quiet
  <2> QED BY <1>0, <1>1, <1>2, <1>4, <2>1, RealBatch
<1>5. CASE qmgr_job_peer_select
  BY <1>4, <1>5 DEF qmgr_job_peer_select
<1>6. ASSUME msg.stage = "deliver", \A d \in Daemon : daemon'[d] = daemon[d]
      PROVE  Quiet'
  BY <1>0, <1>6 DEF Quiet
<1>7. ASSUME NEW r \in Rcpt, qmgr_defer_todo(r) PROVE Quiet' /\ Marks'
  <2>1. msg.stage = "deliver"
    BY <1>0, <1>7, ControlFacts, DeferTodoCases
  <2> QED BY <1>0, <1>6, <1>7, <2>1, DeferTodoCases DEF Marks
<1>8. CASE SendRequest
  <2>1. PICK a \in Agent, r \in Rcpt : qmgr_deliver_send_request(a, r)
    BY <1>8, <1>0 DEF SendRequest, TypeOK, QMGR_MESSAGE
  <2>2. msg.stage = "deliver"
    BY <1>0, <2>1, ControlFacts, SendCases
  <2>3. Quiet'
    BY <1>0, <1>6, <2>1, <2>2, SendCases
  <2>4. \A b \in Agent \ {a} : agent'[b] = agent[b]
    BY <1>0, <2>1, SendCases
  <2>5. agent'[a].phase = "sent" /\ UNCHANGED <<file, log, delivered, notified>>
    BY <1>0, <2>1, SendCases
  <2>6. Marks'
    BY <1>0, <2>4, <2>5 DEF Marks
  <2> QED BY <2>3, <2>6
<1>9. ASSUME NEW a \in Agent, AgentStep(a) PROVE Quiet' /\ Marks'
  <2>1. daemon' = daemon /\ Busy(a)
    BY <1>0, <1>9, AgentCases DEF Gone
  <2>2. Quiet'
    BY <1>0, <2>1 DEF Quiet
  <2>3. CASE \E failed \in BOOLEAN : Gone(a, failed)
    BY <1>0, <2>2, <2>3 DEF Gone, Marks
  <2>4. CASE /\ \E phase \in {"open", "failed"} : Moved(a, phase)
             /\ log'.bounce = log.bounce /\ file'.done = file.done
             /\ UNCHANGED <<delivered, notified>>
    BY <1>0, <2>2, <2>4 DEF Moved, Marks
  <2>5. CASE /\ Moved(a, "delivered") /\ delivered' = delivered \cup {agent[a].rcpt}
             /\ UNCHANGED <<file, log, notified>>
    BY <1>0, <2>2, <2>5 DEF Moved, Marks
  <2>6. CASE /\ Moved(a, "bounced") /\ log'.bounce = log.bounce \cup {agent[a].rcpt}
             /\ UNCHANGED <<file, delivered, notified>>
    BY <1>0, <2>2, <2>6 DEF Moved, Marks
  <2>7. CASE /\ agent[a].phase \in {"delivered", "bounced"} /\ Moved(a, "ok")
             /\ file'.done = file.done \cup {agent[a].rcpt}
             /\ UNCHANGED <<log, delivered, notified>>
    BY <1>0, <2>2, <2>7 DEF Moved, Marks
  <2> QED BY <1>0, <1>9, <2>3, <2>4, <2>5, <2>6, <2>7, AgentCases
<1>10. ASSUME NEW d \in Daemon, DaemonStep(d) PROVE Quiet' /\ Marks'
  <2>1. ASSUME NEW failed \in BOOLEAN, Replied(d, failed)
        PROVE  \/ msg' = msg
               \/ msg.stage \in {"bounce", "defer"} /\ msg'.stage \in {"done_2", "done_3"}
    BY <1>0, <2>1, ControlFacts DEF Replied, Staged
  <2>2. CASE /\ daemon[d].phase = "sent"
             /\ Working(d, "open", file.dir = "active", daemon[d].own, log[daemon[d].service])
             /\ UNCHANGED <<file, log, msg, agent, delivered, notified>>
    <3>1. Quiet'
      BY <1>0, <2>2 DEF Working, Quiet
    <3> QED BY <1>0, <2>2, <3>1 DEF Marks
  <2>3. CASE /\ daemon[d].phase = "open"
             /\ Working(d, "posted", daemon[d].lock, daemon[d].own, daemon[d].rcpts)
             /\ notified' = notified \cup
                               (IF daemon[d].rcpts = {} THEN Rcpt ELSE daemon[d].rcpts)
             /\ UNCHANGED <<file, log, msg, agent, delivered>>
    <3>1. Quiet'
      BY <1>0, <2>3 DEF Working, Quiet
    <3> QED BY <1>0, <2>3, <3>1 DEF Marks
  <2>4. CASE /\ daemon[d].phase = "posted" /\ Idle(d) /\ Replied(d, FALSE)
             /\ log'[daemon[d].service] = {}
             /\ \A s \in {"bounce", "defer"} \ {daemon[d].service} : log'[s] = log[s]
             /\ UNCHANGED <<file, agent, delivered, notified>>
    <3>1. \A s \in {"bounce", "defer"} : log'[s] \subseteq log[s]
      BY <2>4
    <3>2. Quiet'
      BY <1>0, <2>1, <2>4, <3>1 DEF Idle, Quiet
    <3>3. log.bounce \subseteq log'.bounce \cup notified
      BY <1>0, <2>4 DEF Quiet
    <3>4. Marks'
      BY <1>0, <2>4, <3>3 DEF Marks, Quiet
    <3> QED BY <3>2, <3>4
  <2>5. CASE /\ daemon[d].phase # "idle" /\ Idle(d) /\ Replied(d, TRUE)
             /\ UNCHANGED <<file, log, agent, delivered, notified>>
    <3>1. Quiet'
      BY <1>0, <2>1, <2>5 DEF Idle, Quiet
    <3> QED BY <1>0, <2>5, <3>1 DEF Marks
  <2>6. CASE /\ "timeout" \in faults /\ Serving(d)
             /\ Working(d, daemon[d].phase, daemon[d].lock, FALSE, daemon[d].rcpts)
             /\ Replied(d, TRUE)
             /\ UNCHANGED <<file, log, agent, delivered, notified>>
    <3>1. Quiet'
      BY <1>0, <2>1, <2>6 DEF Working, Quiet
    <3> QED BY <1>0, <2>6, <3>1 DEF Marks
  <2> QED BY <1>0, <1>10, <2>2, <2>3, <2>4, <2>5, <2>6, DaemonCases
<1>11. ASSUME NEW service \in {"bounce", "defer"}, NEW flags, Asked(service),
              Staged(service, flags), msg.stage \in {"done", "done_25"},
              UNCHANGED <<file, log, agent, delivered, notified>>
       PROVE  Quiet' /\ Marks'
  <2>1. \A a \in Agent : ~Busy(a)
    BY <1>0, <1>11, LockingFacts
  <2>2. Quiet'
    BY <1>0, <1>11, <2>1 DEF Asked, Staged, Quiet
  <2> QED BY <1>0, <1>11, <2>2 DEF Marks
<1>12. CASE qmgr_active_done
  BY <1>0, <1>2, <1>11, <1>12, DoneCases DEF Staged
<1>13. CASE qmgr_active_done_2_generic
  BY <1>0, <1>2, <1>4, <1>13, DoneTwoCases DEF Staged, Cleared, Renamed
<1>14. CASE qmgr_active_done_25_trace_flush
  BY <1>0, <1>2, <1>14, TraceCases DEF Staged
<1>15. CASE qmgr_active_done_25_generic
  BY <1>0, <1>2, <1>11, <1>15, DoneDeferCases DEF Staged
<1>16. CASE qmgr_active_done_3_defer_warn
  BY <1>0, <1>2, <1>16, WarnCases DEF Staged
<1>17. CASE qmgr_active_done_3_generic
  BY <1>0, <1>2, <1>17, FinishCases DEF Cleared, Renamed
<1>18. CASE postsuper_expire
  BY <1>0, <1>2, <1>18, ExpireCases DEF Quiet
<1>19. CASE qmgr_dies
  <2>2. /\ msg'.stage = "down" /\ UNCHANGED <<file, log, delivered, notified>>
        /\ \A a \in Agent : agent'[a].phase = agent[a].phase
        /\ \A d \in Daemon : /\ daemon'[d].phase = daemon[d].phase
                             /\ daemon'[d].service = daemon[d].service
                             /\ daemon'[d].rcpts = daemon[d].rcpts
    BY <1>0, <1>19, DieCases DEF Orphaned, Cleared
  <2>1. Quiet'
    BY <1>0, <2>2 DEF Quiet
  <2> QED BY <1>0, <1>19, <2>1, DieCases DEF Orphaned, Marks
<1>20. CASE qmgr_post_init
  BY <1>0, <1>2, <1>20, StartCases DEF Cleared, Renamed
<1>21. CASE UNCHANGED vars
  BY <1>0, <1>2, <1>21 DEF vars, Quiet
<1> QED
  BY <1>3, <1>5, <1>7, <1>8, <1>9, <1>10, <1>12, <1>13, <1>14,
     <1>15, <1>16, <1>17, <1>18, <1>19, <1>20, <1>21
  DEF Next, Step, ActiveDone

-----------------------------------------------------------------------------
(***************************************************************************)
(* The defer log.                                                          *)
(***************************************************************************)

\* A recipient is marked as done, in the defer log, or still to be tried.
Deferred ==
    /\ log.defer \cap file.done = {}
    /\ msg.todo \cap (file.done \cup log.defer) = {}
    /\ msg.rcpt_offset # 0 /\ msg.rcpt_list = {} => \A r \in log.defer : r < msg.rcpt_offset
    /\ \A a \in Agent : agent[a].phase \in {"sent", "open", "delivered", "bounced"} =>
          agent[a].rcpt \notin file.done \cup log.defer

Truthful == NoTransit => Deferred

LEMMA TruthfulInit == Init => Truthful
<1> SUFFICES ASSUME Init PROVE Truthful
  OBVIOUS
<1>1. /\ \A a \in Agent : agent[a].phase = "idle"
      /\ file.done = {} /\ log.defer = {} /\ msg = NoMessage
  BY DEF Init, IdleAgent
<1> QED
  BY <1>1, NoMessageFields DEF Truthful, Deferred

LEMMA TruthfulStep ==
    ASSUME Control, Control', Locking, Locking', Truthful, [Next]_vars
    PROVE  Truthful'
<1> SUFFICES ASSUME NoTransit PROVE Deferred'
  BY DEF Truthful, NoTransit, Next, vars
<1> USE DEF Busy, Serving
<1>0. /\ TypeOK /\ Deferred /\ Requests /\ N \in Nat
      /\ msg.rcpt_offset \in 0..(N + 1) /\ msg.todo \in SUBSET Rcpt
      /\ \A a \in Agent : agent[a].rcpt \in Rcpt
      /\ file.done \in SUBSET Rcpt /\ log.defer \in SUBSET Rcpt
      /\ \A d \in Daemon : daemon[d].service \in {"bounce", "defer"}
  BY ControlFacts, RcptAssumption
  DEF Truthful, Locking, TypeOK, QMGR_MESSAGE, DELIVER_REQUEST, QueueFile
<1>1. ASSUME file'.done = file.done, log'.defer \subseteq log.defer,
             msg'.todo \subseteq msg.todo,
             msg'.rcpt_offset # 0 /\ msg'.rcpt_list = {} =>
                msg'.rcpt_offset = msg.rcpt_offset /\ msg.rcpt_list = {},
             \A a \in Agent : agent'[a].phase \in {"sent", "open", "delivered", "bounced"} =>
                /\ agent[a].phase \in {"sent", "open", "delivered", "bounced"}
                /\ agent'[a].rcpt = agent[a].rcpt
      PROVE  Deferred'
  BY <1>0, <1>1 DEF Deferred
<1>2. CASE qmgr_active_feed
  <2>1. ASSUME NEW read \in Batch, Expired(read), ReadFrom(1, read), Renamed("active"),
               UNCHANGED <<log, agent>>
        PROVE  Deferred'
    BY <1>0, <1>1, <2>1 DEF Expired, ReadFrom, Renamed
  <2>2. ASSUME NEW read \in Batch, NEW deferred \in SUBSET Rcpt,
               NEW discarded \in SUBSET Rcpt, NEW lost \in SUBSET Rcpt, ~Locked,
               ReadFrom(1, read), Assigned(Fresh, read, {}, deferred, discarded, lost)
        PROVE  Deferred'
    <3>1. agent' = agent /\ \A a \in Agent : ~Busy(a)
      BY <1>0, <1>2, <2>2, FeedCases, LockingFacts DEF Assigned
    <3>2. /\ deferred \subseteq read.list /\ discarded \subseteq read.list
          /\ deferred \cap discarded = {}
          /\ msg'.todo = read.list \ (deferred \cup discarded)
          /\ log'.defer \subseteq deferred /\ file'.done = file.done \cup discarded
          /\ msg'.rcpt_offset = read.offset
      BY <1>0, <2>2, FreshFields DEF Assigned
    <3>3. /\ read.list \cap file.done = {} /\ read.list \in SUBSET Rcpt
          /\ read.offset # 0 => \A r \in read.list : r < read.offset
      BY <1>0, <2>2 DEF ReadFrom, Batch, Rcpt
    <3> QED BY <1>0, <3>1, <3>2, <3>3 DEF Deferred
  <2> QED BY <1>0, <1>1, <1>2, <2>1, <2>2, FeedCases DEF Renamed, Cleared
<1>3. ASSUME qmgr_message_realloc, msg.rcpt_offset # 0 PROVE Deferred'
  <2>1. CASE msg' = [msg EXCEPT !.panic = TRUE] /\ UNCHANGED <<file, log, agent>>
    <3>1. /\ msg'.rcpt_list = msg.rcpt_list /\ msg'.rcpt_offset = msg.rcpt_offset
          /\ msg'.todo = msg.todo
      BY <1>0, <2>1 DEF TypeOK, QMGR_MESSAGE
    <3> QED BY <1>0, <1>1, <2>1, <3>1
  <2>2. ASSUME NEW read \in Batch, NEW deferred \in SUBSET Rcpt,
               NEW discarded \in SUBSET Rcpt, NEW lost \in SUBSET Rcpt,
               msg.rcpt_list = {}, ReadFrom(msg.rcpt_offset, read),
               Assigned(msg, read, log.defer, deferred, discarded, lost)
        PROVE  Deferred'
    <3>1. /\ deferred \subseteq read.list /\ discarded \subseteq read.list
          /\ deferred \cap discarded = {} /\ agent' = agent
          /\ msg'.todo = msg.todo \cup (read.list \ (deferred \cup discarded))
          /\ log'.defer \subseteq log.defer \cup deferred
          /\ file'.done = file.done \cup discarded
          /\ msg'.rcpt_offset = read.offset
      BY <1>0, <2>2 DEF Assigned
    <3>2. /\ read.list \cap file.done = {} /\ read.list \in SUBSET Rcpt
          /\ \A r \in read.list : msg.rcpt_offset <= r
          /\ read.offset # 0 => /\ msg.rcpt_offset < read.offset
                                /\ \A r \in read.list : r < read.offset
          /\ read.offset \in 0..(N + 1)
      BY <1>0, <2>2 DEF ReadFrom, Batch, Rcpt
    <3>3. /\ read.list \cap log.defer = {} /\ read.list \cap msg.todo = {}
          /\ \A a \in Agent : Busy(a) => agent[a].rcpt \notin read.list
      <4>1. \A r \in Rcpt : ~(r < msg.rcpt_offset /\ msg.rcpt_offset <= r)
        BY <1>0 DEF Rcpt
      <4> QED BY <1>0, <1>3, <2>2, <3>2, <4>1 DEF Deferred, Requests
    <3>4. read.offset # 0 => \A r \in log.defer : r < read.offset
      BY <1>0, <1>3, <2>2, <3>2 DEF Deferred, Rcpt
    <3>5. /\ log'.defer \cap file'.done = {}
          /\ msg'.todo \cap (file'.done \cup log'.defer) = {}
      BY <1>0, <3>1, <3>2, <3>3 DEF Deferred
    <3>6. \A a \in Agent : agent[a].phase \in {"sent", "open", "delivered", "bounced"} =>
             agent[a].rcpt \notin file'.done \cup log'.defer
      BY <1>0, <3>1, <3>3 DEF Deferred
    <3> QED BY <1>0, <3>1, <3>2, <3>4, <3>5, <3>6 DEF Deferred
  <2> QED BY <1>0, <1>3, <2>1, <2>2, RealBatch
<1>4. CASE qmgr_job_peer_select
  BY <1>3, <1>4 DEF qmgr_job_peer_select
<1>5. ASSUME NEW r \in Rcpt, qmgr_defer_todo(r) PROVE Deferred'
  BY <1>0, <1>5, DeferTodoCases DEF Settled, Deferred, Requests
<1>6. CASE SendRequest
  <2>1. PICK a \in Agent, r \in Rcpt : qmgr_deliver_send_request(a, r)
    BY <1>6, <1>0 DEF SendRequest
  <2>2. \A b \in Agent \ {a} : agent'[b] = agent[b]
    BY <1>0, <2>1, SendCases
  <2>3. /\ agent'[a].rcpt = r /\ r \in msg.todo /\ msg'.todo = msg.todo \ {r}
        /\ msg'.rcpt_offset = msg.rcpt_offset /\ msg'.rcpt_list = msg.rcpt_list
        /\ UNCHANGED <<file, log>>
    BY <1>0, <2>1, SendCases
  <2> QED BY <1>0, <2>2, <2>3 DEF Deferred
<1>7. ASSUME NEW a \in Agent, AgentStep(a) PROVE Deferred'
  <2>1. CASE \E failed \in BOOLEAN : Gone(a, failed)
    BY <1>0, <1>1, <2>1 DEF Gone, Settled
  <2>2. CASE /\ \E phase \in {"open", "delivered", "bounced", "failed"} : Moved(a, phase)
             /\ agent[a].phase \in {"sent", "open"}
             /\ log'.defer = log.defer /\ file'.done = file.done /\ msg' = msg
    BY <1>0, <1>1, <2>2 DEF Moved
  <2>3. ASSUME Moved(a, "failed"), agent[a].phase = "open", UNCHANGED <<file, msg>>,
               log'.defer = log.defer \cup {agent[a].rcpt}
        PROVE  Deferred'
    <3>1. /\ agent[a].rcpt \notin file.done /\ agent[a].rcpt \notin msg.todo
          /\ msg.rcpt_offset # 0 => agent[a].rcpt < msg.rcpt_offset
          /\ \A b \in Agent : b # a /\ Busy(b) => agent[b].rcpt # agent[a].rcpt
      BY <1>0, <2>3 DEF Deferred, Requests
    <3> QED BY <1>0, <2>3, <3>1 DEF Moved, Deferred
  <2>4. ASSUME Moved(a, "ok"), agent[a].phase \in {"delivered", "bounced"},
               UNCHANGED <<log, msg>>, file'.done = file.done \cup {agent[a].rcpt}
        PROVE  Deferred'
    <3>1. /\ agent[a].rcpt \notin log.defer /\ agent[a].rcpt \notin msg.todo
          /\ \A b \in Agent : b # a /\ Busy(b) => agent[b].rcpt # agent[a].rcpt
      BY <1>0, <2>4 DEF Deferred, Requests
    <3> QED BY <1>0, <2>4, <3>1 DEF Moved, Deferred
  <2> QED BY <1>0, <1>7, <2>1, <2>2, <2>3, <2>4, AgentCases
<1>8. ASSUME NEW d \in Daemon, DaemonStep(d) PROVE Deferred'
  <2>1. ASSUME NEW failed \in BOOLEAN, Replied(d, failed)
        PROVE  /\ msg'.todo = msg.todo /\ msg'.rcpt_offset = msg.rcpt_offset
               /\ msg'.rcpt_list = msg.rcpt_list
    BY <1>0, <2>1 DEF Replied, Staged
  <2>2. log'.defer \subseteq log.defer /\ UNCHANGED <<file, agent>>
    BY <1>0, <1>8, DaemonCases
  <2>3. /\ msg'.todo = msg.todo /\ msg'.rcpt_offset = msg.rcpt_offset
        /\ msg'.rcpt_list = msg.rcpt_list
    BY <1>0, <1>8, <2>1, DaemonCases
  <2> QED BY <1>0, <1>1, <2>2, <2>3
<1>9. CASE qmgr_active_done
  BY <1>0, <1>1, <1>9, DoneCases DEF Staged
<1>10. CASE qmgr_active_done_2_generic
  BY <1>0, <1>1, <1>3, <1>10, DoneTwoCases DEF Staged, Cleared, Renamed
<1>11. CASE qmgr_active_done_25_trace_flush
  BY <1>0, <1>1, <1>11, TraceCases DEF Staged
<1>12. CASE qmgr_active_done_25_generic
  BY <1>0, <1>1, <1>12, DoneDeferCases DEF Staged
<1>13. CASE qmgr_active_done_3_defer_warn
  BY <1>0, <1>1, <1>13, WarnCases DEF Staged
<1>14. CASE qmgr_active_done_3_generic
  BY <1>0, <1>1, <1>14, FinishCases DEF Cleared, Renamed
<1>15. CASE postsuper_expire
  BY <1>0, <1>1, <1>15, ExpireCases
<1>16. CASE qmgr_dies
  BY <1>0, <1>1, <1>16, DieCases DEF Orphaned, Cleared
<1>17. CASE qmgr_post_init
  BY <1>0, <1>1, <1>17, StartCases DEF Cleared, Renamed
<1>18. CASE UNCHANGED vars
  BY <1>0, <1>1, <1>18 DEF vars
<1> QED
  BY <1>2, <1>4, <1>5, <1>6, <1>7, <1>8, <1>9, <1>10, <1>11, <1>12, <1>13, <1>14,
     <1>15, <1>16, <1>17, <1>18
  DEF Next, Step, ActiveDone

-----------------------------------------------------------------------------
(***************************************************************************)
(* The bounce log.                                                         *)
(***************************************************************************)
Sober == faults \subseteq {"batch", "expire", "restart"}

\* Without faults of an agent, a recipient that is not marked as done was not
\* tried, or is just being finished with; and it has only one outcome.
Once ==
    /\ log.bounce \cap delivered = {}
    /\ \A r \in delivered \ file.done :
          \E a \in Agent : agent[a].phase = "delivered" /\ agent[a].rcpt = r
    /\ \A r \in log.bounce \ file.done :
          \E a \in Agent : agent[a].phase = "bounced" /\ agent[a].rcpt = r
    /\ \A d \in Daemon : daemon[d].phase \in {"open", "posted"} =>
          daemon[d].rcpts \cap delivered = {}

Honest == Sober => Once

LEMMA HonestInit == Init => Honest
<1> SUFFICES ASSUME Init PROVE Honest
  OBVIOUS
<1>1. /\ \A d \in Daemon : daemon[d].phase = "idle"
      /\ log.bounce = {} /\ delivered = {}
  BY DEF Init, IdleDaemon
<1> QED
  BY <1>1 DEF Honest, Once

LEMMA HonestStep ==
    ASSUME Control, Control', Locking, Locking', Reporting, Truthful, Honest, [Next]_vars
    PROVE  Honest'
<1> SUFFICES ASSUME Sober PROVE Once'
  BY DEF Honest, Sober, Next, vars
<1> USE DEF Busy, Serving
<1>0. /\ TypeOK /\ NoTransit /\ Quiet /\ Deferred /\ Requests /\ Once /\ N \in Nat
      /\ "agent" \notin faults /\ "timeout" \notin faults
      /\ msg.rcpt_offset \in 0..(N + 1)
      /\ \A a \in Agent : agent[a].rcpt \in Rcpt
      /\ \A d \in Daemon : daemon[d].service \in {"bounce", "defer"}
  BY ControlFacts, RcptAssumption
  DEF Sober, NoTransit, Patient, Reporting, Truthful, Honest, Locking, TypeOK, QMGR_MESSAGE,
      DELIVER_REQUEST
<1>1. ASSUME UNCHANGED <<delivered, agent>>, file'.done = file.done,
             log'.bounce \subseteq log.bounce,
             \A d \in Daemon : daemon'[d].phase \in {"open", "posted"} =>
                \/ daemon[d].phase \in {"open", "posted"} /\ daemon'[d].rcpts = daemon[d].rcpts
                \/ daemon'[d].rcpts \cap delivered = {}
      PROVE  Once'
  BY <1>0, <1>1 DEF Once
<1>2. ASSUME NEW m, NEW read, NEW kept, NEW deferred \in SUBSET Rcpt,
             NEW discarded \in SUBSET Rcpt, NEW lost \in SUBSET Rcpt,
             \A d \in Daemon : ~Serving(d), Assigned(m, read, kept, deferred, discarded, lost),
             read.list \cap file.done = {},
             \A a \in Agent : Busy(a) => agent[a].rcpt \notin read.list
      PROVE  Once'
  <2>1. /\ discarded \subseteq read.list /\ UNCHANGED <<agent, daemon>>
        /\ log'.bounce = log.bounce /\ file'.done = file.done \cup discarded
        /\ delivered' = delivered \cup discarded
    BY <1>2 DEF Assigned
  <2>2. discarded \cap log.bounce = {}
    BY <1>0, <1>2, <2>1 DEF Once
  <2> QED BY <1>0, <1>2, <2>1, <2>2 DEF Once
<1>3. CASE qmgr_active_feed
  <2>1. CASE Locked
    BY <1>0, <1>1, <1>3, <2>1, FeedCases DEF Renamed
  <2>2. CASE ~Locked
    <3>1. (\A d \in Daemon : ~Serving(d)) /\ \A a \in Agent : ~Busy(a)
      BY <1>0, <1>3, <2>2, FeedCases, LockingFacts
    <3> QED BY <1>0, <1>1, <1>2, <1>3, <2>2, <3>1, FeedCases DEF Renamed, ReadFrom
  <2> QED BY <2>1, <2>2
<1>4. ASSUME qmgr_message_realloc, msg.rcpt_offset # 0, msg.stage \in {"deliver", "done_2"}
      PROVE  Once'
  <2>1. \A d \in Daemon : ~Serving(d)
    BY <1>0, <1>4, ControlFacts DEF Quiet
  <2>2. ASSUME NEW read \in Batch, ReadFrom(msg.rcpt_offset, read)
        PROVE  /\ read.list \cap file.done = {}
               /\ \A a \in Agent : Busy(a) => agent[a].rcpt \notin read.list
    BY <1>0, <1>4, <2>2 DEF ReadFrom, Requests, Rcpt
  <2> QED BY <1>0, <1>1, <1>2, <1>4, <2>1, <2>2, RealBatch
<1>5. CASE qmgr_job_peer_select
  BY <1>4, <1>5 DEF qmgr_job_peer_select
<1>6. ASSUME NEW r \in Rcpt, qmgr_defer_todo(r) PROVE Once'
  BY <1>0, <1>1, <1>6, DeferTodoCases
<1>7. CASE SendRequest
  <2>1. PICK a \in Agent, r \in Rcpt : qmgr_deliver_send_request(a, r)
    BY <1>7, <1>0 DEF SendRequest, TypeOK, QMGR_MESSAGE
  <2>2. \A b \in Agent \ {a} : agent'[b] = agent[b]
    BY <1>0, <2>1, SendCases
  <2>3. agent[a].phase = "idle" /\ UNCHANGED <<file, log, daemon, delivered>>
    BY <1>0, <2>1, SendCases
  <2> QED BY <1>0, <2>2, <2>3 DEF Once
<1>8. ASSUME NEW a \in Agent, AgentStep(a) PROVE Once'
  <2>1. daemon' = daemon /\ Busy(a)
    BY <1>0, <1>8, AgentCases DEF Gone
  <2>2. \A d \in Daemon : ~Serving(d)
    BY <1>0, <2>1 DEF Quiet
  <2>3. CASE /\ agent[a].phase \notin {"delivered", "bounced"}
             /\ \A b \in Agent \ {a} : agent'[b] = agent[b]
             /\ file'.done = file.done /\ log'.bounce = log.bounce /\ delivered' = delivered
    BY <1>0, <2>1, <2>2, <2>3 DEF Once
  <2>4. ASSUME agent[a].phase = "open"
        PROVE  /\ agent[a].rcpt \notin file.done
               /\ agent[a].rcpt \notin log.bounce /\ agent[a].rcpt \notin delivered
    <3>1. agent[a].rcpt \notin file.done
      BY <1>0, <2>4 DEF Deferred
    <3>2. \A b \in Agent : b # a /\ Busy(b) => agent[b].rcpt # agent[a].rcpt
      BY <1>0, <2>4 DEF Requests
    <3> QED BY <1>0, <2>4, <3>1, <3>2 DEF Once
  <2>5. CASE /\ agent[a].phase = "open" /\ Moved(a, "delivered")
             /\ delivered' = delivered \cup {agent[a].rcpt} /\ UNCHANGED <<file, log>>
    BY <1>0, <2>1, <2>2, <2>4, <2>5 DEF Moved, Once
  <2>6. CASE /\ agent[a].phase = "open" /\ Moved(a, "bounced")
             /\ log'.bounce = log.bounce \cup {agent[a].rcpt} /\ UNCHANGED <<file, delivered>>
    BY <1>0, <2>1, <2>2, <2>4, <2>6 DEF Moved, Once
  <2>7. CASE /\ agent[a].phase \in {"delivered", "bounced"} /\ Moved(a, "ok")
             /\ file'.done = file.done \cup {agent[a].rcpt} /\ UNCHANGED <<log, delivered>>
    BY <1>0, <2>1, <2>2, <2>7 DEF Moved, Once
  <2> QED BY <1>0, <1>8, <2>3, <2>5, <2>6, <2>7, AgentCases DEF Moved, Gone
<1>9. ASSUME NEW d \in Daemon, DaemonStep(d) PROVE Once'
  <2>1. UNCHANGED <<file, agent, delivered>> /\ log'.bounce \subseteq log.bounce
    BY <1>0, <1>9, DaemonCases
  <2>2. ASSUME Serving(d) PROVE log[daemon[d].service] \cap delivered = {}
    <3>1. \A a \in Agent : ~Busy(a)
      BY <1>0, <2>2 DEF Quiet
    <3>2. delivered \subseteq file.done
      BY <1>0, <3>1 DEF Once
    <3> QED BY <1>0, <3>2 DEF Once, Deferred
  <2>3. CASE /\ Serving(d)
             /\ Working(d, "open", file.dir = "active", daemon[d].own, log[daemon[d].service])
    BY <1>0, <1>1, <2>1, <2>2, <2>3 DEF Working
  <2>4. CASE /\ \E own, lock, phase : Working(d, phase, lock, own, daemon[d].rcpts)
             /\ daemon[d].phase \in {"open", "posted"}
    BY <1>0, <1>1, <2>1, <2>4 DEF Working
  <2>5. CASE Idle(d)
    BY <1>0, <1>1, <2>1, <2>5 DEF Idle
  <2> QED BY <1>0, <1>9, <2>3, <2>4, <2>5, DaemonCases
<1>10. ASSUME UNCHANGED <<file, log, agent, delivered>>,
              daemon' = daemon \/ Asked("bounce") \/ Asked("defer")
       PROVE  Once'
  BY <1>0, <1>1, <1>10 DEF Asked
<1>11. CASE qmgr_active_done
  BY <1>0, <1>10, <1>11, DoneCases
<1>12. CASE qmgr_active_done_2_generic
  BY <1>0, <1>1, <1>4, <1>12, DoneTwoCases DEF Renamed
<1>13. CASE qmgr_active_done_25_trace_flush
  BY <1>0, <1>1, <1>13, TraceCases
<1>14. CASE qmgr_active_done_25_generic
  BY <1>0, <1>10, <1>14, DoneDeferCases
<1>15. CASE qmgr_active_done_3_defer_warn
  BY <1>0, <1>1, <1>15, WarnCases
<1>16. CASE qmgr_active_done_3_generic
  BY <1>0, <1>1, <1>16, FinishCases DEF Renamed
<1>17. CASE postsuper_expire
  BY <1>0, <1>1, <1>17, ExpireCases
<1>18. CASE qmgr_dies
  <2>1. /\ \A a \in Agent : agent'[a].phase = agent[a].phase /\ agent'[a].rcpt = agent[a].rcpt
        /\ \A d \in Daemon : daemon'[d].phase = daemon[d].phase
                             /\ daemon'[d].rcpts = daemon[d].rcpts
        /\ UNCHANGED <<file, log, delivered>>
    BY <1>0, <1>18, DieCases DEF Orphaned
  <2> QED BY <1>0, <2>1 DEF Once
<1>19. CASE qmgr_post_init
  BY <1>0, <1>1, <1>19, StartCases DEF Renamed
<1>20. CASE UNCHANGED vars
  BY <1>0, <1>1, <1>20 DEF vars
<1> QED
  BY <1>3, <1>5, <1>6, <1>7, <1>8, <1>9, <1>11, <1>12, <1>13, <1>14,
     <1>15, <1>16, <1>17, <1>18, <1>19, <1>20
  DEF Next, Step, ActiveDone

-----------------------------------------------------------------------------
(***************************************************************************)
(* No mail is lost.  The part about messages that expire is the subtle one *)
(* because a failed notification there is a recipient nobody hears about:  *)
(* then the defer log must hold every recipient that is not marked.        *)
(***************************************************************************)

\* The combinations of faults that the queue manager can cope with.  The
\* others are in the section of README.md on disagreements.
Safe(F) ==
    /\ "transit" \notin F
    /\ ~({"batch", "timeout"} \subseteq F)
    /\ F \cap {"expire", "force"} # {} => F \cap {"agent", "notify", "timeout"} = {}
    /\ ~({"force", "restart"} \subseteq F)

Expiry == faults \cap {"expire", "force"} # {}

Read(r) == msg.rcpt_offset = 0 \/ r < msg.rcpt_offset
Tried == {"deliver", "done", "bounce", "done_2", "trace", "done_25", "defer"}
Late == {"trace", "done_25", "defer", "warn", "done_3"}

InHand(r) == r \in file.done \cup msg.todo \/ \E a \in Agent : Busy(a) /\ agent[a].rcpt = r

\* When nothing was deferred, every recipient is accounted for.
Accounted ==
    /\ msg.stage \in Tried /\ ~msg.flags => \A r \in Rcpt : Read(r) => InHand(r)
    /\ msg.stage \in {"done_2"} \cup Late /\ ~msg.flags => log.bounce = {}
    /\ msg.stage = "done_3" /\ ~msg.flags => Rcpt \subseteq delivered \cup notified
    /\ \A d \in Daemon : Serving(d) /\ ~daemon[d].own /\ msg.stage \notin {"none", "down"}
          => msg.flags
    /\ \A d \in Daemon : Serving(d) => file.dir # "none"
    /\ file.dir = "none" => Rcpt \subseteq delivered \cup notified
    /\ msg.stage \in {"defer", "warn"} => msg.flags

\* Only postsuper makes a message expire early.
Forced ==
    /\ "force" \notin faults => ~msg.force /\ ~file.expire
    /\ "force" \in faults => /\ \A a \in Agent : Busy(a) => agent[a].own
                             /\ \A d \in Daemon : Serving(d) => daemon[d].own
    /\ ~Expiry => msg.stage # "defer"

\* A damaged file is noticed before the message is reported as expired.
Damaged ==
    /\ file.bad /\ msg.stage \notin {"none", "down"} =>
          msg.flags \/ \E a \in Agent : agent[a].phase = "failed"
    /\ msg.stage \in Late => ~file.bad

\* The defer log holds everybody who was tried and is neither marked nor in
\* the hands of an agent.
Excuse(r) ==
    \/ r \in file.done \cup msg.todo \cup log.defer
    \/ \E a \in Agent : agent[a].phase \notin {"idle", "failed"} /\ agent[a].rcpt = r

AllExcused == Rcpt \subseteq file.done \cup log.defer

Covered ==
    /\ msg.stage \in Tried \cup {"warn"} /\ ~file.bad => \A r \in Rcpt : Read(r) => Excuse(r)
    /\ msg.stage \in {"done_3", "none"} /\ (msg.stage = "done_3" => msg.flags) /\ ~file.bad
         /\ "force" \in faults /\ log.defer # {} /\ file.dir \in {"incoming", "active", "deferred"}
         => AllExcused
    /\ msg.rcpt_list # {} /\ msg.stage \in Tried => ~file.bad /\ AllExcused
    /\ msg.stage = "down" /\ "force" \in faults => ~file.bad /\ AllExcused

\* Notifications are complete.
Reported ==
    /\ \A d \in Daemon : daemon[d].own /\ daemon[d].phase \in {"open", "posted"} =>
          daemon[d].rcpts = log[daemon[d].service]
    /\ msg.stage \in {"done_2"} \cup Late /\ Daemon # {} => log.bounce = {}

Excused == Forced /\ (Expiry => Damaged /\ Covered /\ Reported)

Promise == Safe(faults) => Accounted /\ Excused

LEMMA PromiseInit == Init => Promise
<1> SUFFICES ASSUME Init PROVE Promise
  OBVIOUS
<1>1. /\ \A a \in Agent : agent[a].phase = "idle"
      /\ \A d \in Daemon : daemon[d].phase = "idle" /\ daemon[d].own = FALSE
      /\ file.dir = "incoming" /\ file.expire = FALSE /\ file.bad = FALSE
      /\ log.defer = {} /\ msg = NoMessage
  BY DEF Init, IdleAgent, IdleDaemon
<1> QED
  BY <1>1, NoMessageFields
  DEF Promise, Accounted, Excused, Forced, Damaged, Covered, Reported, Busy, Serving, Tried, Late

LEMMA PromiseFacts ==
    ASSUME Control, Locking, Reporting, Promise, Safe(faults)
    PROVE  /\ TypeOK /\ NoTransit /\ Requests /\ Notifying /\ Quiet /\ Marks
           /\ Accounted /\ Forced /\ (Expiry => Damaged /\ Covered /\ Reported)
           /\ Expiry => "agent" \notin faults /\ "notify" \notin faults /\ "timeout" \notin faults
           /\ "force" \in faults => Expiry /\ "restart" \notin faults
           /\ "expire" \in faults => Expiry
           /\ Expiry /\ msg.stage \notin {"none", "down"} =>
                 \A d \in Daemon : Serving(d) => daemon[d].own
           /\ \A d \in Daemon : daemon[d].service \in {"bounce", "defer"}
           /\ \A a \in Agent : agent[a].rcpt \in Rcpt
           /\ log.bounce \in SUBSET Rcpt /\ log.defer \in SUBSET Rcpt
           /\ msg.todo \in SUBSET Rcpt /\ file.done \in SUBSET Rcpt
           /\ msg.rcpt_offset \in 0..(N + 1) /\ N \in Nat
           /\ msg.flags \in BOOLEAN
<1>1. NoTransit /\ Patient
  BY DEF Safe, NoTransit, Patient
<1>2. /\ Expiry => "agent" \notin faults /\ "notify" \notin faults /\ "timeout" \notin faults
      /\ "force" \in faults => Expiry /\ "restart" \notin faults
      /\ "expire" \in faults => Expiry
  BY DEF Safe, Expiry
<1>3. Quiet /\ Marks /\ Requests /\ Notifying /\ Accounted /\ Excused
  BY <1>1 DEF Reporting, Locking, Promise
<1>4. Expiry /\ msg.stage \notin {"none", "down"} =>
         \A d \in Daemon : Serving(d) => daemon[d].own
  BY <1>2, <1>3 DEF Quiet
<1>5. /\ \A a \in Agent : agent[a].rcpt \in Rcpt
      /\ log.bounce \in SUBSET Rcpt /\ log.defer \in SUBSET Rcpt
      /\ msg.todo \in SUBSET Rcpt /\ file.done \in SUBSET Rcpt
      /\ msg.rcpt_offset \in 0..(N + 1) /\ msg.flags \in BOOLEAN
  BY ControlFacts DEF TypeOK, QMGR_MESSAGE, DELIVER_REQUEST, QueueFile
<1> QED
  BY <1>1, <1>2, <1>3, <1>4, <1>5, ControlFacts, RcptAssumption DEF Excused

LEMMA ForcedStep ==
    ASSUME Control, Locking, Reporting, Promise, Safe(faults), [Next]_vars
    PROVE  Forced'
<1> USE DEF Busy, Serving
<1>0. /\ TypeOK /\ NoTransit /\ Forced /\ faults' = faults /\ (Expiry' <=> Expiry)
      /\ Expiry => "agent" \notin faults /\ "notify" \notin faults /\ "timeout" \notin faults
      /\ "force" \in faults => Expiry /\ "restart" \notin faults
      /\ "expire" \in faults => Expiry
  BY PromiseFacts DEF Next, vars, Expiry
<1>1. ASSUME "force" \notin faults => ~msg'.force /\ ~file'.expire,
             UNCHANGED agent,
             daemon' = daemon \/ Asked("bounce") \/ Asked("defer"),
             msg'.stage = "defer" => Expiry \/ msg.stage = "defer"
      PROVE  Forced'
  BY <1>0, <1>1 DEF Forced, Asked
<1>2. CASE qmgr_active_feed
  <2>1. ASSUME NEW read \in Batch, NEW deferred \in SUBSET Rcpt,
               NEW discarded \in SUBSET Rcpt, NEW lost \in SUBSET Rcpt,
               Assigned(Fresh, read, {}, deferred, discarded, lost)
        PROVE  Forced'
    BY <1>0, <1>1, <2>1, FreshFields DEF Assigned, Forced
  <2>2. ASSUME Renamed("incoming") \/ Renamed("corrupt") \/ Renamed("active"),
               \/ msg' = msg \/ Cleared("none")
               \/ msg'.force = file.expire /\ msg'.stage = "done",
               UNCHANGED <<agent, daemon>>
        PROVE  Forced'
    BY <1>0, <1>1, <2>2 DEF Renamed, Cleared, Forced
  <2> QED BY <1>0, <1>2, <2>1, <2>2, FeedCases DEF Expired
<1>3. ASSUME qmgr_message_realloc, msg.rcpt_offset # 0 PROVE Forced'
  <2>1. CASE msg' = [msg EXCEPT !.panic = TRUE] /\ UNCHANGED <<file, agent, daemon>>
    <3>1. msg'.force = msg.force /\ msg'.stage = msg.stage
      BY <1>0, <2>1 DEF TypeOK, QMGR_MESSAGE
    <3> QED BY <1>0, <1>1, <2>1, <3>1 DEF Forced
  <2> QED BY <1>0, <1>1, <1>3, <2>1, RealBatch DEF Assigned, Forced
<1>4. CASE qmgr_job_peer_select
  BY <1>3, <1>4 DEF qmgr_job_peer_select
<1>5. ASSUME NEW r \in Rcpt, qmgr_defer_todo(r) PROVE Forced'
  BY <1>0, <1>1, <1>5, DeferTodoCases DEF Settled, Forced
<1>6. CASE SendRequest
  <2>1. PICK a \in Agent, r \in Rcpt : qmgr_deliver_send_request(a, r)
    BY <1>6, <1>0 DEF SendRequest, TypeOK, QMGR_MESSAGE
  <2>2. \A b \in Agent \ {a} : agent'[b] = agent[b]
    BY <1>0, <2>1, SendCases
  <2>3. /\ agent'[a].own = TRUE /\ msg'.force = msg.force /\ msg'.stage = msg.stage
        /\ UNCHANGED <<file, daemon>>
    BY <1>0, <2>1, SendCases
  <2> QED BY <1>0, <2>2, <2>3 DEF Forced
<1>7. ASSUME NEW a \in Agent, AgentStep(a) PROVE Forced'
  <2>1. CASE \E phase \in {"open", "delivered", "bounced", "ok", "failed"} :
               /\ agent[a].phase # "idle" /\ Moved(a, phase)
               /\ file'.expire = FALSE \/ file'.expire = file.expire
               /\ UNCHANGED <<msg, daemon>>
    BY <1>0, <2>1 DEF Moved, Forced
  <2>2. CASE \E failed \in BOOLEAN : Gone(a, failed)
    BY <1>0, <2>2 DEF Gone, Settled, Forced
  <2> QED BY <1>0, <1>7, <2>1, <2>2, AgentCases
<1>8. ASSUME NEW d \in Daemon, DaemonStep(d) PROVE Forced'
  <2>1. ASSUME NEW failed \in BOOLEAN, Replied(d, failed)
        PROVE  msg'.force = msg.force /\ (msg'.stage = "defer" => msg.stage = "defer")
    BY <1>0, <2>1, PromiseFacts DEF Replied, Staged
  <2>2. /\ UNCHANGED <<file, agent>> /\ msg'.force = msg.force
        /\ msg'.stage = "defer" => msg.stage = "defer"
    BY <1>0, <1>8, <2>1, DaemonCases
  <2>3. "force" \in faults => \A e \in Daemon : Serving(e)' => daemon'[e].own
    BY <1>0, <1>8, DaemonCases DEF Working, Idle, Forced
  <2> QED BY <1>0, <2>2, <2>3 DEF Forced
<1>9. CASE qmgr_active_done
  BY <1>0, <1>1, <1>9, DoneCases DEF Staged, Forced
<1>10. CASE qmgr_active_done_2_generic
  BY <1>0, <1>1, <1>3, <1>10, DoneTwoCases DEF Staged, Cleared, Renamed, Forced
<1>11. CASE qmgr_active_done_25_trace_flush
  BY <1>0, <1>1, <1>11, TraceCases DEF Staged, Forced
<1>12. CASE qmgr_active_done_25_generic
  BY <1>0, <1>1, <1>12, DoneDeferCases DEF Staged, Forced
<1>13. CASE qmgr_active_done_3_defer_warn
  BY <1>0, <1>1, <1>13, WarnCases DEF Staged, Forced
<1>14. CASE qmgr_active_done_3_generic
  BY <1>0, <1>1, <1>14, FinishCases DEF Cleared, Renamed, Forced
<1>15. CASE postsuper_expire
  BY <1>0, <1>1, <1>15, ExpireCases
<1>16. CASE qmgr_dies
  <2>1. ASSUME "force" \in faults
        PROVE  (\A a \in Agent : ~Busy(a)) /\ \A d \in Daemon : ~Serving(d)
    <3>1. msg.stage = "done_2"
      BY <1>0, <1>16, <2>1, DieCases DEF Control, Reading
    <3> QED BY <1>0, <2>1, <3>1, ControlFacts, LockingFacts DEF Forced
  <2>2. /\ \A a \in Agent : agent'[a].phase = agent[a].phase
        /\ \A d \in Daemon : daemon'[d].phase = daemon[d].phase
        /\ msg'.force = FALSE /\ msg'.stage = "down" /\ file' = file
    BY <1>0, <1>16, DieCases DEF Orphaned, Cleared
  <2> QED BY <1>0, <2>1, <2>2 DEF Forced
<1>17. CASE qmgr_post_init
  BY <1>0, <1>1, <1>17, StartCases DEF Cleared, Renamed, Forced
<1>18. CASE UNCHANGED vars
  BY <1>0, <1>1, <1>18 DEF vars, Forced
<1> QED
  BY <1>2, <1>4, <1>5, <1>6, <1>7, <1>8, <1>9, <1>10, <1>11, <1>12, <1>13, <1>14,
     <1>15, <1>16, <1>17, <1>18
  DEF Next, Step, ActiveDone

LEMMA DamagedStep ==
    ASSUME Control, Locking, Reporting, Promise, Safe(faults), [Next]_vars, Expiry
    PROVE  Damaged'
<1> USE DEF Busy, Serving
<1>0. /\ TypeOK /\ NoTransit /\ Requests /\ Damaged
      /\ "agent" \notin faults /\ "notify" \notin faults /\ "timeout" \notin faults
      /\ file.bad \in BOOLEAN
  BY PromiseFacts DEF TypeOK, QueueFile
<1>1. ASSUME file'.bad = file.bad, agent' = agent, msg'.flags <=> msg.flags \/ msg'.flags,
             msg'.stage \in Late => msg.stage \in Late,
             msg.stage \notin {"none", "down"}
      PROVE  Damaged'
  BY <1>0, <1>1 DEF Damaged
<1>2. ASSUME msg'.stage \in {"none", "down"} \/ (~file'.bad /\ msg'.stage \in Late)
      PROVE  Damaged'
  BY <1>0, <1>2 DEF Damaged, Late
<1>3. CASE qmgr_active_feed
  BY <1>0, <1>2, <1>3, FeedCases
  DEF Renamed, Cleared, Expired, Assigned, Damaged, Late
<1>4. ASSUME qmgr_message_realloc, msg.rcpt_offset # 0, msg.stage \in {"deliver", "done_2"}
      PROVE  Damaged'
  <2>1. CASE msg' = [msg EXCEPT !.panic = TRUE] /\ UNCHANGED <<file, agent>>
    <3>1. msg'.flags = msg.flags /\ msg'.stage = msg.stage
      BY <1>0, <2>1 DEF TypeOK, QMGR_MESSAGE
    <3> QED BY <1>0, <1>1, <1>4, <2>1, <3>1
  <2>2. ASSUME NEW read \in Batch, NEW deferred \in SUBSET Rcpt,
               NEW discarded \in SUBSET Rcpt, NEW lost \in SUBSET Rcpt,
               Assigned(msg, read, log.defer, deferred, discarded, lost)
        PROVE  Damaged'
    <3>1. /\ file'.bad = file.bad /\ agent' = agent /\ msg'.stage \in {"deliver", "done"}
          /\ msg.flags => msg'.flags
      BY <2>2 DEF Assigned
    <3> QED BY <1>0, <1>4, <3>1 DEF Damaged, Late
  <2> QED BY <1>0, <1>4, <2>1, <2>2, RealBatch
<1>5. CASE qmgr_job_peer_select
  BY <1>4, <1>5 DEF qmgr_job_peer_select
<1>6. ASSUME NEW r \in Rcpt, qmgr_defer_todo(r) PROVE Damaged'
  BY <1>0, <1>6, DeferTodoCases DEF Settled, Damaged, Late
<1>7. CASE SendRequest
  <2>1. PICK a \in Agent, r \in Rcpt : qmgr_deliver_send_request(a, r)
    BY <1>7, <1>0 DEF SendRequest, TypeOK, QMGR_MESSAGE
  <2>2. \A b \in Agent \ {a} : agent'[b] = agent[b]
    BY <1>0, <2>1, SendCases
  <2>3. /\ agent[a].phase = "idle" /\ msg'.flags = msg.flags /\ msg'.stage = msg.stage
        /\ file' = file
    BY <1>0, <2>1, SendCases
  <2> QED BY <1>0, <2>2, <2>3 DEF Damaged
<1>8. ASSUME NEW a \in Agent, AgentStep(a) PROVE Damaged'
  <2>1. Busy(a)
    BY <1>0, <1>8, AgentCases
  <2>2. msg.stage \in {"none", "down", "deliver"}
    BY <1>0, <2>1, LockingFacts
  <2>3. CASE /\ agent[a].phase \notin {"idle", "failed"}
             /\ \E phase \in {"open", "delivered", "bounced", "ok", "failed"} :
                   Moved(a, phase) /\ (file'.bad = file.bad \/ phase = "failed")
             /\ msg' = msg
    BY <1>0, <2>2, <2>3 DEF Moved, Damaged, Late
  <2>4. CASE agent[a].phase \in {"ok", "failed"} /\ Gone(a, agent[a].phase = "failed")
    <3>1. CASE agent[a].own
      <4>1. /\ msg'.stage \in {"deliver", "done"} /\ file' = file
            /\ msg'.flags <=> (msg.flags \/ agent[a].phase = "failed")
            /\ \A b \in Agent \ {a} : agent'[b] = agent[b]
        BY <2>4, <3>1 DEF Gone, Settled
      <4>2. msg.stage = "deliver"
        BY <2>1, <3>1, ControlFacts
      <4>3. file.bad => msg'.flags \/ \E b \in Agent : agent'[b].phase = "failed"
        BY <1>0, <4>1, <4>2 DEF Damaged
      <4> QED BY <4>1, <4>3 DEF Damaged, Late
    <3>2. CASE ~agent[a].own
      BY <1>0, <1>2, <2>1, <2>4, <3>2 DEF Gone, Requests
    <3> QED BY <3>1, <3>2
  <2> QED BY <1>0, <1>8, <2>3, <2>4, AgentCases
<1>9. ASSUME NEW d \in Daemon, DaemonStep(d) PROVE Damaged'
  <2>1. ASSUME NEW failed \in BOOLEAN, Replied(d, failed), UNCHANGED <<file, agent>>
        PROVE  Damaged'
    <3>1. CASE msg' = msg
      BY <1>0, <2>1, <3>1 DEF Damaged
    <3>2. CASE daemon[d].own /\ daemon[d].service = "bounce"
      BY <1>0, <2>1, <3>2 DEF Replied, Staged, Damaged, Late, Control, OneReply
    <3>3. CASE daemon[d].own /\ daemon[d].service = "defer"
      BY <1>0, <1>2, <2>1, <3>3 DEF Replied, Staged, Damaged, Late, Control, OneReply
    <3> QED BY <2>1, <3>1, <3>2, <3>3, ControlFacts DEF Replied
  <2>2. CASE UNCHANGED <<file, agent, msg>>
    BY <1>0, <2>2 DEF Damaged
  <2> QED BY <1>0, <1>9, <2>1, <2>2, DaemonCases
<1>10. ASSUME NEW stage, NEW flags, Staged(stage, flags), msg.flags => flags,
              UNCHANGED <<file, agent>>, msg.stage \notin {"none", "down"},
              stage \in Late => msg.stage \in Late
       PROVE  Damaged'
  BY <1>0, <1>10 DEF Staged, Damaged
<1>11. CASE qmgr_active_done
  BY <1>0, <1>10, <1>11, DoneCases DEF Late
<1>12. CASE qmgr_active_done_2_generic
  <2>1. CASE /\ ~(msg.flags /\ file.bad)
             /\ \E next \in {"trace", "done_25"} : Staged(next, msg.flags)
             /\ file' = file
    <3>1. msg.stage = "done_2" /\ \A a \in Agent : ~Busy(a)
      BY <1>0, <1>12, DoneTwoCases, LockingFacts
    <3>2. ~file.bad
      BY <1>0, <2>1, <3>1 DEF Damaged
    <3> QED BY <1>0, <1>2, <2>1, <3>2 DEF Staged, Late
  <2> QED BY <1>0, <1>2, <1>4, <1>12, <2>1, DoneTwoCases DEF Cleared
<1>13. CASE qmgr_active_done_25_trace_flush
  BY <1>0, <1>10, <1>13, TraceCases DEF Late
<1>14. CASE qmgr_active_done_25_generic
  BY <1>0, <1>10, <1>14, DoneDeferCases DEF Late
<1>15. CASE qmgr_active_done_3_defer_warn
  BY <1>0, <1>10, <1>15, WarnCases DEF Late
<1>16. CASE qmgr_active_done_3_generic
  BY <1>0, <1>2, <1>16, FinishCases DEF Cleared
<1>17. CASE postsuper_expire
  BY <1>0, <1>17, ExpireCases DEF Damaged
<1>18. CASE qmgr_dies
  BY <1>0, <1>2, <1>18, DieCases DEF Cleared
<1>19. CASE qmgr_post_init
  BY <1>0, <1>2, <1>19, StartCases DEF Cleared
<1>20. CASE UNCHANGED vars
  BY <1>0, <1>20 DEF vars, Damaged
<1> QED
  BY <1>3, <1>5, <1>6, <1>7, <1>8, <1>9, <1>11, <1>12, <1>13, <1>14,
     <1>15, <1>16, <1>17, <1>18, <1>19, <1>20
  DEF Next, Step, ActiveDone

LEMMA ReportedStep ==
    ASSUME Control, Control', Locking, Reporting, Promise, Safe(faults), [Next]_vars, Expiry
    PROVE  Reported'
<1> USE DEF Busy, Serving
<1>0. /\ TypeOK /\ NoTransit /\ Requests /\ Quiet /\ Reported
      /\ "agent" \notin faults /\ "notify" \notin faults /\ "timeout" \notin faults
      /\ msg.stage \notin {"none", "down"} => \A d \in Daemon : Serving(d) => daemon[d].own
      /\ \A d \in Daemon : daemon[d].service \in {"bounce", "defer"}
  BY PromiseFacts
<1>1. ASSUME daemon' = daemon, msg.stage \notin {"bounce", "defer"},
             msg'.stage \notin {"done_2"} \cup Late
      PROVE  Reported'
  <2>1. \A d \in Daemon : ~daemon[d].own
    BY <1>1, ControlFacts
  <2> QED BY <1>1, <2>1 DEF Reported
<1>2. ASSUME daemon' = daemon, log' = log,
             msg'.stage \in {"done_2"} \cup Late => msg.stage \in {"done_2"} \cup Late
      PROVE  Reported'
  BY <1>0, <1>2 DEF Reported
<1>3. CASE qmgr_active_feed
  <2>1. ASSUME NEW read \in Batch, NEW deferred \in SUBSET Rcpt,
               NEW discarded \in SUBSET Rcpt, NEW lost \in SUBSET Rcpt,
               Assigned(Fresh, read, {}, deferred, discarded, lost)
        PROVE  daemon' = daemon /\ msg'.stage \in {"deliver", "done"}
    BY <2>1 DEF Assigned
  <2>2. daemon' = daemon /\ msg.stage = "none"
    BY <1>0, <1>3, <2>1, FeedCases
  <2>3. msg' = msg \/ msg'.stage \in {"none", "deliver", "done"}
    BY <1>0, <1>3, <2>1, FeedCases DEF Cleared, Expired
  <2> QED BY <1>1, <2>2, <2>3 DEF Late
<1>4. ASSUME qmgr_message_realloc, msg.rcpt_offset # 0, msg.stage \in {"deliver", "done_2"}
      PROVE  Reported'
  <2>1. CASE msg' = [msg EXCEPT !.panic = TRUE] /\ UNCHANGED <<log, daemon>>
    <3>1. msg'.stage = msg.stage
      BY <1>0, <2>1 DEF TypeOK, QMGR_MESSAGE
    <3> QED BY <1>0, <1>2, <2>1, <3>1
  <2> QED BY <1>0, <1>1, <1>4, <2>1, RealBatch DEF Assigned, Late
<1>5. CASE qmgr_job_peer_select
  BY <1>4, <1>5 DEF qmgr_job_peer_select
<1>6. ASSUME NEW r \in Rcpt, qmgr_defer_todo(r) PROVE Reported'
  <2>1. msg.stage = "deliver"
    BY <1>0, <1>6, ControlFacts, DeferTodoCases
  <2> QED BY <1>0, <1>1, <1>6, <2>1, DeferTodoCases DEF Settled, Late
<1>7. CASE SendRequest
  <2>1. PICK a \in Agent, r \in Rcpt : qmgr_deliver_send_request(a, r)
    BY <1>7, <1>0 DEF SendRequest, TypeOK, QMGR_MESSAGE
  <2> QED BY <1>0, <1>2, <2>1, SendCases
<1>8. ASSUME NEW a \in Agent, AgentStep(a) PROVE Reported'
  <2>1. Busy(a) /\ daemon' = daemon
    BY <1>0, <1>8, AgentCases DEF Gone
  <2>2. msg.stage \in {"none", "down", "deliver"}
    BY <1>0, <2>1, LockingFacts
  <2>3. msg' = msg \/ msg'.stage \in {"deliver", "done"}
    BY <1>0, <1>8, AgentCases DEF Gone, Settled
  <2> QED BY <1>0, <1>1, <2>1, <2>2, <2>3 DEF Late
<1>9. ASSUME NEW d \in Daemon, DaemonStep(d) PROVE Reported'
  <2>1. CASE /\ Working(d, "open", file.dir = "active", daemon[d].own, log[daemon[d].service])
             /\ UNCHANGED <<log, msg>>
    BY <1>0, <2>1 DEF Working, Reported
  <2>2. CASE /\ daemon[d].phase = "open"
             /\ Working(d, "posted", daemon[d].lock, daemon[d].own, daemon[d].rcpts)
             /\ UNCHANGED <<log, msg>>
    BY <1>0, <2>2 DEF Working, Reported
  <2>3. CASE /\ daemon[d].phase = "posted" /\ Idle(d) /\ Replied(d, FALSE)
             /\ log'[daemon[d].service] = {}
             /\ \A s \in {"bounce", "defer"} \ {daemon[d].service} : log'[s] = log[s]
    <3>1. \A e \in Daemon : ~daemon'[e].own
      BY <1>0, <2>3, ControlFacts DEF Idle, Control, OneReply
    <3>2. CASE daemon[d].own /\ daemon[d].service = "bounce"
      BY <1>0, <2>3, <3>1, <3>2 DEF Reported
    <3>3. CASE daemon[d].own /\ daemon[d].service = "defer"
      <4>1. msg.stage = "defer" /\ log'.bounce = log.bounce
        BY <2>3, <3>3, ControlFacts
      <4> QED BY <1>0, <3>1, <4>1 DEF Reported, Late
    <3>4. CASE ~daemon[d].own
      <4>1. msg.stage \in {"none", "down"} /\ msg' = msg
        BY <1>0, <2>3, <3>4 DEF Replied
      <4> QED BY <1>0, <3>1, <4>1 DEF Reported, Late
    <3> QED BY <1>0, <3>2, <3>3, <3>4
  <2> QED BY <1>0, <1>9, <2>1, <2>2, <2>3, DaemonCases
<1>10. ASSUME log' = log, Asked("bounce") \/ Asked("defer"),
              msg'.stage \in {"done_2"} \cup Late => msg.stage \in {"done_2"} \cup Late
       PROVE  Reported'
  BY <1>0, <1>10 DEF Asked, Reported
<1>11. CASE qmgr_active_done
  <2>1. Daemon = {} \/ \E d \in Daemon : daemon[d].phase = "idle"
    BY <1>0, <1>11, DoneCases DEF Quiet
  <2>2. \A d \in Daemon : ~daemon[d].own
    BY <1>11, DoneCases, ControlFacts
  <2>3. CASE daemon' = daemon /\ log' = log /\ (log.bounce = {} \/ Daemon = {})
    BY <2>2, <2>3 DEF Reported
  <2>4. CASE log' = log /\ Staged("bounce", msg.flags) /\ Asked("bounce")
    BY <1>10, <2>4 DEF Staged, Late
  <2> QED BY <1>0, <1>11, <2>1, <2>3, <2>4, DoneCases
<1>12. CASE qmgr_active_done_2_generic
  BY <1>0, <1>1, <1>2, <1>4, <1>12, DoneTwoCases DEF Staged, Cleared, Late
<1>13. CASE qmgr_active_done_25_trace_flush
  BY <1>0, <1>2, <1>13, TraceCases DEF Staged, Late
<1>14. CASE qmgr_active_done_25_generic
  BY <1>0, <1>2, <1>10, <1>14, DoneDeferCases DEF Staged, Late
<1>15. CASE qmgr_active_done_3_defer_warn
  BY <1>0, <1>2, <1>15, WarnCases DEF Staged, Late
<1>16. CASE qmgr_active_done_3_generic
  BY <1>0, <1>1, <1>16, FinishCases DEF Cleared, Late
<1>17. CASE postsuper_expire
  BY <1>0, <1>2, <1>17, ExpireCases
<1>18. CASE qmgr_dies
  <2>1. msg'.stage = "down" /\ \A d \in Daemon : daemon'[d].own = FALSE
    BY <1>0, <1>18, DieCases DEF Cleared, Orphaned
  <2> QED BY <2>1 DEF Reported, Late
<1>19. CASE qmgr_post_init
  BY <1>0, <1>1, <1>19, StartCases DEF Cleared, Late
<1>20. CASE UNCHANGED vars
  BY <1>0, <1>2, <1>20 DEF vars
<1> QED
  BY <1>3, <1>5, <1>6, <1>7, <1>8, <1>9, <1>11, <1>12, <1>13, <1>14,
     <1>15, <1>16, <1>17, <1>18, <1>19, <1>20
  DEF Next, Step, ActiveDone

LEMMA CoveredStep ==
    ASSUME Control, Control', Locking, Reporting, Promise, Safe(faults), [Next]_vars, Expiry
    PROVE  Covered'
<1> USE DEF Busy, Serving
<1>0. /\ TypeOK /\ NoTransit /\ Requests /\ Marks /\ Covered /\ Forced /\ faults' = faults
      /\ "agent" \notin faults /\ "notify" \notin faults /\ "timeout" \notin faults
      /\ "force" \in faults => "restart" \notin faults
      /\ msg.stage \notin {"none", "down"} => \A d \in Daemon : Serving(d) => daemon[d].own
      /\ \A d \in Daemon : daemon[d].service \in {"bounce", "defer"}
      /\ \A a \in Agent : agent[a].rcpt \in Rcpt
      /\ msg.todo \in SUBSET Rcpt /\ file.done \in SUBSET Rcpt
      /\ msg.rcpt_offset \in 0..(N + 1) /\ N \in Nat
  BY PromiseFacts DEF Next, vars
<1>1. ASSUME msg'.stage \in {"deliver", "done"}, msg'.rcpt_list = {},
             ~file'.bad => \A r \in Rcpt : Read(r)' => Excuse(r)'
      PROVE  Covered'
  BY <1>1 DEF Covered
<1>2. ASSUME UNCHANGED <<msg, agent>>, log'.defer = log.defer, file'.done = file.done,
             file'.bad = file.bad, file'.dir = file.dir \/ file.dir \in {"incoming", "deferred"}
      PROVE  Covered'
  <2>1. \A r \in Rcpt : (Read(r)' <=> Read(r)) /\ (Excuse(r)' <=> Excuse(r))
    BY <1>2 DEF Read, Excuse
  <2>2. AllExcused' <=> AllExcused
    BY <1>2 DEF AllExcused
  <2> QED BY <1>0, <1>2, <2>1, <2>2 DEF Covered
<1>3. ASSUME Cleared("none"), file'.dir \in {"corrupt", "none"}
      PROVE  Covered'
  BY <1>3 DEF Cleared, Covered, Tried
<1>4. CASE qmgr_active_feed
  <2>1. ASSUME NEW read \in Batch, NEW deferred \in SUBSET Rcpt,
               NEW discarded \in SUBSET Rcpt, NEW lost \in SUBSET Rcpt, ReadFrom(1, read),
               Assigned(Fresh, read, {}, deferred, discarded, lost)
        PROVE  Covered'
    <3>1. /\ msg'.todo = read.list \ (deferred \cup discarded) /\ msg'.rcpt_list = {}
          /\ log'.defer = deferred /\ file'.done = file.done \cup discarded
          /\ msg'.rcpt_offset = read.offset /\ msg'.stage \in {"deliver", "done"}
      BY <1>0, <2>1, FreshFields DEF Assigned
    <3>2. /\ read.offset \in 0..(N + 1)
          /\ \A r \in Rcpt : read.offset = 0 \/ r < read.offset => r \in file.done \cup read.list
      BY <1>0, <2>1 DEF ReadFrom, Batch, Rcpt
    <3>3. \A r \in Rcpt : Read(r)' => Excuse(r)'
      BY <3>1, <3>2 DEF Read, Excuse
    <3> QED BY <1>1, <3>1, <3>3
  <2>2. ASSUME NEW read \in Batch, Expired(read), Renamed("active"), file.expire, log.defer # {},
               UNCHANGED <<log, agent>>
        PROVE  Covered'
    <3>1. AllExcused /\ ~file.bad
      BY <1>0, <1>4, <2>2, FeedCases DEF Forced, Covered
    <3>2. /\ AllExcused' /\ file'.bad = file.bad /\ msg'.stage = "done"
      BY <2>2, <3>1 DEF AllExcused, Renamed, Expired
    <3>3. \A r \in Rcpt : Excuse(r)'
      BY <3>2 DEF AllExcused, Excuse
    <3> QED BY <3>1, <3>2, <3>3 DEF Covered
  <2>3. CASE Renamed("incoming") /\ UNCHANGED <<log, msg, agent>>
    BY <1>0, <1>2, <1>4, <2>3, FeedCases DEF Renamed
  <2> QED BY <1>0, <1>3, <1>4, <2>1, <2>2, <2>3, FeedCases DEF Renamed
<1>5. ASSUME qmgr_message_realloc, msg.rcpt_offset # 0, msg.stage \in {"deliver", "done_2"}
      PROVE  Covered'
  <2>1. CASE msg' = [msg EXCEPT !.panic = TRUE] /\ UNCHANGED <<file, log, agent>>
    <3>1. /\ msg'.stage = msg.stage /\ msg'.flags = msg.flags /\ msg'.todo = msg.todo
          /\ msg'.rcpt_offset = msg.rcpt_offset /\ msg'.rcpt_list = msg.rcpt_list
      BY <1>0, <2>1 DEF TypeOK, QMGR_MESSAGE
    <3>2. \A r \in Rcpt : (Read(r)' <=> Read(r)) /\ (Excuse(r)' <=> Excuse(r))
      BY <2>1, <3>1 DEF Read, Excuse
    <3>3. AllExcused' <=> AllExcused
      BY <2>1 DEF AllExcused
    <3> QED BY <1>0, <2>1, <3>1, <3>2, <3>3 DEF Covered
  <2>2. ASSUME NEW read \in Batch, NEW deferred \in SUBSET Rcpt,
               NEW discarded \in SUBSET Rcpt, NEW lost \in SUBSET Rcpt,
               msg.rcpt_list = {}, ReadFrom(msg.rcpt_offset, read),
               Assigned(msg, read, log.defer, deferred, discarded, lost)
        PROVE  Covered'
    <3>1. /\ msg'.todo = msg.todo \cup (read.list \ (deferred \cup discarded))
          /\ msg'.rcpt_list = {} /\ agent' = agent /\ file'.bad = file.bad
          /\ log'.defer = log.defer \cup deferred /\ file'.done = file.done \cup discarded
          /\ msg'.rcpt_offset = read.offset /\ msg'.stage \in {"deliver", "done"}
      BY <1>0, <2>2 DEF Assigned
    <3>2. /\ read.offset \in 0..(N + 1)
          /\ \A r \in Rcpt : read.offset = 0 \/ r < read.offset =>
                r < msg.rcpt_offset \/ r \in file.done \cup read.list
      BY <1>0, <2>2 DEF ReadFrom, Batch, Rcpt
    <3>3. ~file.bad => \A r \in Rcpt : r < msg.rcpt_offset => Excuse(r)
      BY <1>0, <1>5 DEF Covered, Tried, Read
    <3>4. ~file.bad => \A r \in Rcpt : Read(r)' => Excuse(r)'
      BY <3>1, <3>2, <3>3 DEF Read, Excuse
    <3> QED BY <1>1, <3>1, <3>4
  <2> QED BY <1>0, <1>5, <2>1, <2>2, RealBatch
<1>6. CASE qmgr_job_peer_select
  BY <1>5, <1>6 DEF qmgr_job_peer_select
<1>7. ASSUME msg.stage = "deliver", msg'.stage \in {"deliver", "done"},
             msg'.rcpt_offset = msg.rcpt_offset, msg'.rcpt_list = msg.rcpt_list,
             file'.bad = file.bad,
             \A r \in Rcpt : Excuse(r) => Excuse(r)'
      PROVE  Covered'
  <2>1. msg.rcpt_list = {}
    BY <1>7 DEF Control, Reading
  <2>2. \A r \in Rcpt : Read(r)' <=> Read(r)
    BY <1>7 DEF Read
  <2> QED BY <1>0, <1>1, <1>7, <2>1, <2>2 DEF Covered, Tried
<1>8. ASSUME NEW r \in Rcpt, qmgr_defer_todo(r) PROVE Covered'
  <2>1. msg.stage = "deliver"
    BY <1>0, <1>8, ControlFacts, DeferTodoCases
  <2>2. \A s \in Rcpt : Excuse(s) => Excuse(s)'
    BY <1>0, <1>8, DeferTodoCases DEF Settled, Excuse
  <2> QED BY <1>0, <1>7, <1>8, <2>1, <2>2, DeferTodoCases DEF Settled
<1>9. CASE SendRequest
  <2>1. PICK a \in Agent, r \in Rcpt : qmgr_deliver_send_request(a, r)
    BY <1>9, <1>0 DEF SendRequest
  <2>2. \A b \in Agent \ {a} : agent'[b] = agent[b]
    BY <1>0, <2>1, SendCases
  <2>3. /\ agent[a].phase = "idle" /\ agent'[a].phase = "sent" /\ agent'[a].rcpt = r
        /\ r \in msg.todo /\ msg'.todo = msg.todo \ {r} /\ msg'.stage = msg.stage
        /\ msg'.rcpt_offset = msg.rcpt_offset /\ msg'.rcpt_list = msg.rcpt_list
        /\ UNCHANGED <<file, log>>
    BY <1>0, <2>1, SendCases
  <2>4. msg.stage = "deliver"
    BY <1>0, <2>3, ControlFacts
  <2>5. ASSUME NEW s \in Rcpt, Excuse(s) PROVE Excuse(s)'
    <3>1. CASE s = r
      BY <2>3, <3>1 DEF Excuse
    <3>2. CASE s # r /\ s \in file.done \cup msg.todo \cup log.defer
      BY <2>3, <3>2 DEF Excuse
    <3>3. CASE \E b \in Agent : agent[b].phase \notin {"idle", "failed"} /\ agent[b].rcpt = s
      BY <2>2, <2>3, <3>3 DEF Excuse
    <3> QED BY <2>5, <3>1, <3>2, <3>3 DEF Excuse
  <2> QED BY <1>7, <2>3, <2>4, <2>5
<1>10. ASSUME NEW a \in Agent, AgentStep(a) PROVE Covered'
  <2>1. Busy(a)
    BY <1>0, <1>10, AgentCases
  <2>2. CASE ~agent[a].own
    <3>1. msg.stage \in {"none", "down"} /\ "force" \notin faults
      BY <1>0, <2>1, <2>2 DEF Requests, Forced
    <3>2. msg' = msg
      BY <1>0, <1>10, <2>2, AgentCases DEF Gone
    <3> QED BY <1>0, <3>1, <3>2 DEF Covered, Tried, Control, Reading
  <2>3. CASE agent[a].own
    <3>1. msg.stage = "deliver" /\ file.dir = "active"
      BY <2>1, <2>3, ControlFacts DEF Control, NotForgotten
    <3>2. ASSUME \E phase \in {"open", "delivered", "bounced", "ok"} : Moved(a, phase),
                 msg' = msg, log'.defer = log.defer, file.done \subseteq file'.done,
                 file'.bad = file.bad
          PROVE  Covered'
      <4>1. \A r \in Rcpt : Excuse(r) => Excuse(r)'
        BY <2>1, <3>2 DEF Moved, Excuse
      <4> QED BY <1>7, <3>1, <3>2, <4>1
    <3>3. ASSUME Moved(a, "failed"), UNCHANGED <<file, msg>>,
                 log'.defer = log.defer \cup {agent[a].rcpt}
          PROVE  Covered'
      <4>1. \A r \in Rcpt : Excuse(r) => Excuse(r)'
        BY <3>3 DEF Moved, Excuse
      <4> QED BY <1>7, <3>1, <3>3, <4>1
    <3>4. ASSUME Moved(a, "failed"), file'.bad = TRUE, msg' = msg
          PROVE  Covered'
      BY <1>1, <3>1, <3>4 DEF Control, Reading
    <3>5. ASSUME agent[a].phase \in {"ok", "failed"}, Gone(a, agent[a].phase = "failed")
          PROVE  Covered'
      <4>1. /\ Settled(msg, msg.flags \/ agent[a].phase = "failed", msg.todo, agent')
            /\ \A b \in Agent \ {a} : agent'[b] = agent[b]
            /\ UNCHANGED <<file, log>>
        BY <2>3, <3>5 DEF Gone
      <4>2. agent[a].phase = "ok" => agent[a].rcpt \in file.done
        BY <1>0 DEF Marks
      <4>3. \A r \in Rcpt : Excuse(r) => Excuse(r)'
        BY <3>5, <4>1, <4>2 DEF Settled, Excuse
      <4> QED BY <1>7, <3>1, <4>1, <4>3 DEF Settled
    <3> QED BY <1>0, <1>10, <3>1, <3>2, <3>3, <3>4, <3>5, AgentCases
  <2> QED BY <1>0, <2>2, <2>3 DEF TypeOK, DELIVER_REQUEST
<1>11. ASSUME NEW stage, NEW flags, Staged(stage, flags), UNCHANGED <<file, agent>>,
              log'.defer = log.defer, msg.stage \in Tried \cup {"warn"},
              stage \in Tried \cup {"warn", "done_3"}, stage \in Tried => msg.stage \in Tried,
              stage = "done_3" => msg.stage \in {"done_25", "warn"}
       PROVE  Covered'
  <2>1. /\ msg'.stage = stage /\ msg'.todo = msg.todo
        /\ msg'.rcpt_offset = msg.rcpt_offset /\ msg'.rcpt_list = msg.rcpt_list
    BY <1>11 DEF Staged
  <2>2. \A r \in Rcpt : (Read(r)' <=> Read(r)) /\ (Excuse(r)' <=> Excuse(r))
    BY <1>11, <2>1 DEF Read, Excuse
  <2>3. AllExcused' <=> AllExcused
    BY <1>11 DEF AllExcused
  <2>4. ASSUME stage = "done_3", ~file.bad PROVE AllExcused
    <3>1. msg.todo = {} /\ msg.rcpt_offset = 0 /\ \A a \in Agent : ~Busy(a)
      BY <1>0, <1>11, <2>4, ControlFacts, LockingFacts DEF Control, Reading
    <3>2. \A r \in Rcpt : Excuse(r)
      BY <1>0, <1>11, <2>4, <3>1 DEF Covered, Read
    <3> QED BY <3>1, <3>2 DEF Excuse, AllExcused
  <2>5. stage \notin {"none", "down"} /\ "done_3" \notin Tried \cup {"warn"}
    BY <1>11 DEF Tried
  <2> QED BY <1>0, <1>11, <2>1, <2>2, <2>3, <2>4, <2>5 DEF Covered
<1>12. ASSUME NEW d \in Daemon, DaemonStep(d) PROVE Covered'
  <2>1. UNCHANGED <<file, agent>>
    BY <1>0, <1>12, DaemonCases
  <2>2. CASE msg' = msg /\ log' = log
    BY <1>2, <2>1, <2>2
  <2>3. CASE /\ daemon[d].phase = "posted" /\ Replied(d, FALSE)
             /\ log'[daemon[d].service] = {}
             /\ \A s \in {"bounce", "defer"} \ {daemon[d].service} : log'[s] = log[s]
    <3>1. CASE daemon[d].service = "bounce" /\ daemon[d].own
      <4>1. msg.stage = "bounce" /\ Staged("done_2", msg.flags \/ FALSE) /\ log'.defer = log.defer
        BY <2>3, <3>1, ControlFacts DEF Replied
      <4> QED BY <1>11, <2>1, <4>1 DEF Tried
    <3>2. CASE daemon[d].service = "bounce" /\ ~daemon[d].own
      BY <1>2, <2>1, <2>3, <3>2 DEF Replied
    <3>3. CASE daemon[d].service = "defer" /\ daemon[d].own
      <4>1. Staged("done_3", FALSE)
        BY <2>3, <3>3 DEF Replied
      <4> QED BY <4>1 DEF Staged, Covered, Tried
    <3>4. CASE daemon[d].service = "defer" /\ ~daemon[d].own
      <4>1. /\ msg' = msg /\ msg.stage \in {"none", "down"} /\ log'.defer = {}
            /\ "force" \notin faults
        BY <1>0, <2>3, <3>4 DEF Replied, Forced
      <4> QED BY <1>0, <4>1 DEF Covered, Tried, Control, Reading
    <3> QED BY <1>0, <3>1, <3>2, <3>3, <3>4
  <2> QED BY <1>0, <1>12, <2>2, <2>3, DaemonCases
<1>13. CASE qmgr_active_done
  BY <1>0, <1>11, <1>13, DoneCases DEF Tried
<1>14. CASE qmgr_active_done_2_generic
  BY <1>0, <1>3, <1>5, <1>11, <1>14, DoneTwoCases DEF Renamed, Tried
<1>15. CASE qmgr_active_done_25_trace_flush
  BY <1>0, <1>11, <1>15, TraceCases DEF Tried
<1>16. CASE qmgr_active_done_25_generic
  BY <1>0, <1>11, <1>16, DoneDeferCases DEF Tried
<1>17. CASE qmgr_active_done_3_defer_warn
  BY <1>0, <1>11, <1>17, WarnCases DEF Tried
<1>18. CASE qmgr_active_done_3_generic
  <2>1. /\ msg.stage = "done_3" /\ Cleared("none") /\ log' = log
        /\ Renamed(IF msg.flags THEN "deferred" ELSE "none") /\ file.dir = "active"
    BY <1>0, <1>18, FinishCases DEF Control, NotForgotten
  <2>2. CASE ~msg.flags
    BY <1>3, <2>1, <2>2 DEF Renamed
  <2>3. CASE msg.flags
    <3>1. ~file.bad /\ "force" \in faults /\ log.defer # {} => AllExcused
      BY <1>0, <2>1, <2>3 DEF Covered
    <3>2. (AllExcused' <=> AllExcused) /\ file'.bad = file.bad
      BY <2>1 DEF AllExcused, Renamed
    <3> QED BY <1>0, <2>1, <3>1, <3>2 DEF Cleared, Covered, Tried
  <2> QED BY <2>2, <2>3
<1>19. CASE postsuper_expire
  BY <1>0, <1>2, <1>19, ExpireCases
<1>20. CASE qmgr_dies
  <2>1. ASSUME "force" \in faults PROVE ~file.bad /\ AllExcused
    <3>1. msg.stage = "done_2" /\ msg.rcpt_list # {}
      BY <1>0, <1>20, <2>1, DieCases DEF Control, Reading
    <3> QED BY <1>0, <3>1 DEF Covered, Tried
  <2>2. (AllExcused' <=> AllExcused) /\ file' = file /\ Cleared("down")
    BY <1>0, <1>20, DieCases DEF AllExcused
  <2> QED BY <1>0, <2>1, <2>2 DEF Cleared, Covered, Tried
<1>21. CASE qmgr_post_init
  <2>1. "force" \in faults => AllExcused
    BY <1>0, <1>21, StartCases DEF Covered
  <2>2. (AllExcused' <=> AllExcused) /\ Cleared("none")
    BY <1>0, <1>21, StartCases DEF AllExcused, Renamed
  <2> QED BY <1>0, <2>1, <2>2 DEF Cleared, Covered, Tried
<1>22. CASE UNCHANGED vars
  BY <1>0, <1>2, <1>22 DEF vars
<1> QED
  BY <1>4, <1>6, <1>8, <1>9, <1>10, <1>12, <1>13, <1>14,
     <1>15, <1>16, <1>17, <1>18, <1>19, <1>20, <1>21, <1>22
  DEF Next, Step, ActiveDone

LEMMA AccountedStep ==
    ASSUME Control, Control', Locking, Reporting, Promise, Safe(faults), [Next]_vars
    PROVE  Accounted'
<1> USE DEF Busy, Serving
<1>0. /\ TypeOK /\ NoTransit /\ Requests /\ Quiet /\ Marks /\ Accounted /\ Forced
      /\ faults' = faults
      /\ Expiry => Damaged /\ Covered /\ Reported /\ "notify" \notin faults
                   /\ "timeout" \notin faults
      /\ Expiry /\ msg.stage \notin {"none", "down"} =>
            \A d \in Daemon : Serving(d) => daemon[d].own
      /\ \A d \in Daemon : daemon[d].service \in {"bounce", "defer"}
      /\ \A a \in Agent : agent[a].rcpt \in Rcpt
      /\ msg.todo \in SUBSET Rcpt /\ file.done \in SUBSET Rcpt
      /\ msg.rcpt_offset \in 0..(N + 1) /\ N \in Nat /\ msg.flags \in BOOLEAN
  BY PromiseFacts DEF Next, vars
\* Steps to where the queue manager has nothing to account for.
<1>1. ASSUME msg'.stage \in {"none", "down"},
             \A d \in Daemon : daemon'[d].phase # "idle" => Serving(d) /\ file'.dir # "none",
             file'.dir = "none" => file.dir = "none",
             delivered \subseteq delivered', notified \subseteq notified'
      PROVE  Accounted'
  BY <1>0, <1>1 DEF Accounted, Tried, Late
\* Steps of the requests.
<1>2. ASSUME msg'.stage \in {"deliver", "done"}, file'.dir # "none",
             \A d \in Daemon : daemon'[d].phase = "idle",
             ~msg'.flags => \A r \in Rcpt : Read(r)' => InHand(r)'
      PROVE  Accounted'
  BY <1>2 DEF Accounted, Tried, Late
<1>3. ASSUME msg' = msg, daemon' = daemon, file'.dir = file.dir, file'.done = file.done,
             log'.bounce = log.bounce, agent' = agent,
             delivered \subseteq delivered', notified \subseteq notified'
      PROVE  Accounted'
  <2>1. \A r \in Rcpt : (Read(r)' <=> Read(r)) /\ (InHand(r)' <=> InHand(r))
    BY <1>3 DEF Read, InHand
  <2> QED BY <1>0, <1>3, <2>1 DEF Accounted
<1>4. CASE qmgr_active_feed
  <2>1. ASSUME NEW read \in Batch, NEW deferred \in SUBSET Rcpt,
               NEW discarded \in SUBSET Rcpt, NEW lost \in SUBSET Rcpt, ReadFrom(1, read), ~Locked,
               Assigned(Fresh, read, {}, deferred, discarded, lost)
        PROVE  Accounted'
    <3>1. /\ msg'.todo = read.list \ (deferred \cup discarded)
          /\ file'.done = file.done \cup discarded /\ file'.dir = "active"
          /\ msg'.rcpt_offset = read.offset /\ msg'.stage \in {"deliver", "done"}
          /\ ~msg'.flags => deferred = {}
          /\ daemon' = daemon
      BY <1>0, <2>1, FreshFields DEF Assigned
    <3>2. /\ read.offset \in 0..(N + 1)
          /\ \A r \in Rcpt : read.offset = 0 \/ r < read.offset => r \in file.done \cup read.list
      BY <1>0, <2>1 DEF ReadFrom, Batch, Rcpt
    <3>3. ~msg'.flags => \A r \in Rcpt : Read(r)' => InHand(r)'
      BY <3>1, <3>2 DEF Read, InHand
    <3>4. \A d \in Daemon : ~Serving(d)
      BY <1>0, <1>4, <2>1, FeedCases, LockingFacts
    <3> QED BY <1>2, <3>1, <3>3, <3>4
  <2>2. ASSUME NEW read \in Batch, Expired(read), Renamed("active"), ~Locked, daemon' = daemon
        PROVE  Accounted'
    <3>1. \A d \in Daemon : ~Serving(d)
      BY <1>0, <1>4, <2>2, FeedCases, LockingFacts
    <3> QED BY <1>2, <2>2, <3>1 DEF Expired, Renamed
  <2>3. CASE /\ \/ Renamed("incoming") /\ msg' = msg
                \/ Renamed("corrupt") /\ Cleared("none")
             /\ UNCHANGED <<daemon, delivered, notified>>
    <3>1. msg'.stage = "none" /\ file'.dir # "none"
      BY <1>0, <1>4, <2>3, FeedCases DEF Renamed, Cleared
    <3> QED BY <1>1, <2>3, <3>1
  <2> QED BY <1>0, <1>4, <2>1, <2>2, <2>3, FeedCases
<1>5. ASSUME qmgr_message_realloc, msg.rcpt_offset # 0, msg.stage \in {"deliver", "done_2"}
      PROVE  Accounted'
  <2>1. CASE /\ msg' = [msg EXCEPT !.panic = TRUE]
             /\ UNCHANGED <<file, log, agent, daemon, delivered, notified>>
    <3>1. /\ msg'.stage = msg.stage /\ msg'.flags = msg.flags /\ msg'.todo = msg.todo
          /\ msg'.rcpt_offset = msg.rcpt_offset
      BY <1>0, <2>1 DEF TypeOK, QMGR_MESSAGE
    <3>2. \A r \in Rcpt : (Read(r)' <=> Read(r)) /\ (InHand(r)' <=> InHand(r))
      BY <2>1, <3>1 DEF Read, InHand
    <3> QED BY <1>0, <2>1, <3>1, <3>2 DEF Accounted
  <2>2. ASSUME NEW read \in Batch, NEW deferred \in SUBSET Rcpt,
               NEW discarded \in SUBSET Rcpt, NEW lost \in SUBSET Rcpt,
               ReadFrom(msg.rcpt_offset, read),
               Assigned(msg, read, log.defer, deferred, discarded, lost)
        PROVE  Accounted'
    <3>1. /\ msg'.todo = msg.todo \cup (read.list \ (deferred \cup discarded))
          /\ agent' = agent /\ daemon' = daemon /\ file'.dir = "active"
          /\ file'.done = file.done \cup discarded
          /\ msg'.rcpt_offset = read.offset /\ msg'.stage \in {"deliver", "done"}
          /\ ~msg'.flags => ~msg.flags /\ deferred = {}
      BY <1>0, <2>2 DEF Assigned
    <3>2. /\ read.offset \in 0..(N + 1)
          /\ \A r \in Rcpt : read.offset = 0 \/ r < read.offset =>
                r < msg.rcpt_offset \/ r \in file.done \cup read.list
      BY <1>0, <2>2 DEF ReadFrom, Batch, Rcpt
    <3>3. ~msg.flags => \A r \in Rcpt : r < msg.rcpt_offset => InHand(r)
      BY <1>0, <1>5 DEF Accounted, Tried, Read
    <3>4. ~msg'.flags => \A r \in Rcpt : Read(r)' => InHand(r)'
      BY <3>1, <3>2, <3>3 DEF Read, InHand
    <3>5. \A d \in Daemon : ~Serving(d)
      <4>1. "batch" \in faults /\ "timeout" \notin faults
        BY <1>5 DEF Control, Reading, Safe
      <4> QED BY <1>0, <1>5, <4>1, ControlFacts DEF Quiet
    <3> QED BY <1>2, <3>1, <3>4, <3>5
  <2> QED BY <1>0, <1>5, <2>1, <2>2, RealBatch
<1>6. CASE qmgr_job_peer_select
  BY <1>5, <1>6 DEF qmgr_job_peer_select
<1>7. ASSUME msg.stage = "deliver", msg'.stage \in {"deliver", "done"},
             msg'.rcpt_offset = msg.rcpt_offset, daemon' = daemon, file'.dir = file.dir,
             msg.flags => msg'.flags,
             ~msg'.flags => \A r \in Rcpt : InHand(r) => InHand(r)'
      PROVE  Accounted'
  <2>1. \A d \in Daemon : ~Serving(d)
    BY <1>0, <1>7 DEF Quiet
  <2>2. file.dir = "active"
    BY <1>7 DEF Control, NotForgotten
  <2>3. ~msg'.flags => \A r \in Rcpt : Read(r)' => InHand(r)'
    BY <1>0, <1>7 DEF Accounted, Tried, Read
  <2> QED BY <1>2, <1>7, <2>1, <2>2, <2>3
<1>8. ASSUME NEW r \in Rcpt, qmgr_defer_todo(r) PROVE Accounted'
  <2>1. msg.stage = "deliver"
    BY <1>0, <1>8, ControlFacts, DeferTodoCases
  <2> QED BY <1>0, <1>7, <1>8, <2>1, DeferTodoCases DEF Settled
<1>9. CASE SendRequest
  <2>1. PICK a \in Agent, r \in Rcpt : qmgr_deliver_send_request(a, r)
    BY <1>9, <1>0 DEF SendRequest
  <2>2. \A b \in Agent \ {a} : agent'[b] = agent[b]
    BY <1>0, <2>1, SendCases
  <2>3. /\ agent[a].phase = "idle" /\ agent'[a].phase = "sent" /\ agent'[a].rcpt = r
        /\ r \in msg.todo /\ msg'.todo = msg.todo \ {r} /\ msg'.stage = msg.stage
        /\ msg'.rcpt_offset = msg.rcpt_offset /\ msg'.flags = msg.flags
        /\ UNCHANGED <<file, log, daemon>>
    BY <1>0, <2>1, SendCases
  <2>4. msg.stage = "deliver"
    BY <1>0, <2>3, ControlFacts
  <2>5. ASSUME NEW s \in Rcpt, InHand(s) PROVE InHand(s)'
    <3>1. CASE s = r
      BY <2>3, <3>1 DEF InHand
    <3>2. CASE s # r /\ s \in file.done \cup msg.todo
      BY <2>3, <3>2 DEF InHand
    <3>3. CASE \E b \in Agent : Busy(b) /\ agent[b].rcpt = s
      BY <2>2, <2>3, <3>3 DEF InHand
    <3> QED BY <2>5, <3>1, <3>2, <3>3 DEF InHand
  <2> QED BY <1>7, <2>3, <2>4, <2>5
<1>10. ASSUME NEW a \in Agent, AgentStep(a) PROVE Accounted'
  <2>1. /\ Busy(a) /\ daemon' = daemon /\ file'.dir = file.dir
        /\ delivered \subseteq delivered' /\ notified' = notified
    BY <1>0, <1>10, AgentCases DEF Gone
  <2>2. CASE ~agent[a].own
    <3>1. msg.stage \in {"none", "down"} /\ file.dir # "none"
      BY <1>0, <2>1, <2>2 DEF Requests
    <3>2. msg' = msg
      BY <1>0, <1>10, <2>2, AgentCases DEF Gone
    <3> QED BY <1>1, <2>1, <3>1, <3>2
  <2>3. CASE agent[a].own
    <3>1. msg.stage = "deliver"
      BY <2>1, <2>3, ControlFacts
    <3>2. ASSUME NEW phase \in {"open", "delivered", "bounced", "ok", "failed"},
                 Moved(a, phase), msg' = msg, file.done \subseteq file'.done
          PROVE  Accounted'
      <4>1. \A r \in Rcpt : InHand(r) => InHand(r)'
        BY <2>1, <3>2 DEF Moved, InHand
      <4> QED BY <1>7, <2>1, <3>1, <3>2, <4>1
    <3>3. ASSUME NEW failed \in BOOLEAN, Gone(a, failed), ~failed => agent[a].phase = "ok"
          PROVE  Accounted'
      <4>1. /\ Settled(msg, msg.flags \/ failed, msg.todo, agent')
            /\ \A b \in Agent \ {a} : agent'[b] = agent[b]
            /\ UNCHANGED <<file, log>>
        BY <2>3, <3>3 DEF Gone
      <4>2. agent[a].phase = "ok" => agent[a].rcpt \in file.done
        BY <1>0 DEF Marks
      <4>3. ~msg'.flags => \A r \in Rcpt : InHand(r) => InHand(r)'
        BY <3>3, <4>1, <4>2 DEF Settled, InHand
      <4> QED BY <1>7, <2>1, <3>1, <4>1, <4>3 DEF Settled
    <3> QED BY <1>0, <1>10, <3>2, <3>3, AgentCases
  <2> QED BY <1>0, <2>2, <2>3 DEF TypeOK, DELIVER_REQUEST
\* Steps of the functions that finish with the message.
<1>11. ASSUME NEW stage, NEW flags, Staged(stage, flags), UNCHANGED <<file, agent>>,
              delivered' = delivered, notified' = notified,
              msg.stage \in Tried \cup {"warn"}, msg.flags => flags,
              stage \in Tried \cup {"warn", "done_3"}, stage \in Tried => msg.stage \in Tried,
              stage \in {"done_2"} \cup Late /\ ~flags => log'.bounce = {},
              stage \in {"defer", "warn"} => flags,
              stage = "done_3" => msg.stage = "done_25" \/ flags,
              \A d \in Daemon : daemon'[d].phase # "idle" =>
                 \/ daemon'[d].own
                 \/ Serving(d) /\ (~daemon[d].own \/ flags)
       PROVE  Accounted'
  <2>1. /\ msg'.stage = stage /\ (msg'.flags <=> flags) /\ msg'.todo = msg.todo
        /\ msg'.rcpt_offset = msg.rcpt_offset
    BY <1>11 DEF Staged
  <2>2. \A r \in Rcpt : (Read(r)' <=> Read(r)) /\ (InHand(r)' <=> InHand(r))
    BY <1>11, <2>1 DEF Read, InHand
  <2>3. file.dir = "active"
    BY <1>11 DEF Control, NotForgotten, Tried
  <2>4. ASSUME stage = "done_3", ~flags PROVE Rcpt \subseteq delivered \cup notified
    <3>1. msg.stage = "done_25" /\ ~msg.flags
      BY <1>11, <2>4
    <3>2. msg.todo = {} /\ msg.rcpt_offset = 0 /\ \A a \in Agent : ~Busy(a)
      BY <1>0, <3>1, ControlFacts, LockingFacts DEF Control, Reading
    <3>3. Rcpt \subseteq file.done /\ log.bounce = {}
      BY <1>0, <3>1, <3>2 DEF Accounted, Tried, Late, Read, InHand
    <3> QED BY <1>0, <3>3 DEF Marks
  <2>5. \A d \in Daemon : daemon'[d].phase # "idle" /\ ~daemon'[d].own => flags
    BY <1>0, <1>11 DEF Accounted, Tried
  <2>6. /\ "done_3" \notin Tried
        /\ stage \in Tried /\ ~flags => \A r \in Rcpt : Read(r)' => InHand(r)'
    BY <1>0, <1>11, <2>2 DEF Accounted, Tried
  <2> QED BY <1>0, <1>11, <2>1, <2>3, <2>4, <2>5, <2>6 DEF Accounted
<1>12. ASSUME NEW d \in Daemon, DaemonStep(d) PROVE Accounted'
  <2>1. UNCHANGED <<file, agent, delivered>> /\ notified \subseteq notified'
    BY <1>0, <1>12, DaemonCases
  <2>2. ASSUME NEW e \in Daemon, daemon'[e].phase # "idle"
        PROVE  Serving(e) /\ (e # d => daemon'[e].own = daemon[e].own)
    BY <1>0, <1>12, <2>2, DaemonCases DEF Working, Idle
  <2>3. CASE /\ daemon[d].own => daemon'[d].own
             /\ Serving(d) /\ msg' = msg /\ log' = log
    <3>1. \A r \in Rcpt : (Read(r)' <=> Read(r)) /\ (InHand(r)' <=> InHand(r))
      BY <2>1, <2>3 DEF Read, InHand
    <3>2. \A e \in Daemon : daemon'[e].phase # "idle" /\ ~daemon'[e].own
             => Serving(e) /\ ~daemon[e].own
      BY <2>2, <2>3
    <3> QED BY <1>0, <2>1, <2>2, <2>3, <3>1, <3>2 DEF Accounted
  <2>4. CASE Serving(d) /\ ~daemon[d].own /\ msg' = msg
    <3>1. \A r \in Rcpt : (Read(r)' <=> Read(r)) /\ (InHand(r)' <=> InHand(r))
      BY <2>1, <2>4 DEF Read, InHand
    <3>2. \A e \in Daemon : daemon'[e].phase # "idle" /\ ~daemon'[e].own
             => Serving(e) /\ ~daemon[e].own
      BY <2>2, <2>4
    <3>3. log'.bounce \subseteq log.bounce
      BY <1>0, <1>12, DaemonCases
    <3> QED BY <1>0, <2>1, <2>2, <2>4, <3>1, <3>2, <3>3 DEF Accounted
  <2>5. ASSUME NEW failed \in BOOLEAN, Replied(d, failed), daemon[d].own,
               daemon[d].service = "bounce", notified' = notified,
               ~failed => log'.bounce = {} /\ daemon'[d].phase = "idle"
        PROVE  Accounted'
    <3>1. msg.stage = "bounce" /\ Staged("done_2", msg.flags \/ failed)
      BY <2>5, ControlFacts DEF Replied
    <3>2. \A e \in Daemon : daemon'[e].phase # "idle" =>
             \/ daemon'[e].own
             \/ Serving(e) /\ (~daemon[e].own \/ (msg.flags \/ failed))
      BY <2>2, <2>5
    <3> QED BY <1>11, <2>1, <2>5, <3>1, <3>2 DEF Tried
  <2>6. ASSUME daemon[d].own, daemon[d].service = "defer", daemon[d].phase = "posted",
               Replied(d, FALSE), notified' = notified, log'.bounce = log.bounce, Idle(d)
        PROVE  Accounted'
    <3>1. msg.stage = "defer" /\ Staged("done_3", FALSE) /\ Expiry
      BY <1>0, <2>6, ControlFacts DEF Replied, Forced
    <3>2. /\ ~file.bad /\ log.bounce = {} /\ daemon[d].rcpts = log.defer
          /\ msg.todo = {} /\ msg.rcpt_offset = 0 /\ \A a \in Agent : ~Busy(a)
      BY <1>0, <2>6, <3>1, ControlFacts, LockingFacts
      DEF Damaged, Reported, Late, Control, Reading
    <3>3. Rcpt \subseteq file.done \cup log.defer
      BY <1>0, <3>1, <3>2 DEF Covered, Tried, Read, Excuse
    <3>4. log.defer \subseteq notified
      BY <1>0, <2>6, <3>2 DEF Quiet
    <3>5. file.done \subseteq delivered \cup notified
      BY <1>0, <3>2 DEF Marks
    <3>6. \A e \in Daemon : daemon'[e].phase = "idle"
      BY <1>0, <2>6, <3>1, ControlFacts DEF Idle, Control, OneReply
    <3>7. file.dir = "active"
      BY <3>1 DEF Control, NotForgotten
    <3> QED BY <2>1, <2>6, <3>1, <3>2, <3>3, <3>4, <3>5, <3>6, <3>7
            DEF Staged, Accounted, Tried, Late
  <2>7. ASSUME daemon[d].own, daemon[d].service = "defer",
               Replied(d, TRUE), notified' = notified, log' = log
        PROVE  Accounted'
    <3>1. msg.stage = "defer" /\ Staged("done_3", TRUE) /\ file.dir = "active"
      BY <1>0, <2>7, ControlFacts DEF Replied, Control, NotForgotten
    <3> QED BY <2>1, <2>7, <3>1 DEF Staged, Accounted, Tried, Late
  <2>8. CASE daemon[d].phase = "posted" /\ Idle(d) /\ Replied(d, FALSE) /\ notified' = notified
             /\ log'[daemon[d].service] = {}
             /\ \A s \in {"bounce", "defer"} \ {daemon[d].service} : log'[s] = log[s]
    <3>1. CASE daemon[d].own /\ daemon[d].service = "bounce"
      BY <2>5, <2>8, <3>1 DEF Idle
    <3>2. CASE daemon[d].own /\ daemon[d].service = "defer"
      BY <2>6, <2>8, <3>2
    <3>3. CASE ~daemon[d].own
      BY <2>4, <2>8, <3>3 DEF Replied
    <3> QED BY <1>0, <3>1, <3>2, <3>3
  <2>9. CASE Serving(d) /\ Replied(d, TRUE) /\ notified' = notified /\ log' = log
    <3>1. CASE daemon[d].own /\ daemon[d].service = "bounce"
      BY <2>5, <2>9, <3>1
    <3>2. CASE daemon[d].own /\ daemon[d].service = "defer"
      BY <2>7, <2>9, <3>2
    <3>3. CASE ~daemon[d].own
      BY <2>4, <2>9, <3>3 DEF Replied
    <3> QED BY <1>0, <3>1, <3>2, <3>3
  <2> QED BY <1>0, <1>12, <2>3, <2>8, <2>9, DaemonCases DEF Working
<1>13. ASSUME Asked("bounce") \/ Asked("defer"), NEW e \in Daemon, daemon'[e].phase # "idle"
       PROVE  daemon'[e].own \/ (Serving(e) /\ daemon'[e].own = daemon[e].own)
  BY <1>13 DEF Asked
<1>14. CASE qmgr_active_done
  <2>1. \A d \in Daemon : ~daemon[d].own
    BY <1>14, DoneCases, ControlFacts
  <2> QED BY <1>0, <1>11, <1>13, <1>14, <2>1, DoneCases DEF Tried, Late
<1>15. CASE qmgr_active_done_2_generic
  <2>1. msg.stage = "done_2"
    BY <1>0, <1>15, DoneTwoCases
  <2>2. \A d \in Daemon : ~daemon[d].own
    BY <2>1, ControlFacts
  <2>3. CASE Renamed("corrupt") /\ Cleared("none") /\ UNCHANGED <<daemon, delivered, notified>>
    BY <1>1, <2>3 DEF Renamed, Cleared
  <2>4. CASE /\ \E next \in {"trace", "done_25"} : Staged(next, msg.flags)
             /\ UNCHANGED <<file, log, agent, daemon, delivered, notified>>
    BY <1>0, <1>11, <2>1, <2>2, <2>4 DEF Accounted, Tried, Late
  <2> QED BY <1>0, <1>5, <1>15, <2>3, <2>4, DoneTwoCases
<1>16. ASSUME NEW stage \in {"done_25", "done_3", "warn", "defer"}, NEW flags, Staged(stage, flags),
              UNCHANGED <<file, log, agent, delivered, notified>>, msg.flags => flags,
              msg.stage \in {"trace", "done_25", "warn"},
              stage \in {"warn", "defer"} => flags, stage \in Tried => msg.stage \in Tried,
              stage = "done_3" => msg.stage = "done_25" \/ flags,
              daemon' = daemon \/ Asked("defer")
       PROVE  Accounted'
  <2>1. \A d \in Daemon : ~daemon[d].own
    BY <1>16, ControlFacts
  <2>2. \A d \in Daemon : daemon'[d].phase # "idle" =>
           daemon'[d].own \/ (Serving(d) /\ (~daemon[d].own \/ flags))
    BY <1>13, <1>16, <2>1
  <2>3. ~flags => log'.bounce = {}
    BY <1>0, <1>16 DEF Accounted, Late
  <2> QED BY <1>11, <1>16, <2>2, <2>3 DEF Tried
<1>17. CASE qmgr_active_done_25_trace_flush
  BY <1>0, <1>16, <1>17, TraceCases DEF Tried
<1>18. CASE qmgr_active_done_25_generic
  BY <1>0, <1>16, <1>18, DoneDeferCases DEF Tried
<1>19. CASE qmgr_active_done_3_defer_warn
  <2>1. msg.stage = "warn" /\ msg.flags
    BY <1>0, <1>19, WarnCases DEF Accounted
  <2> QED BY <1>0, <1>16, <1>19, <2>1, WarnCases DEF Tried
<1>20. CASE qmgr_active_done_3_generic
  <2>1. /\ msg.stage = "done_3" /\ Cleared("none")
        /\ Renamed(IF msg.flags THEN "deferred" ELSE "none")
        /\ UNCHANGED <<log, agent, daemon, delivered, notified>>
    BY <1>0, <1>20, FinishCases
  <2>2. CASE msg.flags
    BY <1>1, <2>1, <2>2 DEF Renamed, Cleared
  <2>3. CASE ~msg.flags
    <3>1. \A d \in Daemon : ~Serving(d)
      BY <1>0, <2>1, <2>3, ControlFacts DEF Accounted
    <3>2. Rcpt \subseteq delivered \cup notified
      BY <1>0, <2>1, <2>3 DEF Accounted
    <3> QED BY <2>1, <3>1, <3>2 DEF Cleared, Accounted, Tried, Late
  <2> QED BY <2>2, <2>3
<1>21. CASE postsuper_expire
  BY <1>0, <1>3, <1>21, ExpireCases
<1>22. CASE qmgr_dies
  <2>1. /\ msg'.stage = "down" /\ UNCHANGED <<file, delivered, notified>>
        /\ \A d \in Daemon : daemon'[d].phase = daemon[d].phase
    BY <1>0, <1>22, DieCases DEF Cleared, Orphaned
  <2> QED BY <1>0, <1>1, <2>1 DEF Accounted
<1>23. CASE qmgr_post_init
  <2>1. /\ msg'.stage = "none" /\ UNCHANGED <<daemon, delivered, notified>>
        /\ file'.dir = "none" <=> file.dir = "none"
    BY <1>0, <1>23, StartCases DEF Cleared, Renamed
  <2> QED BY <1>0, <1>1, <2>1 DEF Accounted
<1>24. CASE UNCHANGED vars
  BY <1>0, <1>3, <1>24 DEF vars
<1> QED
  BY <1>4, <1>6, <1>8, <1>9, <1>10, <1>12, <1>14, <1>15, <1>17, <1>18, <1>19, <1>20,
     <1>21, <1>22, <1>23, <1>24
  DEF Next, Step, ActiveDone

LEMMA PromiseStep ==
    ASSUME Control, Control', Locking, Reporting, Promise, [Next]_vars
    PROVE  Promise'
<1>1. faults' = faults
  BY DEF Next, vars
<1>2. (Safe(faults)' <=> Safe(faults)) /\ (Expiry' <=> Expiry)
  BY <1>1 DEF Safe, Expiry
<1> QED
  BY <1>2, AccountedStep, ForcedStep, DamagedStep, CoveredStep, ReportedStep
  DEF Promise, Excused

-----------------------------------------------------------------------------
(***************************************************************************)
(* The inductive invariant is the conjunction of the layers.  Each layer   *)
(* needs the ones before it: who owns what, who holds the lock, what the   *)
(* logs and the marks say, and last the recipients that are accounted for. *)
(***************************************************************************)
IInv ==
    /\ Control /\ Locking /\ Reporting /\ Truthful /\ Honest /\ Promise
    /\ faults \in FaultSets

LEMMA Inductive == Spec => []IInv
<1>1. Init => IInv
  BY ControlInit, LockingInit, ReportingInit, TruthfulInit, HonestInit, PromiseInit
  DEF IInv, Init
<1>2. IInv /\ [Next]_vars => IInv'
  <2> SUFFICES ASSUME IInv, [Next]_vars PROVE IInv'
    OBVIOUS
  <2>1. Control' BY ControlStep DEF IInv
  <2>2. Locking' BY <2>1, LockingStep DEF IInv
  <2>3. Reporting' BY <2>1, <2>2, ReportingStep DEF IInv
  <2>4. Truthful' BY <2>1, <2>2, TruthfulStep DEF IInv
  <2>5. Honest' BY <2>1, <2>2, HonestStep DEF IInv
  <2>6. Promise' BY <2>1, PromiseStep DEF IInv
  <2>7. faults' \in FaultSets BY DEF IInv, Next, vars
  <2> QED BY <2>1, <2>2, <2>3, <2>4, <2>5, <2>6, <2>7 DEF IInv
<1> QED BY <1>1, <1>2, PTL DEF Spec

\* Whatever fails, the queue file, the logs, the message in core, the agents
\* and the bounce daemons stay well formed (qmgr.h's QMGR_MESSAGE with its
\* counts and offsets, deliver_request.h, bounce_service.h).
THEOREM TypeCorrect == Spec => []TypeOK
<1>1. IInv => TypeOK BY DEF IInv, Control
<1> QED BY <1>1, Inductive, PTL

\* Whatever fails, qmgr_active.c's callbacks never lose track of a message: the
\* active queue and the messages in core agree, and a message in core waits
\* for a request or a notification that is under way.
THEOREM NeverForgotten == Spec => []NotForgotten
<1>1. IInv => NotForgotten BY DEF IInv, Control
<1> QED BY <1>1, Inductive, PTL

\* The shared lock that deliver_request_get() takes keeps a restarted queue
\* manager from giving a recipient to a second agent: for every number of
\* recipients, agents and daemons and every combination of faults, except a
\* restart that overtakes a request on its way to the agent.
THEOREM NoDuplicateWork ==
    ASSUME \A F \in FaultSets : "transit" \notin F
    PROVE  Spec => []NoParallelDelivery
<1>1. IInv => NoParallelDelivery
  BY DEF IInv, Locking, NoTransit, Requests, NoParallelDelivery, Busy
<1> QED BY <1>1, Inductive, PTL

\* bounce_append_service(), the marks of deliver_completed() and the unlink in
\* qmgr_message_read() keep the defer log about recipients who still wait, and
\* a notification never names a recipient who has the message unless an agent,
\* a notification or the queue file failed.
THEOREM NobodyAlarmed ==
    ASSUME \A F \in FaultSets : "transit" \notin F
    PROVE  Spec => []NoFalseAlarm
<1>1. IInv => NoFalseAlarm
  BY DEF IInv, Truthful, NoTransit, Deferred, Honest, Sober, Once, NoFalseAlarm
<1> QED BY <1>1, Inductive, PTL

\* Mail is not lost: under the faults that the queue manager copes with, a
\* recipient who neither got the message nor was reported to the sender is
\* still in the queue file and not marked, or is in the bounce log.  The steps
\* that could break it are qmgr_active_done_3_generic(), which removes the
\* file, deliver_completed(), which marks, and the unlink of a log by
\* bounce_notify_service().
THEOREM MailIsKept ==
    ASSUME \A F \in FaultSets : Safe(F)
    PROVE  Spec => []NoMailLost
<1>1. ASSUME IInv PROVE NoMailLost
  <2>1. Safe(faults)
    BY <1>1 DEF IInv
  <2>2. Marks /\ Accounted
    BY <1>1, <2>1, PromiseFacts DEF IInv
  <2> QED BY <2>2 DEF Marks, Accounted, NoMailLost
<1> QED BY <1>1, Inductive, PTL

\* Every step of the queue manager, an agent or a bounce daemon is a step of
\* MailStore, or changes nothing there.
LEMMA StoreStep ==
    ASSUME IInv, Safe(faults), [Next]_vars
    PROVE  [Store!Next]_<<file.dir # "none", delivered, notified>>
<1> USE DEF Busy, Serving
<1> DEFINE stored == file.dir # "none"
<1>0. /\ TypeOK /\ Control /\ Locking /\ NoTransit /\ Requests /\ Accounted
      /\ msg.stage \notin {"none", "down"} => file.dir = "active"
  BY PromiseFacts DEF IInv, Control, NotForgotten
\* The kinds of steps.
<1>1. ASSUME (file'.dir = "none") <=> (file.dir = "none"), UNCHANGED <<delivered, notified>>
      PROVE  [Store!Next]_<<stored, delivered, notified>>
  <2>1. stored' = stored
    BY <1>1
  <2> QED BY <1>1, <2>1
<1>2. ASSUME NEW R \in SUBSET Rcpt, delivered' = delivered \cup R, notified' = notified,
             file.dir # "none", file'.dir # "none"
      PROVE  [Store!Next]_<<stored, delivered, notified>>
  <2>1. stored /\ stored' = stored
    BY <1>2
  <2> QED BY <1>2, <2>1 DEF Store!Next, Store!Deliver
<1>3. ASSUME NEW R \in SUBSET Rcpt, notified' = notified \cup R, delivered' = delivered,
             file.dir # "none", file'.dir # "none"
      PROVE  [Store!Next]_<<stored, delivered, notified>>
  <2>1. stored /\ stored' = stored
    BY <1>3
  <2> QED BY <1>3, <2>1 DEF Store!Next, Store!Report
\* The actions.
<1>4. CASE qmgr_active_feed
  BY <1>0, <1>1, <1>2, <1>4, FeedCases DEF Renamed, Assigned
<1>5. ASSUME qmgr_message_realloc, msg.rcpt_offset # 0, msg.stage \in {"deliver", "done_2"}
      PROVE  [Store!Next]_<<stored, delivered, notified>>
  BY <1>0, <1>1, <1>2, <1>5, RealBatch DEF Assigned
<1>6. CASE qmgr_job_peer_select
  BY <1>5, <1>6 DEF qmgr_job_peer_select
<1>7. ASSUME NEW r \in Rcpt, qmgr_defer_todo(r)
      PROVE  [Store!Next]_<<stored, delivered, notified>>
  BY <1>0, <1>1, <1>7, DeferTodoCases
<1>8. CASE SendRequest
  <2>1. msg.todo \in SUBSET Rcpt
    BY <1>0 DEF TypeOK, QMGR_MESSAGE
  <2> QED BY <1>0, <1>1, <1>8, <2>1, SendCases DEF SendRequest
<1>9. ASSUME NEW a \in Agent, AgentStep(a)
      PROVE  [Store!Next]_<<stored, delivered, notified>>
  <2>1. Busy(a) => file.dir # "none"
    BY <1>0 DEF Requests
  <2>2. agent[a].rcpt \in Rcpt
    BY <1>0 DEF TypeOK, DELIVER_REQUEST
  <2> QED BY <1>0, <1>1, <1>2, <1>9, <2>1, <2>2, AgentCases DEF Gone
<1>10. ASSUME NEW d \in Daemon, DaemonStep(d)
       PROVE  [Store!Next]_<<stored, delivered, notified>>
  <2>1. Serving(d) => file.dir # "none"
    BY <1>0 DEF Accounted
  <2>2. (IF daemon[d].rcpts = {} THEN Rcpt ELSE daemon[d].rcpts) \in SUBSET Rcpt
    BY <1>0 DEF TypeOK, BOUNCE_INFO
  <2> QED BY <1>0, <1>1, <1>3, <1>10, <2>1, <2>2, DaemonCases
<1>11. CASE qmgr_active_done
  BY <1>0, <1>1, <1>11, DoneCases
<1>12. CASE qmgr_active_done_2_generic
  <2>1. CASE qmgr_message_realloc /\ msg.rcpt_offset # 0
    BY <1>0, <1>5, <1>12, <2>1, DoneTwoCases
  <2>2. CASE ~(qmgr_message_realloc /\ msg.rcpt_offset # 0)
    BY <1>0, <1>1, <1>12, <2>2, DoneTwoCases DEF Renamed
  <2> QED BY <2>1, <2>2
<1>13. CASE qmgr_active_done_25_trace_flush
  BY <1>0, <1>1, <1>13, TraceCases
<1>14. CASE qmgr_active_done_25_generic
  BY <1>0, <1>1, <1>14, DoneDeferCases
<1>15. CASE qmgr_active_done_3_defer_warn
  BY <1>0, <1>1, <1>15, WarnCases
<1>16. CASE qmgr_active_done_3_generic
  <2>1. /\ msg.stage = "done_3" /\ file.dir = "active" /\ UNCHANGED <<delivered, notified>>
        /\ file'.dir = IF msg.flags THEN "deferred" ELSE "none"
    BY <1>0, <1>16, FinishCases DEF Renamed
  <2>2. CASE msg.flags
    BY <1>1, <2>1, <2>2
  <2>3. CASE ~msg.flags
    <3>1. delivered \cup notified = Rcpt
      BY <1>0, <2>1, <2>3 DEF Accounted, TypeOK
    <3>2. stored /\ stored' = FALSE
      BY <2>1, <2>3
    <3> QED BY <2>1, <3>1, <3>2 DEF Store!Next, Store!Forget
  <2> QED BY <2>2, <2>3
<1>17. CASE postsuper_expire
  BY <1>0, <1>1, <1>17, ExpireCases
<1>18. CASE qmgr_dies
  BY <1>0, <1>1, <1>18, DieCases
<1>19. CASE qmgr_post_init
  BY <1>0, <1>1, <1>19, StartCases DEF Renamed
<1>20. CASE UNCHANGED vars
  BY <1>1, <1>20 DEF vars
<1> QED
  BY <1>4, <1>6, <1>7, <1>8, <1>9, <1>10, <1>11, <1>12, <1>13, <1>14, <1>15, <1>16,
     <1>17, <1>18, <1>19, <1>20
  DEF Next, Step, ActiveDone

\* The queue manager, its agents and the bounce daemons implement MailStore:
\* under the faults that they cope with, the queue file is removed once, by
\* qmgr_active_done_3_generic() and after every recipient was delivered or
\* reported, and nobody delivers or reports afterwards.
THEOREM ImplementsMailStore ==
    ASSUME \A F \in FaultSets : Safe(F)
    PROVE  Spec => KeepsPromise
<1>1. Init => Store!Init
  BY DEF Init, Store!Init
<1>2. IInv /\ [Next]_vars => [Store!Next]_<<file.dir # "none", delivered, notified>>
  BY StoreStep DEF IInv
<1> QED BY <1>1, <1>2, Inductive, PTL DEF Spec, KeepsPromise, Store!Spec
=============================================================================
