-------------------------- MODULE SmtpClientProofs --------------------------
(***************************************************************************)
(* One delivery request of the SMTP and LMTP client: the type invariant,   *)
(* every recipient has one outcome, replies match commands, and what       *)
(* bounces was refused.                                                    *)
(***************************************************************************)
EXTENDS SmtpClient, SmtpProtoProofs, ListsProofs

-----------------------------------------------------------------------------
(***************************************************************************)
(* The inductive invariant.                                                *)
(***************************************************************************)
ItType ==
    [ site : Nat, list : Seq(Addr), todo : Seq(Addr), next : Seq(Addr),
      mode : {"connect", "nexthop", "reuse"}, addr_count : Nat, sess_count : Nat,
      retry_plain : BOOLEAN, plain : BOOLEAN, load : BOOLEAN, store : BOOLEAN,
      request_nexthop : BOOLEAN, cache_used : SUBSET Addr, skipped : BOOLEAN ]

CacheType == [endp : SUBSET Addr, dest : SUBSET Addr, clean : BOOLEAN]

SessionPc == {"helo", "xfer", "cleanup"} \cup LoopPc
IdlePc == {"site", "nexthop", "reuse", "connect"}

\* There is room for another address, or another session.
Room(n, limit) == limit > 0 => n < limit

\* The limits on addresses and sessions are not exceeded.  In a session the
\* address that is tried remains at the head of the list, for another attempt.
Limits(i) ==
    /\ i.site <= Len(cfg.sites)
    /\ Within(i.addr_count, cfg.mxaddr_limit) /\ Within(i.sess_count, cfg.mxsess_limit)

CountedCached(i) ==
    /\ Within(i.sess_count, cfg.mxaddr_limit)
    /\ i.list # <<>> => Room(i.sess_count, cfg.mxaddr_limit) /\ Room(i.sess_count, cfg.mxsess_limit)

CountedNew(i, se) ==
    /\ i.todo # <<>> /\ i.addr_count > 0
    /\ i.next # <<>> => Room(i.addr_count, cfg.mxaddr_limit)
    /\ IF se.xfer
       THEN i.sess_count > 0 /\ (i.next # <<>> => Room(i.sess_count, cfg.mxsess_limit))
       ELSE Room(i.sess_count, cfg.mxsess_limit)

CountedIdle(i, p) ==
    /\ p \in {"nexthop", "reuse"} => CountedCached(i) /\ (i.todo # <<>> => i.list # <<>>)
    /\ p = "nexthop" => i.sess_count = 0
    /\ p = "connect" /\ i.todo # <<>> =>
          Room(i.addr_count, cfg.mxaddr_limit) /\ Room(i.sess_count, cfg.mxsess_limit)

CountedBusy(i, se) ==
    /\ i.mode # "connect" => CountedCached(i)
    /\ i.mode = "nexthop" => (i.todo # <<>> => i.list # <<>>)
    /\ i.mode = "reuse" => (i.next # <<>> => i.list # <<>>)
    /\ i.mode = "connect" => CountedNew(i, se)

Counted(i, se, p) ==
    /\ Limits(i)
    /\ p \notin {"site", "done"} => i.site > 0
    /\ p \in IdlePc => CountedIdle(i, p)
    /\ p \in SessionPc => CountedBusy(i, se)

\* Who is marked, and when nobody is.
MarksOK(s, se, l, v, i, p) ==
    /\ p \notin LoopPc \cup {"cleanup"} =>
          Marked(s) = {} /\ v.wire = <<>> /\ ~v.mail /\ v.rcpts = <<>>
    /\ p \in {"nexthop", "helo", "xfer"} => s.list # <<>>
    /\ p = "done" => s.list = <<>>
    /\ p \in {"helo", "xfer"} => ~s.hop_status
    /\ p = "helo" => i.mode = "connect" /\ ~se.xfer
    /\ p = "xfer" => se.xfer
    /\ p \notin LoopPc => l = NewLoop
    /\ p \in SessionPc => se.addr # NoAddr
    /\ p \in SessionPc /\ i.mode # "connect" => ~se.tls /\ ~se.retry_plain

\* Another server will be tried.
MoreAfter(se, i) ==
    CASE i.mode = "nexthop" -> i.list # <<>>
      [] i.mode = "reuse" -> i.next # <<>>
      [] OTHER -> i.next # <<>> \/ se.retry_plain

MoreIdle(i, p) ==
    IF p = "connect" THEN i.todo # <<>> ELSE p # "site" /\ i.list # <<>>

LastHop(i) == i.site = Len(cfg.sites)

\* The reason for what is left over is about everybody who is left over, or
\* there will be another one.
Reasoned(s, se, i, p) ==
    /\ p \in SessionPc => s.final_server \/ ~LastHop(i) \/ MoreAfter(se, i)
    /\ p \in IdlePc /\ s.list # <<>> /\ s.why \in {"2", "5"} =>
          \/ ToSet(s.list) \subseteq s.refused
          \/ i.skipped \/ ~LastHop(i) \/ MoreIdle(i, p)
    /\ p \notin LoopPc => Fair(s) \/ (p = "done" /\ i.skipped)

CacheOK(c) == c \in CacheType /\ c.dest \subseteq c.endp /\ c.clean

Client(s, se, l, v, i, c, p) ==
    /\ i \in ItType /\ p \in SessionPc \cup IdlePc \cup {"done"}
    /\ Counted(i, se, p)
    /\ MarksOK(s, se, l, v, i, p)
    /\ Reasoned(s, se, i, p)
    /\ CacheOK(c)

IInv == ProtoInv /\ Client(st, ses, lp, srv, it, cache, pc)

\* The invariant, of the values that a step leaves.
Served(s, se, l, v, i, c, p) == Fine(s, se, l, v, p) /\ Client(s, se, l, v, i, c, p)

-----------------------------------------------------------------------------
(***************************************************************************)
(* Lists of addresses.                                                     *)
(***************************************************************************)
\* smtp_update_addr_list(): a list without one of its addresses.
LEMMA RemoveFirstType ==
    ASSUME NEW S, NEW list \in Seq(S), NEW a
    PROVE  RemoveFirst(list, a) \in Seq(S)
<1>1. CASE ~\E i \in 1..Len(list) : list[i] = a
  BY <1>1 DEF RemoveFirst
<1>2. CASE \E i \in 1..Len(list) : list[i] = a
  <2> DEFINE I == {i \in 1..Len(list) : list[i] = a}
  <2>0. Len(list) \in Nat
    OBVIOUS
  <2>1. I \in SUBSET Nat /\ I # {} /\ I \subseteq 1..Len(list)
    BY <1>2, <2>0
  <2>2. PICK m \in I : \A y \in I : m <= y
    <3> HIDE DEF I
    <3> QED BY <2>1, NatMin
  <2>3. Min(I) \in I
    <3> HIDE DEF I
    <3> QED BY <2>2 DEF Min
  <2>4. SelectInSeq(list, LAMBDA v : v = a) = Min(I)
    <3>1. SelectInSeq(list, LAMBDA v : v = a) = IF I # {} THEN Min(I) ELSE 0
      BY DEF SelectInSeq
    <3> QED BY <3>1, <2>1
  <2>5. PICK k \in 1..Len(list) : k = Min(I)
    BY <2>1, <2>3
  <2>6. RemoveFirst(list, a) = SubSeq(list, 1, k - 1) \o SubSeq(list, k + 1, Len(list))
    BY <1>2, <2>4, <2>5 DEF RemoveFirst, RemoveAt
  <2>7. SubSeq(list, 1, k - 1) \in Seq(S)
    BY <2>0, SubSeqProperties
  <2>8. SubSeq(list, k + 1, Len(list)) \in Seq(S)
    BY <2>0, SubSeqProperties
  <2> QED BY <2>6, <2>7, <2>8, ConcatProperties
<1> QED BY <1>1, <1>2

\* smtp_update_addr_list(): servers are left only while both limits allow one more.
LEMMA UpdateType ==
    ASSUME NEW list \in Seq(Addr), NEW a, NEW count, NEW rest,
           rest = smtp_update_addr_list(list, a, count)
    PROVE  /\ rest \in Seq(Addr)
           /\ rest # <<>> => count # cfg.mxsess_limit /\ count # cfg.mxaddr_limit
<1>1. <<>> \in Seq(Addr)
  OBVIOUS
<1>2. RemoveFirst(list, a) \in Seq(Addr)
  BY RemoveFirstType
<1> QED BY <1>1, <1>2 DEF smtp_update_addr_list

\* smtp_scrub_addr_list(): what remains are addresses.
LEMMA ScrubType ==
    ASSUME NEW addrs \in Seq(Addr)
    PROVE  smtp_scrub_addr_list(addrs) \in Seq(Addr)
BY Unlinked DEF Remains, Retains, smtp_scrub_addr_list
-----------------------------------------------------------------------------
(***************************************************************************)
(* From the values that a step leaves to the invariant.                    *)
(***************************************************************************)
\* What a step leaves behind is the invariant of the next state.
LEMMA ServedNext ==
    ASSUME cfg \in Setups, cfg' = cfg, Served(st', ses', lp', srv', it', cache', pc')
    PROVE  IInv'
<1>1. Fine(st', ses', lp', srv', pc') /\ Client(st', ses', lp', srv', it', cache', pc')
  BY DEF Served
<1>2. ProtoInv'
  BY <1>1, ProtoNext
<1>3. Counted(it', ses', pc') => Counted(it, ses, pc)'
  BY DEF Counted, Limits, CountedIdle, CountedBusy, CountedCached, CountedNew, Within, Room,
         IdlePc, SessionPc, LoopPc
<1>4. MarksOK(st', ses', lp', srv', it', pc') => MarksOK(st, ses, lp, srv, it, pc)'
  BY DEF MarksOK, Marked, SessionPc, LoopPc, NewLoop
<1>5. Reasoned(st', ses', it', pc') => Reasoned(st, ses, it, pc)'
  BY DEF Reasoned, LastHop, MoreAfter, MoreIdle, SessionPc, IdlePc, LoopPc, Fair
<1>6. CacheOK(cache') => CacheOK(cache)'
  BY DEF CacheOK, CacheType
<1>7. ItType' = ItType /\ SessionPc' = SessionPc /\ IdlePc' = IdlePc
  BY DEF ItType, SessionPc, LoopPc, IdlePc
<1>8. Client(st', ses', lp', srv', it', cache', pc') => Client(st, ses, lp, srv, it, cache, pc)'
  BY <1>3, <1>4, <1>5, <1>6, <1>7 DEF Client
<1> QED BY <1>1, <1>2, <1>8 DEF IInv

\* Between sessions, what a session has said is only looked at.
Idle(s, v, p) ==
    /\ s \in StType /\ v \in SrvType /\ Account(s) /\ Taken(s, v) /\ Marked(s) = {}
    /\ v.wire = <<>> /\ ~v.mail /\ v.rcpts = <<>>
    /\ p \notin LoopPc \cup {"cleanup"}

\* The parts of the invariant.
LEMMA IInvFacts ==
    ASSUME IInv
    PROVE  /\ cfg \in Setups /\ st \in StType /\ ses \in SesType /\ lp \in LoopType /\ srv \in SrvType
           /\ Account(st) /\ Taken(st, srv)
           /\ it \in ItType /\ Counted(it, ses, pc) /\ MarksOK(st, ses, lp, srv, it, pc)
           /\ Reasoned(st, ses, it, pc) /\ CacheOK(cache)
           /\ pc \in SessionPc \cup IdlePc \cup {"done"}
           /\ pc \notin LoopPc \cup {"cleanup"} => Idle(st, srv, pc) /\ lp = NewLoop
BY DEF IInv, ProtoInv, TalkType, Client, MarksOK, Idle

\* Another reason, or the last server.
Remarked(s, t) ==
    /\ t \in StType
    /\ t.list = s.list /\ t.keep = s.keep /\ t.drop = s.drop /\ t.complete = s.complete
    /\ t.hop_status = s.hop_status /\ t.fate = s.fate /\ t.panic = s.panic
    /\ s.refused \subseteq t.refused

\* Another reason or the last server: the account of the recipients is the same.
LEMMA RemarkOK ==
    ASSUME NEW s, NEW v, NEW p, Idle(s, v, p), NEW t, Remarked(s, t)
    PROVE  /\ Account(t) /\ Taken(t, v) /\ Marked(t) = {} /\ (Fair(s) => Fair(t))
           /\ Unmarked(t) = Unmarked(s)
           /\ \A q : q \notin LoopPc \cup {"cleanup"} => Idle(t, v, q)
<1>1. Marked(t) = {} /\ Marked(s) = {} /\ Unmarked(t) = Unmarked(s)
  BY DEF Idle, Remarked, Marked, Unmarked
<1>2. Account(t)
  <2>1. t.keep = {} /\ t.drop = {} /\ s.keep = {} /\ s.drop = {}
    BY <1>1 DEF Marked
  <2>2. Account(s)
    BY DEF Idle
  <2>3. ~t.panic /\ (t.hop_status => ~t.complete /\ ToSet(t.list) \subseteq t.drop)
    BY <2>2 DEF Account, Remarked
  <2>4. Decided(t) = Decided(s)
    BY DEF Remarked, Decided
  <2>5. \A i, j \in 1..Len(t.list) : t.list[i] = t.list[j] => i = j
    BY <2>2 DEF Account, Remarked
  <2> QED BY <1>1, <2>1, <2>2, <2>3, <2>4, <2>5 DEF Account, Remarked
<1>3. Taken(t, v)
  BY TakenSame DEF Idle, Remarked
<1>4. Fair(s) => Fair(t)
  BY DEF Fair, Remarked
<1> QED BY <1>1, <1>2, <1>3, <1>4 DEF Idle, Remarked

\* SMTP_MISC_FLAG_FINAL_SERVER: set for the last server of the last next hop.
LEMMA FinalOK ==
    ASSUME NEW s \in StType, NEW next, NEW t, t = Final(s, next)
    PROVE  /\ t \in StType /\ Remarked(s, t) /\ t.why = s.why /\ t.refused = s.refused
           /\ t.final_server \/ ~FinalNexthop \/ next # <<>>
<1>1. PICK b \in BOOLEAN : b = (s.final_server \/ (FinalNexthop /\ next = <<>>))
  BY Zenon
<1>2. t = [s EXCEPT !.final_server = b]
  BY <1>1 DEF Final
<1>3. t \in StType /\ t.final_server = b /\ t.why = s.why /\ t.refused = s.refused
  BY <1>2 DEF StType
<1>4. Remarked(s, t)
  BY <1>2, <1>3 DEF Remarked, StType
<1> QED BY <1>1, <1>3, <1>4

\* A step of smtp_loop().
LEMMA LoopServed ==
    ASSUME IInv, SmtpLoop, UNCHANGED <<it, cache>>
    PROVE  Served(st', ses', lp', srv', it', cache', pc')
<1>1. Fine(st', ses', lp', srv', pc') /\ Keeps(st, ses, st', ses', pc')
  BY LoopMoves DEF IInv, Moves
<1>2. pc \in LoopPc
  BY DEF SmtpLoop, LoopTop, RecvReply, RecvPremature, RecvLost, Synced, EmitNothing,
         EmitCommand, EmitBadContent, EmitLostContent, EmitLost, SendsContent, LoopPc
<1>3. pc \in SessionPc /\ pc \notin IdlePc
  BY <1>2 DEF SessionPc, LoopPc, IdlePc
<1>4. pc' \in SessionPc /\ pc' \notin IdlePc /\ pc' \in LoopPc \cup {"cleanup"}
  BY <1>1 DEF Keeps, SessionPc, LoopPc, IdlePc
<1>5. it' = it /\ cache' = cache
  OBVIOUS
<1>6. /\ ses'.addr = ses.addr /\ ses'.xfer = ses.xfer /\ ses'.tls = ses.tls
      /\ \/ st'.final_server = st.final_server /\ ses'.retry_plain = ses.retry_plain
         \/ ses.tls /\ ses'.retry_plain
  BY <1>1 DEF Keeps
<1>7. Counted(it', ses', pc')
  <2>1. Counted(it, ses, pc)
    BY IInvFacts
  <2> QED BY <2>1, <1>2, <1>3, <1>4, <1>5, <1>6
        DEF Counted, CountedBusy, CountedNew, SessionPc, LoopPc
<1>8. MarksOK(st', ses', lp', srv', it', pc')
  <2>1. MarksOK(st, ses, lp, srv, it, pc)
    BY IInvFacts
  <2>2. pc' \notin LoopPc => lp' = NewLoop
    BY <1>1, <1>4 DEF Fine
  <2>3. ses'.addr # NoAddr
    BY <2>1, <1>3, <1>6 DEF MarksOK
  <2>4. it.mode # "connect" => ~ses'.tls /\ ~ses'.retry_plain
    BY <2>1, <1>3, <1>6 DEF MarksOK
  <2>5. pc' \notin {"nexthop", "helo", "xfer", "done"}
    BY <1>4 DEF LoopPc
  <2> QED BY <2>2, <2>3, <2>4, <2>5, <1>4, <1>5 DEF MarksOK
<1>9. Reasoned(st', ses', it', pc')
  <2>1. st.final_server \/ ~LastHop(it) \/ MoreAfter(ses, it)
    BY IInvFacts, <1>3 DEF Reasoned
  <2>2. it.mode # "connect" => ~ses.tls
    BY IInvFacts, <1>3 DEF MarksOK
  <2>3. it.mode \in {"connect", "nexthop", "reuse"}
    BY IInvFacts DEF ItType
  <2>4. st'.final_server \/ ~LastHop(it) \/ MoreAfter(ses', it)
    BY <2>1, <2>2, <2>3, <1>6 DEF MoreAfter
  <2>5. pc' \notin LoopPc => Fair(st')
    BY <1>1, <1>4 DEF Fine
  <2> QED BY <2>4, <2>5, <1>4, <1>5 DEF Reasoned
<1> QED BY <1>1, <1>3, <1>4, <1>5, <1>7, <1>8, <1>9, IInvFacts DEF Served, Client

-----------------------------------------------------------------------------
(***************************************************************************)
(* Between sessions, and at the beginning of one.                          *)
(***************************************************************************)
\* What the assumptions say of a setup.
LEMMA SetupFacts ==
    ASSUME cfg \in Setups
    PROVE  /\ cfg \in Setup /\ cfg.mxaddr_limit \in Nat /\ cfg.mxsess_limit \in Nat
           /\ cfg.sites \in Seq(Seq(Addr)) /\ Len(cfg.sites) \in Nat
           /\ cfg.rcpts \in Seq(Rcpt) /\ NoAddr \notin Addr
           /\ cfg.dest \subseteq cfg.cached /\ cfg.cached \subseteq Addr
           /\ cfg.load \in BOOLEAN /\ cfg.store \in BOOLEAN
<1>1. cfg \in Setup
  BY SetupsAssumption
<1>2. cfg.sites \in Seq(Seq(Addr))
  BY <1>1 DEF Setup
<1>3. Len(cfg.sites) \in Nat
  BY <1>2
<1> QED BY <1>1, <1>2, <1>3, SetupsAssumption DEF Setup

\* Nobody is left when the destination is dead.
LEMMA NotDead ==
    ASSUME NEW s, NEW v, NEW p, Idle(s, v, p), s.list # <<>>
    PROVE  ~s.hop_status
<1>1. s.hop_status => ToSet(s.list) \subseteq s.drop
  BY DEF Idle, Account
<1>2. s.drop = {}
  BY DEF Idle, Marked
<1>3. s.list \in Seq(Rcpt)
  BY DEF Idle, StType
<1>4. s.list[1] \in ToSet(s.list)
  <2>1. 1 \in 1..Len(s.list)
    BY <1>3
  <2> QED BY <2>1, <1>3 DEF ToSet
<1> QED BY <1>1, <1>2, <1>4

\* Between sessions: what is needed for the invariant.
LEMMA IdleServed ==
    ASSUME NEW s, NEW se \in SesType, NEW v, NEW i \in ItType, NEW c, NEW p \in IdlePc,
           Idle(s, v, p), Fair(s), Limits(i), p # "site" => i.site > 0, CountedIdle(i, p),
           p = "nexthop" => s.list # <<>>,
           s.list # <<>> /\ s.why \in {"2", "5"} =>
              \/ ToSet(s.list) \subseteq s.refused
              \/ i.skipped \/ ~LastHop(i) \/ MoreIdle(i, p),
           CacheOK(c)
    PROVE  Served(s, se, NewLoop, v, i, c, p)
<1>0. p \notin SessionPc /\ p \notin LoopPc \cup {"cleanup"} /\ p \notin {"helo", "xfer", "done"}
  BY DEF SessionPc, LoopPc, IdlePc
<1>1. Fine(s, se, NewLoop, v, p)
  BY <1>0, NewLoopType DEF Fine, Idle
<1>2. Counted(i, se, p)
  BY <1>0 DEF Counted
<1>3. MarksOK(s, se, NewLoop, v, i, p)
  BY <1>0 DEF MarksOK, Idle
<1>4. Reasoned(s, se, i, p)
  BY <1>0 DEF Reasoned
<1> QED BY <1>1, <1>2, <1>3, <1>4 DEF Served, Client

\* At the start of a session: what is needed for the invariant.
LEMMA BusyServed ==
    ASSUME NEW s, NEW se \in SesType, NEW v, NEW i \in ItType, NEW c, NEW p \in {"helo", "xfer"},
           Idle(s, v, p), Fair(s), s.list # <<>>,
           p = "helo" => i.mode = "connect" /\ ~se.xfer,
           p = "xfer" => se.xfer,
           se.addr # NoAddr,
           i.mode # "connect" => ~se.tls /\ ~se.retry_plain,
           Limits(i), i.site > 0, CountedBusy(i, se),
           s.final_server \/ ~LastHop(i) \/ MoreAfter(se, i),
           CacheOK(c)
    PROVE  Served(s, se, NewLoop, v, i, c, p)
<1>0. /\ p \notin IdlePc /\ p \in SessionPc /\ p \notin LoopPc \cup {"cleanup"}
      /\ p \notin {"site", "nexthop", "reuse", "connect", "done"}
  BY DEF SessionPc, LoopPc, IdlePc
<1>1. Fine(s, se, NewLoop, v, p)
  BY <1>0, NewLoopType DEF Fine, Idle
<1>2. Counted(i, se, p)
  BY <1>0 DEF Counted
<1>3. MarksOK(s, se, NewLoop, v, i, p)
  BY <1>0, NotDead DEF MarksOK, Idle
<1>4. Reasoned(s, se, i, p)
  BY <1>0 DEF Reasoned
<1> QED BY <1>0, <1>1, <1>2, <1>3, <1>4 DEF Served, Client

\* A connection that is taken from the cache is gone from it.
LEMMA TakeOK ==
    ASSUME CacheOK(cache), NEW a, TakeFromCache(a)
    PROVE  CacheOK(cache')
<1>1. cache \in CacheType /\ cache.dest \subseteq cache.endp /\ cache.clean
  BY DEF CacheOK
<1>2. /\ cache' \in CacheType /\ cache'.dest = cache.dest \ {a}
      /\ cache'.endp = cache.endp \ {a} /\ cache'.clean = cache.clean
  BY <1>1 DEF TakeFromCache, CacheType
<1> QED BY <1>1, <1>2 DEF CacheOK

\* A cached connection as a session: plaintext, after its handshake.
LEMMA CachedSessionOK ==
    ASSUME NEW a \in Addr, NEW se, se = CachedSession(a)
    PROVE  /\ se \in SesType /\ se.addr = a /\ se.xfer /\ ~se.tls /\ ~se.retry_plain
           /\ se.addr # NoAddr
<1>1. /\ se \in SesType /\ se.addr = a /\ se.xfer /\ ~se.tls /\ ~se.retry_plain
  BY DEF CachedSession, NoSession, SesType
<1> QED BY <1>1, SetupsAssumption

\* A connection from the cache works.
LEMMA ReusedOK ==
    ASSUME IInv, pc \in IdlePc, NEW a \in Addr, st.list # <<>>,
           NEW s, Remarked(st, s), NEW i \in ItType,
           Reused(a, s, i), UNCHANGED <<lp, srv>>, TakeFromCache(a),
           Limits(i), i.site > 0, NEW se, se = CachedSession(a), CountedBusy(i, se),
           s.final_server \/ ~LastHop(i) \/ MoreAfter(se, i)
    PROVE  Served(st', ses', lp', srv', it', cache', pc')
<1>0. pc \notin LoopPc \cup {"cleanup"} /\ pc # "done"
  BY DEF LoopPc, IdlePc
<1>1. Idle(st, srv, pc) /\ lp = NewLoop /\ Fair(st)
  BY <1>0, IInvFacts DEF Reasoned
<1>2. Idle(s, srv, "xfer") /\ Fair(s)
  <2>1. "xfer" \notin LoopPc \cup {"cleanup"}
    BY DEF LoopPc
  <2> QED BY <1>1, <2>1, RemarkOK
<1>3. s.list # <<>>
  BY DEF Remarked
<1>4. se \in SesType /\ se.xfer /\ ~se.tls /\ ~se.retry_plain /\ se.addr # NoAddr
  BY CachedSessionOK
<1> DEFINE j == [i EXCEPT !.cache_used = @ \cup {a}, !.skipped = FALSE]
<1>5. /\ j \in ItType /\ j.mode = i.mode /\ j.list = i.list /\ j.todo = i.todo /\ j.next = i.next
      /\ j.site = i.site /\ j.addr_count = i.addr_count /\ j.sess_count = i.sess_count
  BY DEF ItType
<1>6. st' = s /\ ses' = se /\ it' = j /\ pc' = "xfer" /\ lp' = NewLoop /\ srv' = srv
  BY <1>1 DEF Reused
<1>7. CacheOK(cache')
  BY TakeOK, IInvFacts
<1> HIDE DEF j
<1>8. Limits(j)
  BY <1>5 DEF Limits
<1>9. CountedBusy(j, se)
  BY <1>5 DEF CountedBusy, CountedCached, CountedNew
<1>10. s.final_server \/ ~LastHop(j) \/ MoreAfter(se, j)
  BY <1>5 DEF LastHop, MoreAfter
<1>11. Served(s, se, NewLoop, srv, j, cache', "xfer")
  BY <1>2, <1>3, <1>4, <1>5, <1>7, <1>8, <1>9, <1>10, BusyServed
<1> QED BY <1>6, <1>11

-----------------------------------------------------------------------------
(***************************************************************************)
(* A next hop, and the connections in the cache.                           *)
(***************************************************************************)
\* vsmtp_fill_dsn() between sessions.
LEMMA FillRemark ==
    ASSUME NEW s \in StType, Account(s), NEW R \in SUBSET Rcpt, NEW reply \in Refusal,
           NEW t, t = FillDsn(s, R, reply)
    PROVE  Remarked(s, t) /\ Filled(s, R, reply, t)
<1>1. Filled(s, R, reply, t)
  BY Filling
<1>2. t.panic = s.panic
  BY DEF FillDsn, StType
<1> QED BY <1>1, <1>2 DEF Filled, Remarked

LEMMA ListType ==
    ASSUME NEW s \in StType
    PROVE  /\ s.list \in Seq(Rcpt) /\ ToSet(s.list) \in SUBSET Rcpt
           /\ Len(s.list) \in Nat /\ (Len(s.list) > 0 => s.list # <<>>)
<1>1. s.list \in Seq(Rcpt)
  BY DEF StType
<1> QED BY <1>1 DEF ToSet

\* A failed address lookup, and who it is about.
LEMMA LookedOK ==
    ASSUME NEW s \in StType, Account(s), NEW why \in {"", "4", "5"}, NEW t, t = Looked(s, why)
    PROVE  Remarked(s, t) /\ (t.why \in {"2", "5"} => ToSet(t.list) \subseteq t.refused)
<1>1. CASE why = ""
  <2>1. t = [s EXCEPT !.why = ""]
    BY <1>1 DEF Looked
  <2> QED BY <2>1 DEF Remarked, StType
<1>2. CASE why # ""
  <2>1. PICK reply \in {"soft", "hard"} : reply = IF why = "4" THEN "soft" ELSE "hard"
    OBVIOUS
  <2>2. t = FillDsn(s, ToSet(s.list), reply)
    BY <1>2, <2>1 DEF Looked
  <2>3. reply \in Refusal
    BY DEF Refusal, Reply
  <2>4. Remarked(s, t) /\ Filled(s, ToSet(s.list), reply, t)
    BY <2>2, <2>3, ListType, FillRemark
  <2>5. t.why \in {"2", "5"} => reply # "soft"
    BY <2>4 DEF Filled
  <2> QED BY <2>4, <2>5 DEF Filled
<1> QED BY <1>1, <1>2

\* There is a next hop to go to.
LEMMA SitePlace ==
    ASSUME cfg \in Setups, it \in ItType, Limits(it), ~FinalNexthop
    PROVE  /\ it.site \in Nat /\ it.site + 1 \in 1..Len(cfg.sites)
           /\ cfg.sites[it.site + 1] \in Seq(Addr) /\ <<>> \in Seq(Addr)
<1>1. it.site \in Nat
  BY DEF ItType
<1>2. cfg.sites \in Seq(Seq(Addr)) /\ Len(cfg.sites) \in Nat
  BY SetupFacts
<1>3. it.site <= Len(cfg.sites) /\ it.site # Len(cfg.sites)
  BY DEF FinalNexthop, Limits
<1>4. it.site + 1 \in 1..Len(cfg.sites)
  BY <1>1, <1>2, <1>3
<1>5. cfg.sites[it.site + 1] \in Seq(Addr)
  BY <1>2, <1>4
<1> QED BY <1>1, <1>4, <1>5

\* The counts start again at each next hop.
LEMMA NextSiteOK ==
    ASSUME cfg \in Setups, it \in ItType, Limits(it), ~FinalNexthop,
           NEW addrs \in Seq(Addr), NextSite(addrs)
    PROVE  /\ it' \in ItType /\ Limits(it') /\ it'.site > 0
           /\ pc' \in {"nexthop", "connect"} /\ CountedIdle(it', pc')
<1>1. PICK load \in BOOLEAN : load = IF it.site = 0 /\ addrs # <<>> THEN cfg.load ELSE it.load
  <2>1. it.load \in BOOLEAN
    BY DEF ItType
  <2> QED BY <2>1, SetupFacts, Zenon
<1>2. PICK store \in BOOLEAN : store = IF it.site = 0 /\ addrs # <<>> THEN cfg.store ELSE it.store
  <2>1. it.store \in BOOLEAN
    BY DEF ItType
  <2> QED BY <2>1, SetupFacts, Zenon
<1>3. PICK useful \in Seq(Addr) : useful = IF load THEN smtp_scrub_addr_list(addrs) ELSE addrs
  <2>1. smtp_scrub_addr_list(addrs) \in Seq(Addr)
    BY ScrubType
  <2> QED BY <2>1
<1>4. PICK req \in BOOLEAN :
         req = (it.request_nexthop \/ ((it.site = 0 /\ addrs # <<>>) /\ (load \/ store)))
  BY Zenon
<1>5. PICK n \in Nat : n = it.site + 1
  BY SitePlace
<1>6. it' = [it EXCEPT !.site = n, !.list = useful, !.todo = useful,
                       !.addr_count = 0, !.sess_count = 0,
                       !.load = load, !.store = store, !.skipped = FALSE,
                       !.request_nexthop = req]
  BY <1>1, <1>2, <1>3, <1>4, <1>5 DEF NextSite
<1>7. pc' \in {"nexthop", "connect"}
  BY <1>1 DEF NextSite
<1>8. /\ it'.site = n /\ it'.list = useful /\ it'.todo = useful
      /\ it'.addr_count = 0 /\ it'.sess_count = 0
  BY <1>6 DEF ItType
<1>9. it' \in ItType
  BY <1>6, ZenonT(30) DEF ItType
<1>10. n <= Len(cfg.sites) /\ n > 0
  BY <1>5, SitePlace, SetupFacts
<1>11. cfg.mxaddr_limit \in Nat /\ cfg.mxsess_limit \in Nat
  BY SetupFacts
<1>12. Limits(it') /\ it'.site > 0
  BY <1>8, <1>10, <1>11 DEF Limits, Within
<1>13. CountedIdle(it', pc')
  BY <1>7, <1>8, <1>11 DEF CountedIdle, CountedCached, Within, Room
<1> QED BY <1>7, <1>9, <1>12, <1>13

\* The next hop: its addresses are looked up.
LEMMA SiteOK ==
    ASSUME IInv, Site
    PROVE  Served(st', ses', lp', srv', it', cache', pc')
<1>0. /\ pc = "site" /\ Left > 0 /\ ~FinalNexthop
      /\ ses' = ses /\ lp' = lp /\ srv' = srv /\ cache' = cache
  BY DEF Site
<1>1. pc \in IdlePc /\ pc \notin LoopPc \cup {"cleanup"} /\ pc # "done"
  BY <1>0 DEF IdlePc, LoopPc
<1>2. /\ cfg \in Setups /\ st \in StType /\ ses \in SesType /\ Account(st) /\ it \in ItType
      /\ Idle(st, srv, pc) /\ lp = NewLoop /\ Fair(st) /\ Limits(it) /\ CacheOK(cache)
  BY <1>1, IInvFacts DEF Reasoned, Counted
<1>3. cfg.sites[it.site + 1] \in Seq(Addr) /\ <<>> \in Seq(Addr)
  BY <1>0, <1>2, SitePlace
<1>4. /\ Remarked(st, st')
      /\ st'.why \in {"2", "5"} => ToSet(st'.list) \subseteq st'.refused
  BY <1>2, LookedOK DEF Site
<1>5. \E addrs \in Seq(Addr) : NextSite(addrs)
  <2>1. PICK why : NextSite(IF why = "" THEN cfg.sites[it.site + 1] ELSE <<>>)
    BY DEF Site
  <2> QED BY <1>3, <2>1
<1>6. /\ it' \in ItType /\ Limits(it') /\ it'.site > 0
      /\ pc' \in {"nexthop", "connect"} /\ CountedIdle(it', pc')
  BY <1>0, <1>2, <1>5, NextSiteOK
<1>7. pc' \in IdlePc /\ pc' \notin LoopPc \cup {"cleanup"}
  BY <1>6 DEF IdlePc, LoopPc
<1>8. Idle(st', srv, pc') /\ Fair(st')
  BY <1>2, <1>4, <1>7, RemarkOK
<1>9. st'.list # <<>>
  BY <1>0, <1>2, <1>4, ListType DEF Remarked, Left
<1>10. Served(st', ses, NewLoop, srv, it', cache, pc')
  BY <1>2, <1>4, <1>6, <1>7, <1>8, <1>9, IdleServed
<1> QED BY <1>0, <1>2, <1>10

\* A cached connection by the name of the destination.
LEMMA ReuseNexthopOK ==
    ASSUME IInv, smtp_reuse_nexthop
    PROVE  Served(st', ses', lp', srv', it', cache', pc')
<1>0. pc = "nexthop" /\ lp' = lp /\ srv' = srv
  BY DEF smtp_reuse_nexthop
<1>1. pc \in IdlePc /\ pc \notin LoopPc \cup {"cleanup"} /\ pc \notin {"done", "site"}
  BY <1>0 DEF IdlePc, LoopPc
<1>2. /\ cfg \in Setups /\ st \in StType /\ ses \in SesType /\ Account(st) /\ it \in ItType
      /\ Idle(st, srv, pc) /\ lp = NewLoop /\ Fair(st) /\ Limits(it) /\ CacheOK(cache)
      /\ it.site > 0 /\ CountedIdle(it, pc) /\ st.list # <<>>
  BY <1>0, <1>1, IInvFacts DEF Reasoned, Counted, MarksOK
<1>3. ASSUME pc' = "reuse", UNCHANGED <<st, ses, it>>, CacheOK(cache')
      PROVE  Served(st', ses', lp', srv', it', cache', pc')
  <2>1. "reuse" \in IdlePc /\ "reuse" \notin LoopPc \cup {"cleanup"}
    BY DEF IdlePc, LoopPc
  <2>2. Idle(st, srv, "reuse")
    BY <1>2, <2>1 DEF Idle
  <2>3. CountedIdle(it, "reuse")
    BY <1>0, <1>2 DEF CountedIdle
  <2>4. st.list # <<>> /\ st.why \in {"2", "5"} =>
           \/ ToSet(st.list) \subseteq st.refused
           \/ it.skipped \/ ~LastHop(it) \/ MoreIdle(it, "reuse")
    BY <1>0, <1>1, IInvFacts DEF Reasoned, MoreIdle
  <2>5. Served(st, ses, NewLoop, srv, it, cache', "reuse")
    BY <1>2, <1>3, <2>1, <2>2, <2>3, <2>4, IdleServed
  <2> QED BY <1>0, <1>2, <1>3, <2>5
<1>4. CASE it.list = <<>> \/ ~it.request_nexthop \/ cache.dest = {}
  BY <1>2, <1>3, <1>4 DEF smtp_reuse_nexthop
<1>5. CASE ~(it.list = <<>> \/ ~it.request_nexthop \/ cache.dest = {})
  <2> DEFINE rest(a) == smtp_update_addr_list(it.list, a, 1)
             J(a) == [it EXCEPT !.mode = "nexthop", !.sess_count = 1,
                                !.list = rest(a), !.todo = rest(a)]
  <2>1. PICK a \in cache.dest :
           /\ TakeFromCache(a)
           /\ \/ pc' = "reuse" /\ UNCHANGED <<st, ses, it>>
              \/ Reused(a, Final(st, rest(a)), J(a))
    BY <1>5 DEF smtp_reuse_nexthop
  <2>2. a \in Addr
    BY <1>2 DEF CacheOK, CacheType
  <2>3. CASE pc' = "reuse" /\ UNCHANGED <<st, ses, it>>
    BY <1>2, <1>3, <2>1, <2>3, TakeOK
  <2>4. CASE Reused(a, Final(st, rest(a)), J(a))
    <3>1. it.list \in Seq(Addr)
      BY <1>2 DEF ItType
    <3>2. PICK r \in Seq(Addr) : r = rest(a) /\ (r # <<>> => 1 # cfg.mxsess_limit /\ 1 # cfg.mxaddr_limit)
      BY <3>1, UpdateType
    <3>3. PICK i : i = [it EXCEPT !.mode = "nexthop", !.sess_count = 1, !.list = r, !.todo = r]
      OBVIOUS
    <3>4. /\ i \in ItType /\ i.mode = "nexthop" /\ i.sess_count = 1 /\ i.list = r /\ i.todo = r
          /\ i.site = it.site /\ i.addr_count = it.addr_count
      BY <3>3, <1>2 DEF ItType
    <3>5. PICK s : s = Final(st, r)
      OBVIOUS
    <3>6. Remarked(st, s) /\ (s.final_server \/ ~FinalNexthop \/ r # <<>>)
      BY <3>5, <1>2, FinalOK
    <3>7. Reused(a, s, i)
      BY <2>4, <3>2, <3>3, <3>5
    <3>8. PICK se : se = CachedSession(a)
      OBVIOUS
    <3>9. Limits(i) /\ i.site > 0
      BY <1>2, <3>4, SetupFacts DEF Limits, Within
    <3>10. CountedBusy(i, se)
      BY <1>2, <3>2, <3>4, SetupFacts DEF CountedBusy, CountedCached, Within, Room
    <3>11. s.final_server \/ ~LastHop(i) \/ MoreAfter(se, i)
      BY <3>4, <3>6 DEF LastHop, MoreAfter, FinalNexthop
    <3> QED BY <1>0, <1>1, <1>2, <2>1, <2>2, <3>4, <3>6, <3>7, <3>8, <3>9, <3>10, <3>11, ReusedOK
  <2> QED BY <2>1, <2>3, <2>4
<1> QED BY <1>4, <1>5

\* One more, when there is room for it.
LEMMA RoomNext ==
    ASSUME NEW n \in Nat, NEW limit \in Nat, Room(n, limit)
    PROVE  n + 1 \in Nat /\ Within(n + 1, limit) /\ (n + 1 # limit => Room(n + 1, limit))
BY DEF Room, Within

LEMMA TailType ==
    ASSUME NEW S, NEW list \in Seq(S), list # <<>>
    PROVE  Tail(list) \in Seq(S) /\ Head(list) \in S
BY HeadTailProperties

\* Cached connections of the best servers.
LEMMA ReuseSessionOK ==
    ASSUME IInv, smtp_reuse_session
    PROVE  Served(st', ses', lp', srv', it', cache', pc')
<1>0. pc = "reuse" /\ lp' = lp /\ srv' = srv
  BY DEF smtp_reuse_session
<1>1. /\ pc \in IdlePc /\ pc \notin LoopPc \cup {"cleanup"} /\ pc \notin {"done", "site"}
      /\ "connect" \in IdlePc /\ "connect" \notin LoopPc \cup {"cleanup"}
  BY <1>0 DEF IdlePc, LoopPc
<1>2. /\ cfg \in Setups /\ st \in StType /\ ses \in SesType /\ Account(st) /\ it \in ItType
      /\ Idle(st, srv, pc) /\ lp = NewLoop /\ Fair(st) /\ Limits(it) /\ CacheOK(cache)
      /\ it.site > 0 /\ CountedCached(it) /\ (it.todo # <<>> => it.list # <<>>)
  BY <1>0, <1>1, IInvFacts DEF Reasoned, Counted, CountedIdle
<1>3. st.list # <<>> /\ st.why \in {"2", "5"} =>
           \/ ToSet(st.list) \subseteq st.refused
           \/ it.skipped \/ ~LastHop(it) \/ it.list # <<>>
  BY <1>0, <1>1, IInvFacts DEF Reasoned, MoreIdle
<1>4. /\ it.list \in Seq(Addr) /\ it.todo \in Seq(Addr) /\ it.sess_count \in Nat /\ it.addr_count \in Nat
      /\ cfg.mxaddr_limit \in Nat /\ cfg.mxsess_limit \in Nat
  BY <1>2, SetupFacts DEF ItType
<1>5. CASE ~Reusable
  <2>1. /\ pc' = "connect" /\ it' = [it EXCEPT !.todo = it.list, !.addr_count = it.sess_count]
        /\ st' = st /\ ses' = ses /\ cache' = cache
    BY <1>5 DEF smtp_reuse_session
  <2>2. it' \in ItType
    BY <1>2, <1>4, <2>1 DEF ItType
  <2>3. /\ it'.site = it.site /\ it'.sess_count = it.sess_count /\ it'.addr_count = it.sess_count
        /\ it'.todo = it.list /\ it'.skipped = it.skipped
    BY <1>2, <2>1 DEF ItType
  <2>4. Limits(it')
    BY <1>2, <2>3 DEF Limits, CountedCached
  <2>5. CountedIdle(it', "connect")
    BY <1>2, <2>3 DEF CountedIdle, CountedCached
  <2>6. Idle(st, srv, "connect")
    BY <1>1, <1>2 DEF Idle
  <2>7. st.list # <<>> /\ st.why \in {"2", "5"} =>
           \/ ToSet(st.list) \subseteq st.refused
           \/ it'.skipped \/ ~LastHop(it') \/ MoreIdle(it', "connect")
    BY <1>3, <2>3 DEF LastHop, MoreIdle
  <2>8. it'.site > 0
    BY <1>2, <2>3
  <2>9. Served(st, ses, NewLoop, srv, it', cache, "connect")
    BY <1>1, <1>2, <2>2, <2>4, <2>5, <2>6, <2>7, <2>8, IdleServed
  <2> QED BY <1>0, <1>2, <2>1, <2>9
<1>6. ASSUME Reusable, it' = [it EXCEPT !.todo = Tail(@)], UNCHANGED <<st, ses, pc>>, CacheOK(cache')
      PROVE  Served(st', ses', lp', srv', it', cache', pc')
  <2>1. it.todo # <<>> /\ Tail(it.todo) \in Seq(Addr)
    BY <1>4, <1>6, TailType DEF Reusable
  <2>2. it' \in ItType
    BY <1>2, <1>6, <2>1 DEF ItType
  <2>3. /\ it'.site = it.site /\ it'.sess_count = it.sess_count /\ it'.addr_count = it.addr_count
        /\ it'.list = it.list /\ it'.skipped = it.skipped
    BY <1>2, <1>6 DEF ItType
  <2>4. Limits(it')
    BY <1>2, <2>3 DEF Limits
  <2>5. CountedIdle(it', pc)
    BY <1>0, <1>2, <2>1, <2>3 DEF CountedIdle, CountedCached
  <2>6. st.list # <<>> /\ st.why \in {"2", "5"} =>
           \/ ToSet(st.list) \subseteq st.refused
           \/ it'.skipped \/ ~LastHop(it') \/ MoreIdle(it', pc)
    BY <1>0, <1>3, <2>3 DEF LastHop, MoreIdle
  <2>7. it'.site > 0 /\ pc # "nexthop"
    BY <1>0, <1>2, <2>3
  <2>8. Served(st, ses, NewLoop, srv, it', cache', pc)
    BY <1>1, <1>2, <1>6, <2>2, <2>4, <2>5, <2>6, <2>7, IdleServed
  <2> QED BY <1>0, <1>2, <1>6, <2>8
<1>7. CASE Reusable /\ Head(it.todo) \notin cache.endp
  BY <1>2, <1>6, <1>7 DEF smtp_reuse_session
<1>8. CASE Reusable /\ Head(it.todo) \in cache.endp
  <2>1. it.todo # <<>> /\ Tail(it.todo) \in Seq(Addr) /\ Head(it.todo) \in Addr
    BY <1>4, <1>8, TailType DEF Reusable
  <2>2. PICK a \in Addr : a = Head(it.todo)
    BY <2>1
  <2>3. PICK n \in Nat : n = it.sess_count + 1
    BY <1>4
  <2>4. PICK rest \in Seq(Addr) :
           /\ rest = smtp_update_addr_list(it.list, a, n)
           /\ rest # <<>> => n # cfg.mxsess_limit /\ n # cfg.mxaddr_limit
    BY <1>4, UpdateType
  <2>5. PICK next \in Seq(Addr) : next = IF rest = <<>> THEN <<>> ELSE Tail(it.todo)
    <3>1. <<>> \in Seq(Addr)
      OBVIOUS
    <3> QED BY <2>1, <3>1
  <2>6. PICK i : i = [it EXCEPT !.mode = "reuse", !.sess_count = n, !.list = rest, !.next = next]
    OBVIOUS
  <2>7. PICK s : s = Final(st, next)
    OBVIOUS
  <2>8. /\ TakeFromCache(a)
        /\ \/ it' = [it EXCEPT !.todo = Tail(@)] /\ UNCHANGED <<st, ses, pc>>
           \/ Reused(a, s, i)
    BY <1>8, <2>2, <2>3, <2>4, <2>5, <2>6, <2>7 DEF smtp_reuse_session
  <2>9. CASE it' = [it EXCEPT !.todo = Tail(@)] /\ UNCHANGED <<st, ses, pc>>
    BY <1>2, <1>6, <1>8, <2>8, <2>9, TakeOK
  <2>10. CASE Reused(a, s, i)
    <3>1. i \in ItType
      BY <1>2, <2>6 DEF ItType
    <3>2. /\ i.mode = "reuse" /\ i.sess_count = n /\ i.list = rest /\ i.next = next
          /\ i.site = it.site /\ i.addr_count = it.addr_count
      BY <1>2, <2>6 DEF ItType
    <3>3. Room(it.sess_count, cfg.mxaddr_limit) /\ Room(it.sess_count, cfg.mxsess_limit)
      BY <1>2, <2>1 DEF CountedCached
    <3>4. Within(n, cfg.mxaddr_limit) /\ (n # cfg.mxaddr_limit => Room(n, cfg.mxaddr_limit))
      BY <1>4, <2>3, <3>3, RoomNext
    <3>5. Within(n, cfg.mxsess_limit) /\ (n # cfg.mxsess_limit => Room(n, cfg.mxsess_limit))
      BY <1>4, <2>3, <3>3, RoomNext
    <3>6. Limits(i) /\ i.site > 0
      BY <1>2, <3>2, <3>5 DEF Limits
    <3>7. PICK se : se = CachedSession(a)
      OBVIOUS
    <3>8. CountedBusy(i, se)
      BY <2>4, <2>5, <3>2, <3>4, <3>5 DEF CountedBusy, CountedCached
    <3>9. Remarked(st, s) /\ (s.final_server \/ ~FinalNexthop \/ next # <<>>)
      BY <1>2, <2>7, FinalOK
    <3>10. s.final_server \/ ~LastHop(i) \/ MoreAfter(se, i)
      BY <3>2, <3>9 DEF LastHop, FinalNexthop, MoreAfter
    <3>11. st.list # <<>>
      BY <1>2, <1>8, ListType DEF Reusable, Left
    <3> QED BY <1>0, <1>1, <2>8, <2>10, <3>1, <3>6, <3>7, <3>8, <3>9, <3>10, <3>11, ReusedOK
  <2> QED BY <2>8, <2>9, <2>10
<1> QED BY <1>5, <1>7, <1>8

-----------------------------------------------------------------------------
(***************************************************************************)
(* New connections.                                                        *)
(***************************************************************************)
\* What is known when there is an address to try.
TryFacts(a, next) ==
    /\ cfg \in Setups /\ st \in StType /\ ses \in SesType /\ Account(st) /\ it \in ItType
    /\ Idle(st, srv, pc) /\ lp = NewLoop /\ Fair(st) /\ Limits(it) /\ CacheOK(cache)
    /\ pc = "connect" /\ pc \in IdlePc /\ it.site > 0 /\ st.list # <<>> /\ it.todo # <<>>
    /\ a = Head(it.todo) /\ a \in Addr /\ next = NextAddr /\ next \in Seq(Addr)
    /\ it.addr_count \in Nat /\ it.sess_count \in Nat
    /\ cfg.mxaddr_limit \in Nat /\ cfg.mxsess_limit \in Nat
    /\ Room(it.addr_count, cfg.mxaddr_limit) /\ Room(it.sess_count, cfg.mxsess_limit)
    /\ Within(it.addr_count + 1, cfg.mxaddr_limit)
    /\ next # <<>> => Room(it.addr_count + 1, cfg.mxaddr_limit)

\* An address is tried: it is counted, and the list is cut at the limit.
LEMMA TryingFacts ==
    ASSUME IInv, Trying, NEW a, a = Head(it.todo), NEW next, next = NextAddr
    PROVE  TryFacts(a, next)
<1>0. pc = "connect" /\ Left > 0 /\ it.todo # <<>>
  BY DEF Trying
<1>1. pc \in IdlePc /\ pc \notin LoopPc \cup {"cleanup"} /\ pc \notin {"done", "site"}
  BY <1>0 DEF IdlePc, LoopPc
<1>2. /\ cfg \in Setups /\ st \in StType /\ ses \in SesType /\ Account(st) /\ it \in ItType
      /\ Idle(st, srv, pc) /\ lp = NewLoop /\ Fair(st) /\ Limits(it) /\ CacheOK(cache)
      /\ it.site > 0 /\ CountedIdle(it, pc)
  BY <1>0, <1>1, IInvFacts DEF Reasoned, Counted
<1>3. /\ it.todo \in Seq(Addr) /\ it.sess_count \in Nat /\ it.addr_count \in Nat
      /\ cfg.mxaddr_limit \in Nat /\ cfg.mxsess_limit \in Nat
  BY <1>2, SetupFacts DEF ItType
<1>4. Tail(it.todo) \in Seq(Addr) /\ a \in Addr
  BY <1>0, <1>3, TailType
<1>5. Room(it.addr_count, cfg.mxaddr_limit) /\ Room(it.sess_count, cfg.mxsess_limit)
  BY <1>0, <1>2 DEF CountedIdle
<1>6. /\ Within(it.addr_count + 1, cfg.mxaddr_limit)
      /\ it.addr_count + 1 # cfg.mxaddr_limit => Room(it.addr_count + 1, cfg.mxaddr_limit)
  BY <1>3, <1>5, RoomNext
<1>7. next \in Seq(Addr) /\ (next # <<>> => it.addr_count + 1 # cfg.mxaddr_limit)
  <2>1. <<>> \in Seq(Addr)
    OBVIOUS
  <2> QED BY <2>1, <1>4 DEF NextAddr
<1>8. st.list # <<>>
  BY <1>0, <1>2, ListType DEF Left
<1> QED BY <1>0, <1>1, <1>2, <1>3, <1>4, <1>5, <1>6, <1>7, <1>8 DEF TryFacts

\* The next address, after one that is not used.
LEMMA NextAddrOK ==
    ASSUME NEW a, NEW next, TryFacts(a, next), NEW t, Remarked(st, t), t.why = "4" \/ it'.skipped,
           it' \in ItType, it'.addr_count = it.addr_count + 1, it'.todo = next,
           it'.site = it.site, it'.sess_count = it.sess_count
    PROVE  Served(t, ses, NewLoop, srv, it', cache, "connect")
<1>1. /\ ses \in SesType /\ Idle(st, srv, pc) /\ Fair(st) /\ Limits(it) /\ CacheOK(cache)
      /\ pc = "connect" /\ pc \in IdlePc /\ it.site > 0
      /\ Room(it.sess_count, cfg.mxsess_limit)
      /\ Within(it.addr_count + 1, cfg.mxaddr_limit)
      /\ next # <<>> => Room(it.addr_count + 1, cfg.mxaddr_limit)
  BY DEF TryFacts
<1>2. "connect" \in IdlePc /\ "connect" \notin LoopPc \cup {"cleanup"}
  BY DEF IdlePc, LoopPc
<1>3. Idle(t, srv, "connect") /\ Fair(t)
  BY <1>1, <1>2, RemarkOK
<1>4. Limits(it') /\ it'.site > 0
  BY <1>1 DEF Limits
<1>5. CountedIdle(it', "connect")
  BY <1>1 DEF CountedIdle
<1>6. t.list # <<>> /\ t.why \in {"2", "5"} => it'.skipped
  OBVIOUS
<1> QED BY <1>1, <1>2, <1>3, <1>4, <1>5, <1>6, IdleServed

\* A server that is not allowed is skipped.
LEMMA SkipAddrOK ==
    ASSUME IInv, SkipAddr
    PROVE  Served(st', ses', lp', srv', it', cache', pc')
<1>1. PICK a : a = Head(it.todo)
  OBVIOUS
<1>2. PICK next : next = NextAddr
  OBVIOUS
<1>3. TryFacts(a, next)
  BY <1>1, <1>2, TryingFacts DEF SkipAddr
<1>4. st \in StType /\ it \in ItType /\ lp = NewLoop /\ pc = "connect" /\ next \in Seq(Addr)
  BY <1>3 DEF TryFacts
<1>5. PICK n \in Nat : n = it.addr_count + 1
  BY <1>4 DEF ItType
<1>6. /\ it' = [it EXCEPT !.addr_count = n, !.todo = next, !.skipped = TRUE]
      /\ st' = st /\ ses' = ses /\ lp' = lp /\ srv' = srv /\ cache' = cache /\ pc' = pc
  BY <1>2, <1>5 DEF SkipAddr
<1>7. it' \in ItType
  BY <1>4, <1>6 DEF ItType
<1>8. /\ it'.addr_count = n /\ it'.todo = next /\ it'.skipped
      /\ it'.site = it.site /\ it'.sess_count = it.sess_count
  BY <1>4, <1>6 DEF ItType
<1>9. Remarked(st, st)
  BY <1>4 DEF Remarked
<1>10. Served(st, ses, NewLoop, srv, it', cache, "connect")
  BY <1>3, <1>5, <1>7, <1>8, <1>9, NextAddrOK
<1> QED BY <1>4, <1>6, <1>10

\* A session is counted, and the list is cut at the limit.
LEMMA CountSessionOK ==
    ASSUME cfg \in Setups, NEW i \in ItType, Room(i.sess_count, cfg.mxsess_limit),
           NEW j, j = CountSession(i)
    PROVE  /\ j \in ItType /\ j.mode = i.mode /\ j.list = i.list /\ j.todo = i.todo
           /\ j.site = i.site /\ j.addr_count = i.addr_count /\ j.skipped = i.skipped
           /\ j.sess_count > 0 /\ Within(j.sess_count, cfg.mxsess_limit)
           /\ j.next # <<>> => i.next # <<>> /\ Room(j.sess_count, cfg.mxsess_limit)
<1>1. i.sess_count \in Nat /\ i.next \in Seq(Addr) /\ cfg.mxsess_limit \in Nat
  BY SetupFacts DEF ItType
<1>2. PICK n \in Nat : n = i.sess_count + 1
  BY <1>1
<1>3. Within(n, cfg.mxsess_limit) /\ (n # cfg.mxsess_limit => Room(n, cfg.mxsess_limit)) /\ n > 0
  BY <1>1, <1>2, RoomNext
<1>4. PICK next \in Seq(Addr) : next = IF n = cfg.mxsess_limit THEN <<>> ELSE i.next
  <2>1. <<>> \in Seq(Addr)
    OBVIOUS
  <2> QED BY <1>1, <2>1
<1>5. j = [i EXCEPT !.sess_count = n, !.next = next]
  BY <1>2, <1>4 DEF CountSession, ItType
<1>6. j \in ItType
  BY <1>5 DEF ItType
<1>7. /\ j.mode = i.mode /\ j.list = i.list /\ j.todo = i.todo
      /\ j.site = i.site /\ j.addr_count = i.addr_count /\ j.skipped = i.skipped
      /\ j.sess_count = n /\ j.next = next
  BY <1>5 DEF ItType
<1> QED BY <1>3, <1>4, <1>6, <1>7

\* A cached connection of the server that is tried.
LEMMA ReuseAddrOK ==
    ASSUME IInv, smtp_reuse_addr
    PROVE  Served(st', ses', lp', srv', it', cache', pc')
<1>1. PICK a : a = Head(it.todo)
  OBVIOUS
<1>2. PICK next : next = NextAddr
  OBVIOUS
<1>3. TryFacts(a, next)
  BY <1>1, <1>2, TryingFacts DEF smtp_reuse_addr
<1>4. /\ cfg \in Setups /\ st \in StType /\ it \in ItType /\ lp = NewLoop /\ pc = "connect"
      /\ pc \in IdlePc /\ st.list # <<>> /\ next \in Seq(Addr) /\ a \in Addr
      /\ CacheOK(cache) /\ Limits(it) /\ it.site > 0 /\ it.todo # <<>>
  BY <1>3 DEF TryFacts
<1>5. PICK n \in Nat : n = it.addr_count + 1
  BY <1>4 DEF ItType
<1>6. PICK i : i = [it EXCEPT !.mode = "connect", !.addr_count = n, !.next = next, !.retry_plain = FALSE]
  OBVIOUS
<1>7. PICK j : j = CountSession(i)
  OBVIOUS
<1>8. /\ TakeFromCache(a) /\ lp' = lp /\ srv' = srv
      /\ \/ UNCHANGED <<st, ses, it, pc>>
         \/ Reused(a, Final(st, j.next), j)
  BY <1>1, <1>2, <1>5, <1>6, <1>7 DEF smtp_reuse_addr
<1>9. CASE UNCHANGED <<st, ses, it, pc>>
  <2>1. CacheOK(cache')
    BY <1>4, <1>8, TakeOK
  <2>2. Fine(st, ses, lp, srv, pc)
    <3>1. pc \notin LoopPc \cup {"cleanup"}
      BY <1>4 DEF LoopPc
    <3> QED BY <3>1, IInvFacts DEF Fine
  <2>3. Served(st, ses, lp, srv, it, cache', pc)
    BY <2>1, <2>2 DEF IInv, Client, Served
  <2> QED BY <1>8, <1>9, <2>3
<1>10. CASE Reused(a, Final(st, j.next), j)
  <2>1. i \in ItType
    BY <1>4, <1>6 DEF ItType
  <2>2. /\ i.mode = "connect" /\ i.addr_count = n /\ i.next = next
        /\ i.todo = it.todo /\ i.site = it.site /\ i.sess_count = it.sess_count
    BY <1>4, <1>6 DEF ItType
  <2>3. /\ Room(i.sess_count, cfg.mxsess_limit) /\ Within(n, cfg.mxaddr_limit)
        /\ next # <<>> => Room(n, cfg.mxaddr_limit)
    BY <1>3, <1>5, <2>2 DEF TryFacts
  <2>4. /\ j \in ItType /\ j.mode = i.mode /\ j.list = i.list /\ j.todo = i.todo
        /\ j.site = i.site /\ j.addr_count = i.addr_count /\ j.skipped = i.skipped
        /\ j.sess_count > 0 /\ Within(j.sess_count, cfg.mxsess_limit)
        /\ j.next # <<>> => i.next # <<>> /\ Room(j.sess_count, cfg.mxsess_limit)
    BY <1>4, <1>7, <2>1, <2>3, CountSessionOK
  <2>5. PICK s : s = Final(st, j.next)
    OBVIOUS
  <2>6. Remarked(st, s) /\ (s.final_server \/ ~FinalNexthop \/ j.next # <<>>)
    BY <1>4, <2>5, FinalOK
  <2>7. PICK se : se = CachedSession(a)
    OBVIOUS
  <2>8. Limits(j) /\ j.site > 0
    BY <1>4, <2>2, <2>3, <2>4 DEF Limits
  <2>9. n > 0
    BY <1>5, <1>4 DEF ItType
  <2>10. se.xfer
    BY <1>4, <2>7, CachedSessionOK
  <2>11. CountedBusy(j, se)
    BY <1>4, <2>2, <2>3, <2>4, <2>9, <2>10 DEF CountedBusy, CountedNew
  <2>12. s.final_server \/ ~LastHop(j) \/ MoreAfter(se, j)
    BY <2>2, <2>4, <2>6 DEF LastHop, FinalNexthop, MoreAfter
  <2>13. Reused(a, s, j)
    BY <1>10, <2>5
  <2> QED BY <1>4, <1>8, <2>4, <2>6, <2>7, <2>8, <2>11, <2>12, <2>13, ReusedOK
<1> QED BY <1>8, <1>9, <1>10

\* A new connection.
LEMMA ConnectAddrOK ==
    ASSUME IInv, smtp_connect_addr
    PROVE  Served(st', ses', lp', srv', it', cache', pc')
<1>1. PICK a : a = Head(it.todo)
  OBVIOUS
<1>2. PICK next : next = NextAddr
  OBVIOUS
<1>3. TryFacts(a, next)
  BY <1>1, <1>2, TryingFacts DEF smtp_connect_addr
<1>4. /\ cfg \in Setups /\ st \in StType /\ it \in ItType /\ lp = NewLoop /\ pc = "connect"
      /\ pc \in IdlePc /\ st.list # <<>> /\ next \in Seq(Addr) /\ a \in Addr
      /\ CacheOK(cache) /\ Limits(it) /\ it.site > 0 /\ it.todo # <<>>
      /\ Idle(st, srv, pc) /\ Fair(st)
  BY <1>3 DEF TryFacts
<1>5. PICK n \in Nat : n = it.addr_count + 1
  BY <1>4 DEF ItType
<1>6. lp' = lp /\ srv' = srv /\ cache' = cache
  BY DEF smtp_connect_addr
<1>7. CASE /\ st' = [st EXCEPT !.why = "4"]
           /\ it' = [it EXCEPT !.addr_count = n, !.todo = next, !.retry_plain = FALSE, !.skipped = FALSE]
           /\ UNCHANGED <<ses, pc>>
  <2>1. it' \in ItType
    BY <1>4, <1>7 DEF ItType
  <2>2. /\ it'.addr_count = n /\ it'.todo = next
        /\ it'.site = it.site /\ it'.sess_count = it.sess_count
    BY <1>4, <1>7 DEF ItType
  <2>3. Remarked(st, st') /\ st'.why = "4"
    BY <1>4, <1>7 DEF Remarked, StType
  <2>4. Served(st', ses, NewLoop, srv, it', cache, "connect")
    BY <1>3, <1>5, <2>1, <2>2, <2>3, NextAddrOK
  <2> QED BY <1>4, <1>6, <1>7, <2>4
<1>8. CASE /\ st' = Final([st EXCEPT !.why = ""], next)
           /\ it' = [it EXCEPT !.mode = "connect", !.addr_count = n, !.next = next,
                               !.plain = it.retry_plain, !.retry_plain = FALSE, !.skipped = FALSE]
           /\ ses' = [NoSession EXCEPT !.addr = a, !.expire = IF it.store THEN "cached" ELSE "no"]
           /\ pc' = "helo"
  <2>1. PICK p \in BOOLEAN : p = it.retry_plain
    BY <1>4 DEF ItType
  <2>2. it' \in ItType
    BY <1>4, <1>8, <2>1 DEF ItType
  <2>3. /\ it'.mode = "connect" /\ it'.addr_count = n /\ it'.next = next /\ it'.todo = it.todo
        /\ it'.site = it.site /\ it'.sess_count = it.sess_count
    BY <1>4, <1>8, <2>1 DEF ItType
  <2>4. PICK s \in StType : s = [st EXCEPT !.why = ""] /\ Remarked(st, s)
    <3>1. PICK s : s = [st EXCEPT !.why = ""]
      OBVIOUS
    <3>2. s \in StType
      BY <1>4, <3>1 DEF StType
    <3>3. Remarked(st, s)
      BY <1>4, <3>1, <3>2 DEF Remarked, StType
    <3> QED BY <3>1, <3>2, <3>3
  <2>5. /\ Remarked(s, st') /\ (st'.final_server \/ ~FinalNexthop \/ next # <<>>)
    BY <1>8, <2>4, FinalOK
  <2>6. "helo" \notin LoopPc \cup {"cleanup"}
    BY DEF LoopPc
  <2>7. Idle(s, srv, "helo") /\ Fair(s)
    BY <1>4, <2>4, <2>6, RemarkOK
  <2>8. Idle(st', srv, "helo") /\ Fair(st')
    BY <2>5, <2>6, <2>7, RemarkOK
  <2>9. st'.list # <<>>
    BY <1>4, <2>4, <2>5 DEF Remarked
  <2>10. PICK e \in {"cached", "no"} : e = IF it.store THEN "cached" ELSE "no"
    OBVIOUS
  <2>11. ses' \in SesType /\ ses'.addr = a /\ ~ses'.xfer
    BY <1>4, <1>8, <2>10 DEF NoSession, SesType
  <2>12. ses'.addr # NoAddr
    BY <1>4, <2>11, SetupFacts
  <2>13. /\ Room(it.sess_count, cfg.mxsess_limit) /\ Within(n, cfg.mxaddr_limit)
         /\ next # <<>> => Room(n, cfg.mxaddr_limit)
    BY <1>3, <1>5 DEF TryFacts
  <2>14. Limits(it') /\ it'.site > 0
    BY <1>4, <2>3, <2>13 DEF Limits
  <2>15. n > 0
    BY <1>5, <1>4 DEF ItType
  <2>16. CountedBusy(it', ses')
    BY <1>4, <2>3, <2>11, <2>13, <2>15 DEF CountedBusy, CountedNew
  <2>17. st'.final_server \/ ~LastHop(it') \/ MoreAfter(ses', it')
    BY <2>3, <2>5 DEF LastHop, FinalNexthop, MoreAfter
  <2>18. Served(st', ses', NewLoop, srv, it', cache, "helo")
    BY <1>4, <2>2, <2>3, <2>8, <2>9, <2>11, <2>12, <2>14, <2>16, <2>17, BusyServed
  <2> QED BY <1>4, <1>6, <1>8, <2>18
<1> QED BY <1>1, <1>2, <1>5, <1>7, <1>8 DEF smtp_connect_addr, Plain

-----------------------------------------------------------------------------
(***************************************************************************)
(* A session.                                                              *)
(***************************************************************************)
\* What is known before the conversation.
Before(p) ==
    /\ pc = p
    /\ cfg \in Setups /\ st \in StType /\ ses \in SesType /\ srv \in SrvType /\ it \in ItType
    /\ Idle(st, srv, p) /\ lp = NewLoop /\ Fair(st) /\ Limits(it) /\ CacheOK(cache)
    /\ it.site > 0 /\ st.list # <<>> /\ ~st.hop_status /\ ses.addr # NoAddr
    /\ CountedBusy(it, ses)
    /\ it.mode # "connect" => ~ses.tls /\ ~ses.retry_plain
    /\ st.final_server \/ ~LastHop(it) \/ MoreAfter(ses, it)
    /\ p = "helo" => it.mode = "connect" /\ ~ses.xfer
    /\ p = "xfer" => ses.xfer

\* Before MAIL FROM: nobody is marked and nothing is on the wire.
LEMMA BeforeFacts ==
    ASSUME IInv, pc \in {"helo", "xfer"}
    PROVE  Before(pc)
<1>1. /\ pc \in SessionPc /\ pc \notin LoopPc \cup {"cleanup"} /\ pc \notin {"done", "site"}
  BY DEF SessionPc, LoopPc
<1>2. /\ cfg \in Setups /\ st \in StType /\ ses \in SesType /\ srv \in SrvType /\ it \in ItType
      /\ Idle(st, srv, pc) /\ lp = NewLoop /\ CacheOK(cache)
      /\ Counted(it, ses, pc) /\ MarksOK(st, ses, lp, srv, it, pc) /\ Reasoned(st, ses, it, pc)
  BY <1>1, IInvFacts
<1>3. Limits(it) /\ it.site > 0 /\ CountedBusy(it, ses)
  BY <1>1, <1>2 DEF Counted
<1>4. /\ st.list # <<>> /\ ~st.hop_status /\ ses.addr # NoAddr
      /\ it.mode # "connect" => ~ses.tls /\ ~ses.retry_plain
      /\ pc = "helo" => it.mode = "connect" /\ ~ses.xfer
      /\ pc = "xfer" => ses.xfer
  BY <1>1, <1>2 DEF MarksOK
<1>5. Fair(st) /\ (st.final_server \/ ~LastHop(it) \/ MoreAfter(ses, it))
  BY <1>1, <1>2 DEF Reasoned
<1> QED BY <1>2, <1>3, <1>4, <1>5 DEF Before

\* A session that goes on, or is over.
LEMMA SessionServed ==
    ASSUME NEW p, Before(p), NEW s, NEW se, NEW l, NEW q \in LoopPc \cup {"cleanup"},
           Fine(s, se, l, srv, q), l = NewLoop,
           se.addr = ses.addr, se.xfer = ses.xfer,
           it.mode # "connect" => ~se.tls /\ ~se.retry_plain,
           s.final_server \/ ~LastHop(it) \/ MoreAfter(se, it)
    PROVE  Served(s, se, l, srv, it, cache, q)
<1>0. /\ q \in SessionPc /\ q \notin IdlePc /\ q \notin {"helo", "xfer", "nexthop", "done"}
  BY DEF SessionPc, LoopPc, IdlePc
<1>1. Counted(it, se, q)
  <2>1. CountedBusy(it, se)
    BY DEF Before, CountedBusy, CountedNew
  <2> QED BY <1>0, <2>1 DEF Before, Counted
<1>2. MarksOK(s, se, l, srv, it, q)
  BY <1>0 DEF Before, MarksOK
<1>3. Reasoned(s, se, it, q)
  BY <1>0 DEF Reasoned, Fine
<1> QED BY <1>0, <1>1, <1>2, <1>3 DEF Before, Served, Client

\* The greeting and the handshake.
LEMMA HeloOK ==
    ASSUME IInv, smtp_helo
    PROVE  Served(st', ses', lp', srv', it', cache', pc')
<1>0. /\ pc = "helo" /\ pc' = "xfer" /\ lp' = lp /\ srv' = srv /\ cache' = cache
      /\ it' = CountSession(it) /\ st' = Final(st, CountSession(it).next)
  BY DEF smtp_helo
<1>1. Before("helo")
  BY <1>0, BeforeFacts
<1>2. /\ cfg \in Setups /\ st \in StType /\ ses \in SesType /\ it \in ItType /\ lp = NewLoop
      /\ Idle(st, srv, "helo") /\ Fair(st) /\ Limits(it) /\ it.site > 0 /\ CacheOK(cache)
      /\ st.list # <<>> /\ ses.addr # NoAddr /\ it.mode = "connect" /\ ~ses.xfer
      /\ CountedNew(it, ses)
  BY <1>1 DEF Before, CountedBusy
<1>3. PICK tls \in BOOLEAN : ses' = [ses EXCEPT !.tls = tls, !.xfer = TRUE]
  <2>1. TlsLevel \subseteq BOOLEAN
    BY DEF TlsLevel
  <2> QED BY <2>1 DEF smtp_helo
<1>4. ses' \in SesType /\ ses'.xfer /\ ses'.addr # NoAddr
  BY <1>2, <1>3 DEF SesType
<1>5. Room(it.sess_count, cfg.mxsess_limit)
  BY <1>2 DEF CountedNew
<1>6. /\ it' \in ItType /\ it'.mode = it.mode /\ it'.list = it.list /\ it'.todo = it.todo
      /\ it'.site = it.site /\ it'.addr_count = it.addr_count /\ it'.skipped = it.skipped
      /\ it'.sess_count > 0 /\ Within(it'.sess_count, cfg.mxsess_limit)
      /\ it'.next # <<>> => it.next # <<>> /\ Room(it'.sess_count, cfg.mxsess_limit)
  BY <1>0, <1>2, <1>5, CountSessionOK
<1>7. Remarked(st, st') /\ (st'.final_server \/ ~FinalNexthop \/ it'.next # <<>>)
  BY <1>0, <1>2, FinalOK
<1>8. Limits(it')
  BY <1>2, <1>6 DEF Limits
<1>9. CountedBusy(it', ses')
  BY <1>2, <1>4, <1>6 DEF CountedBusy, CountedNew
<1>10. st'.final_server \/ ~LastHop(it') \/ MoreAfter(ses', it')
  BY <1>2, <1>6, <1>7 DEF LastHop, FinalNexthop, MoreAfter
<1>11. Idle(st', srv, "xfer") /\ Fair(st') /\ st'.list # <<>>
  <2>1. "xfer" \notin LoopPc \cup {"cleanup"}
    BY DEF LoopPc
  <2> QED BY <1>2, <1>7, <2>1, RemarkOK DEF Remarked
<1>12. Served(st', ses', NewLoop, srv, it', cache, "xfer")
  BY <1>2, <1>4, <1>6, <1>8, <1>9, <1>10, <1>11, BusyServed
<1> QED BY <1>0, <1>2, <1>12

\* A session that fails before there is a conversation.
LEMMA HeloFailedOK ==
    ASSUME Before("helo"), NEW s, NEW se \in SesType, HeloFailed(s, se), UNCHANGED <<lp, srv, it, cache>>,
           s \in StType, Account(s), s.fate["sent"] = st.fate["sent"], Fair(s), Unmarked(s) = {},
           s.list = st.list, se.addr = ses.addr, se.xfer = ses.xfer,
           s.final_server \/ ~LastHop(it) \/ MoreAfter(se, it)
    PROVE  Served(st', ses', lp', srv', it', cache', pc')
<1>0. /\ srv \in SrvType /\ lp = NewLoop /\ srv.wire = <<>> /\ it.mode = "connect"
      /\ Taken(st, srv)
  BY DEF Before, Idle
<1>1. Taken(s, srv)
  BY <1>0, TakenSame
<1>2. Fine(s, se, NewLoop, srv, "cleanup")
  <2>1. "cleanup" \notin LoopPc
    BY DEF LoopPc
  <2> QED BY <1>0, <1>1, <2>1, NewLoopType DEF Fine
<1>3. Served(s, se, NewLoop, srv, it, cache, "cleanup")
  BY <1>0, <1>2, SessionServed
<1> QED BY <1>0, <1>3 DEF HeloFailed

\* QUIT, sent before the end.
LEMMA QuitOK ==
    ASSUME NEW se \in SesType, NEW sf \in Quit(se)
    PROVE  /\ sf \in SesType /\ sf.addr = se.addr /\ sf.xfer = se.xfer /\ sf.tls = se.tls
           /\ sf.retry_plain = se.retry_plain
<1>1. sf = se \/ sf = DontCache(se)
  BY DEF Quit
<1> QED BY <1>1, SessionFacts

\* The greeting or the handshake fails: by a site failure, a misc failure, or a lost
\* connection.
LEMMA HeloFailsOK ==
    ASSUME IInv, smtp_helo_fails
    PROVE  Served(st', ses', lp', srv', it', cache', pc')
<1>0. pc = "helo" /\ UNCHANGED <<lp, srv, it, cache>>
  BY DEF smtp_helo_fails
<1>1. Before("helo")
  BY <1>0, BeforeFacts
<1>2. /\ st \in StType /\ Account(st) /\ ses \in SesType /\ it \in ItType /\ Fair(st)
      /\ it.mode = "connect" /\ (st.final_server \/ ~LastHop(it) \/ MoreAfter(ses, it))
  BY <1>1 DEF Before, Idle
<1>3. ASSUME NEW se, se.retry_plain = ses.retry_plain
      PROVE  st.final_server \/ ~LastHop(it) \/ MoreAfter(se, it)
  BY <1>2, <1>3 DEF MoreAfter
<1>4. ASSUME NEW reply \in Refusal, NEW se \in Quit([ses EXCEPT !.expire = "throttled"]),
             HeloFailed(smtp_site_fail(st, reply), se)
      PROVE  Served(st', ses', lp', srv', it', cache', pc')
  <2>1. PICK s : s = FillDsn(st, Unmarked(st), reply)
    OBVIOUS
  <2>2. Filled(st, Unmarked(st), reply, s)
    BY <1>2, <2>1, Filling, UnmarkedType
  <2>3. s \in StType /\ Account(s) /\ (s.why = "4" \/ Unmarked(s) \subseteq s.refused)
    BY <2>2 DEF Filled
  <2>4. PICK t : t = smtp_bulk_fail(s, TRUE, FALSE)
    OBVIOUS
  <2>5. Bulked(s, "yes", t)
    BY <2>3, <2>4, SiteFailOK
  <2>6. /\ t \in StType /\ Account(t) /\ t.fate["sent"] = st.fate["sent"] /\ Unmarked(t) = {}
        /\ t.list = st.list /\ t.final_server = st.final_server
    BY <2>2, <2>5 DEF Bulked, Failed, Filled
  <2>7. Fair(t)
    <3>1. Fair(s)
      BY <1>2, <2>2 DEF Filled, Fair
    <3> QED BY <3>1, <2>5 DEF Bulked, Failed
  <2>8. [ses EXCEPT !.expire = "throttled"] \in SesType
    BY <1>2 DEF SesType
  <2>9. /\ se \in SesType /\ se.addr = ses.addr /\ se.xfer = ses.xfer
        /\ se.retry_plain = ses.retry_plain
    BY <1>2, <1>4, <2>8, QuitOK DEF SesType
  <2>10. HeloFailed(t, se)
    BY <1>4, <2>1, <2>4 DEF smtp_site_fail
  <2>11. t.final_server \/ ~LastHop(it) \/ MoreAfter(se, it)
    BY <1>3, <2>6, <2>9
  <2> QED BY <1>0, <1>1, <2>6, <2>7, <2>9, <2>10, <2>11, HeloFailedOK
<1>5. ASSUME NEW se \in Quit(DontCache(ses)),
             HeloFailed(smtp_bulk_fail(FillDsn(st, Unmarked(st), "hard"), FALSE, TRUE), se)
      PROVE  Served(st', ses', lp', srv', it', cache', pc')
  <2>1. PICK s : s = FillDsn(st, Unmarked(st), "hard")
    OBVIOUS
  <2>2. "hard" \in Refusal
    BY DEF Refusal, Reply
  <2>3. Filled(st, Unmarked(st), "hard", s)
    BY <1>2, <2>1, <2>2, Filling, UnmarkedType
  <2>4. s \in StType /\ Account(s) /\ Unmarked(s) \subseteq s.refused
    BY <2>3 DEF Filled
  <2>5. PICK t : t = smtp_bulk_fail(s, FALSE, TRUE)
    OBVIOUS
  <2>6. Bulked(s, "no", t)
    BY <2>4, <2>5, MiscFailOK
  <2>7. /\ t \in StType /\ Account(t) /\ t.fate["sent"] = st.fate["sent"] /\ Unmarked(t) = {}
        /\ t.list = st.list /\ t.final_server = st.final_server
    BY <2>3, <2>6 DEF Bulked, Failed, Filled
  <2>8. Fair(t)
    <3>1. Fair(s)
      BY <1>2, <2>3 DEF Filled, Fair
    <3> QED BY <3>1, <2>6 DEF Bulked, Failed
  <2>9. /\ se \in SesType /\ se.addr = ses.addr /\ se.xfer = ses.xfer
        /\ se.retry_plain = ses.retry_plain
    BY <1>2, <1>5, QuitOK, SessionFacts
  <2>10. HeloFailed(t, se)
    BY <1>5, <2>1, <2>5
  <2>11. t.final_server \/ ~LastHop(it) \/ MoreAfter(se, it)
    BY <1>3, <2>7, <2>9
  <2> QED BY <1>0, <1>1, <2>7, <2>8, <2>9, <2>10, <2>11, HeloFailedOK
<1>6. ASSUME NEW tls \in TlsLevel,
             HeloFailed(smtp_stream_except(st, [ses EXCEPT !.tls = tls]), Broken(st, [ses EXCEPT !.tls = tls]))
      PROVE  Served(st', ses', lp', srv', it', cache', pc')
  <2>0. tls \in BOOLEAN
    BY DEF TlsLevel
  <2>1. PICK se : se = [ses EXCEPT !.tls = tls]
    OBVIOUS
  <2>2. /\ se \in SesType /\ se.addr = ses.addr /\ se.xfer = ses.xfer /\ se.retry_plain = ses.retry_plain
    BY <1>2, <2>0, <2>1 DEF SesType
  <2>3. PICK t : t = smtp_stream_except(st, se)
    OBVIOUS
  <2>4. /\ Failed(st, t) /\ Unmarked(t) = {}
        /\ t.final_server \/ ~st.final_server \/ PlainOK(st, se)
    BY <1>2, <2>2, <2>3, StreamExceptOK
  <2>5. PICK sf : sf = Broken(st, se)
    OBVIOUS
  <2>6. /\ sf \in SesType /\ sf.addr = se.addr /\ sf.xfer = se.xfer
        /\ PlainOK(st, se) => sf.retry_plain
        /\ ~PlainOK(st, se) => sf.retry_plain = se.retry_plain
    BY <1>2, <2>2, <2>5, BrokenOK
  <2>7. t.final_server \/ ~LastHop(it) \/ MoreAfter(sf, it)
    <3>1. CASE sf.retry_plain
      BY <1>2, <3>1 DEF MoreAfter
    <3>2. CASE ~sf.retry_plain
      BY <1>3, <2>2, <2>4, <2>6, <3>2
    <3> QED BY <3>1, <3>2
  <2>8. HeloFailed(t, sf)
    BY <1>6, <2>1, <2>3, <2>5
  <2> QED BY <1>0, <1>1, <1>2, <2>2, <2>4, <2>6, <2>7, <2>8, HeloFailedOK DEF Failed
<1>7. ASSUME HeloFailed(smtp_bulk_fail([st EXCEPT !.why = "4", !.final_server = FALSE], FALSE, FALSE),
                        [ses EXCEPT !.forbidden = TRUE, !.retry_plain = TRUE])
      PROVE  Served(st', ses', lp', srv', it', cache', pc')
  <2>1. PICK s : s = [st EXCEPT !.why = "4", !.final_server = FALSE]
    OBVIOUS
  <2>2. s \in StType
    BY <1>2, <2>1 DEF StType
  <2>3. Remarked(st, s) /\ s.why = "4"
    BY <1>2, <2>1, <2>2 DEF Remarked, StType
  <2>4. Account(s) /\ Fair(s)
    BY <1>1, <1>2, <2>3, RemarkOK DEF Before
  <2>5. PICK t : t = smtp_bulk_fail(s, FALSE, FALSE)
    OBVIOUS
  <2>6. Bulked(s, "no", t)
    BY <2>2, <2>3, <2>4, <2>5, BulkFailOK
  <2>7. /\ t \in StType /\ Account(t) /\ t.fate["sent"] = st.fate["sent"] /\ Unmarked(t) = {}
        /\ t.list = st.list /\ Fair(t)
    BY <2>3, <2>4, <2>6 DEF Bulked, Failed, Remarked
  <2>8. PICK se : se = [ses EXCEPT !.forbidden = TRUE, !.retry_plain = TRUE]
    OBVIOUS
  <2>9. se \in SesType /\ se.addr = ses.addr /\ se.xfer = ses.xfer /\ se.retry_plain
    BY <1>2, <2>8 DEF SesType
  <2>10. HeloFailed(t, se)
    BY <1>7, <2>1, <2>5, <2>8
  <2>11. t.final_server \/ ~LastHop(it) \/ MoreAfter(se, it)
    BY <1>2, <2>9 DEF MoreAfter
  <2> QED BY <1>0, <1>1, <2>7, <2>9, <2>10, <2>11, HeloFailedOK
<1> QED BY <1>4, <1>5, <1>6, <1>7 DEF smtp_helo_fails

\* The conversation begins.
LEMMA StartTalk ==
    ASSUME NEW s \in StType, Account(s), Marked(s) = {}, s.list # <<>>, ~s.hop_status,
           NEW se, se.xfer, NEW v \in SrvType, v.wire = <<>>, ~v.mail, v.rcpts = <<>>
    PROVE  Talks(NewLoop, s, se, v, "send")
<1> DEFINE l == NewLoop
<1>0. /\ l.send_state = "MAIL" /\ l.recv_state = "MAIL" /\ l.next_state = "MAIL"
      /\ l.send_rcpt = 0 /\ l.recv_rcpt = 0 /\ l.next_rcpt = 0 /\ l.nrcpt = 0
      /\ l.survivors = <<>> /\ l.recv_done = 0 /\ ~l.mail_from_rejected /\ ~l.except /\ l.ctx = "loop"
  BY DEF NewLoop
<1> HIDE DEF l
<1>1. /\ s.list \in Seq(Rcpt) /\ Len(s.list) \in Nat /\ DOMAIN s.list = 1..Len(s.list)
      /\ ToSet(s.list) = {s.list[i] : i \in 1..Len(s.list)}
  BY Listed
<1>2. PICK n \in Nat : n = Len(s.list) /\ n > 0
  BY <1>1
<1>3. Len(l.survivors) = 0
  BY <1>0
<1>4. Receiving(l, n)
  BY <1>0, <1>2, <1>3 DEF Receiving
<1>5. Open(l, n) = 1..n
  <2>1. ~Closed(l)
    BY <1>0 DEF Closed
  <2>2. Survivors(l) = {}
    BY <1>0, <1>3 DEF Survivors
  <2> QED BY <1>0, <1>2, <2>1, <2>2 DEF Open
<1>6. Undecided(l, s)
  <2>1. Unmarked(s) = ToSet(s.list)
    BY DEF Unmarked
  <2> QED BY <1>1, <1>2, <1>5, <2>1 DEF Undecided, At
<1>7. Receiver(l, s) /\ Sends(l, s.list)
  BY <1>0, <1>2, <1>4, <1>6 DEF Receiver, Sends
<1>8. Asking(l, s.list, v.wire)
  <2>1. RecvPlace(l, s.list) = 0 /\ SendPlace(l, s.list) = 0
    BY <1>0 DEF RecvPlace, SendPlace, Place
  <2>2. Len(v.wire) = 0
    OBVIOUS
  <2>3. "MAIL" \in Early
    BY DEF Early
  <2> QED BY <1>0, <2>1, <2>2, <2>3 DEF Asking
<1>9. Planned(l, s.list, se, "send")
  BY <1>0 DEF Planned
<1>10. Agreed(l, s, v)
  BY <1>0 DEF Agreed
<1>11. l.next_rcpt <= Len(s.list) /\ l.send_rcpt <= Len(s.list)
  BY <1>0, <1>2
<1>12. Talks(l, s, se, v, "send")
  BY <1>0, <1>7, <1>8, <1>9, <1>10, <1>11 DEF Talks
<1> QED BY <1>12 DEF l

\* smtp_xfer(): smtp_loop() starts.
LEMMA XferOK ==
    ASSUME IInv, smtp_xfer
    PROVE  Served(st', ses', lp', srv', it', cache', pc')
<1>0. pc = "xfer" /\ ses' = ses /\ lp' = lp /\ srv' = srv /\ it' = it /\ cache' = cache
  BY DEF smtp_xfer
<1>1. Before("xfer")
  BY <1>0, BeforeFacts
<1>2. /\ st \in StType /\ Account(st) /\ ses \in SesType /\ srv \in SrvType /\ Fair(st) /\ lp = NewLoop
      /\ st.list # <<>> /\ Marked(st) = {} /\ ~st.hop_status /\ ses.xfer /\ Taken(st, srv)
      /\ srv.wire = <<>> /\ ~srv.mail /\ srv.rcpts = <<>>
      /\ it.mode # "connect" => ~ses.tls /\ ~ses.retry_plain
      /\ st.final_server \/ ~LastHop(it) \/ MoreAfter(ses, it)
  BY <1>1 DEF Before, Idle
<1>3. PICK s : s = [st EXCEPT !.panic = @ \/ Left = 0 \/ Marked(st) # {}]
  OBVIOUS
<1>4. s = st
  <2>1. PICK b \in BOOLEAN : b = (st.panic \/ Left = 0 \/ Marked(st) # {})
    BY Zenon
  <2>2. st.panic = FALSE /\ Left # 0
    <3>1. ~st.panic /\ st.panic \in BOOLEAN
      BY <1>2 DEF Account, StType
    <3>2. st.list \in Seq(Rcpt)
      BY <1>2, ListType
    <3>3. Len(st.list) # 0
      BY <1>2, <3>2
    <3> QED BY <3>1, <3>3 DEF Left
  <2>3. b = FALSE
    BY <1>2, <2>1, <2>2, Zenon
  <2>4. s = [st EXCEPT !.panic = b]
    BY <1>3, <2>1
  <2> QED BY <1>2, <2>2, <2>3, <2>4 DEF StType
<1>5. \/ st' = [smtp_mesg_fail(st, "hard") EXCEPT !.complete = TRUE] /\ pc' = "cleanup"
      \/ st' = st /\ pc' = "send"
  BY <1>3, <1>4 DEF smtp_xfer
<1>6. "cleanup" \notin LoopPc /\ "send" \in LoopPc /\ "send" # "cleanup"
  BY DEF LoopPc
<1>7. CASE st' = [smtp_mesg_fail(st, "hard") EXCEPT !.complete = TRUE] /\ pc' = "cleanup"
  <2>1. PICK t : t = smtp_mesg_fail(st, "hard")
    OBVIOUS
  <2>2. "hard" \in Refusal
    BY DEF Refusal, Reply
  <2>3. /\ Failed(st, t) /\ Unmarked(t) = {}
        /\ t.final_server = st.final_server /\ t.hop_status = st.hop_status
    BY <1>2, <2>1, <2>2, MesgFailOK
  <2>4. t \in StType /\ Account(t) /\ Fair(t) /\ ~t.hop_status /\ t.fate["sent"] = st.fate["sent"]
    BY <1>2, <2>3 DEF Failed
  <2>5. st' = [t EXCEPT !.complete = TRUE]
    BY <1>7, <2>1
  <2>6. /\ st' \in StType /\ st'.list = t.list /\ st'.keep = t.keep /\ st'.drop = t.drop
        /\ st'.final_server = t.final_server /\ st'.fate = t.fate /\ st'.refused = t.refused
        /\ st'.panic = t.panic /\ st'.hop_status = t.hop_status
    BY <2>4, <2>5 DEF StType
  <2>7. Account(st') /\ Unmarked(st') = {} /\ Fair(st')
    <3>1. Unmarked(st') = {} /\ Fair(st')
      BY <2>3, <2>4, <2>6 DEF Unmarked, Marked, Fair
    <3>2. Account(st')
      BY <2>4, <2>6 DEF Account, Marked, Decided
    <3> QED BY <3>1, <3>2
  <2>8. Taken(st', srv)
    BY <1>2, <2>4, <2>6, TakenSame
  <2>9. Fine(st', ses, NewLoop, srv, "cleanup")
    BY <1>2, <1>6, <2>6, <2>7, <2>8, NewLoopType DEF Fine
  <2>10. Served(st', ses, NewLoop, srv, it, cache, "cleanup")
    BY <1>1, <1>2, <2>3, <2>6, <2>9, SessionServed
  <2> QED BY <1>0, <1>2, <1>7, <2>10
<1>8. CASE st' = st /\ pc' = "send"
  <2>1. Talks(NewLoop, st, ses, srv, "send")
    BY <1>2, StartTalk
  <2>2. Fine(st, ses, NewLoop, srv, "send")
    BY <1>2, <1>6, <2>1, NewLoopType DEF Fine
  <2>3. Served(st, ses, NewLoop, srv, it, cache, "send")
    BY <1>1, <1>2, <1>6, <2>2, SessionServed
  <2> QED BY <1>0, <1>2, <1>8, <2>3
<1> QED BY <1>5, <1>7, <1>8

\* Where the caller of smtp_xfer() goes on.
LEMMA AfterSessionOK ==
    ASSUME cfg \in Setups, NEW i \in ItType, Limits(i), CountedBusy(i, ses),
           i.mode # "connect" => ~ses.retry_plain,
           NEW j, j = AfterSession(i),
           NEW p, p = IF i.mode = "connect" THEN "connect" ELSE "reuse"
    PROVE  /\ j \in ItType /\ Limits(j) /\ j.site = i.site /\ CountedIdle(j, p)
           /\ MoreAfter(ses, i) => MoreIdle(j, p)
<1>0. /\ i.site \in Nat /\ i.addr_count \in Nat /\ i.sess_count \in Nat /\ i.next \in Seq(Addr)
      /\ i.mode \in {"connect", "nexthop", "reuse"}
      /\ cfg.mxaddr_limit \in Nat /\ cfg.mxsess_limit \in Nat
  BY SetupFacts DEF ItType
<1>1. CASE i.mode = "nexthop"
  <2>1. j = i
    BY <1>1 DEF AfterSession
  <2> QED BY <1>1, <2>1 DEF CountedBusy, CountedIdle, MoreAfter, MoreIdle
<1>2. CASE i.mode = "connect" /\ ses.retry_plain
  <2>1. i.todo # <<>> /\ i.addr_count > 0 /\ (ses.xfer => i.sess_count > 0)
    BY <1>2 DEF CountedBusy, CountedNew
  <2>2. PICK n \in Nat : n = i.addr_count - 1
    BY <1>0, <2>1
  <2>3. PICK m \in Nat : m = IF ses.xfer THEN i.sess_count - 1 ELSE i.sess_count
    BY <1>0, <2>1
  <2>4. j = [i EXCEPT !.retry_plain = TRUE, !.addr_count = n, !.sess_count = m]
    BY <1>2, <2>2, <2>3 DEF AfterSession
  <2>5. j \in ItType
    BY <2>4 DEF ItType
  <2>6. j.site = i.site /\ j.addr_count = n /\ j.sess_count = m /\ j.todo = i.todo
    BY <2>4 DEF ItType
  <2>7. Within(n, cfg.mxaddr_limit) /\ Room(n, cfg.mxaddr_limit)
    BY <1>0, <2>2 DEF Limits, Within, Room
  <2>8. Within(m, cfg.mxsess_limit) /\ Room(m, cfg.mxsess_limit)
    <3>1. CASE ses.xfer
      BY <1>0, <2>3, <3>1 DEF Limits, Within, Room
    <3>2. CASE ~ses.xfer
      BY <1>0, <1>2, <2>3, <3>2 DEF Limits, CountedBusy, CountedNew
    <3> QED BY <3>1, <3>2
  <2> QED BY <1>2, <2>1, <2>5, <2>6, <2>7, <2>8 DEF Limits, CountedIdle, MoreIdle
<1>3. CASE i.mode # "nexthop" /\ ~(i.mode = "connect" /\ ses.retry_plain)
  <2>1. j = [i EXCEPT !.todo = i.next]
    BY <1>3 DEF AfterSession
  <2>2. j \in ItType
    BY <1>0, <2>1 DEF ItType
  <2>3. /\ j.site = i.site /\ j.addr_count = i.addr_count /\ j.sess_count = i.sess_count
        /\ j.list = i.list /\ j.todo = i.next
    BY <2>1 DEF ItType
  <2>4. Limits(j)
    BY <2>3 DEF Limits
  <2>5. CASE i.mode = "reuse"
    <3>1. CountedCached(i) /\ (i.next # <<>> => i.list # <<>>) /\ p = "reuse"
      BY <2>5 DEF CountedBusy
    <3>2. CountedIdle(j, p)
      BY <2>3, <3>1 DEF CountedIdle, CountedCached
    <3> QED BY <2>2, <2>3, <2>4, <2>5, <3>1, <3>2 DEF MoreAfter, MoreIdle
  <2>6. CASE i.mode = "connect"
    <3>1. CountedNew(i, ses) /\ p = "connect" /\ ~ses.retry_plain
      BY <1>3, <2>6 DEF CountedBusy
    <3>2. CountedIdle(j, p)
      BY <2>3, <3>1 DEF CountedIdle, CountedNew
    <3> QED BY <2>2, <2>3, <2>4, <2>6, <3>1, <3>2 DEF MoreAfter, MoreIdle
  <2> QED BY <1>0, <1>3, <2>5, <2>6
<1> QED BY <1>1, <1>2, <1>3

\* The end of a session: recipients are removed, the connection is cached or closed.
LEMMA CleanupSessionOK ==
    ASSUME IInv, smtp_cleanup_session
    PROVE  Served(st', ses', lp', srv', it', cache', pc')
<1>0. /\ pc = "cleanup" /\ lp' = lp /\ srv' = Fresh(srv) /\ ses' = NoSession
      /\ st' \in smtp_rcpt_cleanup(st)
      /\ it' = AfterSession([it EXCEPT !.request_nexthop = @ /\ Throttled(ses)])
      /\ pc' = IF it.mode = "connect" THEN "connect" ELSE "reuse"
  BY DEF smtp_cleanup_session
<1>1. pc \in SessionPc /\ pc \notin LoopPc /\ pc # "site" /\ pc # "done"
  BY <1>0 DEF SessionPc, LoopPc
<1>2. /\ cfg \in Setups /\ st \in StType /\ ses \in SesType /\ srv \in SrvType /\ it \in ItType
      /\ Account(st) /\ Taken(st, srv) /\ CacheOK(cache)
      /\ Counted(it, ses, pc) /\ MarksOK(st, ses, lp, srv, it, pc) /\ Reasoned(st, ses, it, pc)
  BY IInvFacts
<1>3. /\ Limits(it) /\ it.site > 0 /\ CountedBusy(it, ses) /\ lp = NewLoop /\ ses.addr # NoAddr
      /\ it.mode # "connect" => ~ses.retry_plain
      /\ st.final_server \/ ~LastHop(it) \/ MoreAfter(ses, it)
  BY <1>1, <1>2 DEF Counted, MarksOK, Reasoned
<1>4. Unmarked(st) = {} /\ Fair(st) /\ (Cached(ses) /\ ~ses.broken => srv.wire = <<>>)
  BY <1>0 DEF IInv, ProtoInv
<1>5. PICK req \in BOOLEAN : req = (it.request_nexthop /\ Throttled(ses))
  BY Zenon
<1>6. PICK i : i = [it EXCEPT !.request_nexthop = req]
  OBVIOUS
<1>7. i \in ItType
  BY <1>2, <1>6 DEF ItType
<1>8. /\ i.site = it.site /\ i.addr_count = it.addr_count /\ i.sess_count = it.sess_count
      /\ i.list = it.list /\ i.todo = it.todo /\ i.next = it.next /\ i.mode = it.mode
  BY <1>2, <1>6 DEF ItType
<1>9. Limits(i) /\ CountedBusy(i, ses) /\ (MoreAfter(ses, it) => MoreAfter(ses, i))
  <2>1. Limits(i)
    BY <1>3, <1>8 DEF Limits
  <2>2. CountedBusy(i, ses)
    BY <1>3, <1>8 DEF CountedBusy, CountedCached, CountedNew
  <2>3. MoreAfter(ses, it) => MoreAfter(ses, i)
    BY <1>8 DEF MoreAfter
  <2> QED BY <2>1, <2>2, <2>3
<1>10. it' = AfterSession(i)
  <2>1. [it EXCEPT !.request_nexthop = @ /\ Throttled(ses)] = i
    BY <1>5, <1>6
  <2> QED BY <1>0, <2>1
<1>11. /\ it' \in ItType /\ Limits(it') /\ it'.site = it.site /\ CountedIdle(it', pc')
       /\ MoreAfter(ses, i) => MoreIdle(it', pc')
  BY <1>0, <1>2, <1>3, <1>7, <1>8, <1>9, <1>10, AfterSessionOK
<1>12. pc' \in {"connect", "reuse"}
  BY <1>0
<1>13. pc' \in IdlePc /\ pc' \notin LoopPc \cup {"cleanup"} /\ pc' # "nexthop" /\ pc' # "site"
  BY <1>12 DEF IdlePc, LoopPc
<1>14. Swept(st, st')
  BY <1>0, <1>2, <1>4, SetupsAssumption, CleanupOK
<1>15. /\ st' \in StType /\ Account(st') /\ Marked(st') = {} /\ st'.fate = st.fate
       /\ st'.refused = st.refused /\ ToSet(st'.list) = st.keep
  BY <1>14 DEF Swept
<1>16. srv' \in SrvType /\ srv'.accepted = srv.accepted /\ srv'.unseen = srv.unseen
       /\ srv'.wire = <<>> /\ ~srv'.mail /\ srv'.rcpts = <<>>
  <2>1. <<>> \in Seq(CommandType) /\ <<>> \in Seq(Rcpt)
    OBVIOUS
  <2>2. srv' = [srv EXCEPT !.wire = <<>>, !.mail = FALSE, !.rcpts = <<>>]
    BY <1>0 DEF Fresh
  <2> QED BY <1>2, <2>1, <2>2 DEF SrvType
<1>17. Taken(st', srv') /\ Fair(st')
  <2>1. Fair(st')
    BY <1>4, <1>15 DEF Fair
  <2> QED BY <1>2, <1>15, <1>16, <2>1, TakenSame
<1>18. Idle(st', srv', pc')
  BY <1>13, <1>15, <1>16, <1>17 DEF Idle
<1>19. st'.list # <<>> => ~LastHop(it') \/ MoreIdle(it', pc')
  <2>1. ASSUME st'.list # <<>> PROVE st.keep # {}
    <3>1. st'.list \in Seq(Rcpt)
      BY <1>15, ListType
    <3>2. 1 \in 1..Len(st'.list)
      BY <2>1, <3>1
    <3>3. st'.list[1] \in ToSet(st'.list)
      BY <3>1, <3>2 DEF ToSet
    <3> QED BY <1>15, <3>3
  <2>2. st.final_server => st.keep = {}
    BY <1>2 DEF Account
  <2> QED BY <1>3, <1>9, <1>11, <2>1, <2>2 DEF LastHop
<1>20. ses' \in SesType
  BY <1>0 DEF NoSession, SesType
<1>21. CacheOK(cache')
  <2>1. cache \in CacheType /\ cache.dest \subseteq cache.endp /\ cache.clean
    BY <1>2 DEF CacheOK
  <2>2. PICK se \in MayExpire(ses) :
           cache' = IF Cached(se) /\ ~se.broken
                    THEN [cache EXCEPT !.endp = @ \cup {se.addr},
                             !.dest = IF it.request_nexthop THEN @ \cup {se.addr} ELSE @,
                             !.clean = @ /\ srv.wire = <<>>]
                    ELSE cache
    BY DEF smtp_cleanup_session
  <2>3. se = ses \/ se = DontCache(ses)
    BY DEF MayExpire
  <2>4. Dims(ses, se)
    BY <1>2, <2>3, DimsOK
  <2>5. CASE ~(Cached(se) /\ ~se.broken)
    BY <1>2, <2>2, <2>5
  <2>6. CASE Cached(se) /\ ~se.broken
    <3>1. srv.wire = <<>> /\ se.addr = ses.addr
      BY <1>4, <2>4, <2>6 DEF Dims
    <3>2. PICK a \in Addr : a = se.addr
      BY <1>2, <1>3, <3>1 DEF SesType
    <3>3. PICK b \in BOOLEAN : b = (cache.clean /\ srv.wire = <<>>)
      BY Zenon
    <3>4. b = TRUE
      BY <2>1, <3>1, <3>3
    <3>5. PICK d \in SUBSET Addr : /\ d = IF it.request_nexthop THEN cache.dest \cup {a} ELSE cache.dest
                                   /\ d \subseteq cache.endp \cup {a}
      <4>1. cache.dest \in SUBSET Addr
        BY <2>1 DEF CacheType
      <4>2. CASE it.request_nexthop
        BY <2>1, <3>2, <4>1, <4>2
      <4>3. CASE ~it.request_nexthop
        BY <2>1, <3>2, <4>1, <4>3
      <4> QED BY <4>2, <4>3
    <3>6. cache' = [cache EXCEPT !.endp = @ \cup {a}, !.dest = d, !.clean = b]
      BY <2>2, <2>6, <3>2, <3>3, <3>5
    <3>7. /\ cache' \in CacheType /\ cache'.endp = cache.endp \cup {a} /\ cache'.dest = d
          /\ cache'.clean = b
      BY <2>1, <3>6 DEF CacheType
    <3> QED BY <3>4, <3>5, <3>7 DEF CacheOK
  <2> QED BY <2>5, <2>6
<1>22. Served(st', ses', NewLoop, srv', it', cache', pc')
  BY <1>3, <1>11, <1>13, <1>17, <1>18, <1>19, <1>20, <1>21, IdleServed
<1> QED BY <1>0, <1>3, <1>22

-----------------------------------------------------------------------------
(***************************************************************************)
(* The end of a next hop, and of the request.                              *)
(***************************************************************************)
\* All servers of a next hop were tried.
LEMMA SiteDoneOK ==
    ASSUME IInv, SiteDone
    PROVE  Served(st', ses', lp', srv', it', cache', pc')
<1>0. /\ pc = "connect" /\ ~Trying /\ pc' = "site"
      /\ st' = st /\ ses' = ses /\ lp' = lp /\ srv' = srv /\ it' = it /\ cache' = cache
  BY DEF SiteDone
<1>1. /\ pc \in IdlePc /\ pc \notin LoopPc \cup {"cleanup"} /\ pc \notin {"done", "site"}
      /\ "site" \in IdlePc /\ "site" \notin LoopPc \cup {"cleanup"}
  BY <1>0 DEF IdlePc, LoopPc
<1>2. /\ st \in StType /\ ses \in SesType /\ it \in ItType
      /\ Idle(st, srv, pc) /\ lp = NewLoop /\ Fair(st) /\ Limits(it) /\ CacheOK(cache)
      /\ Reasoned(st, ses, it, pc)
  BY <1>0, <1>1, IInvFacts DEF Reasoned, Counted
<1>3. Idle(st, srv, "site")
  BY <1>1, <1>2 DEF Idle
<1>4. st.list # <<>> => it.todo = <<>>
  <2>1. st.list \in Seq(Rcpt)
    BY <1>2, ListType
  <2>2. st.list # <<>> => Len(st.list) > 0
    BY <2>1
  <2> QED BY <1>0, <2>2 DEF Trying, Left
<1>5. st.list # <<>> /\ st.why \in {"2", "5"} =>
         \/ ToSet(st.list) \subseteq st.refused
         \/ it.skipped \/ ~LastHop(it) \/ MoreIdle(it, "site")
  BY <1>0, <1>1, <1>2, <1>4 DEF Reasoned, MoreIdle
<1>6. CountedIdle(it, "site")
  BY DEF CountedIdle
<1>7. Served(st, ses, NewLoop, srv, it, cache, "site")
  BY <1>1, <1>2, <1>3, <1>5, <1>6, IdleServed
<1> QED BY <1>0, <1>2, <1>7

\* What the mark "drop" changes.
Dropped(s, R, how, u) ==
    /\ u \in StType /\ Account(u) /\ Unmarked(u) = Unmarked(s) \ R
    /\ u.list = s.list /\ u.complete = s.complete /\ u.hop_status = s.hop_status
    /\ u.final_server = s.final_server /\ u.refused = s.refused
    /\ u.why = s.why /\ u.keep = s.keep /\ u.drop = s.drop \cup R
    /\ \A x \in Fates : x # how => u.fate[x] = s.fate[x]

\* SMTP_RCPT_DROP, by its parts.
LEMMA DropFacts ==
    ASSUME NEW s \in StType, Account(s), NEW how \in Fates,
           NEW R \in SUBSET Rcpt, R \subseteq Unmarked(s),
           NEW u, u = SMTP_RCPT_DROP(s, R, how)
    PROVE  Dropped(s, R, how, u)
BY DropOK DEF Dropped

\* No server remains: everybody who is left is deferred or bounced.
LEMMA NobodyLeft ==
    ASSUME NEW s \in StType, Account(s), s.final_server, NEW t, t = smtp_sess_fail(s)
    PROVE  /\ t \in StType /\ Account(t) /\ Unmarked(t) = {} /\ t.keep = {}
           /\ t.fate["sent"] = s.fate["sent"]
<1>1. PICK R \in SUBSET Rcpt : R = Unmarked(s)
  BY UnmarkedType
<1>2. PICK how : how = IF s.why = "4" THEN "deferred" ELSE "bounced"
  OBVIOUS
<1>3. how \in Fates /\ how # "sent" /\ "sent" \in Fates
  BY <1>2 DEF Fates
<1>4. PICK u : u = SMTP_RCPT_DROP(s, R, how)
  OBVIOUS
<1>5. /\ u \in StType /\ Account(u) /\ Unmarked(u) = Unmarked(s) \ R
      /\ u.list = s.list /\ u.complete = s.complete /\ u.hop_status = s.hop_status
      /\ u.final_server = s.final_server /\ u.refused = s.refused
      /\ u.why = s.why /\ u.keep = s.keep /\ u.drop = s.drop \cup R
      /\ \A x \in Fates : x # how => u.fate[x] = s.fate[x]
  <2>1. R \in SUBSET Rcpt /\ R \subseteq Unmarked(s) /\ how \in Fates
    BY <1>1, <1>3
  <2>2. Dropped(s, R, how, u)
    BY <2>1, <1>4, DropFacts
  <2> QED BY <2>2 DEF Dropped
<1>6. PICK b \in BOOLEAN : b = (u.hop_status \/ (TRUE /\ s.why = "4" /\ R # {} /\ ~u.complete))
  BY Zenon
<1>7. t = [u EXCEPT !.hop_status = b]
  <2>1. CASE s.why = "4"
    <3>1. how = "deferred"
      BY <1>2, <2>1
    <3>2. PICK c \in BOOLEAN : c = (s.hop_status \/ (R # {} /\ ~s.complete))
      BY Zenon
    <3>3. t = [SMTP_RCPT_DROP(s, R, "deferred") EXCEPT
                 !.hop_status = @ \/ (TRUE /\ TRUE /\ R # {} /\ ~s.complete)]
      BY <1>1, <2>1 DEF smtp_sess_fail, smtp_bulk_fail
    <3>4. t = [u EXCEPT !.hop_status = c]
      BY <1>4, <1>5, <3>1, <3>2, <3>3
    <3>5. b = c
      BY <1>5, <1>6, <2>1, <3>2
    <3> QED BY <3>4, <3>5
  <2>2. CASE s.why # "4"
    <3>1. how = "bounced"
      BY <1>2, <2>2
    <3>2. t = [SMTP_RCPT_DROP(s, R, "bounced") EXCEPT
                 !.hop_status = @ \/ (TRUE /\ FALSE /\ R # {} /\ ~s.complete)]
      BY <1>1, <2>2 DEF smtp_sess_fail, smtp_bulk_fail
    <3>3. b = u.hop_status
      BY <1>5, <1>6, <2>2 DEF StType
    <3>4. t = [u EXCEPT !.hop_status = u.hop_status]
      <4>1. (u.hop_status \/ (TRUE /\ FALSE /\ R # {} /\ ~s.complete)) = u.hop_status
        <5>1. u.hop_status \in BOOLEAN
          BY <1>5 DEF StType
        <5> QED BY <5>1, Zenon
      <4> QED BY <1>4, <3>1, <3>2, <4>1
    <3> QED BY <3>3, <3>4
  <2> QED BY <2>1, <2>2
<1>8. /\ t \in StType /\ t.list = u.list /\ t.complete = u.complete
      /\ t.hop_status = b /\ t.final_server = u.final_server
      /\ t.refused = u.refused /\ t.fate = u.fate /\ t.panic = u.panic
      /\ t.keep = u.keep /\ t.drop = u.drop /\ t.why = u.why
  BY <1>5, <1>7 DEF StType
<1>9. Unmarked(t) = {}
  BY <1>1, <1>5, <1>8 DEF Unmarked, Marked
<1>10. t.keep = {}
  BY <1>5, <1>8 DEF Account
<1>11. b => ~t.complete /\ ToSet(t.list) \subseteq t.drop
  <2>1. ToSet(t.list) \subseteq t.drop
    BY <1>9, <1>10 DEF Unmarked, Marked
  <2>2. b => ~u.complete
    BY <1>5, <1>6 DEF Account
  <2> QED BY <1>8, <2>1, <2>2
<1>12. Account(t)
  BY <1>5, <1>8, <1>11 DEF Account, Marked, Decided
<1> QED BY <1>3, <1>5, <1>8, <1>9, <1>10, <1>12

\* The request ends.
LEMMA DoneServed ==
    ASSUME IInv, pc = "site", NEW s, Idle(s, srv, "done"), s.list = <<>>,
           NEW i \in ItType, i.site = it.site, i.addr_count = it.addr_count,
           i.sess_count = it.sess_count, Fair(s) \/ i.skipped
    PROVE  Served(s, ses, NewLoop, srv, i, cache, "done")
<1>0. /\ "done" \notin SessionPc /\ "done" \notin IdlePc /\ "done" \notin LoopPc \cup {"cleanup"}
  BY DEF SessionPc, LoopPc, IdlePc
<1>1. ses \in SesType /\ srv \in SrvType /\ CacheOK(cache) /\ Limits(it)
  BY IInvFacts DEF Counted
<1>2. Fine(s, ses, NewLoop, srv, "done")
  BY <1>0, <1>1, NewLoopType DEF Idle, Fine
<1>3. Counted(i, ses, "done")
  BY <1>0, <1>1 DEF Counted, Limits
<1>4. MarksOK(s, ses, NewLoop, srv, i, "done")
  BY <1>0 DEF MarksOK, Idle
<1>5. Reasoned(s, ses, i, "done")
  BY <1>0 DEF Reasoned
<1> QED BY <1>1, <1>2, <1>3, <1>4, <1>5 DEF Served, Client

\* The end of smtp_connect(): the last reason is given to everybody who is left.
LEMMA FinishOK ==
    ASSUME IInv, Finish
    PROVE  Served(st', ses', lp', srv', it', cache', pc')
<1>0. /\ pc = "site" /\ (Left = 0 \/ FinalNexthop) /\ pc' = "done"
      /\ ses' = ses /\ lp' = lp /\ srv' = srv /\ cache' = cache
      /\ it' = [it EXCEPT !.request_nexthop = FALSE]
  BY DEF Finish
<1>1. /\ pc \in IdlePc /\ pc \notin LoopPc \cup {"cleanup"} /\ pc # "done"
      /\ "done" \notin LoopPc \cup {"cleanup"}
  BY <1>0 DEF IdlePc, LoopPc
<1>2. /\ cfg \in Setups /\ st \in StType /\ ses \in SesType /\ it \in ItType
      /\ Idle(st, srv, pc) /\ lp = NewLoop /\ Fair(st) /\ Limits(it) /\ CacheOK(cache)
      /\ Reasoned(st, ses, it, pc)
  BY <1>0, <1>1, IInvFacts DEF Reasoned, Counted
<1>3. /\ it' \in ItType /\ it'.site = it.site /\ it'.addr_count = it.addr_count
      /\ it'.sess_count = it.sess_count /\ it'.skipped = it.skipped
  BY <1>0, <1>2 DEF ItType
<1>4. CASE Left = 0
  <2>1. st' = st
    BY <1>4 DEF Finish
  <2>2. st.list = <<>>
    <3>1. st.list \in Seq(Rcpt)
      BY <1>2, ListType
    <3> QED BY <1>4, <3>1 DEF Left
  <2>3. Idle(st, srv, "done")
    BY <1>1, <1>2 DEF Idle
  <2>4. Served(st, ses, NewLoop, srv, it', cache, "done")
    BY <1>0, <1>2, <1>3, <2>2, <2>3, DoneServed
  <2> QED BY <1>0, <1>2, <2>1, <2>4
<1>5. CASE Left # 0
  <2>1. PICK why \in {"2", "4", "5"} : why = FinalWhy
    <3>1. st.why \in {"", "2", "4", "5"}
      BY <1>2 DEF StType
    <3> QED BY <3>1 DEF FinalWhy
  <2>2. why # "4" => why = st.why
    BY <2>1 DEF FinalWhy
  <2>3. PICK s : s = [st EXCEPT !.why = why, !.final_server = TRUE]
    OBVIOUS
  <2>4. s \in StType /\ s.why = why /\ s.final_server
    BY <1>2, <2>3 DEF StType
  <2>5. Remarked(st, s) /\ s.refused = st.refused
    BY <1>2, <2>3, <2>4 DEF Remarked, StType
  <2>6. Account(s) /\ Taken(s, srv) /\ Fair(s) /\ Unmarked(s) = Unmarked(st)
    BY <1>2, <2>5, RemarkOK
  <2>7. PICK t : t = smtp_sess_fail(s)
    OBVIOUS
  <2>8. /\ t \in StType /\ Account(t) /\ Unmarked(t) = {} /\ t.keep = {}
        /\ t.fate["sent"] = s.fate["sent"]
    BY <2>4, <2>6, <2>7, NobodyLeft
  <2>9. st' \in smtp_rcpt_cleanup(t)
    BY <1>5, <2>1, <2>3, <2>7 DEF Finish
  <2>10. Swept(t, st')
    BY <2>8, <2>9, SetupsAssumption, CleanupOK
  <2>11. /\ st' \in StType /\ Account(st') /\ Marked(st') = {} /\ st'.fate = t.fate
         /\ st'.refused = t.refused /\ ToSet(st'.list) = {}
    BY <2>8, <2>10 DEF Swept
  <2>12. st'.list = <<>>
    <3>1. st'.list \in Seq(Rcpt)
      BY <2>11, ListType
    <3>2. st'.list # <<>> => 1 \in 1..Len(st'.list)
      BY <3>1
    <3>3. st'.list # <<>> => st'.list[1] \in ToSet(st'.list)
      BY <3>1, <3>2 DEF ToSet
    <3> QED BY <2>11, <3>3
  <2>13. Taken(st', srv)
    BY <2>6, <2>8, <2>11, TakenSame
  <2>14. Idle(st', srv, "done")
    BY <1>1, <1>2, <2>11, <2>13 DEF Idle
  <2>15. Fair(st') \/ it'.skipped
    <3>1. SUFFICES ASSUME ~it.skipped PROVE Fair(st')
      BY <1>3
    <3>2. st.list # <<>>
      BY <1>5 DEF Left
    <3>3. st.why \in {"2", "5"} => ToSet(st.list) \subseteq st.refused
      BY <1>0, <1>1, <1>2, <1>5, <3>1, <3>2 DEF Reasoned, LastHop, FinalNexthop, MoreIdle
    <3>4. s.why = "4" \/ Unmarked(s) \subseteq s.refused
      <4>1. s.why # "4" => st.why \in {"2", "5"}
        BY <2>1, <2>2, <2>4
      <4>2. Unmarked(st) \subseteq ToSet(st.list)
        BY DEF Unmarked
      <4> QED BY <2>5, <2>6, <3>3, <4>1, <4>2
    <3>5. Bulked(s, "yes", t)
      BY <2>4, <2>6, <2>7, <3>4, SiteFailOK DEF smtp_sess_fail
    <3>6. Fair(t)
      BY <2>6, <3>5 DEF Bulked, Failed
    <3> QED BY <2>11, <3>6 DEF Fair
  <2>16. Served(st', ses, NewLoop, srv, it', cache, "done")
    BY <1>0, <1>3, <2>12, <2>14, <2>15, DoneServed
  <2> QED BY <1>0, <1>2, <2>16
<1> QED BY <1>4, <1>5

-----------------------------------------------------------------------------
(***************************************************************************)
(* The inductive invariant, and what follows from it.                      *)
(***************************************************************************)
\* deliver_message() starts in the invariant.
LEMMA InitOK ==
    ASSUME Init
    PROVE  IInv
<1>0. /\ cfg \in Setups /\ ses = NoSession /\ lp = NewLoop /\ pc = "site"
      /\ st = [list |-> cfg.rcpts, keep |-> {}, drop |-> {}, why |-> "",
               final_server |-> FALSE, complete |-> FALSE, hop_status |-> FALSE,
               fate |-> NoFate, refused |-> {}, panic |-> FALSE]
      /\ srv = [wire |-> <<>>, mail |-> FALSE, rcpts |-> <<>>, accepted |-> <<>>, unseen |-> {}]
      /\ it = [site |-> 0, list |-> <<>>, todo |-> <<>>, next |-> <<>>, mode |-> "connect",
               addr_count |-> 0, sess_count |-> 0, retry_plain |-> FALSE, plain |-> FALSE,
               load |-> FALSE, store |-> FALSE, request_nexthop |-> FALSE,
               cache_used |-> {}, skipped |-> FALSE]
      /\ cache = [endp |-> cfg.cached, dest |-> cfg.dest, clean |-> TRUE]
  BY DEF Init
<1>1. /\ cfg.rcpts \in Seq(Rcpt) /\ cfg.dest \subseteq cfg.cached /\ cfg.cached \subseteq Addr
      /\ Len(cfg.sites) \in Nat
  BY <1>0, SetupFacts
<1>2. \A i, j \in 1..Len(cfg.rcpts) : cfg.rcpts[i] = cfg.rcpts[j] => i = j
  <2>1. IsInjective(cfg.rcpts)
    BY <1>0, SetupsAssumption
  <2>2. DOMAIN cfg.rcpts = 1..Len(cfg.rcpts)
    BY <1>1
  <2> QED BY <2>1, <2>2 DEF IsInjective
<1>3. <<>> \in Seq(Addr) /\ <<>> \in Seq(CommandType) /\ <<>> \in Seq(Rcpt)
  OBVIOUS
<1>4. NoFate \in [Fates -> SUBSET Rcpt] /\ \A x \in Fates : NoFate[x] = {}
  BY DEF NoFate, Fates
<1>5. st \in StType
  BY <1>0, <1>1, <1>4 DEF StType
<1>6. ses \in SesType /\ lp \in LoopType
  BY <1>0, NewLoopType DEF NoSession, SesType
<1>7. srv \in SrvType
  BY <1>0, <1>3 DEF SrvType
<1>8. it \in ItType
  BY <1>0, <1>3 DEF ItType
<1>9. Marked(st) = {} /\ Decided(st) = {}
  BY <1>0, <1>4 DEF Marked, Decided, Fates
<1>10. Account(st)
  <2>1. /\ ~st.panic /\ st.list = cfg.rcpts /\ st.keep = {} /\ st.drop = {} /\ ~st.hop_status
        /\ st.fate = NoFate
    BY <1>0
  <2> QED BY <2>1, <1>2, <1>4, <1>9 DEF Account
<1>11. Taken(st, srv)
  <2>1. srv.accepted = <<>> /\ srv.unseen = {} /\ st.fate["sent"] = {}
    BY <1>0, <1>4 DEF Fates
  <2>2. ToSet(srv.accepted) = {}
    BY <2>1 DEF ToSet
  <2> QED BY <2>1, <2>2 DEF Taken
<1>12. Fair(st)
  BY <1>0, <1>4 DEF Fair, Fates
<1>13. pc \in IdlePc /\ pc \notin LoopPc \cup {"cleanup"} /\ pc # "nexthop"
  BY <1>0 DEF IdlePc, LoopPc
<1>14. Idle(st, srv, pc)
  BY <1>0, <1>5, <1>7, <1>9, <1>10, <1>11, <1>13 DEF Idle
<1>15. Limits(it) /\ CountedIdle(it, pc)
  <2>1. it.site = 0 /\ it.addr_count = 0 /\ it.sess_count = 0 /\ it.todo = <<>>
    BY <1>0
  <2>2. cfg.mxaddr_limit \in Nat /\ cfg.mxsess_limit \in Nat /\ Len(cfg.sites) \in Nat
    BY <1>0, SetupFacts
  <2>3. Limits(it)
    BY <2>1, <2>2 DEF Limits, Within
  <2> QED BY <1>0, <2>1, <2>3 DEF CountedIdle
<1>16. CacheOK(cache)
  BY <1>0, <1>1 DEF CacheOK, CacheType
<1>17. st.why = ""
  BY <1>0
<1>18. Served(st, ses, NewLoop, srv, it, cache, pc)
  <2>1. pc # "site" => it.site > 0
    BY <1>0
  <2> QED BY <1>6, <1>8, <1>12, <1>13, <1>14, <1>15, <1>16, <1>17, <2>1, IdleServed
<1>19. ProtoInv
  BY <1>0, <1>5, <1>6, <1>7, <1>10, <1>11, <1>13 DEF ProtoInv, TalkType
<1> QED BY <1>0, <1>18, <1>19 DEF IInv, Served

\* Nothing changes.
LEMMA StutterOK ==
    ASSUME IInv, UNCHANGED vars
    PROVE  IInv'
<1>1. /\ cfg' = cfg /\ st' = st /\ ses' = ses /\ lp' = lp /\ srv' = srv /\ pc' = pc
      /\ it' = it /\ cache' = cache
  BY DEF vars
<1>2. Fine(st, ses, lp, srv, pc)
  BY DEF IInv, ProtoInv, TalkType, Talking, Fine
<1>3. Served(st', ses', lp', srv', it', cache', pc')
  BY <1>1, <1>2 DEF IInv, Served
<1>4. cfg \in Setups
  BY IInvFacts
<1> QED BY <1>1, <1>3, <1>4, ServedNext

\* One step of the client.
LEMMA NextOK ==
    ASSUME IInv, Next
    PROVE  IInv'
<1>1. cfg' = cfg /\ cfg \in Setups
  BY IInvFacts DEF Next
<1>2. Served(st', ses', lp', srv', it', cache', pc')
  <2>1. CASE Site
    BY <2>1, SiteOK
  <2>2. CASE smtp_reuse_nexthop
    BY <2>2, ReuseNexthopOK
  <2>3. CASE smtp_reuse_session
    BY <2>3, ReuseSessionOK
  <2>4. CASE SkipAddr
    BY <2>4, SkipAddrOK
  <2>5. CASE smtp_reuse_addr
    BY <2>5, ReuseAddrOK
  <2>6. CASE smtp_connect_addr
    BY <2>6, ConnectAddrOK
  <2>7. CASE smtp_helo
    BY <2>7, HeloOK
  <2>8. CASE smtp_helo_fails
    BY <2>8, HeloFailsOK
  <2>9. CASE smtp_xfer
    BY <2>9, XferOK
  <2>10. CASE SmtpLoop /\ UNCHANGED <<it, cache>>
    BY <2>10, LoopServed
  <2>11. CASE smtp_cleanup_session
    BY <2>11, CleanupSessionOK
  <2>12. CASE SiteDone
    BY <2>12, SiteDoneOK
  <2>13. CASE Finish
    BY <2>13, FinishOK
  <2> QED BY <2>1, <2>2, <2>3, <2>4, <2>5, <2>6, <2>7, <2>8, <2>9, <2>10, <2>11, <2>12, <2>13 DEF Next
<1> QED BY <1>1, <1>2, ServedNext

\* Whatever servers, caches and lookups do: the marks account for each recipient,
\* the wire is what sender and receiver think it is, the limits on servers and
\* sessions are kept, and the reason that will be given to those left over is about
\* each of them or will be replaced (smtp_connect_inet(), smtp_loop()).
THEOREM Inductive == Spec => []IInv
<1>1. Init => IInv
  BY InitOK
<1>2. IInv /\ [Next]_vars => IInv'
  BY NextOK, StutterOK
<1> QED BY <1>1, <1>2, PTL DEF Spec

\* Nobody is bounced without having been refused.
LEMMA FairAlways ==
    ASSUME IInv
    PROVE  Fair(st) \/ (pc = "done" /\ it.skipped)
<1>1. pc \in LoopPc => Fair(st)
  BY DEF IInv, ProtoInv
<1>2. pc \notin LoopPc => Fair(st) \/ (pc = "done" /\ it.skipped)
  BY IInvFacts DEF Reasoned
<1> QED BY <1>1, <1>2

\* No request has more recipients than there are.
LEMMA ListLength ==
    ASSUME NEW s \in StType, Account(s)
    PROVE  /\ Len(s.list) \in Nat /\ Cardinality(Rcpt) \in Nat
           /\ Len(s.list) <= Cardinality(Rcpt)
<1>1. /\ s.list \in Seq(Rcpt) /\ Len(s.list) \in Nat
      /\ \A i \in 1..Len(s.list) : s.list[i] \in Rcpt
  BY Listed
<1>2. PICK n \in Nat : n = Len(s.list)
  BY <1>1
<1>3. PICK f : f = [i \in 1..n |-> s.list[i]]
  OBVIOUS
<1>4. f \in [1..n -> Rcpt]
  BY <1>1, <1>2, <1>3
<1>5. \A i, j \in 1..n : f[i] = f[j] => i = j
  BY <1>2, <1>3 DEF Account
<1>6. IsFiniteSet(Rcpt) /\ Cardinality(Rcpt) \in Nat
  BY SetupsAssumption, FS_CardinalityType
<1>7. f \in Injection(1..n, Rcpt)
  BY <1>4, <1>5 DEF Injection, IsInjective
<1>8. Cardinality(1..n) <= Cardinality(Rcpt)
  BY <1>6, <1>7, FS_Injection
<1>9. Cardinality(1..n) = n
  BY FS_Interval
<1> QED BY <1>2, <1>6, <1>8, <1>9

\* The invariant has the types and the limits,
LEMMA TypesHold ==
    ASSUME IInv
    PROVE  TypeOK
<1>1. /\ st \in StType /\ ses \in SesType /\ lp \in LoopType /\ it \in ItType
      /\ Account(st) /\ Counted(it, ses, pc) /\ CacheOK(cache) /\ MarksOK(st, ses, lp, srv, it, pc)
  BY IInvFacts
<1>2. ~st.panic
  BY <1>1 DEF Account
<1>3. ToSet(st.list) \cup Marked(st) \cup st.refused \subseteq Rcpt
  <2>1. ToSet(st.list) \subseteq Rcpt
    BY <1>1, ListType
  <2>2. Marked(st) \cup st.refused \subseteq Rcpt
    BY <1>1 DEF StType, Marked
  <2> QED BY <2>1, <2>2
<1>4. st.fate \in [{"sent", "deferred", "bounced"} -> SUBSET Rcpt] /\ st.why \in {"", "2", "4", "5"}
  BY <1>1 DEF StType, Fates
<1>5. ses.addr \in Addr \cup {NoAddr} /\ ses.expire \in {"cached", "no", "throttled"}
  BY <1>1 DEF SesType
<1>6. {lp.send_state, lp.recv_state, lp.next_state} \subseteq ToSet(States)
  <2>1. /\ lp.send_state \in StateName /\ lp.recv_state \in StateName /\ lp.next_state \in StateName
    BY <1>1 DEF LoopType
  <2>2. StateName \subseteq ToSet(States)
    <3>1. \A k \in 1..8 : States[k] \in ToSet(States)
      <4>1. DOMAIN States = 1..8
        BY DEF States
      <4> QED BY <4>1 DEF ToSet
    <3>2. /\ States[1] = "MAIL" /\ States[2] = "RCPT" /\ States[3] = "DATA" /\ States[4] = "DOT"
          /\ States[5] = "ABORT" /\ States[6] = "RSET" /\ States[7] = "QUIT" /\ States[8] = "LAST"
      BY DEF States
    <3>3. /\ States[1] \in ToSet(States) /\ States[2] \in ToSet(States) /\ States[3] \in ToSet(States)
          /\ States[4] \in ToSet(States) /\ States[5] \in ToSet(States) /\ States[6] \in ToSet(States)
          /\ States[7] \in ToSet(States) /\ States[8] \in ToSet(States)
      BY <3>1
    <3> HIDE DEF States
    <3> QED BY <3>2, <3>3 DEF StateName
  <2> QED BY <2>1, <2>2
<1>7. Cardinality(Rcpt) \in Nat /\ Len(st.list) \in Nat /\ Len(st.list) <= Cardinality(Rcpt)
  BY <1>1, ListLength
<1>8. /\ {lp.send_rcpt, lp.recv_rcpt, lp.next_rcpt} \subseteq 0..Cardinality(Rcpt)
      /\ lp.nrcpt \in -1..Cardinality(Rcpt)
  <2>1. lp.send_rcpt \in Nat /\ lp.recv_rcpt \in Nat /\ lp.next_rcpt \in Nat /\ lp.nrcpt \in Int
    BY <1>1 DEF LoopType
  <2>2. CASE pc \in LoopPc
    <3>1. /\ Receiving(lp, Len(st.list))
          /\ lp.next_rcpt <= Len(st.list) /\ lp.send_rcpt <= Len(st.list)
      BY <2>2 DEF IInv, ProtoInv, Talking, Talks, Receiver
    <3>2. lp.recv_rcpt <= Len(st.list) /\ lp.nrcpt \in -1..Len(st.list)
      BY <3>1 DEF Receiving
    <3> QED BY <1>7, <2>1, <3>1, <3>2
  <2>3. CASE pc \notin LoopPc
    <3>1. lp.send_rcpt = 0 /\ lp.recv_rcpt = 0 /\ lp.next_rcpt = 0 /\ lp.nrcpt = 0
      BY <1>1, <2>3 DEF MarksOK, NewLoop
    <3> QED BY <1>7, <3>1
  <2> QED BY <2>2, <2>3
<1>9. Within(it.addr_count, cfg.mxaddr_limit) /\ Within(it.sess_count, cfg.mxsess_limit)
  BY <1>1 DEF Counted, Limits
<1>10. cache.dest \subseteq cache.endp
  BY <1>1 DEF CacheOK
<1> QED BY <1>2, <1>3, <1>4, <1>5, <1>6, <1>8, <1>9, <1>10 DEF TypeOK

\* ... the one outcome,
LEMMA OutcomesOnce ==
    ASSUME IInv
    PROVE  ExactlyOnce
<1>1. st \in StType /\ srv \in SrvType /\ Account(st) /\ Taken(st, srv)
      /\ MarksOK(st, ses, lp, srv, it, pc)
  BY IInvFacts
<1>2. DOMAIN st.fate = Fates
  BY <1>1 DEF StType
<1>3. \A x, y \in DOMAIN st.fate : x # y => st.fate[x] \cap st.fate[y] = {}
  BY <1>1, <1>2 DEF Account
<1>4. pc = "done" => UNION {st.fate[x] : x \in DOMAIN st.fate} = ToSet(cfg.rcpts)
  <2>1. UNION {st.fate[x] : x \in Fates} = Decided(st)
    BY DEF Fates, Decided
  <2>2. pc = "done" => ToSet(st.list) = {}
    <3>1. pc = "done" => st.list = <<>>
      BY <1>1 DEF MarksOK
    <3> QED BY <3>1 DEF ToSet
  <2> QED BY <1>1, <1>2, <2>1, <2>2 DEF Account
<1>5. ASSUME NEW r \in Rcpt
      PROVE  Times(r) = IF r \in st.fate.sent /\ Probe("no") THEN 1 ELSE 0
  <2> DEFINE I == {i \in DOMAIN srv.accepted : srv.accepted[i] = r}
  <2>1. /\ srv.accepted \in Seq(Rcpt) /\ DOMAIN srv.accepted = 1..Len(srv.accepted)
        /\ ToSet(srv.accepted) = {srv.accepted[i] : i \in DOMAIN srv.accepted}
    BY <1>1 DEF SrvType, ToSet
  <2>2. \A i, j \in DOMAIN srv.accepted : srv.accepted[i] = srv.accepted[j] => i = j
    BY <1>1, <2>1 DEF Taken
  <2>3. r \in ToSet(srv.accepted) <=> r \in st.fate.sent /\ Probe("no")
    BY <1>1 DEF Taken
  <2>4. CASE r \in ToSet(srv.accepted)
    <3>1. PICK k \in DOMAIN srv.accepted : srv.accepted[k] = r
      BY <2>1, <2>4
    <3>2. I = {k}
      BY <2>2, <3>1
    <3>3. Cardinality({k}) = 1
      BY FS_Singleton
    <3> QED BY <2>3, <2>4, <3>2, <3>3 DEF Times
  <2>5. CASE r \notin ToSet(srv.accepted)
    <3>1. I = {}
      BY <2>1, <2>5
    <3>2. Cardinality({}) = 0
      BY FS_EmptySet
    <3> QED BY <2>3, <2>5, <3>1, <3>2 DEF Times
  <2> QED BY <2>4, <2>5
<1>6. ~Probe("no") => srv.unseen = {}
  BY <1>1 DEF Taken
<1>7. ~(st.hop_status /\ st.complete)
  BY <1>1 DEF Account
<1> QED BY <1>3, <1>4, <1>5, <1>6, <1>7 DEF ExactlyOnce

\* What the receiver waits for when no reply is under way.
LEMMA Silence ==
    ASSUME NEW s \in StType, NEW l \in LoopType, NEW se, NEW v \in SrvType,
           Talks(l, s, se, v, "recv"), SENDER_IS_AHEAD(l), v.wire = <<>>
    PROVE  IF l.except THEN l.recv_state = "DOT"
           ELSE l.recv_state = "QUIT" /\ ~cfg.skip_quit_resp
<1>1. /\ Receiver(l, s) /\ Sends(l, s.list)
      /\ Asking(l, s.list, v.wire) \/ Aborting(l, v.wire) \/ Closing(l, s.list, v.wire, se)
  BY DEF Talks
<1>2. v.wire \in Seq(CommandType) /\ Len(v.wire) = 0
  BY DEF SrvType
<1>3. ~Asking(l, s.list, v.wire)
  BY <1>1, <1>2, AheadAsking
<1>4. ~Aborting(l, v.wire)
  BY Ranks DEF Aborting, SENDER_IS_AHEAD
<1>5. Ending(l, s.list, se) /\ Owed(l, s.list, v.wire, se)
  BY <1>1, <1>3, <1>4 DEF Closing
<1>6. /\ l.recv_state \in {"MAIL", "RCPT", "DOT", "ABORT"} =>
            Count(l, s.list) \in Nat /\ Count(l, s.list) > 0
      /\ l.recv_state \in {"QUIT", "LAST"} => Count(l, s.list) = 0
      /\ l.recv_state \in {"MAIL", "RCPT", "DOT", "ABORT", "QUIT", "LAST"}
  BY <1>1, <1>5, Counts
<1>7. l.recv_state # "LAST"
  <2>1. SUFFICES ASSUME l.recv_state = "LAST" PROVE FALSE
    OBVIOUS
  <2>2. l.recv_rcpt = l.send_rcpt /\ l.send_state \in {"QUIT", "LAST"}
    BY <1>5, <2>1 DEF Ending
  <2>3. CASE l.send_state = "QUIT"
    BY <2>1, <2>2, <2>3, Ranks DEF SENDER_IS_AHEAD
  <2>4. CASE l.send_state = "LAST"
    BY <2>1, <2>2, <2>4, Ranks DEF SENDER_IS_AHEAD
  <2> QED BY <2>2, <2>3, <2>4
<1>8. CASE Len(v.wire) = Count(l, s.list)
  <2>1. l.recv_state = "QUIT"
    BY <1>2, <1>6, <1>7, <1>8
  <2>2. ~cfg.skip_quit_resp /\ ~l.except
    BY <1>5, <2>1 DEF Ending
  <2> QED BY <2>1, <2>2
<1>9. CASE Len(v.wire) = Count(l, s.list) + 1
  <2>1. Count(l, s.list) \in Nat
    BY <1>6
  <2> QED BY <1>2, <1>9, <2>1
<1>10. CASE l.except /\ l.recv_state = "DOT"
  BY <1>10
<1> QED BY <1>5, <1>8, <1>9, <1>10 DEF Owed

\* ... and the match of replies and commands.
LEMMA RepliesHeard ==
    ASSUME IInv
    PROVE  RepliesMatch
<1>1. st \in StType /\ lp \in LoopType /\ srv \in SrvType /\ CacheOK(cache)
  BY IInvFacts
<1>2. cache.clean
  BY <1>1 DEF CacheOK
<1>3. ASSUME pc = "recv", SENDER_IS_AHEAD(lp)
      PROVE  IF srv.wire # <<>> THEN Matches(Head(srv.wire))
             ELSE IF lp.except THEN lp.recv_state = "DOT"
             ELSE lp.recv_state = "QUIT" /\ ~cfg.skip_quit_resp
  <2>1. Talks(lp, st, ses, srv, "recv")
    BY <1>3 DEF IInv, ProtoInv, LoopPc, Talking
  <2>2. CASE srv.wire = <<>>
    <3>1. IF lp.except THEN lp.recv_state = "DOT"
          ELSE lp.recv_state = "QUIT" /\ ~cfg.skip_quit_resp
      BY <1>1, <1>3, <2>1, <2>2, Silence
    <3> QED BY <2>2, <3>1
  <2>3. CASE srv.wire # <<>>
    <3>1. /\ Receiver(lp, st) /\ Sends(lp, st.list)
          /\ Asking(lp, st.list, srv.wire) \/ Aborting(lp, srv.wire) \/ Closing(lp, st.list, srv.wire, ses)
      BY <2>1 DEF Talks
    <3>2. srv.wire \in Seq(CommandType)
      BY <1>1 DEF SrvType
    <3>3. Hears(lp, st, srv.wire)
      BY <1>1, <1>3, <2>3, <3>1, <3>2, Hearing
    <3>4. PICK c : c = Head(srv.wire)
      OBVIOUS
    <3>5. Matches(c)
      BY <3>3, <3>4 DEF Hears, Matches
    <3> QED BY <2>3, <3>4, <3>5
  <2> QED BY <2>2, <2>3
<1> QED BY <1>2, <1>3 DEF RepliesMatch

-----------------------------------------------------------------------------
(***************************************************************************)
(* The theorems.                                                           *)
(***************************************************************************)
\* The state of the request, of the session and of smtp_loop() is what the
\* types say, the limits on servers and sessions are kept, and none of the
\* consistency checks of smtp_rcpt_cleanup(), smtp_rcpt_fail(), smtp_xfer()
\* and smtp_connect() fails, whatever servers reply and whenever they vanish.
THEOREM TypeCorrect == Spec => []TypeOK
<1>1. IInv => TypeOK
  BY TypesHold
<1> QED
  BY <1>1, Inductive, PTL

\* Each recipient has one outcome in the end, across servers, cached
\* connections and plaintext retries; it is logged as sent if and only if a
\* server took responsibility and said so, and then it was asked only once
\* (the marks of smtp_rcpt.c, smtp_loop(), smtp_connect()).
THEOREM OneOutcome == Spec => []ExactlyOnce
<1>1. IInv => ExactlyOnce
  BY OutcomesOnce
<1> QED
  BY <1>1, Inductive, PTL

\* The receiver of smtp_loop() takes every reply for the reply to the command
\* that it answers, however far the sender is ahead and whatever changes its
\* plan, and leaves no reply behind on a connection that is cached.
THEOREM RepliesAreMatched == Spec => []RepliesMatch
<1>1. IInv => RepliesMatch
  BY RepliesHeard
<1> QED
  BY <1>1, Inductive, PTL

\* What is returned as undeliverable was refused for good, by a reply about
\* this recipient or about the whole message (smtp_rcpt_fail(),
\* smtp_bulk_fail(), smtp_connect()).
THEOREM BouncesAreJust == Spec => []BounceIsAboutMe
<1>1. IInv => BounceIsAboutMe
  BY FairAlways DEF Fair, BounceIsAboutMe
<1> QED
  BY <1>1, Inductive, PTL

=============================================================================
