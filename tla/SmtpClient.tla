----------------------------- MODULE SmtpClient ------------------------------
(***************************************************************************)
(* One delivery request in the SMTP or LMTP client: which servers it tries *)
(* (smtp_connect_inet()), which connections it takes from the cache and    *)
(* leaves there (smtp_reuse_session(), smtp_cleanup_session()), and when   *)
(* it gives up.  The conversation with a server is in SmtpProto.           *)
(***************************************************************************)
EXTENDS SmtpProto, Lists

VARIABLES
    it,      \* local variables of smtp_connect_inet(), smtp_reuse_session()
    cache    \* connections in the connection cache

vars == <<cfg, st, ses, lp, srv, pc, it, cache>>

NoFate == [sent |-> {}, deferred |-> {}, bounced |-> {}]

\* deliver_message().
Init ==
    /\ cfg \in Setups
    /\ st = [list |-> cfg.rcpts, keep |-> {}, drop |-> {}, why |-> "",
             final_server |-> FALSE, complete |-> FALSE, hop_status |-> FALSE,
             fate |-> NoFate, refused |-> {}, panic |-> FALSE]
    /\ ses = NoSession /\ lp = NewLoop
    /\ srv = [wire |-> <<>>, mail |-> FALSE, rcpts |-> <<>>, accepted |-> <<>>, unseen |-> {}]
    /\ it = [site |-> 0, list |-> <<>>, todo |-> <<>>, next |-> <<>>, mode |-> "connect",
             addr_count |-> 0, sess_count |-> 0, retry_plain |-> FALSE, plain |-> FALSE,
             load |-> FALSE, store |-> FALSE, request_nexthop |-> FALSE,
             cache_used |-> {}, skipped |-> FALSE]
    /\ cache = [endp |-> cfg.cached, dest |-> cfg.dest, clean |-> TRUE]
    /\ pc = "site"

Left == Len(st.list)
FinalNexthop == it.site = Len(cfg.sites)

Final(s, next) == [s EXCEPT !.final_server = @ \/ (FinalNexthop /\ next = <<>>)]

------------------------------------------------------------------------------
(***************************************************************************)
(* A next-hop destination.                                                 *)
(***************************************************************************)
Looked_mutant(s, why) ==
    IF why = "" THEN s ELSE FillDsn(s, ToSet(s.list), IF why = "4" THEN "soft" ELSE "hard")

\* The address lookup resets the reason, and says why it finds nothing.
Looked(s, why) ==
    IF why = "" THEN [s EXCEPT !.why = ""]
    ELSE FillDsn(s, ToSet(s.list), IF why = "4" THEN "soft" ELSE "hard")

\* Without the servers whose cached connections were used before.
smtp_scrub_addr_list(addrs) == Without(addrs, it.cache_used)

\* smtp_cache_policy() for the first next hop, and smtp_scrub_addr_list().
NextSite(addrs) ==
    LET first == it.site = 0 /\ addrs # <<>>
        load == IF first THEN cfg.load ELSE it.load
        store == IF first THEN cfg.store ELSE it.store
        useful == IF load THEN smtp_scrub_addr_list(addrs) ELSE addrs
    IN  /\ it' = [it EXCEPT !.site = @ + 1, !.list = useful, !.todo = useful,
                            !.addr_count = 0, !.sess_count = 0,
                            !.load = load, !.store = store, !.skipped = FALSE,
                            !.request_nexthop = @ \/ (first /\ (load \/ store))]
        /\ pc' = IF load /\ addrs # <<>> THEN "nexthop" ELSE "connect"

Site ==
    /\ pc = "site" /\ Left > 0 /\ ~FinalNexthop
    /\ \E why \in {"", "4", "5"} :
          /\ st' = Looked(st, why)
          /\ NextSite(IF why = "" THEN cfg.sites[it.site + 1] ELSE <<>>)
    /\ UNCHANGED <<ses, lp, srv, cache>>

------------------------------------------------------------------------------
(***************************************************************************)
(* Cached connections.  smtp_reuse_common() tests them with RSET.          *)
(***************************************************************************)
smtp_update_addr_list(list, a, count) ==
    IF count \in {cfg.mxsess_limit, cfg.mxaddr_limit} THEN <<>>
    ELSE RemoveFirst(list, a)

CachedSession(a) == [NoSession EXCEPT !.addr = a, !.expire = "cached", !.xfer = TRUE]

TakeFromCache(a) ==
    cache' = [cache EXCEPT !.endp = @ \ {a}, !.dest = @ \ {a}]

\* The session works; smtp_xfer() follows.
Reused(a, s, i) ==
    /\ ses' = CachedSession(a)
    /\ st' = s
    /\ it' = [i EXCEPT !.cache_used = @ \cup {a}, !.skipped = FALSE]
    /\ pc' = "xfer"

smtp_reuse_nexthop ==
    /\ pc = "nexthop"
    /\ IF it.list = <<>> \/ ~it.request_nexthop \/ cache.dest = {}
       THEN pc' = "reuse" /\ UNCHANGED <<st, ses, it, cache>>
       ELSE \E a \in cache.dest :
               /\ TakeFromCache(a)
               /\ \/ pc' = "reuse" /\ UNCHANGED <<st, ses, it>>
                  \/ LET rest == smtp_update_addr_list(it.list, a, 1)
                     IN  Reused(a, Final(st, rest),
                                [it EXCEPT !.mode = "nexthop", !.sess_count = 1,
                                           !.list = rest, !.todo = rest])
    /\ UNCHANGED <<lp, srv>>

\* The addresses with the best preference, while they last.
Reusable == Left > 0 /\ it.todo # <<>> /\ Head(it.todo) \in cfg.best

smtp_reuse_session ==
    /\ pc = "reuse"
    /\ IF ~Reusable
       THEN /\ pc' = "connect"
            /\ it' = [it EXCEPT !.todo = it.list, !.addr_count = it.sess_count]
            /\ UNCHANGED <<st, ses, cache>>
       ELSE IF Head(it.todo) \notin cache.endp
       THEN it' = [it EXCEPT !.todo = Tail(@)] /\ UNCHANGED <<st, ses, cache, pc>>
       ELSE LET a == Head(it.todo)
                rest == smtp_update_addr_list(it.list, a, it.sess_count + 1)
                next == IF rest = <<>> THEN <<>> ELSE Tail(it.todo)
            IN /\ TakeFromCache(a)
               /\ \/ it' = [it EXCEPT !.todo = Tail(@)] /\ UNCHANGED <<st, ses, pc>>
                  \/ Reused(a, Final(st, next),
                            [it EXCEPT !.mode = "reuse", !.sess_count = @ + 1,
                                       !.list = rest, !.next = next])
    /\ UNCHANGED <<lp, srv>>

------------------------------------------------------------------------------
(***************************************************************************)
(* New connections.                                                        *)
(***************************************************************************)
NextAddr ==
    IF it.addr_count + 1 = cfg.mxaddr_limit THEN <<>> ELSE Tail(it.todo)

Trying == pc = "connect" /\ Left > 0 /\ it.todo # <<>>

\* smtp_tls_authorize_mx_hostname() does not allow this server.
SkipAddr ==
    /\ Trying /\ Head(it.todo) \in cfg.skip
    /\ it' = [it EXCEPT !.addr_count = @ + 1, !.todo = NextAddr, !.skipped = TRUE]
    /\ UNCHANGED <<st, ses, lp, srv, cache, pc>>

\* Backup servers: smtp_reuse_session() did not look for these.
ViaCache(a) == it.load /\ a \notin cfg.best /\ a \in cache.endp

\* After sess_count was incremented, the last server may be known.
CountSession(i) ==
    [i EXCEPT !.sess_count = @ + 1,
              !.next = IF i.sess_count + 1 = cfg.mxsess_limit THEN <<>> ELSE @]

smtp_reuse_addr ==
    /\ Trying /\ Head(it.todo) \notin cfg.skip /\ ViaCache(Head(it.todo))
    /\ TakeFromCache(Head(it.todo))
    /\ \/ UNCHANGED <<st, ses, it, pc>>
       \/ LET i == CountSession([it EXCEPT !.mode = "connect", !.addr_count = @ + 1,
                                   !.next = NextAddr, !.retry_plain = FALSE])
          IN  Reused(Head(it.todo), Final(st, i.next), i)
    /\ UNCHANGED <<lp, srv>>

Plain_mutant(i) == FALSE

\* The TLS level of the next session: a failed one is repeated without TLS.
Plain(i) == i.retry_plain

smtp_connect_addr ==
    /\ Trying /\ Head(it.todo) \notin cfg.skip /\ ~ViaCache(Head(it.todo))
    /\ \/ /\ st' = [st EXCEPT !.why = "4"]
          /\ it' = [it EXCEPT !.addr_count = @ + 1, !.todo = NextAddr,
                              !.retry_plain = FALSE, !.skipped = FALSE]
          /\ UNCHANGED <<ses, pc>>
       \/ /\ st' = Final([st EXCEPT !.why = ""], NextAddr)
          /\ it' = [it EXCEPT !.mode = "connect", !.addr_count = @ + 1, !.next = NextAddr,
                              !.plain = Plain(it), !.retry_plain = FALSE, !.skipped = FALSE]
          /\ ses' = [NoSession EXCEPT !.addr = Head(it.todo),
                        !.expire = IF it.store THEN "cached" ELSE "no"]
          /\ pc' = "helo"
    /\ UNCHANGED <<lp, srv, cache>>

TlsLevel == IF cfg.tls /\ ~it.plain THEN BOOLEAN ELSE {FALSE}

smtp_helo ==
    /\ pc = "helo"
    /\ \E tls \in TlsLevel : ses' = [ses EXCEPT !.tls = tls, !.xfer = TRUE]
    /\ it' = CountSession(it)
    /\ st' = Final(st, CountSession(it).next)
    /\ pc' = "xfer"
    /\ UNCHANGED <<lp, srv, cache>>

\* smtp_quit() on a session that will be closed; an unexpected end forgets
\* that the session was throttled.
Quit(se) ==
    {IF Cached(se) THEN DontCache(se) ELSE se}
        \cup (IF cfg.skip_quit_resp THEN {} ELSE {DontCache(se)})

HeloFailed(s, se) == st' = s /\ ses' = se /\ pc' = "cleanup"

\* The greeting, HELO, STARTTLS or AUTH fails; the server does not do what
\* the message needs; the connection is lost; the TLS handshake fails.
smtp_helo_fails ==
    /\ pc = "helo"
    /\ \/ \E reply \in Refusal :
             \E se \in Quit([ses EXCEPT !.expire = "throttled"]) :
                HeloFailed(smtp_site_fail(st, reply), se)
       \/ \E se \in Quit(DontCache(ses)) :
             HeloFailed(smtp_bulk_fail(FillDsn(st, Unmarked(st), "hard"), FALSE, TRUE), se)
       \/ \E tls \in TlsLevel :
             HeloFailed(smtp_stream_except(st, [ses EXCEPT !.tls = tls]),
                        Broken(st, [ses EXCEPT !.tls = tls]))
       \/ /\ TRUE \in TlsLevel
          /\ HeloFailed(smtp_bulk_fail([st EXCEPT !.why = "4", !.final_server = FALSE],
                                       FALSE, FALSE),
                        [ses EXCEPT !.forbidden = TRUE, !.retry_plain = TRUE])
    /\ UNCHANGED <<lp, srv, it, cache>>

\* The message may be larger than the server's limit.
smtp_xfer ==
    /\ pc = "xfer"
    /\ LET s == [st EXCEPT !.panic = @ \/ Left = 0 \/ Marked(st) # {}]
       IN  \/ st' = [smtp_mesg_fail(s, "hard") EXCEPT !.complete = TRUE] /\ pc' = "cleanup"
           \/ st' = s /\ pc' = "send"
    /\ UNCHANGED <<ses, lp, srv, it, cache>>

------------------------------------------------------------------------------
(***************************************************************************)
(* The end of a session, and of the request.                               *)
(***************************************************************************)

\* Where the caller of smtp_xfer() goes on.
AfterSession(i) ==
    CASE i.mode = "nexthop" -> i
      [] i.mode = "connect" /\ ses.retry_plain ->
            [i EXCEPT !.retry_plain = TRUE, !.addr_count = @ - 1,
                      !.sess_count = IF ses.xfer THEN @ - 1 ELSE @]
      [] OTHER -> [i EXCEPT !.todo = i.next]

smtp_cleanup_session ==
    /\ pc = "cleanup"
    /\ \E se \in MayExpire(ses) :
          cache' = IF Cached(se) /\ ~se.broken
                   THEN [cache EXCEPT !.endp = @ \cup {se.addr},
                            !.dest = IF it.request_nexthop THEN @ \cup {se.addr} ELSE @,
                            !.clean = @ /\ srv.wire = <<>>]
                   ELSE cache
    /\ it' = AfterSession([it EXCEPT !.request_nexthop = @ /\ Throttled(ses)])
    /\ st' \in smtp_rcpt_cleanup(st)
    /\ ses' = NoSession
    /\ srv' = Fresh(srv)
    /\ pc' = IF it.mode = "connect" THEN "connect" ELSE "reuse"
    /\ UNCHANGED lp

SiteDone ==
    /\ pc = "connect" /\ ~Trying
    /\ pc' = "site"
    /\ UNCHANGED <<st, ses, lp, srv, it, cache>>

\* A permanent error of a fallback relay or relay host is taken for a local
\* configuration problem.
FinalWhy ==
    IF st.why = "" \/ (st.why # "4" /\ ((cfg.fallback /\ FinalNexthop)
                                          \/ (cfg.smtp_mode /\ cfg.relayhost)))
    THEN "4" ELSE st.why

\* The end of smtp_connect().
Finish ==
    /\ pc = "site" /\ (Left = 0 \/ FinalNexthop)
    /\ st' \in IF Left = 0 THEN {st}
               ELSE smtp_rcpt_cleanup(smtp_sess_fail(
                       [st EXCEPT !.why = FinalWhy, !.final_server = TRUE]))
    /\ it' = [it EXCEPT !.request_nexthop = FALSE]
    /\ pc' = "done"
    /\ UNCHANGED <<ses, lp, srv, cache>>

Next ==
    /\ \/ Site \/ smtp_reuse_nexthop \/ smtp_reuse_session
       \/ SkipAddr \/ smtp_reuse_addr \/ smtp_connect_addr
       \/ smtp_helo \/ smtp_helo_fails \/ smtp_xfer
       \/ SmtpLoop /\ UNCHANGED <<it, cache>>
       \/ smtp_cleanup_session \/ SiteDone \/ Finish
    /\ UNCHANGED cfg

Spec == Init /\ [][Next]_vars

\* The program runs; servers answer, or timeouts end the wait.
FairSpec == Spec /\ WF_vars(Next)

------------------------------------------------------------------------------
\* A limit of zero is no limit.
Within(n, limit) == n \in Nat /\ (limit > 0 => n <= limit)

\* Type invariant.  None of the consistency checks of smtp_rcpt_cleanup(),
\* smtp_rcpt_fail(), smtp_xfer() and smtp_connect() fails.
TypeOK ==
    /\ ~st.panic
    /\ ToSet(st.list) \cup Marked(st) \cup st.refused \subseteq Rcpt
    /\ st.fate \in [{"sent", "deferred", "bounced"} -> SUBSET Rcpt]
    /\ st.why \in {"", "2", "4", "5"}
    /\ ses.addr \in Addr \cup {NoAddr} /\ ses.expire \in {"cached", "no", "throttled"}
    /\ {lp.send_state, lp.recv_state, lp.next_state} \subseteq ToSet(States)
    /\ {lp.send_rcpt, lp.recv_rcpt, lp.next_rcpt} \subseteq 0..Cardinality(Rcpt)
    /\ lp.nrcpt \in -1..Cardinality(Rcpt)
    /\ Within(it.addr_count, cfg.mxaddr_limit) /\ Within(it.sess_count, cfg.mxsess_limit)
    /\ cache.dest \subseteq cache.endp

Times(r) == Cardinality({i \in DOMAIN srv.accepted : srv.accepted[i] = r})

\* Each recipient has one outcome in the end; it is logged as sent if and only
\* if a server took responsibility and said so, and then no other server was
\* asked (the marks of smtp_rcpt.c).  A message is delivered twice only if a
\* reply to end-of-data was lost.  A probe delivers nothing, and is never
\* taken for a delivery (DEL_REQ_TRACE_ONLY).  The destination is not called
\* dead after a complete session.
ExactlyOnce ==
    /\ \A x, y \in DOMAIN st.fate : x # y => st.fate[x] \cap st.fate[y] = {}
    /\ pc = "done" => UNION {st.fate[x] : x \in DOMAIN st.fate} = ToSet(cfg.rcpts)
    /\ \A r \in Rcpt : Times(r) = IF r \in st.fate.sent /\ Probe("no") THEN 1 ELSE 0
    /\ ~Probe("no") => srv.unseen = {}
    /\ ~(st.hop_status /\ st.complete)

Matches(c) ==
    /\ c.cmd = lp.recv_state
    /\ c.cmd = "RCPT" => c.rcpt = st.list[lp.recv_rcpt + 1]
    /\ c.cmd = "DOT" /\ ~cfg.smtp_mode => c.rcpt = st.list[lp.survivors[lp.recv_done + 1]]

\* Whatever the server refuses, and however far the sender is ahead, the next
\* reply is taken for the reply to the command that it answers, and to the
\* recipient that it is about; there is no wait for a reply that will not
\* come, and a connection goes to the cache without replies under way
\* (smtp_loop()).  The exception: with smtp_skip_quit_response = no, a reply
\* to end-of-data that disables caching makes the receiver wait for the reply
\* to a QUIT that was not sent.
RepliesMatch ==
    /\ pc = "recv" /\ SENDER_IS_AHEAD(lp) =>
          IF srv.wire # <<>> THEN Matches(Head(srv.wire))
          ELSE IF lp.except THEN lp.recv_state = "DOT"
          ELSE lp.recv_state = "QUIT" /\ ~cfg.skip_quit_resp
    /\ cache.clean

\* A recipient is returned as undeliverable only if this recipient, or the
\* message as a whole, was refused for good: never because of what was said
\* about another recipient, and a temporary error leads to the next server or
\* to another attempt (smtp_rcpt_fail(), smtp_bulk_fail(), smtp_connect()).
\* The exception: when the last server of all is skipped, the reason is that
\* of the last one that was not.
BounceIsAboutMe ==
    st.fate.bounced \subseteq st.refused \/ (pc = "done" /\ it.skipped)

\* The request ends: plaintext retries, cached connections and backup servers
\* do not go on for ever.
Terminates == <>(pc = "done")

==============================================================================
