---------------------------- MODULE MCSmtpClient -----------------------------
EXTENDS SmtpClient

CONSTANTS r1, r2, r3, a1, a2

\* Two recipients, one server, no cache, no TLS.
Plainest ==
    [smtp_mode |-> TRUE, skip_quit_resp |-> TRUE, pipelining |-> TRUE, tls |-> FALSE,
     load |-> FALSE, store |-> FALSE, vrfy |-> "no", rcpts |-> <<r1, r2>>,
     sites |-> <<<<a1>>>>, fallback |-> FALSE, relayhost |-> FALSE, best |-> {a1},
     skip |-> {}, cached |-> {}, dest |-> {}, mxaddr_limit |-> 5, mxsess_limit |-> 2]

Backup == [Plainest EXCEPT !.sites = <<<<a1, a2>>>>]
Caching == [Backup EXCEPT !.load = TRUE, !.store = TRUE, !.cached = {a1, a2}]

\* The variations: where the mail can go, what is in the cache, how replies
\* and commands overlap, and what kind of request it is.
MCSetups ==
    { [Backup EXCEPT !.pipelining = p, !.smtp_mode = m] : p, m \in BOOLEAN }
      \cup { [Plainest EXCEPT !.tls = TRUE, !.sites = s] : s \in {<<<<a1>>>>, <<<<a1, a2>>>>} }
      \cup { [Plainest EXCEPT !.sites = <<<<a1>>, <<a2>>>>, !.fallback = f] : f \in BOOLEAN }
      \cup { [Plainest EXCEPT !.vrfy = v, !.store = c] : v \in {"RCPT", "DATA"}, c \in BOOLEAN }
      \cup { [Caching EXCEPT !.dest = d, !.best = b, !.mxsess_limit = n] :
               d \in {{}, {a2}}, b \in {{a1}, {a1, a2}}, n \in {1, 2} }
      \cup { [Caching EXCEPT !.sites = <<<<a1>>, <<a1>>>>, !.cached = {a1}],
             [Caching EXCEPT !.smtp_mode = FALSE, !.pipelining = FALSE],
             [Plainest EXCEPT !.skip_quit_resp = FALSE, !.store = TRUE],
             [Plainest EXCEPT !.rcpts = <<r1, r2, r3>>],
             [Plainest EXCEPT !.rcpts = <<r1, r2, r3>>, !.smtp_mode = FALSE],
             [Caching EXCEPT !.best = {a1}, !.mxaddr_limit = 0, !.mxsess_limit = 0],
             [Backup EXCEPT !.skip = {a2}], [Backup EXCEPT !.mxaddr_limit = 1],
             [Plainest EXCEPT !.relayhost = TRUE] }

==============================================================================
