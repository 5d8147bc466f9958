----------------------------- MODULE MCQmgrJob ------------------------------
(***************************************************************************)
(* QmgrJob for TLC: an ordinary transport with two sites, and retry(8).    *)
(***************************************************************************)
EXTENDS QmgrJob

CONSTANTS smtp, retry, a, b, r, m1, m2, m3

MCMessage == {m1, m2, m3}
MCTransport == {smtp, retry}
MCQueue == {a, b, r}
MCTransportOf == (a :> smtp) @@ (b :> smtp) @@ (r :> retry)
MCQueueOrder == <<a, b, r>>

MCMail == (m1 :> {<<a, b, a, a>>}) @@ (m2 :> {<<a, b>>, <<a, a>>}) @@ (m3 :> {<<a>>})

=============================================================================
