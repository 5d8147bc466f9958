---------------------------- MODULE MCQmgrFlow ----------------------------
(***************************************************************************)
(* Instances of QmgrFlow for TLC: one ordinary transport with its sites,   *)
(* and the retry transport.                                                *)
(***************************************************************************)
EXTENDS QmgrFlow

CONSTANTS smtp, retry

Both(x, y) == (smtp :> x) @@ (retry :> y)

MCTransport == {smtp, retry}
MCXportOf == [s \in Site |-> smtp]
MCLimit == Both(3, 1)
MCInit == Both(4, 1)
MCNever == Both(FALSE, FALSE)
MCSmtpOnly == Both(TRUE, FALSE)
MCCohorts == Both(1, 1)

\* 1/concurrency up, 1 down: the feedback that main.cf documents.
MCPosFeedback == Both([base |-> Scale, perWindow |-> TRUE],
                      [base |-> Scale, perWindow |-> TRUE])
MCNegFeedback == Both([base |-> Scale, perWindow |-> FALSE],
                      [base |-> Scale, perWindow |-> FALSE])

SymmetricEntries == Permutations(Entry)
SymmetricSites == Permutations(Entry) \cup Permutations(Site)
=============================================================================
