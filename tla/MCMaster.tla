------------------------------ MODULE MCMaster ------------------------------
(***************************************************************************)
(* Master for TLC.                                                         *)
(***************************************************************************)
EXTENDS Master, TLC

Symmetry == Permutations(Pid) \cup Permutations(Client)

\* Reloading master.cf may change the process limit of the first service.
CONSTANTS s1, s2
MCLimits == [s \in Service |-> IF s = s1 THEN {1, 2} ELSE {1}]
MCLimit == [s \in Service |-> {2}]

=============================================================================
