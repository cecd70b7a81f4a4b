------------------------------- MODULE MCHttp -------------------------------
(* The instance of Http that TLC checks: two workers and two connections, or one
   connection whose request comes in two segments, and the pool switched off. *)
EXTENDS Http
CONSTANTS w1, w2, c1, c2

E(threads, conns, segs, patient) ==
    [threads |-> threads, conns |-> conns, segs |-> segs, patient |-> patient]

MCScenarios ==
    {E({w1, w2}, {c1, c2}, 1, p) : p \in BOOLEAN}
    \cup {E({w1, w2}, {c1}, 2, p) : p \in BOOLEAN}
    \cup {E({}, {c1, c2}, 2, p) : p \in BOOLEAN}
=============================================================================
