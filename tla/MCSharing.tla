------------------------------ MODULE MCSharing ------------------------------
(* Sharing on small instances: every operation, one request at a time; every
   fault at every step of one request and the refresh; only lists and refreshes. *)
EXTENDS Sharing

One(S) == {CHOOSE x \in S : TRUE}
Two(S) == CHOOSE T \in SUBSET S : Cardinality(T) = 2
Serial(users, files, limit) ==
    [ops |-> OpNames \ {"refresh"}, faults |-> {"update", "flush"}, serial |-> TRUE,
     users |-> users, files |-> files, shared |-> One(Files), limit |-> limit]
Faulty ==
    [ops |-> OpNames, faults |-> FaultNames, serial |-> FALSE,
     users |-> One(Users), files |-> One(Files), shared |-> {}, limit |-> 1]
(* three files: enough for ZLEXCOUNT to count more than one *)
Ranked ==
    [Serial(One(Users), Files, 1) EXCEPT !.ops = {"share", "cancel", "pv"}]
RankingOnly == [ops |-> {"list", "refresh"}, faults |-> {"flush"}, serial |-> FALSE,
          users |-> One(Users), files |-> Files, shared |-> Files, limit |-> 1]

MCScenarios ==
    {Serial(Users, One(Files), MaxRows), Serial(One(Users), Two(Files), MaxRows), Ranked, Faulty,
     [Serial(Users, Two(Files), MaxRows) EXCEPT !.ops = {"share", "cancel", "pv", "list"}]}
Warm == {RankingOnly}
=============================================================================
