------------------------------ MODULE MCLinks ------------------------------
(* Links on small instances *)
EXTENDS Links

One(S) == {CHOOSE x \in S : TRUE}

(* two pictures shared and viewed; one that is viewed and cancelled while statements
   fail and the process dies *)
Pictures ==
    [ops |-> {"share", "browse"}, faults |-> {"update"},
     visits |-> {}, visitors |-> {}, pics |-> Pics]
Picture ==
    [ops |-> OpKinds,
     faults |-> {"insert_pic", "select", "update", "delete", "connect", "crash"},
     visits |-> {}, visitors |-> {}, pics |-> One(Pics)]
(* everything may fail but what redis holds *)
Working ==
    [ops |-> {"share"}, faults |-> {"connect", "set", "insert_map", "crash"},
     visits |-> {"given"}, visitors |-> Visitors, pics |-> Pics]
(* visitors who send nothing and visitors who hang up *)
Rude ==
    [ops |-> {"share"}, faults |-> {"insert_map"},
     visits |-> {"given", "mute", "gone"}, visitors |-> Visitors, pics |-> Pics]
(* given keys that redis loses, and keys that it never had or that a Get misses *)
Lost ==
    [ops |-> {"share"}, faults |-> {"lose", "select"}, visits |-> {"given"},
     visitors |-> One(Visitors), pics |-> Pics]
Unknown ==
    [ops |-> {"share"}, faults |-> {"get", "set"}, visits |-> {"any"},
     visitors |-> One(Visitors), pics |-> Pics]

All == {Pictures, Picture, Working, Rude, Lost, Unknown}
=============================================================================
