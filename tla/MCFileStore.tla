---------------------------- MODULE MCFileStore ----------------------------
(* FileStore on small instances: users, contents and workers are interchangeable *)
EXTENDS FileStore, TLC

Symmetry == Permutations(Users) \cup Permutations(Md5s) \cup Permutations(Workers)

(* one request of each user at a time *)
Turns ==
    [ops |-> {"upload", "save", "delete"},
     faults |-> {"query", "insert_user", "update", "delete", "crash"},
     serial |-> TRUE, threads |-> 2, rows |-> 3, objs |-> 3]
(* uploads and saves without limit, FastDFS commands that fail *)
Uploads ==
    [ops |-> {"upload", "save"},
     faults |-> {"query", "update", "delete", "dfs_put", "dfs_url", "dfs_del", "crash"},
     serial |-> FALSE, threads |-> 2, rows |-> 2, objs |-> 4]
(* every operation without limit, statements that fail *)
Storage ==
    [ops |-> OpKinds, faults |-> {"insert_info", "insert_user", "update", "delete", "dfs_put"},
     serial |-> FALSE, threads |-> 2, rows |-> 2, objs |-> 4]
All == {Turns, Uploads, Storage}

(* uploads and deletions without faults *)
Deletions ==
    {[ops |-> {"upload", "delete"}, faults |-> {}, serial |-> TRUE, threads |-> 2, rows |-> 3, objs |-> 4]}

=============================================================================
