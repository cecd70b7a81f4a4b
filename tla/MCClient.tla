------------------------------- MODULE MCClient ------------------------------
(* The scenarios TLC explores: accounts in two tabs, files in one, both. *)
EXTENDS Client

CONSTANTS a, b, t1, t2, p, q, big
ASSUME MCAssumption ==
    {a, b} \subseteq Users /\ {t1, t2} \subseteq Tabs /\ {p, q} \subseteq Passwords /\ big \in Files

Known == {[user |-> a, pwd |-> p], [user |-> b, pwd |-> q]}
Case(ops, tabs, rows, names, patient, faulty) ==
    [ops |-> ops, tabs |-> tabs, rows |-> rows, names |-> names,
     owned |-> IF rows = {} THEN {} ELSE {<<a, big>>},
     patient |-> patient, faulty |-> faulty]

FormOps == {"register", "log out"}
FileOps == {"pick", "refresh", "delete", "delete all", "leave", "expire"}
MCScenarios ==
    {Case(FormOps, {t1, t2}, {}, {a, b}, TRUE, FALSE),
     Case(FormOps, {t1, t2}, {}, {a}, TRUE, TRUE),
     Case(FormOps, {t1, t2}, {}, {a}, FALSE, FALSE),
     Case(FormOps, {t1}, {}, {a}, FALSE, TRUE),
     Case(FileOps, {t1}, Known, {a}, TRUE, TRUE),
     Case(FileOps, {t1}, Known, {a}, TRUE, FALSE),
     Case({"pick", "delete all"}, {t1}, Known, {a}, FALSE, FALSE),
     Case({"pick", "leave"}, {t1}, Known, {a}, FALSE, TRUE),
     Case({"sort", "delete", "pick"}, {t1}, Known, {a}, TRUE, FALSE),
     Case({"pick", "delete all", "log out"}, {t1, t2}, Known, {a, b}, TRUE, FALSE)}
=============================================================================
