------------------------------ MODULE Accounts ------------------------------
(***************************************************************************)
(* The accounts of the server: the table user_info and the tokens in redis,*)
(* as the register and login handlers and VerifyToken read and write them. *)
(* Each definition is one statement or command of a handler; module Client *)
(* composes them into the handlers and lets them interleave.               *)
(*                                                                         *)
(* The repository has no SQL schema, and nothing in the code minds a       *)
(* duplicate: user_info is taken to have no unique key on user_name.       *)
(***************************************************************************)
EXTENDS Naturals, FiniteSets

CONSTANTS Users, Passwords,
          Tokens,      \* what generateUUID returns, one after the other
          Nobody       \* null value

ASSUME AccountsAssumption == Nobody \notin Users /\ Tokens \subseteq Nat \ {0}

VARIABLES user_info,   \* rows [user, pwd]
          issued,      \* the user each token was made for, or Nobody
          alive        \* tokens redis has

accounts == <<user_info, issued, alive>>

AccountsTypeOK ==
    /\ user_info \subseteq [user : Users, pwd : Passwords]
    /\ issued \in [Tokens -> Users \cup {Nobody}]
    /\ alive \subseteq Tokens

AccountsInit(rows) ==
    /\ user_info = rows
    /\ issued = [k \in Tokens |-> Nobody]
    /\ alive = {}

-----------------------------------------------------------------------------
(* registerUser: the select that looks for the name, and the insert *)
NameIsFree(u) == \A r \in user_info : r.user # u
InsertUser(u, pwd) ==
    user_info' = user_info \cup {[user |-> u, pwd |-> pwd]} /\ UNCHANGED <<issued, alive>>

(* verifyUserPassword: the first row the select returns is the one compared *)
FirstRowHas(u, pwd) == \E r \in user_info : r.user = u /\ r.pwd = pwd
FirstRowHasNot(u, pwd) ==
    NameIsFree(u) \/ \E r \in user_info : r.user = u /\ r.pwd # pwd

(* setToken: a new token; that SetEx failed is not noticed *)
FreshTokens == {k \in Tokens : issued[k] = Nobody}
SwappedSetEx(u, k, stored) ==
    /\ k \in FreshTokens /\ \A j \in FreshTokens : k <= j
    /\ issued' = [issued EXCEPT ![k] = u]
    /\ alive' = IF stored THEN alive \cup {u} ELSE alive
    /\ UNCHANGED user_info
IssueToken(u, k, stored) ==
    /\ k \in FreshTokens /\ \A j \in FreshTokens : k <= j
    /\ issued' = [issued EXCEPT ![k] = u]
    /\ alive' = IF stored THEN alive \cup {k} ELSE alive
    /\ UNCHANGED user_info

VerifyToken(u, k) == k \in alive /\ issued[k] = u

(* a token lives for 86400 s *)
ExpireToken(k) == k \in alive /\ alive' = alive \ {k} /\ UNCHANGED <<user_info, issued>>
=============================================================================
