----------------------------- MODULE MCAccounts -----------------------------
(***************************************************************************)
(* Accounts on small instances, with overlap.                              *)
(*                                                                         *)
(* A behaviour has few requests of every endpoint, or enough logins for    *)
(* the counter of misses to be filled several times over.                  *)
(***************************************************************************)
EXTENDS Accounts

CONSTANT FewRequests    \* bound: requests in a behaviour about all endpoints

VARIABLE focus

MCInit == focus \in {"all", "logins"} /\ Init

Login(h) ==
    \/ LoginFind(h) \/ LoginMiss(h) \/ LoginForgive(h) \/ GenerateTokens(h) \/ LoginActivate(h)

MCNext ==
    /\ UNCHANGED focus
    /\ \/ focus = "all" /\ Next /\ arrived' <= FewRequests
       \/ /\ focus = "logins"
          /\ \/ \E h \in Handlers : Login(h)
             \/ \E u \in Users : LockExpires(u)

MCSpec == MCInit /\ [][MCNext]_<<focus, vars>>

=============================================================================
