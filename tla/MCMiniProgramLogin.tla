--------------------------- MODULE MCMiniProgramLogin ---------------------------
(* Mini-program logins on small instances. *)
EXTENDS MiniProgramLogin, TLC

Symmetry == Permutations(Calls) \cup Permutations(Users)

\* The documented URL with a PEM and one audience for both, and the gateway's own URL
\* without a PEM and with an audience that auth-service was not given.
MCSettings ==
  {[pem |-> TRUE, url |-> "direct", issuers |-> {"logto", "auth-service"},
    audience |-> [auth |-> "api", gateway |-> "api"]],
   [pem |-> FALSE, url |-> "gateway", issuers |-> {},
    audience |-> [auth |-> "", gateway |-> "api"]]}
=================================================================================
