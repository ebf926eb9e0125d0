------------------------------- MODULE MCFileStore -------------------------------
(* file-service on a small instance. *)
EXTENDS FileStore, TLC

CONSTANTS u1, u2, t1, t2

\* One user under two tenants and under none, and another user.
MCIdentity ==
  {[user |-> u1, tenant |-> t1], [user |-> u1, tenant |-> t2],
   [user |-> u1, tenant |-> NoTenant], [user |-> u2, tenant |-> t1]}

Symmetry == Permutations(Requests) \cup Permutations(Files)

==================================================================================
