---------------------------- MODULE MCBusinessService ----------------------------
(* business-service, its handlers and its job publisher, on a small instance. *)
EXTENDS BusinessService, TLC

\* Requests, items, tenants and titles are interchangeable.
Symmetry ==
  Permutations(Requests) \cup Permutations(Items)
     \cup Permutations(Tenants) \cup Permutations(Titles)

==================================================================================
