---------------------------- MODULE MCLogtoWebhook -----------------------------
(* The Logto webhook handler on small instances. *)
EXTENDS LogtoWebhook, TLC

Symmetry ==
  Permutations(Calls) \cup Permutations(Deliveries)
     \cup Permutations(Keys) \cup Permutations(LogtoUsers)

================================================================================
