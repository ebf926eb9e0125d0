-------------------------------- MODULE AuditLog --------------------------------
(***************************************************************************)
(* What the platform promises about domain audit: a write that takes       *)
(* effect is recorded, once, and nothing else ever is.                     *)
(***************************************************************************)
CONSTANT Writes

VARIABLES
  accepted,    \* writes that have taken effect
  recorded     \* writes the audit store holds

vars == <<accepted, recorded>>

TypeOK == accepted \subseteq Writes /\ recorded \subseteq accepted

Init == accepted = {} /\ recorded = {}

Accept(w) ==
  /\ w \notin accepted
  /\ accepted' = accepted \cup {w}
  /\ UNCHANGED recorded

Record(w) ==
  /\ w \in accepted \ recorded
  /\ recorded' = recorded \cup {w}
  /\ UNCHANGED accepted

Next == \E w \in Writes : Accept(w) \/ Record(w)

Safe == Init /\ [][Next]_vars

Spec == Safe /\ \A w \in Writes : WF_vars(Record(w))

================================================================================
