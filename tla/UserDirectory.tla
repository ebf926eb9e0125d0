------------------------------ MODULE UserDirectory ------------------------------
(***************************************************************************)
(* What auth-service promises about accounts: whoever presents external    *)
(* identities is told one account of theirs; an account is opened together *)
(* with its first identity; an identity joins an account only in the hands *)
(* of a caller who presents it beside one that is linked to it already;    *)
(* and a link is for ever.                                                 *)
(***************************************************************************)
CONSTANTS
  Calls,
  Identity,
  Presented,   \* the sets of identities a call may present
  Users,
  None

VARIABLES
  accounts,    \* the accounts there are
  link,        \* link[id]: the account of an identity, None before it has one
  asked,       \* asked[c]: the identities that c presented, {} before
  reply        \* reply[c]: the account c was told, None before

vars == <<accounts, link, asked, reply>>

Init ==
  /\ accounts = {}
  /\ link = [id \in Identity |-> None]
  /\ asked = [c \in Calls |-> {}]
  /\ reply = [c \in Calls |-> None]

Ask(c) ==
  /\ asked[c] = {}
  /\ \E ids \in Presented : asked' = [asked EXCEPT ![c] = ids]
  /\ UNCHANGED <<accounts, link, reply>>

\* An account is opened for an identity that has none.
Open(c) ==
  \E id \in asked[c], u \in Users \ accounts :
     /\ link[id] = None
     /\ link' = [link EXCEPT ![id] = u]
     /\ accounts' = accounts \cup {u}

\* An identity joins the account of another that is presented with it.
Join(c) ==
  \E id, other \in asked[c] :
     /\ link[id] = None /\ link[other] # None
     /\ link' = [link EXCEPT ![id] = link[other]]
     /\ UNCHANGED accounts

\* The caller is told an account of its identities, once.
Answer(c) ==
  \E id \in asked[c] :
     /\ reply[c] = None /\ link'[id] # None
     /\ reply' = [reply EXCEPT ![c] = link'[id]]

Resolve(c) ==
  /\ UNCHANGED asked
  /\ UNCHANGED <<accounts, link>> \/ Open(c) \/ Join(c)
  /\ UNCHANGED reply \/ Answer(c)

Next == \E c \in Calls : Resolve(c) \/ Ask(c)

Spec == Init /\ [][Next]_vars

================================================================================
