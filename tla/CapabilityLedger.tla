-------------------------- MODULE CapabilityLedger --------------------------
(***************************************************************************)
(* What the purchase-order origin promises, without requests, credentials  *)
(* or replies: an idempotency key is bound to at most one capability       *)
(* nonce, a nonce to at most one key, and a binding, once made, is kept    *)
(* for as long as the process lives.  The origin keeps it for the keys     *)
(* that are not empty, which are the control plane's only ones.            *)
(***************************************************************************)
CONSTANTS
  Key,      \* idempotency keys
  Nonce,    \* authorization nonces, one per issued capability
  NoNonce   \* a key that has bought nothing, no member of Nonce

VARIABLE boundTo  \* the nonce each key was bought with

Init == boundTo = [k \in Key |-> NoNonce]

(* One purchase: an unused key spends an unspent nonce. *)
Spend(k, n) ==
  /\ boundTo[k] = NoNonce
  /\ \A other \in Key : boundTo[other] # n
  /\ boundTo' = [boundTo EXCEPT ![k] = n]

(* The ledger lives in the memory of the process and ends with it. *)
Forget == boundTo' = [k \in Key |-> NoNonce]

Next == \/ \E k \in Key, n \in Nonce : Spend(k, n)
        \/ Forget

Spec == Init /\ [][Next]_boundTo
=============================================================================
