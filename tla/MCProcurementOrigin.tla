------------------------ MODULE MCProcurementOrigin ------------------------
(***************************************************************************)
(* A small instance of the origin.  The submissions are what the control   *)
(* plane sends: the unattested probe, the attested order, its retry, the   *)
(* same event delivered again with a fresh capability, a capability used   *)
(* for a second key, an order above the quoted stock; and what it should   *)
(* not: the empty key, a total that is no safe integer, a request to       *)
(* another vendor's path, one without a quantity and one that is cut off.  *)
(***************************************************************************)
EXTENDS ProcurementOrigin, TLC

CONSTANTS x1, x2, x3, k1, k2, blank, n1, n2, vA, vB, quote, secret, rotated

MCExchange == {x1, x2, x3}

Capability(n, from, until, by, stock) ==
  [nonce |-> n, vendor |-> vA, terms |-> quote, unitPrice |-> 2,
   maxQuantity |-> stock, maxAmount |-> 2 * stock, verified |-> TRUE,
   issuedAt |-> from, expiresAt |-> until, signedWith |-> by]

First  == Capability(n1, 0, 2, secret, 2)
Second == Capability(n2, 1, 3, secret, 4)
Old    == Capability(n2, 0, 2, rotated, 4)

MCAttestation == {First, Second, Old}

Order(k, n, quantity) ==
  [vendor |-> vA, terms |-> quote, unitPrice |-> 2, quantity |-> quantity,
   nonce |-> n, key |-> k]

Send(request, credential) ==
  [path |-> vA, request |-> request, readable |-> TRUE,
   credential |-> credential]

MCSubmission ==
  { Send(Order(k1, n1, 2), First),          \* the order, and its retry
    Send(Order(k1, n2, 2), Second),         \* the event delivered again
    Send(Order(k2, n1, 2), First),          \* one capability, another key
    Send(Order(k2, n2, 1), Second),         \* another event
    Send(Order(blank, n1, 2), First),       \* no key to speak of
    Send(Order(k1, n1, 2), NoCredential),   \* the unattested probe
    Send(Order(k2, n2, 2), Old),            \* signed before a rotation
    Send(Order(k2, n1, 3), First),          \* above the quoted stock
    Send(Order(k2, n2, 4), Second),         \* a total that is not safe
    [Send(Order(k1, n1, 2), First) EXCEPT !.path = vB],
    [Send(Order(k1, n1, 2), First) EXCEPT !.readable = FALSE],
    Send(Order(k1, n1, 0), First) }

MCSymmetry == Permutations(MCExchange)
=============================================================================
