------------------------- MODULE ProcurementOrigin -------------------------
(***************************************************************************)
(* The protected purchase-order origin (services/procurement) together     *)
(* with the capability checks it calls (packages/security).                *)
(*                                                                         *)
(* An exchange is one HTTP request.  The handler reads the body, checks    *)
(* the shape, awaits authorizePurchase, and then runs to its answer        *)
(* without another await; so an exchange has two interleaving points: the  *)
(* arrival of its body and the await.  The two Maps of the process are     *)
(* orders (idempotency key -> stored order) and consumedNonces             *)
(* (nonce -> key); a restart forgets both.                                 *)
(*                                                                         *)
(* The fields an attestation and a request must agree on one by one are    *)
(* abstracted to vendor, unitPrice, nonce and one value for the rest       *)
(* (terms: domain, attestation id, quote, SKU, payee name and account,     *)
(* evidence hash, currency), and a signature to the secret it was made     *)
(* with.  An order id is a counter: two random ids are assumed to differ.  *)
(*                                                                         *)
(* The empty string is a key like the others when a request is taken in,   *)
(* but no owner of a nonce when the next one is: that test is on           *)
(* truthiness.                                                             *)
(***************************************************************************)
EXTENDS Integers, FiniteSets

CONSTANTS
  Exchange,        \* HTTP requests, each answered at most once
  Key, Nonce, Vendor, Terms, Secret,
  EmptyKey,        \* the idempotency key "", if it is one of Key
  Attestation,     \* the capabilities that were issued
  Submission,      \* what clients send: path, request and credential
  OriginSecret,    \* attestationSecret of the running configuration
  MaxSafeInteger,  \* the largest integer a JavaScript number holds exactly
  FutureSkew,      \* clock skew tolerated on issuedAt (30 s)
  NoSecret, NoCredential, NoKey, NoNonce, NoOrder, NoSubmission,
  MaxClock,        \* bound: the clock stops here
  MaxRestarts      \* bound: restarts of the origin process

AttestationType ==
  [nonce : Nonce, vendor : Vendor, terms : Terms, unitPrice : Nat,
   maxQuantity : Nat, maxAmount : Nat, verified : BOOLEAN,
   issuedAt : Nat, expiresAt : Nat, signedWith : Secret]

RequestType ==
  [vendor : Vendor, terms : Terms, unitPrice : Nat, quantity : Nat,
   nonce : Nonce, key : Key]

SubmissionType ==
  [path : Vendor, request : RequestType,
   readable : BOOLEAN,  \* the body is JSON of no more than 64 KiB
   credential : Attestation \union {NoCredential}]

ASSUME OriginAssumption ==
  /\ Attestation \subseteq AttestationType
  /\ Submission \subseteq SubmissionType
  /\ OriginSecret \in Secret \union {NoSecret}
  /\ MaxSafeInteger \in Nat /\ FutureSkew \in Nat
  /\ MaxClock \in Nat /\ MaxRestarts \in Nat
  /\ NoSecret \notin Secret
  /\ NoCredential \notin Attestation
  /\ NoKey \notin Key \union {EmptyKey}
  /\ NoNonce \notin Nonce
  /\ NoSubmission \notin Submission

OrderType ==
  [id : Nat, vendor : Vendor, terms : Terms, quantity : Nat, total : Nat]

StoredOrder == [order : OrderType, request : RequestType]

ASSUME NoOrderAssumption == NoOrder \notin OrderType \union StoredOrder

VARIABLES
  orders,          \* idempotency key -> stored order
  consumedNonces,  \* nonce -> the key that consumed it
  exchange,        \* the exchanges: where they are and how they ended
  minted,          \* order ids handed out so far
  clock,           \* the origin's clock
  lifetime         \* restarts so far: which life of the process this is

vars == <<orders, consumedNonces, exchange, minted, clock, lifetime>>

Status == {201, 400, 403, 409}

ExchangeType ==
  [stage : {"new", "received", "authorized", "answered", "lost"},
   submission : Submission \union {NoSubmission},
   authorizedAt : Nat,
   status : Status \union {0},
   order : OrderType \union {NoOrder},
   lifetime : Nat]

Fresh == [stage |-> "new", submission |-> NoSubmission, authorizedAt |-> 0,
          status |-> 0, order |-> NoOrder, lifetime |-> 0]

Init ==
  /\ orders = [k \in Key |-> NoOrder]
  /\ consumedNonces = [n \in Nonce |-> NoKey]
  /\ exchange = [x \in Exchange |-> Fresh]
  /\ minted = 0
  /\ clock = 0
  /\ lifetime = 0
-----------------------------------------------------------------------------
(* readJson, isPurchaseOrderRequest and the comparison of path and body.   *)
(* Any string is a key.                                                    *)
WellFormed(s) ==
  /\ s.readable
  /\ s.request.quantity > 0
  /\ s.request.unitPrice > 0
  /\ s.request.vendor = s.path

(* The signature covers every field: it matches if it was made with the    *)
(* secret that is configured here.                                         *)
SignatureMatches(a) == a.signedWith = OriginSecret

(* verifyVendorAttestation at time now. *)
Verifies(a, now) ==
  /\ SignatureMatches(a)
  /\ a.verified
  /\ a.expiresAt > now
  /\ a.issuedAt <= now + FutureSkew

(* assertPurchaseBinding. *)
Binds(a, r) ==
  /\ r.unitPrice * r.quantity <= MaxSafeInteger
  /\ a.vendor = r.vendor
  /\ a.terms = r.terms
  /\ a.nonce = r.nonce
  /\ a.unitPrice = r.unitPrice
  /\ r.quantity <= a.maxQuantity
  /\ r.unitPrice * r.quantity <= a.maxAmount

(* Fault: a key that was seen before is let in without a capability. *)
IdempotencyFirst(s, now) ==
  \/ orders[s.request.key] # NoOrder
  \/ /\ s.credential # NoCredential
     /\ Verifies(s.credential, now)
     /\ Binds(s.credential, s.request)

(* authorizePurchase returns rather than throws. *)
Authorized(s, now) ==
  /\ OriginSecret # NoSecret
  /\ s.credential # NoCredential
  /\ Verifies(s.credential, now)
  /\ Binds(s.credential, s.request)
-----------------------------------------------------------------------------
Request(x) == exchange[x].submission.request
KeyOf(x) == Request(x).key

(* The answer of exchange x, sent in the current life of the process. *)
Answer(x, status, order) ==
  exchange' = [exchange EXCEPT ![x] =
    [@ EXCEPT !.stage = "answered", !.status = status, !.order = order,
              !.lifetime = lifetime]]

(* An answer that leaves the two Maps alone. *)
Reply(x, status, order) ==
  /\ Answer(x, status, order)
  /\ UNCHANGED <<orders, consumedNonces, minted, clock, lifetime>>

(* The body of the request has arrived. *)
Receive(x) ==
  /\ exchange[x].stage = "new"
  /\ \E s \in Submission :
       exchange' = [exchange EXCEPT ![x] =
                      [@ EXCEPT !.stage = "received", !.submission = s]]
  /\ UNCHANGED <<orders, consumedNonces, minted, clock, lifetime>>

RefuseMalformed(x) ==
  /\ exchange[x].stage = "received"
  /\ ~WellFormed(exchange[x].submission)
  /\ Reply(x, 400, NoOrder)

(* Authorization comes before any look at the two Maps. *)
Authorize(x) ==
  /\ exchange[x].stage = "received"
  /\ WellFormed(exchange[x].submission)
  /\ Authorized(exchange[x].submission, clock)
  /\ exchange' = [exchange EXCEPT ![x] =
                    [@ EXCEPT !.stage = "authorized", !.authorizedAt = clock]]
  /\ UNCHANGED <<orders, consumedNonces, minted, clock, lifetime>>

Deny(x) ==
  /\ exchange[x].stage = "received"
  /\ WellFormed(exchange[x].submission)
  /\ ~Authorized(exchange[x].submission, clock)
  /\ Reply(x, 403, NoOrder)
-----------------------------------------------------------------------------
(* From the await to the answer the handler runs alone.                    *)

(* Fault: the key was looked up before the await, when it was still new. *)
LookedUpTooEarly(k) == TRUE

NewKey(k) == orders[k] = NoOrder

(* Faults: the request hash is not compared; every known key conflicts. *)
HashIgnored(x) == TRUE
HashNeverMatches(x) == FALSE

SameRequest(x) == orders[KeyOf(x)].request = Request(x)

(* A known key: a different request conflicts, the same one is replayed. *)
RefuseChangedReplay(x) ==
  /\ exchange[x].stage = "authorized"
  /\ ~NewKey(KeyOf(x))
  /\ ~SameRequest(x)
  /\ Reply(x, 409, NoOrder)

Replay(x) ==
  /\ exchange[x].stage = "authorized"
  /\ ~NewKey(KeyOf(x))
  /\ SameRequest(x)
  /\ Reply(x, 201, orders[KeyOf(x)].order)

(* Fault: the nonce is not checked. *)
NonceAlwaysFree(k, n) == TRUE

(* A new key: the nonce must be unspent (or spent by this very key).  The  *)
(* empty key that spent it is as falsy as none.                            *)
NonceFree(k, n) == consumedNonces[n] \in {NoKey, EmptyKey, k}

RefuseSpentNonce(x) ==
  /\ exchange[x].stage = "authorized"
  /\ NewKey(KeyOf(x))
  /\ ~NonceFree(KeyOf(x), Request(x).nonce)
  /\ Reply(x, 409, NoOrder)

OrderFor(r) ==
  [id |-> minted, vendor |-> r.vendor, terms |-> r.terms,
   quantity |-> r.quantity, total |-> r.unitPrice * r.quantity]

(* Fault: the nonce is checked but never recorded. *)
NonceNotRecorded(r) == UNCHANGED consumedNonces

Consume(r) == consumedNonces' = [consumedNonces EXCEPT ![r.nonce] = r.key]

CreateOrder(x) ==
  /\ exchange[x].stage = "authorized"
  /\ NewKey(KeyOf(x))
  /\ NonceFree(KeyOf(x), Request(x).nonce)
  /\ orders' = [orders EXCEPT ![KeyOf(x)] =
                  [order |-> OrderFor(Request(x)), request |-> Request(x)]]
  /\ Consume(Request(x))
  /\ minted' = minted + 1
  /\ Answer(x, 201, OrderFor(Request(x)))
  /\ UNCHANGED <<clock, lifetime>>
-----------------------------------------------------------------------------
Tick ==
  /\ clock < MaxClock
  /\ clock' = clock + 1
  /\ UNCHANGED <<orders, consumedNonces, exchange, minted, lifetime>>

(* Fault: the orders outlive the process, the nonces they consumed do not. *)
OrdersKept == orders

OrdersAtBoot == [k \in Key |-> NoOrder]

(* The process ends and starts again: both Maps are empty, and the         *)
(* exchanges it was serving never get an answer.                           *)
Restart ==
  /\ lifetime < MaxRestarts
  /\ lifetime' = lifetime + 1
  /\ orders' = OrdersAtBoot
  /\ consumedNonces' = [n \in Nonce |-> NoKey]
  /\ exchange' = [x \in Exchange |->
       IF exchange[x].stage \in {"received", "authorized"}
         THEN [exchange[x] EXCEPT !.stage = "lost"]
         ELSE exchange[x]]
  /\ UNCHANGED <<minted, clock>>

Next ==
  \/ \E x \in Exchange :
       \/ Receive(x) \/ RefuseMalformed(x) \/ Authorize(x) \/ Deny(x)
       \/ RefuseChangedReplay(x) \/ Replay(x)
       \/ RefuseSpentNonce(x) \/ CreateOrder(x)
  \/ Tick
  \/ Restart

Spec == Init /\ [][Next]_vars

-----------------------------------------------------------------------------
TypeOK ==
  /\ orders \in [Key -> StoredOrder \union {NoOrder}]
  /\ consumedNonces \in [Nonce -> Key \union {NoKey}]
  /\ exchange \in [Exchange -> ExchangeType]
  /\ \A x \in Exchange :
       exchange[x].stage # "new" => exchange[x].submission \in Submission
  /\ minted \in Nat /\ clock \in Nat /\ lifetime \in Nat

Answered(x, status) ==
  exchange[x].stage = "answered" /\ exchange[x].status = status

SameLifetime(x, y) == exchange[x].lifetime = exchange[y].lifetime

(* What docs/SYSTEM.md:544 says of the origin: a capability is one         *)
(* purchase, so two requests that carry the same nonce and are both        *)
(* answered 201 in one life of the process were given the same order.      *)
NonceBuysOneOrder ==
  \A x, y \in Exchange :
    /\ Answered(x, 201) /\ Answered(y, 201) /\ SameLifetime(x, y)
    /\ Request(x).nonce = Request(y).nonce
    => exchange[x].order = exchange[y].order

(* What the code keeps of it, however the handlers interleave at the await *)
(* (index.ts: the nonce check and the commit come after it): a nonce that  *)
(* bought one order in this life of the process only buys another if the   *)
(* first one went to the empty key.  Between other keys a capability is    *)
(* one purchase.                                                           *)
OnlyTheEmptyKeyIsForgotten ==
  \A x, y \in Exchange :
    /\ Answered(x, 201) /\ Answered(y, 201) /\ SameLifetime(x, y)
    /\ Request(x).nonce = Request(y).nonce
    /\ exchange[x].order # exchange[y].order
    /\ exchange[x].order.id <= exchange[y].order.id
    => KeyOf(x) = EmptyKey /\ KeyOf(y) # EmptyKey

(* An idempotency key names one request: everything answered 201 under it  *)
(* in one life of the process was the same request and got the same order. *)
KeyNamesOneRequest ==
  \A x, y \in Exchange :
    /\ Answered(x, 201) /\ Answered(y, 201) /\ SameLifetime(x, y)
    /\ KeyOf(x) = KeyOf(y)
    => /\ Request(x) = Request(y)
       /\ exchange[x].order = exchange[y].order

(* A verdict on a request is stable: a client that retries an accepted     *)
(* request is never told it conflicts, nor the other way round, as long as *)
(* the process lives (only 403 may follow, once the capability expired).   *)
VerdictIsStable ==
  \A x, y \in Exchange :
    /\ Answered(x, 201) /\ Answered(y, 409) /\ SameLifetime(x, y)
    => Request(x) # Request(y)

(* Authorization precedes idempotency: every 201, replays included, went   *)
(* to a request that carried a capability of this deployment, valid at     *)
(* that moment and covering vendor, price, quantity and amount, and the    *)
(* amount is one that a number holds exactly.  Over restarts this is what  *)
(* bounds the second spending of a forgotten nonce: both purchases fall    *)
(* before the capability's expiry.                                         *)
GrantIsCovered ==
  \A x \in Exchange : Answered(x, 201) =>
    LET a == exchange[x].submission.credential
    IN  /\ a \in Attestation
        /\ a.signedWith = OriginSecret
        /\ exchange[x].authorizedAt < a.expiresAt
        /\ exchange[x].order.vendor = a.vendor
        /\ exchange[x].order.terms = a.terms
        /\ exchange[x].order.quantity <= a.maxQuantity
        /\ exchange[x].order.total <= a.maxAmount
        /\ exchange[x].order.total <= MaxSafeInteger

NamedKey == Key \ {EmptyKey}

(* What is forgotten is bounded: over all lives of the process so far, a   *)
(* capability is good for one order in each under all named keys together, *)
(* and for one more under the empty key, which is the most that forgetting *)
(* that key can cost.                                                      *)
OrdersOf(n, keys) ==
  {exchange[x].order :
     x \in {y \in Exchange :
              Answered(y, 201) /\ Request(y).nonce = n /\ KeyOf(y) \in keys}}

ExposureIsBounded ==
  \A n \in Nonce :
    /\ Cardinality(OrdersOf(n, NamedKey)) <= lifetime + 1
    /\ Cardinality(OrdersOf(n, Key)) <= 2 * (lifetime + 1)

Bought(k, n) == orders[k] # NoOrder /\ orders[k].request.nonce = n

(* The two Maps agree: whoever a nonce is consumed by has bought with it,  *)
(* and whoever has bought with it consumed it, unless that was the empty   *)
(* key and a later order under a named key took its place.                 *)
MapsAgree ==
  \A k \in Key, n \in Nonce :
    /\ consumedNonces[n] = k => Bought(k, n)
    /\ Bought(k, n) =>
         \/ consumedNonces[n] = k
         \/ /\ k = EmptyKey
            /\ consumedNonces[n] \in NamedKey
            /\ orders[k].order.id < orders[consumedNonces[n]].order.id

(* The inductive invariant.  The history properties compare two answers;   *)
(* what makes them inductive is the link from an answer given in the       *)
(* current life of the process to the two Maps as they are now.            *)

(* The order that a request buys, but for its id. *)
OrderMatches(o, r) ==
  /\ o.vendor = r.vendor /\ o.terms = r.terms
  /\ o.quantity = r.quantity /\ o.total = r.unitPrice * r.quantity

StoredUnderItsKey ==
  \A k \in Key : orders[k] # NoOrder =>
    /\ orders[k].request.key = k
    /\ OrderMatches(orders[k].order, orders[k].request)
    /\ orders[k].order.id < minted

(* What authorization established of submission s at time at. *)
Covered(s, at) ==
  /\ s.credential \in Attestation
  /\ s.credential.signedWith = OriginSecret
  /\ at < s.credential.expiresAt
  /\ Binds(s.credential, s.request)

AuthorizationKept ==
  \A x \in Exchange : exchange[x].stage = "authorized" \/ Answered(x, 201) =>
    Covered(exchange[x].submission, exchange[x].authorizedAt)

GrantMatchesRequest ==
  \A x \in Exchange : Answered(x, 201) =>
    /\ exchange[x].order \in OrderType
    /\ OrderMatches(exchange[x].order, Request(x))

Current(x) == exchange[x].lifetime = lifetime

(* A 201 of this life of the process is the stored order of its key. *)
CurrentGrantStored ==
  \A x \in Exchange : Answered(x, 201) /\ Current(x) =>
    /\ orders[KeyOf(x)] # NoOrder
    /\ orders[KeyOf(x)].request = Request(x)
    /\ orders[KeyOf(x)].order = exchange[x].order

(* A request is in conflict with the Maps as they are. *)
InConflict(r) ==
  \/ orders[r.key] # NoOrder /\ orders[r.key].request # r
  \/ orders[r.key] = NoOrder /\ ~NonceFree(r.key, r.nonce)

(* A 409 of this life of the process is still justified. *)
CurrentConflictStands ==
  \A x \in Exchange : Answered(x, 409) /\ Current(x) => InConflict(Request(x))

AnsweredBeforeNow ==
  \A x \in Exchange :
    exchange[x].stage = "answered" => exchange[x].lifetime <= lifetime

OriginInv ==
  /\ TypeOK
  /\ MapsAgree
  /\ StoredUnderItsKey
  /\ AuthorizationKept
  /\ GrantMatchesRequest
  /\ CurrentGrantStored
  /\ CurrentConflictStands
  /\ AnsweredBeforeNow

(* A stored order is never replaced or dropped while the process lives.    *)
OrdersAreFinal ==
  [][lifetime' = lifetime =>
       \A k \in Key : orders[k] # NoOrder => orders'[k] = orders[k]]_orders

(* The nonce each named key was bought with. *)
Book == [k \in NamedKey |-> IF orders[k] = NoOrder THEN NoNonce
                                                   ELSE orders[k].request.nonce]

Ledger == INSTANCE CapabilityLedger WITH Key <- NamedKey, boundTo <- Book

(* The origin implements the ledger of capabilities for the named keys:    *)
(* whatever it serves besides, requests under the empty key included,      *)
(* named keys and nonces are bound one to one, and only a restart unbinds  *)
(* them.                                                                   *)
ImplementsLedger == Ledger!Spec
=============================================================================
