---------------------- MODULE ProcurementOriginProofs ----------------------
(***************************************************************************)
(* Proofs about the origin, for any number of requests, keys, nonces,      *)
(* capabilities and restarts.                                              *)
(***************************************************************************)
EXTENDS ProcurementOrigin, TLAPS, FiniteSetTheorems

(* Moving one exchange to a well-typed record keeps the exchanges typed. *)
LEMMA ExchangeTyped ==
  ASSUME TypeOK, NEW x \in Exchange, NEW e \in ExchangeType,
         e.stage # "new" => e.submission \in Submission,
         exchange' = [exchange EXCEPT ![x] = e]
  PROVE  /\ exchange' \in [Exchange -> ExchangeType]
         /\ \A y \in Exchange :
              exchange'[y].stage # "new" => exchange'[y].submission \in Submission
  BY DEF TypeOK

(* The record an answer leaves behind. *)
LEMMA AnswerTyped ==
  ASSUME TypeOK, NEW x \in Exchange, NEW st \in Status,
         NEW o \in OrderType \union {NoOrder},
         exchange[x].stage # "new", Answer(x, st, o)
  PROVE  /\ exchange' \in [Exchange -> ExchangeType]
         /\ \A y \in Exchange :
              exchange'[y].stage # "new" => exchange'[y].submission \in Submission
<1> DEFINE e == [exchange[x] EXCEPT !.stage = "answered", !.status = st,
                                    !.order = o, !.lifetime = lifetime]
<1>1. e \in ExchangeType /\ e.submission = exchange[x].submission
  BY DEF TypeOK, ExchangeType
<1>2. exchange' = [exchange EXCEPT ![x] = e]
  BY DEF Answer
<1>3. e.submission \in Submission
  BY <1>1 DEF TypeOK
<1> HIDE DEF e
<1> QED BY <1>1, <1>2, <1>3, ExchangeTyped

(* TypeOK is inductive on its own: one step per action. *)
LEMMA TypeStep == TypeOK /\ [Next]_vars => TypeOK'
<1> SUFFICES ASSUME TypeOK, [Next]_vars PROVE TypeOK'
  OBVIOUS
<1> USE OriginAssumption, NoOrderAssumption
<1>1. ASSUME NEW x \in Exchange, Receive(x) PROVE TypeOK'
  <2>1. PICK s \in Submission : exchange' = [exchange EXCEPT ![x] =
                      [exchange[x] EXCEPT !.stage = "received", !.submission = s]]
    BY <1>1 DEF Receive
  <2> DEFINE e == [exchange[x] EXCEPT !.stage = "received", !.submission = s]
  <2>2. e \in ExchangeType /\ e.submission \in Submission
    BY DEF TypeOK, ExchangeType
  <2>3. exchange' = [exchange EXCEPT ![x] = e]
    BY <2>1
  <2> HIDE DEF e
  <2> QED BY <1>1, <2>2, <2>3, ExchangeTyped DEF Receive, TypeOK
<1>2. ASSUME NEW x \in Exchange, Authorize(x) PROVE TypeOK'
  <2> DEFINE e == [exchange[x] EXCEPT !.stage = "authorized", !.authorizedAt = clock]
  <2>1. e \in ExchangeType /\ e.submission \in Submission
    BY <1>2 DEF TypeOK, ExchangeType, Authorize
  <2>2. exchange' = [exchange EXCEPT ![x] = e]
    BY <1>2 DEF Authorize
  <2> HIDE DEF e
  <2> QED BY <1>2, <2>1, <2>2, ExchangeTyped DEF Authorize, TypeOK
<1>3. ASSUME NEW x \in Exchange, NEW st \in Status, NEW o \in OrderType \union {NoOrder},
             Reply(x, st, o), exchange[x].stage # "new"
      PROVE  TypeOK'
  BY <1>3, AnswerTyped DEF TypeOK, Reply
<1>4. ASSUME NEW x \in Exchange, CreateOrder(x) PROVE TypeOK'
  <2>1. Request(x) \in RequestType
    BY <1>4 DEF CreateOrder, TypeOK, Request, SubmissionType
  <2>2. OrderFor(Request(x)) \in OrderType
    <3>1. \A a, b \in Nat : a * b \in Nat
      OBVIOUS
    <3> QED BY <2>1, <3>1 DEF OrderFor, OrderType, RequestType, TypeOK
  <2>3. KeyOf(x) \in Key /\ Request(x).nonce \in Nonce /\ Request(x).key \in Key
    BY <2>1 DEF KeyOf, RequestType
  <2>4. orders' \in [Key -> StoredOrder \union {NoOrder}]
    BY <1>4, <2>1, <2>2, <2>3 DEF CreateOrder, TypeOK, StoredOrder
  <2>5. consumedNonces' \in [Nonce -> Key \union {NoKey}]
    BY <1>4, <2>3 DEF CreateOrder, Consume, TypeOK
  <2>6. /\ exchange' \in [Exchange -> ExchangeType]
        /\ \A y \in Exchange :
             exchange'[y].stage # "new" => exchange'[y].submission \in Submission
    BY <1>4, <2>2, AnswerTyped DEF CreateOrder, Status
  <2> QED BY <1>4, <2>4, <2>5, <2>6 DEF CreateOrder, TypeOK
<1>5. CASE Tick
  BY <1>5 DEF Tick, TypeOK
<1>6. CASE Restart
  <2>1. /\ exchange' \in [Exchange -> ExchangeType]
        /\ \A y \in Exchange :
             exchange'[y].stage # "new" => exchange'[y].submission \in Submission
    BY <1>6 DEF Restart, TypeOK, ExchangeType
  <2> QED BY <1>6, <2>1 DEF Restart, OrdersAtBoot, TypeOK
<1>7. ASSUME NEW x \in Exchange, Replay(x) PROVE TypeOK'
  <2>1. Request(x) \in RequestType
    BY <1>7 DEF Replay, TypeOK, Request, SubmissionType
  <2>2. orders[KeyOf(x)].order \in OrderType
    BY <1>7, <2>1 DEF Replay, NewKey, KeyOf, TypeOK, StoredOrder, RequestType
  <2> QED BY <1>3, <1>7, <2>2 DEF Replay, Status
<1>8. CASE UNCHANGED vars
  BY <1>8 DEF vars, TypeOK
<1> QED
  BY <1>1, <1>2, <1>3, <1>4, <1>5, <1>6, <1>7, <1>8
  DEF Next, RefuseMalformed, Deny, RefuseChangedReplay, RefuseSpentNonce, Status

LEMMA TypeInit == Init => TypeOK
  BY OriginAssumption, NoOrderAssumption DEF Init, TypeOK, Fresh, ExchangeType

(* Every variable keeps its type, whatever the constants. *)
THEOREM TypeCorrect == Spec => []TypeOK
  BY TypeInit, TypeStep, PTL DEF Spec
-----------------------------------------------------------------------------
(* The invariants the runs check, with the history of past lives. *)
Histories == OnlyTheEmptyKeyIsForgotten /\ KeyNamesOneRequest /\ VerdictIsStable

-----------------------------------------------------------------------------
LEMMA OriginInit == Init => OriginInv /\ Histories
<1> SUFFICES ASSUME Init PROVE OriginInv /\ Histories
  OBVIOUS
<1>1. TypeOK
  BY TypeInit
<1>2. \A x \in Exchange : exchange[x].stage = "new"
  BY DEF Init, Fresh
<1>3. MapsAgree
  BY OriginAssumption DEF Init, MapsAgree, Bought
<1>4. StoredUnderItsKey
  BY DEF Init, StoredUnderItsKey
<1> QED
  BY <1>1, <1>2, <1>3, <1>4
  DEF OriginInv, AuthorizationKept, GrantMatchesRequest, CurrentGrantStored,
      CurrentConflictStands, AnsweredBeforeNow, Histories, OnlyTheEmptyKeyIsForgotten,
      KeyNamesOneRequest, VerdictIsStable, Answered

(* A request in hand has its fields in the constants' sets. *)
LEMMA RequestTyped ==
  ASSUME TypeOK, NEW x \in Exchange, exchange[x].stage # "new"
  PROVE  /\ Request(x) \in RequestType
         /\ KeyOf(x) \in Key /\ Request(x).nonce \in Nonce
         /\ Request(x).key = KeyOf(x)
  BY OriginAssumption
  DEF TypeOK, Request, KeyOf, SubmissionType, RequestType

(* What an answer does to one exchange, field by field. *)
LEMMA AnswerFields ==
  ASSUME TypeOK, NEW x \in Exchange, NEW st, NEW o, Answer(x, st, o)
  PROVE  /\ exchange'[x].stage = "answered" /\ exchange'[x].status = st
         /\ exchange'[x].order = o /\ exchange'[x].lifetime = lifetime
         /\ exchange'[x].submission = exchange[x].submission
         /\ exchange'[x].authorizedAt = exchange[x].authorizedAt
         /\ \A y \in Exchange : y # x => exchange'[y] = exchange[y]
  BY DEF Answer, TypeOK, ExchangeType

(* An answer other than 201 leaves the Maps alone and needs no more than a *)
(* reason for a 409.                                                       *)
LEMMA RefusalStep ==
  ASSUME OriginInv, TypeOK', NEW x \in Exchange, NEW st \in {400, 403, 409},
         exchange[x].stage # "new", Reply(x, st, NoOrder),
         st = 409 => InConflict(Request(x))
  PROVE  OriginInv'
<1> USE DEF OriginInv
<1>1. /\ orders' = orders /\ consumedNonces' = consumedNonces
      /\ lifetime' = lifetime /\ minted' = minted /\ Answer(x, st, NoOrder)
  BY DEF Reply
<1>2. /\ exchange'[x].stage = "answered" /\ exchange'[x].status = st
      /\ exchange'[x].lifetime = lifetime
      /\ exchange'[x].submission = exchange[x].submission
      /\ \A y \in Exchange : y # x => exchange'[y] = exchange[y]
  BY <1>1, AnswerFields
<1>3. MapsAgree' /\ StoredUnderItsKey'
  BY <1>1 DEF MapsAgree, Bought, StoredUnderItsKey
<1>4. AuthorizationKept' /\ GrantMatchesRequest' /\ CurrentGrantStored'
  BY <1>1, <1>2
  DEF AuthorizationKept, GrantMatchesRequest, CurrentGrantStored, Answered,
      Current, Request, KeyOf
<1>5. CurrentConflictStands'
  BY <1>1, <1>2
  DEF CurrentConflictStands, InConflict, NonceFree, Answered, Current, Request
<1>6. AnsweredBeforeNow'
  BY <1>1, <1>2 DEF AnsweredBeforeNow, TypeOK
<1> QED BY <1>3, <1>4, <1>5, <1>6

(* An exchange that is not answered moves on without touching the Maps. *)
LEMMA ProgressStep ==
  ASSUME OriginInv, TypeOK', NEW x \in Exchange, Receive(x) \/ Authorize(x)
  PROVE  OriginInv'
<1> USE DEF OriginInv
<1>1. /\ orders' = orders /\ consumedNonces' = consumedNonces
      /\ lifetime' = lifetime /\ minted' = minted
  BY DEF Receive, Authorize
<1>2. /\ exchange'[x].stage \in {"received", "authorized"}
      /\ \A y \in Exchange : y # x => exchange'[y] = exchange[y]
  BY DEF Receive, Authorize, TypeOK, ExchangeType
<1>3. MapsAgree' /\ StoredUnderItsKey'
  BY <1>1 DEF MapsAgree, Bought, StoredUnderItsKey
<1>4. /\ GrantMatchesRequest' /\ CurrentGrantStored'
      /\ CurrentConflictStands' /\ AnsweredBeforeNow'
  BY <1>1, <1>2
  DEF GrantMatchesRequest, CurrentGrantStored, CurrentConflictStands,
      InConflict, NonceFree, AnsweredBeforeNow, Answered, Current, Request, KeyOf
<1>5. AuthorizationKept'
  <2>1. CASE Receive(x)
    <3>1. exchange'[x].stage = "received"
      BY <2>1 DEF Receive, TypeOK, ExchangeType
    <3> QED BY <1>2, <3>1 DEF AuthorizationKept, Answered, Request
  <2>2. CASE Authorize(x)
    <3>1. /\ exchange'[x].submission = exchange[x].submission
          /\ exchange'[x].authorizedAt = clock
          /\ exchange[x].submission \in Submission
      BY <2>2 DEF Authorize, TypeOK, ExchangeType
    <3>2. Authorized(exchange[x].submission, clock)
      BY <2>2 DEF Authorize
    <3>3. exchange[x].submission.credential \in Attestation
      BY <3>1, <3>2, OriginAssumption DEF Authorized, SubmissionType
    <3>4. Covered(exchange[x].submission, clock)
      BY <3>2, <3>3, OriginAssumption
      DEF Authorized, Verifies, SignatureMatches, AttestationType, TypeOK, Covered
    <3> QED
      BY <1>2, <3>1, <3>4 DEF AuthorizationKept, Answered
  <2> QED BY <2>1, <2>2
<1> QED BY <1>3, <1>4, <1>5

LEMMA ReplayStep ==
  ASSUME OriginInv, TypeOK', NEW x \in Exchange, Replay(x)
  PROVE  OriginInv'
<1> USE DEF OriginInv
<1> DEFINE o == orders[KeyOf(x)].order
<1>1. /\ orders' = orders /\ consumedNonces' = consumedNonces
      /\ lifetime' = lifetime /\ minted' = minted /\ Answer(x, 201, o)
  BY DEF Replay, Reply
<1>2. /\ exchange[x].stage = "authorized"
      /\ orders[KeyOf(x)] # NoOrder /\ orders[KeyOf(x)].request = Request(x)
      /\ KeyOf(x) \in Key
  BY RequestTyped DEF Replay, NewKey, SameRequest
<1>3. /\ exchange'[x].stage = "answered" /\ exchange'[x].status = 201
      /\ exchange'[x].order = o /\ exchange'[x].lifetime = lifetime
      /\ exchange'[x].submission = exchange[x].submission
      /\ exchange'[x].authorizedAt = exchange[x].authorizedAt
      /\ \A y \in Exchange : y # x => exchange'[y] = exchange[y]
  BY <1>1, AnswerFields
<1>4. MapsAgree' /\ StoredUnderItsKey'
  BY <1>1 DEF MapsAgree, Bought, StoredUnderItsKey
<1>5. AuthorizationKept'
  BY <1>2, <1>3 DEF AuthorizationKept, Answered
<1>6. o \in OrderType /\ OrderMatches(o, Request(x))
  <2>1. OrderMatches(o, Request(x))
    BY <1>2 DEF StoredUnderItsKey
  <2>2. orders[KeyOf(x)] \in StoredOrder
    BY <1>2 DEF TypeOK
  <2> QED BY <2>1, <2>2 DEF StoredOrder
<1>7. GrantMatchesRequest'
  <2>1. ASSUME NEW y \in Exchange, y # x, Answered(y, 201)'
        PROVE  /\ exchange'[y].order \in OrderType
               /\ OrderMatches(exchange'[y].order, Request(y)')
    <3>1. exchange'[y] = exchange[y] /\ Request(y)' = Request(y) /\ Answered(y, 201)
      BY <1>3, <2>1 DEF Answered, Request
    <3>2. /\ exchange[y].order \in OrderType
          /\ OrderMatches(exchange[y].order, Request(y))
      BY <3>1 DEF GrantMatchesRequest
    <3> QED BY <3>1, <3>2
  <2>2. /\ exchange'[x].order \in OrderType
        /\ OrderMatches(exchange'[x].order, Request(x)')
    <3>1. exchange'[x].order = o /\ Request(x)' = Request(x)
      BY <1>3 DEF Request
    <3> HIDE DEF o
    <3> QED BY <1>6, <3>1
  <2> QED BY <2>1, <2>2 DEF GrantMatchesRequest
<1>8. CurrentGrantStored' /\ CurrentConflictStands'
  <2>1. ASSUME NEW y \in Exchange, y # x
        PROVE  /\ Answered(y, 201)' = Answered(y, 201)
               /\ Answered(y, 409)' = Answered(y, 409)
               /\ Current(y)' = Current(y)
               /\ KeyOf(y)' = KeyOf(y) /\ Request(y)' = Request(y)
               /\ exchange'[y] = exchange[y]
    BY <2>1, <1>1, <1>3 DEF Answered, Current, KeyOf, Request
  <2>2. ~Answered(x, 409)' /\ KeyOf(x)' = KeyOf(x) /\ Request(x)' = Request(x)
    BY <1>3 DEF Answered, KeyOf, Request
  <2>3. CurrentGrantStored'
    BY <1>1, <1>2, <1>3, <2>1, <2>2 DEF CurrentGrantStored
  <2>4. CurrentConflictStands'
    BY <1>1, <2>1, <2>2 DEF CurrentConflictStands, InConflict, NonceFree
  <2> QED BY <2>3, <2>4
<1>9. AnsweredBeforeNow'
  BY <1>1, <1>3 DEF AnsweredBeforeNow, TypeOK
<1> QED BY <1>4, <1>5, <1>7, <1>8, <1>9

(* The commit: a new key takes an unspent nonce. *)
LEMMA CreateStep ==
  ASSUME OriginInv, TypeOK', NEW x \in Exchange, CreateOrder(x)
  PROVE  OriginInv'
<1> USE DEF OriginInv
<1> DEFINE r == Request(x)
           k == KeyOf(x)
           o == OrderFor(r)
<1>1. /\ lifetime' = lifetime /\ Answer(x, 201, o)
      /\ exchange[x].stage = "authorized" /\ orders[k] = NoOrder
      /\ consumedNonces[r.nonce] \in {NoKey, EmptyKey, k}
  BY DEF CreateOrder, NewKey, NonceFree
<1>2. k \in Key /\ r.nonce \in Nonce /\ r.key = k /\ r \in RequestType
  BY <1>1, RequestTyped
<1>3. /\ orders'[k].order = o /\ orders'[k].request = r
      /\ \A j \in Key : j # k => orders'[j] = orders[j]
  BY <1>2 DEF CreateOrder, TypeOK
<1>4. orders'[k] # NoOrder
  <2>1. orders'[k] = [order |-> o, request |-> r]
    BY <1>2 DEF CreateOrder, TypeOK
  <2>2. orders'[k] \in StoredOrder
    <3>1. o \in OrderType
      BY <1>2 DEF OrderFor, OrderType, RequestType, TypeOK
    <3> QED BY <2>1, <3>1, <1>2 DEF StoredOrder
  <2> QED BY <2>2, NoOrderAssumption
<1>5. /\ consumedNonces'[r.nonce] = k
      /\ \A n \in Nonce : n # r.nonce => consumedNonces'[n] = consumedNonces[n]
  BY <1>2 DEF CreateOrder, Consume, TypeOK
<1>6. /\ consumedNonces[r.nonce] \in {NoKey, EmptyKey}
      /\ consumedNonces[r.nonce] # k
  BY <1>1, <1>2, OriginAssumption DEF MapsAgree, Bought
<1>7. /\ exchange'[x].stage = "answered" /\ exchange'[x].status = 201
      /\ exchange'[x].order = o /\ exchange'[x].lifetime = lifetime
      /\ exchange'[x].submission = exchange[x].submission
      /\ exchange'[x].authorizedAt = exchange[x].authorizedAt
      /\ \A y \in Exchange : y # x => exchange'[y] = exchange[y]
  BY <1>1, AnswerFields
<1>8. o \in OrderType /\ OrderMatches(o, r)
  <2>1. \A a, b \in Nat : a * b \in Nat
    OBVIOUS
  <2> QED
    BY <1>2, <2>1 DEF OrderMatches, OrderFor, OrderType, RequestType, TypeOK
<1>a. o.id = minted /\ minted' = minted + 1 /\ minted \in Nat
  BY DEF OrderFor, CreateOrder, TypeOK
<1> HIDE DEF o
<1>9. MapsAgree'
  <2> SUFFICES ASSUME NEW j \in Key, NEW n \in Nonce
               PROVE  /\ consumedNonces'[n] = j => Bought(j, n)'
                      /\ Bought(j, n)' =>
                           \/ consumedNonces'[n] = j
                           \/ /\ j = EmptyKey
                              /\ consumedNonces'[n] \in NamedKey
                              /\ orders'[j].order.id < orders'[consumedNonces'[n]].order.id
    BY DEF MapsAgree
  <2>1. CASE j = k
    BY <2>1, <1>1, <1>2, <1>3, <1>4, <1>5 DEF MapsAgree, Bought
  <2>2. CASE j # k
    <3>1. Bought(j, n)' <=> Bought(j, n)
      BY <2>2, <1>3 DEF Bought
    <3>2. CASE n # r.nonce
      <4>1. consumedNonces'[n] = consumedNonces[n]
        BY <3>2, <1>5
      <4>2. Bought(j, n) /\ consumedNonces[n] # j =>
              /\ j = EmptyKey /\ consumedNonces[n] \in NamedKey
              /\ orders[j].order.id < orders[consumedNonces[n]].order.id
              /\ Bought(consumedNonces[n], n)
        BY DEF MapsAgree, NamedKey
      <4>3. Bought(consumedNonces[n], n) => consumedNonces[n] # k
        BY <1>1 DEF Bought
      <4> QED
        BY <2>2, <3>1, <4>1, <4>2, <4>3, <1>3 DEF MapsAgree, NamedKey
    <3>3. CASE n = r.nonce
      <4>1. consumedNonces'[n] = k
        BY <3>3, <1>5
      <4>2. ASSUME Bought(j, n)
            PROVE  /\ j = EmptyKey /\ k \in NamedKey
                   /\ orders[j].order.id < minted
        <5>1. consumedNonces[n] = j
          BY <3>3, <4>2, <1>6, OriginAssumption DEF MapsAgree, NamedKey
        <5>2. j = EmptyKey /\ k \in NamedKey
          BY <2>2, <3>3, <5>1, <1>2, <1>6, OriginAssumption DEF NamedKey
        <5> QED
          BY <4>2, <5>2 DEF StoredUnderItsKey, Bought
      <4>3. orders'[j] = orders[j] /\ orders'[k].order.id = minted
        BY <2>2, <1>3, <1>a
      <4> QED
        BY <2>2, <3>1, <4>1, <4>2, <4>3
    <3> QED BY <3>2, <3>3
  <2> QED BY <2>1, <2>2
<1>10. StoredUnderItsKey'
  <2>1. ASSUME NEW j \in Key, j # k, orders'[j] # NoOrder
        PROVE  /\ orders'[j].request.key = j
               /\ OrderMatches(orders'[j].order, orders'[j].request)
               /\ orders'[j].order.id < minted'
    <3>1. orders'[j] = orders[j] /\ orders[j].order.id < minted
      BY <2>1, <1>3 DEF StoredUnderItsKey
    <3>2. orders[j].order.id \in Nat
      BY <2>1, <3>1 DEF TypeOK, StoredOrder, OrderType
    <3> QED
      BY <2>1, <3>1, <3>2, <1>a DEF StoredUnderItsKey
  <2>2. /\ orders'[k].request.key = k
        /\ OrderMatches(orders'[k].order, orders'[k].request)
        /\ orders'[k].order.id < minted'
    BY <1>2, <1>3, <1>8, <1>a
  <2> QED BY <2>1, <2>2 DEF StoredUnderItsKey
<1>11. AuthorizationKept'
  BY <1>1, <1>7 DEF AuthorizationKept, Answered
<1>12. GrantMatchesRequest'
  BY <1>7, <1>8 DEF GrantMatchesRequest, Answered, Request, OrderMatches
<1>13. CurrentGrantStored'
  <2> SUFFICES ASSUME NEW y \in Exchange, Answered(y, 201)', Current(y)'
               PROVE  /\ orders'[KeyOf(y)'] # NoOrder
                      /\ orders'[KeyOf(y)'].request = Request(y)'
                      /\ orders'[KeyOf(y)'].order = exchange'[y].order
    BY DEF CurrentGrantStored
  <2>1. CASE y = x
    BY <2>1, <1>3, <1>4, <1>7 DEF Request, KeyOf
  <2>2. CASE y # x
    <3>1. /\ Answered(y, 201) /\ Current(y)
          /\ KeyOf(y)' = KeyOf(y) /\ Request(y)' = Request(y)
          /\ exchange'[y] = exchange[y]
      BY <2>2, <1>1, <1>7 DEF Answered, Current, KeyOf, Request
    <3>2. /\ orders[KeyOf(y)] # NoOrder /\ orders[KeyOf(y)].request = Request(y)
          /\ orders[KeyOf(y)].order = exchange[y].order /\ KeyOf(y) \in Key
      BY <3>1, RequestTyped DEF CurrentGrantStored, Answered
    <3>3. KeyOf(y) # k
      BY <1>1, <3>2
    <3> QED BY <1>3, <3>1, <3>2, <3>3
  <2> QED BY <2>1, <2>2
<1>14. CurrentConflictStands'
  <2> SUFFICES ASSUME NEW y \in Exchange, Answered(y, 409)', Current(y)'
               PROVE  InConflict(Request(y))'
    BY DEF CurrentConflictStands
  <2>1. y # x
    BY <1>7 DEF Answered
  <2>2. /\ Answered(y, 409) /\ Current(y) /\ Request(y)' = Request(y)
    BY <2>1, <1>1, <1>7 DEF Answered, Current, Request
  <2> DEFINE q == Request(y)
  <2>3. q.key \in Key /\ q.nonce \in Nonce
    BY <2>2, RequestTyped DEF Answered
  <2>4. InConflict(q)
    BY <2>2 DEF CurrentConflictStands
  <2>5. CASE orders[q.key] # NoOrder /\ orders[q.key].request # q
    <3>1. orders'[q.key] # NoOrder /\ orders'[q.key].request # q
      BY <2>3, <2>5, <1>1, <1>3
    <3> QED
      BY <2>2, <3>1 DEF InConflict
  <2>6. CASE orders[q.key] = NoOrder /\ ~NonceFree(q.key, q.nonce)
    <3>1. q # r
      BY <2>6, <1>1, <1>2 DEF NonceFree
    <3>2. consumedNonces'[q.nonce] = consumedNonces[q.nonce]
      BY <2>3, <2>6, <1>5, <1>6 DEF NonceFree
    <3>3. CASE q.key = k
      <4>1. orders'[q.key] # NoOrder /\ orders'[q.key].request # q
        BY <3>1, <3>3, <1>3, <1>4
      <4> QED
        BY <2>2, <4>1 DEF InConflict
    <3>4. CASE q.key # k
      <4>1. orders'[q.key] = NoOrder
        BY <2>3, <2>6, <3>4, <1>3
      <4> QED
        BY <2>2, <2>6, <3>2, <4>1 DEF InConflict, NonceFree
    <3> QED BY <3>3, <3>4
  <2> QED BY <2>4, <2>5, <2>6 DEF InConflict
<1>15. AnsweredBeforeNow'
  BY <1>1, <1>7 DEF AnsweredBeforeNow, TypeOK
<1> QED BY <1>9, <1>10, <1>11, <1>12, <1>13, <1>14, <1>15

LEMMA RestartStep == OriginInv /\ TypeOK' /\ Restart => OriginInv'
<1> SUFFICES ASSUME OriginInv, TypeOK', Restart PROVE OriginInv'
  OBVIOUS
<1> USE DEF OriginInv
<1>1. /\ orders' = [k \in Key |-> NoOrder]
      /\ consumedNonces' = [n \in Nonce |-> NoKey]
      /\ lifetime' = lifetime + 1
  BY DEF Restart, OrdersAtBoot
<1>2. \A x \in Exchange :
        \/ exchange'[x].stage = "lost"
        \/ exchange'[x] = exchange[x] /\ exchange[x].stage # "authorized"
  BY DEF Restart, TypeOK, ExchangeType
<1>3. MapsAgree' /\ StoredUnderItsKey'
  BY <1>1, OriginAssumption DEF MapsAgree, Bought, StoredUnderItsKey
<1>4. AuthorizationKept' /\ GrantMatchesRequest'
  BY <1>2 DEF AuthorizationKept, GrantMatchesRequest, Answered, Request, OrderMatches
<1>5. AnsweredBeforeNow'
  BY <1>1, <1>2 DEF AnsweredBeforeNow, TypeOK, ExchangeType
<1>6. \A x \in Exchange : exchange'[x].stage = "answered" => ~Current(x)'
  <2> SUFFICES ASSUME NEW x \in Exchange, exchange'[x].stage = "answered"
               PROVE  exchange'[x].lifetime # lifetime'
    BY DEF Current
  <2>1. exchange'[x] = exchange[x] /\ exchange[x].lifetime <= lifetime
    BY <1>2 DEF AnsweredBeforeNow
  <2>2. exchange[x].lifetime \in Nat /\ lifetime \in Nat
    BY DEF TypeOK, ExchangeType
  <2> QED BY <1>1, <2>1, <2>2
<1>7. CurrentGrantStored' /\ CurrentConflictStands'
  BY <1>6 DEF CurrentGrantStored, CurrentConflictStands, Answered
<1> QED BY <1>3, <1>4, <1>5, <1>7

LEMMA OriginStep == OriginInv /\ [Next]_vars => OriginInv'
<1> SUFFICES ASSUME OriginInv, [Next]_vars PROVE OriginInv'
  OBVIOUS
<1>0. TypeOK'
  BY TypeStep DEF OriginInv
<1>1. ASSUME NEW x \in Exchange, Receive(x) \/ Authorize(x) PROVE OriginInv'
  BY <1>0, <1>1, ProgressStep
<1>2. ASSUME NEW x \in Exchange, RefuseMalformed(x) \/ Deny(x) PROVE OriginInv'
  BY <1>0, <1>2, RefusalStep DEF RefuseMalformed, Deny
<1>3. ASSUME NEW x \in Exchange, RefuseChangedReplay(x) PROVE OriginInv'
  BY <1>0, <1>3, RefusalStep
  DEF RefuseChangedReplay, NewKey, SameRequest, InConflict, KeyOf
<1>4. ASSUME NEW x \in Exchange, RefuseSpentNonce(x) PROVE OriginInv'
  BY <1>0, <1>4, RefusalStep DEF RefuseSpentNonce, NewKey, InConflict, KeyOf
<1>5. ASSUME NEW x \in Exchange, Replay(x) PROVE OriginInv'
  BY <1>0, <1>5, ReplayStep
<1>6. ASSUME NEW x \in Exchange, CreateOrder(x) PROVE OriginInv'
  BY <1>0, <1>6, CreateStep
<1>7. CASE Restart
  BY <1>0, <1>7, RestartStep
<1>8. CASE Tick \/ UNCHANGED vars
  BY <1>0, <1>8
  DEF OriginInv, Tick, vars, MapsAgree, Bought, StoredUnderItsKey, AuthorizationKept,
      GrantMatchesRequest, CurrentGrantStored, CurrentConflictStands,
      InConflict, NonceFree, AnsweredBeforeNow, Answered, Current, Request, KeyOf, OrderMatches
<1> QED
  BY <1>1, <1>2, <1>3, <1>4, <1>5, <1>6, <1>7, <1>8 DEF Next

THEOREM OriginInvariant == Spec => []OriginInv
  BY OriginInit, OriginStep, PTL DEF Spec

(* GrantIsCovered follows from the invariant in each state. *)
THEOREM GrantCoverage == Spec => []GrantIsCovered
<1>1. OriginInv => GrantIsCovered
  <2> SUFFICES ASSUME OriginInv, NEW x \in Exchange, Answered(x, 201)
               PROVE  LET a == exchange[x].submission.credential
                      IN  /\ a \in Attestation
                          /\ a.signedWith = OriginSecret
                          /\ exchange[x].authorizedAt < a.expiresAt
                          /\ exchange[x].order.vendor = a.vendor
                          /\ exchange[x].order.terms = a.terms
                          /\ exchange[x].order.quantity <= a.maxQuantity
                          /\ exchange[x].order.total <= a.maxAmount
                          /\ exchange[x].order.total <= MaxSafeInteger
    BY DEF GrantIsCovered
  <2>1. Covered(exchange[x].submission, exchange[x].authorizedAt)
    BY DEF OriginInv, AuthorizationKept
  <2>2. OrderMatches(exchange[x].order, Request(x))
    BY DEF OriginInv, GrantMatchesRequest
  <2> QED BY <2>1, <2>2 DEF Covered, Binds, OrderMatches, Request
<1> QED BY <1>1, OriginInvariant, PTL
-----------------------------------------------------------------------------
(* An answer is never altered, and a new one belongs to the current life.  *)
LEMMA AnswersAreKept ==
  ASSUME TypeOK, AnsweredBeforeNow, [Next]_vars, NEW x \in Exchange,
         exchange'[x].stage = "answered"
  PROVE  exchange'[x] = exchange[x] \/ Current(x)'
<1>1. ASSUME NEW y \in Exchange, NEW st, NEW o, Answer(y, st, o),
             lifetime' = lifetime
      PROVE  exchange'[x] = exchange[x] \/ Current(x)'
  BY <1>1, AnswerFields DEF Current
<1>2. ASSUME NEW y \in Exchange, Receive(y) \/ Authorize(y)
      PROVE  exchange'[x] = exchange[x]
  BY <1>2 DEF Receive, Authorize, TypeOK, ExchangeType
<1>3. CASE Restart
  BY <1>3 DEF Restart, TypeOK, ExchangeType
<1> QED
  BY <1>1, <1>2, <1>3
  DEF Next, vars, Tick, RefuseMalformed, Deny, RefuseChangedReplay, Replay,
      RefuseSpentNonce, CreateOrder, Reply

(* What the three histories say of a 201 of x and an answer of y. *)
Agree(x, y) ==
  /\ /\ Answered(y, 201) /\ Request(x).nonce = Request(y).nonce
     /\ exchange[x].order # exchange[y].order
     /\ exchange[x].order.id <= exchange[y].order.id
     => KeyOf(x) = EmptyKey /\ KeyOf(y) # EmptyKey
  /\ Answered(y, 201) /\ KeyOf(x) = KeyOf(y)
     => Request(x) = Request(y) /\ exchange[x].order = exchange[y].order
  /\ Answered(y, 409) => Request(x) # Request(y)

LEMMA HistoriesAgree ==
  Histories <=> \A x, y \in Exchange :
                  Answered(x, 201) /\ SameLifetime(x, y) => Agree(x, y)
BY DEF Histories, Agree, OnlyTheEmptyKeyIsForgotten, KeyNamesOneRequest,
       VerdictIsStable

(* Two answers of the current life agree because both agree with the Maps. *)
LEMMA CurrentAnswersAgree ==
  ASSUME OriginInv, NEW x \in Exchange, NEW y \in Exchange,
         Answered(x, 201), Current(x), Current(y)
  PROVE  Agree(x, y)
<1> USE DEF OriginInv
<1> DEFINE n == Request(x).nonce
<1>1. /\ orders[KeyOf(x)] # NoOrder /\ orders[KeyOf(x)].request = Request(x)
      /\ orders[KeyOf(x)].order = exchange[x].order
      /\ KeyOf(x) \in Key /\ n \in Nonce
  BY RequestTyped DEF CurrentGrantStored, Answered
<1>2. CASE Answered(y, 201)
  <2>1. /\ orders[KeyOf(y)] # NoOrder /\ orders[KeyOf(y)].request = Request(y)
        /\ orders[KeyOf(y)].order = exchange[y].order
        /\ KeyOf(y) \in Key
    BY <1>2, RequestTyped DEF CurrentGrantStored, Answered
  <2>2. ASSUME Request(y).nonce = n,
               exchange[x].order # exchange[y].order,
               exchange[x].order.id <= exchange[y].order.id
        PROVE  KeyOf(x) = EmptyKey /\ KeyOf(y) # EmptyKey
    <3>1. KeyOf(x) # KeyOf(y) /\ Bought(KeyOf(x), n) /\ Bought(KeyOf(y), n)
      BY <1>1, <2>1, <2>2 DEF Bought
    <3>2. exchange[x].order.id \in Nat /\ exchange[y].order.id \in Nat
      <4>1. orders[KeyOf(x)] \in StoredOrder /\ orders[KeyOf(y)] \in StoredOrder
        BY <1>1, <2>1 DEF TypeOK
      <4> QED BY <1>1, <2>1, <4>1 DEF StoredOrder, OrderType
    <3>3. CASE consumedNonces[n] = KeyOf(x)
      <4>1. orders[KeyOf(y)].order.id < orders[KeyOf(x)].order.id
        BY <1>1, <2>1, <3>1, <3>3 DEF MapsAgree
      <4> QED BY <1>1, <2>1, <2>2, <3>2, <4>1
    <3>4. CASE consumedNonces[n] # KeyOf(x)
      BY <1>1, <3>1, <3>4 DEF MapsAgree
    <3> QED BY <3>3, <3>4
  <2> QED BY <1>1, <1>2, <2>1, <2>2 DEF Agree, Answered
<1>3. CASE Answered(y, 409)
  <2>1. InConflict(Request(y))
    BY <1>3 DEF CurrentConflictStands
  <2> QED BY <1>1, <1>3, <2>1 DEF Agree, Answered, InConflict, KeyOf
<1> QED BY <1>2, <1>3 DEF Agree

LEMMA HistoriesStep ==
  OriginInv /\ Histories /\ [Next]_vars => Histories'
<1> SUFFICES ASSUME OriginInv, Histories, [Next]_vars,
                    NEW x \in Exchange, NEW y \in Exchange,
                    Answered(x, 201)', Answered(y, 201)' \/ Answered(y, 409)',
                    SameLifetime(x, y)'
             PROVE  Agree(x, y)'
  <2>1. (Histories <=> \A x, y \in Exchange :
                         Answered(x, 201) /\ SameLifetime(x, y) => Agree(x, y))'
    BY HistoriesAgree, PTL
  <2> QED BY <2>1 DEF Agree
<1>1. OriginInv'
  BY OriginStep
<1>2. CASE exchange'[x] = exchange[x] /\ exchange'[y] = exchange[y]
  <2>1. Answered(x, 201) /\ SameLifetime(x, y)
    BY <1>2 DEF Answered, SameLifetime
  <2>2. Agree(x, y)
    BY <2>1, HistoriesAgree
  <2> QED
    BY <1>2, <2>2 DEF Agree, Answered, Request, KeyOf
<1>3. CASE Current(x)' \/ Current(y)'
  <2>1. Current(x)' /\ Current(y)'
    BY <1>3 DEF Current, SameLifetime
  <2>2. (OriginInv /\ Answered(x, 201) /\ Current(x) /\ Current(y)
         => Agree(x, y))'
    BY CurrentAnswersAgree, PTL
  <2> QED BY <1>1, <2>1, <2>2
<1> QED
  BY <1>2, <1>3, AnswersAreKept DEF OriginInv, Answered

LEMMA AnswersAgree == Spec => []Histories
<1>1. Init => OriginInv /\ Histories
  BY OriginInit
<1>2. OriginInv /\ Histories /\ [Next]_vars => (OriginInv /\ Histories)'
  BY OriginStep, HistoriesStep
<1> QED BY <1>1, <1>2, PTL DEF Spec

(* The next three hold in each life of the process, for any interleaving   *)
(* of any number of requests (createPurchaseOrder, procurement).           *)

(* A nonce buys twice only if the empty key bought first, which the        *)
(* truthiness test on the owner forgets: among other keys, a capability    *)
(* buys one order.                                                         *)
THEOREM CapabilityBuysOnce == Spec => []OnlyTheEmptyKeyIsForgotten
<1>1. Histories => OnlyTheEmptyKeyIsForgotten
  BY DEF Histories
<1> QED BY <1>1, AnswersAgree, PTL

(* An idempotency key names one request and one order.                     *)
THEOREM KeysNameRequests == Spec => []KeyNamesOneRequest
<1>1. Histories => KeyNamesOneRequest
  BY DEF Histories
<1> QED BY <1>1, AnswersAgree, PTL

(* A request that was accepted is never told that it conflicts, nor one    *)
(* that conflicts that it is accepted.                                     *)
THEOREM VerdictsAreStable == Spec => []VerdictIsStable
<1>1. Histories => VerdictIsStable
  BY DEF Histories
<1> QED BY <1>1, AnswersAgree, PTL

(* The order of a 201 is an order. *)
LEMMA GrantedOrderTyped ==
  ASSUME OriginInv, NEW x \in Exchange, Answered(x, 201)
  PROVE  exchange[x].order \in OrderType
  BY DEF OriginInv, GrantMatchesRequest

(* Orders that are each of another life of the process are no more than    *)
(* there were lives.                                                       *)
LEMMA OneForEachLife ==
  ASSUME NEW S, NEW b \in Nat, NEW life \in [S -> 0 .. b],
         \A o, p \in S : life[o] = life[p] => o = p
  PROVE  IsFiniteSet(S) /\ Cardinality(S) <= b + 1
<1>1. life \in Injection(S, 0 .. b)
  BY DEF Injection, IsInjective
<1>2. IsFiniteSet(0 .. b) /\ Cardinality(0 .. b) = b + 1
  BY FS_Interval
<1> QED
  BY <1>1, <1>2, FS_Injection

(* Under keys of which no two answers of a life disagree, a nonce bought   *)
(* no more orders than there were lives.                                   *)
LEMMA OneInEachLife ==
  ASSUME OriginInv, NEW n \in Nonce, NEW keys,
         \A x, y \in Exchange :
           /\ Answered(x, 201) /\ Answered(y, 201) /\ SameLifetime(x, y)
           /\ Request(x).nonce = n /\ Request(y).nonce = n
           /\ KeyOf(x) \in keys /\ KeyOf(y) \in keys
           => exchange[x].order = exchange[y].order
  PROVE  /\ IsFiniteSet(OrdersOf(n, keys))
         /\ Cardinality(OrdersOf(n, keys)) <= lifetime + 1
<1> DEFINE grants == {y \in Exchange : Answered(y, 201) /\ Request(y).nonce = n
                                         /\ KeyOf(y) \in keys}
           grant(o) == CHOOSE x \in grants : exchange[x].order = o
           life == [o \in OrdersOf(n, keys) |-> exchange[grant(o)].lifetime]
<1>1. ASSUME NEW o \in OrdersOf(n, keys)
      PROVE  grant(o) \in grants /\ exchange[grant(o)].order = o
  BY DEF OrdersOf
<1>2. lifetime \in Nat
  BY DEF OriginInv, TypeOK
<1>3. life \in [OrdersOf(n, keys) -> 0 .. lifetime]
  <2>1. ASSUME NEW x \in grants PROVE exchange[x].lifetime \in 0 .. lifetime
    BY <1>2 DEF Answered, OriginInv, TypeOK, ExchangeType, AnsweredBeforeNow
  <2> HIDE DEF grants, grant
  <2> QED BY <1>1, <2>1
<1>4. ASSUME NEW o \in OrdersOf(n, keys), NEW p \in OrdersOf(n, keys),
             life[o] = life[p]
      PROVE  o = p
  <2>1. ASSUME NEW x \in grants, NEW y \in grants,
               exchange[x].lifetime = exchange[y].lifetime
        PROVE  exchange[x].order = exchange[y].order
    BY <2>1 DEF SameLifetime
  <2>2. exchange[grant(o)].lifetime = exchange[grant(p)].lifetime
    BY <1>4
  <2> HIDE DEF grants, grant, life
  <2> QED BY <1>1, <2>1, <2>2
<1> HIDE DEF life
<1> QED BY <1>2, <1>3, <1>4, OneForEachLife

(* Over all lives of the process together, a capability bought at most one *)
(* order in each under named keys, and two in each under any: what         *)
(* createPurchaseOrder forgets are its Maps at a restart, and the empty    *)
(* key's claim on a nonce.                                                 *)
THEOREM CapabilityExposure == Spec => []ExposureIsBounded
<1>1. OriginInv /\ Histories => ExposureIsBounded
  <2> SUFFICES ASSUME OriginInv, Histories, NEW n \in Nonce
               PROVE  /\ Cardinality(OrdersOf(n, NamedKey)) <= lifetime + 1
                      /\ Cardinality(OrdersOf(n, Key)) <= 2 * (lifetime + 1)
    BY DEF ExposureIsBounded
  <2>1. /\ IsFiniteSet(OrdersOf(n, NamedKey))
        /\ Cardinality(OrdersOf(n, NamedKey)) <= lifetime + 1
    <3>1. ASSUME NEW x \in Exchange, NEW y \in Exchange,
                 Answered(x, 201), Answered(y, 201), SameLifetime(x, y),
                 Request(x).nonce = n, Request(y).nonce = n,
                 KeyOf(x) \in NamedKey, KeyOf(y) \in NamedKey
          PROVE  exchange[x].order = exchange[y].order
      <4>1. exchange[x].order.id \in Int /\ exchange[y].order.id \in Int
        <5>1. exchange[x].order \in OrderType /\ exchange[y].order \in OrderType
          BY <3>1, GrantedOrderTyped
        <5> QED BY <5>1 DEF OrderType
      <4>2. SameLifetime(y, x)
        BY <3>1 DEF SameLifetime
      <4> QED
        BY <3>1, <4>1, <4>2 DEF Histories, OnlyTheEmptyKeyIsForgotten, NamedKey
    <3> QED BY <3>1, OneInEachLife
  <2>2. /\ IsFiniteSet(OrdersOf(n, {EmptyKey}))
        /\ Cardinality(OrdersOf(n, {EmptyKey})) <= lifetime + 1
    <3>1. ASSUME NEW x \in Exchange, NEW y \in Exchange,
                 Answered(x, 201), Answered(y, 201), SameLifetime(x, y),
                 KeyOf(x) \in {EmptyKey}, KeyOf(y) \in {EmptyKey}
          PROVE  exchange[x].order = exchange[y].order
      BY <3>1 DEF Histories, KeyNamesOneRequest
    <3> QED BY <3>1, OneInEachLife
  <2>3. OrdersOf(n, Key) \subseteq OrdersOf(n, NamedKey) \union OrdersOf(n, {EmptyKey})
    BY DEF OrdersOf, NamedKey
  <2> DEFINE A == OrdersOf(n, NamedKey)
             B == OrdersOf(n, {EmptyKey})
             C == OrdersOf(n, Key)
  <2>4. lifetime \in Nat
    BY DEF OriginInv, TypeOK
  <2> HIDE DEF A, B, C
  <2>5. /\ IsFiniteSet(A \union B)
        /\ Cardinality(A \union B) <= Cardinality(A) + Cardinality(B)
    <3>1. IsFiniteSet(A) /\ IsFiniteSet(B)
      BY <2>1, <2>2 DEF A, B
    <3>2. Cardinality(A \union B)
            = Cardinality(A) + Cardinality(B) - Cardinality(A \cap B)
      BY <3>1, FS_Union
    <3>3. /\ Cardinality(A) \in Nat /\ Cardinality(B) \in Nat
          /\ Cardinality(A \cap B) \in Nat
      BY <3>1, FS_Intersection, FS_CardinalityType
    <3> QED BY <3>1, <3>2, <3>3, FS_Union
  <2>6. Cardinality(C) <= Cardinality(A \union B)
    BY <2>3, <2>5, FS_Subset DEF A, B, C
  <2>7. /\ Cardinality(A) \in Nat /\ Cardinality(B) \in Nat
        /\ Cardinality(C) \in Nat /\ Cardinality(A \union B) \in Nat
    BY <2>1, <2>2, <2>3, <2>5, FS_Subset, FS_CardinalityType DEF A, B, C
  <2> QED
    BY <2>1, <2>2, <2>4, <2>5, <2>6, <2>7 DEF A, B, C
<1> QED BY <1>1, OriginInvariant, AnswersAgree, PTL

-----------------------------------------------------------------------------
(* While the process lives, only a commit changes a stored order, and only *)
(* under a key that had none.                                              *)
THEOREM OrderFinality == Spec => OrdersAreFinal
<1>1. TypeOK /\ [Next]_vars =>
        [lifetime' = lifetime =>
           \A k \in Key : orders[k] # NoOrder => orders'[k] = orders[k]]_orders
  <2> SUFFICES ASSUME TypeOK, [Next]_vars, lifetime' = lifetime,
                      NEW k \in Key, orders[k] # NoOrder
               PROVE  orders'[k] = orders[k]
    OBVIOUS
  <2>1. ASSUME NEW x \in Exchange, CreateOrder(x) PROVE orders'[k] = orders[k]
    <3>1. KeyOf(x) # k
      BY <2>1 DEF CreateOrder, NewKey
    <3> QED BY <2>1, <3>1 DEF CreateOrder, TypeOK
  <2>2. ~Restart
    BY DEF Restart, TypeOK
  <2> QED
    BY <2>1, <2>2
    DEF Next, vars, Tick, Receive, Authorize, RefuseMalformed, Deny,
        RefuseChangedReplay, Replay, RefuseSpentNonce, Reply
<1> QED BY <1>1, TypeCorrect, PTL DEF Spec, OrdersAreFinal

LEMMA LedgerStep == OriginInv /\ [Next]_vars => [Ledger!Next]_Book
<1> SUFFICES ASSUME OriginInv, [Next]_vars PROVE [Ledger!Next]_Book
  OBVIOUS
<1> USE DEF OriginInv
<1>1. ASSUME NEW x \in Exchange, CreateOrder(x) PROVE [Ledger!Next]_Book
  <2> DEFINE k == KeyOf(x)
             n == Request(x).nonce
  <2>1. /\ orders[k] = NoOrder /\ consumedNonces[n] \in {NoKey, EmptyKey, k}
        /\ k \in Key /\ n \in Nonce
    BY <1>1, RequestTyped DEF CreateOrder, NewKey, NonceFree
  <2>2. consumedNonces[n] \in {NoKey, EmptyKey}
    BY <2>1 DEF MapsAgree, Bought
  <2>3. \A other \in NamedKey : Book[other] # n
    <3>1. \A other \in NamedKey : ~Bought(other, n)
      BY <2>1, <2>2, OriginAssumption DEF MapsAgree, NamedKey
    <3> QED BY <2>1, <3>1, OriginAssumption DEF Bought, Book
  <2>4. Request(x) \in RequestType
    BY <1>1, RequestTyped DEF CreateOrder
  <2>5. /\ orders'[k] # NoOrder /\ orders'[k].request.nonce = n
        /\ \A j \in Key : j # k => orders'[j] = orders[j]
    <3>1. OrderFor(Request(x)) \in OrderType
      BY <2>4 DEF OrderFor, OrderType, RequestType, TypeOK
    <3>2. orders' = [orders EXCEPT ![k] =
                       [order |-> OrderFor(Request(x)), request |-> Request(x)]]
      BY <1>1 DEF CreateOrder
    <3>3. [order |-> OrderFor(Request(x)), request |-> Request(x)] \in StoredOrder
      BY <2>4, <3>1 DEF StoredOrder
    <3> QED BY <2>1, <3>2, <3>3, NoOrderAssumption DEF TypeOK
  <2>6. CASE k = EmptyKey
    <3>1. Book' = Book
      BY <2>5, <2>6 DEF Book, NamedKey
    <3> QED BY <3>1
  <2>7. CASE k # EmptyKey
    <3>1. k \in NamedKey
      BY <2>1, <2>7 DEF NamedKey
    <3>2. Book' = [Book EXCEPT ![k] = n]
      BY <2>1, <2>5, <3>1 DEF Book, NamedKey
    <3>3. Book[k] = NoNonce
      BY <2>1, <3>1 DEF Book
    <3>4. Ledger!Spend(k, n)
      BY <2>3, <3>2, <3>3 DEF Ledger!Spend
    <3> QED BY <2>1, <3>1, <3>4 DEF Ledger!Next
  <2> QED BY <2>6, <2>7
<1>2. CASE Restart
  <2>1. Book' = [k \in NamedKey |-> NoNonce]
    BY <1>2 DEF Restart, OrdersAtBoot, Book, NamedKey
  <2> QED BY <2>1 DEF Ledger!Next, Ledger!Forget
<1>3. ASSUME orders' = orders PROVE Book' = Book
  BY <1>3 DEF Book
<1> QED
  BY <1>1, <1>2, <1>3
  DEF Next, vars, Tick, Receive, Authorize, RefuseMalformed, Deny,
      RefuseChangedReplay, Replay, RefuseSpentNonce, Reply

(* Every behaviour of the origin is a behaviour of the capability ledger.  *)
THEOREM LedgerRefinement == Spec => ImplementsLedger
<1>1. Init => Ledger!Init
  BY DEF Init, Ledger!Init, Book, NamedKey
<1> QED
  BY <1>1, LedgerStep, OriginInvariant, PTL DEF Spec, ImplementsLedger, Ledger!Spec

=============================================================================
