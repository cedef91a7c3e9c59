---------------------------- MODULE GatewayProof ----------------------------
(***************************************************************************)
(* Over a store that survives a gateway, and whose TTL covers the validity *)
(* of every request and one timeout, a request is executed at most once,   *)
(* for every number of gateways, invocations and requests.                 *)
(*                                                                         *)
(* AtMostOnce is not inductive: a second insert of the same nonce can      *)
(* succeed once the first entry has expired.  The invariant says why that  *)
(* does no harm: a winner was acceptable when invoke() started, its entry  *)
(* outlives the request by a timeout, and so of two winners one comes too  *)
(* late to be believed.                                                    *)
(***************************************************************************)
EXTENDS Gateway, RedisClient, TLAPS, SequenceTheorems

(* The stores the argument is about. *)
Durable == Store # "memory" /\ TTLCovers

(* What the checks of invoke() established for an invocation with a nonce. *)
Presented ==
    \A i \in Invocations : wire[i] # "none" =>
        /\ pc[i] # "idle" /\ inv[i] \in Offers
        /\ Request[inv[i].request].issued <= start[i] /\ start[i] <= now
        /\ start[i] <= Request[inv[i].request].expires

RanWon == \A i \in ran : wire[i] = "won"

Expiry(r) == until["common"][Request[r].nonce]

(* The entry of a winner is kept until nobody can be late enough. *)
Kept(r) == /\ Expiry(r) >= 0
           /\ Store = "shared" => Expiry(r) >= Request[r].issued + TTL

Remembered == \A i \in Invocations : wire[i] = "won" => Kept(inv[i].request)

(* A winner that will never run: it has ended or its answer is too late. *)
Stale(k) == /\ k \notin ran
            /\ pc[k] # "consuming" \/ (Store = "shared" /\ now > start[k] + Timeout)

OneWinner ==
    \A i, j \in Invocations :
        i # j /\ wire[i] = "won" /\ wire[j] = "won" /\ inv[i].request = inv[j].request
            => Stale(i) \/ Stale(j)

GInv == TypeOK /\ Presented /\ RanWon /\ Remembered /\ OneWinner

-----------------------------------------------------------------------------
(* The types of the constants that the arithmetic below needs. *)
LEMMA ConstantTypes ==
    /\ TTL \in Nat /\ Timeout \in Nat /\ MaxTime \in Nat /\ MaxCrashes \in Nat
    /\ \A r \in Requests : /\ Request[r].issued \in Nat /\ Request[r].expires \in Nat
                           /\ Request[r].nonce \in Nonces
    /\ \A o \in Offers : o.request \in Requests /\ o.decision.validUntil \in Nat
    /\ "common" \in Stores /\ "common" \notin Gateways
    /\ \A i \in Invocations : StoreOf(i) \in Stores
BY GatewayAssumption DEF Stores, StoreOf

(* An acceptable invocation is not later than the expiry of its request. *)
LEMMA AcceptableInTime ==
    ASSUME NEW told, NEW o \in Offers, NEW t \in Nat, Acceptable(told, o, t)
    PROVE  t <= Request[o.request].expires
<1>1. t <= o.decision.validUntil /\ o.decision.validUntil <= Request[o.request].expires
  BY DEF Acceptable, DecisionAccepted
<1> QED
  BY <1>1, ConstantTypes

(* The initial state: no invocation has been made. *)
LEMMA InitG == Init => GInv
<1> SUFFICES ASSUME Init PROVE GInv
  OBVIOUS
<1>1. TypeOK
  BY ConstantTypes DEF Init, TypeOK
<1> QED
  BY <1>1 DEF Init, GInv, Presented, RanWon, Remembered, OneWinner

(***************************************************************************)
(* Steps that touch neither a nonce nor a winner: an invocation moves on,  *)
(* never back to "idle" or "consuming", or time passes.                    *)
(***************************************************************************)
LEMMA QuietStep ==
    ASSUME GInv, TypeOK', UNCHANGED <<inv, start, wire, ran>>,
           until'["common"] = until["common"],
           now' >= now,
           \A i \in Invocations : pc[i] # "idle" => pc'[i] # "idle",
           \A i \in Invocations : pc'[i] = "consuming" => pc[i] = "consuming"
    PROVE  GInv'
<1>1. now \in Int /\ now' \in Int /\ \A i \in Invocations : start[i] \in Int
  BY ConstantTypes DEF GInv, TypeOK
<1>2. Presented'
  <2> SUFFICES ASSUME NEW i \in Invocations, wire[i] # "none"
               PROVE  /\ pc'[i] # "idle" /\ inv[i] \in Offers
                      /\ Request[inv[i].request].issued <= start[i] /\ start[i] <= now'
                      /\ start[i] <= Request[inv[i].request].expires
    BY DEF Presented
  <2>1. /\ pc[i] # "idle" /\ inv[i] \in Offers
        /\ Request[inv[i].request].issued <= start[i] /\ start[i] <= now
        /\ start[i] <= Request[inv[i].request].expires
    BY DEF GInv, Presented
  <2>2. start[i] <= now'
    BY <2>1, <1>1
  <2> QED
    BY <2>1, <2>2
<1>3. RanWon'
  BY DEF GInv, RanWon
<1>4. Remembered'
  BY DEF GInv, Remembered, Kept, Expiry
<1>5. \A k \in Invocations : Stale(k) => Stale(k)'
  BY <1>1, ConstantTypes DEF Stale
<1>6. OneWinner'
  BY <1>5 DEF GInv, OneWinner
<1> QED
  BY <1>2, <1>3, <1>4, <1>6 DEF GInv

(***************************************************************************)
(* One execution of insert-if-absent by the store: no entry is forgotten   *)
(* or shortened, and a second winner wins only after the expiry of the     *)
(* first entry.                                                            *)
(***************************************************************************)
LEMMA InsertFacts ==
    ASSUME TypeOK, Durable, NEW i \in Invocations, NEW r \in Requests,
           Request[r].issued <= now, Insert(i, r)
    PROVE  /\ wire' = [wire EXCEPT ![i] = wire'[i]] /\ wire'[i] \in {"won", "lost"}
           /\ until' \in [Stores -> [Nonces -> Nat \cup {-1}]]
           /\ \A q \in Requests : Kept(q) => Kept(q)'
           /\ wire'[i] = "won" => Kept(r)'
           /\ wire'[i] = "won" /\ Kept(r) => Store = "shared" /\ now > Expiry(r)
<1> DEFINE n == Request[r].nonce
<1>0. StoreOf(i) = "common" /\ "common" \in Stores /\ n \in Nonces
  BY ConstantTypes DEF Durable, StoreOf
<1>1. /\ until \in [Stores -> [Nonces -> Nat \cup {-1}]] /\ now \in Nat /\ TTL \in Nat
      /\ wire \in [Invocations -> {"none", "sent", "won", "lost"}]
      /\ Request[r].issued \in Nat
  BY ConstantTypes DEF TypeOK
<1>2. CASE /\ Live("common", n) /\ wire' = [wire EXCEPT ![i] = "lost"] /\ until' = until
  BY <1>2, <1>1 DEF Kept, Expiry
<1>3. CASE /\ ~Live("common", n)
           /\ until' = [until EXCEPT !["common"][n] = now + TTL]
           /\ wire' = [wire EXCEPT ![i] = "won"]
  <2>1. wire' = [wire EXCEPT ![i] = wire'[i]] /\ wire'[i] = "won"
    BY <1>3, <1>1
  <2>2. now + TTL \in Nat /\ now + TTL >= now /\ now + TTL >= Request[r].issued + TTL
    BY <1>1
  <2>3. /\ until' \in [Stores -> [Nonces -> Nat \cup {-1}]]
        /\ until'["common"][n] = now + TTL
        /\ \A m \in Nonces : m # n => until'["common"][m] = until["common"][m]
    BY <1>3, <1>0, <1>1, <2>2
  <2>4. Kept(r)'
    BY <2>2, <2>3 DEF Kept, Expiry
  <2>5. until["common"][n] >= 0 => Store = "shared" /\ now > until["common"][n]
    BY <1>0, <1>1, <1>3 DEF Live
  <2>6. ASSUME NEW q \in Requests, Kept(q) PROVE Kept(q)'
    <3>1. Request[q].nonce \in Nonces /\ Request[q].issued \in Nat
      BY ConstantTypes
    <3>2. CASE Request[q].nonce # n
      BY <3>1, <3>2, <2>3, <2>6 DEF Kept, Expiry
    <3>3. CASE Request[q].nonce = n
      <4>1. until["common"][n] >= 0 /\ until["common"][n] >= Request[q].issued + TTL
        BY <3>3, <2>6, <2>5 DEF Kept, Expiry
      <4>2. until["common"][n] \in Int
        BY <1>0, <1>1
      <4>3. now + TTL >= Request[q].issued + TTL
        BY <4>1, <4>2, <2>5, <1>1, <3>1
      <4> QED
        BY <4>3, <2>2, <2>3, <3>3 DEF Kept, Expiry
    <3> QED
      BY <3>2, <3>3
  <2>7. Kept(r) => Store = "shared" /\ now > Expiry(r)
    BY <2>5 DEF Kept, Expiry
  <2> QED
    BY <2>1, <2>3, <2>4, <2>6, <2>7
<1> QED
  BY <1>0, <1>2, <1>3 DEF Insert

(* The backend executes an insert that is on the wire. *)
LEMMA ApplyG ==
    ASSUME GInv, Durable, NEW i \in Invocations, Apply(i)
    PROVE  GInv'
<1> DEFINE r == inv[i].request
<1>1. /\ wire[i] = "sent" /\ Insert(i, r)
      /\ UNCHANGED <<now, pc, inv, start, ran, called, heard, threw, outcome, crashes>>
  BY DEF Apply
<1>2. TypeOK /\ Presented /\ RanWon /\ Remembered /\ OneWinner
  BY DEF GInv
<1>3. /\ pc[i] # "idle" /\ inv[i] \in Offers
      /\ Request[r].issued <= start[i] /\ start[i] <= now
      /\ start[i] <= Request[r].expires
  BY <1>1, <1>2 DEF Presented
<1>4. /\ r \in Requests /\ start[i] \in Nat /\ now \in Nat /\ Request[r].issued \in Nat
      /\ Request[r].expires \in Nat /\ Timeout \in Nat /\ TTL \in Nat
  BY <1>2, <1>3, ConstantTypes DEF TypeOK
<1>5. Request[r].issued <= now /\ start[i] <= Request[r].expires
  BY <1>3, <1>4
<1>6. /\ wire' = [wire EXCEPT ![i] = wire'[i]] /\ wire'[i] \in {"won", "lost"}
      /\ until' \in [Stores -> [Nonces -> Nat \cup {-1}]]
      /\ \A q \in Requests : Kept(q) => Kept(q)'
      /\ wire'[i] = "won" => Kept(r)'
      /\ wire'[i] = "won" /\ Kept(r) => Store = "shared" /\ now > Expiry(r)
  BY <1>1, <1>2, <1>4, <1>5, InsertFacts
<1>7. wire \in [Invocations -> {"none", "sent", "won", "lost"}]
  BY <1>2 DEF TypeOK
<1>8. \A k \in Invocations : k # i => wire'[k] = wire[k]
  BY <1>6, <1>7
<1>9. TypeOK'
  <2>1. wire' \in [Invocations -> {"none", "sent", "won", "lost"}]
    BY <1>6, <1>7
  <2> QED
    BY <2>1, <1>1, <1>2, <1>6 DEF TypeOK
<1>10. Presented'
  <2> SUFFICES ASSUME NEW k \in Invocations, wire'[k] # "none"
               PROVE  /\ pc[k] # "idle" /\ inv[k] \in Offers
                      /\ Request[inv[k].request].issued <= start[k] /\ start[k] <= now
                      /\ start[k] <= Request[inv[k].request].expires
    BY <1>1 DEF Presented
  <2> QED
    BY <1>2, <1>3, <1>8 DEF Presented
<1>11. RanWon' /\ i \notin ran
  BY <1>1, <1>2, <1>8 DEF RanWon, TypeOK
<1>12. Remembered'
  <2> SUFFICES ASSUME NEW k \in Invocations, wire'[k] = "won"
               PROVE  Kept(inv[k].request)'
    BY <1>1 DEF Remembered, Kept, Expiry
  <2>1. CASE k = i
    BY <2>1, <1>1, <1>6 DEF Kept, Expiry
  <2>2. CASE k # i
    <3>1. wire[k] = "won" /\ Kept(inv[k].request)
      BY <2>2, <1>2, <1>8 DEF Remembered
    <3>2. inv[k].request \in Requests
      BY <3>1, <1>2, ConstantTypes DEF Presented
    <3> QED
      BY <3>1, <3>2, <1>1, <1>6 DEF Kept, Expiry
  <2> QED
    BY <2>1, <2>2
<1>13. ASSUME NEW k \in Invocations, k # i, wire[k] = "won", inv[k].request = r,
              wire'[i] = "won"
       PROVE  Stale(i)'
  <2>1. Kept(r)
    BY <1>13, <1>2 DEF Remembered
  <2>2. Store = "shared" /\ now > Expiry(r) /\ Expiry(r) >= Request[r].issued + TTL
    BY <2>1, <1>6, <1>13 DEF Kept
  <2>3. Expiry(r) \in Int
    BY <1>2, <1>4, ConstantTypes DEF TypeOK, Expiry
  <2>4. Request[r].issued + TTL >= Request[r].expires + Timeout
    BY <2>2, <1>4 DEF Durable, TTLCovers
  <2>5. now > start[i] + Timeout
    BY <2>2, <2>3, <2>4, <1>4, <1>5
  <2> QED
    BY <2>2, <2>5, <1>1, <1>11 DEF Stale
<1>14. \A k \in Invocations : Stale(k) => Stale(k)'
  BY <1>1 DEF Stale
<1>15. OneWinner'
  <2> SUFFICES ASSUME NEW k \in Invocations, NEW j \in Invocations, k # j,
                      wire'[k] = "won", wire'[j] = "won",
                      inv[k].request = inv[j].request
               PROVE  Stale(k)' \/ Stale(j)'
    BY <1>1 DEF OneWinner
  <2>1. CASE k = i
    BY <2>1, <1>8, <1>13
  <2>2. CASE j = i
    BY <2>2, <1>8, <1>13
  <2>3. CASE k # i /\ j # i
    BY <2>3, <1>2, <1>8, <1>14 DEF OneWinner
  <2> QED
    BY <2>1, <2>2, <2>3
<1> QED
  BY <1>9, <1>10, <1>11, <1>12, <1>15 DEF GInv

(* invoke() up to its first await, whichever of its branches it takes. *)
LEMMA InvokeG ==
    ASSUME GInv, Durable, NEW i \in Invocations, NEW o \in Offers, Invoke(i, o)
    PROVE  GInv'
<1> DEFINE r == o.request
           accepted == Acceptable(Known(Host[i]), o, now)
<1>0. r \in Requests /\ now \in Nat
  BY ConstantTypes DEF GInv, TypeOK
<1>1. /\ pc[i] = "idle" /\ Request[r].issued <= now
      /\ inv' = [inv EXCEPT ![i] = o] /\ start' = [start EXCEPT ![i] = now]
      /\ UNCHANGED <<now, ran, called, heard, threw, outcome, crashes>>
  BY DEF Invoke
<1>2. TypeOK /\ Presented /\ RanWon /\ Remembered /\ OneWinner
  BY DEF GInv
<1>3. wire[i] = "none" /\ i \notin ran
  BY <1>1, <1>2 DEF Presented, RanWon, TypeOK
<1>4. /\ inv'[i] = o /\ start'[i] = now
      /\ \A k \in Invocations : k # i => inv'[k] = inv[k] /\ start'[k] = start[k]
      /\ inv' \in [Invocations -> Offers \cup {None}]
      /\ start' \in [Invocations -> 0..MaxTime]
  BY <1>1, <1>2 DEF TypeOK
<1>5. /\ \E status \in {"consuming", "rejecting"} : pc' = [pc EXCEPT ![i] = status]
      /\ \/ until' = until /\ wire' = wire
         \/ /\ accepted /\ until' = until
            /\ wire' = [wire EXCEPT ![i] = "sent"]
         \/ accepted /\ Insert(i, r) /\ Store # "shared"
  BY DEF Invoke
<1>6. /\ \A k \in Invocations : k # i => pc'[k] = pc[k]
      /\ pc'[i] # "idle"
      /\ pc' \in [Invocations -> {"idle", "consuming", "executing", "rejecting",
                                  "completing", "failing", "done"}]
  BY <1>5, <1>2 DEF TypeOK
<1>7. /\ wire' \in [Invocations -> {"none", "sent", "won", "lost"}]
      /\ \A k \in Invocations : k # i => wire'[k] = wire[k]
      /\ until' \in [Stores -> [Nonces -> Nat \cup {-1}]]
      /\ \A q \in Requests : Kept(q) => Kept(q)'
      /\ wire'[i] # "none" => accepted
      /\ wire'[i] = "won" => Kept(r)' /\ ~Kept(r)
  <2>1. wire \in [Invocations -> {"none", "sent", "won", "lost"}]
        /\ until \in [Stores -> [Nonces -> Nat \cup {-1}]]
    BY <1>2 DEF TypeOK
  <2>2. CASE until' = until /\ wire' = wire
    BY <2>1, <2>2, <1>3 DEF Kept, Expiry
  <2>3. CASE /\ accepted /\ until' = until
             /\ wire' = [wire EXCEPT ![i] = "sent"]
    BY <2>1, <2>3 DEF Kept, Expiry
  <2>4. CASE accepted /\ Insert(i, r) /\ Store # "shared"
    <3>1. /\ wire' = [wire EXCEPT ![i] = wire'[i]] /\ wire'[i] \in {"won", "lost"}
          /\ until' \in [Stores -> [Nonces -> Nat \cup {-1}]]
          /\ \A q \in Requests : Kept(q) => Kept(q)'
          /\ wire'[i] = "won" => Kept(r)'
          /\ wire'[i] = "won" /\ Kept(r) => Store = "shared" /\ now > Expiry(r)
      BY <2>4, <1>0, <1>1, <1>2, InsertFacts
    <3> QED
      BY <3>1, <2>1, <2>4
  <2> QED
    BY <2>2, <2>3, <2>4, <1>5
<1>8. TypeOK'
  BY <1>1, <1>2, <1>4, <1>6, <1>7 DEF TypeOK
<1>9. Presented'
  <2> SUFFICES ASSUME NEW k \in Invocations, wire'[k] # "none"
               PROVE  /\ pc'[k] # "idle" /\ inv'[k] \in Offers
                      /\ Request[inv'[k].request].issued <= start'[k] /\ start'[k] <= now
                      /\ start'[k] <= Request[inv'[k].request].expires
    BY <1>1 DEF Presented
  <2>1. CASE k = i
    <3>1. now <= now
      BY <1>0
    <3>2. now <= Request[r].expires
      BY <2>1, <1>0, <1>7, AcceptableInTime
    <3> QED
      BY <2>1, <3>1, <3>2, <1>1, <1>4, <1>6, <1>7
  <2>2. CASE k # i
    BY <2>2, <1>2, <1>4, <1>6, <1>7 DEF Presented
  <2> QED
    BY <2>1, <2>2
<1>10. RanWon'
  BY <1>1, <1>2, <1>3, <1>7 DEF RanWon, TypeOK
<1>11. Remembered'
  <2> SUFFICES ASSUME NEW k \in Invocations, wire'[k] = "won"
               PROVE  Kept(inv[k].request)'
    BY DEF Remembered
  <2>1. CASE k = i
    BY <2>1, <1>4, <1>7 DEF Kept, Expiry
  <2>2. CASE k # i
    <3>1. wire[k] = "won" /\ Kept(inv[k].request) /\ inv'[k] = inv[k]
      BY <2>2, <1>2, <1>4, <1>7 DEF Remembered
    <3>2. inv[k].request \in Requests
      BY <3>1, <1>2, ConstantTypes DEF Presented
    <3> QED
      BY <3>1, <3>2, <1>7 DEF Kept, Expiry
  <2> QED
    BY <2>1, <2>2
<1>12. \A k \in Invocations : k # i /\ Stale(k) => Stale(k)'
  BY <1>1, <1>4, <1>6 DEF Stale
<1>13. \A k \in Invocations : k # i /\ wire'[k] = "won" /\ inv'[k].request = r
                                => wire'[i] # "won"
  BY <1>2, <1>4, <1>7 DEF Remembered
<1>14. OneWinner'
  <2> SUFFICES ASSUME NEW k \in Invocations, NEW j \in Invocations, k # j,
                      wire'[k] = "won", wire'[j] = "won",
                      inv'[k].request = inv'[j].request
               PROVE  Stale(k)' \/ Stale(j)'
    BY DEF OneWinner
  <2>1. k # i /\ j # i
    BY <1>4, <1>13
  <2> QED
    BY <2>1, <1>2, <1>4, <1>7, <1>12 DEF OneWinner
<1> QED
  BY <1>8, <1>9, <1>10, <1>11, <1>14 DEF GInv

(* A first use is believed and the tool runs: nobody else has won in time. *)
LEMMA ConsumedG ==
    ASSUME GInv, NEW i \in Invocations, Consumed(i)
    PROVE  GInv'
<1>1. /\ pc[i] = "consuming" /\ wire[i] = "won" /\ InTime(i)
      /\ pc' = [pc EXCEPT ![i] = "executing"] /\ ran' = ran \cup {i}
      /\ called' = [called EXCEPT ![i] = now]
      /\ UNCHANGED <<now, until, inv, start, wire, heard, threw, outcome, crashes>>
  BY DEF Consumed
<1>2. TypeOK /\ Presented /\ RanWon /\ Remembered /\ OneWinner
  BY DEF GInv
<1>3. /\ pc'[i] = "executing" /\ \A k \in Invocations : k # i => pc'[k] = pc[k]
      /\ TypeOK'
  <2>1. now \in Nat
    BY <1>2, ConstantTypes DEF TypeOK
  <2> QED
    BY <2>1, <1>1, <1>2 DEF TypeOK
<1>4. Presented'
  BY <1>1, <1>2, <1>3 DEF Presented
<1>5. RanWon' /\ Remembered'
  BY <1>1, <1>2 DEF RanWon, Remembered, Kept, Expiry
<1>6. ~Stale(i)
  <2>1. now \in Int /\ start[i] \in Int /\ Timeout \in Int
    BY <1>2, ConstantTypes DEF TypeOK
  <2> QED
    BY <2>1, <1>1 DEF Stale, InTime
<1>7. \A k \in Invocations : Stale(k) => Stale(k)'
  BY <1>1, <1>3, <1>6 DEF Stale
<1>8. OneWinner'
  BY <1>1, <1>2, <1>7 DEF OneWinner
<1> QED
  BY <1>3, <1>4, <1>5, <1>8 DEF GInv

(* Every other step is a quiet one. *)
LEMMA OthersG ==
    ASSUME GInv,
           \/ \E i \in Invocations :
                 \/ Replayed(i) \/ Unavailable(i) \/ ToolReturns(i) \/ ToolThrows(i)
                 \/ Confirm(i) \/ ConfirmThrows(i)
           \/ \E g \in Gateways : Crash(g)
           \/ \E g \in Gateways, n \in Notices : Hear(g, n)
           \/ Tick
    PROVE  GInv'
<1>1. TypeOK
  BY DEF GInv
<1>2. now \in Int /\ until \in [Stores -> [Nonces -> Nat \cup {-1}]]
  BY <1>1, ConstantTypes DEF TypeOK
<1>3. ASSUME NEW i \in Invocations,
             \/ Replayed(i) \/ Unavailable(i) \/ ToolReturns(i) \/ ToolThrows(i)
             \/ Confirm(i) \/ ConfirmThrows(i)
      PROVE  GInv'
  <2>1. /\ UNCHANGED <<now, until, inv, start, wire, ran, called, heard, crashes>>
        /\ pc[i] # "idle"
        /\ \E status \in {"executing", "rejecting", "completing", "failing", "done"} :
               pc' = [pc EXCEPT ![i] = status]
        /\ threw' \in {threw, threw \cup {i}}
        /\ \/ outcome' = outcome
           \/ \E o \in {"rejected", "completed", "failed"} :
                  outcome' = [outcome EXCEPT ![i] = o]
    BY <1>3 DEF Replayed, Unavailable, ToolReturns, ToolThrows, Confirm, ConfirmThrows
  <2>2. TypeOK'
    BY <2>1, <1>1 DEF TypeOK
  <2>3. \A k \in Invocations : /\ pc[k] # "idle" => pc'[k] # "idle"
                               /\ pc'[k] = "consuming" => pc[k] = "consuming"
    BY <2>1, <1>1 DEF TypeOK
  <2>4. now' >= now
    BY <2>1, <1>2
  <2> QED
    BY <2>1, <2>2, <2>3, <2>4, QuietStep
<1>4. ASSUME NEW g \in Gateways, Crash(g) PROVE GInv'
  <2>1. /\ UNCHANGED <<now, inv, start, wire, ran, called, heard, threw, outcome>>
        /\ crashes < MaxCrashes /\ crashes' = crashes + 1
        /\ pc' = [i \in Invocations |->
                    IF Host[i] = g /\ pc[i] # "idle" THEN "done" ELSE pc[i]]
        /\ until' = [until EXCEPT ![g] = [n \in Nonces |-> -1]]
    BY <1>4 DEF Crash
  <2>2. until'["common"] = until["common"]
        /\ until' \in [Stores -> [Nonces -> Nat \cup {-1}]]
    BY <2>1, <1>2, ConstantTypes DEF Stores
  <2>3. crashes' \in 0..MaxCrashes
    BY <2>1, <1>1, ConstantTypes DEF TypeOK
  <2>4. TypeOK'
    BY <2>1, <2>2, <2>3, <1>1 DEF TypeOK
  <2>5. \A k \in Invocations : /\ pc[k] # "idle" => pc'[k] # "idle"
                               /\ pc'[k] = "consuming" => pc[k] = "consuming"
    BY <2>1
  <2>6. now' >= now
    BY <2>1, <1>2
  <2> QED
    BY <2>1, <2>2, <2>4, <2>5, <2>6, QuietStep
<1>5. CASE Tick
  <2>1. /\ now < MaxTime /\ now' = now + 1
        /\ UNCHANGED <<until, pc, inv, start, wire, ran, called, heard, threw, outcome, crashes>>
    BY <1>5 DEF Tick
  <2>2. now' \in 0..MaxTime /\ now' >= now
    BY <2>1, <1>1, ConstantTypes DEF TypeOK
  <2>3. TypeOK'
    BY <2>1, <2>2, <1>1 DEF TypeOK
  <2> QED
    BY <2>1, <2>2, <2>3, QuietStep
<1>6. ASSUME NEW g \in Gateways, NEW n \in Notices, Hear(g, n) PROVE GInv'
  <2>1. /\ heard' = [heard EXCEPT ![g][n] = now]
        /\ UNCHANGED <<now, until, pc, inv, start, wire, ran, called, threw, outcome, crashes>>
    BY <1>6 DEF Hear
  <2>2. now \in Nat /\ heard \in [Gateways -> [Notices -> Nat \cup {-1}]]
    BY <1>1, ConstantTypes DEF TypeOK
  <2>3. heard' \in [Gateways -> [Notices -> Nat \cup {-1}]] /\ now' >= now
    BY <2>1, <2>2
  <2>4. TypeOK'
    BY <2>1, <2>3, <1>1 DEF TypeOK
  <2> QED
    BY <2>1, <2>3, <2>4, QuietStep
<1> QED
  BY <1>3, <1>4, <1>5, <1>6

(* The invariant is inductive. *)
LEMMA NextG == ASSUME Durable, GInv, [Next]_vars PROVE GInv'
<1>1. CASE \E i \in Invocations, o \in Offers : Invoke(i, o)
  BY <1>1, InvokeG
<1>2. CASE \E i \in Invocations : Step(i)
  BY <1>2, ApplyG, ConsumedG, OthersG DEF Step
<1>3. CASE \/ \E g \in Gateways : Crash(g)
           \/ \E g \in Gateways, n \in Notices : Hear(g, n)
           \/ Tick
  BY <1>3, OthersG
<1>4. CASE UNCHANGED vars
  <2>1. UNCHANGED <<now, until, pc, inv, start, wire, ran, called, heard, threw, outcome,
                    crashes>>
    BY <1>4 DEF vars
  <2>2. TypeOK' /\ now' >= now
    BY <2>1, ConstantTypes DEF GInv, TypeOK
  <2> QED
    BY <2>1, <2>2, QuietStep
<1> QED
  BY <1>1, <1>2, <1>3, <1>4 DEF Next

(* The inductive invariant holds in every reachable state of the gateways. *)
THEOREM GatewayInvariance == ASSUME Durable PROVE Spec => []GInv
<1>1. Init => GInv
  BY InitG
<1>2. GInv /\ [Next]_vars => GInv'
  BY NextG
<1> QED
  BY <1>1, <1>2, PTL DEF Spec

(* invoke() executes a request at most once over all gateways, whatever    *)
(* races, timeouts, late inserts and crashes there are, when the store is  *)
(* durable and its TTL covers validity plus timeout.                       *)
THEOREM AtMostOnceHolds == ASSUME Durable PROVE Spec => []AtMostOnce
<1>1. GInv => AtMostOnce
  BY DEF GInv, TypeOK, RanWon, OneWinner, Stale, AtMostOnce
<1> QED
  BY <1>1, GatewayInvariance, PTL

-----------------------------------------------------------------------------
(***************************************************************************)
(* That only what was judged is executed does not depend on the store's    *)
(* memory: a store that dies, or a TTL too short, may let a request run    *)
(* twice but never one that invoke() did not accept.  The invariant keeps  *)
(* what was judged, by what the gateway had been told before it read the   *)
(* clock: later notices cannot change that set, and one heard a timeout    *)
(* before the call is in it.                                               *)
(***************************************************************************)
ToldBefore(i) ==
    {n \in Notices : heard[Host[i]][n] >= 0 /\ heard[Host[i]][n] < start[i]}

Judged ==
    \A i \in Invocations : wire[i] # "none" =>
        /\ pc[i] # "idle" /\ inv[i] \in Offers /\ start[i] <= now
        /\ Acceptable(ToldBefore(i), inv[i], start[i])

CalledInTime ==
    \A i \in ran : called[i] \in Nat /\ (Store = "shared" => called[i] <= start[i] + Timeout)

JTyped ==
    /\ now \in Nat /\ start \in [Invocations -> Nat]
    /\ DOMAIN pc = Invocations /\ DOMAIN inv = Invocations /\ DOMAIN called = Invocations
    /\ pc = [i \in Invocations |-> pc[i]] /\ inv = [i \in Invocations |-> inv[i]]
    /\ called = [i \in Invocations |-> called[i]]
    /\ heard \in [Gateways -> [Notices -> Nat \cup {-1}]]
    /\ wire \in [Invocations -> {"none", "sent", "won", "lost"}]
    /\ ran \subseteq Invocations

JInv == JTyped /\ Judged /\ RanWon /\ CalledInTime

(* Whoever was told less objects to less. *)
LEMMA ToldLess ==
    ASSUME NEW less, NEW more, less \subseteq more, NEW o, NEW t, Acceptable(more, o, t)
    PROVE  Acceptable(less, o, t)
<1>1. \A p, u : Usable(more, p, u) => Usable(less, p, u)
  BY DEF Usable
<1>2. \A l, u : LinkUsable(more, l, u) => LinkUsable(less, l, u)
  BY <1>1 DEF LinkUsable
<1>3. Delegated(more, o) => Delegated(less, o)
  BY <1>2 DEF Delegated
<1>4. DecisionAccepted(more, o, t) => DecisionAccepted(less, o, t)
  BY <1>1, <1>3 DEF DecisionAccepted
<1> QED
  BY <1>3, <1>4 DEF Acceptable

(* invoke() sends the nonce only after every check has been passed. *)
LEMMA InvokeJ ==
    ASSUME JInv, NEW i \in Invocations, NEW o \in Offers, Invoke(i, o)
    PROVE  JInv'
<1>1. /\ pc[i] = "idle" /\ inv' = [inv EXCEPT ![i] = o]
      /\ start' = [start EXCEPT ![i] = now] /\ UNCHANGED <<now, ran, called, heard>>
      /\ \/ pc' = [pc EXCEPT ![i] = "consuming"]
         \/ pc' = [pc EXCEPT ![i] = "rejecting"]
      /\ \/ wire' = wire
         \/ /\ Acceptable(Known(Host[i]), o, now)
            /\ \E w \in {"sent", "won", "lost"} : wire' = [wire EXCEPT ![i] = w]
  BY DEF Invoke, Insert
<1>2. wire[i] = "none" /\ i \notin ran
  BY <1>1 DEF JInv, Judged, RanWon
<1>3. JTyped'
  <2>1. JTyped
    BY DEF JInv
  <2>2. now' \in Nat /\ start' \in [Invocations -> Nat] /\ ran' \subseteq Invocations
    BY <2>1, <1>1 DEF JTyped
  <2>3. DOMAIN inv' = Invocations /\ inv' = [k \in Invocations |-> inv'[k]]
    BY <2>1, <1>1 DEF JTyped
  <2>4. DOMAIN pc' = Invocations /\ pc' = [k \in Invocations |-> pc'[k]]
    BY <2>1, <1>1 DEF JTyped
  <2>5. wire' \in [Invocations -> {"none", "sent", "won", "lost"}]
    BY <2>1, <1>1 DEF JTyped
  <2>6. /\ DOMAIN called' = Invocations /\ called' = [k \in Invocations |-> called'[k]]
        /\ heard' \in [Gateways -> [Notices -> Nat \cup {-1}]]
    BY <2>1, <1>1 DEF JTyped
  <2> QED
    BY <2>2, <2>3, <2>4, <2>5, <2>6 DEF JTyped
<1>4. /\ \A k \in Invocations : k # i =>
             /\ pc'[k] = pc[k] /\ inv'[k] = inv[k] /\ start'[k] = start[k]
             /\ wire'[k] = wire[k]
      /\ pc'[i] # "idle" /\ inv'[i] = o /\ start'[i] = now /\ now <= now
      /\ wire'[i] # "none" => Acceptable(Known(Host[i]), o, now)
  BY <1>1, <1>2 DEF JInv, JTyped
<1>5. Judged'
  <2> SUFFICES ASSUME NEW k \in Invocations, wire'[k] # "none"
               PROVE  /\ pc'[k] # "idle" /\ inv'[k] \in Offers /\ start'[k] <= now'
                      /\ Acceptable(ToldBefore(k)', inv'[k], start'[k])
    BY DEF Judged, Acceptable, DecisionAccepted, ExecutionAccepted, Delegated, Reproduced,
           LinkUsable, Usable
  <2>1. CASE k = i
    <3>1. ToldBefore(i)' \subseteq Known(Host[i])
      BY <1>1 DEF ToldBefore, Known
    <3>2. Acceptable(ToldBefore(i)', o, now)
      BY <3>1, <2>1, <1>4, ToldLess
    <3> QED
      BY <2>1, <3>2, <1>1, <1>4
  <2>2. CASE k # i
    <3>1. ToldBefore(k)' = ToldBefore(k)
      BY <2>2, <1>1, <1>4 DEF ToldBefore
    <3> QED
      BY <2>2, <3>1, <1>1, <1>4 DEF JInv, Judged
  <2> QED
    BY <2>1, <2>2
<1>6. RanWon' /\ CalledInTime'
  BY <1>1, <1>2, <1>4 DEF JInv, JTyped, RanWon, CalledInTime
<1> QED
  BY <1>3, <1>5, <1>6 DEF JInv

(* Steps that judge nothing: a later notice is not one from before. *)
LEMMA JudgedStays ==
    ASSUME JInv, JTyped', UNCHANGED <<inv, start>>, now' >= now,
           \A i \in Invocations : pc[i] # "idle" => pc'[i] # "idle",
           \A i \in Invocations : wire'[i] # "none" => wire[i] # "none",
           \A g \in Gateways, n \in Notices : heard'[g][n] # heard[g][n] => heard'[g][n] = now
    PROVE  Judged'
<1> SUFFICES ASSUME NEW k \in Invocations, wire'[k] # "none"
             PROVE  /\ pc'[k] # "idle" /\ inv[k] \in Offers /\ start[k] <= now'
                    /\ Acceptable(ToldBefore(k)', inv[k], start[k])
  BY DEF Judged, Acceptable, DecisionAccepted, ExecutionAccepted, Delegated, Reproduced,
         LinkUsable, Usable
<1>1. /\ pc[k] # "idle" /\ inv[k] \in Offers /\ start[k] <= now
      /\ Acceptable(ToldBefore(k), inv[k], start[k])
  BY DEF JInv, Judged
<1>2. start[k] \in Nat /\ now \in Nat /\ now' \in Nat /\ Host[k] \in Gateways
  BY GatewayAssumption DEF JInv, JTyped
<1>3. ToldBefore(k)' \subseteq ToldBefore(k)
  <2> SUFFICES ASSUME NEW n \in Notices, heard'[Host[k]][n] >= 0,
                      heard'[Host[k]][n] < start[k]
               PROVE  heard[Host[k]][n] >= 0 /\ heard[Host[k]][n] < start[k]
    BY DEF ToldBefore
  <2>1. heard'[Host[k]][n] # now
    BY <1>1, <1>2
  <2> QED
    BY <2>1, <1>2
<1>4. Acceptable(ToldBefore(k)', inv[k], start[k])
  BY <1>1, <1>3, ToldLess
<1> QED
  BY <1>1, <1>2, <1>4

(* Later steps only answer the question that invoke() sent. *)
LEMMA NextJ == ASSUME JInv, [Next]_vars PROVE JInv'
<1>1. CASE \E i \in Invocations, o \in Offers : Invoke(i, o)
  BY <1>1, InvokeJ
<1>2. ASSUME NEW i \in Invocations, Step(i) PROVE JInv'
  <2>1. /\ UNCHANGED <<now, inv, start, heard>>
        /\ \/ pc' = pc
           \/ /\ pc[i] # "idle"
              /\ \E s \in {"executing", "rejecting", "completing", "failing", "done"} :
                     pc' = [pc EXCEPT ![i] = s]
        /\ \/ wire' = wire
           \/ /\ wire[i] = "sent" /\ ran' = ran
              /\ \E w \in {"won", "lost"} : wire' = [wire EXCEPT ![i] = w]
        /\ \/ ran' = ran /\ called' = called
           \/ /\ ran' = ran \cup {i} /\ wire[i] = "won" /\ wire' = wire
              /\ called' = [called EXCEPT ![i] = now] /\ InTime(i)
    BY <1>2 DEF Step, Apply, Insert, Consumed, Replayed, Unavailable, ToolReturns,
                ToolThrows, Confirm, ConfirmThrows
  <2>2. JTyped'
    BY <2>1 DEF JInv, JTyped
  <2>3. /\ \A k \in Invocations : /\ pc[k] # "idle" => pc'[k] # "idle"
                                  /\ wire'[k] # "none" => wire[k] # "none"
        /\ now' >= now
    BY <2>1 DEF JInv, JTyped
  <2>4. Judged'
    BY <2>1, <2>2, <2>3, JudgedStays
  <2>5. RanWon'
    BY <2>1 DEF JInv, JTyped, RanWon
  <2>6. CalledInTime'
    <3> SUFFICES ASSUME NEW k \in ran'
                 PROVE  /\ called'[k] \in Nat
                        /\ Store = "shared" => called'[k] <= start[k] + Timeout
      BY <2>1 DEF CalledInTime
    <3>1. CASE k = i /\ ran' = ran \cup {i} /\ called' = [called EXCEPT ![i] = now] /\ InTime(i)
      BY <3>1 DEF JInv, JTyped, InTime
    <3>2. CASE k \in ran /\ called'[k] = called[k]
      BY <3>2 DEF JInv, CalledInTime
    <3> QED
      BY <2>1, <3>1, <3>2 DEF JInv, JTyped
  <2> QED
    BY <2>2, <2>4, <2>5, <2>6 DEF JInv
<1>3. CASE \/ \E g \in Gateways : Crash(g)
           \/ \E g \in Gateways, n \in Notices : Hear(g, n)
           \/ Tick \/ UNCHANGED vars
  <2>1. /\ UNCHANGED <<inv, start, wire, ran, called>> /\ now' \in {now, now + 1}
        /\ \/ pc' = pc
           \/ \E g \in Gateways : pc' = [i \in Invocations |->
                    IF Host[i] = g /\ pc[i] # "idle" THEN "done" ELSE pc[i]]
        /\ \/ heard' = heard
           \/ \E g \in Gateways, n \in Notices : heard' = [heard EXCEPT ![g][n] = now]
    BY <1>3 DEF Crash, Hear, Tick, vars
  <2>2. JTyped' /\ RanWon' /\ CalledInTime'
    <3>1. DOMAIN pc' = Invocations /\ pc' = [k \in Invocations |-> pc'[k]]
      BY <2>1 DEF JInv, JTyped
    <3>2. heard' \in [Gateways -> [Notices -> Nat \cup {-1}]]
      BY <2>1 DEF JInv, JTyped
    <3>3. JTyped'
      BY <2>1, <3>1, <3>2 DEF JInv, JTyped
    <3> QED
      BY <2>1, <3>3 DEF JInv, RanWon, CalledInTime
  <2>3. /\ \A k \in Invocations : /\ pc[k] # "idle" => pc'[k] # "idle"
                                  /\ wire'[k] # "none" => wire[k] # "none"
        /\ now' >= now
    BY <2>1 DEF JInv, JTyped
  <2>4. \A g \in Gateways, n \in Notices : heard'[g][n] # heard[g][n] => heard'[g][n] = now
    BY <2>1 DEF JInv, JTyped
  <2>5. Judged'
    BY <2>1, <2>2, <2>3, <2>4, JudgedStays
  <2> QED
    BY <2>2, <2>5 DEF JInv
<1> QED
  BY <1>1, <1>2, <1>3 DEF Next

(* The tool of a gateway runs only for what passed every check of invoke(),*)
(* and what it established is at most one store timeout old at the call,   *)
(* whatever is revoked, suspended, forgotten or delayed meanwhile.         *)
THEOREM OnlyPermittedRun == Spec => []RunsOnlyWhatWasPermitted
<1>1. Init => JInv
  BY DEF Init, JInv, JTyped, Judged, RanWon, CalledInTime
<1>2. JInv /\ [Next]_vars => JInv'
  BY NextJ
<1>3. ASSUME JInv, NEW i \in ran
      PROVE  LET o == inv[i]  r == Request[o.request]  d == o.decision IN
             /\ Tool[o.tool].action = r.action /\ r.resource \in Tool[o.tool].covers
             /\ o.params = r.params /\ r.audience = Audience
             /\ r.execution \in {"unbound", Observed}
             /\ d.value = "permit" /\ d.request = o.request
             /\ Store = "shared" => called[i] <= r.expires + Timeout
             /\ Usable(LongTold(i), r.principal, d.decided)
             /\ r.delegation # "none" =>
                   /\ <<o.request, o.params>> \in o.chain.grants
                   /\ \A l \in o.chain.links : LinkUsable(LongTold(i), l, d.decided)
  <2>1. /\ i \in Invocations /\ wire[i] = "won" /\ start[i] \in Nat /\ called[i] \in Nat
        /\ Store = "shared" => called[i] <= start[i] + Timeout
    BY <1>3 DEF JInv, JTyped, RanWon, CalledInTime
  <2>2. inv[i] \in Offers /\ Acceptable(ToldBefore(i), inv[i], start[i])
    BY <1>3, <2>1 DEF JInv, Judged
  <2>3. /\ start[i] <= Request[inv[i].request].expires
        /\ Request[inv[i].request].expires \in Nat /\ Timeout \in Nat
    BY <2>1, <2>2, AcceptableInTime, ConstantTypes
  <2>4. Store = "shared" => called[i] <= Request[inv[i].request].expires + Timeout
    BY <2>1, <2>3
  <2>5. LongTold(i) \subseteq ToldBefore(i)
    <3>1. Host[i] \in Gateways
      BY <2>1, GatewayAssumption
    <3>2. \A n \in Notices : heard[Host[i]][n] \in Int
      BY <3>1, <1>3 DEF JInv, JTyped
    <3> QED
      BY <3>2, <2>1, <2>3 DEF LongTold, ToldBefore
  <2>6. Acceptable(LongTold(i), inv[i], start[i])
    BY <2>2, <2>5, ToldLess
  <2> QED
    BY <2>4, <2>6 DEF Acceptable, DecisionAccepted, ExecutionAccepted, Delegated
<1>4. JInv => RunsOnlyWhatWasPermitted
  BY <1>3 DEF RunsOnlyWhatWasPermitted
<1> QED
  BY <1>1, <1>2, <1>4, PTL DEF Spec

-----------------------------------------------------------------------------
(***************************************************************************)
(* What a confirmation says depends on where invoke() is suspended, and on *)
(* nothing the store does: over every store, with every TTL.  Whatever it  *)
(* signs is signed last, so the invariant relates pc to the tool.          *)
(***************************************************************************)
Suspended ==
    \A i \in Invocations :
        /\ pc[i] \in {"idle", "consuming", "rejecting"} => i \notin ran
        /\ pc[i] \in {"executing", "completing"} => i \in ran \ threw
        /\ pc[i] = "failing" => i \in ran
        /\ outcome[i] # "none" => pc[i] = "done"
        /\ i \in threw => i \in ran

Typed ==
    /\ pc \in [Invocations -> {"idle", "consuming", "executing", "rejecting",
                               "completing", "failing", "done"}]
    /\ outcome \in [Invocations -> {"none", "rejected", "completed", "failed"}]

HInv == Typed /\ Suspended /\ ConfirmationsHonest

(* A step of one invocation, or the first one of it. *)
LEMMA StepH ==
    ASSUME HInv, NEW i \in Invocations,
           \/ Step(i)
           \/ \E o \in Offers : Invoke(i, o)
    PROVE  HInv'
<1> DEFINE Calm == UNCHANGED <<ran, threw, outcome>>
<1>1. \/ pc' = pc /\ Calm
      \/ pc[i] = "idle" /\ pc' = [pc EXCEPT ![i] = "consuming"] /\ Calm
      \/ pc[i] \in {"idle", "consuming"} /\ pc' = [pc EXCEPT ![i] = "rejecting"] /\ Calm
      \/ /\ pc[i] = "consuming" /\ pc' = [pc EXCEPT ![i] = "executing"]
         /\ ran' = ran \cup {i} /\ UNCHANGED <<threw, outcome>>
      \/ pc[i] = "executing" /\ pc' = [pc EXCEPT ![i] = "completing"] /\ Calm
      \/ /\ pc[i] = "executing" /\ pc' = [pc EXCEPT ![i] = "failing"]
         /\ threw' = threw \cup {i} /\ UNCHANGED <<ran, outcome>>
      \/ pc[i] = "completing" /\ pc' = [pc EXCEPT ![i] = "failing"] /\ Calm
      \/ /\ pc[i] \in {"rejecting", "failing"} /\ pc' = [pc EXCEPT ![i] = "done"]
         /\ Calm
      \/ /\ pc' = [pc EXCEPT ![i] = "done"] /\ UNCHANGED <<ran, threw>>
         /\ \/ pc[i] = "rejecting" /\ outcome' = [outcome EXCEPT ![i] = "rejected"]
            \/ pc[i] = "completing" /\ outcome' = [outcome EXCEPT ![i] = "completed"]
            \/ pc[i] = "failing" /\ outcome' = [outcome EXCEPT ![i] = "failed"]
  BY DEF Step, Invoke, Apply, Consumed, Replayed, Unavailable, ToolReturns, ToolThrows,
         Confirm, ConfirmThrows
<1>2. Typed'
  BY <1>1 DEF HInv, Typed
<1>3. \A k \in Invocations : k # i =>
          /\ pc'[k] = pc[k] /\ outcome'[k] = outcome[k]
          /\ (k \in ran' <=> k \in ran) /\ (k \in threw' <=> k \in threw)
  BY <1>1 DEF HInv, Typed
<1>4. Suspended'
  BY <1>1, <1>3 DEF HInv, Typed, Suspended
<1>5. ConfirmationsHonest'
  BY <1>1, <1>3 DEF HInv, Typed, Suspended, ConfirmationsHonest
<1> QED
  BY <1>2, <1>4, <1>5 DEF HInv

(* A crash ends the invocations of its gateway without a confirmation. *)
LEMMA NextH == ASSUME HInv, [Next]_vars PROVE HInv'
<1>1. CASE \E i \in Invocations : Step(i)
  BY <1>1, StepH
<1>2. CASE \E i \in Invocations, o \in Offers : Invoke(i, o)
  BY <1>2, StepH
<1>3. CASE \E g \in Gateways : Crash(g)
  BY <1>3 DEF Crash, HInv, Typed, Suspended, ConfirmationsHonest
<1>4. CASE (\E g \in Gateways, n \in Notices : Hear(g, n)) \/ Tick \/ UNCHANGED vars
  BY <1>4 DEF Hear, Tick, vars, HInv, Typed, Suspended, ConfirmationsHonest
<1> QED
  BY <1>1, <1>2, <1>3, <1>4 DEF Next

(* A confirmation signed "rejected" means the tool did not run, one signed *)
(* "completed" that it ran to its end without throwing, "failed" that it   *)
(* was called, with every store, signer and crash, and whatever the TTL.   *)
THEOREM ConfirmationsAreHonest == Spec => []ConfirmationsHonest
<1>1. Init => HInv
  BY DEF Init, HInv, Typed, Suspended, ConfirmationsHonest
<1>2. HInv /\ [Next]_vars => HInv'
  BY NextH
<1>3. HInv => ConfirmationsHonest
  BY DEF HInv
<1> QED
  BY <1>1, <1>2, <1>3, PTL DEF Spec
-----------------------------------------------------------------------------
(***************************************************************************)
(* The client of the shared store.  As long as close() is not called, no   *)
(* command of RedisClient is given the reply to another one, for any number*)
(* of commands and connections.                                            *)
(*                                                                         *)
(* The invariant behind it: #pending mirrors what is outstanding on the    *)
(* only connection that can still deliver, and a command that is about to  *)
(* send finds a socket.  ClientTypeOK and Fresh hold with close() as well. *)
(***************************************************************************)
Entries == Commands \cup Conns

(* Connections that were never opened carry nothing. *)
Fresh == \A g \in Conns : g > opened => link[g] = "unused" /\ onWire[g] = <<>>

(* Client and server in step. *)
Mirror == pending = (IF socket = 0 THEN <<>> ELSE onWire[socket]) /\ buf = <<>>
OneLive == \A g \in Conns : link[g] \in {"connecting", "up"} => socket = g
Sendable == \A c \in Commands : phase[c] = "resuming" => socket # 0
Synced == Mirror /\ OneLive /\ Sendable /\ OwnReply

RInv == ClientTypeOK /\ Fresh /\ (closes = 0 => Synced)

-----------------------------------------------------------------------------
(* The connections are numbers from 1, the outcomes are not replies. *)
LEMMA RedisTypes ==
    /\ MaxConns \in Nat /\ MaxCloses \in Nat /\ 0 \notin Conns
    /\ \A g \in Conns : g \in Nat
BY RedisAssumption DEF Conns

(* A new client satisfies the invariant. *)
LEMMA InitR == ClientInit => RInv
<1> SUFFICES ASSUME ClientInit PROVE RInv
  OBVIOUS
<1>1. <<>> \in Seq(Commands \cup Conns)
  OBVIOUS
<1>2. ClientTypeOK
  BY <1>1, RedisTypes DEF ClientInit, ClientTypeOK
<1>3. Fresh
  BY DEF ClientInit, Fresh
<1>4. Synced
  BY DEF ClientInit, Synced, Mirror, OneLive, Sendable, OwnReply
<1> QED
  BY <1>2, <1>3, <1>4 DEF RInv

(* Rejecting commands keeps types, makes none sendable and gives no reply. *)
LEMMA RejectFacts ==
    ASSUME ClientTypeOK, NEW E, NEW S, Reject(E, S)
    PROVE  /\ phase' \in [Commands -> {"idle", "waiting", "resuming", "sent", "over"}]
           /\ got' \in [Commands -> {Unsettled, Error} \cup Commands \cup Conns]
           /\ \A c \in Commands : phase'[c] = "resuming" => phase[c] = "resuming"
           /\ OwnReply => OwnReply'
BY DEF Reject, ClientTypeOK, OwnReply

(* #fail leaves a client with no connection and nothing pending. *)
LEMMA FailR ==
    ASSUME RInv, NEW gs, NEW S, Fail(gs, S), Macrotask,
           UNCHANGED <<auth, opened, resolved, conn, closes>>
    PROVE  RInv'
<1> DEFINE E == Waiters(gs \cup Elements(pending)) \cup (Commands \cap Elements(pending))
<1>1. ClientTypeOK /\ Fresh
  BY DEF RInv
<1>2. /\ Reject(E, S)
      /\ socket' = 0 /\ ready' = 0 /\ buf' = <<>> /\ pending' = <<>>
      /\ link' = [g \in Conns |-> IF g = socket THEN "dead" ELSE link[g]]
      /\ onWire' = [g \in Conns |-> IF g = socket THEN <<>> ELSE onWire[g]]
  BY DEF Fail
<1>3. /\ phase' \in [Commands -> {"idle", "waiting", "resuming", "sent", "over"}]
      /\ got' \in [Commands -> {Unsettled, Error} \cup Commands \cup Conns]
      /\ \A c \in Commands : phase'[c] = "resuming" => phase[c] = "resuming"
      /\ OwnReply => OwnReply'
  BY <1>1, <1>2, RejectFacts
<1>4. <<>> \in Seq(Commands \cup Conns) /\ opened \in Nat
  BY <1>1, RedisTypes DEF ClientTypeOK
<1>5. /\ onWire' \in [Conns -> Seq(Commands \cup Conns)]
      /\ link' \in [Conns -> {"unused", "connecting", "up", "dead"}]
  BY <1>1, <1>2, <1>4 DEF ClientTypeOK
<1>6. ClientTypeOK'
  BY <1>1, <1>2, <1>3, <1>4, <1>5 DEF ClientTypeOK
<1>7. Fresh'
  <2> SUFFICES ASSUME NEW g \in Conns, g > opened
               PROVE  link'[g] = "unused" /\ onWire'[g] = <<>>
    BY DEF Fresh
  <2>1. g # socket
    BY <1>1, <1>4, RedisTypes DEF ClientTypeOK
  <2> QED
    BY <2>1, <1>1, <1>2 DEF Fresh
<1>8. closes' = 0 => Synced'
  <2> SUFFICES ASSUME closes = 0 PROVE Synced'
    OBVIOUS
  <2>1. OneLive /\ OwnReply
    BY DEF RInv, Synced
  <2>2. Mirror'
    BY <1>2 DEF Mirror
  <2>3. OneLive'
    BY <2>1, <1>2 DEF OneLive
  <2>4. Sendable'
    BY <1>3 DEF Sendable, Macrotask
  <2> QED
    BY <2>1, <2>2, <2>3, <2>4, <1>3 DEF Synced
<1> QED
  BY <1>6, <1>7, <1>8 DEF RInv

(* command(): a connection that is opened starts empty on both sides. *)
LEMMA CommandR ==
    ASSUME RInv, NEW c \in Commands, Command(c)
    PROVE  RInv'
<1>1. ClientTypeOK /\ Fresh /\ UNCHANGED <<auth, resolved, onWire, buf, pending, got, closes>>
  BY DEF RInv, Command
<1>2. opened \in Nat /\ MaxConns \in Nat /\ 0 \in 0..opened
  BY <1>1, RedisTypes DEF ClientTypeOK
<1>3. CASE /\ ready # 0
           /\ conn' = [conn EXCEPT ![c] = ready]
           /\ phase' = [phase EXCEPT ![c] = IF ready \in resolved THEN "resuming" ELSE "waiting"]
           /\ UNCHANGED <<socket, ready, opened, link>>
  <2>1. ClientTypeOK'
    BY <1>1, <1>3 DEF ClientTypeOK
  <2>2. Fresh'
    BY <1>1, <1>3 DEF Fresh
  <2>3. closes = 0 => Synced'
    <3> SUFFICES ASSUME closes = 0 PROVE Synced'
      OBVIOUS
    <3>1. Mirror /\ OneLive /\ Sendable /\ OwnReply
      BY DEF RInv, Synced
    <3>2. Mirror' /\ OneLive' /\ OwnReply'
      BY <3>1, <1>1, <1>3 DEF Mirror, OneLive, OwnReply
    <3>3. Sendable'
      BY <3>1, <1>1, <1>3 DEF Sendable, ClientTypeOK
    <3> QED
      BY <3>2, <3>3 DEF Synced
  <2> QED
    BY <2>1, <2>2, <2>3, <1>1 DEF RInv
<1>4. CASE /\ ready = 0 /\ opened < MaxConns
           /\ opened' = opened + 1 /\ socket' = opened' /\ ready' = opened'
           /\ link' = [link EXCEPT ![opened'] = "connecting"]
           /\ conn' = [conn EXCEPT ![c] = opened']
           /\ phase' = [phase EXCEPT ![c] = "waiting"]
  <2>1. opened' \in Conns /\ opened' \in 0..MaxConns /\ opened' \in 0..opened'
        /\ opened' > opened /\ opened' # 0 /\ \A k \in 0..opened : k \in 0..opened'
    BY <1>2, <1>4 DEF Conns
  <2>2. link'[opened'] = "connecting"
        /\ link' \in [Conns -> {"unused", "connecting", "up", "dead"}]
        /\ \A g \in Conns : g # opened' => link'[g] = link[g]
    BY <2>1, <1>1, <1>4 DEF ClientTypeOK
  <2>3. conn' \in [Commands -> 0..opened']
    BY <2>1, <1>1, <1>4 DEF ClientTypeOK
  <2>4. phase' \in [Commands -> {"idle", "waiting", "resuming", "sent", "over"}]
    BY <1>1, <1>4 DEF ClientTypeOK
  <2>5. ClientTypeOK'
    BY <2>1, <2>2, <2>3, <2>4, <1>1, <1>4 DEF ClientTypeOK
  <2>6. Fresh'
    <3> SUFFICES ASSUME NEW g \in Conns, g > opened'
                 PROVE  link'[g] = "unused" /\ onWire'[g] = <<>>
      BY DEF Fresh
    <3>1. g > opened /\ g # opened'
      BY <1>2, <1>4, RedisTypes
    <3> QED
      BY <3>1, <2>2, <1>1 DEF Fresh
  <2>7. closes = 0 => Synced'
    <3> SUFFICES ASSUME closes = 0 PROVE Synced'
      OBVIOUS
    <3>1. Mirror /\ OneLive /\ Sendable /\ OwnReply /\ socket = 0
      BY <1>1, <1>4 DEF RInv, Synced, ClientTypeOK
    <3>2. onWire[opened'] = <<>>
      BY <2>1, <1>1 DEF Fresh
    <3>3. Mirror'
      BY <3>1, <3>2, <2>1, <1>1, <1>4 DEF Mirror
    <3>4. OneLive'
      BY <3>1, <2>2, <1>4, RedisTypes DEF OneLive
    <3>5. Sendable' /\ OwnReply'
      BY <3>1, <2>1, <1>1, <1>4 DEF Sendable, OwnReply
    <3> QED
      BY <3>3, <3>4, <3>5 DEF Synced
  <2> QED
    BY <2>5, <2>6, <2>7, <1>1 DEF RInv
<1> QED
  BY <1>3, <1>4 DEF Command

(* #send appends the same entry to both sides of the current connection. *)
LEMMA SendFacts ==
    ASSUME ClientTypeOK, Fresh, NEW x \in Commands \cup Conns, Send(x), UNCHANGED <<socket, opened>>
    PROVE  /\ onWire' \in [Conns -> Seq(Commands \cup Conns)]
           /\ pending' \in Seq(Commands \cup Conns)
           /\ \A g \in Conns : g > opened => onWire'[g] = <<>>
           /\ socket # 0 /\ pending = onWire[socket] => pending' = onWire'[socket]
<1>1. /\ onWire \in [Conns -> Seq(Commands \cup Conns)]
      /\ pending \in Seq(Commands \cup Conns)
      /\ socket \in 0..opened /\ opened \in 0..MaxConns
  BY DEF ClientTypeOK
<1>2. \A s \in Seq(Commands \cup Conns) : Append(s, x) \in Seq(Commands \cup Conns)
  OBVIOUS
<1>3. /\ pending' = Append(pending, x)
      /\ onWire' = [g \in Conns |-> IF g = socket THEN Append(onWire[g], x) ELSE onWire[g]]
  BY DEF Send
<1>4. \A g \in Conns : g > opened => g # socket
  BY <1>1, RedisTypes
<1>5. socket # 0 => socket \in Conns
  BY <1>1, RedisTypes DEF Conns
<1>6. onWire' \in [Conns -> Seq(Commands \cup Conns)] /\ pending' \in Seq(Commands \cup Conns)
  BY <1>1, <1>2, <1>3
<1>7. \A g \in Conns : g > opened => onWire'[g] = <<>>
  BY <1>3, <1>4 DEF Fresh
<1>8. socket # 0 /\ pending = onWire[socket] => pending' = onWire'[socket]
  BY <1>3, <1>5
<1> QED
  BY <1>6, <1>7, <1>8

(* A command that was told #ready sends. *)
LEMMA ResumeR ==
    ASSUME RInv, NEW c \in Commands, Resume(c)
    PROVE  RInv'
<1>1. /\ ClientTypeOK /\ Fresh /\ phase[c] = "resuming" /\ Send(c)
      /\ UNCHANGED <<auth, socket, ready, opened, link, resolved, buf, conn, closes>>
  BY DEF RInv, Resume
<1>2. /\ onWire' \in [Conns -> Seq(Commands \cup Conns)]
      /\ pending' \in Seq(Commands \cup Conns)
      /\ \A g \in Conns : g > opened => onWire'[g] = <<>>
      /\ socket # 0 /\ pending = onWire[socket] => pending' = onWire'[socket]
  BY <1>1, SendFacts
<1>3. /\ phase' \in [Commands -> {"idle", "waiting", "resuming", "sent", "over"}]
      /\ got' \in [Commands -> {Unsettled, Error} \cup Commands \cup Conns]
      /\ \A k \in Commands : phase'[k] = "resuming" => phase[k] = "resuming"
      /\ OwnReply => OwnReply'
  <2>1. CASE socket # 0 /\ phase' = [phase EXCEPT ![c] = "sent"] /\ UNCHANGED got
    BY <2>1, <1>1 DEF ClientTypeOK, OwnReply
  <2>2. CASE socket = 0 /\ Reject({c}, {})
    BY <2>2, <1>1, RejectFacts
  <2> QED
    BY <2>1, <2>2 DEF Resume
<1>4. ClientTypeOK'
  BY <1>1, <1>2, <1>3 DEF ClientTypeOK
<1>5. Fresh'
  BY <1>1, <1>2 DEF Fresh
<1>6. closes = 0 => Synced'
  <2> SUFFICES ASSUME closes = 0 PROVE Synced'
    OBVIOUS
  <2>1. Mirror /\ OneLive /\ Sendable /\ OwnReply /\ socket # 0
    BY <1>1 DEF RInv, Synced, Sendable
  <2>2. Mirror' /\ OneLive'
    BY <2>1, <1>1, <1>2 DEF Mirror, OneLive
  <2>3. Sendable'
    BY <2>1, <1>1, <1>3 DEF Sendable
  <2> QED
    BY <2>1, <2>2, <2>3, <1>3 DEF Synced
<1> QED
  BY <1>1, <1>4, <1>5, <1>6 DEF RInv

(* The connect event. *)
LEMMA ConnectedR ==
    ASSUME RInv, NEW g \in Conns, Connected(g)
    PROVE  RInv'
<1>1. /\ ClientTypeOK /\ Fresh /\ Macrotask /\ link[g] = "connecting"
      /\ link' = [link EXCEPT ![g] = "up"]
      /\ UNCHANGED <<auth, socket, ready, opened, buf, conn, closes>>
  BY DEF RInv, Connected
<1>2. /\ link' \in [Conns -> {"unused", "connecting", "up", "dead"}]
      /\ \A h \in Conns : link'[h] \in {"connecting", "up"} <=> link[h] \in {"connecting", "up"}
      /\ \A h \in Conns : h > opened => link'[h] = link[h]
      /\ socket # 0 => socket \in Conns
  BY <1>1, RedisTypes DEF ClientTypeOK, Fresh, Conns
<1>3. closes = 0 => Mirror /\ OneLive /\ Sendable /\ OwnReply /\ socket = g
  BY <1>1 DEF RInv, Synced, OneLive
<1>4. /\ onWire' \in [Conns -> Seq(Commands \cup Conns)]
      /\ pending' \in Seq(Commands \cup Conns)
      /\ \A h \in Conns : h > opened => onWire'[h] = <<>>
      /\ closes = 0 => pending' = onWire'[socket]
      /\ resolved' \subseteq Conns
      /\ phase' \in [Commands -> {"idle", "waiting", "resuming", "sent", "over"}]
      /\ got' \in [Commands -> {Unsettled, Error} \cup Commands \cup Conns]
      /\ OwnReply => OwnReply'
  <2>1. CASE /\ resolved' = resolved \cup {g} /\ phase' = Told({g})
             /\ UNCHANGED <<onWire, pending, got>>
    <3>1. phase' \in [Commands -> {"idle", "waiting", "resuming", "sent", "over"}]
      BY <2>1, <1>1 DEF Told, ClientTypeOK
    <3>2. closes = 0 => pending' = onWire'[socket]
      BY <2>1, <1>3, RedisTypes DEF Mirror
    <3> QED
      BY <2>1, <3>1, <3>2, <1>1 DEF ClientTypeOK, Fresh, OwnReply
  <2>2. CASE Send(g) /\ UNCHANGED resolved
             /\ (UNCHANGED <<phase, got>> \/ Reject(Waiters({g}), {}))
    <3>1. /\ onWire' \in [Conns -> Seq(Commands \cup Conns)]
          /\ pending' \in Seq(Commands \cup Conns)
          /\ \A h \in Conns : h > opened => onWire'[h] = <<>>
          /\ socket # 0 /\ pending = onWire[socket] => pending' = onWire'[socket]
      BY <2>2, <1>1, SendFacts
    <3>2. closes = 0 => pending' = onWire'[socket]
      BY <3>1, <1>3, RedisTypes DEF Mirror
    <3>3. /\ phase' \in [Commands -> {"idle", "waiting", "resuming", "sent", "over"}]
          /\ got' \in [Commands -> {Unsettled, Error} \cup Commands \cup Conns]
          /\ OwnReply => OwnReply'
      <4>1. CASE UNCHANGED <<phase, got>>
        BY <4>1, <1>1 DEF ClientTypeOK, OwnReply
      <4>2. CASE Reject(Waiters({g}), {})
        BY <4>2, <1>1, RejectFacts
      <4> QED
        BY <4>1, <4>2, <2>2
    <3> QED
      BY <3>1, <3>2, <3>3, <2>2, <1>1 DEF ClientTypeOK
  <2> QED
    BY <2>1, <2>2 DEF Connected
<1>5. ClientTypeOK'
  BY <1>1, <1>2, <1>4 DEF ClientTypeOK
<1>6. Fresh'
  BY <1>1, <1>2, <1>4 DEF Fresh
<1>7. closes = 0 => Synced'
  <2> SUFFICES ASSUME closes = 0 PROVE Synced'
    OBVIOUS
  <2>1. Mirror'
    BY <1>1, <1>3, <1>4, RedisTypes DEF Mirror
  <2>2. OneLive'
    BY <1>1, <1>2, <1>3 DEF OneLive
  <2>3. Sendable'
    BY <1>1, <1>3, RedisTypes DEF Sendable
  <2> QED
    BY <2>1, <2>2, <2>3, <1>3, <1>4 DEF Synced
<1> QED
  BY <1>1, <1>5, <1>6, <1>7 DEF RInv

(* A connection breaks off: the current one fails, another one is forgotten. *)
LEMMA LinkDownR ==
    ASSUME RInv, NEW g \in Conns, LinkDown(g)
    PROVE  RInv'
<1>1. /\ ClientTypeOK /\ Fresh /\ Macrotask /\ link[g] \in {"connecting", "up"}
      /\ UNCHANGED <<auth, opened, resolved, conn, closes>>
  BY DEF RInv, LinkDown
<1>2. CASE socket = g
  <2>1. \E gs : Fail(gs, {})
    BY <1>2 DEF LinkDown
  <2> QED
    BY <2>1, <1>1, FailR
<1>3. CASE socket # g
  <2>1. /\ link' = [link EXCEPT ![g] = "dead"] /\ onWire' = [onWire EXCEPT ![g] = <<>>]
        /\ \E E : Reject(E, {})
        /\ UNCHANGED <<socket, ready, buf, pending>>
    BY <1>3 DEF LinkDown
  <2>2. /\ phase' \in [Commands -> {"idle", "waiting", "resuming", "sent", "over"}]
        /\ got' \in [Commands -> {Unsettled, Error} \cup Commands \cup Conns]
    BY <2>1, <1>1, RejectFacts
  <2>3. <<>> \in Seq(Commands \cup Conns)
    OBVIOUS
  <2>4. /\ onWire' \in [Conns -> Seq(Commands \cup Conns)]
        /\ link' \in [Conns -> {"unused", "connecting", "up", "dead"}]
        /\ \A h \in Conns : h # g => link'[h] = link[h] /\ onWire'[h] = onWire[h]
    BY <2>1, <2>3, <1>1 DEF ClientTypeOK
  <2>5. socket # 0 => socket \in Conns
    BY <1>1, RedisTypes DEF ClientTypeOK, Conns
  <2>6. ClientTypeOK'
    BY <2>1, <2>2, <2>4, <2>5, <1>1, <1>3 DEF ClientTypeOK
  <2>7. Fresh'
    BY <2>4, <1>1 DEF Fresh
  <2>8. closes # 0
    BY <1>1, <1>3 DEF RInv, Synced, OneLive
  <2> QED
    BY <2>6, <2>7, <2>8, <1>1 DEF RInv
<1> QED
  BY <1>2, <1>3

(* Late replies change #buf and #pending, and only a closed client has them. *)
LEMMA LateRepliesR ==
    ASSUME RInv, NEW g \in Conns, NEW n \in 1..Len(onWire[g]), LateReplies(g, n)
    PROVE  RInv'
<1>1. /\ ClientTypeOK /\ Fresh /\ link[g] = "up" /\ socket # g
      /\ buf' = Tail(buf \o SubSeq(onWire[g], 1, n))
      /\ onWire' = [onWire EXCEPT ![g] = SubSeq(onWire[g], n + 1, Len(onWire[g]))]
      /\ pending' = IF pending = <<>> THEN pending ELSE Tail(pending)
      /\ UNCHANGED <<auth, socket, ready, opened, link, resolved, phase, conn, got, closes>>
  BY DEF RInv, LateReplies
<1>2. closes # 0
  BY <1>1 DEF RInv, Synced, OneLive
<1>3. onWire[g] \in Seq(Entries) /\ buf \in Seq(Entries) /\ pending \in Seq(Entries)
  BY <1>1 DEF ClientTypeOK, Entries
<1>4. /\ SubSeq(onWire[g], 1, n) \in Seq(Entries)
      /\ SubSeq(onWire[g], n + 1, Len(onWire[g])) \in Seq(Entries)
      /\ Len(SubSeq(onWire[g], 1, n)) = n
  BY <1>3
<1>5. Tail(buf \o SubSeq(onWire[g], 1, n)) \in Seq(Entries)
  <2>1. /\ buf \o SubSeq(onWire[g], 1, n) \in Seq(Entries)
        /\ Len(buf \o SubSeq(onWire[g], 1, n)) = Len(buf) + n
    BY <1>3, <1>4, ConcatProperties
  <2>2. buf \o SubSeq(onWire[g], 1, n) # <<>>
    BY <2>1, <1>3
  <2> QED
    BY <2>1, <2>2
<1>6. pending' \in Seq(Entries)
  BY <1>1, <1>3
<1>7. onWire' \in [Conns -> Seq(Entries)] /\ \A h \in Conns : h # g => onWire'[h] = onWire[h]
  BY <1>1, <1>4 DEF ClientTypeOK, Entries
<1>8. ClientTypeOK'
  BY <1>1, <1>5, <1>6, <1>7 DEF ClientTypeOK, Entries
<1>9. Fresh'
  <2>1. \A h \in Conns : h > opened => h # g
    BY <1>1 DEF Fresh
  <2> QED
    BY <2>1, <1>1, <1>7 DEF Fresh
<1> QED
  BY <1>2, <1>8, <1>9, <1>1 DEF RInv

(* A chunk on the current connection: in step, every reply is the answer   *)
(* to the entry it settles, and none is unsolicited.                       *)
LEMMA RepliesR ==
    ASSUME RInv, NEW g \in Conns, NEW n \in 1..Len(onWire[g]), Replies(g, n)
    PROVE  RInv'
<1> DEFINE r == buf \o SubSeq(onWire[g], 1, n)
           k == Lesser(Len(r), Len(pending))
           settled == Elements(SubSeq(pending, 1, k))
           answer(c) == r[CHOOSE j \in 1..k : pending[j] = c]
           rest == SubSeq(onWire[g], n + 1, Len(onWire[g]))
<1>1. /\ ClientTypeOK /\ Fresh /\ Macrotask /\ link[g] = "up" /\ socket = g
      /\ UNCHANGED <<auth, opened, conn, closes>>
  BY DEF RInv, Replies
<1>2. /\ resolved' = resolved \cup (settled \cap Conns)
      /\ got' = [c \in Commands |->
                   IF c \in settled /\ got[c] = Unsettled THEN answer(c) ELSE got[c]]
      /\ phase' = [c \in Commands |-> IF c \in settled THEN "over"
                                   ELSE Told(settled \cap Conns)[c]]
      /\ pending' = SubSeq(pending, k + 1, Len(pending))
      /\ buf' = <<>>
  BY DEF Replies
<1>3. \/ /\ Len(r) <= Len(pending)
         /\ onWire' = [onWire EXCEPT ![g] = rest]
         /\ UNCHANGED <<socket, ready, link>>
      \/ /\ Len(r) > Len(pending)
         /\ socket' = 0 /\ ready' = 0 /\ link' = [link EXCEPT ![g] = "dead"]
         /\ onWire' = [onWire EXCEPT ![g] = <<>>]
  BY DEF Replies
<1>4. onWire[g] \in Seq(Entries) /\ buf \in Seq(Entries) /\ pending \in Seq(Entries)
  BY <1>1 DEF ClientTypeOK, Entries
<1>5. /\ SubSeq(onWire[g], 1, n) \in Seq(Entries) /\ Len(SubSeq(onWire[g], 1, n)) = n
      /\ \A j \in 1..n : SubSeq(onWire[g], 1, n)[j] = onWire[g][j]
      /\ rest \in Seq(Entries) /\ <<>> \in Seq(Entries)
  BY <1>4
<1>6. r \in Seq(Entries) /\ Len(r) \in Nat /\ Len(pending) \in Nat
  BY <1>4, <1>5, ConcatProperties
<1>7. k \in Nat /\ k <= Len(r) /\ k <= Len(pending)
  BY <1>6 DEF Lesser
<1>8. settled = {pending[j] : j \in 1..k}
  <2> HIDE DEF k, r
  <2>1. Len(SubSeq(pending, 1, k)) = k
        /\ \A j \in 1..k : SubSeq(pending, 1, k)[j] = pending[j]
    BY <1>4, <1>7
  <2> QED
    BY <2>1 DEF Elements
<1>9. \A c \in Commands : c \in settled =>
          \E j \in 1..k : pending[j] = c /\ answer(c) = r[j]
  BY <1>8
<1>10. \A j \in 1..k : r[j] \in Entries
  <2> HIDE DEF k, r
  <2> QED
    BY <1>6, <1>7
<1>11. got' \in [Commands -> {Unsettled, Error} \cup Commands \cup Conns]
  <2> HIDE DEF k, r, settled, answer
  <2>1. \A c \in Commands : c \in settled => answer(c) \in Commands \cup Conns
    BY <1>9, <1>10 DEF Entries
  <2> QED
    BY <2>1, <1>1, <1>2 DEF ClientTypeOK
<1>12. phase' \in [Commands -> {"idle", "waiting", "resuming", "sent", "over"}]
  <2> HIDE DEF settled
  <2> QED
    BY <1>1, <1>2 DEF ClientTypeOK, Told
<1>13. pending' \in Seq(Entries)
  <2> HIDE DEF k
  <2> QED
    BY <1>2, <1>4, <1>7
<1>14. /\ onWire' \in [Conns -> Seq(Commands \cup Conns)]
       /\ \A h \in Conns : h # g => onWire'[h] = onWire[h] /\ link'[h] = link[h]
       /\ link' \in [Conns -> {"unused", "connecting", "up", "dead"}]
       /\ socket' \in 0..opened /\ ready' = socket'
       /\ socket' # 0 => link'[socket'] \in {"connecting", "up"}
  <2>1. /\ onWire \in [Conns -> Seq(Entries)] /\ rest \in Seq(Entries) /\ <<>> \in Seq(Entries)
        /\ link \in [Conns -> {"unused", "connecting", "up", "dead"}]
    BY <1>1, <1>5 DEF ClientTypeOK, Entries
  <2>2. socket \in 0..opened /\ ready = socket /\ 0 \in 0..opened
    BY <1>1, RedisTypes DEF ClientTypeOK
  <2> HIDE DEF r, rest
  <2>3. CASE onWire' = [onWire EXCEPT ![g] = rest] /\ UNCHANGED <<socket, ready, link>>
    BY <2>1, <2>2, <2>3, <1>1 DEF Entries
  <2>4. CASE /\ socket' = 0 /\ ready' = 0 /\ link' = [link EXCEPT ![g] = "dead"]
             /\ onWire' = [onWire EXCEPT ![g] = <<>>]
    BY <2>1, <2>2, <2>4 DEF Entries
  <2> QED
    BY <2>3, <2>4, <1>3
<1>15. ClientTypeOK'
  <2>1. resolved' \subseteq Conns
    BY <1>1, <1>2 DEF ClientTypeOK
  <2>2. buf' \in Seq(Commands \cup Conns) /\ pending' \in Seq(Commands \cup Conns)
    BY <1>2, <1>5, <1>13 DEF Entries
  <2> HIDE DEF r, k, settled, answer, rest
  <2> QED
    BY <2>1, <2>2, <1>1, <1>11, <1>12, <1>14 DEF ClientTypeOK
<1>16. Fresh'
  <2>1. \A h \in Conns : h > opened => h # g
    BY <1>1 DEF Fresh
  <2> QED
    BY <2>1, <1>1, <1>14 DEF Fresh
<1>17. closes = 0 => Synced'
  <2> SUFFICES ASSUME closes = 0 PROVE Synced'
    OBVIOUS
  <2>1. Mirror /\ OneLive /\ Sendable /\ OwnReply
    BY DEF RInv, Synced
  <2>2. buf = <<>> /\ pending = onWire[g]
    BY <2>1, <1>1, RedisTypes DEF Mirror
  <2>3. r = SubSeq(onWire[g], 1, n)
    BY <2>2, <1>5, ConcatEmptySeq
  <2>4. Len(r) = n /\ n <= Len(pending) /\ \A j \in 1..n : r[j] = pending[j]
    BY <2>2, <2>3, <1>4, <1>5
  <2>5. k = n
    BY <2>4, <1>6 DEF Lesser
  <2>6. /\ onWire' = [onWire EXCEPT ![g] = rest] /\ UNCHANGED <<socket, ready, link>>
    <3> HIDE DEF r, rest
    <3> QED
      BY <2>4, <1>3, <1>6
  <2>7. Mirror'
    <3>1. onWire'[socket] = rest
      BY <2>6, <1>1 DEF ClientTypeOK
    <3>2. pending' = rest
      BY <2>2, <2>5, <1>2
    <3> QED
      BY <3>1, <3>2, <2>6, <1>1, <1>2, RedisTypes DEF Mirror
  <2>8. OneLive'
    BY <2>1, <2>6 DEF OneLive
  <2>9. Sendable'
    BY <2>6, <1>1, RedisTypes DEF Sendable
  <2>10. OwnReply'
    <3> SUFFICES ASSUME NEW c \in Commands PROVE got'[c] \in {Unsettled, Error, c}
      BY DEF OwnReply
    <3>1. got'[c] = IF c \in settled /\ got[c] = Unsettled THEN answer(c) ELSE got[c]
      <4> HIDE DEF settled, answer
      <4> QED
        BY <1>2
    <3>2. got[c] \in {Unsettled, Error, c}
      BY <2>1 DEF OwnReply
    <3>3. c \in settled => answer(c) = c
      <4> HIDE DEF r, k, settled, answer
      <4> QED
        BY <1>9, <2>4, <2>5
    <3> HIDE DEF settled, answer
    <3> QED
      BY <3>1, <3>2, <3>3
  <2> QED
    BY <2>7, <2>8, <2>9, <2>10 DEF Synced
<1> QED
  BY <1>1, <1>15, <1>16, <1>17 DEF RInv

(* close() forgets the socket; from then on nothing is claimed of replies. *)
LEMMA CloseR ==
    ASSUME RInv, Close
    PROVE  RInv'
<1>1. /\ ClientTypeOK /\ Fresh /\ closes < MaxCloses /\ closes' = closes + 1
      /\ socket' = 0 /\ ready' = 0
      /\ UNCHANGED <<auth, opened, link, resolved, onWire, buf, pending, phase, conn, got>>
  BY DEF RInv, Close
<1>2. closes' \in 0..MaxCloses /\ closes' # 0 /\ 0 \in 0..opened
  BY <1>1, RedisTypes DEF ClientTypeOK
<1>3. ClientTypeOK'
  BY <1>1, <1>2 DEF ClientTypeOK
<1>4. Fresh'
  BY <1>1 DEF Fresh
<1> QED
  BY <1>2, <1>3, <1>4 DEF RInv

(* The invariant is inductive. *)
LEMMA NextR == RInv /\ [ClientNext]_clientVars => RInv'
<1> SUFFICES ASSUME RInv, [ClientNext]_clientVars PROVE RInv'
  OBVIOUS
<1>1. ASSUME NEW c \in Commands, TimesOut(c) PROVE RInv'
  BY <1>1, FailR DEF TimesOut
<1>2. CASE UNCHANGED clientVars
  <2>1. UNCHANGED <<auth, socket, ready, opened, link, resolved, onWire, buf, pending, phase,
                    conn, got, closes>>
    BY <1>2 DEF clientVars
  <2>2. ClientTypeOK' /\ Fresh'
    BY <2>1 DEF RInv, ClientTypeOK, Fresh
  <2>3. closes' = 0 => Synced'
    BY <2>1 DEF RInv, Synced, Mirror, OneLive, Sendable, OwnReply
  <2> QED
    BY <2>2, <2>3 DEF RInv
<1> QED
  BY <1>1, <1>2, CommandR, ResumeR, ConnectedR, LinkDownR, RepliesR, LateRepliesR, CloseR
     DEF ClientNext

(* The inductive invariant of the RESP client. *)
THEOREM RedisInvariance == ClientSpec => []RInv
BY InitR, NextR, PTL DEF ClientSpec

(* The state of the client has its types, also across close(), and its     *)
(* #socket and #ready exist together.                                      *)
THEOREM RedisTypeCorrect == ClientSpec => []ClientTypeOK
<1>1. RInv => ClientTypeOK
  BY DEF RInv
<1> QED
  BY <1>1, RedisInvariance, PTL

(* #pending mirrors the onWire of the current connection until close().      *)
THEOREM InStepHolds == ClientSpec => []InStep
<1>1. RInv => InStep
  BY DEF RInv, InStep, Synced, Mirror
<1> QED
  BY <1>1, RedisInvariance, PTL

(* A command is never given the reply to another one until close().        *)
THEOREM OwnReplyHolds == ClientSpec => []OwnReplyUntilClosed
<1>1. RInv => OwnReplyUntilClosed
  BY DEF RInv, OwnReplyUntilClosed, Synced
<1> QED
  BY <1>1, RedisInvariance, PTL
=============================================================================
