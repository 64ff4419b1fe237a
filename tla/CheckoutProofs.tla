--------------------------- MODULE CheckoutProofs ---------------------------
(***************************************************************************)
(* Proofs about module Checkout, for any number of requests and sessions   *)
(* and every kind of failure: the chain uses the waiting room as its       *)
(* contract allows, one request at a time owns an idempotency key, and     *)
(* what is replayed is the response to the same body.                      *)
(***************************************************************************)
EXTENDS Checkout, WaitingRoomProofs

-----------------------------------------------------------------------------
(* The chain implements the waiting room *)

\* A consume that is not sent, or one of a cancelled request, changes nothing.
LEMMA ConsumeSim ==
    ASSUME NEW s \in Sessions, NEW out \in RoomOutcome \cup {"err"}, ConsumeAdmission(s, out)
    PROVE  [RoomNext]_roomVars
<1>1. CASE out \in RoomOutcome
  BY <1>1 DEF RoomNext
<1>2. CASE out = "err"
  BY <1>2 DEF ConsumeAdmission, Happens, roomVars, joinVars
<1>3. QED
  BY <1>1, <1>2

LEMMA CheckoutSim == [CheckoutNext]_checkoutVars => [RoomNext]_roomVars
<1> SUFFICES ASSUME [CheckoutNext]_checkoutVars PROVE [RoomNext]_roomVars
  OBVIOUS
<1>1. ASSUME RoomSteps PROVE [RoomNext]_roomVars
  BY <1>1 DEF RoomNext
<1>2. ASSUME NEW s \in Sessions, Exchange(s) PROVE [RoomNext]_roomVars
  BY <1>2, ConsumeSim DEF Exchange
<1>3. ASSUME NEW r \in Requests, Gate(r) PROVE [RoomNext]_roomVars
  <2>1. SessionOf[r] \in Sessions
    BY CheckoutAssumption
  <2>2. PICK out \in RoomOutcome \cup {"err"} : ConsumeAdmission(SessionOf[r], out)
    BY <1>3 DEF Gate, Outcome
  <2>3. QED
    BY <2>1, <2>2, ConsumeSim
<1>4. ASSUME NEW r \in Requests,
             \/ Limit(r) \/ Claim(r) \/ Replay(r) \/ Forward(r) \/ Record(r) \/ ClientGone(r)
             \/ KeyExpires \/ GatewayDies
      PROVE  UNCHANGED roomVars
  BY <1>4 DEF Limit, Claim, Replay, Forward, Record, ClientGone, KeyExpires, GatewayDies
<1>5. ASSUME KeyExpires \/ GatewayDies PROVE UNCHANGED roomVars
  BY <1>5 DEF KeyExpires, GatewayDies
<1>6. ASSUME UNCHANGED checkoutVars PROVE UNCHANGED roomVars
  BY <1>6 DEF checkoutVars
<1>7. QED
  BY <1>1, <1>2, <1>3, <1>4, <1>5, <1>6 DEF CheckoutNext, Serve

\* Whatever the requests do, retry and abandon, the tokens are used as the waiting
\* room allows; so its theorems hold of the whole chain.
THEOREM ImplementsRoom == CheckoutSpec => RoomSpec
<1>1. CheckoutInit => RoomInit
  BY DEF CheckoutInit
<1>2. QED
  BY <1>1, CheckoutSim, PTL DEF CheckoutSpec, RoomSpec

-----------------------------------------------------------------------------
(* Who owns the key *)

Owns(r) == pc[r] \in {"proxy", "FAILED", "COMPLETED"}

\* The request that claimed the key has it to itself until it has recorded an
\* outcome: the key is PENDING, with its fingerprint, and no other request is
\* past the claim.  A stored response is the response to the stored fingerprint.
KeyInv ==
    /\ \A r \in Requests :
          Owns(r) => /\ idem.status = "PENDING" /\ idem.body = Body[r]
                     /\ \A q \in Requests : Owns(q) => q = r
    /\ idem.resp # "none" => idem.resp = idem.body

IdemInv == CheckoutTypeOK /\ KeyInv

LEMMA IdemInit == CheckoutInit => IdemInv
<1> SUFFICES ASSUME CheckoutInit PROVE IdemInv
  OBVIOUS
<1>1. idem = NoKey /\ commits = 0 /\ gone = {} /\ exchanged = {}
  BY DEF CheckoutInit
<1>2. CheckoutTypeOK
  BY <1>1 DEF CheckoutInit, CheckoutTypeOK, NoKey
<1>3. KeyInv
  BY <1>1 DEF CheckoutInit, KeyInv, Owns, NoKey
<1>4. QED
  BY <1>2, <1>3 DEF IdemInv

\* A step that leaves the key alone and lets nobody past the claim.
LEMMA KeyQuiet ==
    ASSUME KeyInv, UNCHANGED idem, \A r \in Requests : Owns(r)' => Owns(r) PROVE KeyInv'
BY DEF KeyInv

\* What the two ways on do to a request.
LEMMA GotoEffect ==
    ASSUME CheckoutTypeOK, NEW r \in Requests, NEW next, Goto(r, next),
           next \in {"limit", "claim", "replay", "proxy"}
    PROVE  /\ pc'[r] = next /\ ans'[r] = ans[r]
           /\ \A q \in Requests : q # r => pc'[q] = pc[q] /\ ans'[q] = ans[q]
           /\ pc' \in [Requests -> {"gate", "limit", "claim", "replay", "proxy", "FAILED",
                                    "COMPLETED", "done"}]
           /\ ans' \in [Requests -> {"none", "400", "403", "409", "422", "429", "503",
                                     "201", "4xx", "5xx", "replay"}]
BY DEF CheckoutTypeOK, Goto

LEMMA AnswerEffect ==
    ASSUME CheckoutTypeOK, NEW r \in Requests, NEW code, Answer(r, code),
           code \in {"400", "403", "409", "422", "429", "503", "replay"}
    PROVE  /\ pc'[r] = "done" /\ ans'[r] = IF r \in gone THEN "none" ELSE code
           /\ \A q \in Requests : q # r => pc'[q] = pc[q] /\ ans'[q] = ans[q]
           /\ pc' \in [Requests -> {"gate", "limit", "claim", "replay", "proxy", "FAILED",
                                    "COMPLETED", "done"}]
           /\ ans' \in [Requests -> {"none", "400", "403", "409", "422", "429", "503",
                                     "201", "4xx", "5xx", "replay"}]
BY DEF CheckoutTypeOK, Answer

\* The fields of the key after a claim and after a record.
LEMMA ClaimedFields ==
    ASSUME CheckoutTypeOK, NEW r \in Requests
    PROVE  /\ Claimed(r).status = "PENDING" /\ Claimed(r).body = Body[r]
           /\ Claimed(r).resp = idem.resp /\ Claimed(r).ttl = TRUE
           /\ Claimed(r) \in [status : {"none", "PENDING", "FAILED", "COMPLETED"},
                              body : Bodies \cup {"none"}, resp : Bodies \cup {"none"},
                              ttl : BOOLEAN]
<1>1. Body[r] \in Bodies
  BY DEF Bodies
<1>2. QED
  BY <1>1 DEF CheckoutTypeOK, Claimed

LEMMA NotedFields ==
    ASSUME CheckoutTypeOK, NEW r \in Requests
    PROVE  /\ pc[r] = "FAILED" => /\ Noted(r).status = "FAILED" /\ Noted(r).body = Body[r]
                                  /\ Noted(r).resp = idem.resp
           /\ pc[r] # "FAILED" => /\ Noted(r).status = "COMPLETED"
                                  /\ Noted(r).body = idem.body /\ Noted(r).resp = Body[r]
           /\ Noted(r) \in [status : {"none", "PENDING", "FAILED", "COMPLETED"},
                            body : Bodies \cup {"none"}, resp : Bodies \cup {"none"},
                            ttl : BOOLEAN]
<1>1. Body[r] \in Bodies
  BY DEF Bodies
<1>2. QED
  BY <1>1 DEF CheckoutTypeOK, Noted

LEMMA IdemStep == IdemInv /\ [CheckoutNext]_checkoutVars => IdemInv'
<1> SUFFICES ASSUME IdemInv, [CheckoutNext]_checkoutVars PROVE IdemInv'
  OBVIOUS
<1>0. CheckoutTypeOK /\ KeyInv
  BY DEF IdemInv
<1> DEFINE PcAns ==
      /\ pc' \in [Requests -> {"gate", "limit", "claim", "replay", "proxy", "FAILED",
                               "COMPLETED", "done"}]
      /\ ans' \in [Requests -> {"none", "400", "403", "409", "422", "429", "503",
                                "201", "4xx", "5xx", "replay"}]
\* A step that keeps the key and lets nobody past the claim.
<1>a. ASSUME PcAns, got' \in [Requests -> Bodies \cup {"none"}], gone' \subseteq Requests,
             UNCHANGED <<idem, commits, executed>>, exchanged' \subseteq Sessions,
             \A r \in Requests : Owns(r)' => Owns(r)
      PROVE  IdemInv'
  <2>1. KeyInv'
    BY <1>0, <1>a, KeyQuiet
  <2>2. CheckoutTypeOK'
    BY <1>0, <1>a DEF CheckoutTypeOK
  <2>3. QED
    BY <2>1, <2>2 DEF IdemInv
<1> HIDE DEF PcAns
<1>1. ASSUME UNCHANGED idemVars PROVE IdemInv'
  BY <1>0, <1>1 DEF idemVars, IdemInv, CheckoutTypeOK, KeyInv, Owns
<1>2. ASSUME NEW s \in Sessions, Exchange(s) PROVE IdemInv'
  BY <1>0, <1>2, <1>a DEF Exchange, Owns, CheckoutTypeOK, PcAns
<1>3. ASSUME NEW r \in Requests, Gate(r) \/ Limit(r) PROVE IdemInv'
  <2>1. \/ Goto(r, "limit") \/ Goto(r, "claim") \/ Answer(r, "403") \/ Answer(r, "429")
    BY <1>3 DEF Gate, Limit
  <2>2. PcAns /\ \A q \in Requests : Owns(q)' => Owns(q)
    BY <1>0, <2>1, GotoEffect, AnswerEffect DEF PcAns, Owns
  <2>3. UNCHANGED <<got, gone, idem, commits, executed, exchanged>>
    BY <1>3 DEF Gate, Limit
  <2>4. QED
    BY <1>0, <1>a, <2>2, <2>3 DEF CheckoutTypeOK
<1>4. ASSUME NEW r \in Requests, Claim(r) PROVE IdemInv'
  <2>1. UNCHANGED <<got, gone, commits, executed, exchanged>> /\ pc[r] = "claim"
    BY <1>4 DEF Claim
  <2>2. \/ /\ UNCHANGED idem
           /\ \/ Answer(r, "400") \/ Answer(r, "503") \/ Answer(r, "422") \/ Goto(r, "replay")
        \/ Claimable /\ idem' = Claimed(r) /\ (Answer(r, "503") \/ Goto(r, "proxy"))
    BY <1>4 DEF Claim, Happens
  <2>3. CASE /\ UNCHANGED idem
             /\ \/ Answer(r, "400") \/ Answer(r, "503") \/ Answer(r, "422") \/ Goto(r, "replay")
    <3>1. PcAns /\ \A q \in Requests : Owns(q)' => Owns(q)
      BY <1>0, <2>3, GotoEffect, AnswerEffect DEF PcAns, Owns
    <3>2. QED
      BY <1>0, <1>a, <2>1, <2>3, <3>1 DEF CheckoutTypeOK
  <2>4. CASE Claimable /\ idem' = Claimed(r) /\ (Answer(r, "503") \/ Goto(r, "proxy"))
    <3>1. idem.resp = "none"
      BY <1>0, <2>4 DEF Claimable, CheckoutTypeOK
    <3>2. \A q \in Requests : ~Owns(q)
      BY <1>0, <2>4 DEF Claimable, KeyInv
    <3>3. PcAns /\ \A q \in Requests : q # r => pc'[q] = pc[q]
      BY <1>0, <2>4, GotoEffect, AnswerEffect DEF PcAns
    <3>4. /\ idem'.status = "PENDING" /\ idem'.body = Body[r] /\ idem'.resp = "none"
          /\ idem' \in [status : {"none", "PENDING", "FAILED", "COMPLETED"},
                        body : Bodies \cup {"none"}, resp : Bodies \cup {"none"},
                        ttl : BOOLEAN]
      BY <1>0, <2>4, <3>1, ClaimedFields
    <3>5. idem' # NoKey
      BY <3>4 DEF NoKey
    <3>6. CheckoutTypeOK'
      BY <1>0, <2>1, <3>3, <3>4, <3>5 DEF CheckoutTypeOK, PcAns
    <3>7. \A q \in Requests : Owns(q)' => q = r
      BY <3>2, <3>3 DEF Owns
    <3>8. KeyInv'
      BY <3>4, <3>7 DEF KeyInv
    <3>9. QED
      BY <3>6, <3>8 DEF IdemInv
  <2>5. QED
    BY <2>2, <2>3, <2>4
<1>5. ASSUME NEW r \in Requests, Replay(r) PROVE IdemInv'
  <2>1. Answer(r, "replay") \/ Answer(r, "409")
    BY <1>5 DEF Replay
  <2>2. PcAns /\ \A q \in Requests : Owns(q)' => Owns(q)
    BY <1>0, <2>1, AnswerEffect DEF PcAns, Owns
  <2>3. UNCHANGED <<gone, idem, commits, executed, exchanged>>
    BY <1>5 DEF Replay
  <2>4. got' \in [Requests -> Bodies \cup {"none"}]
    BY <1>0, <1>5 DEF Replay, CheckoutTypeOK
  <2>5. QED
    BY <1>0, <1>a, <2>2, <2>3, <2>4 DEF CheckoutTypeOK
<1>6. ASSUME NEW r \in Requests, Forward(r) PROVE IdemInv'
  <2>1. PICK up \in CheckoutReply :
           /\ commits' = IF up \in {"201", "lost"} THEN commits + 1 ELSE commits
           /\ pc' = [pc EXCEPT ![r] = Recorded(up)]
           /\ ans' = [ans EXCEPT ![r] =
                        IF r \in gone THEN "none" ELSE IF up \in UpstreamFaults THEN "5xx" ELSE up]
    BY <1>6 DEF Forward
  <2>2. up \in UpstreamFaults \/ up \in {"201", "4xx"}
    BY <2>1 DEF CheckoutReply
  <2>3. PcAns
    BY <1>0, <2>1, <2>2 DEF PcAns, CheckoutTypeOK, Recorded
  <2>4. commits' \in Nat
    BY <1>0, <2>1 DEF CheckoutTypeOK
  <2>a. executed' = [executed EXCEPT ![SessionOf[r]] = @ + 1]
    BY <1>6 DEF Forward
  <2>b. executed' \in [Sessions -> Nat]
    <3>1. SessionOf[r] \in Sessions /\ executed \in [Sessions -> Nat]
      BY <1>0, CheckoutAssumption DEF CheckoutTypeOK
    <3>2. executed[SessionOf[r]] + 1 \in Nat
      BY <3>1
    <3>3. QED
      BY <2>a, <3>1, <3>2
  <2>5. executed' \in [Sessions -> Nat] /\ UNCHANGED <<got, gone, idem, exchanged>>
    BY <1>6, <2>b DEF Forward
  <2>6. CheckoutTypeOK'
    BY <1>0, <2>3, <2>4, <2>5 DEF CheckoutTypeOK, PcAns
  <2>7. \A q \in Requests : Owns(q)' => Owns(q)
    BY <1>0, <1>6, <2>1 DEF Forward, Owns, CheckoutTypeOK
  <2>8. KeyInv'
    BY <1>0, <2>5, <2>7, KeyQuiet
  <2>9. QED
    BY <2>6, <2>8 DEF IdemInv
<1>7. ASSUME NEW r \in Requests, Record(r) PROVE IdemInv'
  <2>1. /\ pc[r] \in {"FAILED", "COMPLETED"} /\ pc' = [pc EXCEPT ![r] = "done"]
        /\ UNCHANGED <<ans, got, gone, commits, executed, exchanged>>
    BY <1>7 DEF Record
  <2>2. PcAns /\ \A q \in Requests : Owns(q)' => Owns(q) /\ q # r
    BY <1>0, <2>1 DEF PcAns, Owns, CheckoutTypeOK
  <2>3. /\ Owns(r) /\ idem.status = "PENDING" /\ idem.body = Body[r]
        /\ \A q \in Requests : Owns(q) => q = r
    BY <1>0, <2>1 DEF KeyInv, Owns
  <2>4. idem.resp = "none"
    BY <1>0, <2>3 DEF CheckoutTypeOK
  <2>5. CASE UNCHANGED idem
    BY <1>0, <1>a, <2>1, <2>2, <2>5 DEF CheckoutTypeOK
  <2>6. CASE idem' = Noted(r)
    <3>1. /\ idem'.status \in {"FAILED", "COMPLETED"} /\ idem'.body = Body[r]
          /\ idem'.status = "COMPLETED" => idem'.resp = Body[r]
          /\ idem'.status = "FAILED" => idem'.resp = "none"
          /\ idem' \in [status : {"none", "PENDING", "FAILED", "COMPLETED"},
                        body : Bodies \cup {"none"}, resp : Bodies \cup {"none"},
                        ttl : BOOLEAN]
      BY <1>0, <2>1, <2>3, <2>4, <2>6, NotedFields
    <3>2. idem' # NoKey
      BY <3>1 DEF NoKey
    <3>3. Body[r] # "none"
      BY CheckoutAssumption
    <3>4. CheckoutTypeOK'
      BY <1>0, <2>1, <2>2, <3>1, <3>2, <3>3 DEF CheckoutTypeOK, PcAns
    <3>5. KeyInv'
      BY <2>2, <2>3, <3>1 DEF KeyInv
    <3>6. QED
      BY <3>4, <3>5 DEF IdemInv
  <2>7. QED
    BY <1>7, <2>5, <2>6 DEF Record
<1>8. ASSUME NEW r \in Requests, ClientGone(r) PROVE IdemInv'
  BY <1>0, <1>8, <1>a DEF ClientGone, Owns, CheckoutTypeOK, PcAns
<1>9. ASSUME KeyExpires PROVE IdemInv'
  <2>1. /\ idem' = NoKey /\ commits' = 0 /\ \A r \in Requests : ~Owns(r)
        /\ UNCHANGED <<pc, ans, got, gone, executed, exchanged>>
    BY <1>9 DEF KeyExpires, InFlight, Owns
  <2>2. CheckoutTypeOK'
    BY <1>0, <2>1 DEF CheckoutTypeOK, NoKey
  <2>3. KeyInv'
    BY <2>1 DEF KeyInv, Owns, NoKey
  <2>4. QED
    BY <2>2, <2>3 DEF IdemInv
<1>10. ASSUME GatewayDies PROVE IdemInv'
  BY <1>0, <1>10, <1>a DEF GatewayDies, Owns, CheckoutTypeOK, PcAns
<1>11. ASSUME UNCHANGED checkoutVars PROVE UNCHANGED idemVars
  BY <1>11 DEF checkoutVars
<1>12. QED
  BY <1>1, <1>2, <1>3, <1>4, <1>5, <1>6, <1>7, <1>8, <1>9, <1>10, <1>11 DEF CheckoutNext, Serve

LEMMA IdemInvariant == CheckoutSpec => []IdemInv
BY IdemInit, IdemStep, PTL DEF CheckoutSpec

\* The chain is well typed, whoever disconnects and whatever cannot be recorded: in
\* particular a key holds a response exactly when it is COMPLETED.
THEOREM CheckoutTypeCorrect == CheckoutSpec => []CheckoutTypeOK
<1>1. IdemInv => CheckoutTypeOK
  BY DEF IdemInv
<1>2. QED
  BY <1>1, IdemInvariant, PTL

-----------------------------------------------------------------------------
(* One order per key *)

\* A key that may be claimed has no order, nor has one whose owner has not been
\* answered or was answered without an order.
CommitInv ==
    /\ commits <= 1
    /\ idem.status \in {"none", "FAILED"} => commits = 0
    /\ \A r \in Requests : pc[r] \in {"proxy", "FAILED"} => commits = 0

LEMMA CommitStep ==
    ASSUME "lost" \notin UpstreamFaults, IdemInv, CommitInv, [CheckoutNext]_checkoutVars
    PROVE  CommitInv'
<1>0. CheckoutTypeOK /\ KeyInv
  BY DEF IdemInv
\* A step that neither orders, nor opens the key, nor lets anyone past the claim.
<1>a. ASSUME UNCHANGED <<idem, commits>>,
             \A r \in Requests : pc'[r] \in {"proxy", "FAILED"} => pc[r] \in {"proxy", "FAILED"}
      PROVE  CommitInv'
  BY <1>a DEF CommitInv
<1>1. ASSUME UNCHANGED idemVars PROVE CommitInv'
  BY <1>1, <1>a DEF idemVars
<1>2. ASSUME NEW s \in Sessions, Exchange(s) PROVE CommitInv'
  BY <1>2, <1>a DEF Exchange
<1>3. ASSUME NEW r \in Requests, Gate(r) \/ Limit(r) \/ Replay(r) PROVE CommitInv'
  <2>1. \/ Goto(r, "limit") \/ Goto(r, "claim") \/ Answer(r, "403") \/ Answer(r, "429")
        \/ Answer(r, "replay") \/ Answer(r, "409")
    BY <1>3 DEF Gate, Limit, Replay
  <2>2. \A q \in Requests : pc'[q] \in {"proxy", "FAILED"} => pc[q] \in {"proxy", "FAILED"}
    BY <1>0, <2>1, GotoEffect, AnswerEffect
  <2>3. UNCHANGED <<idem, commits>>
    BY <1>3 DEF Gate, Limit, Replay
  <2>4. QED
    BY <1>a, <2>2, <2>3
<1>4. ASSUME NEW r \in Requests, Claim(r) PROVE CommitInv'
  <2>1. UNCHANGED commits
    BY <1>4 DEF Claim
  <2>2. \/ /\ UNCHANGED idem
           /\ \/ Answer(r, "400") \/ Answer(r, "503") \/ Answer(r, "422") \/ Goto(r, "replay")
        \/ Claimable /\ idem' = Claimed(r)
    BY <1>4 DEF Claim, Happens
  <2>3. CASE /\ UNCHANGED idem
             /\ \/ Answer(r, "400") \/ Answer(r, "503") \/ Answer(r, "422") \/ Goto(r, "replay")
    <3>1. \A q \in Requests : pc'[q] \in {"proxy", "FAILED"} => pc[q] \in {"proxy", "FAILED"}
      BY <1>0, <2>3, GotoEffect, AnswerEffect
    <3>2. QED
      BY <1>a, <2>1, <2>3, <3>1
  <2>4. CASE Claimable
    <3>1. commits = 0
      BY <2>4 DEF Claimable, CommitInv
    <3>2. QED
      BY <2>1, <3>1 DEF CommitInv
  <2>5. QED
    BY <2>2, <2>3, <2>4
<1>5. ASSUME NEW r \in Requests, Forward(r) PROVE CommitInv'
  <2>1. PICK up \in CheckoutReply :
           /\ commits' = IF up \in {"201", "lost"} THEN commits + 1 ELSE commits
           /\ pc' = [pc EXCEPT ![r] = Recorded(up)]
    BY <1>5 DEF Forward
  <2>2. pc[r] = "proxy" /\ UNCHANGED idem /\ commits = 0
    BY <1>5 DEF Forward, CommitInv
  <2>3. idem.status = "PENDING" /\ \A q \in Requests : Owns(q) => q = r
    BY <1>0, <2>2 DEF KeyInv, Owns
  <2>4. up # "lost"
    BY <2>1 DEF CheckoutReply
  <2>5. CASE up = "201"
    <3>1. commits' = 1
      BY <2>1, <2>2, <2>5
    <3>2. "201" \notin UpstreamFaults
      BY CheckoutAssumption
    <3>3. \A q \in Requests : pc'[q] \notin {"proxy", "FAILED"}
      BY <1>0, <2>1, <2>3, <2>5, <3>2 DEF Recorded, Owns, CheckoutTypeOK
    <3>4. QED
      BY <2>2, <2>3, <3>1, <3>3 DEF CommitInv
  <2>6. CASE up # "201"
    <3>1. commits' = 0
      BY <2>1, <2>2, <2>4, <2>6
    <3>2. QED
      BY <3>1 DEF CommitInv
  <2>7. QED
    BY <2>5, <2>6
<1>6. ASSUME NEW r \in Requests, Record(r) PROVE CommitInv'
  <2>1. /\ pc[r] \in {"FAILED", "COMPLETED"} /\ pc' = [pc EXCEPT ![r] = "done"]
        /\ UNCHANGED commits /\ idem' \in {idem, Noted(r)}
    BY <1>6 DEF Record
  <2>2. \A q \in Requests : pc'[q] \in {"proxy", "FAILED"} => pc[q] \in {"proxy", "FAILED"}
    BY <1>0, <2>1 DEF CheckoutTypeOK
  <2>3. CASE UNCHANGED idem
    BY <1>a, <2>1, <2>2, <2>3
  <2>4. CASE idem' = Noted(r) /\ pc[r] = "FAILED"
    <3>1. commits = 0
      BY <2>4 DEF CommitInv
    <3>2. QED
      BY <2>1, <3>1 DEF CommitInv
  <2>5. CASE idem' = Noted(r) /\ pc[r] # "FAILED"
    <3>1. idem'.status = "COMPLETED"
      BY <1>0, <2>5, NotedFields
    <3>2. QED
      BY <2>1, <2>2, <3>1 DEF CommitInv
  <2>6. QED
    BY <2>1, <2>3, <2>4, <2>5
<1>7. ASSUME NEW r \in Requests, ClientGone(r) PROVE CommitInv'
  BY <1>7, <1>a DEF ClientGone
<1>8. ASSUME KeyExpires PROVE CommitInv'
  BY <1>8 DEF KeyExpires, CommitInv
<1>9. ASSUME GatewayDies PROVE CommitInv'
  BY <1>9, <1>a DEF GatewayDies
<1>10. ASSUME UNCHANGED checkoutVars PROVE UNCHANGED idemVars
  BY <1>10 DEF checkoutVars
<1>11. QED
  BY <1>1, <1>2, <1>3, <1>4, <1>5, <1>6, <1>7, <1>8, <1>9, <1>10 DEF CheckoutNext, Serve

\* Where a 5xx of the backend means that there is no order, one idempotency key
\* places at most one order, however many requests carry it and whichever of them
\* is retried, disconnects, dies with the gateway or cannot be recorded.
THEOREM OneOrderPerKey ==
    ASSUME "lost" \notin UpstreamFaults
    PROVE  CheckoutSpec => []ExecutesOnce
<1>1. CheckoutInit => CommitInv
  BY DEF CheckoutInit, CommitInv
<1>2. IdemInv /\ CommitInv /\ [CheckoutNext]_checkoutVars => CommitInv'
  BY CommitStep
<1>3. CommitInv => ExecutesOnce
  BY DEF CommitInv, ExecutesOnce
<1>4. QED
  BY <1>1, <1>2, <1>3, IdemInvariant, PTL DEF CheckoutSpec

-----------------------------------------------------------------------------
(* What is replayed *)

\* A request is answered once, and then nothing is left for it but the record.
AnsweredInv ==
    \A r \in Requests : ans[r] # "none" => pc[r] \in {"FAILED", "COMPLETED", "done"}

\* A key is reopened only by a 5xx that a client has seen: a cancelled request
\* cannot record one.
FailedInv ==
    /\ \A r \in Requests : pc[r] = "FAILED" /\ r \notin gone => ans[r] = "5xx"
    /\ idem.status = "FAILED" => \E q \in Requests : ans[q] = "5xx"

NoFive == \A q \in Requests : ans[q] # "5xx"

\* Until then a request that was told DUPLICATE still finds its own fingerprint.
ReplayInv ==
    NoFive => \A r \in Requests :
                 /\ pc[r] = "replay" => /\ idem.body = Body[r]
                                        /\ idem.status \in {"PENDING", "COMPLETED"}
                 /\ ans[r] = "replay" => got[r] = Body[r]

AnswerInv == AnsweredInv /\ FailedInv /\ ReplayInv

\* A step of one request that leaves the key alone, and answers it if at all with
\* neither a 5xx nor a replay.
LEMMA AnswerQuiet ==
    ASSUME CheckoutTypeOK, AnswerInv, NEW r \in Requests, UNCHANGED <<got, gone, idem>>,
           \/ Goto(r, "limit") \/ Goto(r, "claim") \/ Goto(r, "proxy")
           \/ \E code \in {"400", "403", "409", "422", "429", "503"} : Answer(r, code),
           pc[r] \in {"gate", "limit", "claim", "replay"}
    PROVE  AnswerInv'
<1>1. ans[r] = "none"
  BY DEF AnswerInv, AnsweredInv
<1>2. /\ pc'[r] \in {"limit", "claim", "proxy", "done"}
      /\ ans'[r] \in {"none", "400", "403", "409", "422", "429", "503"}
      /\ ans'[r] # "none" => pc'[r] = "done"
      /\ \A q \in Requests : q # r => pc'[q] = pc[q] /\ ans'[q] = ans[q]
  BY <1>1, GotoEffect, AnswerEffect
<1>3. AnsweredInv'
  BY <1>2 DEF AnswerInv, AnsweredInv
<1>4. FailedInv'
  BY <1>1, <1>2 DEF AnswerInv, FailedInv
<1>5. NoFive' => NoFive
  BY <1>1, <1>2 DEF NoFive
<1>6. ReplayInv'
  BY <1>2, <1>5 DEF AnswerInv, ReplayInv
<1>7. QED
  BY <1>3, <1>4, <1>6 DEF AnswerInv

LEMMA AnswerStep ==
    ASSUME IdemInv, AnswerInv, [CheckoutNext]_checkoutVars PROVE AnswerInv'
<1>0. CheckoutTypeOK /\ KeyInv /\ AnsweredInv /\ FailedInv /\ ReplayInv
  BY DEF IdemInv, AnswerInv
<1>1. ASSUME UNCHANGED idemVars PROVE AnswerInv'
  BY <1>1 DEF idemVars, AnswerInv, AnsweredInv, FailedInv, ReplayInv, NoFive
<1>2. ASSUME NEW s \in Sessions, Exchange(s) PROVE AnswerInv'
  BY <1>2 DEF Exchange, AnswerInv, AnsweredInv, FailedInv, ReplayInv, NoFive
<1>3. ASSUME NEW r \in Requests, Gate(r) \/ Limit(r) PROVE AnswerInv'
  <2>1. \/ Goto(r, "limit") \/ Goto(r, "claim") \/ Answer(r, "403") \/ Answer(r, "429")
    BY <1>3 DEF Gate, Limit
  <2>2. UNCHANGED <<got, gone, idem>> /\ pc[r] \in {"gate", "limit"}
    BY <1>3 DEF Gate, Limit
  <2>3. QED
    BY <1>0, <2>1, <2>2, AnswerQuiet
<1>4. ASSUME NEW r \in Requests, Claim(r) PROVE AnswerInv'
  <2>1. UNCHANGED <<got, gone>> /\ pc[r] = "claim"
    BY <1>4 DEF Claim
  <2>2. \/ /\ UNCHANGED idem
           /\ Answer(r, "400") \/ Answer(r, "503") \/ Answer(r, "422")
        \/ UNCHANGED idem /\ ~Claimable /\ SameRequest(r) /\ Goto(r, "replay")
        \/ Claimable /\ idem' = Claimed(r) /\ (Answer(r, "503") \/ Goto(r, "proxy"))
    BY <1>4 DEF Claim, Happens
  <2>3. CASE /\ UNCHANGED idem
             /\ Answer(r, "400") \/ Answer(r, "503") \/ Answer(r, "422")
    BY <1>0, <2>1, <2>3, AnswerQuiet
  <2>4. CASE UNCHANGED idem /\ ~Claimable /\ SameRequest(r) /\ Goto(r, "replay")
    <3>1. /\ pc'[r] = "replay" /\ UNCHANGED ans
          /\ \A q \in Requests : q # r => pc'[q] = pc[q]
      BY <1>0, <2>4, GotoEffect DEF Goto
    <3>2. idem.body = Body[r] /\ idem.status \in {"PENDING", "COMPLETED"}
      BY <1>0, <2>4 DEF SameRequest, Claimable, CheckoutTypeOK
    <3>3. ans[r] = "none"
      BY <1>0, <2>1 DEF AnsweredInv
    <3>4. AnsweredInv' /\ FailedInv'
      BY <1>0, <2>1, <2>4, <3>1, <3>3 DEF AnsweredInv, FailedInv
    <3>5. ReplayInv'
      BY <1>0, <2>1, <2>4, <3>1, <3>2, <3>3 DEF ReplayInv, NoFive
    <3>6. QED
      BY <3>4, <3>5 DEF AnswerInv
  <2>5. CASE Claimable /\ idem' = Claimed(r) /\ (Answer(r, "503") \/ Goto(r, "proxy"))
    <3>1. idem'.status = "PENDING" /\ idem'.body = Body[r]
      BY <1>0, <2>5, ClaimedFields
    <3>2. ans[r] = "none"
      BY <1>0, <2>1 DEF AnsweredInv
    <3>3. /\ pc'[r] \in {"proxy", "done"} /\ ans'[r] \in {"none", "503"}
          /\ ans'[r] # "none" => pc'[r] = "done"
          /\ \A q \in Requests : q # r => pc'[q] = pc[q] /\ ans'[q] = ans[q]
      BY <1>0, <2>5, <3>2, GotoEffect, AnswerEffect
    <3>4. AnsweredInv' /\ FailedInv'
      BY <1>0, <2>1, <3>1, <3>2, <3>3 DEF AnsweredInv, FailedInv
    <3>5. NoFive' => NoFive
      BY <3>2, <3>3 DEF NoFive
    \* A claimable key is unknown or FAILED: with no 5xx nobody waits to replay.
    <3>6. NoFive => \A q \in Requests : pc[q] # "replay"
      BY <1>0, <2>5 DEF ReplayInv, Claimable
    <3>7. ReplayInv'
      BY <1>0, <2>1, <3>3, <3>5, <3>6 DEF ReplayInv
    <3>8. QED
      BY <3>4, <3>7 DEF AnswerInv
  <2>6. QED
    BY <2>2, <2>3, <2>4, <2>5
<1>5. ASSUME NEW r \in Requests, Replay(r) PROVE AnswerInv'
  <2>1. UNCHANGED <<gone, idem>> /\ pc[r] = "replay"
    BY <1>5 DEF Replay
  <2>2. \/ Answer(r, "409") /\ UNCHANGED got
        \/ /\ idem.resp # "none" /\ Answer(r, "replay")
           /\ got' = [got EXCEPT ![r] = idem.resp]
    BY <1>5 DEF Replay
  <2>3. CASE Answer(r, "409") /\ UNCHANGED got
    BY <1>0, <2>1, <2>3, AnswerQuiet
  <2>4. CASE /\ idem.resp # "none" /\ Answer(r, "replay")
             /\ got' = [got EXCEPT ![r] = idem.resp]
    <3>1. ans[r] = "none"
      BY <1>0, <2>1 DEF AnsweredInv
    <3>2. /\ pc'[r] = "done" /\ ans'[r] \in {"none", "replay"}
          /\ \A q \in Requests : q # r => pc'[q] = pc[q] /\ ans'[q] = ans[q]
      BY <1>0, <2>4, AnswerEffect
    <3>3. /\ got'[r] = idem.body
          /\ \A q \in Requests : q # r => got'[q] = got[q]
      BY <1>0, <2>4 DEF KeyInv, CheckoutTypeOK
    <3>4. AnsweredInv' /\ FailedInv'
      BY <1>0, <2>1, <3>1, <3>2 DEF AnsweredInv, FailedInv
    <3>5. NoFive' => NoFive
      BY <3>1, <3>2 DEF NoFive
    <3>6. ReplayInv'
      BY <1>0, <2>1, <3>2, <3>3, <3>5 DEF ReplayInv
    <3>7. QED
      BY <3>4, <3>6 DEF AnswerInv
  <2>5. QED
    BY <2>2, <2>3, <2>4
<1>6. ASSUME NEW r \in Requests, Forward(r) PROVE AnswerInv'
  <2>1. PICK up \in CheckoutReply :
           /\ pc' = [pc EXCEPT ![r] = Recorded(up)]
           /\ ans' = [ans EXCEPT ![r] =
                        IF r \in gone THEN "none" ELSE IF up \in UpstreamFaults THEN "5xx" ELSE up]
    BY <1>6 DEF Forward
  <2>2. pc[r] = "proxy" /\ UNCHANGED <<got, gone, idem>>
    BY <1>6 DEF Forward
  <2>3. idem.status = "PENDING" /\ ans[r] = "none"
    BY <1>0, <2>2 DEF KeyInv, Owns, AnsweredInv
  <2>4. /\ pc'[r] = Recorded(up) /\ pc'[r] \in {"FAILED", "COMPLETED"}
        /\ ans'[r] = IF r \in gone THEN "none" ELSE IF up \in UpstreamFaults THEN "5xx" ELSE up
        /\ \A q \in Requests : q # r => pc'[q] = pc[q] /\ ans'[q] = ans[q]
    BY <1>0, <2>1 DEF CheckoutTypeOK, Recorded
  <2>5. ans'[r] # "replay"
    BY <2>1, <2>4, CheckoutAssumption DEF CheckoutReply
  <2>6. AnsweredInv'
    BY <1>0, <2>4 DEF AnsweredInv
  <2>7. FailedInv'
    BY <1>0, <2>2, <2>3, <2>4 DEF FailedInv, Recorded
  <2>8. NoFive' => NoFive
    BY <2>3, <2>4 DEF NoFive
  <2>9. ReplayInv'
    BY <1>0, <2>2, <2>4, <2>5, <2>8 DEF ReplayInv
  <2>10. QED
    BY <2>6, <2>7, <2>9 DEF AnswerInv
<1>7. ASSUME NEW r \in Requests, Record(r) PROVE AnswerInv'
  <2>1. /\ pc[r] \in {"FAILED", "COMPLETED"} /\ pc' = [pc EXCEPT ![r] = "done"]
        /\ UNCHANGED <<ans, got, gone>>
    BY <1>7 DEF Record
  <2>2. idem' = idem \/ (r \notin gone /\ idem' = Noted(r))
    BY <1>7 DEF Record, Outcome, Happens
  <2>3. pc'[r] = "done" /\ \A q \in Requests : q # r => pc'[q] = pc[q]
    BY <1>0, <2>1 DEF CheckoutTypeOK
  <2>4. AnsweredInv'
    BY <1>0, <2>1, <2>3 DEF AnsweredInv
  <2>5. idem.body = Body[r] /\ idem.status = "PENDING"
    BY <1>0, <2>1 DEF KeyInv, Owns
  <2>6. CASE UNCHANGED idem
    <3>1. FailedInv' /\ ReplayInv'
      BY <1>0, <2>1, <2>3, <2>6 DEF FailedInv, ReplayInv, NoFive
    <3>2. QED
      BY <2>4, <3>1 DEF AnswerInv
  <2>7. CASE r \notin gone /\ idem' = Noted(r) /\ pc[r] = "FAILED"
    <3>1. ans[r] = "5xx"
      BY <1>0, <2>7 DEF FailedInv
    <3>2. FailedInv'
      BY <1>0, <2>1, <2>3, <3>1 DEF FailedInv
    <3>3. ReplayInv'
      BY <2>1, <3>1 DEF ReplayInv, NoFive
    <3>4. QED
      BY <2>4, <3>2, <3>3 DEF AnswerInv
  <2>8. CASE idem' = Noted(r) /\ pc[r] # "FAILED"
    <3>1. idem'.status = "COMPLETED" /\ idem'.body = idem.body
      BY <1>0, <2>8, NotedFields
    <3>2. FailedInv' /\ ReplayInv'
      BY <1>0, <2>1, <2>3, <3>1 DEF FailedInv, ReplayInv, NoFive
    <3>3. QED
      BY <2>4, <3>2 DEF AnswerInv
  <2>9. QED
    BY <2>2, <2>6, <2>7, <2>8
<1>8. ASSUME NEW r \in Requests, ClientGone(r) PROVE AnswerInv'
  BY <1>0, <1>8 DEF ClientGone, AnswerInv, AnsweredInv, FailedInv, ReplayInv, NoFive
<1>9. ASSUME KeyExpires PROVE AnswerInv'
  <2>1. /\ idem'.status = "none" /\ \A r \in Requests : pc[r] # "replay"
        /\ UNCHANGED <<pc, ans, got, gone>>
    BY <1>9 DEF KeyExpires, InFlight, NoKey
  <2>2. QED
    BY <1>0, <2>1 DEF AnswerInv, AnsweredInv, FailedInv, ReplayInv, NoFive
<1>10. ASSUME GatewayDies PROVE AnswerInv'
  <2>1. /\ \A r \in Requests : pc'[r] = IF pc[r] = "gate" THEN "gate" ELSE "done"
        /\ UNCHANGED <<ans, got, gone, idem>>
    BY <1>10 DEF GatewayDies
  <2>2. QED
    BY <1>0, <2>1 DEF AnswerInv, AnsweredInv, FailedInv, ReplayInv, NoFive
<1>11. ASSUME UNCHANGED checkoutVars PROVE UNCHANGED idemVars
  BY <1>11 DEF checkoutVars
<1>12. QED
  BY <1>1, <1>2, <1>3, <1>4, <1>5, <1>6, <1>7, <1>8, <1>9, <1>10, <1>11 DEF CheckoutNext, Serve

\* As long as no client was answered a 5xx, a replayed response is the response to
\* the body the client sent, although the verdict of claim_idem.lua and the HGETALL
\* are two calls between which the owner of the key finishes, dies or is cancelled.
THEOREM ReplaysMatch == CheckoutSpec => []ReplayMatches
<1>1. CheckoutInit => AnswerInv
  BY DEF CheckoutInit, AnswerInv, AnsweredInv, FailedInv, ReplayInv, NoKey
<1>2. IdemInv /\ AnswerInv /\ [CheckoutNext]_checkoutVars => AnswerInv'
  BY AnswerStep
<1>3. AnswerInv => ReplayMatches
  BY DEF AnswerInv, ReplayInv, NoFive, ReplayMatches
<1>4. QED
  BY <1>1, <1>2, <1>3, IdemInvariant, PTL DEF CheckoutSpec

-----------------------------------------------------------------------------
(* One request to the backend for each draw *)

\* The requests of session s that have passed the gate and may still be forwarded.
Passed(s) == {r \in Requests : SessionOf[r] = s /\ pc[r] \in {"limit", "claim", "proxy"}}

\* A use of the token pays for the request that passed with it or was sent.
PassInv ==
    \A s \in Sessions : /\ IsFiniteSet(Passed(s))
                        /\ executed[s] + Cardinality(Passed(s)) <= passes[s]

LEMMA PassInit == CheckoutInit => PassInv
<1> SUFFICES ASSUME CheckoutInit, NEW s \in Sessions
             PROVE  /\ IsFiniteSet(Passed(s))
                    /\ executed[s] + Cardinality(Passed(s)) <= passes[s]
  BY DEF PassInv
<1>1. Passed(s) = {}
  BY DEF CheckoutInit, Passed
<1>2. executed[s] = 0 /\ passes[s] = 0
  BY DEF CheckoutInit, RoomInit
<1>3. QED
  BY <1>1, <1>2, FS_EmptySet

\* A step that sends nothing upstream and lets nobody pass the gate.
LEMMA PassQuiet ==
    ASSUME TypeInv, CheckoutTypeOK, PassInv, UNCHANGED executed, passes' \in [Sessions -> Nat],
           \A s \in Sessions : passes[s] <= passes'[s] /\ Passed(s)' \subseteq Passed(s)
    PROVE  PassInv'
<1> SUFFICES ASSUME NEW s \in Sessions
             PROVE  /\ IsFiniteSet(Passed(s)')
                    /\ executed'[s] + Cardinality(Passed(s)') <= passes'[s]
  BY DEF PassInv
<1>1. IsFiniteSet(Passed(s)) /\ executed[s] + Cardinality(Passed(s)) <= passes[s]
  BY DEF PassInv
<1>2. /\ IsFiniteSet(Passed(s)') /\ Cardinality(Passed(s)') <= Cardinality(Passed(s))
      /\ Cardinality(Passed(s)) \in Nat /\ Cardinality(Passed(s)') \in Nat
  BY <1>1, FS_Subset, FS_CardinalityType
<1>3. executed[s] \in Nat /\ passes[s] \in Nat /\ passes'[s] \in Nat
  BY DEF CheckoutTypeOK, TypeInv, RoomTypeOK
<1>4. QED
  BY <1>1, <1>2, <1>3

\* The use of a token never takes a pass back.
LEMMA ConsumeCounts ==
    ASSUME TypeInv, NEW s \in Sessions, NEW out, ConsumeAdmission(s, out)
    PROVE  /\ passes' \in [Sessions -> Nat]
           /\ \A t \in Sessions : passes[t] <= passes'[t]
           /\ out = "ok" /\ s \in adm => passes'[s] = passes[s] + 1
<1>1. passes \in [Sessions -> Nat]
  BY DEF TypeInv, RoomTypeOK
<1>2. passes[s] \in Nat /\ \A t \in Sessions : passes[t] \in Nat
  BY <1>1
<1>3. CASE out = "ok" /\ s \in adm
  <2>1. passes' = [passes EXCEPT ![s] = @ + 1]
    BY <1>3 DEF ConsumeAdmission
  <2>2. QED
    BY <1>1, <1>2, <2>1
<1>4. CASE ~(out = "ok" /\ s \in adm)
  <2>1. passes' = passes
    BY <1>4 DEF ConsumeAdmission
  <2>2. QED
    BY <1>1, <1>2, <1>4, <2>1
<1>5. QED
  BY <1>3, <1>4

LEMMA PassStep ==
    ASSUME TypeInv, IdemInv, PassInv, [CheckoutNext]_checkoutVars PROVE PassInv'
<1>0. CheckoutTypeOK /\ passes \in [Sessions -> Nat]
  BY DEF IdemInv, TypeInv, RoomTypeOK
<1>a. ASSUME UNCHANGED <<executed, passes>>, \A s \in Sessions : Passed(s)' \subseteq Passed(s)
      PROVE  PassInv'
  BY <1>0, <1>a, PassQuiet
<1>1. ASSUME RoomSteps, UNCHANGED idemVars PROVE PassInv'
  <2>1. UNCHANGED passes
    BY <1>1 DEF RoomSteps, JoinStamp, Heartbeat, HeartbeatExpires, AdmissionExpires, Join,
                StatusRank, StatusAdmitted, Tick, AdmitBatch, NotifyNext, WorkerDies, ClearQueue
  <2>2. UNCHANGED <<pc, executed>>
    BY <1>1 DEF idemVars
  <2>3. QED
    BY <1>a, <2>1, <2>2 DEF Passed
<1>2. ASSUME NEW s \in Sessions, Exchange(s) PROVE PassInv'
  <2>1. PICK out \in RoomOutcome : ConsumeAdmission(s, out)
    BY <1>2 DEF Exchange
  <2>2. UNCHANGED <<pc, executed>>
    BY <1>2 DEF Exchange
  <2>3. QED
    BY <1>0, <2>1, <2>2, ConsumeCounts, PassQuiet DEF Passed
<1>3. ASSUME NEW r \in Requests, Gate(r) PROVE PassInv'
  <2>1. SessionOf[r] \in Sessions /\ pc[r] = "gate" /\ UNCHANGED executed
    BY <1>3, CheckoutAssumption DEF Gate
  <2>2. PICK out \in Outcome(r) :
           /\ ConsumeAdmission(SessionOf[r], out)
           /\ IF out = "ok" /\ SessionOf[r] \in adm THEN Goto(r, "limit") ELSE Answer(r, "403")
    BY <1>3 DEF Gate
  <2>3. /\ passes' \in [Sessions -> Nat]
        /\ \A t \in Sessions : passes[t] <= passes'[t]
        /\ out = "ok" /\ SessionOf[r] \in adm
             => passes'[SessionOf[r]] = passes[SessionOf[r]] + 1
    BY <2>1, <2>2, ConsumeCounts
  <2>4. CASE ~(out = "ok" /\ SessionOf[r] \in adm)
    <3>1. pc'[r] = "done" /\ \A q \in Requests : q # r => pc'[q] = pc[q]
      BY <1>0, <2>2, <2>4, AnswerEffect
    <3>2. \A s \in Sessions : Passed(s)' \subseteq Passed(s)
      BY <3>1 DEF Passed
    <3>3. QED
      BY <1>0, <2>1, <2>3, <3>2, PassQuiet
  <2>5. CASE out = "ok" /\ SessionOf[r] \in adm
    <3>1. pc'[r] = "limit" /\ \A q \in Requests : q # r => pc'[q] = pc[q]
      BY <1>0, <2>2, <2>5, GotoEffect
    <3> SUFFICES ASSUME NEW s \in Sessions
                 PROVE  /\ IsFiniteSet(Passed(s)')
                        /\ executed'[s] + Cardinality(Passed(s)') <= passes'[s]
      BY DEF PassInv
    <3>2. /\ IsFiniteSet(Passed(s)) /\ Cardinality(Passed(s)) \in Nat
          /\ executed[s] + Cardinality(Passed(s)) <= passes[s]
      BY FS_CardinalityType DEF PassInv
    <3>3. executed[s] \in Nat /\ passes[s] \in Nat /\ passes'[s] \in Nat
      BY <1>0, <2>3 DEF CheckoutTypeOK
    <3>4. CASE s = SessionOf[r]
      <4>1. Passed(s)' = Passed(s) \cup {r} /\ r \notin Passed(s)
        BY <2>1, <3>1, <3>4 DEF Passed
      <4>2. /\ IsFiniteSet(Passed(s)')
            /\ Cardinality(Passed(s)') = Cardinality(Passed(s)) + 1
        BY <3>2, <4>1, FS_AddElement
      <4>3. passes'[s] = passes[s] + 1
        BY <2>3, <2>5, <3>4
      <4>4. QED
        BY <2>1, <3>2, <3>3, <4>2, <4>3
    <3>5. CASE s # SessionOf[r]
      <4>1. Passed(s)' = Passed(s)
        BY <3>1, <3>5 DEF Passed
      <4>2. passes[s] <= passes'[s]
        BY <2>3
      <4>3. QED
        BY <2>1, <3>2, <3>3, <4>1, <4>2
    <3>6. QED
      BY <3>4, <3>5
  <2>6. QED
    BY <2>4, <2>5
<1>4. ASSUME NEW r \in Requests, Limit(r) \/ Claim(r) \/ Replay(r) PROVE PassInv'
  <2>1. \/ pc[r] = "limit" /\ (Goto(r, "claim") \/ Answer(r, "429"))
        \/ /\ pc[r] = "claim"
           /\ \/ Goto(r, "proxy") \/ Goto(r, "replay")
              \/ \E code \in {"400", "503", "422"} : Answer(r, code)
        \/ pc[r] = "replay" /\ \E code \in {"replay", "409"} : Answer(r, code)
    BY <1>4 DEF Limit, Claim, Replay
  <2>2. /\ pc'[r] \in {"claim", "proxy", "replay", "done"}
        /\ pc'[r] \in {"claim", "proxy"} => pc[r] \in {"limit", "claim"}
        /\ \A q \in Requests : q # r => pc'[q] = pc[q]
    BY <1>0, <2>1, GotoEffect, AnswerEffect
  <2>3. \A s \in Sessions : Passed(s)' \subseteq Passed(s)
    BY <2>2 DEF Passed
  <2>4. UNCHANGED <<executed, passes>>
    BY <1>4 DEF Limit, Claim, Replay, roomVars
  <2>5. QED
    BY <1>a, <2>3, <2>4
<1>5. ASSUME NEW r \in Requests, Forward(r) PROVE PassInv'
  <2>1. /\ pc[r] = "proxy" /\ UNCHANGED passes
        /\ executed' = [executed EXCEPT ![SessionOf[r]] = @ + 1]
    BY <1>5 DEF Forward, roomVars
  <2>2. PICK up \in CheckoutReply : pc' = [pc EXCEPT ![r] = Recorded(up)]
    BY <1>5 DEF Forward
  <2>3. /\ pc'[r] \in {"FAILED", "COMPLETED"}
        /\ \A q \in Requests : q # r => pc'[q] = pc[q]
    BY <1>0, <2>2 DEF CheckoutTypeOK, Recorded
  <2> SUFFICES ASSUME NEW s \in Sessions
               PROVE  /\ IsFiniteSet(Passed(s)')
                      /\ executed'[s] + Cardinality(Passed(s)') <= passes'[s]
    BY DEF PassInv
  <2>4. /\ IsFiniteSet(Passed(s)) /\ Cardinality(Passed(s)) \in Nat
        /\ executed[s] + Cardinality(Passed(s)) <= passes[s]
    BY FS_CardinalityType DEF PassInv
  <2>5. executed \in [Sessions -> Nat] /\ executed[s] \in Nat /\ passes[s] \in Nat
    BY <1>0 DEF CheckoutTypeOK
  <2>6. CASE s = SessionOf[r]
    <3>1. Passed(s)' = Passed(s) \ {r} /\ r \in Passed(s)
      BY <2>1, <2>3, <2>6 DEF Passed
    <3>2. /\ IsFiniteSet(Passed(s)')
          /\ Cardinality(Passed(s)') = Cardinality(Passed(s)) - 1
      BY <2>4, <3>1, FS_RemoveElement
    <3>3. executed'[s] = executed[s] + 1
      BY <2>1, <2>5, <2>6
    <3>4. QED
      BY <2>1, <2>4, <2>5, <3>2, <3>3
  <2>7. CASE s # SessionOf[r]
    <3>1. Passed(s)' = Passed(s)
      BY <2>3, <2>7 DEF Passed
    <3>2. executed'[s] = executed[s]
      BY <2>1, <2>5, <2>7
    <3>3. QED
      BY <2>1, <2>4, <3>1, <3>2
  <2>8. QED
    BY <2>6, <2>7
<1>6. ASSUME NEW r \in Requests, Record(r) PROVE PassInv'
  <2>1. /\ pc'[r] = "done" /\ \A q \in Requests : q # r => pc'[q] = pc[q]
        /\ UNCHANGED <<executed, passes>>
    BY <1>0, <1>6 DEF Record, CheckoutTypeOK, roomVars
  <2>2. QED
    BY <1>a, <2>1 DEF Passed
<1>7. ASSUME NEW r \in Requests, ClientGone(r) PROVE PassInv'
  BY <1>7, <1>a DEF ClientGone, Passed, roomVars
<1>8. ASSUME KeyExpires PROVE PassInv'
  BY <1>8, <1>a DEF KeyExpires, Passed, roomVars
<1>9. ASSUME GatewayDies PROVE PassInv'
  BY <1>9, <1>a DEF GatewayDies, Passed, roomVars
<1>10. ASSUME UNCHANGED checkoutVars PROVE PassInv'
  BY <1>10, <1>a DEF checkoutVars, idemVars, Passed, roomVars
<1>11. QED
  BY <1>1, <1>2, <1>3, <1>4, <1>5, <1>6, <1>7, <1>8, <1>9, <1>10 DEF CheckoutNext, Serve

\* Each time a session has queued buys it at most one request to the backend,
\* through the gate, the limiter, the idempotency check and the proxy, whoever
\* exchanges a token, disconnects or retries in between.
THEOREM OneExecutionEachDraw == CheckoutSpec => []OneExecutionPerDraw
<1>1. TypeInv /\ IdemInv /\ PassInv /\ [CheckoutNext]_checkoutVars => PassInv'
  BY PassStep
<1>2. TypeInv /\ IdemInv /\ DrawInv /\ PassInv => OneExecutionPerDraw
  <2> SUFFICES ASSUME TypeInv, IdemInv, DrawInv, PassInv, NEW s \in Sessions
               PROVE  executed[s] <= draws[s]
    BY DEF OneExecutionPerDraw
  <2>1. executed[s] \in Nat /\ passes[s] \in Nat /\ draws[s] \in Nat
    BY DEF IdemInv, CheckoutTypeOK, TypeInv, RoomTypeOK
  <2>2. Cardinality(Passed(s)) \in Nat /\ executed[s] + Cardinality(Passed(s)) <= passes[s]
    BY FS_CardinalityType DEF PassInv
  <2>3. passes[s] <= draws[s]
    BY <2>1 DEF DrawInv
  <2>4. QED
    BY <2>1, <2>2, <2>3
<1>3. CheckoutSpec => []TypeInv /\ []DrawInv
  BY ImplementsRoom, RoomTypeInvariant, DrawInvariant, PTL
<1>4. QED
  BY <1>1, <1>2, <1>3, PassInit, IdemInvariant, PTL DEF CheckoutSpec

=============================================================================
