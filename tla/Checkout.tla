------------------------------ MODULE Checkout ------------------------------
(***************************************************************************)
(* POST /event/{id}/purchase: the gate of the waiting room, the rate       *)
(* limiter, the idempotency middleware and the reverse proxy, in the order *)
(* internal/router/router.go chains them; and POST /event/{id}/admit.      *)
(*                                                                         *)
(* The requests are those of one user for one event under one idempotency  *)
(* key (other keys are other hashes).  They come from the user's sessions, *)
(* with equal or different bodies.  Every Redis call is one step.  The     *)
(* proxied call is one step: nothing else in the gateway depends on when,  *)
(* while it lasts, the backend commits.                                    *)
(***************************************************************************)
EXTENDS WaitingRoom

CONSTANTS
    Requests,
    SessionOf,       \* the session a request belongs to
    Body,            \* what it is fingerprinted by
    Malformed,       \* requests with no key, a bad key or an oversized body
    UpstreamFaults,  \* "err": a 5xx and no order, "lost": a 5xx and an order
    Disconnects      \* may a client or the gateway go away?

ASSUME CheckoutAssumption ==
    /\ SessionOf \in [Requests -> Sessions]
    /\ DOMAIN Body = Requests
    /\ \A r \in Requests : Body[r] # "none"   \* a fingerprint is never the absence of one
    /\ Malformed \subseteq Requests
    /\ UpstreamFaults \subseteq {"err", "lost"}
    /\ Disconnects \in BOOLEAN

VARIABLES
    pc,         \* what a request does next
    ans,        \* what its client was answered, "none" before
    got,        \* the body whose response it was replayed, "none" before
    gone,       \* requests whose context is cancelled
    idem,       \* the hash idem:<user>:<event>:<key>
    commits,    \* history: orders placed since the key was last unknown
    executed,   \* history: requests of a session sent upstream
    exchanged   \* history: sessions whose POST /admit was answered 200

idemVars == <<pc, ans, got, gone, idem, commits, executed, exchanged>>
checkoutVars == <<roomVars, idemVars>>

NoKey == [status |-> "none", body |-> "none", resp |-> "none", ttl |-> FALSE]
Bodies == {Body[r] : r \in Requests}

CheckoutInit ==
    /\ RoomInit
    /\ pc = [r \in Requests |-> "gate"]
    /\ ans = [r \in Requests |-> "none"]
    /\ got = [r \in Requests |-> "none"]
    /\ gone = {}
    /\ idem = NoKey
    /\ commits = 0
    /\ executed = [s \in Sessions |-> 0]
    /\ exchanged = {}

\* A call with a cancelled context is not made.
Outcome(r) == IF r \in gone THEN {"err"} ELSE RoomOutcome

Goto(r, next) == pc' = [pc EXCEPT ![r] = next] /\ UNCHANGED ans

Answer(r, code) ==
    /\ pc' = [pc EXCEPT ![r] = "done"]
    /\ ans' = [ans EXCEPT ![r] = IF r \in gone THEN "none" ELSE code]

-----------------------------------------------------------------------------
\* virtualwaitingroom.Middleware.
Gate(r) ==
    /\ pc[r] = "gate"
    /\ \E out \in Outcome(r) :
          /\ ConsumeAdmission(SessionOf[r], out)
          /\ IF out = "ok" /\ SessionOf[r] \in adm THEN Goto(r, "limit") ELSE Answer(r, "403")
    /\ UNCHANGED <<got, gone, idem, commits, executed, exchanged>>

\* Limiter.Allow: the bucket's verdict, or "allow" if there is none (FailOpen).
Allow(r) == IF r \in gone THEN {TRUE} ELSE BOOLEAN

\* tokenbucket.Middleware.
Limit(r) ==
    /\ pc[r] = "limit"
    /\ \E allowed \in Allow(r) : IF allowed THEN Goto(r, "claim") ELSE Answer(r, "429")
    /\ UNCHANGED <<got, gone, idem, commits, executed, exchanged>>
    /\ UNCHANGED roomVars

\* Mutant: a key whose request is still running can be taken over.
ClaimableWhilePending == idem.status \in {"none", "FAILED", "PENDING"}

\* claim_idem.lua accepts a key that is unknown or FAILED, whatever its
\* fingerprint was.
Claimable == idem.status \in {"none", "FAILED"}

\* Mutant: the fingerprint is not compared.
AnyRequest(r) == TRUE

\* DUPLICATE rather than MISMATCH.
SameRequest(r) == idem.body = Body[r]

\* Mutant: the claim sets no expiry.
ClaimedForever(r) == [idem EXCEPT !.status = "PENDING", !.body = Body[r]]

\* HSET and EXPIRE.
Claimed(r) == [idem EXCEPT !.status = "PENDING", !.body = Body[r], !.ttl = TRUE]

\* idempotency.Middleware up to the verdict of claim_idem.lua.
Claim(r) ==
    /\ pc[r] = "claim"
    /\ \/ r \in Malformed /\ Answer(r, "400") /\ UNCHANGED idem
       \/ /\ r \notin Malformed
          /\ \E out \in Outcome(r) :
                /\ idem' = IF Claimable /\ Happens(out) THEN Claimed(r) ELSE idem
                /\ \/ out # "ok" /\ Answer(r, "503")
                   \/ out = "ok" /\ Claimable /\ Goto(r, "proxy")
                   \/ out = "ok" /\ ~Claimable /\ ~SameRequest(r) /\ Answer(r, "422")
                   \/ out = "ok" /\ ~Claimable /\ SameRequest(r) /\ Goto(r, "replay")
    /\ UNCHANGED <<got, gone, commits, executed, exchanged>>
    /\ UNCHANGED roomVars

\* DUPLICATE: HGETALL, and the cached response if there is one.
Replay(r) ==
    /\ pc[r] = "replay"
    /\ \E out \in Outcome(r) :
          IF out = "ok" /\ idem.resp # "none"
          THEN Answer(r, "replay") /\ got' = [got EXCEPT ![r] = idem.resp]
          ELSE Answer(r, "409") /\ UNCHANGED got
    /\ UNCHANGED <<gone, idem, commits, executed, exchanged>>
    /\ UNCHANGED roomVars

\* The backend's POST /checkout: an order (201), a refusal (410 sold out, 400),
\* a 5xx without an order, or an order whose reply is a 5xx.
CheckoutReply == {"201", "4xx"} \cup UpstreamFaults

\* What responseRecorder's status will be recorded as.
Recorded(up) == IF up \in UpstreamFaults THEN "FAILED" ELSE "COMPLETED"

\* proxy.Forward.  responseRecorder passes the answer on to the client before
\* the middleware gets to record it.
Forward(r) ==
    /\ pc[r] = "proxy"
    /\ \E up \in CheckoutReply :
          /\ commits' = IF up \in {"201", "lost"} THEN commits + 1 ELSE commits
          /\ pc' = [pc EXCEPT ![r] = Recorded(up)]
          /\ ans' = [ans EXCEPT ![r] =
                        IF r \in gone THEN "none" ELSE IF up \in UpstreamFaults THEN "5xx" ELSE up]
    /\ executed' = [executed EXCEPT ![SessionOf[r]] = @ + 1]
    /\ UNCHANGED <<got, gone, idem, exchanged>>
    /\ UNCHANGED roomVars

\* Mutant: the body of a 5xx is stored with its record.
NotedBody(r) == [idem EXCEPT !.status = pc[r], !.resp = Body[r]]

\* The two HSETs.
Noted(r) ==
    IF pc[r] = "FAILED"
    THEN [idem EXCEPT !.status = "FAILED", !.body = Body[r]]
    ELSE [idem EXCEPT !.status = "COMPLETED", !.resp = Body[r]]

\* The outcome is recorded with the request's context: HSET, and EXPIRE, which
\* renews the window of a key that still has one.  An error is ignored.
Record(r) ==
    /\ pc[r] \in {"FAILED", "COMPLETED"}
    /\ \E out \in Outcome(r) : idem' = IF Happens(out) THEN Noted(r) ELSE idem
    /\ pc' = [pc EXCEPT ![r] = "done"]
    /\ UNCHANGED <<ans, got, gone, commits, executed, exchanged>>
    /\ UNCHANGED roomVars

\* POST /event/{id}/admit.
Exchange(s) ==
    /\ \E out \in RoomOutcome :
          /\ ConsumeAdmission(s, out)
          /\ exchanged' = IF out = "ok" /\ s \in adm THEN exchanged \cup {s} ELSE exchanged
    /\ UNCHANGED <<pc, ans, got, gone, idem, commits, executed>>

-----------------------------------------------------------------------------
InFlight(r) == pc[r] \in {"proxy", "FAILED", "COMPLETED", "replay"}

\* The idempotency window passes.  It is 24 hours and a request takes seconds,
\* so it does not end under a request that has claimed or found the key.
KeyExpires ==
    /\ idem.ttl
    /\ \A r \in Requests : ~InFlight(r)
    /\ idem' = NoKey
    /\ commits' = 0
    /\ UNCHANGED <<pc, ans, got, gone, executed, exchanged>>
    /\ UNCHANGED roomVars

\* The client disconnects: the context of its request is cancelled.
ClientGone(r) ==
    /\ Disconnects
    /\ pc[r] # "done" /\ r \notin gone
    /\ gone' = gone \cup {r}
    /\ UNCHANGED <<pc, ans, got, idem, commits, executed, exchanged>>
    /\ UNCHANGED roomVars

\* The gateway process dies: its requests are never answered or recorded.
GatewayDies ==
    /\ Disconnects
    /\ \E r \in Requests : InFlight(r)
    /\ pc' = [r \in Requests |-> IF pc[r] = "gate" THEN "gate" ELSE "done"]
    /\ UNCHANGED <<ans, got, gone, idem, commits, executed, exchanged>>
    /\ UNCHANGED roomVars

-----------------------------------------------------------------------------
Serve(r) == Gate(r) \/ Limit(r) \/ Claim(r) \/ Replay(r) \/ Forward(r) \/ Record(r)

CheckoutNext ==
    \/ RoomSteps /\ UNCHANGED idemVars
    \/ \E s \in Sessions : Exchange(s)
    \/ \E r \in Requests : Serve(r) \/ ClientGone(r)
    \/ KeyExpires
    \/ GatewayDies

CheckoutSpec == CheckoutInit /\ [][CheckoutNext]_checkoutVars

\* A handler that has started goes on, and Redis expires keys that have a TTL.
CheckoutFairSpec ==
    /\ CheckoutSpec
    /\ \A r \in Requests : WF_checkoutVars(pc[r] # "gate" /\ Serve(r))
    /\ WF_checkoutVars(KeyExpires)

-----------------------------------------------------------------------------
(* Properties *)

CheckoutTypeOK ==
    /\ pc \in [Requests -> {"gate", "limit", "claim", "replay", "proxy", "FAILED",
                            "COMPLETED", "done"}]
    /\ ans \in [Requests -> {"none", "400", "403", "409", "422", "429", "503",
                             "201", "4xx", "5xx", "replay"}]
    /\ got \in [Requests -> Bodies \cup {"none"}]
    /\ gone \subseteq Requests
    /\ idem \in [status : {"none", "PENDING", "FAILED", "COMPLETED"},
                 body : Bodies \cup {"none"}, resp : Bodies \cup {"none"}, ttl : BOOLEAN]
    /\ idem.status = "none" <=> idem = NoKey
    /\ idem.status = "COMPLETED" <=> idem.resp # "none"
    /\ commits \in Nat
    /\ executed \in [Sessions -> Nat]
    /\ exchanged \subseteq Sessions

\* idempotency.go: "only the first request carrying a key executes".  As long as
\* a 5xx means that no order was placed ("lost" is no upstream fault), one key
\* places at most one order, whatever is retried, disconnects, dies or cannot be
\* recorded.
ExecutesOnce == commits <= 1

\* README: "Same key + different body: 422".  As long as no 5xx has reopened the
\* key, a replayed response is the response to the body the client sent, although
\* the verdict of claim_idem.lua and the HGETALL of the response are two calls.
ReplayMatches ==
    (\A q \in Requests : ans[q] # "5xx")
       => \A r \in Requests : ans[r] = "replay" => got[r] = Body[r]

\* Each time a session has queued buys it at most one request to the backend
\* (virtualwaitingroom.Middleware before the proxy).
OneExecutionPerDraw == \A s \in Sessions : executed[s] <= draws[s]

\* A key whose request was never recorded (the client left, the gateway died,
\* HSET failed) does not stay PENDING for ever.
PendingIsResolved == idem.status = "PENDING" ~> idem.status # "PENDING"

\* README: "The gateway admits only the first request carrying that key; every
\* replay gets a cached response or a conflict".
ReplayAnswered ==
    [][\A r, q \in Requests :
          /\ ans[r] = "none" /\ ans'[r] = "403"
          /\ q # r /\ SessionOf[q] = SessionOf[r] /\ Body[q] = Body[r]
          => ans[q] # "201"]_ans

\* README: 'marked FAILED so the same key is retryable - no false "duplicate"'.
\* A conflict means that another request runs or has placed an order.
NoFalseDuplicate ==
    [][\A r \in Requests :
          ans[r] = "none" /\ ans'[r] = "409"
          => commits > 0 \/ \E q \in Requests : pc[q] = "proxy"]_ans

\* README: POST /event/{id}/admit, "Exchange token for checkout capability".
\* The exchange lets a session check out.
ExchangeIsCapability ==
    [][\A r \in Requests :
          ans[r] = "none" /\ ans'[r] = "403" => SessionOf[r] \notin exchanged]_ans

=============================================================================
