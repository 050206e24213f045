--------------------------- MODULE CredentialProxy ---------------------------
(***************************************************************************)
(* The loopback proxy that holds a run's real credential                   *)
(* (src/src/coder-credential-proxy.js): requests of the engine as they are *)
(* admitted, read, forwarded and relayed, each step a callback of the      *)
(* event loop, beside the deadline and the revocation that ends the run.   *)
(* Sizes are in units; what a request says besides is one verdict.         *)
(***************************************************************************)
EXTENDS Naturals, FiniteSets

CONSTANTS Request,
          MaxRequests, MaxBody, MaxResponse, MaxRate,
          MaxRefusals   \* bound: requests turned away by their form

ASSUME RequestAssumption == IsFiniteSet(Request)
ASSUME CapAssumption ==
  MaxRequests \in Nat /\ MaxBody \in Nat /\ MaxResponse \in Nat /\ MaxRate \in Nat

VARIABLES
  revoked, expired,   \* the run is over; the lifetime deadline has passed
  listening,          \* "open", "closing" (close was called), "closed"
  requestCount,
  requestTimes,       \* how many accepted requests the rate window holds
  activeFetches,      \* calls with an abort controller on record
  aborted,            \* calls whose controller was aborted
  calls,              \* calls to the provider that are still open
  bridged,            \* this run translates chat completions to responses
  request,            \* request -> [at, received, overflow, connected, sent, relayed]
  refusals

proxyVars == <<revoked, expired, listening, requestCount, requestTimes, activeFetches, aborted, calls,
               bridged, request, refusals>>
Caps == <<requestCount, requestTimes>>
Life == <<revoked, expired, listening, bridged>>
Upstream == <<activeFetches, aborted, calls>>

RequestAt == {"none", "body", "ended", "fetch", "relay", "blocked", "over"}
Status == {0, 200, 400, 401, 403, 404, 405, 408, 413, 429, 502}
NoRequest == [at |-> "none", received |-> 0, overflow |-> FALSE, connected |-> FALSE, sent |-> 0, relayed |-> 0]

ProxyTypeOK ==
  /\ requestCount \in 0..Cardinality(Request) /\ requestTimes \in 0..MaxRate
  /\ listening \in {"open", "closing", "closed"}
  /\ activeFetches \subseteq Request /\ aborted \subseteq Request /\ calls \subseteq Request
  /\ request \in [Request -> [at : RequestAt, received : 0..(MaxBody + 1), overflow : BOOLEAN,
                              connected : BOOLEAN, sent : Status, relayed : 0..MaxResponse]]

ProxyInit ==
  /\ revoked = FALSE /\ expired = FALSE /\ listening = "open"
  /\ requestCount = 0 /\ requestTimes = 0
  /\ activeFetches = {} /\ aborted = {} /\ calls = {}
  /\ bridged \in BOOLEAN
  /\ request = [r \in Request |-> NoRequest]
  /\ refusals = 0

RequestIs(r, s) == request[r].at = s

\* A reply whose headers were sent is not begun again.
Replies(q, status) == [q EXCEPT !.at = "over", !.sent = IF @ = 0 /\ q.connected THEN status ELSE @]
Answer(r, status) == request' = [request EXCEPT ![r] = Replies(@, status)]

-----------------------------------------------------------------------------
(* createServer's callback: the checks, in order, before the body          *)

Came == [NoRequest EXCEPT !.connected = TRUE]
TurnedAway(r, status) == request' = [request EXCEPT ![r] = Replies(Came, status)]

Arrive(r) ==
  /\ RequestIs(r, "none") /\ listening = "open"
  /\ \/ /\ requestCount < MaxRequests /\ ~expired
        /\ refusals < MaxRefusals /\ refusals' = refusals + 1
        /\ \E status \in {400, 401, 404, 405} : TurnedAway(r, status)   \* its form, its route or its token
        /\ UNCHANGED requestTimes
     \/ expired /\ TurnedAway(r, 408) /\ UNCHANGED <<requestTimes, refusals>>
     \/ /\ ~expired /\ (requestCount >= MaxRequests \/ requestTimes >= MaxRate)
        /\ TurnedAway(r, 429) /\ UNCHANGED <<requestTimes, refusals>>
     \/ /\ ~expired /\ requestCount < MaxRequests /\ requestTimes < MaxRate
        /\ requestTimes' = requestTimes + 1
        /\ request' = [request EXCEPT ![r] = [Came EXCEPT !.at = "body"]]
        /\ UNCHANGED refusals
  /\ UNCHANGED <<requestCount, Life, Upstream>>

\* The body is counted as it arrives; what is too long is answered at once and drained.
BodyData(r) ==
  /\ RequestIs(r, "body") /\ request[r].connected
  /\ request[r].received <= MaxBody
  /\ request' = [request EXCEPT ![r].received = @ + 1,
                                ![r].overflow = request[r].received >= MaxBody,
                                ![r].sent = IF request[r].received >= MaxBody /\ @ = 0 THEN 413 ELSE @]
  /\ UNCHANGED <<Caps, Life, Upstream, refusals>>

\* The stream has ended; its callback is still to come.
BodyEnds(r) ==
  /\ RequestIs(r, "body") /\ request[r].connected
  /\ request' = [request EXCEPT ![r].at = "ended"]
  /\ UNCHANGED <<Caps, Life, Upstream, refusals>>

BodyFails(r) ==
  /\ RequestIs(r, "body")
  /\ Answer(r, 400)
  /\ UNCHANGED <<Caps, Life, Upstream, refusals>>

-----------------------------------------------------------------------------
(* forward and forwardBridged                                              *)

StartsCall(r) ==
  /\ activeFetches' = activeFetches \cup {r}
  /\ calls' = calls \cup {r}
  /\ request' = [request EXCEPT ![r].at = "fetch"]
  /\ UNCHANGED aborted

\* The 'end' callback: another model than the pinned one is refused; the request counts from here.
\* The bridge refuses a body that it cannot translate.
EndCallback(r) ==
  /\ RequestIs(r, "ended")
  /\ \/ /\ request[r].overflow
        /\ request' = [request EXCEPT ![r].at = "over"] /\ UNCHANGED <<requestCount, Upstream>>
     \/ ~request[r].overflow /\ Answer(r, 403) /\ UNCHANGED <<requestCount, Upstream>>
     \/ /\ ~request[r].overflow
        /\ requestCount' = requestCount + 1
        /\ StartsCall(r) \/ (bridged /\ Answer(r, 400) /\ UNCHANGED Upstream)
  /\ UNCHANGED <<requestTimes, Life, refusals>>

\* The finally clause: the controller is no longer on record.
Forgets(r) == activeFetches' = activeFetches \ {r}

\* fetch rejects: the provider failed, or the call was aborted.
FetchFails(r) ==
  /\ RequestIs(r, "fetch") \/ RequestIs(r, "relay")
  /\ Answer(r, 502) /\ Forgets(r)
  /\ calls' = calls \ {r}
  /\ UNCHANGED <<aborted, Caps, Life, refusals>>

\* The provider's headers: a length above the cap is refused; else the body is relayed as it comes.
\* The bridge reads the whole body before it answers.
UpstreamHeaders(r) ==
  /\ RequestIs(r, "fetch") /\ r \notin aborted
  /\ \/ /\ ~bridged
        /\ Answer(r, 502) /\ Forgets(r)
        /\ UNCHANGED <<calls, aborted>>
     \/ /\ request' = [request EXCEPT ![r].at = "relay",
                                      ![r].sent = IF ~bridged /\ request[r].connected THEN 200 ELSE @]
        /\ UNCHANGED Upstream
  /\ UNCHANGED <<Caps, Life, refusals>>

\* A bug: the byte that crosses the cap is relayed before the cap is looked at.
RelayThenCount(r) ==
  /\ RequestIs(r, "relay") /\ r \notin aborted
  /\ request' = [request EXCEPT ![r].at = IF request[r].relayed >= MaxResponse THEN "over" ELSE @,
                                ![r].relayed = request[r].relayed + 1]
  /\ activeFetches' = IF request[r].relayed >= MaxResponse THEN activeFetches \ {r} ELSE activeFetches
  /\ UNCHANGED <<aborted, calls, Caps, Life, refusals>>

\* The byte that crosses the cap aborts the call; a slow client is waited for.
RelayData(r) ==
  /\ RequestIs(r, "relay") /\ r \notin aborted
  /\ IF request[r].relayed >= MaxResponse
     THEN /\ aborted' = aborted \cup {r} /\ calls' = calls \ {r} /\ Forgets(r)
          /\ IF bridged THEN Answer(r, 502)
             ELSE request' = [request EXCEPT ![r].at = "over", ![r].connected = FALSE]
     ELSE /\ request' = [request EXCEPT ![r].relayed = @ + 1,
                                        ![r].at = IF bridged THEN "relay" ELSE "blocked"]
          /\ UNCHANGED Upstream
  /\ UNCHANGED <<Caps, Life, refusals>>

\* drain, close or error of the response, or no backpressure at all.
ClientReady(r) ==
  /\ RequestIs(r, "blocked")
  /\ request' = [request EXCEPT ![r].at = "relay"]
  /\ UNCHANGED <<Caps, Life, Upstream, refusals>>

\* The bridge turns a failed, unparseable or unfinished answer into an error.
UpstreamEnds(r) ==
  /\ RequestIs(r, "relay") /\ r \notin aborted
  /\ \E status \in IF bridged THEN {200, 502} ELSE {200} : Answer(r, status)
  /\ Forgets(r)
  /\ calls' = calls \ {r}
  /\ UNCHANGED <<aborted, Caps, Life, refusals>>

\* The provider itself may end a call whose answer nobody reads.
CallEnds(r) ==
  /\ RequestIs(r, "over") /\ r \in calls
  /\ calls' = calls \ {r}
  /\ UNCHANGED <<activeFetches, aborted, Caps, Life, request, refusals>>

ClientLeaves(r) ==
  /\ request[r].connected
  /\ request' = [request EXCEPT ![r].connected = FALSE,
                                ![r].at = IF @ = "body" THEN "over" ELSE @]
  /\ UNCHANGED <<Caps, Life, Upstream, refusals>>

-----------------------------------------------------------------------------
(* Time, and the end of the run                                            *)

WindowMoves ==
  /\ requestTimes > 0
  /\ requestTimes' = requestTimes - 1
  /\ UNCHANGED <<requestCount, Life, Upstream, request, refusals>>

Expire ==
  /\ ~expired
  /\ expired' = TRUE
  /\ UNCHANGED <<revoked, listening, bridged, Caps, Upstream, request, refusals>>

\* A bug: open connections are left to end by themselves.
RevokeGracefully ==
  /\ ~revoked
  /\ revoked' = TRUE /\ listening' = "closing"
  /\ aborted' = aborted \cup activeFetches
  /\ UNCHANGED <<request, expired, bridged, activeFetches, calls, Caps, refusals>>

\* Every call on record is aborted, the listener and every connection closed.
Revoke ==
  /\ ~revoked
  /\ revoked' = TRUE /\ listening' = "closing"
  /\ aborted' = aborted \cup activeFetches
  /\ request' = [r \in Request |->
       [request[r] EXCEPT !.connected = FALSE, !.at = IF @ = "body" THEN "over" ELSE @]]
  /\ UNCHANGED <<expired, bridged, activeFetches, calls, Caps, refusals>>

\* An aborted call is gone; its promise rejects when the loop gets to it.
AbortTakesEffect(r) ==
  /\ r \in aborted /\ r \in calls
  /\ calls' = calls \ {r}
  /\ UNCHANGED <<activeFetches, aborted, Caps, Life, request, refusals>>

\* server.close calls back when no connection is left.
Closed ==
  /\ listening = "closing" /\ \A r \in Request : ~request[r].connected
  /\ listening' = "closed"
  /\ UNCHANGED <<revoked, expired, bridged, Caps, Upstream, request, refusals>>

Handle(r) ==
  \/ BodyData(r) \/ BodyEnds(r) \/ BodyFails(r) \/ EndCallback(r) \/ FetchFails(r) \/ UpstreamHeaders(r)
  \/ RelayData(r) \/ ClientReady(r) \/ UpstreamEnds(r)

ProxyNext ==
  \/ \E r \in Request : Arrive(r) \/ Handle(r) \/ CallEnds(r) \/ ClientLeaves(r) \/ AbortTakesEffect(r)
  \/ WindowMoves \/ Expire \/ Revoke \/ Closed

\* Callbacks that are due are delivered; nobody owes an answer, but an aborted call rejects.
ProxyFairness ==
  /\ WF_proxyVars(Closed)
  /\ \A r \in Request : /\ WF_proxyVars(EndCallback(r)) /\ WF_proxyVars(ClientReady(r))
                        /\ WF_proxyVars(r \in aborted /\ FetchFails(r))
                        /\ WF_proxyVars(AbortTakesEffect(r))

ProxySpec == ProxyInit /\ [][ProxyNext]_proxyVars /\ ProxyFairness

-----------------------------------------------------------------------------
(* Whatever is being fetched can still be aborted, so that revoking the    *)
(* proxy reaches it.                                                       *)
FetchIsOnRecord == \A r \in Request : request[r].at \in {"fetch", "relay", "blocked"} => r \in activeFetches

(* After the revocation no call is under way with a client connected, and  *)
(* of the calls that were, none is unaborted.                              *)
RevokedServesNobody ==
  revoked => \A r \in Request : /\ ~request[r].connected
                                /\ request[r].at \in {"relay", "blocked"} /\ request[r].sent = 200 => r \in aborted

\* "request-count ... caps" (coder-credential-proxy.js)
RequestCap == requestCount <= MaxRequests

\* "a revoked proxy refuses everything and aborts every in-flight upstream fetch"
RevokedHasNoCall == listening = "closed" => calls \subseteq aborted

(* A revoked proxy ends: the listener is closed, which no client that      *)
(* stays connected can prevent, and every call it aborted is over.         *)
RevokeEnds == revoked ~> listening = "closed" /\ calls \cap aborted = {}

(* What holds of the proxy at every moment: the two above, with the types. *)
ProxyInv == ProxyTypeOK /\ FetchIsOnRecord /\ RevokedServesNobody
=============================================================================
