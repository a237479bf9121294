----------------------------- MODULE DeviceFlow -----------------------------
(***************************************************************************)
(* The OAuth 2.0 device authorization grant as the driver runs it:         *)
(* refreshDeviceCredAuth (src/src/trinoAPIWrapper/authProvider/            *)
(* deviceFlowAuthProvider.cpp), called by DeviceCredAuthConfig::           *)
(* obtainAccessToken.  One driver thread runs the function from top to     *)
(* bottom; its environment is the identity provider (discovery document,   *)
(* device endpoint, token endpoint), the user in the browser who approves  *)
(* or denies the request, the network, and the steady clock.               *)
(*                                                                         *)
(* Time is whole seconds of std::chrono::steady_clock since the call       *)
(* began.  A request and its answer take no time; the clock advances by    *)
(* Tick between two requests of the polling loop, up to MaxTime.  A       *)
(* response body is abstracted to the members the code tests: a body      *)
(* json::parse rejects (a failed or truncated transfer: CURLcode results  *)
(* are only logged) makes the function throw, as does a device response   *)
(* without an "interval".                                                  *)
(***************************************************************************)
EXTENDS Integers

CONSTANTS
    ExpiresIn,     \* "expires_in" of the device authorization response
    Intervals,     \* the "interval" values the provider may send
    Lifetimes,     \* seconds after startTime at which the provider expires the code
    MaxSlowDowns   \* slow_down answers the provider sends for load

MaxInterval == (CHOOSE i \in Intervals : \A j \in Intervals : j <= i) + 5 * MaxSlowDowns
\* The last expiry check passes before ExpiresIn, and one sleep follows it.
MaxTime == ExpiresIn + MaxInterval

VARIABLES
    phase,        \* where refreshDeviceCredAuth is, or how it ended
    now,          \* steady clock
    startTime,    \* steady clock when polling began (line 113), -1 before
    interval,     \* the local "interval" (line 99), -1 before
    wakeAt,       \* end of the current sleep_for
    decision,     \* the user's answer in the browser
    lifetime,     \* when, after startTime, the provider answers expired_token
    reqInterval,  \* the polling interval the provider currently demands
    lastPoll,     \* steady clock of the previous token request, -1 if none
    slowDowns     \* slow_down answers sent so far

vars == <<phase, now, startTime, interval, wakeAt, decision, lifetime,
          reqInterval, lastPoll, slowDowns>>

\* How the call ended: "token" returns the access token, "failed" and
\* "expired" return "", "threw" propagates a json exception.
Done == {"token", "failed", "expired", "threw"}
Phases == {"discover", "authorize", "check", "poll", "sleep"} \cup Done

\* obtainAccessToken (216-235) hands its members to refreshDeviceCredAuth.
Init ==
    /\ phase = "discover"
    /\ now = 0
    /\ startTime = -1
    /\ interval = -1
    /\ wakeAt = 0
    /\ decision = "undecided"
    /\ lifetime = 0
    /\ reqInterval = 0
    /\ lastPoll = -1
    /\ slowDowns = 0

\* Lines 40-57: GET the discovery document, parse it and read both
\* endpoints; a body that is not JSON, or lacks one of them, throws.
Discover ==
    /\ phase = "discover"
    /\ \E parsed \in BOOLEAN : phase' = IF parsed THEN "authorize" ELSE "threw"
    /\ UNCHANGED <<now, startTime, interval, wakeAt, decision, lifetime,
                   reqInterval, lastPoll, slowDowns>>

AuthorizeNoStart ==
    /\ phase = "authorize"
    /\ \/ /\ \E body \in {"garbled", "no_interval", "no_uri"} :
               phase' = IF body = "no_uri" THEN "failed" ELSE "threw"
          /\ UNCHANGED <<startTime, interval, lifetime, reqInterval>>
       \/ \E i \in Intervals, l \in Lifetimes :
             /\ phase' = "check"
             /\ interval' = i /\ reqInterval' = i /\ lifetime' = l
             /\ UNCHANGED startTime
    /\ UNCHANGED <<now, wakeAt, decision, lastPoll, slowDowns>>

\* Lines 59-113 and 181-183: POST to the device endpoint.  A body that is
\* not JSON throws; one without verification_uri_complete takes the
\* failure path and returns ""; one without "interval" throws at line 99.
\* Otherwise the browser is started (a failure is only logged), and
\* polling begins with the provider's interval at startTime = now.
Authorize ==
    /\ phase = "authorize"
    /\ \/ /\ \E body \in {"garbled", "no_interval", "no_uri"} :
               phase' = IF body = "no_uri" THEN "failed" ELSE "threw"
          /\ UNCHANGED <<startTime, interval, lifetime, reqInterval>>
       \/ \E i \in Intervals, l \in Lifetimes :
             /\ phase' = "check"
             /\ interval' = i /\ reqInterval' = i /\ lifetime' = l
             /\ startTime' = now
    /\ UNCHANGED <<now, wakeAt, decision, lastPoll, slowDowns>>

CheckEarly ==
    /\ phase = "check"
    /\ phase' = IF now - startTime >= ExpiresIn - 1 THEN "expired" ELSE "poll"
    /\ UNCHANGED <<now, startTime, interval, wakeAt, decision, lifetime,
                   reqInterval, lastPoll, slowDowns>>

\* Lines 115-123: the elapsed whole seconds are compared with expires_in.
Check ==
    /\ phase = "check"
    /\ phase' = IF now - startTime >= ExpiresIn THEN "expired" ELSE "poll"
    /\ UNCHANGED <<now, startTime, interval, wakeAt, decision, lifetime,
                   reqInterval, lastPoll, slowDowns>>

\* The provider's answer to a token request (RFC 8628, 3.5): expired_token
\* once the code's lifetime is over (it may have issued the code a moment
\* before startTime, or keep it past expires_in), slow_down to a
\* client that polls sooner than the interval it demands (or, a bounded
\* number of times, under load), then the user's decision.
Answers ==
    IF now - startTime >= lifetime THEN {"expired_token"}
    ELSE IF lastPoll # -1 /\ now - lastPoll < reqInterval THEN {"slow_down"}
    ELSE CASE decision = "approved" -> {"access_token"}
           [] decision = "denied" -> {"access_denied"}
           [] OTHER -> {"authorization_pending"}
              \cup (IF slowDowns < MaxSlowDowns THEN {"slow_down"} ELSE {})

\* slow_down without the += 5 kept for later polls: only this sleep is longer.
PollSlowDownOnce ==
    /\ phase = "poll"
    /\ lastPoll' = now
    /\ \/ /\ phase' = "threw"
          /\ UNCHANGED <<interval, wakeAt, reqInterval, slowDowns>>
       \/ \E a \in Answers :
            /\ reqInterval' = IF a = "slow_down" THEN reqInterval + 5 ELSE reqInterval
            /\ slowDowns' = IF a = "slow_down" THEN slowDowns + 1 ELSE slowDowns
            /\ CASE a = "access_token" -> phase' = "token" /\ UNCHANGED <<interval, wakeAt>>
                 [] a \in {"expired_token", "access_denied"} ->
                      phase' = "failed" /\ UNCHANGED <<interval, wakeAt>>
                 [] OTHER -> /\ phase' = "sleep"
                             /\ interval' = interval
                             /\ wakeAt' = now + IF a = "slow_down" THEN interval + 5 ELSE interval
    /\ UNCHANGED <<now, startTime, decision, lifetime>>

\* Lines 125-177: POST the device code to the token endpoint and parse the
\* answer.  A body that is not JSON throws.  access_token returns it;
\* authorization_pending sleeps; slow_down adds 5 to interval, then
\* sleeps; any other error returns "".
Poll ==
    /\ phase = "poll"
    /\ lastPoll' = now
    /\ \/ /\ phase' = "threw"
          /\ UNCHANGED <<interval, wakeAt, reqInterval, slowDowns>>
       \/ \E a \in Answers :
            /\ reqInterval' = IF a = "slow_down" THEN reqInterval + 5 ELSE reqInterval
            /\ slowDowns' = IF a = "slow_down" THEN slowDowns + 1 ELSE slowDowns
            /\ CASE a = "access_token" -> phase' = "token" /\ UNCHANGED <<interval, wakeAt>>
                 [] a \in {"expired_token", "access_denied"} ->
                      phase' = "failed" /\ UNCHANGED <<interval, wakeAt>>
                 [] OTHER -> /\ phase' = "sleep"
                             /\ interval' = IF a = "slow_down" THEN interval + 5 ELSE interval
                             /\ wakeAt' = now + interval'
    /\ UNCHANGED <<now, startTime, decision, lifetime>>

\* Line 177: sleep_for(interval) returns once the clock reaches wakeAt.
Wake ==
    /\ phase = "sleep"
    /\ now >= wakeAt
    /\ phase' = "check"
    /\ UNCHANGED <<now, startTime, interval, wakeAt, decision, lifetime,
                   reqInterval, lastPoll, slowDowns>>

\* The user approves or denies the request in the browser, once.
UserDecides ==
    /\ phase \in {"check", "poll", "sleep"}
    /\ decision = "undecided"
    /\ \E d \in {"approved", "denied"} : decision' = d
    /\ UNCHANGED <<phase, now, startTime, interval, wakeAt, lifetime,
                   reqInterval, lastPoll, slowDowns>>

\* The steady clock advances while the loop waits for its next check.  Only
\* now - startTime is ever read, so the seconds spent before polling began
\* are not counted, and a request takes no time.
Tick ==
    /\ phase \in {"check", "sleep"}
    /\ now < MaxTime
    /\ now' = now + 1
    /\ UNCHANGED <<phase, startTime, interval, wakeAt, decision, lifetime,
                   reqInterval, lastPoll, slowDowns>>

Driver == Discover \/ Authorize \/ Check \/ Poll \/ Wake

Next == Driver \/ UserDecides \/ Tick

\* The driver thread runs whenever it can.  The steady clock never stops:
\* a loop that polls without sleeping (interval 0) leaves Tick enabled only
\* between requests, and the clock still advances, hence strong fairness.
\* The user need never answer.
Spec == Init /\ [][Next]_vars /\ WF_vars(Driver) /\ SF_vars(Tick)

-----------------------------------------------------------------------------

TypeOK ==
    /\ phase \in Phases
    /\ now \in 0..MaxTime
    /\ startTime \in -1..MaxTime
    /\ phase \in {"check", "poll", "sleep"} => startTime \in 0..now
    /\ interval \in {-1} \cup 0..MaxInterval
    /\ wakeAt \in 0..MaxTime + MaxInterval
    /\ decision \in {"undecided", "approved", "denied"}
    /\ lifetime \in {0} \cup Lifetimes
    /\ reqInterval \in 0..MaxInterval
    /\ lastPoll \in -1..MaxTime
    /\ slowDowns \in 0..MaxSlowDowns

\* The polling loop (lines 114-178) never sends a token request sooner
\* after the previous one than the interval the provider demands, counting
\* the 5 seconds that every slow_down adds for all later requests.
PollsRespectInterval ==
    [][Poll => lastPoll = -1 \/ now - lastPoll >= reqInterval]_vars

-----------------------------------------------------------------------------
(* The grant the caller of obtainAccessToken sees: pending until           *)
(* refreshDeviceCredAuth returns or throws, with the code's age counted    *)
(* from startTime and saturating at expires_in.                            *)

GrantStatus ==
    CASE phase = "token"   -> "granted"
      [] phase = "failed"  -> "failed"
      [] phase = "expired" -> "expired"
      [] phase = "threw"   -> "error"
      [] OTHER             -> "pending"

GrantElapsed ==
    IF startTime = -1 THEN 0
    ELSE IF now - startTime >= ExpiresIn THEN ExpiresIn ELSE now - startTime

DG == INSTANCE DeviceGrant
        WITH status <- GrantStatus, elapsed <- GrantElapsed, approval <- decision

\* refreshDeviceCredAuth implements the device grant: it returns a token
\* only after the user approved, returns "" for expiry (line 120) only once
\* expires_in seconds have passed since polling began, and always ends.
DeviceGrantSpec == DG!Spec

=============================================================================
