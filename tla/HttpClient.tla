------------------------------ MODULE HttpClient ------------------------------
(***************************************************************************)
(* The HTTP client of the live source adapters (HttpClient.get in          *)
(* packages/ingestion/src/http.ts): pacing, bounded retries with backoff,  *)
(* Retry-After, and the quota headers of the Hub and of GitHub, against a  *)
(* server that may answer anything or nothing.                             *)
(*                                                                         *)
(* One adapter drives one client, one request at a time, so a sleep is     *)
(* part of the step that takes it: time only matters to this process.      *)
(* Time counts in units of the backoff's first delay.  Bodies, urls and    *)
(* validators are left out; a response is its status class and its three   *)
(* headers: Retry-After, remaining quota and seconds to the reset.         *)
(***************************************************************************)
EXTENDS Integers

CONSTANTS
    MaxRetries,    \* maxRetries
    MaxWait,       \* maxWaitMs
    MinInterval,   \* minIntervalMs
    Timeout,       \* timeoutMs
    Jitter,        \* the random part of a backoff
    Delays,        \* values the two headers that announce a delay take
    NoHeader,      \* the header is absent
    MaxGets        \* bound: calls of get()

ASSUME HttpClientAssumption ==
    /\ {MaxRetries, MaxWait, MinInterval, Timeout, Jitter, MaxGets} \subseteq Nat
    /\ Delays \subseteq Nat /\ NoHeader \notin Int
    /\ \A n \in 0 .. MaxRetries : 2 ^ n \in Nat  \* always so: the provers have no theory of powers

VARIABLES
    now,            \* the clock
    lastRequestAt,  \* lastRequestAt of the client
    sentAt,         \* when the latest request really left
    resetAt,        \* end of the quota window the latest successful response exhausted
    pc,             \* where get() stands
    attempt,        \* its loop variable
    response,       \* what the server answered to the latest request
    outcome,        \* how the latest call of get() ended
    gets            \* calls so far

clientVars == <<now, lastRequestAt, sentAt, resetAt, pc, attempt, response, outcome, gets>>

\* RETRYABLE without 429, which counts as limited.
StatusClass == {"notModified", "ok", "retryable", "tooMany", "forbidden", "other"}

Response == [status : StatusClass, retryAfter : Delays \cup {NoHeader},
             remaining : {NoHeader, 0, 1}, reset : Delays \cup {NoHeader}]

\* The fetch rejected: no connection, or the timeout.
NoResponse == [status |-> "none", retryAfter |-> NoHeader, remaining |-> NoHeader, reset |-> NoHeader]

Outcome == {"none", "notModified", "ok", "httpError", "rateLimitError"}

ClientTypeOK ==
    /\ now \in Nat
    /\ lastRequestAt \in Int
    /\ sentAt \in Int
    /\ resetAt \in Nat \cup {NoHeader}
    /\ pc \in {"idle", "pace", "flight", "answer"}
    /\ attempt \in 0 .. MaxRetries
    /\ response \in Response \cup {NoResponse}
    /\ outcome \in Outcome
    /\ gets \in 0 .. MaxGets

\* No request was ever sent: any MinInterval has passed.
ClientInit ==
    /\ now = 0 /\ lastRequestAt = -MinInterval /\ sentAt = -MinInterval /\ resetAt = NoHeader
    /\ pc = "idle" /\ attempt = 0 /\ gets = 0
    /\ response = NoResponse /\ outcome = "none"

-----------------------------------------------------------------------------
Larger(a, b) == IF a >= b THEN a ELSE b
Smaller(a, b) == IF a <= b THEN a ELSE b

\* An adapter calls get().
Get ==
    /\ pc = "idle" /\ gets < MaxGets
    /\ gets' = gets + 1
    /\ pc' = "pace" /\ attempt' = 0
    /\ UNCHANGED <<now, lastRequestAt, sentAt, resetAt, response, outcome>>

\* A bug to rule out: retries are not paced.
PaceAtOnce ==
    /\ pc = "pace"
    /\ now' = IF attempt > 0 THEN now ELSE Larger(now, lastRequestAt + MinInterval)
    /\ lastRequestAt' = now' /\ sentAt' = now'
    /\ pc' = "flight"
    /\ UNCHANGED <<resetAt, attempt, response, outcome, gets>>

\* pace(), then fetch() is called.
Pace ==
    /\ pc = "pace"
    /\ now' = Larger(now, lastRequestAt + MinInterval)
    /\ lastRequestAt' = now' /\ sentAt' = now'
    /\ pc' = "flight"
    /\ UNCHANGED <<resetAt, attempt, response, outcome, gets>>

\* The server answers, or the connection fails, before the timeout.
Answer ==
    /\ pc = "flight"
    /\ \E latency \in 0 .. Timeout : now' = now + latency
    /\ response' \in Response \cup {NoResponse}
    /\ pc' = "answer"
    /\ UNCHANGED <<lastRequestAt, sentAt, resetAt, attempt, outcome, gets>>

Ends(how) ==
    /\ pc' = "idle"
    /\ outcome' = how

Retries(delay) ==
    /\ now' = now + delay
    /\ pc' = "pace" /\ attempt' = attempt + 1

\* backoff() when the server names no delay.
Backoff == {Smaller(MaxWait, 2 ^ attempt + j) : j \in 0 .. Jitter}

\* A bug to rule out: the announced reset only delays failed requests.
ExhaustedNever == FALSE

\* A successful response took the last request of the window.
Exhausted ==
    /\ response.remaining = 0 /\ response.reset # NoHeader
    /\ response.reset <= MaxWait

Succeed ==
    /\ pc = "answer" /\ response.status = "ok"
    /\ lastRequestAt' = IF Exhausted THEN now + response.reset - MinInterval ELSE lastRequestAt
    /\ resetAt' = IF response.remaining = 0 /\ response.reset # NoHeader /\ response.reset <= MaxWait
                  THEN now + response.reset ELSE NoHeader
    /\ Ends("ok")
    /\ UNCHANGED <<now, sentAt, attempt, response, gets>>

NotModified ==
    /\ pc = "answer" /\ response.status = "notModified"
    /\ resetAt' = NoHeader
    /\ Ends("notModified")
    /\ UNCHANGED <<now, lastRequestAt, sentAt, attempt, response, gets>>

\* The fetch rejected.
FetchFailed ==
    /\ pc = "answer" /\ response = NoResponse
    /\ \/ /\ attempt < MaxRetries
          /\ \E delay \in Backoff : Retries(delay)
          /\ UNCHANGED outcome
       \/ /\ attempt >= MaxRetries
          /\ Ends("httpError")
          /\ UNCHANGED <<now, attempt>>
    /\ resetAt' = NoHeader
    /\ UNCHANGED <<lastRequestAt, sentAt, response, gets>>

Limited ==
    \/ response.status = "tooMany"
    \/ response.status = "forbidden" /\ response.remaining = 0

\* A bug to rule out: the delay the server names is cut to what we would wait.
RetryDelayCut ==
    IF response.retryAfter # NoHeader THEN Smaller(response.retryAfter, MaxWait)
    ELSE IF response.remaining = 0 /\ response.reset # NoHeader THEN Smaller(response.reset, MaxWait)
    ELSE NoHeader

\* retryDelayMs: Retry-After, then the reset of an exhausted window.
RetryDelay ==
    IF response.retryAfter # NoHeader THEN response.retryAfter
    ELSE IF response.remaining = 0 THEN response.reset
    ELSE NoHeader

MayRetry == (response.status = "retryable" \/ Limited) /\ attempt < MaxRetries

\* Any other status: retried, refused because the wait is too long, or an error.
Refused ==
    /\ pc = "answer" /\ response.status \in {"retryable", "tooMany", "forbidden", "other"}
    /\ \/ /\ MayRetry /\ RetryDelay = NoHeader
          /\ \E delay \in Backoff : Retries(delay)
          /\ UNCHANGED outcome
       \/ /\ MayRetry /\ RetryDelay # NoHeader /\ RetryDelay <= MaxWait
          /\ Retries(RetryDelay)
          /\ UNCHANGED outcome
       \/ /\ MayRetry /\ RetryDelay # NoHeader /\ RetryDelay > MaxWait
          /\ Ends("rateLimitError")
          /\ UNCHANGED <<now, attempt>>
       \/ /\ ~MayRetry
          /\ Ends(IF Limited THEN "rateLimitError" ELSE "httpError")
          /\ UNCHANGED <<now, attempt>>
    /\ resetAt' = NoHeader
    /\ UNCHANGED <<lastRequestAt, sentAt, response, gets>>

ClientNext == Get \/ Pace \/ Answer \/ Succeed \/ NotModified \/ FetchFailed \/ Refused

ClientSpec == ClientInit /\ [][ClientNext]_clientVars

-----------------------------------------------------------------------------
(* Properties *)

\* "rather than spending the next request on a guaranteed 429": after a success that
\* took the last request of a window, no request leaves before the reset, and a retry
\* never comes sooner than the server asked for.
ServerIsObeyed ==
    [][Pace => /\ resetAt # NoHeader => sentAt' >= resetAt
               /\ (attempt > 0 /\ response.retryAfter # NoHeader)
                     => sentAt' >= sentAt + response.retryAfter]_clientVars

\* Requests keep their distance, retries included, unless the earlier one was
\* answered with an exhausted window that has ended since.
SpacedOrAfterReset ==
    [][Pace => sentAt' >= sentAt + MinInterval \/ (resetAt # NoHeader /\ sentAt' >= resetAt)]_clientVars

\* http.ts: "Minimum spacing between requests (politeness)".
MinimumSpacing ==
    [][Pace => sentAt' >= sentAt + MinInterval]_clientVars
=============================================================================
