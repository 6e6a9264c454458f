------------------------------- MODULE RateLimits -------------------------------
(***************************************************************************)
(* The rate limits of the API (apps/api/src/rate-limit): fixed windows,    *)
(* counted in Redis for the address of a client and for a session.  The    *)
(* requests of one client to one endpoint, through any number of instances *)
(* of the API.  Time is in half seconds, as the wait an answer asks for is *)
(* rounded to seconds.                                                     *)
(***************************************************************************)
EXTENDS Integers, FiniteSets, Sequences, FiniteSetsExt

CONSTANTS
    Sessions,
    PerClient, PerSession,  \* the limits of the policy
    WindowSeconds,
    MaxDelay,               \* bound: half seconds until Redis has counted
    MaxArrivals,            \* bound: requests
    MaxClock,               \* bound: half seconds
    MaxOutages              \* bound: failures of Redis

\* A counter outlives its window by a window, and no request is longer on its
\* way to it.
RateLimitsAssumption ==
    /\ "client" \notin Sessions
    /\ {PerClient, PerSession, WindowSeconds} \subseteq Nat \ {0}
    /\ {MaxArrivals, MaxClock, MaxOutages} \subseteq Nat
    /\ MaxDelay \in 0..(2 * WindowSeconds)

VARIABLES
    clock,
    counters,  \* what Redis holds: [key, window] to [count, expires]
    arrivals,  \* the requests, in order
    outages

vars == <<clock, counters, arrivals, outages>>

-----------------------------------------------------------------------------
Keys == {"client"} \cup Sessions
Limit(k) == IF k = "client" THEN PerClient ELSE PerSession

\* The window of a moment.
Window(t) == t \div (2 * WindowSeconds)

\* A mistake the runs must catch: one counter per key, which a client who
\* goes on keeps from expiring.
OneCounter(t) == 0

\* The window in the name of a counter.
Counter(t) == Window(t)

\* retryAfter: the seconds until the window of t ends, at least one.
RetryAfter(t) ==
    Max({1, ((Window(t) + 1) * 2 * WindowSeconds - t + 1) \div 2})

-----------------------------------------------------------------------------
\* canActivate(): both counters are asked at once.
Arrive(s) ==
    /\ Len(arrivals) < MaxArrivals
    /\ arrivals' = Append(arrivals,
           [session |-> s, at |-> clock, waits |-> {"client", s}, over |-> {}, failed |-> FALSE])
    /\ UNCHANGED <<clock, counters, outages>>

Count(r, k) ==
    LET id == <<k, Counter(r.at)>> IN
    IF id \in DOMAIN counters /\ clock < counters[id].expires THEN counters[id].count ELSE 0

\* MULTI, INCR, EXPIRE, EXEC.
Increment(r, k) ==
    LET id == <<k, Counter(r.at)>>
        counter == [count |-> Count(r, k) + 1, expires |-> clock + 4 * WindowSeconds]
    IN  counters' = [j \in DOMAIN counters \cup {id} |-> IF j = id THEN counter ELSE counters[j]]

\* hit() counts a request whether or not it will be let through.
Hit(i, k) ==
    LET r == arrivals[i] IN
    /\ k \in r.waits
    /\ Increment(r, k)
    /\ arrivals' = [arrivals EXCEPT
            ![i].waits = @ \ {k},
            ![i].over = IF Count(r, k) + 1 <= Limit(k) THEN @ ELSE @ \cup {k}]
    /\ UNCHANGED <<clock, outages>>

\* Redis fails, before or after it has counted: 503, and the other counter is
\* asked all the same.
Fail(i, k) ==
    /\ k \in arrivals[i].waits
    /\ outages < MaxOutages /\ outages' = outages + 1
    /\ arrivals' = [arrivals EXCEPT ![i].waits = @ \ {k}, ![i].failed = TRUE]
    /\ Increment(arrivals[i], k) \/ UNCHANGED counters
    /\ UNCHANGED clock

\* What the guard says when both have answered.
Outcome(r) ==
    IF r.failed THEN "unavailable"
    ELSE IF r.waits # {} THEN "none"
    ELSE IF r.over # {} THEN "denied" ELSE "allowed"

Tick ==
    /\ clock < MaxClock
    /\ \A i \in DOMAIN arrivals : arrivals[i].waits # {} => clock - arrivals[i].at < MaxDelay
    /\ clock' = clock + 1
    /\ UNCHANGED <<counters, arrivals, outages>>

Init == clock = 0 /\ counters = <<>> /\ arrivals = <<>> /\ outages = 0

Next ==
    \/ \E s \in Sessions : Arrive(s)
    \/ \E i \in DOMAIN arrivals : \E k \in Keys : Hit(i, k) \/ Fail(i, k)
    \/ Tick

Spec == Init /\ [][Next]_vars

-----------------------------------------------------------------------------
SameWindow(r, k) ==
    {i \in DOMAIN arrivals : Window(arrivals[i].at) = Window(r.at) /\ k \in {"client", arrivals[i].session}}

\* No window lets more requests of a client or of a session through than its
\* limit, however many count at once and however late they are counted.
LimitsHold ==
    \A i \in DOMAIN arrivals :
        LET r == arrivals[i] IN
        \A k \in {"client", r.session} :
            Cardinality({j \in SameWindow(r, k) : Outcome(arrivals[j]) = "allowed"}) <= Limit(k)

\* A request is refused for those of its own window and nothing older, and
\* who waits as long as the answer says is in another window, no further away
\* than one (rate-limiter.ts, hit; "Seconds until the current window resets").
RefusalsEnd ==
    \A i \in DOMAIN arrivals :
        LET r == arrivals[i] IN
        Outcome(r) = "denied" =>
            /\ \E k \in {"client", r.session} : Cardinality(SameWindow(r, k)) > Limit(k)
            /\ Window(r.at + 2 * RetryAfter(r.at)) = Window(r.at) + 1

=============================================================================
