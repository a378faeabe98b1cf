------------------------------ MODULE GuestToken ------------------------------
(***************************************************************************)
(* embedDashboard of the embedded SDK: the guest token and the iframe are      *)
(* fetched side by side, the token is sent when both are there, and a timer    *)
(* set from its expiry fetches the next one.                                   *)
(*                                                                           *)
(* Time is a clock of whole units.  A timer fires at its time; a fetch of a    *)
(* token and the load of the iframe take at most Latency.  A token is known    *)
(* by the instant it expires.  The message that carries it to the page        *)
(* arrives at the instant it is sent.                                          *)
(***************************************************************************)
EXTENDS Integers

CONSTANTS
    Buffer,      \* REFRESH_TIMING_BUFFER_MS
    MinWait,     \* MIN_REFRESH_WAIT_MS
    DefaultExp,  \* DEFAULT_TOKEN_EXP_MS
    Lifetime,    \* how long the server makes a token last
    Tokens,      \* what the SDK can read of a token: "dated", its expiry; "undated", not
                 \* that; "opaque", nothing, it is no JWT
    MaxDelay,    \* the longest delay of setTimeout in browsers, 2^31 - 1 milliseconds
    Latency,     \* bound on the time a fetch and the load of the iframe take
    Fails,       \* whether fetchGuestToken may fail
    MaxTime      \* bound on the clock

\* What the constants are; the waits are ordered as in the SDK (5, 10 and 300 seconds,
\* and delays of up to 24 days).
GuestTokenConstants ==
    /\ Buffer \in Nat /\ MinWait \in Nat /\ DefaultExp \in Nat
    /\ Lifetime \in Nat /\ Latency \in Nat /\ MaxTime \in Nat
    /\ MaxDelay \in Nat
    /\ Buffer < MinWait /\ MinWait <= DefaultExp /\ DefaultExp <= MaxDelay
    /\ Tokens \in {"dated", "undated", "opaque"} /\ Fails \in BOOLEAN

None == -1

VARIABLES
    now,
    frame,      \* the iframe: "loading", "loaded" or "unmounted"
    fetching,   \* fetchGuestToken is under way
    asked,      \* when it was called last
    first,      \* the expiry of the first token while the iframe loads, or None
    timer,      \* when refreshGuestToken is due, or None
    held        \* the expiry of the token the page uses, or None

guestVars == <<now, frame, fetching, asked, first, timer, held>>

\* Type correctness: no timer is set while a token is fetched, so refreshes never overlap.
GuestTypeOK ==
    /\ now \in Nat /\ asked \in 0 .. now
    /\ frame \in {"loading", "loaded", "unmounted"}
    /\ fetching \in BOOLEAN
    /\ first \in Nat \cup {None} /\ timer \in Nat \cup {None} /\ held \in Nat \cup {None}
    /\ fetching => timer = None

\* How long the SDK waits before it fetches the next token.
getGuestTokenRefreshTiming(exp) ==
    (IF Tokens = "undated" THEN DefaultExp
     ELSE IF exp - now < MinWait THEN MinWait ELSE exp - now) - Buffer

\* The delay a browser makes of the one it is given: it takes a signed 32-bit number,
\* to which a longer delay wraps around, and a negative one is none.
SetTimeout(delay) ==
    LET wrapped == delay % (2 * (MaxDelay + 1))
    IN IF wrapped > MaxDelay THEN 0 ELSE wrapped

\* The token goes to the page, if there still is one, and the timer is set, unless
\* jwtDecode throws.
Send(exp) ==
    /\ held' = IF frame = "unmounted" THEN None ELSE exp
    /\ timer' = IF Tokens = "opaque" THEN None
                ELSE now + SetTimeout(getGuestTokenRefreshTiming(exp))

\* embedDashboard is called: Promise.all of the first fetch and the iframe.
GuestInit ==
    /\ now = 0 /\ asked = 0 /\ fetching = TRUE
    /\ frame = "loading"
    /\ first = None /\ timer = None /\ held = None

\* The iframe is there.  If the token came first, Promise.all ends now.
mountIframe ==
    /\ frame = "loading"
    /\ frame' = "loaded"
    /\ IF first # None
       THEN Send(first) /\ first' = None
       ELSE UNCHANGED <<first, timer, held>>
    /\ UNCHANGED <<now, fetching, asked>>

\* A token issued at some instant since it was asked for.
Fetched ==
    /\ fetching
    /\ \E issued \in asked .. now :
         IF frame = "loading"
         THEN first' = issued + Lifetime /\ UNCHANGED <<timer, held>>
         ELSE Send(issued + Lifetime) /\ UNCHANGED first
    /\ fetching' = FALSE
    /\ UNCHANGED <<now, frame, asked>>

\* The promise is rejected, and with it the async function that waits for it.
FetchFailed ==
    /\ Fails /\ fetching
    /\ fetching' = FALSE
    /\ UNCHANGED <<now, frame, asked, first, timer, held>>

refreshGuestToken ==
    /\ timer = now
    /\ timer' = None /\ fetching' = TRUE /\ asked' = now
    /\ UNCHANGED <<now, frame, first, held>>

\* unmount is part of what embedDashboard returns, which it does not when jwtDecode
\* throws; it leaves the timer alone.
unmount ==
    /\ frame = "loaded" /\ held # None /\ Tokens # "opaque"
    /\ frame' = "unmounted" /\ held' = None
    /\ UNCHANGED <<now, fetching, asked, first, timer>>

GuestTick ==
    /\ now < MaxTime
    /\ fetching => now < asked + Latency
    /\ frame = "loading" => now < Latency
    /\ timer # None => now < timer
    /\ now' = now + 1
    /\ UNCHANGED <<frame, fetching, asked, first, timer, held>>

GuestNext ==
    \/ mountIframe \/ Fetched \/ FetchFailed \/ refreshGuestToken \/ unmount \/ GuestTick

GuestSpec == GuestInit /\ [][GuestNext]_guestVars

\* What a timely refresh takes: fetches that do not fail and end within the buffer, and
\* tokens that are JWTs and last for the shortest wait and a fetch (for the default
\* expiry and a fetch when their own cannot be read).
Prompt ==
    /\ ~Fails /\ Latency < Buffer
    /\ MinWait + Latency <= Lifetime
    /\ Tokens # "opaque"
    /\ Tokens = "undated" => DefaultExp + Latency <= Lifetime

\* The page never works with an expired token: refreshing Buffer early is early enough.
NeverExpired == Prompt /\ held # None => now < held

\* The wait for the next token is one that setTimeout can make.
DelayFits == Tokens = "dated" => Lifetime <= MaxDelay

\* Two calls of fetchGuestToken are never closer than the shortest wait, also when fetches
\* fail, while tokens last for no longer than setTimeout can wait (24 days).  With a
\* longer one the wait wraps around, and may be none at all.
FetchesSpaced ==
    [][DelayFits /\ asked' # asked => asked' >= asked + MinWait - Buffer]_guestVars

=============================================================================
