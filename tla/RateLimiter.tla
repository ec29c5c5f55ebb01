---------------------------- MODULE RateLimiter ----------------------------
(***************************************************************************)
(* RateLimitMiddleware (app/middleware/rate_limiter.py): a sliding window  *)
(* per client address.  dispatch has no await before it has decided and    *)
(* appended, so a decision is one step.  time.time() is a count of ticks,  *)
(* TicksPerSecond to the second, that runs at the rate of real time but    *)
(* may be set back.  The health paths never reach the window and are not   *)
(* modelled.                                                               *)
(***************************************************************************)
EXTENDS Integers, Sequences

CONSTANTS Clients,         \* addresses
          MaxRequests,     \* max_requests
          WindowSeconds,   \* window_seconds
          TicksPerSecond,
          MaxTime,         \* bound: ticks explored
          MaxLag           \* bound: ticks the clock is set back in all

ASSUME RequestsAssumption == MaxRequests \in Nat \ {0}
ASSUME WindowAssumption == WindowSeconds \in Nat /\ TicksPerSecond \in Nat \ {0}
ASSUME TimeAssumption == MaxTime \in Nat /\ MaxLag \in Nat

VARIABLES now,     \* real time
          lag,     \* how far the clock has been set back since the start
          stamps,  \* _requests[client_ip]
          log,     \* history: all admissions, never cleaned
          advice   \* history: what the last 429 said, and the admission it waits for

vars == <<now, lag, stamps, log, advice>>

Window == WindowSeconds * TicksPerSecond

\* time.time().
Wall == now - lag

\* An admission is logged with the real time and the lag of the clock then.
Admission == [at : Nat, lag : Nat]
Stamp(a) == a.at - a.lag
NoAdvice == [due |-> 0, waits |-> 0]

\* Mutant: an entry exactly a window old is dropped.
IsExpiredPrefix_Closed(s, k) ==
    /\ \A i \in 1 .. k : s[i] <= Wall - Window
    /\ k < Len(s) => s[k + 1] > Wall - Window

\* The loop of _cleanup: the leading timestamps before the cutoff are k, and
\* what is kept of the list: there is always exactly one such k.
IsExpiredPrefix(s, k) ==
    /\ \A i \in 1 .. k : s[i] < Wall - Window
    /\ k < Len(s) => s[k + 1] >= Wall - Window

\* Mutant: the list is not cleaned.
Cleanings_None(s) == {s}

Cleanings(s) ==
    {SubSeq(s, k + 1, Len(s)) : k \in {n \in 0 .. Len(s) : IsExpiredPrefix(s, n)}}

\* Mutant: rounded down.
RetryAfter_Floor(s) == (Window - (Wall - s[1])) \div TicksPerSecond

\* int(window_seconds - (now - timestamps[0])) + 1, in seconds.
RetryAfter(s) == (Window - (Wall - s[1])) \div TicksPerSecond + 1

Init ==
    /\ now = 0
    /\ lag = 0
    /\ stamps = [c \in Clients |-> <<>>]
    /\ log = [c \in Clients |-> <<>>]
    /\ advice = [c \in Clients |-> NoAdvice]

Admit(c) ==
    \E s \in Cleanings(stamps[c]) :
       /\ Len(s) < MaxRequests
       /\ stamps' = [stamps EXCEPT ![c] = Append(s, Wall)]
       /\ log' = [log EXCEPT ![c] = Append(@, [at |-> now, lag |-> lag])]
       /\ UNCHANGED <<now, lag, advice>>

\* timestamps[0] is the admission Len(s) places from the end of the log.
Reject(c) ==
    \E s \in Cleanings(stamps[c]) :
       /\ Len(s) >= MaxRequests
       /\ stamps' = [stamps EXCEPT ![c] = s]
       /\ advice' = [advice EXCEPT ![c] =
                       [due |-> Wall + RetryAfter(s) * TicksPerSecond,
                        waits |-> Len(log[c]) - Len(s) + 1]]
       /\ UNCHANGED <<now, lag, log>>

Tick ==
    /\ now < MaxTime
    /\ now' = now + 1
    /\ UNCHANGED <<lag, stamps, log, advice>>

\* The operator, or a time service, sets the clock back.
SetBack ==
    /\ \E d \in 1 .. MaxLag - lag : lag' = lag + d
    /\ UNCHANGED <<now, stamps, log, advice>>

Next == Tick \/ SetBack \/ \E c \in Clients : Admit(c) \/ Reject(c)

Spec == Init /\ [][Next]_vars

-----------------------------------------------------------------------------
TypeOK ==
    /\ now \in Nat
    /\ lag \in Nat
    /\ stamps \in [Clients -> Seq(Int)]
    /\ log \in [Clients -> Seq(Admission)]
    /\ advice \in [Clients -> [due : Int, waits : Nat]]

\* The limit itself, in real time: of any MaxRequests + 1 admissions of a
\* client in a row, the first and the last are more than a window apart,
\* although the list they are counted in keeps being cut and the clock its
\* stamps are from is set back.
WindowBound ==
    \A c \in Clients : \A i \in DOMAIN log[c] :
       i + MaxRequests \in DOMAIN log[c]
          => log[c][i + MaxRequests].at - log[c][i].at > Window

\* No request is refused without cause: a client that is told to wait has
\* used its whole quota in the last window.  A clock that was set back since
\* keeps it waiting by as much longer, and not more.
RejectsOnlyFullWindow ==
    [][\A c \in Clients :
          advice'[c] # advice[c] =>
             /\ Len(log[c]) >= MaxRequests
             /\ LET first == log[c][Len(log[c]) - MaxRequests + 1]
                IN  now - first.at <= Window + (lag - first.lag)]_vars

\* Retry-After is enough: a client that is refused again once the clock shows
\* the time it was given waits for a later admission than it did before.
RetryAfterIsEnough ==
    [][\A c \in Clients :
          advice'[c] # advice[c] /\ advice[c] # NoAdvice /\ Wall >= advice[c].due
             => advice'[c].waits > advice[c].waits]_vars
=============================================================================
