---------------------------- MODULE CdnThrottle ----------------------------
(***************************************************************************)
(* The detector of throttled sources (src/service/cdn_throttle.rs): it     *)
(* compares the speed per connection of the sources of a download.  The    *)
(* map of sources is behind one lock, which check_throttling takes after   *)
(* it has looked at the number of sources and keeps to its end.            *)
(*                                                                         *)
(* Abstracted: the window of samples, to the speed per connection it       *)
(* averages to; the clock, to whether a source's probe interval has        *)
(* passed; pre_throttle_connections, which nothing reads, and the counters *)
(* for stats.                                                              *)
(***************************************************************************)
EXTENDS Naturals, FiniteSetsExt, Functions

CONSTANTS
    Host,            \* ids of sources
    HostSpeed,       \* speeds per connection
    SlowPercent,     \* throttle_threshold
    SlowLimit,       \* stagnation_limit
    MinHosts,        \* min_sources_for_detection
    Checker          \* tasks that call check_throttling

ASSUME CdnAssumption ==
    /\ HostSpeed \subseteq Nat /\ 0 \in HostSpeed
    /\ SlowPercent \in 0 .. 100
    /\ SlowLimit \in Nat \ {0} /\ MinHosts \in Nat

VARIABLES
    hosts,        \* source_states
    anyThrottled, \* any_throttled
    checking      \* the checkers between their look at total_sources and the lock

cdnVars == << hosts, anyThrottled, checking >>

NewHost == [speed |-> 0, slow |-> 0, throttled |-> FALSE, probe |-> "never"]

\* The sum and the number of the speeds the average is taken of: without the
\* fastest and the slowest when there are three or more.
Speeds == [h \in DOMAIN hosts |-> hosts[h].speed]
Averaged ==
    LET total == FoldFunction(+, 0, Speeds)
        n == Cardinality(DOMAIN hosts)
    IN  IF n >= 3 THEN [sum |-> total - Max(Range(Speeds)) - Min(Range(Speeds)), n |-> n - 2]
        ELSE [sum |-> total, n |-> n]

\* The speed of h against the average times throttle_threshold.
Slower(h) == 100 * hosts[h].speed * Averaged.n < SlowPercent * Averaged.sum
Faster(h) == 100 * hosts[h].speed * Averaged.n > SlowPercent * Averaged.sum

-----------------------------------------------------------------------------
RegisterHost(h) ==
    /\ h \notin DOMAIN hosts
    /\ hosts' = [k \in DOMAIN hosts \union {h} |-> IF k = h THEN NewHost ELSE hosts[k]]
    /\ UNCHANGED << anyThrottled, checking >>

UnregisterHost(h) ==
    /\ h \in DOMAIN hosts
    /\ hosts' = Restrict(hosts, DOMAIN hosts \ {h})
    /\ UNCHANGED << anyThrottled, checking >>

RecordHostSpeed(h, v) ==
    /\ h \in DOMAIN hosts
    /\ hosts' = [hosts EXCEPT ![h].speed = v]
    /\ UNCHANGED << anyThrottled, checking >>

\* The number of sources is read without the lock.
CountHosts(c) ==
    /\ c \notin checking
    /\ Cardinality(DOMAIN hosts) >= MinHosts
    /\ checking' = checking \union {c}
    /\ UNCHANGED << hosts, anyThrottled >>

\* check_recovery: a source that was never probed, or not for a while.
Probed(r, h) ==
    IF r.probe = "recent" THEN r
    ELSE IF Faster(h) THEN [r EXCEPT !.probe = "recent", !.throttled = FALSE, !.slow = 0]
    ELSE [r EXCEPT !.probe = "recent"]

Judged(r, h) ==
    CASE r.throttled -> Probed(r, h)
      [] ~r.throttled /\ Slower(h) ->
            [r EXCEPT !.slow = r.slow + 1, !.throttled = r.slow + 1 >= SlowLimit]
      [] OTHER -> [r EXCEPT !.slow = 0]

\* Without sources, or with an average below 1, the check leaves everything.
NothingToCompare == Averaged.n = 0 \/ Averaged.sum < Averaged.n

GiveUpCheck(c) ==
    /\ c \in checking /\ NothingToCompare
    /\ checking' = checking \ {c}
    /\ UNCHANGED << hosts, anyThrottled >>

\* Mutant: only the sources found throttled by this check are counted.
CheckCountsNewOnes(c) ==
    /\ c \in checking /\ ~NothingToCompare
    /\ hosts' = [h \in DOMAIN hosts |-> Judged(hosts[h], h)]
    /\ anyThrottled' = (\E h \in DOMAIN hosts : ~hosts[h].throttled /\ Judged(hosts[h], h).throttled)
    /\ checking' = checking \ {c}

\* A source that recovers in this check still counts for any_throttled.
Check(c) ==
    /\ c \in checking /\ ~NothingToCompare
    /\ hosts' = [h \in DOMAIN hosts |-> Judged(hosts[h], h)]
    /\ anyThrottled' = (\E h \in DOMAIN hosts : hosts[h].throttled \/ Judged(hosts[h], h).throttled)
    /\ checking' = checking \ {c}

\* recovery_probe_interval passes since the last probe of h.
HostProbeDue(h) ==
    /\ h \in DOMAIN hosts /\ hosts[h].probe = "recent"
    /\ hosts' = [hosts EXCEPT ![h].probe = "due"]
    /\ UNCHANGED << anyThrottled, checking >>

CdnInit == hosts = << >> /\ anyThrottled = FALSE /\ checking = {}

CdnNext ==
    \/ \E h \in Host :
        \/ RegisterHost(h) \/ UnregisterHost(h) \/ HostProbeDue(h)
        \/ \E v \in HostSpeed : RecordHostSpeed(h, v)
    \/ \E c \in Checker : CountHosts(c) \/ GiveUpCheck(c) \/ Check(c)

CdnSpec == CdnInit /\ [][CdnNext]_cdnVars

-----------------------------------------------------------------------------
(* Properties *)

\* A source is throttled from its stagnation_limit-th slow check in a row to
\* the probe that finds it fast, whatever checks overlap and sources come and
\* go, and any_throttled, which is read without the lock, never denies it.
ThrottledIsFlagged ==
    /\ \A h \in DOMAIN hosts : hosts[h].throttled <=> hosts[h].slow >= SlowLimit
    /\ (\E h \in DOMAIN hosts : hosts[h].throttled) => anyThrottled
=============================================================================
