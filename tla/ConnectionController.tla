------------------------ MODULE ConnectionController -----------------------
(***************************************************************************)
(* The controller of a download's number of connections                    *)
(* (src/service/adaptive.rs): run_loop takes a speed sample or times out   *)
(* and then adjusts; other tasks report requests meanwhile and read        *)
(* current_connections.  All state is in atomics that only adjust writes,  *)
(* and adjust runs in one task, so one adjustment is one step here; what   *)
(* may come between two of its reads is a request, which the step before   *)
(* or after it does as well.                                               *)
(*                                                                         *)
(* Abstracted: speeds, to how the growth rate compares with the dynamic    *)
(* threshold ("below", "equal", "above"), which they decide once there are *)
(* four samples; the clock, to whether each of the two intervals has       *)
(* passed; the growing step, to any value between adjust_step and three    *)
(* times as much.  The failure rate is the real one, of bounded counters.  *)
(***************************************************************************)
EXTENDS Integers

CONSTANTS
    Initial, MinConn, MaxConn,   \* initial_, min_ and max_connections
    Step,                        \* adjust_step
    Stagnation,                  \* stagnation_limit
    FailPercent,                 \* failure_rate_threshold
    BackoffNum, BackoffDen,      \* exponential_backoff_factor
    MaxBackoff, \* beyond this many backoffs in a row a step exceeds MaxConn
    MaxRequests \* bound on total_requests

ASSUME ControllerAssumption ==
    /\ {Initial, MinConn, MaxConn, Step, Stagnation} \subseteq Nat \ {0}
    /\ MinConn <= Initial /\ Initial <= MaxConn
    /\ FailPercent \in 0 .. 100
    /\ BackoffNum \in Nat \ {0} /\ BackoffDen \in Nat \ {0} /\ MaxBackoff \in Nat
    /\ MaxRequests \in Nat
    \* powers of a positive number; the provers know no more of ^ than its type
    /\ \A n \in 0 .. MaxBackoff : BackoffDen ^ n > 0

VARIABLES
    connections, \* current_connections
    stagnant,    \* stagnation_count
    requests,    \* total_requests
    failures,    \* failed_requests
    throttled,   \* is_throttled
    preThrottle, \* pre_throttle_connections
    backoffs,    \* backoff_count
    samples,     \* how many samples there are, up to the four that matter
    growth,      \* the growth rate against the threshold
    adjustDue,   \* adjust_interval has passed since last_adjust
    probeDue,    \* throttle_recovery_interval has passed since last_recovery_probe
    looping      \* run_loop has not ended

decision == << connections, stagnant, throttled, preThrottle, backoffs >>
measured == << requests, failures, samples, growth >>
controllerVars == << decision, measured, adjustDue, probeDue, looping >>

Verdict == {"below", "equal", "above"}

\* speed_growth_rate against dynamic_growth_threshold: with fewer than four
\* samples the rate is 1.0, more than any threshold.
Growth == IF samples < 4 THEN "above" ELSE growth

\* failure_rate compared with p percent; nothing has failed before the first request.
FailingMoreThan(p) == requests > 0 /\ 100 * failures > p * requests
FailingLessThanHalf(p) == requests = 0 \/ 200 * failures < p * requests

\* exponential_backoff_step: adjust_step * factor^backoff_count, rounded.
BackoffStep ==
    LET num == Step * BackoffNum ^ backoffs
        den == BackoffDen ^ backoffs
        rounded == (2 * num + den) \div (2 * den)
    IN  IF rounded < 1 THEN 1 ELSE rounded

AtLeast(n, low) == IF n < low THEN low ELSE n
AtMost(n, high) == IF n > high THEN high ELSE n

-----------------------------------------------------------------------------
(* One adjustment: the cases of adjust in their order.  Each case says what *)
(* becomes of the decision; Adjust adds the two clocks.                     *)

Probing == throttled /\ probeDue

\* Mutant: the recovery only takes the mark away while requests succeed.
RecoverUnlessFailing ==
    /\ Probing /\ Growth = "above" /\ FailingLessThanHalf(FailPercent)
    /\ throttled' = FALSE /\ stagnant' = 0 /\ backoffs' = 0
    /\ connections' = AtLeast(preThrottle, connections)
    /\ UNCHANGED preThrottle

\* check_throttle_recovery comes first: failures do not hold it back.
Recover ==
    /\ Probing /\ Growth = "above"
    /\ throttled' = FALSE /\ stagnant' = 0 /\ backoffs' = 0
    /\ connections' = AtLeast(preThrottle, connections)
    /\ UNCHANGED preThrottle

Recovers == Probing /\ Growth = "above"

MustBackOff == ~Recovers /\ FailingMoreThan(FailPercent) /\ connections > MinConn

BackOff ==
    /\ MustBackOff
    /\ connections' = AtLeast(connections - BackoffStep, MinConn)
    /\ stagnant' = 0
    /\ backoffs' = AtMost(backoffs + 1, MaxBackoff)
    /\ UNCHANGED << throttled, preThrottle >>

Forgive == backoffs' = IF FailingLessThanHalf(FailPercent) THEN 0 ELSE backoffs

\* At the maximum, or throttled: the connections stay as they are.
Keep ==
    /\ ~Recovers /\ ~MustBackOff
    /\ connections >= MaxConn \/ throttled
    /\ Forgive
    /\ UNCHANGED << connections, stagnant, throttled, preThrottle >>

MayGrow == ~Recovers /\ ~MustBackOff /\ connections < MaxConn /\ ~throttled

Stagnate ==
    /\ MayGrow /\ Growth = "below"
    /\ stagnant' = AtMost(stagnant + 1, Stagnation)
    /\ IF stagnant + 1 >= Stagnation
       THEN throttled' = TRUE /\ preThrottle' = connections
       ELSE UNCHANGED << throttled, preThrottle >>
    /\ Forgive
    /\ UNCHANGED connections

\* Mutant: a throttled download grows like any other.
GrowThrottledToo ==
    /\ ~Recovers /\ ~MustBackOff /\ connections < MaxConn /\ Growth # "below"
    /\ \E step \in Step .. 3 * Step : connections' = AtMost(connections + step, MaxConn)
    /\ stagnant' = 0
    /\ Forgive
    /\ UNCHANGED << throttled, preThrottle >>

Grow ==
    /\ MayGrow /\ Growth # "below"
    /\ \E step \in Step .. 3 * Step : connections' = AtMost(connections + step, MaxConn)
    /\ stagnant' = 0
    /\ Forgive
    /\ UNCHANGED << throttled, preThrottle >>

\* adjust, due: a probe restarts its clock whatever it finds.
Adjust ==
    /\ looping /\ adjustDue
    /\ Recover \/ BackOff \/ Keep \/ Stagnate \/ Grow
    /\ adjustDue' = FALSE
    /\ probeDue' = (probeDue /\ ~throttled)
    /\ UNCHANGED << measured, looping >>

-----------------------------------------------------------------------------
(* Around it *)

\* run_loop receives a speed; a call of adjust that is not due does nothing.
RecordSpeed ==
    /\ looping
    /\ samples' = AtMost(samples + 1, 4)
    /\ growth' \in Verdict
    /\ UNCHANGED << decision, requests, failures, adjustDue, probeDue, looping >>

\* record_request, by the tasks that download.
RecordRequest(success) ==
    /\ requests < MaxRequests
    /\ requests' = requests + 1
    /\ failures' = IF success THEN failures ELSE failures + 1
    /\ UNCHANGED << decision, samples, growth, adjustDue, probeDue, looping >>

AdjustIntervalPasses ==
    /\ ~adjustDue
    /\ adjustDue' = TRUE
    /\ UNCHANGED << decision, measured, probeDue, looping >>

ProbeIntervalPasses ==
    /\ ~probeDue
    /\ probeDue' = TRUE
    /\ UNCHANGED << decision, measured, adjustDue, looping >>

\* The token is cancelled or the channel of speeds is closed.
EndLoop ==
    /\ looping
    /\ looping' = FALSE
    /\ UNCHANGED << decision, measured, adjustDue, probeDue >>

ControllerInit ==
    /\ connections = Initial /\ preThrottle = Initial
    /\ stagnant = 0 /\ backoffs = 0 /\ throttled = FALSE
    /\ requests = 0 /\ failures = 0
    /\ samples = 0 /\ growth = "equal"
    /\ adjustDue = FALSE /\ probeDue = FALSE /\ looping = TRUE

ControllerNext ==
    \/ Adjust \/ RecordSpeed \/ EndLoop
    \/ \E success \in BOOLEAN : RecordRequest(success)
    \/ AdjustIntervalPasses \/ ProbeIntervalPasses

ControllerSpec == ControllerInit /\ [][ControllerNext]_controllerVars

-----------------------------------------------------------------------------
(* Properties *)

\* A download taken for throttled has at most the connections it had when it
\* was: growing, backing off and recovering are told apart by three counters
\* that are reset in different cases, and a recovery goes back to
\* pre_throttle_connections whatever has happened since.
ThrottledNeverGrows ==
    /\ throttled => connections <= preThrottle
    /\ connections \in MinConn .. MaxConn

\* A download is not kept throttled for ever while its speed grows, even if its
\* requests fail or it was backed off to the minimum meanwhile.
ThrottlingEnds ==
    <>[](looping /\ samples = 4 /\ growth = "above") => []<>~throttled
=============================================================================
