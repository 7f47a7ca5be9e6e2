------------------------- MODULE BandwidthScheduler ------------------------
(***************************************************************************)
(* The bandwidth scheduler (src/service/bandwidth_scheduler.rs): a table   *)
(* of tasks behind a lock, and shares of the total bandwidth.  Registering *)
(* and unregistering let go of the lock before they adjust the shares,     *)
(* which takes it again.                                                   *)
(*                                                                         *)
(* Abstracted: the shares are whole units, rounded down, instead of        *)
(* floats; a total of 0 and a max_bandwidth_per_task of 0 (no limit) are   *)
(* left out; current_speed and the clock of should_adjust, which no share  *)
(* depends on.                                                             *)
(***************************************************************************)
EXTENDS Integers, FiniteSetsExt, Functions

CONSTANTS
    Client,        \* ids of tasks
    Priorities,    \* u8; the documentation says 0-10
    Downloaded,    \* values of downloaded, out of FullSize
    FullSize,      \* total of a task
    TotalBandwidth, MinBandwidth, MaxBandwidth,
    MaxClients,    \* max_concurrent_tasks
    MaxCalls       \* bound on the calls that are between change and adjustment

ASSUME BandwidthAssumption ==
    /\ Priorities \subseteq 0 .. 255
    /\ FullSize \in Nat \ {0} /\ Downloaded \subseteq 0 .. FullSize
    /\ {TotalBandwidth, MinBandwidth, MaxBandwidth} \subseteq Nat \ {0}
    /\ MinBandwidth <= MaxBandwidth /\ {MaxClients, MaxCalls} \subseteq Nat

VARIABLES
    strategy,  \* config.strategy
    clients,   \* tasks
    sharing,   \* how many calls have changed the table and still have to adjust
    downloads  \* total_downloaded

bandwidthVars == << strategy, clients, sharing, downloads >>

Strategy == {"Fair", "Priority", "MinGuarantee", "Dynamic"}

SumOf(f) == FoldFunction(+, 0, f)
AtLeastMin(n) == Max({n, MinBandwidth})
AtMostMax(n) == Min({n, MaxBandwidth})

-----------------------------------------------------------------------------
(* The share of task k in table t, by strategy *)

Even(t) == TotalBandwidth \div Cardinality(DOMAIN t)

FairShare(t) == AtLeastMin(AtMostMax(Even(t)))

\* The priorities are summed in a u8.
PriorityShare(t, k) ==
    LET total == SumOf([j \in DOMAIN t |-> t[j].priority]) % 256
    IN  IF total > 0 THEN AtLeastMin(AtMostMax((TotalBandwidth * t[k].priority) \div total))
        ELSE FairShare(t)

GuaranteedShare(t) ==
    LET n == Cardinality(DOMAIN t)
        extra == Max({TotalBandwidth - MinBandwidth * n, 0}) \div n
    IN  AtMostMax(MinBandwidth + extra)

\* base * (1 + (average progress - progress) / 100), progress in percent.
DynamicShare(t, k) ==
    LET n == Cardinality(DOMAIN t)
        gained == SumOf([j \in DOMAIN t |-> t[j].downloaded])
        scaled == Even(t) * (FullSize * n + gained - t[k].downloaded * n)
    IN  AtLeastMin(AtMostMax(scaled \div (FullSize * n)))

Share(t, k) ==
    CASE strategy = "Fair" -> FairShare(t)
      [] strategy = "Priority" -> PriorityShare(t, k)
      [] strategy = "MinGuarantee" -> GuaranteedShare(t)
      [] strategy = "Dynamic" -> DynamicShare(t, k)

-----------------------------------------------------------------------------
\* A call lets go of the table, changed, and has still to adjust the shares.
Call == sharing < MaxCalls /\ sharing' = sharing + 1

\* Registering an id again replaces its entry, if there is room for one more.
RegisterClient(k, p) ==
    /\ Cardinality(DOMAIN clients) < MaxClients
    /\ Call
    /\ clients' = [j \in DOMAIN clients \union {k} |->
                     IF j = k THEN [priority |-> p, downloaded |-> 0, share |-> 0] ELSE clients[j]]
    /\ UNCHANGED << strategy, downloads >>

\* Mutant: what a task leaves behind is not shared out.
UnregisterSilently(k) ==
    /\ k \in DOMAIN clients
    /\ clients' = Restrict(clients, DOMAIN clients \ {k})
    /\ UNCHANGED << strategy, sharing, downloads >>

\* An id that is not there needs no adjustment.
UnregisterClient(k) ==
    /\ k \in DOMAIN clients
    /\ Call
    /\ clients' = Restrict(clients, DOMAIN clients \ {k})
    /\ UNCHANGED << strategy, downloads >>

\* update_task: total_downloaded becomes the largest value any task has had, and
\* counts an id that is not there as well.
UpdateClient(k, n) ==
    /\ clients' = IF k \in DOMAIN clients
                  THEN [clients EXCEPT ![k].downloaded = n] ELSE clients
    /\ downloads' = Max({downloads, n})
    /\ UNCHANGED << strategy, sharing >>

Shared(t) == [k \in DOMAIN t |-> [t[k] EXCEPT !.share = Share(t, k)]]

\* adjust_allocation by one of the calls, whatever id it was for; an empty table
\* is left as it is.
AdjustShares ==
    /\ sharing > 0
    /\ clients' = Shared(clients)
    /\ sharing' = sharing - 1
    /\ UNCHANGED << strategy, downloads >>

\* adjust_allocation by a caller that found should_adjust.
AdjustOnTime ==
    /\ clients # << >>
    /\ clients' = Shared(clients)
    /\ UNCHANGED << strategy, sharing, downloads >>

BandwidthInit == strategy \in Strategy /\ clients = << >> /\ sharing = 0 /\ downloads = 0

BandwidthNext ==
    \/ \E k \in Client :
        \/ \E p \in Priorities : RegisterClient(k, p)
        \/ UnregisterClient(k)
        \/ \E n \in Downloaded : UpdateClient(k, n)
    \/ AdjustShares \/ AdjustOnTime

BandwidthSpec == BandwidthInit /\ [][BandwidthNext]_bandwidthVars

-----------------------------------------------------------------------------
(* Properties *)

\* However registering, unregistering and adjusting overlap, calls about the same
\* id included, once no call is between its change and its adjustment every
\* share is that of the present table (under "Dynamic": of a progress it has
\* had), no task is without one, and together they exceed the total by no more
\* than the guaranteed minima.
SharesAreCurrent ==
    sharing = 0 =>
        /\ strategy # "Dynamic" => clients = Shared(clients)
        /\ \A k \in DOMAIN clients : clients[k].share \in MinBandwidth .. MaxBandwidth
        /\ strategy # "Dynamic" =>
             SumOf([k \in DOMAIN clients |-> clients[k].share])
               <= TotalBandwidth + MinBandwidth * Cardinality(DOMAIN clients)
=============================================================================
