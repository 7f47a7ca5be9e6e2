------------------------- MODULE ProgressSmoothers -------------------------
(***************************************************************************)
(* The counters of the two progress smoothers, which several tasks of a    *)
(* download write and others read: that of the legacy strategy             *)
(* (src/service/progress.rs), which updates by compare-and-exchange, and   *)
(* the one that guarantees a percentage that does not go back              *)
(* (src/service/progress_smoother.rs), which loads, compares and stores    *)
(* and may be configured without that guarantee (enforce_monotonic).       *)
(* A behaviour is of one of the three.                                     *)
(*                                                                         *)
(* Abstracted: speeds and the estimate of what is left, which are floats   *)
(* of the clock; the percentage, to the bytes it is computed from, the     *)
(* total being set once (set_total).  Sending the snapshots is             *)
(* LegacyDownload's.                                                       *)
(***************************************************************************)
EXTENDS Naturals

CONSTANTS
    Updater,   \* tasks that call update_downloaded and add_downloaded
    Reader,    \* tasks that call snapshot
    Ceiling    \* bound on downloaded_bytes

ASSUME SmootherAssumption == Ceiling \in Nat

VARIABLES
    flavour,      \* "exchange" (progress.rs); progress_smoother.rs: "store", or
                  \* "loose" if enforce_monotonic is off
    counter,      \* downloaded_bytes
    upd,          \* each updater's value and what it has loaded, or Nothing
    snp,          \* what each reader has loaded, or Nothing
    lastCounted,  \* last_report_downloaded
    lastPercent,  \* last_reported_percent
    resetting,    \* reset has cleared the counters and not yet the rest
    percentShown, \* the percentage last returned
    promised      \* history: the largest value an update has returned for

counters == << counter, upd, promised >>
reports == << lastCounted, lastPercent, percentShown >>
smootherVars == << flavour, counters, snp, reports, resetting >>

Nothing == << >>

\* progress_smoother.rs, however configured.
Storing == flavour \in {"store", "loose"}

-----------------------------------------------------------------------------
\* update_downloaded loads the counter; a smaller value is ignored.
LoadCounter(u, n) ==
    /\ upd[u] = Nothing /\ n > counter
    /\ upd' = [upd EXCEPT ![u] = << n, counter >>]
    /\ UNCHANGED << flavour, counter, promised, snp, reports, resetting >>

Finish(u) == upd' = [upd EXCEPT ![u] = Nothing]
Promise(n) == promised' = IF n > promised THEN n ELSE promised

\* Mutant: the exchange does not compare.
ExchangeBlindly(u) ==
    /\ flavour = "exchange" /\ upd[u] # Nothing
    /\ counter' = upd[u][1]
    /\ Finish(u) /\ Promise(upd[u][1])
    /\ UNCHANGED << flavour, snp, reports, resetting >>

\* compare_exchange_weak succeeds if the counter is as it was loaded.
Exchange(u) ==
    /\ flavour = "exchange" /\ upd[u] # Nothing
    /\ counter = upd[u][2]
    /\ counter' = upd[u][1]
    /\ Finish(u) /\ Promise(upd[u][1])
    /\ UNCHANGED << flavour, snp, reports, resetting >>

\* It fails, spuriously too: load again, and leave if the value is no news.
ExchangeFails(u) ==
    /\ flavour = "exchange" /\ upd[u] # Nothing
    /\ IF upd[u][1] > counter
       THEN upd' = [upd EXCEPT ![u][2] = counter] /\ UNCHANGED promised
       ELSE Finish(u) /\ Promise(upd[u][1])
    /\ UNCHANGED << flavour, counter, snp, reports, resetting >>

\* progress_smoother.rs stores whatever has happened since it loaded.
Store(u) ==
    /\ Storing /\ upd[u] # Nothing
    /\ counter' = upd[u][1]
    /\ Finish(u) /\ Promise(upd[u][1])
    /\ UNCHANGED << flavour, snp, reports, resetting >>

\* add_downloaded
AddBytes ==
    /\ counter < Ceiling
    /\ counter' = counter + 1
    /\ UNCHANGED << flavour, upd, promised, snp, reports, resetting >>

\* snapshot loads the counters before it takes the locks.
LoadSnapshot(r) ==
    /\ snp[r] = Nothing
    /\ snp' = [snp EXCEPT ![r] = << counter >>]
    /\ UNCHANGED << flavour, counters, reports, resetting >>

\* Mutant: a percentage that went back is held for one snapshot only.
ShowAndForget(r) ==
    /\ snp[r] # Nothing
    /\ snp' = [snp EXCEPT ![r] = Nothing]
    /\ lastCounted' = snp[r][1]
    /\ IF flavour = "store" /\ snp[r][1] < lastPercent
       THEN percentShown' = lastPercent ELSE percentShown' = snp[r][1]
    /\ lastPercent' = snp[r][1]
    /\ UNCHANGED << flavour, counters, resetting >>

\* The rest is done under the locks.  progress.rs has none and keeps nothing;
\* without enforce_monotonic the percentage shown is not kept either.
ShowSnapshot(r) ==
    /\ snp[r] # Nothing
    /\ snp' = [snp EXCEPT ![r] = Nothing]
    /\ percentShown' = IF flavour = "store" /\ snp[r][1] < lastPercent
                       THEN lastPercent ELSE snp[r][1]
    /\ lastPercent' = IF flavour = "store" THEN percentShown' ELSE lastPercent
    /\ lastCounted' = IF Storing THEN snp[r][1] ELSE lastCounted
    /\ UNCHANGED << flavour, counters, resetting >>

\* reset: the two counters, then what was reported, each by itself.
ResetCounters ==
    /\ Storing /\ ~resetting
    /\ counter' = 0 /\ promised' = 0
    /\ resetting' = TRUE
    /\ UNCHANGED << flavour, upd, snp, reports >>

ResetReports ==
    /\ resetting
    /\ lastCounted' = 0 /\ lastPercent' = 0 /\ percentShown' = 0
    /\ resetting' = FALSE
    /\ UNCHANGED << flavour, counters, snp >>

SmootherInit ==
    /\ flavour \in {"exchange", "store", "loose"}
    /\ counter = 0 /\ promised = 0
    /\ upd = [u \in Updater |-> Nothing] /\ snp = [r \in Reader |-> Nothing]
    /\ lastCounted = 0 /\ lastPercent = 0 /\ percentShown = 0
    /\ resetting = FALSE

SmootherNext ==
    \/ \E u \in Updater :
        \/ \E n \in 1 .. Ceiling : LoadCounter(u, n)
        \/ Exchange(u) \/ ExchangeFails(u) \/ Store(u)
    \/ AddBytes
    \/ \E r \in Reader : LoadSnapshot(r) \/ ShowSnapshot(r)
    \/ ResetCounters \/ ResetReports

SmootherSpec == SmootherInit /\ [][SmootherNext]_smootherVars

-----------------------------------------------------------------------------
(* Properties *)

\* progress.rs, which exchanges: no update is lost, however many there are at
\* once.  The counter is at least what every update that has returned gave, and
\* no step takes it back.
ExchangeLosesNothing ==
    [][flavour = "exchange" => counter' >= promised' /\ counter' >= counter]_smootherVars

\* progress_smoother.rs, which stores, with enforce_monotonic: although stores at
\* the same time take the counter back, and readers load it before they queue
\* for the locks, in any order, the percentage that is shown goes back by a
\* reset alone (progress_smoother.rs:159).
PercentNeverBack ==
    [][flavour = "store" =>
         percentShown' >= percentShown \/ (resetting /\ ~resetting')]_smootherVars
=============================================================================
