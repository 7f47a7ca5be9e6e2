---------------------------- MODULE MCComponents ----------------------------
(***************************************************************************)
(* The components that share nothing with one another or with a download   *)
(* in this code, side by side for TLC: a behaviour belongs to one of them, *)
(* and the others stay as they began.                                      *)
(***************************************************************************)
EXTENDS ResumeBitmap, CdnThrottle, BandwidthScheduler, SourceManager, ProgressSmoothers,
        MetadataExchange, PeerExchange, PeerDiscovery, LegacyDownload, MirrorDiscovery

CONSTANTS
    w1, w2, h1, h2, h3, t1, t2, t3, o1, o2, u1, u2, r1, r2, c1, x, y, z, k1, k2, m1, m2, impostor, none

Plans == {2, 3}
RemoteOf == [c \in {c1} |-> x]

\* Three URLs, two of them of one host; one prefix that two rules put in, and
\* chains that match to the end, break off, and lead back to where they began.
DomainOf == (x :> h1 @@ y :> h1 @@ z :> h2)
RuleOne == [matches |-> {x}, prefixes |-> << m1, m2 >>]
RuleTwo == [matches |-> {x, z}, prefixes |-> << m1 >>]
RewriteRules == {RuleOne, RuleTwo}
FirstRule == << RuleOne >>
OneStep == [domain |-> h1, steps |-> << (x :> y) >>, priority |-> 1]
TwoSteps == [domain |-> h1, steps |-> << (x :> y), (y :> z) >>, priority |-> 2]
Broken == [domain |-> h1, steps |-> << (x :> z @@ y :> z), (x :> y) >>, priority |-> 3]
Circle == [domain |-> h1, steps |-> << (x :> y), (y :> x) >>, priority |-> 1]
Configs == {OneStep, TwoSteps, Broken, Circle}
FirstConfig == << OneStep >>

VARIABLE part

Idle(p) ==
    /\ p # "bitmap" => UNCHANGED bitmapVars
    /\ p # "cdn" => UNCHANGED cdnVars
    /\ p # "bandwidth" => UNCHANGED bandwidthVars
    /\ p # "sources" => UNCHANGED sourceManagerVars
    /\ p # "smoother" => UNCHANGED smootherVars
    /\ p # "metadata" => UNCHANGED metadataVars
    /\ p # "pex" => UNCHANGED pexVars
    /\ p # "discovery" => UNCHANGED discoveryVars
    /\ p # "legacy" => UNCHANGED legacyVars
    /\ p # "mirrors" => UNCHANGED mirrorVars

\* A component that does not move begins in one way only.
Pinned ==
    /\ part # "bitmap" => total = 2
    /\ part # "bandwidth" => strategy = "Fair"
    /\ part # "smoother" => flavour = "store"
    /\ part # "metadata" => given = 0 /\ content = "other"
    /\ part # "discovery" => pdc = {}
    /\ part # "legacy" => http

Init ==
    /\ part \in {"bitmap", "cdn", "bandwidth", "sources", "smoother", "metadata", "pex",
                 "discovery", "legacy", "mirrors"}
    /\ BitmapInit /\ CdnInit /\ BandwidthInit /\ SourceManagerInit /\ SmootherInit
    /\ MetadataInit /\ PexInit /\ DiscoveryInit /\ LegacyInit /\ MirrorInit
    /\ Pinned

Only(p) == part = p /\ UNCHANGED part /\ Idle(p)

Next ==
    \/ Only("bitmap") /\ BitmapNext
    \/ Only("cdn") /\ CdnNext
    \/ Only("bandwidth") /\ BandwidthNext
    \/ Only("sources") /\ SourceManagerNext
    \/ Only("smoother") /\ SmootherNext
    \/ Only("metadata") /\ MetadataNext
    \/ Only("pex") /\ PexNext
    \/ Only("discovery") /\ DiscoveryNext
    \/ Only("legacy") /\ LegacyNext
    \/ Only("mirrors") /\ MirrorNext

vars == << part, bitmapVars, cdnVars, bandwidthVars, sourceManagerVars, smootherVars,
           metadataVars, pexVars, discoveryVars, legacyVars, mirrorVars >>

Spec == Init /\ [][Next]_vars

\* Whatever a discovery finds, the merged list has each address once, with the
\* best priority it was found with (merge_results).
ASSUME MergeKeepsTheBest ==
    \A entries \in SUBSET ({x, y} \X (1 .. 3)) :
        LET addrs == {p[1] : p \in entries}
            best(a) == CHOOSE n \in 1 .. 3 :
                          << a, n >> \in entries /\ \A m \in 1 .. 3 : << a, m >> \in entries => m <= n
        IN  Merged(entries) = {<< a, best(a) >> : a \in addrs}

\* A chain of replacements gives what its last one makes if every one matches
\* what the one before it made, and nothing otherwise (generate_mirrors).
ASSUME ChainAllOrNothing ==
    \A c \in Configs : \A u \in {x, y, z} :
        LET n == Len(c.steps)
            runs == {p \in [0 .. n -> {x, y, z}] :
                       /\ p[0] = u
                       /\ \A i \in 1 .. n : << p[i - 1], p[i] >> \in
                            {<< v, c.steps[i][v] >> : v \in DOMAIN c.steps[i]}}
        IN  ApplyChain(c.steps, u) = IF runs = {} THEN none ELSE (CHOOSE p \in runs : TRUE)[n]

\* The mirrors of a URL are those of its domain's rules that change it, one for
\* each rule, in descending order of priority and stable in it.
ASSUME MirrorsInOrder ==
    \A rules \in UNION {[1 .. n -> Configs] : n \in 0 .. 3} : \A u \in {x, y, z} :
        LET use == {i \in DOMAIN rules : rules[i].domain = DomainOf[u]
                                          /\ ApplyChain(rules[i].steps, u) \notin {none, u}}
            before(i) == {j \in use : \/ rules[j].priority > rules[i].priority
                                     \/ (rules[j].priority = rules[i].priority /\ j < i)}
            list == GenerateMirrors(rules, u)
        IN  /\ Len(list) = Cardinality(use)
            /\ \A i \in use : list[Cardinality(before(i)) + 1] = ApplyChain(rules[i].steps, u)
=============================================================================
