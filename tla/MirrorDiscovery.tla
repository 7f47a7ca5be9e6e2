--------------------------- MODULE MirrorDiscovery --------------------------
(***************************************************************************)
(* The discoverers of HTTP mirrors (src/infra/http/mirror).                *)
(*                                                                         *)
(* Two are SourceDiscoverers and remember what they found, in a set behind *)
(* a mutex that their clones share: UrlRewriteDiscoverer replaces a prefix *)
(* of the URL, DnsMultiIpDiscoverer (dns_multi_ip.rs) the host by each of  *)
(* its addresses.  Two are MirrorDiscoverers and remember nothing: the     *)
(* older DnsMultiIpDiscoverer (dns.rs) binds a source to an address, and   *)
(* UrlRuleDiscoverer applies chains of replacements and asks each result   *)
(* whether it is there.  Calls overlap at their awaits, and a caller may   *)
(* drop one there.                                                         *)
(*                                                                         *)
(* A URL is a model value, and a mirror the pair of a URL and what was     *)
(* put in place of its prefix or host.  A replacement of UrlRule is a      *)
(* partial function on URLs, defined where it matches.                     *)
(***************************************************************************)
EXTENDS Naturals, Sequences, SequencesExt, FiniteSets

CONSTANTS
    Discovery,  \* calls of discover
    Url,        \* URLs there are
    Web,        \* those that begin with http:// or https://
    Domain,     \* the host of each URL
    NoUrl,      \* what a replacement that does not match returns
    V4, V6,     \* addresses of hosts
    MaxIps,     \* bound on the addresses a name resolves to
    RewriteSet, \* rules a UrlRewriteDiscoverer may have
    FirstRules, \* the rules it begins with
    MaxRules,   \* bound on its rules
    ConfigSet,  \* rules a UrlRuleDiscoverer may have
    FirstConfigs, MaxConfigs

ASSUME MirrorAssumption ==
    /\ Web \subseteq Url /\ NoUrl \notin Url /\ DOMAIN Domain = Url
    /\ V4 \intersect V6 = {} /\ {MaxIps, MaxRules, MaxConfigs} \subseteq Nat
    /\ \A rule \in RewriteSet : rule.prefixes \in Seq(ToSet(rule.prefixes))
    /\ FirstRules \in Seq(RewriteSet) /\ FirstConfigs \in Seq(ConfigSet)

VARIABLES
    rewrites,   \* rules of the UrlRewriteDiscoverer
    configs,    \* rules of the UrlRuleDiscoverer
    remembered, \* discovered, of each discoverer that has it
    handed,     \* history: how often each mirror was returned by one that remembers
    call        \* each call under way: its stage, URL, what is left and what is found

mirrorVars == << rewrites, configs, remembered, handed, call >>

Ip == V4 \union V6
Remembering == {"rewrite", "dns"}
NoCall == [stage |-> "idle", url |-> NoUrl, todo |-> << >>, result |-> << >>]

\* What `contains` and `insert` let through of a list, in order.
Fresh(list, known) ==
    LET add(kept, m) == IF m \in known \union ToSet(kept) THEN kept ELSE Append(kept, m)
    IN  FoldLeft(add, << >>, list)

\* The locked part of a remembering discoverer: what is new is remembered and
\* returned.  Occurrences are counted in the list that is returned.
HandOut(kind, list) ==
    LET new == Fresh(list, remembered[kind])
        times(m) == Cardinality({i \in DOMAIN new : new[i] = m})
    IN  /\ remembered' = [remembered EXCEPT ![kind] = @ \union ToSet(new)]
        /\ handed' = [handed EXCEPT ![kind] =
             [m \in DOMAIN @ \union ToSet(new) |->
                (IF m \in DOMAIN @ THEN @[m] ELSE 0) + times(m)]]

-----------------------------------------------------------------------------
(* UrlRewriteDiscoverer *)

\* UrlRewriteRule::apply.
Rewritten(rule, u) ==
    IF u \in rule.matches THEN [i \in DOMAIN rule.prefixes |-> << u, rule.prefixes[i] >>]
    ELSE << >>

AddRewriteRule(rule) ==
    /\ Len(rewrites) < MaxRules
    /\ rewrites' = Append(rewrites, rule)
    /\ UNCHANGED << configs, remembered, handed, call >>

\* It awaits nothing but the lock, and then goes through all rules.
DiscoverByRewriting(u) ==
    /\ u \in Web
    /\ HandOut("rewrite", FlattenSeq([i \in DOMAIN rewrites |-> Rewritten(rewrites[i], u)]))
    /\ UNCHANGED << rewrites, configs, call >>

-----------------------------------------------------------------------------
(* DnsMultiIpDiscoverer, of dns_multi_ip.rs *)

Resolve(d, u) ==
    /\ call[d] = NoCall /\ u \in Web
    /\ call' = [call EXCEPT ![d] = [NoCall EXCEPT !.stage = "resolving", !.url = u]]
    /\ UNCHANGED << rewrites, configs, remembered, handed >>

\* Mutant: what is new is taken from the set as it is, and returned as it came.
ResolvedUnchecked(d, ips) ==
    /\ call[d].stage = "resolving"
    /\ LET list == {<< call[d].url, ips[i] >> : i \in DOMAIN ips}
       IN  /\ remembered' = [remembered EXCEPT !["dns"] = @ \union list]
           /\ handed' = [handed EXCEPT !["dns"] =
                [m \in DOMAIN @ \union list |->
                   (IF m \in DOMAIN @ THEN @[m] ELSE 0) + (IF m \in list THEN 1 ELSE 0)]]
    /\ call' = [call EXCEPT ![d] = NoCall]
    /\ UNCHANGED << rewrites, configs >>

\* The set is looked at only when the addresses are there.  A resolver that
\* fails and a host of one address give nothing; one address listed twice counts
\* as two, and one of IPv6 is put into the URL without its brackets.
Resolved(d, ips) ==
    /\ call[d].stage = "resolving"
    /\ IF Len(ips) <= 1
       THEN UNCHANGED << remembered, handed >>
       ELSE HandOut("dns", [i \in DOMAIN ips |-> << call[d].url, ips[i] >>])
    /\ call' = [call EXCEPT ![d] = NoCall]
    /\ UNCHANGED << rewrites, configs >>

-----------------------------------------------------------------------------
(* DnsMultiIpDiscoverer, of dns.rs *)

\* Not for a source that is bound already: that is not a URL here.
LookUp(d, u) ==
    /\ call[d] = NoCall
    /\ call' = [call EXCEPT ![d] = [NoCall EXCEPT !.stage = "looking up", !.url = u]]
    /\ UNCHANGED << rewrites, configs, remembered, handed >>

\* One source for each address that is not of IPv6, or an error.
LookedUp(d, ips) ==
    /\ call[d].stage = "looking up"
    /\ call' = [call EXCEPT ![d].stage = "returned",
                            ![d].result = SetToSeq({<< call[d].url, ip >> : ip \in ToSet(ips) \ V6})]
    /\ UNCHANGED << rewrites, configs, remembered, handed >>

-----------------------------------------------------------------------------
(* UrlRuleDiscoverer *)

\* UrlRule::apply; NoUrl matches nothing.
ApplyUrlRule(u, step) == IF u \in DOMAIN step THEN step[u] ELSE NoUrl

\* All rules of a chain must match, each what the ones before it made.
ApplyChain(steps, u) == IF steps = << >> THEN NoUrl ELSE FoldLeft(ApplyUrlRule, u, steps)

\* new and add_rule file each rule under its domain, where they stay in order;
\* add_rule needs the discoverer for itself.
AddRule(config) ==
    /\ Len(configs) < MaxConfigs
    /\ \A d \in Discovery : call[d].stage # "checking"
    /\ configs' = Append(configs, config)
    /\ UNCHANGED << rewrites, remembered, handed, call >>

\* generate_mirrors: those of higher priority first, equal ones in their order.
GenerateMirrors(rules, u) ==
    LET fits(c) == /\ c.domain = Domain[u]
                   /\ ApplyChain(c.steps, u) \notin {NoUrl, u}
        insert(sorted, c) ==
            LET ahead == SelectSeq(sorted, LAMBDA s : s.priority >= c.priority)
            IN  ahead \o << c >> \o SubSeq(sorted, Len(ahead) + 1, Len(sorted))
        sorted == FoldLeft(insert, << >>, SelectSeq(rules, fits))
    IN  [i \in DOMAIN sorted |-> ApplyChain(sorted[i].steps, u)]

DiscoverByRules(d, u) ==
    /\ call[d] = NoCall
    /\ call' = [call EXCEPT ![d] =
         [stage |-> "checking", url |-> u, todo |-> GenerateMirrors(configs, u), result |-> << >>]]
    /\ UNCHANGED << rewrites, configs, remembered, handed >>

\* verify_mirror: a HEAD request that is answered with success or a redirection.
CheckMirror(d, available) ==
    /\ call[d].stage = "checking" /\ call[d].todo # << >>
    /\ call' = [call EXCEPT ![d].todo = Tail(@),
                            ![d].result = IF available THEN Append(@, Head(call[d].todo)) ELSE @]
    /\ UNCHANGED << rewrites, configs, remembered, handed >>

CheckedAll(d) ==
    /\ call[d].stage = "checking" /\ call[d].todo = << >>
    /\ call' = [call EXCEPT ![d].stage = "returned"]
    /\ UNCHANGED << rewrites, configs, remembered, handed >>

-----------------------------------------------------------------------------
\* The caller has the result, or drops the call at one of its awaits.
LetGo(d) ==
    /\ call[d] # NoCall
    /\ call' = [call EXCEPT ![d] = NoCall]
    /\ UNCHANGED << rewrites, configs, remembered, handed >>

MirrorInit ==
    /\ rewrites = FirstRules /\ configs = FirstConfigs
    /\ remembered = [k \in Remembering |-> {}]
    /\ handed = [k \in Remembering |-> << >>]
    /\ call = [d \in Discovery |-> NoCall]

MirrorNext ==
    \/ \E rule \in RewriteSet : AddRewriteRule(rule)
    \/ \E u \in Url : DiscoverByRewriting(u)
    \/ \E config \in ConfigSet : AddRule(config)
    \/ \E d \in Discovery :
        \/ \E u \in Url : Resolve(d, u) \/ LookUp(d, u) \/ DiscoverByRules(d, u)
        \/ \E n \in 0 .. MaxIps : \E ips \in [1 .. n -> Ip] : Resolved(d, ips) \/ LookedUp(d, ips)
        \/ \E available \in BOOLEAN : CheckMirror(d, available)
        \/ CheckedAll(d) \/ LetGo(d)

MirrorSpec == MirrorInit /\ [][MirrorNext]_mirrorVars

-----------------------------------------------------------------------------
(* Properties *)

\* What a discoverer remembers it has returned, and only once: two overlapping
\* discoveries of a URL do not both return a mirror (the second may return none
\* at all), and one that is dropped while it resolves does not lose any.
EachMirrorOnce ==
    \A k \in Remembering :
        /\ DOMAIN handed[k] = remembered[k]
        /\ \A m \in remembered[k] : handed[k][m] = 1
=============================================================================
