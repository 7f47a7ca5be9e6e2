---------------------------- MODULE Folds_proofs ----------------------------
(***************************************************************************)
(* What is proved of the parts whose steps fold a list or a function: a    *)
(* discoverer returns each mirror once (MirrorDiscovery), the legacy       *)
(* strategy is given each verified source once (LegacyDownload), and the   *)
(* shares of the bandwidth are those of the present table and fit the      *)
(* total (BandwidthScheduler). The three share no state.                   *)
(*                                                                         *)
(* A fold is an entry of a table over sets of indices or arguments, and    *)
(* what holds of it is shown by induction on their number, a property      *)
(* being the set of the numbers that have it.                              *)
(***************************************************************************)
EXTENDS MirrorDiscovery, LegacyDownload, BandwidthScheduler, WellFoundedInduction,
        SequenceTheorems, FiniteSetTheorems, TLAPS

-----------------------------------------------------------------------------
(* Natural numbers                                                         *)

\* A non-empty set of naturals has a least element.
LEMMA LeastElement ==
    ASSUME NEW S \in SUBSET Nat, S # {}
    PROVE  \E n \in S : \A m \in S : n <= m
<1> DEFINE R == OpToRel(<, Nat)
<1>1. IsWellFoundedOn(R, Nat)
    BY NatLessThanWellFounded, Zenon
<1>2. \A x, y \in Nat : << y, x >> \in R <=> y < x
    BY Zenon DEF OpToRel
<1> HIDE DEF R
<1>3. PICK x \in S : \A y \in S : << y, x >> \notin R
    BY <1>1, WFMin
<1>4. \A y \in S : ~(y < x)
    BY <1>2, <1>3
<1>. QED BY <1>4

\* Induction, for a property written as the set of the naturals that have it.
LEMMA SetInduction ==
    ASSUME NEW P, 0 \in P, \A n \in Nat : n \in P => n + 1 \in P
    PROVE  Nat \subseteq P
<1> DEFINE Rest == Nat \ P
<1> SUFFICES ASSUME Rest # {} PROVE FALSE
    OBVIOUS
<1>1. PICK n \in Rest : \A m \in Rest : n <= m
    BY LeastElement
<1>2. n # 0 /\ n - 1 \in Nat /\ n - 1 \notin Rest
    BY <1>1
<1>3. n - 1 + 1 \in P
    BY <1>2
<1>. QED BY <1>1, <1>3

\* A non-empty set of indices has a greatest.
LEMMA GreatestIndex ==
    ASSUME NEW n \in Nat, NEW s \in SUBSET (1 .. n), s # {}
    PROVE  Max(s) \in s /\ \A i \in s : i <= Max(s)
<1> DEFINE R == {n - i : i \in s}
<1>1. R \in SUBSET Nat /\ R # {}
    <2>1. \A i \in s : n - i \in Nat
        OBVIOUS
    <2>. QED BY <2>1
<1>2. PICK r \in R : \A m \in R : r <= m
    BY <1>1, LeastElement
<1>3. PICK x \in s : r = n - x
    BY <1>2
<1>4. \A i \in s : x >= i
    <2>1. ASSUME NEW i \in s PROVE x >= i
        <3>1. n - i \in R
            OBVIOUS
        <3>. QED BY <1>2, <1>3, <3>1
    <2>. QED BY <2>1
<1>5. Max(s) \in s /\ \A i \in s : Max(s) >= i
    BY <1>4 DEF Max
<1>. QED BY <1>5

-----------------------------------------------------------------------------
(* What a fold over a list keeps                                           *)

\* The table that FoldLeft computes Fresh from: what is kept of a list, for every
\* set of its indices.
Keep(known, kept, m) == IF m \in known \union ToSet(kept) THEN kept ELSE Append(kept, m)
KeptFrom(list, known, table, indices) ==
    [s \in SUBSET indices |->
        IF s = {} THEN << >> ELSE Keep(known, table[s \ {Max(s)}], list[Max(s)])]
Kept(list, known) == CHOOSE table : table = KeptFrom(list, known, table, DOMAIN list)

\* Fresh is the entry of that table for all indices of the list.
LEMMA FreshIsKept == \A list, known : Fresh(list, known) = Kept(list, known)[DOMAIN list]
BY DEF Fresh, FoldLeft, MapThenFoldSet, Kept, KeptFrom, Keep

\* There is such a table: each number of indices extends the one before.
LEMMA KeptExists ==
    ASSUME NEW list, NEW known, NEW n \in Nat
    PROVE  \E table : table = KeptFrom(list, known, table, 1 .. n)
<1> DEFINE P == {k \in Nat : \E table : table = KeptFrom(list, known, table, 1 .. k)}
<1>1. 0 \in P
    <2>1. SUBSET (1 .. 0) = {{}}
        OBVIOUS
    <2> DEFINE t == [s \in SUBSET (1 .. 0) |-> << >>]
    <2>2. t = KeptFrom(list, known, t, 1 .. 0)
        BY <2>1 DEF KeptFrom
    <2>. QED BY <2>2
<1>2. ASSUME NEW k \in Nat, k \in P PROVE k + 1 \in P
    <2>1. PICK t : t = KeptFrom(list, known, t, 1 .. k)
        BY <1>2
    <2> DEFINE u == KeptFrom(list, known, t, 1 .. k + 1)
    <2>2. ASSUME NEW s \in SUBSET (1 .. k + 1), s # {} PROVE s \ {Max(s)} \in SUBSET (1 .. k)
        <3>1. Max(s) \in s /\ \A i \in s : i <= Max(s)
            <4>1. k + 1 \in Nat
                OBVIOUS
            <4>. QED BY <2>2, <4>1, GreatestIndex
        <3>2. ASSUME NEW i \in s, i # Max(s) PROVE i \in 1 .. k
            <4>1. i \in 1 .. k + 1 /\ Max(s) \in 1 .. k + 1
                BY <3>1
            <4> DEFINE m == Max(s)
            <4>2. i <= m /\ i # m /\ m \in 1 .. k + 1
                BY <3>1, <3>2, <4>1
            <4> HIDE DEF m
            <4>. QED BY <4>1, <4>2
        <3>. QED BY <3>2
    <2>3. ASSUME NEW s \in SUBSET (1 .. k) PROVE u[s] = t[s]
        <3>0. 1 .. k \subseteq 1 .. k + 1
            OBVIOUS
        <3>1. s \in SUBSET (1 .. k + 1)
            BY <3>0
        <3>2. t[s] = IF s = {} THEN << >> ELSE Keep(known, t[s \ {Max(s)}], list[Max(s)])
            BY <2>1 DEF KeptFrom
        <3>3. u[s] = IF s = {} THEN << >> ELSE Keep(known, t[s \ {Max(s)}], list[Max(s)])
            BY <3>1 DEF KeptFrom
        <3>. QED BY <3>2, <3>3
    <2>4. u = KeptFrom(list, known, u, 1 .. k + 1)
        <3>1. ASSUME NEW s \in SUBSET (1 .. k + 1), s # {}
              PROVE  t[s \ {Max(s)}] = u[s \ {Max(s)}]
            BY <2>2, <2>3, <3>1
        <3> HIDE DEF u
        <3>2. KeptFrom(list, known, t, 1 .. k + 1) = KeptFrom(list, known, u, 1 .. k + 1)
            BY <3>1 DEF KeptFrom
        <3>. QED BY <3>2 DEF u
    <2>. QED BY <2>4
<1> HIDE DEF P
<1>3. n \in P
    BY <1>1, <1>2, SetInduction
<1>. QED BY <1>3 DEF P

\* So the table is what its definition says of it.
LEMMA KeptRecursion ==
    ASSUME NEW S, NEW list \in Seq(S), NEW known
    PROVE  /\ Kept(list, known)[{}] = << >>
           /\ \A k \in 0 .. Len(list) - 1 :
                Kept(list, known)[1 .. k + 1] = Keep(known, Kept(list, known)[1 .. k], list[k + 1])
<1>1. DOMAIN list = 1 .. Len(list) /\ Len(list) \in Nat
    OBVIOUS
<1> DEFINE t == Kept(list, known)
<1>2. t = KeptFrom(list, known, t, DOMAIN list)
    <2>1. \E table : table = KeptFrom(list, known, table, 1 .. Len(list))
        BY <1>1, KeptExists
    <2>. QED BY <1>1, <2>1 DEF Kept
<1> HIDE DEF t
<1>3. t[{}] = << >>
    BY <1>2 DEF KeptFrom
<1>4. ASSUME NEW k \in 0 .. Len(list) - 1 PROVE t[1 .. k + 1] = Keep(known, t[1 .. k], list[k + 1])
    <2>1. 1 .. k + 1 \in SUBSET (1 .. Len(list)) /\ k + 1 \in 1 .. k + 1 /\ k + 1 \in Nat
        BY <1>1
    <2>2. Max(1 .. k + 1) = k + 1 
        <3>1. Max(1 .. k + 1) \in 1 .. k + 1 /\ \A i \in 1 .. k + 1 : i <= Max(1 .. k + 1)
            BY <1>1, <2>1, GreatestIndex
        <3>. QED BY <3>1
    <2>3. (1 .. k + 1) \ {k + 1} = 1 .. k
        OBVIOUS
    <2>4. t[1 .. k + 1] = Keep(known, t[(1 .. k + 1) \ {Max(1 .. k + 1)}], list[Max(1 .. k + 1)])
        BY <1>1, <1>2, <2>1 DEF KeptFrom
    <2>. QED BY <2>2, <2>3, <2>4
<1>. QED BY <1>3, <1>4 DEF t

\* Exactly what is not known yet is let through, each element once.
LEMMA FreshOnce ==
    ASSUME NEW S, NEW list \in Seq(S), NEW known
    PROVE  /\ Fresh(list, known) \in Seq(S)
           /\ ToSet(Fresh(list, known)) = ToSet(list) \ known
           /\ \A i, j \in DOMAIN Fresh(list, known) :
                Fresh(list, known)[i] = Fresh(list, known)[j] => i = j
<1>0. DOMAIN list = 1 .. Len(list) /\ Len(list) \in Nat /\ \A i \in 1 .. Len(list) : list[i] \in S
    OBVIOUS
<1> DEFINE t == Kept(list, known)
           Good(r, k) == /\ r \in Seq(S)
                         /\ ToSet(r) = {list[i] : i \in 1 .. k} \ known
                         /\ \A i, j \in DOMAIN r : r[i] = r[j] => i = j
           P == {k \in Nat : k <= Len(list) => Good(t[1 .. k], k)}
<1>1. 0 \in P
    <2>1. 1 .. 0 = {}
        OBVIOUS
    <2>2. t[1 .. 0] = << >>
        BY <2>1, KeptRecursion
    <2> HIDE DEF t
    <2>3. Good(t[1 .. 0], 0)
        BY <2>1, <2>2 DEF ToSet
    <2>. QED BY <2>3
<1>2. ASSUME NEW k \in Nat, k \in P PROVE k + 1 \in P
    <2> SUFFICES ASSUME k + 1 <= Len(list) PROVE Good(t[1 .. k + 1], k + 1)
        OBVIOUS
    <2>1. t[1 .. k + 1] = Keep(known, t[1 .. k], list[k + 1])
        BY <1>0, KeptRecursion
    <2>2. Good(t[1 .. k], k)
        BY <1>0, <1>2
    <2> DEFINE r == t[1 .. k]
               m == list[k + 1]
    <2>3. {list[i] : i \in 1 .. k + 1} = {list[i] : i \in 1 .. k} \union {m}
        OBVIOUS
    <2>4. m \in S
        BY <1>0
    <2> HIDE DEF t, r, m
    <2>5. Good(r, k) /\ t[1 .. k + 1] = Keep(known, r, m)
        BY <2>1, <2>2 DEF r, m
    <2>6. CASE m \in known \union ToSet(r)
        BY <2>3, <2>5, <2>6 DEF Keep
    <2>7. CASE m \notin known \union ToSet(r)
        <3>1. t[1 .. k + 1] = Append(r, m)
            BY <2>5, <2>7 DEF Keep
        <3>2. /\ Append(r, m) \in Seq(S) /\ DOMAIN Append(r, m) = 1 .. Len(r) + 1 /\ Len(r) \in Nat
              /\ DOMAIN r = 1 .. Len(r)
              /\ \A i \in 1 .. Len(r) : Append(r, m)[i] = r[i]
              /\ Append(r, m)[Len(r) + 1] = m
            BY <2>4, <2>5
        <3>3. ToSet(Append(r, m)) = ToSet(r) \union {m}
            BY <3>2 DEF ToSet
        <3>4. ASSUME NEW i \in 1 .. Len(r) + 1, NEW j \in 1 .. Len(r) + 1, Append(r, m)[i] = Append(r, m)[j]
              PROVE  i = j
            BY <2>5, <2>7, <3>2, <3>4 DEF ToSet
        <3>5. Good(Append(r, m), k + 1)
            BY <2>3, <2>5, <2>7, <3>2, <3>3, <3>4
        <3>. QED BY <3>1, <3>5
    <2>. QED BY <2>6, <2>7
<1> HIDE DEF P
<1>3. Len(list) \in P
    BY <1>0, <1>1, <1>2, SetInduction
<1>4. Good(t[DOMAIN list], Len(list))
    BY <1>0, <1>3 DEF P
<1>5. ToSet(list) = {list[i] : i \in 1 .. Len(list)}
    BY <1>0 DEF ToSet
<1>. QED BY <1>4, <1>5, FreshIsKept
-----------------------------------------------------------------------------
(* What is joined from a list of lists                                     *)

\* The table that FlattenSeq computes: the first lists, joined.
Joined(lists, table, n) ==
    [i \in 1 .. n |-> IF i = 1 THEN lists[i] ELSE table[i - 1] \o lists[i]]

\* There is such a table: each number of lists extends the one before.
LEMMA JoinedExists ==
    ASSUME NEW lists, NEW n \in Nat
    PROVE  \E table : table = Joined(lists, table, n)
<1> DEFINE P == {k \in Nat : \E table : table = Joined(lists, table, k)}
<1>1. 0 \in P
    <2>1. Joined(lists, << >>, 0) = [i \in {} |-> 0]
        BY DEF Joined
    <2>2. Joined(lists, Joined(lists, << >>, 0), 0) = [i \in {} |-> 0]
        BY DEF Joined
    <2>. QED BY <2>1, <2>2
<1>2. ASSUME NEW k \in Nat, k \in P PROVE k + 1 \in P
    <2>1. PICK f : f = Joined(lists, f, k)
        BY <1>2
    <2> DEFINE g == Joined(lists, f, k + 1)
    <2>2. \A i \in 1 .. k : i \in 1 .. k + 1
        OBVIOUS
    <2>3. ASSUME NEW i \in 1 .. k PROVE g[i] = f[i]
        <3>1. f[i] = IF i = 1 THEN lists[i] ELSE f[i - 1] \o lists[i]
            BY <2>1 DEF Joined
        <3>2. g[i] = IF i = 1 THEN lists[i] ELSE f[i - 1] \o lists[i]
            BY <2>2 DEF Joined
        <3>. QED BY <3>1, <3>2
    <2>4. \A i \in 1 .. k + 1 : i # 1 => i - 1 \in 1 .. k
        OBVIOUS
    <2> HIDE DEF g
    <2>5. Joined(lists, f, k + 1) = Joined(lists, g, k + 1)
        BY <2>3, <2>4 DEF Joined
    <2>6. g = Joined(lists, g, k + 1)
        BY <2>5 DEF g
    <2>. QED BY <2>6
<1> HIDE DEF P
<1>3. n \in P
    BY <1>1, <1>2, SetInduction
<1>. QED BY <1>3 DEF P

\* What the rules make of a URL is one list.
LEMMA FlattenIsSequence ==
    ASSUME NEW S, NEW lists \in Seq(Seq(S))
    PROVE  FlattenSeq(lists) \in Seq(S)
<1>0. /\ Len(lists) \in Nat /\ \A i \in 1 .. Len(lists) : lists[i] \in Seq(S)
      /\ Len(lists) = 0 => lists = << >>
    OBVIOUS
<1>1. CASE Len(lists) = 0
    BY <1>0, <1>1 DEF FlattenSeq
<1>2. CASE Len(lists) # 0
    <2> DEFINE n == Len(lists)
               f == CHOOSE table : table = Joined(lists, table, n)
               P == {k \in Nat : k + 1 <= n => f[k + 1] \in Seq(S)}
    <2>1. f = Joined(lists, f, n)
        BY <1>0, JoinedExists
    <2>2. FlattenSeq(lists) = f[n]
        BY <1>2 DEF FlattenSeq, Joined
    <2> HIDE DEF f
    <2>3. ASSUME NEW i \in 1 .. n PROVE f[i] = IF i = 1 THEN lists[i] ELSE f[i - 1] \o lists[i]
        BY <2>1 DEF Joined
    <2>4. 0 \in P
        BY <1>0, <2>3
    <2>5. ASSUME NEW k \in Nat, k \in P PROVE k + 1 \in P
        <3> SUFFICES ASSUME k + 1 + 1 <= n PROVE f[k + 1 + 1] \in Seq(S)
            OBVIOUS
        <3>1. k + 1 + 1 \in 1 .. n /\ k + 1 + 1 # 1 /\ k + 1 + 1 - 1 = k + 1 /\ k + 1 <= n
            BY <1>0
        <3>2. f[k + 1 + 1] = f[k + 1] \o lists[k + 1 + 1]
            <4> DEFINE i == k + 1 + 1
            <4>1. i \in 1 .. n /\ i # 1 /\ i - 1 = k + 1
                BY <3>1
            <4> HIDE DEF i
            <4>2. f[i] = f[k + 1] \o lists[i]
                BY <2>3, <4>1
            <4>. QED BY <4>2 DEF i
        <3>3. f[k + 1] \in Seq(S) /\ lists[k + 1 + 1] \in Seq(S)
            BY <1>0, <2>5, <3>1
        <3>. QED BY <3>2, <3>3
    <2> HIDE DEF P
    <2>6. n - 1 \in Nat /\ n - 1 + 1 = n
        BY <1>0, <1>2
    <2>7. n - 1 \in P
        BY <2>4, <2>5, <2>6, SetInduction
    <2>. QED BY <2>2, <2>6, <2>7 DEF P
<1>. QED BY <1>1, <1>2

-----------------------------------------------------------------------------
(* Discoverers of mirrors                                                  *)

\* What a discoverer of mirrors remembers it has returned once.
MirrorInv ==
    /\ rewrites \in Seq(RewriteSet)
    /\ remembered = [k \in Remembering |-> remembered[k]]
    /\ handed = [k \in Remembering |-> handed[k]]
    /\ EachMirrorOnce

\* A list that goes through the locked part of a discoverer, whatever is in it.
LEMMA HandOutOnce ==
    ASSUME MirrorInv, NEW kind \in Remembering, NEW S, NEW list \in Seq(S), HandOut(kind, list),
           rewrites' = rewrites
    PROVE  MirrorInv'
<1> DEFINE new == Fresh(list, remembered[kind])
           times(m) == Cardinality({i \in DOMAIN new : new[i] = m})
<1>1. /\ ToSet(new) \intersect remembered[kind] = {}
      /\ \A i, j \in DOMAIN new : new[i] = new[j] => i = j
    BY FreshOnce
<1>2. /\ remembered' = [remembered EXCEPT ![kind] = @ \union ToSet(new)]
      /\ handed' = [handed EXCEPT ![kind] =
           [m \in DOMAIN @ \union ToSet(new) |->
              (IF m \in DOMAIN @ THEN @[m] ELSE 0) + times(m)]]
    BY DEF HandOut
<1> HIDE DEF new
<1>3. ASSUME NEW m \in ToSet(new) PROVE times(m) = 1
    <2>1. PICK i \in DOMAIN new : new[i] = m
        BY DEF ToSet
    <2>2. {j \in DOMAIN new : new[j] = m} = {i}
        BY <1>1, <2>1
    <2>. QED BY <2>2, FS_Singleton
<1>4. ASSUME NEW m, m \notin ToSet(new) PROVE times(m) = 0
    <2>1. {j \in DOMAIN new : new[j] = m} = {}
        BY <1>4 DEF ToSet
    <2>. QED BY <2>1, FS_EmptySet
<1> HIDE DEF times
<1>5. /\ DOMAIN handed[kind] = remembered[kind]
      /\ \A m \in remembered[kind] : handed[kind][m] = 1
    BY DEF MirrorInv, EachMirrorOnce
<1>6. /\ remembered'[kind] = remembered[kind] \union ToSet(new)
      /\ handed'[kind] = [m \in remembered[kind] \union ToSet(new) |->
            (IF m \in remembered[kind] THEN handed[kind][m] ELSE 0) + times(m)]
      /\ \A k \in Remembering \ {kind} : remembered'[k] = remembered[k] /\ handed'[k] = handed[k]
      /\ remembered' = [k \in Remembering |-> remembered'[k]]
      /\ handed' = [k \in Remembering |-> handed'[k]]
    BY <1>2, <1>5 DEF MirrorInv
<1>7. /\ DOMAIN handed'[kind] = remembered'[kind]
      /\ \A m \in remembered'[kind] : handed'[kind][m] = 1
    <2> SUFFICES ASSUME NEW m \in remembered'[kind] PROVE handed'[kind][m] = 1
        BY <1>6
    <2>1. CASE m \in ToSet(new)
        BY <1>1, <1>3, <1>6, <2>1
    <2>2. CASE m \notin ToSet(new)
        BY <1>4, <1>5, <1>6, <2>2
    <2>. QED BY <2>1, <2>2
<1>8. EachMirrorOnce'
    <2>1. ASSUME NEW k \in Remembering
          PROVE  /\ DOMAIN handed'[k] = remembered'[k]
                 /\ \A m \in remembered'[k] : handed'[k][m] = 1
        <3>1. CASE k = kind
            BY <1>7, <3>1, Zenon
        <3>2. CASE k # kind
            <4>1. remembered'[k] = remembered[k] /\ handed'[k] = handed[k]
                BY <1>6, <3>2, Zenon
            <4>2. /\ DOMAIN handed[k] = remembered[k]
                  /\ \A m \in remembered[k] : handed[k][m] = 1
                BY Zenon DEF MirrorInv, EachMirrorOnce
            <4>. QED BY <4>1, <4>2
        <3>. QED BY <3>1, <3>2
    <2>. QED BY <2>1, Zenon DEF EachMirrorOnce, Remembering
<1>9. (rewrites \in Seq(RewriteSet))'
    BY DEF MirrorInv
<1>. QED BY <1>6, <1>8, <1>9 DEF MirrorInv

\* Nothing is remembered or returned at first.
LEMMA MirrorInitially == MirrorInit => MirrorInv
BY MirrorAssumption DEF MirrorInit, MirrorInv, EachMirrorOnce, Remembering

\* No other step touches what is remembered or was returned.
LEMMA MirrorStep ==
    ASSUME MirrorInv, [MirrorNext]_mirrorVars
    PROVE  MirrorInv'
<1>1. CASE UNCHANGED << rewrites, remembered, handed >>
    BY <1>1 DEF MirrorInv, EachMirrorOnce
<1>2. ASSUME NEW rule \in RewriteSet, AddRewriteRule(rule) PROVE MirrorInv'
    BY <1>2 DEF AddRewriteRule, MirrorInv, EachMirrorOnce
<1>3. ASSUME NEW u \in Url, DiscoverByRewriting(u) PROVE MirrorInv'
    <2> DEFINE S == Url \X UNION {ToSet(rule.prefixes) : rule \in RewriteSet}
               lists == [i \in DOMAIN rewrites |-> Rewritten(rewrites[i], u)]
    <2>1. ASSUME NEW rule \in RewriteSet PROVE Rewritten(rule, u) \in Seq(S)
        <3>1. rule.prefixes \in Seq(ToSet(rule.prefixes))
            BY MirrorAssumption
        <3> DEFINE p == rule.prefixes
        <3>2. DOMAIN p = 1 .. Len(p) /\ Len(p) \in Nat /\ \A i \in DOMAIN p : << u, p[i] >> \in S
            BY <3>1 DEF ToSet
        <3> HIDE DEF p, S
        <3>3. [i \in DOMAIN p |-> << u, p[i] >>] \in Seq(S)
            BY <3>2
        <3>. QED BY <3>3 DEF Rewritten, p
    <2> HIDE DEF S
    <2>2. lists \in Seq(Seq(S))
        <3>1. /\ Len(rewrites) \in Nat /\ DOMAIN rewrites = 1 .. Len(rewrites)
              /\ \A i \in 1 .. Len(rewrites) : rewrites[i] \in RewriteSet
            BY DEF MirrorInv
        <3>2. \A i \in 1 .. Len(rewrites) : Rewritten(rewrites[i], u) \in Seq(S)
            BY <2>1, <3>1
        <3> DEFINE n == Len(rewrites)
                   T == Seq(S)
        <3> HIDE DEF n, T
        <3>3. [i \in 1 .. n |-> Rewritten(rewrites[i], u)] \in Seq(T)
            BY <3>1, <3>2 DEF n, T
        <3>. QED BY <3>1, <3>3 DEF n, T
    <2>3. FlattenSeq(lists) \in Seq(S)
        BY <2>2, FlattenIsSequence
    <2>4. HandOut("rewrite", FlattenSeq(lists)) /\ rewrites' = rewrites
        BY <1>3 DEF DiscoverByRewriting
    <2>. QED BY <2>3, <2>4, HandOutOnce DEF Remembering
<1>4. ASSUME NEW d \in Discovery, NEW n \in 0 .. MaxIps, NEW ips \in [1 .. n -> Ip], Resolved(d, ips)
      PROVE  MirrorInv'
    <2>1. CASE Len(ips) <= 1
        BY <1>1, <1>4, <2>1 DEF Resolved
    <2>2. CASE ~(Len(ips) <= 1)
        <3>1. [i \in DOMAIN ips |-> << call[d].url, ips[i] >>] \in Seq({call[d].url} \X Ip)
            BY MirrorAssumption
        <3>. QED BY <1>4, <2>2, <3>1, HandOutOnce DEF Resolved, Remembering
    <2>. QED BY <2>1, <2>2
<1>5. ASSUME NEW d \in Discovery, NEW u \in Url, Resolve(d, u) \/ LookUp(d, u) \/ DiscoverByRules(d, u)
      PROVE  MirrorInv'
    BY <1>1, <1>5 DEF Resolve, LookUp, DiscoverByRules
<1>6. ASSUME NEW d \in Discovery, NEW n \in 0 .. MaxIps, NEW ips \in [1 .. n -> Ip], LookedUp(d, ips)
      PROVE  MirrorInv'
    BY <1>1, <1>6 DEF LookedUp
<1>7. ASSUME NEW d \in Discovery, NEW available \in BOOLEAN, CheckMirror(d, available) PROVE MirrorInv'
    BY <1>1, <1>7 DEF CheckMirror
<1>8. ASSUME NEW d \in Discovery, CheckedAll(d) \/ LetGo(d) PROVE MirrorInv'
    BY <1>1, <1>8 DEF CheckedAll, LetGo
<1>9. ASSUME NEW config \in ConfigSet, AddRule(config) PROVE MirrorInv'
    BY <1>1, <1>9 DEF AddRule
<1>10. CASE UNCHANGED mirrorVars
    BY <1>1, <1>10 DEF mirrorVars
<1>. QED BY <1>2, <1>3, <1>4, <1>5, <1>6, <1>7, <1>8, <1>9, <1>10 DEF MirrorNext

\* EachMirrorOnce, for every set of rules, URLs, addresses and calls.
THEOREM MirrorsAreHandedOnce == MirrorSpec => []EachMirrorOnce
<1>1. MirrorInv => EachMirrorOnce
    BY DEF MirrorInv
<1>. QED BY <1>1, MirrorInitially, MirrorStep, PTL DEF MirrorSpec

-----------------------------------------------------------------------------
(* The sources of the legacy strategy                                      *)

\* No source is there twice.
Distinct(s) == \A i, j \in DOMAIN s : s[i] = s[j] => i = j

Source == Mirror \union {Impostor}

\* While sources are collected and verified they are each there once, in one of
\* the two lists; what was found is new, for the copy of the original is a
\* source that no discoverer has or the first one that was seen.
LegacyInv ==
    /\ http \in BOOLEAN
    /\ found \in Seq(Source) /\ verified \in Seq(Source) /\ seen \subseteq Mirror
    /\ lpc \in {"probe", "collect", "verify", "open", "report", "loop", "failed"}
    /\ lpc = "probe" => verified = << >>
    /\ lpc \in {"collect", "verify"} =>
         /\ Original \in seen /\ ToSet(found) \subseteq seen \union {Copy}
         /\ Distinct(found) /\ Distinct(verified)
         /\ ToSet(found) \intersect ToSet(verified) = {}
         /\ ToSet(verified) \subseteq checkedOut
    /\ lpc = "collect" => verified = << >>
    /\ lpc \in {"open", "report", "loop"} =>
         /\ verified # << >> /\ Distinct(verified)
         /\ ToSet(verified) \subseteq checkedOut \/ verified = << Copy >>

\* seen.insert lets the same through as the discoverers of mirrors.
LEMMA NewIsFresh == \A list, known : New(list, known) = Fresh(list, known)
BY DEF New, Fresh

\* A list without duplicates has as many elements as places.
LEMMA DistinctIsCounted ==
    ASSUME NEW S, NEW s \in Seq(S), Distinct(s)
    PROVE  Cardinality(ToSet(s)) = Len(s)
<1>1. Len(s) \in Nat /\ DOMAIN s = 1 .. Len(s) /\ s = [i \in 1 .. Len(s) |-> s[i]]
    OBVIOUS
<1>2. s \in Bijection(1 .. Len(s), ToSet(s))
    BY <1>1 DEF Bijection, Injection, Surjection, IsInjective, Distinct, ToSet
<1>. QED BY <1>1, <1>2, FS_CountingElements DEF ExistsBijection

\* An element that is not there yet, at the end of a list without duplicates.
LEMMA AppendDistinct ==
    ASSUME NEW S, NEW s \in Seq(S), NEW m \in S, Distinct(s), m \notin ToSet(s)
    PROVE  /\ Append(s, m) \in Seq(S) /\ Distinct(Append(s, m))
           /\ ToSet(Append(s, m)) = ToSet(s) \union {m}
<1>1. /\ Append(s, m) \in Seq(S) /\ DOMAIN Append(s, m) = 1 .. Len(s) + 1 /\ Len(s) \in Nat
      /\ DOMAIN s = 1 .. Len(s)
      /\ \A i \in 1 .. Len(s) : Append(s, m)[i] = s[i]
      /\ Append(s, m)[Len(s) + 1] = m
    OBVIOUS
<1>2. ToSet(Append(s, m)) = ToSet(s) \union {m}
    BY <1>1 DEF ToSet
<1>3. Distinct(Append(s, m))
    BY <1>1 DEF Distinct, ToSet
<1>. QED BY <1>1, <1>2, <1>3

\* A list without duplicates, without its first element.
LEMMA TailDistinct ==
    ASSUME NEW S, NEW s \in Seq(S), s # << >>, Distinct(s)
    PROVE  /\ Tail(s) \in Seq(S) /\ Distinct(Tail(s)) /\ Head(s) \in S /\ Head(s) \in ToSet(s)
           /\ ToSet(Tail(s)) = ToSet(s) \ {Head(s)}
<1>1. /\ Tail(s) \in Seq(S) /\ Len(s) \in Nat \ {0} /\ DOMAIN s = 1 .. Len(s)
      /\ DOMAIN Tail(s) = 1 .. Len(s) - 1
      /\ \A i \in 1 .. Len(s) - 1 : Tail(s)[i] = s[i + 1]
      /\ Head(s) = s[1] /\ s[1] \in S
    OBVIOUS
<1>2. Distinct(Tail(s))
    BY <1>1 DEF Distinct
<1>3. ToSet(Tail(s)) = ToSet(s) \ {Head(s)}
    <2>1. ASSUME NEW i \in 1 .. Len(s), i # 1 PROVE i - 1 \in 1 .. Len(s) - 1 /\ Tail(s)[i - 1] = s[i]
        <3>1. i - 1 \in 1 .. Len(s) - 1 /\ i - 1 + 1 = i
            BY <1>1, <2>1
        <3>. QED BY <1>1, <3>1
    <2>2. ASSUME NEW i \in 1 .. Len(s) - 1 PROVE i + 1 \in 1 .. Len(s) /\ s[i + 1] # s[1]
        BY <1>1 DEF Distinct
    <2>3. ASSUME NEW x \in ToSet(Tail(s)) PROVE x \in ToSet(s) \ {Head(s)}
        <3>1. PICK i \in 1 .. Len(s) - 1 : Tail(s)[i] = x
            BY <1>1 DEF ToSet
        <3>. QED BY <1>1, <2>2, <3>1 DEF ToSet
    <2>4. ASSUME NEW x \in ToSet(s) \ {Head(s)} PROVE x \in ToSet(Tail(s))
        <3>1. PICK i \in 1 .. Len(s) : s[i] = x
            BY <1>1 DEF ToSet
        <3>2. i # 1
            BY <1>1, <3>1
        <3>. QED BY <1>1, <2>1, <3>1, <3>2 DEF ToSet
    <2>. QED BY <2>3, <2>4
<1>. QED BY <1>1, <1>2, <1>3 DEF ToSet

\* Two lists without duplicates that share nothing, one after the other.
LEMMA JoinDistinct ==
    ASSUME NEW S, NEW s \in Seq(S), NEW t \in Seq(S), Distinct(s), Distinct(t),
           ToSet(s) \intersect ToSet(t) = {}
    PROVE  s \o t \in Seq(S) /\ Distinct(s \o t) /\ ToSet(s \o t) = ToSet(s) \union ToSet(t)
<1>1. /\ s \o t \in Seq(S) /\ Len(s) \in Nat /\ Len(t) \in Nat /\ DOMAIN s = 1 .. Len(s) /\ DOMAIN t = 1 .. Len(t)
      /\ DOMAIN (s \o t) = 1 .. Len(s) + Len(t)
      /\ \A i \in 1 .. Len(s) : (s \o t)[i] = s[i]
      /\ \A i \in Len(s) + 1 .. Len(s) + Len(t) : (s \o t)[i] = t[i - Len(s)]
    OBVIOUS
<1> DEFINE u == s \o t
<1> HIDE DEF u
<1>2. ASSUME NEW i \in 1 .. Len(s) + Len(t)
      PROVE  \/ i \in DOMAIN s /\ u[i] = s[i]
             \/ i - Len(s) \in DOMAIN t /\ u[i] = t[i - Len(s)]
    <2>1. CASE i \in 1 .. Len(s)
        BY <1>1, <2>1 DEF u
    <2>2. CASE i \in Len(s) + 1 .. Len(s) + Len(t)
        <3>1. i - Len(s) \in 1 .. Len(t)
            BY <1>1, <2>2
        <3>. QED BY <1>1, <2>2, <3>1 DEF u
    <2>. QED BY <1>1, <2>1, <2>2
<1>3. ASSUME NEW i \in 1 .. Len(s) + Len(t), NEW j \in 1 .. Len(s) + Len(t), u[i] = u[j]
      PROVE  i = j
    <2>1. \A k \in DOMAIN s : s[k] \in ToSet(s)
        BY DEF ToSet
    <2>2. \A k \in DOMAIN t : t[k] \in ToSet(t)
        BY DEF ToSet
    <2>3. \/ i \in DOMAIN s /\ u[i] = s[i]
          \/ i - Len(s) \in DOMAIN t /\ u[i] = t[i - Len(s)]
        BY <1>2
    <2>4. \/ j \in DOMAIN s /\ u[j] = s[j]
          \/ j - Len(s) \in DOMAIN t /\ u[j] = t[j - Len(s)]
        BY <1>2
    <2>5. CASE i \in DOMAIN s /\ u[i] = s[i] /\ j \in DOMAIN s /\ u[j] = s[j]
        BY <1>3, <2>5 DEF Distinct
    <2>6. CASE /\ i - Len(s) \in DOMAIN t /\ u[i] = t[i - Len(s)]
               /\ j - Len(s) \in DOMAIN t /\ u[j] = t[j - Len(s)]
        <3>1. i - Len(s) = j - Len(s)
            BY <1>3, <2>6 DEF Distinct
        <3>. QED BY <1>1, <3>1
    <2>. QED BY <1>3, <2>1, <2>2, <2>3, <2>4, <2>5, <2>6
<1>4. ASSUME NEW i \in DOMAIN t PROVE i + Len(s) \in DOMAIN u /\ u[i + Len(s)] = t[i]
    <2>1. /\ i + Len(s) \in Len(s) + 1 .. Len(s) + Len(t) /\ i + Len(s) - Len(s) = i
          /\ i + Len(s) \in 1 .. Len(s) + Len(t)
        BY <1>1
    <2>. QED BY <1>1, <2>1 DEF u
<1>5. ASSUME NEW i \in DOMAIN s PROVE i \in DOMAIN u /\ u[i] = s[i]
    BY <1>1 DEF u
<1>6. ToSet(u) = ToSet(s) \union ToSet(t)
    <2>1. ASSUME NEW x \in ToSet(u) PROVE x \in ToSet(s) \union ToSet(t)
        <3>1. PICK i \in 1 .. Len(s) + Len(t) : u[i] = x
            BY <1>1 DEF ToSet, u
        <3>. QED BY <1>2, <3>1 DEF ToSet
    <2>2. ASSUME NEW x \in ToSet(s) PROVE x \in ToSet(u)
        BY <1>5 DEF ToSet
    <2>3. ASSUME NEW x \in ToSet(t) PROVE x \in ToSet(u)
        BY <1>4 DEF ToSet
    <2>. QED BY <2>1, <2>2, <2>3
<1>7. Distinct(u)
    BY <1>1, <1>3 DEF Distinct, u
<1>. QED BY <1>1, <1>6, <1>7 DEF u

\* Lists of one element and of none.
LEMMA SingleDistinct == \A m : Distinct(<< m >>) /\ ToSet(<< m >>) = {m}
BY DEF Distinct, ToSet

LEMMA EmptyDistinct == Distinct(<< >>) /\ ToSet(<< >>) = {}
BY DEF Distinct, ToSet

\* The lists are empty at first.
LEMMA LegacyInitially == LegacyInit => LegacyInv
BY DEF LegacyInit, LegacyInv

\* Collecting, verifying and choosing keep it.
LEMMA LegacyStep ==
    ASSUME LegacyInv, [LegacyNext]_legacyVars
    PROVE  LegacyInv'
<1>0. /\ Copy \in Source /\ Original \in Mirror /\ Mirror \subseteq Source
      /\ Impostor \notin Mirror /\ (Copy = Original \/ Copy = Impostor)
    BY LegacyAssumption DEF Copy, Source
<1>11. /\ \A m \in Source : << m >> \in Seq(Source) /\ << m >> # << >>
       /\ << >> \in Seq(Source)
    OBVIOUS
<1>1. ASSUME NEW discovery \in BOOLEAN, ProbeOriginal(discovery) PROVE LegacyInv'
    <2>0. verified = << >> /\ http' = http /\ Copy' = Copy /\ http \in BOOLEAN
        BY <1>1 DEF ProbeOriginal, LegacyInv, Copy
    <2>1. CASE discovery
        <3>1. /\ lpc' = "collect" /\ seen' = {Original} /\ found' = << Copy >>
              /\ verified' = verified /\ checkedOut' = checkedOut
            BY <1>1, <2>1 DEF ProbeOriginal
        <3>2. found' \in Seq(Source) /\ Distinct(found') /\ ToSet(found') = {Copy}
            BY <1>0, <1>11, <3>1, SingleDistinct
        <3>3. verified' \in Seq(Source) /\ Distinct(verified') /\ ToSet(verified') = {}
            BY <1>11, <2>0, <3>1, EmptyDistinct
        <3>. QED BY <1>0, <2>0, <3>1, <3>2, <3>3 DEF LegacyInv
    <2>2. CASE ~discovery
        <3>1. /\ lpc' = "open" /\ verified' = << Original >> /\ checkedOut' = {Original}
              /\ seen' = seen /\ found' = found
            BY <1>1, <2>2 DEF ProbeOriginal
        <3>2. /\ verified' \in Seq(Source) /\ Distinct(verified')
              /\ verified' # << >> /\ ToSet(verified') = {Original}
            BY <1>0, <1>11, <3>1, SingleDistinct
        <3>. QED BY <2>0, <3>1, <3>2 DEF LegacyInv
    <2>. QED BY <2>1, <2>2
<1>2. CASE ProbeFails
    BY <1>2 DEF ProbeFails, LegacyInv, mirrors, Copy
<1>3. CASE UNCHANGED << lpc, http, mirrors >>
    BY <1>3 DEF LegacyInv, mirrors, Copy
<1>4. ASSUME NEW list \in Lists, Collect(list) PROVE LegacyInv'
    <2> DEFINE new == New(list, seen)
    <2>1. list \in Seq(Mirror)
        BY LegacyAssumption DEF Lists
    <2>2. /\ new \in Seq(Mirror) /\ ToSet(new) = ToSet(list) \ seen /\ Distinct(new)
        BY <2>1, FreshOnce, NewIsFresh DEF Distinct
    <2>3. ToSet(list) \subseteq Mirror
        BY <2>1 DEF ToSet
    <2> HIDE DEF new
    <2>4. new \in Seq(Source) /\ ToSet(new) \intersect ToSet(found) = {}
        <3>1. new \in Seq(Source)
            BY <1>0, <2>2
        <3>2. ToSet(found) \subseteq seen \union {Copy} /\ Original \in seen
            BY <1>4 DEF LegacyInv, Collect
        <3>. QED BY <1>0, <2>2, <2>3, <3>1, <3>2
    <2>5. /\ found \o new \in Seq(Source) /\ Distinct(found \o new)
          /\ ToSet(found \o new) = ToSet(found) \union ToSet(new)
        <3>1. found \in Seq(Source) /\ Distinct(found)
            BY <1>4 DEF LegacyInv, Collect
        <3>. QED BY <2>2, <2>4, <3>1, JoinDistinct
    <2>6. /\ lpc = "collect" /\ found' = found \o new /\ seen' = seen \union ToSet(list)
          /\ UNCHANGED << lpc, http, registered, verified, checkedOut >>
        BY <1>4 DEF Collect, new
    <2>. QED BY <2>2, <2>3, <2>5, <2>6, EmptyDistinct DEF LegacyInv, Copy
<1>5. CASE Collected
    BY <1>5, EmptyDistinct DEF Collected, LegacyInv, mirrors, Copy
<1>6. ASSUME NEW outcome \in {"expected size", "another size", "failed"}, VerifyMirror(outcome)
      PROVE  LegacyInv'
    <2>1. /\ found \in Seq(Source) /\ found # << >> /\ Distinct(found)
          /\ verified \in Seq(Source) /\ Distinct(verified)
        BY <1>6 DEF VerifyMirror, LegacyInv
    <2>2. /\ Tail(found) \in Seq(Source) /\ Distinct(Tail(found)) /\ Head(found) \in Source
          /\ Head(found) \in ToSet(found) /\ ToSet(Tail(found)) = ToSet(found) \ {Head(found)}
        BY <2>1, TailDistinct
    <2>3. CASE outcome = "expected size"
        <3>1. Head(found) \notin ToSet(verified)
            BY <1>6, <2>2 DEF VerifyMirror, LegacyInv
        <3>2. /\ Append(verified, Head(found)) \in Seq(Source) /\ Distinct(Append(verified, Head(found)))
              /\ ToSet(Append(verified, Head(found))) = ToSet(verified) \union {Head(found)}
            <4> DEFINE m == Head(found)
            <4>1. m \in Source /\ m \notin ToSet(verified)
                BY <2>2, <3>1
            <4> HIDE DEF m
            <4>2. /\ Append(verified, m) \in Seq(Source) /\ Distinct(Append(verified, m))
                  /\ ToSet(Append(verified, m)) = ToSet(verified) \union {m}
                BY <2>1, <4>1, AppendDistinct
            <4>. QED BY <4>2 DEF m
        <3>. QED BY <1>6, <2>2, <2>3, <3>2 DEF VerifyMirror, LegacyInv, Copy
    <2>4. CASE outcome # "expected size"
        BY <1>6, <2>2, <2>4 DEF VerifyMirror, LegacyInv, Copy
    <2>. QED BY <2>3, <2>4
<1>7. CASE Verified
    <2>1. /\ lpc = "verify" /\ lpc' = "open" /\ Copy' = Copy
          /\ verified' = IF verified = << >> THEN << Copy >> ELSE verified
          /\ UNCHANGED << http, registered, seen, found, checkedOut >>
        BY <1>7 DEF Verified, Copy
    <2>2. CASE verified = << >>
        <3>1. verified' = << Copy >> /\ verified' \in Seq(Source) /\ verified' # << >> /\ Distinct(verified')
            BY <1>0, <1>11, <2>1, <2>2, SingleDistinct
        <3>. QED BY <2>1, <3>1 DEF LegacyInv
    <2>3. CASE verified # << >>
        BY <2>1, <2>3 DEF LegacyInv
    <2>. QED BY <2>2, <2>3
<1>8. ASSUME NEW ok \in BOOLEAN, OpenPart(ok) PROVE LegacyInv'
    BY <1>8 DEF OpenPart, LegacyInv, mirrors, Copy
<1>9. CASE FirstReport
    BY <1>9 DEF FirstReport, LegacyInv, mirrors, Copy
<1>10. CASE Register \/ WorkerStarts \/ Report \/ TakeReport \/ UNCHANGED legacyVars
    BY <1>3, <1>10 DEF Register, WorkerStarts, Report, TakeReport, legacyVars
<1>. QED BY <1>1, <1>2, <1>4, <1>5, <1>6, <1>7, <1>8, <1>9, <1>10 DEF LegacyNext

\* StrategyGetsVerified, for every number of discoverers and whatever they find.
THEOREM StrategyIsGivenVerified == LegacySpec => []StrategyGetsVerified
<1>1. LegacyInv => StrategyGetsVerified
    <2> SUFFICES ASSUME LegacyInv, lpc \in {"open", "report", "loop"}
                 PROVE  /\ verified # << >>
                        /\ Cardinality(ToSet(verified)) = Len(verified)
                        /\ ToSet(verified) \subseteq checkedOut \/ verified = << Copy >>
        BY DEF StrategyGetsVerified
    <2>1. verified \in Seq(Source) /\ Distinct(verified)
        BY DEF LegacyInv
    <2>. QED BY <2>1, DistinctIsCounted DEF LegacyInv
<1>. QED BY <1>1, LegacyInitially, LegacyStep, PTL DEF LegacySpec

-----------------------------------------------------------------------------
(* Sums over functions                                                     *)

\* The table that FoldFunction computes: the total over each set of arguments.
Chosen(s) == CHOOSE x \in s : TRUE
TotalsFrom(f, table, sets) ==
    [s \in sets |-> IF s = {} THEN 0 ELSE f[Chosen(s)] + table[s \ {Chosen(s)}]]
Totals(f) == CHOOSE table : table = TotalsFrom(f, table, SUBSET DOMAIN f)
Small(D, n) == {s \in SUBSET D : Cardinality(s) <= n}

\* SumOf is the entry of that table for all arguments.
LEMMA SumIsTotal == \A f : SumOf(f) = Totals(f)[DOMAIN f]
BY DEF SumOf, FoldFunction, FoldFunctionOnSet, MapThenFoldSet, Totals, TotalsFrom, Chosen

\* What is left of a set without the element that is added first.
LEMMA WithoutChosen ==
    ASSUME NEW D, IsFiniteSet(D), NEW s \in SUBSET D, s # {}
    PROVE  /\ Chosen(s) \in s /\ IsFiniteSet(s) /\ Cardinality(s) \in Nat \ {0}
           /\ Cardinality(s \ {Chosen(s)}) = Cardinality(s) - 1
<1>1. Chosen(s) \in s
    BY DEF Chosen
<1>2. IsFiniteSet(s)
    BY FS_Subset
<1>. QED BY <1>1, <1>2, FS_RemoveElement, FS_CardinalityType, FS_EmptySet

\* There is such a table: the sets of one more element extend those before.
LEMMA TotalsExist ==
    ASSUME NEW f, NEW D, IsFiniteSet(D), NEW n \in Nat
    PROVE  \E table : table = TotalsFrom(f, table, Small(D, n))
<1> DEFINE P == {k \in Nat : \E table : table = TotalsFrom(f, table, Small(D, k))}
<1>1. 0 \in P
    <2>1. ASSUME NEW s \in Small(D, 0) PROVE s = {}
        <3>1. Cardinality(s) <= 0 /\ s \in SUBSET D
            BY DEF Small
        <3>2. s # {} => Cardinality(s) \in Nat \ {0}
            BY <3>1, WithoutChosen
        <3>. QED BY <3>1, <3>2
    <2> DEFINE t == [s \in Small(D, 0) |-> 0]
    <2>2. t = TotalsFrom(f, t, Small(D, 0))
        BY <2>1 DEF TotalsFrom
    <2>. QED BY <2>2
<1>2. ASSUME NEW k \in Nat, k \in P PROVE k + 1 \in P
    <2>1. PICK t : t = TotalsFrom(f, t, Small(D, k))
        BY <1>2
    <2> DEFINE u == TotalsFrom(f, t, Small(D, k + 1))
    <2>2. ASSUME NEW s \in Small(D, k + 1), s # {} PROVE s \ {Chosen(s)} \in Small(D, k)
        <3>1. s \in SUBSET D /\ Cardinality(s) <= k + 1
            BY DEF Small
        <3>2. Cardinality(s \ {Chosen(s)}) <= k
            BY <2>2, <3>1, WithoutChosen
        <3>. QED BY <3>1, <3>2 DEF Small
    <2>3. ASSUME NEW s \in Small(D, k) PROVE s \in Small(D, k + 1)
        <3>1. IsFiniteSet(s) /\ Cardinality(s) <= k /\ s \in SUBSET D
            BY FS_Subset DEF Small
        <3>2. Cardinality(s) \in Nat
            BY <3>1, FS_CardinalityType
        <3>. QED BY <3>1, <3>2 DEF Small
    <2>4. ASSUME NEW s \in Small(D, k) PROVE u[s] = t[s]
        <3>1. t[s] = IF s = {} THEN 0 ELSE f[Chosen(s)] + t[s \ {Chosen(s)}]
            BY <2>1 DEF TotalsFrom
        <3>2. u[s] = IF s = {} THEN 0 ELSE f[Chosen(s)] + t[s \ {Chosen(s)}]
            BY <2>3 DEF TotalsFrom
        <3>. QED BY <3>1, <3>2
    <2> HIDE DEF u
    <2>5. ASSUME NEW s \in Small(D, k + 1), s # {} PROVE t[s \ {Chosen(s)}] = u[s \ {Chosen(s)}]
        BY <2>2, <2>4, <2>5
    <2>6. TotalsFrom(f, t, Small(D, k + 1)) = TotalsFrom(f, u, Small(D, k + 1))
        BY <2>5 DEF TotalsFrom
    <2>7. u = TotalsFrom(f, u, Small(D, k + 1))
        BY <2>6 DEF u
    <2>. QED BY <2>7
<1> HIDE DEF P
<1>3. n \in P
    BY <1>1, <1>2, SetInduction
<1>. QED BY <1>3 DEF P

\* So the table is what its definition says of it.
LEMMA TotalsRecursion ==
    ASSUME NEW f, IsFiniteSet(DOMAIN f)
    PROVE  /\ Totals(f)[{}] = 0
           /\ \A s \in SUBSET DOMAIN f : s # {} =>
                Totals(f)[s] = f[Chosen(s)] + Totals(f)[s \ {Chosen(s)}]
<1> DEFINE D == DOMAIN f
           t == Totals(f)
<1>1. Cardinality(D) \in Nat
    BY FS_CardinalityType
<1>2. Small(D, Cardinality(D)) = SUBSET D
    <2>1. ASSUME NEW s \in SUBSET D PROVE Cardinality(s) <= Cardinality(D)
        BY FS_Subset
    <2>. QED BY <2>1 DEF Small
<1>3. \E table : table = TotalsFrom(f, table, SUBSET D)
    BY <1>1, <1>2, TotalsExist
<1>4. t = TotalsFrom(f, t, SUBSET D)
    BY <1>3 DEF Totals
<1> HIDE DEF t
<1>5. t[{}] = 0
    BY <1>4 DEF TotalsFrom
<1>6. ASSUME NEW s \in SUBSET D, s # {} PROVE t[s] = f[Chosen(s)] + t[s \ {Chosen(s)}]
    BY <1>4, <1>6 DEF TotalsFrom
<1>. QED BY <1>5, <1>6 DEF t

\* A product distributes over a sum.
LEMMA Distribute ==
    ASSUME NEW a \in Nat, NEW x \in Nat, NEW y \in Nat
    PROVE  a * (x + y) = a * x + a * y /\ a * x \in Nat /\ a * y \in Nat
OBVIOUS

\* A bound on each value is a bound on the sum.
LEMMA SumBound ==
    ASSUME NEW D, IsFiniteSet(D), NEW f \in [D -> Nat], NEW h \in [D -> Nat],
           NEW a \in Nat, NEW b \in Nat, NEW c \in Nat,
           \A k \in D : a * f[k] <= b + c * h[k]
    PROVE  /\ SumOf(f) \in Nat /\ SumOf(h) \in Nat
           /\ a * SumOf(f) <= b * Cardinality(D) + c * SumOf(h)
<1> DEFINE F == Totals(f)
           H == Totals(h)
           Good(s, n) == F[s] \in Nat /\ H[s] \in Nat /\ a * F[s] <= b * n + c * H[s]
           P == {n \in Nat : \A s \in SUBSET D : Cardinality(s) = n => Good(s, n)}
<1>0. /\ F[{}] = 0 /\ H[{}] = 0
      /\ \A s \in SUBSET D : s # {} => F[s] = f[Chosen(s)] + F[s \ {Chosen(s)}]
      /\ \A s \in SUBSET D : s # {} => H[s] = h[Chosen(s)] + H[s \ {Chosen(s)}]
    BY TotalsRecursion
<1> HIDE DEF F, H
<1>1. 0 \in P
    <2>1. ASSUME NEW s \in SUBSET D, Cardinality(s) = 0 PROVE s = {}
        BY <2>1, WithoutChosen
    <2>2. Good({}, 0)
        BY <1>0
    <2>. QED BY <2>1, <2>2
<1>2. ASSUME NEW n \in Nat, n \in P PROVE n + 1 \in P
    <2> SUFFICES ASSUME NEW s \in SUBSET D, Cardinality(s) = n + 1 PROVE Good(s, n + 1)
        OBVIOUS
    <2>1. s # {}
        <3>1. Cardinality({}) = 0 /\ n + 1 # 0
            BY FS_EmptySet
        <3>. QED BY <3>1
    <2> DEFINE x == Chosen(s)
               r == s \ {x}
    <2>2. x \in D /\ r \in SUBSET D /\ Cardinality(r) = n
        <3>1. x \in s /\ Cardinality(r) = Cardinality(s) - 1
            BY <2>1, WithoutChosen
        <3>2. n + 1 - 1 = n
            OBVIOUS
        <3>. QED BY <3>1, <3>2
    <2>3. Good(r, n)
        BY <1>2, <2>2
    <2>4. F[s] = f[x] + F[r] /\ H[s] = h[x] + H[r]
        BY <1>0, <2>1
    <2>5. f[x] \in Nat /\ h[x] \in Nat /\ a * f[x] <= b + c * h[x]
        BY <2>2
    <2> HIDE DEF x, r
    <2> DEFINE p == f[x]
               q == F[r]
               v == h[x]
               w == H[r]
    <2>6. /\ p \in Nat /\ q \in Nat /\ v \in Nat /\ w \in Nat
          /\ a * p <= b + c * v /\ a * q <= b * n + c * w
        BY <2>3, <2>5
    <2>7. F[s] = p + q /\ H[s] = v + w
        BY <2>4
    <2> HIDE DEF p, q, v, w
    <2>8. /\ a * (p + q) = a * p + a * q /\ c * (v + w) = c * v + c * w /\ b * (n + 1) = b * n + b
          /\ a * p \in Nat /\ a * q \in Nat /\ c * v \in Nat /\ c * w \in Nat /\ b * n \in Nat
        BY <2>6, Distribute
    <2>9. a * (p + q) <= b * (n + 1) + c * (v + w)
        BY <2>6, <2>8
    <2>. QED BY <2>6, <2>7, <2>9
<1> HIDE DEF P
<1>3. Cardinality(D) \in P
    BY <1>1, <1>2, SetInduction, FS_CardinalityType
<1>4. Good(D, Cardinality(D))
    BY <1>3 DEF P
<1>5. SumOf(f) = F[D] /\ SumOf(h) = H[D]
    BY SumIsTotal DEF F, H
<1>. QED BY <1>4, <1>5

-----------------------------------------------------------------------------
(* Shares of the bandwidth                                                 *)

\* A task of the table, and tables there may be.
Entry == [priority : Priorities, downloaded : 0 .. FullSize, share : Nat]

IsTable(t) == /\ IsFiniteSet(DOMAIN t) /\ Cardinality(DOMAIN t) <= MaxClients
              /\ t \in [DOMAIN t -> Entry]

\* Once no call is on its way every task has a share within the limits; but for
\* "Dynamic", which depends on what tasks have done since, the one it would be given now.
BandwidthInv ==
    /\ strategy \in Strategy
    /\ IsTable(clients) /\ sharing \in Nat
    /\ sharing = 0 => \A k \in DOMAIN clients :
         /\ clients[k].share \in MinBandwidth .. MaxBandwidth
         /\ strategy # "Dynamic" => clients[k].share = Share(clients, k)

\* What capping and lifting to the configured limits return.
LEMMA Limits ==
    ASSUME NEW n \in Int
    PROVE  /\ AtLeastMin(AtMostMax(n)) \in MinBandwidth .. MaxBandwidth
           /\ AtLeastMin(AtMostMax(n)) <= MinBandwidth + Max({n, 0})
           /\ Max({n, 0}) \in Nat /\ n <= Max({n, 0}) /\ (n >= 0 => Max({n, 0}) = n)
           /\ AtMostMax(n) <= n
           /\ n >= MinBandwidth => AtMostMax(n) \in MinBandwidth .. MaxBandwidth
<1>0. /\ MinBandwidth \in Nat \ {0} /\ MaxBandwidth \in Nat \ {0} /\ MinBandwidth <= MaxBandwidth
    BY BandwidthAssumption
<1>1. ASSUME NEW x \in Int, NEW y \in Int PROVE Max({x, y}) = IF x >= y THEN x ELSE y
    <2>1. \A m \in {x, y} : (\A i \in {x, y} : m >= i) => m = IF x >= y THEN x ELSE y
        OBVIOUS
    <2>2. \E m \in {x, y} : \A i \in {x, y} : m >= i
        <3>1. CASE x >= y
            BY <3>1
        <3>2. CASE ~(x >= y)
            BY <3>2
        <3>. QED BY <3>1, <3>2
    <2>. QED BY <2>1, <2>2 DEF Max
<1>2. ASSUME NEW x \in Int, NEW y \in Int PROVE Min({x, y}) = IF x <= y THEN x ELSE y
    <2>1. \A m \in {x, y} : (\A i \in {x, y} : m <= i) => m = IF x <= y THEN x ELSE y
        OBVIOUS
    <2>2. \E m \in {x, y} : \A i \in {x, y} : m <= i
        <3>1. CASE x <= y
            BY <3>1
        <3>2. CASE ~(x <= y)
            BY <3>2
        <3>. QED BY <3>1, <3>2
    <2>. QED BY <2>1, <2>2 DEF Min
<1>3. AtMostMax(n) = IF n <= MaxBandwidth THEN n ELSE MaxBandwidth
    BY <1>0, <1>2 DEF AtMostMax
<1>4. AtMostMax(n) \in Int
    BY <1>0, <1>3
<1>5. AtLeastMin(AtMostMax(n)) = IF AtMostMax(n) >= MinBandwidth THEN AtMostMax(n) ELSE MinBandwidth
    BY <1>0, <1>1, <1>4 DEF AtLeastMin
<1>6. Max({n, 0}) = IF n >= 0 THEN n ELSE 0
    BY <1>1
<1>. QED BY <1>0, <1>3, <1>5, <1>6

\* Integer division rounds down.
LEMMA Quotient ==
    ASSUME NEW x \in Nat, NEW y \in Nat \ {0}
    PROVE  x \div y \in Nat /\ y * (x \div y) <= x
OBVIOUS

\* The number of tasks, and what is summed over them.
LEMMA TableSums ==
    ASSUME NEW t, IsTable(t), DOMAIN t # {}
    PROVE  /\ Cardinality(DOMAIN t) \in Nat \ {0}
           /\ SumOf([j \in DOMAIN t |-> t[j].priority]) \in Nat
           /\ SumOf([j \in DOMAIN t |-> t[j].downloaded]) \in Nat
<1>1. IsFiniteSet(DOMAIN t) /\ t \in [DOMAIN t -> Entry]
    BY DEF IsTable
<1>2. Cardinality(DOMAIN t) \in Nat \ {0}
    BY <1>1, FS_CardinalityType, FS_EmptySet
<1>3. ASSUME NEW f \in [DOMAIN t -> Nat] PROVE SumOf(f) \in Nat
    <2>1. \A k \in DOMAIN t : 0 * f[k] <= 0 + 0 * f[k]
        OBVIOUS
    <2>. QED BY <1>1, <2>1, SumBound
<1>4. /\ [j \in DOMAIN t |-> t[j].priority] \in [DOMAIN t -> Nat]
      /\ [j \in DOMAIN t |-> t[j].downloaded] \in [DOMAIN t -> Nat]
    BY <1>1, BandwidthAssumption DEF Entry
<1>. QED BY <1>2, <1>3, <1>4

\* A guaranteed minimum, and a part of what the minima leave.
LEMMA GuaranteedBound ==
    ASSUME NEW n \in Nat \ {0}
    PROVE  LET extra == Max({TotalBandwidth - MinBandwidth * n, 0}) \div n
           IN  /\ extra \in Nat /\ MinBandwidth + extra \in Nat
               /\ n * extra <= TotalBandwidth
<1> DEFINE left == Max({TotalBandwidth - MinBandwidth * n, 0})
<1>1. MinBandwidth \in Nat /\ TotalBandwidth \in Nat /\ MinBandwidth * n \in Nat
    BY BandwidthAssumption
<1>2. TotalBandwidth - MinBandwidth * n \in Int
    BY <1>1
<1>3. left \in Nat /\ left <= TotalBandwidth
    <2>1. left \in Nat /\ (TotalBandwidth - MinBandwidth * n >= 0 => left = TotalBandwidth - MinBandwidth * n)
        BY <1>2, Limits
    <2>2. TotalBandwidth - MinBandwidth * n < 0 => left = 0
        <3>1. \A m \in {TotalBandwidth - MinBandwidth * n, 0} :
                TotalBandwidth - MinBandwidth * n < 0 /\ m >= 0 => m = 0
            BY <1>2
        <3>2. TotalBandwidth - MinBandwidth * n < 0 => 
                0 \in {TotalBandwidth - MinBandwidth * n, 0}
                /\ \A i \in {TotalBandwidth - MinBandwidth * n, 0} : 0 >= i
            BY <1>2
        <3>. QED BY <1>2, <3>1, <3>2 DEF Max
    <2>. QED BY <1>1, <2>1, <2>2
<1> HIDE DEF left
<1>4. left \div n \in Nat /\ n * (left \div n) <= left
    BY <1>3, Quotient
<1>5. n * (left \div n) \in Nat
    BY <1>4
<1>. QED BY <1>1, <1>3, <1>4, <1>5 DEF left

\* Every strategy keeps a share within the limits.
LEMMA ShareInLimits ==
    ASSUME strategy \in Strategy, NEW t, IsTable(t), NEW k \in DOMAIN t
    PROVE  Share(t, k) \in MinBandwidth .. MaxBandwidth
<1> DEFINE n == Cardinality(DOMAIN t)
           total == SumOf([j \in DOMAIN t |-> t[j].priority]) % 256
           gained == SumOf([j \in DOMAIN t |-> t[j].downloaded])
<1>1. n \in Nat \ {0} /\ total \in Nat /\ gained \in Nat
    BY TableSums
<1>2. t[k].priority \in Nat /\ t[k].downloaded \in 0 .. FullSize
    BY BandwidthAssumption DEF IsTable, Entry
<1>3. /\ TotalBandwidth \in Nat \ {0} /\ FullSize \in Nat \ {0}
      /\ MinBandwidth \in Nat \ {0} /\ MaxBandwidth \in Nat
    BY BandwidthAssumption
<1>4. Even(t) \in Nat
    BY <1>1, <1>3, Quotient DEF Even
<1>5. FairShare(t) \in MinBandwidth .. MaxBandwidth
    <2> DEFINE e == Even(t)
    <2>1. e \in Int
        BY <1>4
    <2> HIDE DEF e
    <2>2. AtLeastMin(AtMostMax(e)) \in MinBandwidth .. MaxBandwidth
        BY <2>1, Limits
    <2>. QED BY <2>2 DEF FairShare, e
<1>6. PriorityShare(t, k) \in MinBandwidth .. MaxBandwidth
    <2>1. CASE total > 0
        <3> DEFINE q == (TotalBandwidth * t[k].priority) \div total
        <3>1. TotalBandwidth * t[k].priority \in Nat
            BY <1>2, <1>3
        <3> HIDE DEF total
        <3>2. total \in Nat \ {0}
            BY <1>1, <2>1
        <3>3. q \in Int
            BY <3>1, <3>2, Quotient
        <3> HIDE DEF q
        <3>4. AtLeastMin(AtMostMax(q)) \in MinBandwidth .. MaxBandwidth
            BY <3>3, Limits
        <3>. QED BY <2>1, <3>4 DEF PriorityShare, q, total
    <2>2. CASE ~(total > 0)
        BY <1>5, <2>2 DEF PriorityShare
    <2>. QED BY <2>1, <2>2
<1>7. GuaranteedShare(t) \in MinBandwidth .. MaxBandwidth
    <2> DEFINE extra == Max({TotalBandwidth - MinBandwidth * n, 0}) \div n
    <2>1. extra \in Nat
        BY <1>1, GuaranteedBound
    <2> HIDE DEF extra
    <2>2. MinBandwidth + extra \in Int /\ MinBandwidth + extra >= MinBandwidth
        BY <1>3, <2>1
    <2>3. AtMostMax(MinBandwidth + extra) \in MinBandwidth .. MaxBandwidth
        BY <2>2, Limits
    <2>. QED BY <2>3 DEF GuaranteedShare, extra
<1>8. DynamicShare(t, k) \in MinBandwidth .. MaxBandwidth
    <2> DEFINE d == t[k].downloaded
               e == Even(t)
    <2>1. d \in Nat /\ e \in Nat /\ d <= FullSize
        BY <1>2, <1>3, <1>4
    <2> DEFINE scaled == e * (FullSize * n + gained - d * n)
    <2> HIDE DEF d, e, n, gained
    <2>2. FullSize * n \in Nat \ {0} /\ d * n \in Nat /\ d * n <= FullSize * n
        BY <1>1, <1>3, <2>1
    <2>3. FullSize * n + gained - d * n \in Nat
        BY <1>1, <2>2
    <2>4. scaled \in Nat
        BY <2>1, <2>3
    <2> HIDE DEF scaled
    <2>5. scaled \div (FullSize * n) \in Int
        BY <2>2, <2>4, Quotient
    <2>6. AtLeastMin(AtMostMax(scaled \div (FullSize * n))) \in MinBandwidth .. MaxBandwidth
        BY <2>5, Limits
    <2>. QED BY <2>6 DEF DynamicShare, scaled, d, e, n, gained
<1>. QED BY <1>5, <1>6, <1>7, <1>8 DEF Share, Strategy

\* But for "Dynamic", a share depends on nothing but which tasks there are and
\* their priorities.
LEMMA ShareDependsOn ==
    ASSUME strategy \in Strategy, strategy # "Dynamic", NEW t, NEW u, DOMAIN t = DOMAIN u,
           \A j \in DOMAIN t : t[j].priority = u[j].priority, NEW k \in DOMAIN t
    PROVE  Share(t, k) = Share(u, k)
<1>1. [j \in DOMAIN t |-> t[j].priority] = [j \in DOMAIN u |-> u[j].priority]
    OBVIOUS
<1>2. Even(t) = Even(u)
    BY DEF Even
<1>3. FairShare(t) = FairShare(u)
    BY <1>2 DEF FairShare
<1>4. PriorityShare(t, k) = PriorityShare(u, k)
    BY <1>1, <1>3 DEF PriorityShare
<1>5. GuaranteedShare(t) = GuaranteedShare(u)
    BY DEF GuaranteedShare
<1>. QED BY <1>3, <1>4, <1>5 DEF Share, Strategy

\* Adjusting a table sets the shares and nothing else.
LEMMA SharedTable ==
    ASSUME strategy \in Strategy, NEW t, IsTable(t)
    PROVE  /\ IsTable(Shared(t)) /\ DOMAIN Shared(t) = DOMAIN t
           /\ \A k \in DOMAIN t :
                /\ Shared(t)[k].share \in MinBandwidth .. MaxBandwidth
                /\ strategy # "Dynamic" => Shared(t)[k].share = Share(Shared(t), k)
<1>1. DOMAIN Shared(t) = DOMAIN t
    BY DEF Shared
<1>2. ASSUME NEW k \in DOMAIN t
      PROVE  /\ Shared(t)[k] \in Entry /\ Shared(t)[k].priority = t[k].priority
             /\ Shared(t)[k].share = Share(t, k) /\ Share(t, k) \in MinBandwidth .. MaxBandwidth
    <2>1. t[k] \in Entry
        BY DEF IsTable
    <2>2. Share(t, k) \in MinBandwidth .. MaxBandwidth /\ Share(t, k) \in Nat
        BY ShareInLimits, BandwidthAssumption
    <2>3. Shared(t)[k] = [t[k] EXCEPT !.share = Share(t, k)]
        BY DEF Shared
    <2>. QED BY <2>1, <2>2, <2>3 DEF Entry
<1>3. Shared(t) \in [DOMAIN t -> Entry]
    BY <1>2 DEF Shared
<1>4. ASSUME NEW k \in DOMAIN t, strategy # "Dynamic" PROVE Share(Shared(t), k) = Share(t, k)
    BY <1>1, <1>2, <1>4, ShareDependsOn
<1>. QED BY <1>1, <1>2, <1>3, <1>4 DEF IsTable

\* A common positive factor may be cancelled.
LEMMA Cancel ==
    ASSUME NEW a \in Nat \ {0}, NEW x \in Nat, NEW y \in Nat, a * x <= a * y
    PROVE  x <= y
<1> SUFFICES ASSUME y + 1 <= x PROVE FALSE
    OBVIOUS
<1>1. x - (y + 1) \in Nat /\ x = (y + 1) + (x - (y + 1))
    OBVIOUS
<1>2. /\ a * x = a * (y + 1) + a * (x - (y + 1)) /\ a * (y + 1) = a * y + a
      /\ a * (x - (y + 1)) \in Nat
    BY <1>1, Distribute
<1>. QED BY <1>2

\* What a table's shares add up to.
Given(t) == SumOf([k \in DOMAIN t |-> t[k].share])
Priority(t) == SumOf([j \in DOMAIN t |-> t[j].priority])

\* Shares that exceed the minimum by no more than an equal part of the total.
LEMMA EqualParts ==
    ASSUME NEW t, IsTable(t), NEW x \in Nat, Cardinality(DOMAIN t) * x <= TotalBandwidth,
           \A k \in DOMAIN t : t[k].share <= MinBandwidth + x
    PROVE  Given(t) <= TotalBandwidth + MinBandwidth * Cardinality(DOMAIN t)
<1> DEFINE D == DOMAIN t
           f == [k \in D |-> t[k].share]
           n == Cardinality(D)
<1>1. IsFiniteSet(D) /\ n \in Nat /\ f \in [D -> Nat]
    BY FS_CardinalityType DEF IsTable, Entry
<1>2. MinBandwidth \in Nat /\ TotalBandwidth \in Nat /\ MinBandwidth + x \in Nat
    BY BandwidthAssumption
<1>3. \A k \in D : f[k] <= MinBandwidth + x
    OBVIOUS
<1>4. n * x <= TotalBandwidth
    OBVIOUS
<1> HIDE DEF f, n, D
<1>5. \A k \in D : 1 * f[k] <= (MinBandwidth + x) + 0 * f[k]
    BY <1>1, <1>2, <1>3
<1>6. SumOf(f) \in Nat /\ 1 * SumOf(f) <= (MinBandwidth + x) * n + 0 * SumOf(f)
    BY <1>1, <1>2, <1>5, SumBound DEF n
<1>7. /\ n * (MinBandwidth + x) = n * MinBandwidth + n * x
      /\ n * MinBandwidth \in Nat /\ n * x \in Nat
    BY <1>1, <1>2, Distribute
<1>8. (MinBandwidth + x) * n = n * (MinBandwidth + x) /\ MinBandwidth * n = n * MinBandwidth
    BY <1>1, <1>2
<1>9. SumOf(f) <= TotalBandwidth + MinBandwidth * n
    BY <1>2, <1>4, <1>6, <1>7, <1>8
<1>. QED BY <1>9 DEF Given, f, n, D

\* Even parts of the total are together no more than it.
LEMMA EvenParts ==
    ASSUME NEW t, IsTable(t), DOMAIN t # {}
    PROVE  /\ Even(t) \in Nat /\ Cardinality(DOMAIN t) * Even(t) <= TotalBandwidth
           /\ FairShare(t) <= MinBandwidth + Even(t)
<1>1. Cardinality(DOMAIN t) \in Nat \ {0} /\ TotalBandwidth \in Nat
    BY TableSums, BandwidthAssumption
<1>2. Even(t) \in Nat /\ Cardinality(DOMAIN t) * Even(t) <= TotalBandwidth
    BY <1>1, Quotient DEF Even
<1> DEFINE e == Even(t)
<1>3. e \in Int /\ e >= 0
    BY <1>2
<1> HIDE DEF e
<1>4. AtLeastMin(AtMostMax(e)) <= MinBandwidth + e
    BY <1>3, Limits, BandwidthAssumption
<1>. QED BY <1>2, <1>4 DEF FairShare, e

\* The priorities of all tasks there may be at once can be added in a u8.
PrioritiesFit == \A p \in Priorities : p * MaxClients < 256

LEMMA PrioritiesAddUp ==
    ASSUME PrioritiesFit, NEW t, IsTable(t), DOMAIN t # {}
    PROVE  Priority(t) \in 0 .. 255
<1> DEFINE D == DOMAIN t
           p == [j \in D |-> t[j].priority]
           n == Cardinality(D)
<1>1. IsFiniteSet(D) /\ n \in Nat \ {0} /\ n <= MaxClients /\ MaxClients \in Nat
    BY TableSums, BandwidthAssumption DEF IsTable
<1>2. p \in [D -> Nat] /\ \A j \in D : p[j] \in Priorities
    BY BandwidthAssumption DEF IsTable, Entry
<1> HIDE DEF p, n, D
<1>3. ASSUME NEW j \in D PROVE MaxClients * p[j] <= 255 + 0 * p[j]
    <2>1. p[j] \in Nat /\ p[j] * MaxClients < 256
        BY <1>2 DEF PrioritiesFit
    <2>2. p[j] * MaxClients = MaxClients * p[j] /\ MaxClients * p[j] \in Nat
        BY <1>1, <2>1
    <2>. QED BY <2>1, <2>2
<1>4. SumOf(p) \in Nat /\ MaxClients * SumOf(p) <= 255 * n + 0 * SumOf(p)
    BY <1>1, <1>2, <1>3, SumBound DEF n
<1>5. MaxClients * SumOf(p) <= MaxClients * 255 /\ MaxClients \in Nat \ {0}
    BY <1>1, <1>4
<1>6. SumOf(p) <= 255
    BY <1>4, <1>5, Cancel
<1>. QED BY <1>4, <1>6 DEF Priority, p, D

\* Shares in proportion to the priorities.
LEMMA ProportionalParts ==
    ASSUME NEW t, IsTable(t), NEW total \in Nat \ {0}, Priority(t) = total,
           \A k \in DOMAIN t : t[k].share =
                AtLeastMin(AtMostMax((TotalBandwidth * t[k].priority) \div total))
    PROVE  Given(t) <= TotalBandwidth + MinBandwidth * Cardinality(DOMAIN t)
<1> DEFINE D == DOMAIN t
           f == [k \in D |-> t[k].share]
           h == [j \in D |-> t[j].priority]
           n == Cardinality(D)
<1>1. IsFiniteSet(D) /\ n \in Nat /\ f \in [D -> Nat] /\ h \in [D -> Nat]
    <2>1. IsFiniteSet(D) /\ n \in Nat
        BY FS_CardinalityType DEF IsTable
    <2>2. \A k \in D : t[k].share \in Nat /\ t[k].priority \in Nat
        BY BandwidthAssumption DEF IsTable, Entry
    <2>. QED BY <2>1, <2>2
<1>2. MinBandwidth \in Nat /\ TotalBandwidth \in Nat /\ total * MinBandwidth \in Nat
    BY BandwidthAssumption
<1>3. \A k \in D : f[k] = AtLeastMin(AtMostMax((TotalBandwidth * h[k]) \div total))
    OBVIOUS
<1>4. SumOf(h) = total
    BY DEF Priority
<1> HIDE DEF f, h, n, D
<1>5. ASSUME NEW k \in D PROVE total * f[k] <= total * MinBandwidth + TotalBandwidth * h[k]
    <2> DEFINE x == TotalBandwidth * h[k]
               q == x \div total
    <2>1. x \in Nat
        BY <1>1, <1>2
    <2> HIDE DEF x
    <2>2. q \in Nat /\ total * q <= x
        BY <2>1, Quotient
    <2>3. f[k] = AtLeastMin(AtMostMax(q))
        BY <1>3 DEF x
    <2> HIDE DEF q
    <2>4. f[k] <= MinBandwidth + q /\ f[k] \in Nat
        <3>1. q \in Int /\ q >= 0
            BY <2>2
        <3>2. AtLeastMin(AtMostMax(q)) <= MinBandwidth + q
            BY <3>1, Limits
        <3>. QED BY <1>1, <2>3, <3>2
    <2>5. MinBandwidth + q - f[k] \in Nat /\ MinBandwidth + q = f[k] + (MinBandwidth + q - f[k])
        BY <1>2, <2>2, <2>4
    <2>6. /\ total * (MinBandwidth + q) = total * f[k] + total * (MinBandwidth + q - f[k])
          /\ total * f[k] \in Nat /\ total * (MinBandwidth + q - f[k]) \in Nat
        BY <2>4, <2>5, Distribute
    <2>7. total * (MinBandwidth + q) = total * MinBandwidth + total * q /\ total * q \in Nat
        BY <1>2, <2>2, Distribute
    <2>8. total * f[k] <= total * MinBandwidth + x
        BY <1>2, <2>1, <2>2, <2>6, <2>7
    <2>. QED BY <2>8 DEF x
<1>6. SumOf(f) \in Nat /\ total * SumOf(f) <= (total * MinBandwidth) * n + TotalBandwidth * total
    BY <1>1, <1>2, <1>4, <1>5, SumBound DEF n
<1>7. /\ (total * MinBandwidth) * n = total * (MinBandwidth * n) /\ MinBandwidth * n \in Nat
      /\ TotalBandwidth * total = total * TotalBandwidth
    BY <1>1, <1>2
<1>8. total * (TotalBandwidth + MinBandwidth * n) = total * TotalBandwidth + total * (MinBandwidth * n)
    BY <1>2, <1>7, Distribute
<1>9. total * SumOf(f) <= total * (TotalBandwidth + MinBandwidth * n)
    <2>1. /\ total * TotalBandwidth \in Nat /\ total * (MinBandwidth * n) \in Nat
        BY <1>2, <1>7
    <2>. QED BY <1>6, <1>7, <1>8, <2>1
<1>10. SumOf(f) <= TotalBandwidth + MinBandwidth * n
    <2> DEFINE y == TotalBandwidth + MinBandwidth * n
    <2>1. y \in Nat
        BY <1>2, <1>7
    <2>2. total * SumOf(f) <= total * y
        BY <1>9
    <2> HIDE DEF y
    <2>3. SumOf(f) <= y
        BY <1>6, <2>1, <2>2, Cancel
    <2>. QED BY <2>3 DEF y
<1>. QED BY <1>10 DEF Given, f, n, D

\* Whatever the strategy, what the shares exceed the total by is in the minima.
LEMMA SharesFit ==
    ASSUME PrioritiesFit, strategy \in Strategy, strategy # "Dynamic", NEW t, IsTable(t),
           \A k \in DOMAIN t : t[k].share = Share(t, k)
    PROVE  Given(t) <= TotalBandwidth + MinBandwidth * Cardinality(DOMAIN t)
<1>1. CASE DOMAIN t = {}
    <2>1. Cardinality(DOMAIN t) * 0 <= TotalBandwidth
        BY <1>1, FS_EmptySet, BandwidthAssumption
    <2>. QED BY <1>1, <2>1, EqualParts
<1> SUFFICES ASSUME DOMAIN t # {}
             PROVE  Given(t) <= TotalBandwidth + MinBandwidth * Cardinality(DOMAIN t)
    BY <1>1
<1>2. CASE \A k \in DOMAIN t : t[k].share = FairShare(t)
    BY <1>2, EvenParts, EqualParts
<1>3. CASE strategy = "Fair"
    BY <1>2, <1>3 DEF Share
<1>4. CASE strategy = "Priority"
    <2>1. Priority(t) \in 0 .. 255
        BY PrioritiesAddUp
    <2>2. Priority(t) % 256 = Priority(t)
        BY <2>1
    <2>3. \A k \in DOMAIN t : t[k].share = PriorityShare(t, k)
        BY <1>4 DEF Share
    <2>4. CASE Priority(t) > 0
        <3>1. Priority(t) \in Nat \ {0}
            BY <2>1, <2>4
        <3>2. \A k \in DOMAIN t : t[k].share =
                AtLeastMin(AtMostMax((TotalBandwidth * t[k].priority) \div Priority(t)))
            BY <2>2, <2>3, <2>4 DEF PriorityShare, Priority
        <3>. QED BY <3>1, <3>2, ProportionalParts
    <2>5. CASE ~(Priority(t) > 0)
        BY <1>2, <2>2, <2>3, <2>5 DEF PriorityShare, Priority
    <2>. QED BY <2>4, <2>5
<1>5. CASE strategy = "MinGuarantee"
    <2> DEFINE n == Cardinality(DOMAIN t)
               extra == Max({TotalBandwidth - MinBandwidth * n, 0}) \div n
    <2>1. n \in Nat \ {0}
        BY TableSums
    <2>2. extra \in Nat /\ MinBandwidth + extra \in Nat /\ n * extra <= TotalBandwidth
        BY <2>1, GuaranteedBound
    <2>3. \A k \in DOMAIN t : t[k].share = AtMostMax(MinBandwidth + extra)
        BY <1>5 DEF Share, GuaranteedShare
    <2> HIDE DEF extra
    <2>4. MinBandwidth + extra \in Int
        BY <2>2
    <2>5. AtMostMax(MinBandwidth + extra) <= MinBandwidth + extra
        BY <2>4, Limits
    <2>. QED BY <2>2, <2>3, <2>5, EqualParts
<1>. QED BY <1>3, <1>4, <1>5 DEF Strategy

-----------------------------------------------------------------------------
(* The table of tasks                                                      *)

\* The table is empty at first.
LEMMA BandwidthInitially == BandwidthInit => BandwidthInv
<1>1. DOMAIN << >> = {} /\ << >> \in [{} -> Entry]
    OBVIOUS
<1>. QED BY <1>1, FS_EmptySet, BandwidthAssumption DEF BandwidthInit, BandwidthInv, IsTable

\* A change of the table leaves a call that still has to adjust, and a report of
\* progress changes no share nor what one is computed from.
LEMMA BandwidthStep ==
    ASSUME BandwidthInv, [BandwidthNext]_bandwidthVars
    PROVE  BandwidthInv'
<1>0. /\ strategy \in Strategy /\ IsTable(clients) /\ IsFiniteSet(DOMAIN clients)
      /\ Cardinality(DOMAIN clients) \in Nat /\ clients \in [DOMAIN clients -> Entry]
      /\ MaxClients \in Nat /\ FullSize \in Nat /\ sharing \in Nat
    BY FS_CardinalityType, BandwidthAssumption DEF BandwidthInv, IsTable
<1>1. ASSUME NEW k \in Client, NEW p \in Priorities, RegisterClient(k, p) PROVE BandwidthInv'
    <2>1. /\ Cardinality(DOMAIN clients) < MaxClients /\ strategy' = strategy /\ sharing' \in Nat \ {0}
          /\ clients' = [j \in DOMAIN clients \union {k} |->
               IF j = k THEN [priority |-> p, downloaded |-> 0, share |-> 0] ELSE clients[j]]
        BY <1>0, <1>1 DEF RegisterClient, Call
    <2>2. DOMAIN clients' = DOMAIN clients \union {k}
        BY <2>1
    <2>3. IsFiniteSet(DOMAIN clients') /\ Cardinality(DOMAIN clients') <= MaxClients
        BY <1>0, <2>1, <2>2, FS_AddElement
    <2>4. clients' \in [DOMAIN clients' -> Entry]
        <3>1. [priority |-> p, downloaded |-> 0, share |-> 0] \in Entry
            BY <1>0 DEF Entry
        <3>. QED BY <1>0, <2>1, <2>2, <3>1
    <2>. QED BY <1>0, <2>1, <2>3, <2>4 DEF BandwidthInv, IsTable
<1>2. ASSUME NEW k \in Client, UnregisterClient(k) PROVE BandwidthInv'
    <2>1. strategy' = strategy /\ sharing' \in Nat \ {0} /\ clients' = [j \in DOMAIN clients \ {k} |-> clients[j]]
        BY <1>0, <1>2 DEF UnregisterClient, Call, Restrict
    <2>2. DOMAIN clients' = DOMAIN clients \ {k} /\ clients' \in [DOMAIN clients' -> Entry]
        BY <1>0, <2>1
    <2>3. IsFiniteSet(DOMAIN clients') /\ Cardinality(DOMAIN clients') <= Cardinality(DOMAIN clients)
        BY <1>0, <2>2, FS_Subset
    <2>4. Cardinality(DOMAIN clients') \in Nat /\ Cardinality(DOMAIN clients) <= MaxClients
        BY <2>3, FS_CardinalityType DEF BandwidthInv, IsTable
    <2>5. Cardinality(DOMAIN clients') <= MaxClients
        BY <1>0, <2>3, <2>4
    <2>. QED BY <1>0, <2>1, <2>2, <2>3, <2>5 DEF BandwidthInv, IsTable
<1>3. ASSUME clients' = Shared(clients), strategy' = strategy, sharing' \in Nat PROVE BandwidthInv'
    <2>1. /\ IsTable(clients') /\ DOMAIN clients' = DOMAIN clients
          /\ \A k \in DOMAIN clients :
               /\ clients'[k].share \in MinBandwidth .. MaxBandwidth
               /\ strategy # "Dynamic" => clients'[k].share = Share(clients', k)
        BY <1>0, <1>3, SharedTable
    <2>2. IsTable(clients)'
        BY <2>1 DEF IsTable
    <2>. QED BY <1>0, <1>3, <2>1, <2>2 DEF BandwidthInv, Share
<1>4. CASE AdjustShares
    BY <1>0, <1>3, <1>4 DEF AdjustShares
<1>5. CASE AdjustOnTime
    BY <1>0, <1>3, <1>5 DEF AdjustOnTime
<1>6. ASSUME NEW k \in Client, NEW n \in Downloaded, UpdateClient(k, n) PROVE BandwidthInv'
    <2>1. /\ strategy' = strategy /\ sharing' = sharing
          /\ clients' = IF k \in DOMAIN clients
                        THEN [clients EXCEPT ![k].downloaded = n] ELSE clients
        BY <1>6 DEF UpdateClient
    <2>2. CASE k \notin DOMAIN clients
        BY <2>1, <2>2 DEF BandwidthInv, IsTable, Share
    <2>3. CASE k \in DOMAIN clients
        <3>1. DOMAIN clients' = DOMAIN clients /\ n \in 0 .. FullSize
            BY <1>0, <2>1, BandwidthAssumption
        <3>2. \A j \in DOMAIN clients :
                clients'[j] = IF j = k THEN [clients[j] EXCEPT !.downloaded = n] ELSE clients[j]
            BY <1>0, <2>1, <2>3
        <3>3. ASSUME NEW j \in DOMAIN clients
              PROVE  /\ clients'[j] \in Entry
                     /\ clients'[j].priority = clients[j].priority /\ clients'[j].share = clients[j].share
            <4>1. clients[j] \in Entry
                BY <1>0
            <4>2. CASE j = k
                <5>1. clients'[j] = [clients[j] EXCEPT !.downloaded = n]
                    BY <3>2, <4>2
                <5>. QED BY <3>1, <4>1, <5>1 DEF Entry
            <4>3. CASE j # k
                <5>1. clients'[j] = clients[j]
                    BY <3>2, <4>3
                <5>. QED BY <4>1, <5>1
            <4>. QED BY <4>2, <4>3
        <3>4. clients' \in [DOMAIN clients' -> Entry]
            BY <1>0, <2>1, <2>3, <3>1, <3>3
        <3>5. IsTable(clients)'
            BY <1>0, <3>1, <3>4 DEF IsTable
        <3>6. ASSUME strategy # "Dynamic", NEW j \in DOMAIN clients
              PROVE  Share(clients', j) = Share(clients, j)
            BY <1>0, <3>1, <3>3, <3>6, ShareDependsOn
        <3>7. sharing = 0 => \A j \in DOMAIN clients :
                /\ clients'[j].share \in MinBandwidth .. MaxBandwidth
                /\ strategy # "Dynamic" => clients'[j].share = Share(clients', j)
            BY <3>3, <3>6 DEF BandwidthInv
        <3>. QED BY <1>0, <2>1, <3>1, <3>5, <3>7 DEF BandwidthInv, Share
    <2>. QED BY <2>2, <2>3
<1>7. CASE UNCHANGED bandwidthVars
    BY <1>7 DEF bandwidthVars, BandwidthInv, IsTable, Share
<1>. QED BY <1>1, <1>2, <1>4, <1>5, <1>6, <1>7 DEF BandwidthNext

\* SharesAreCurrent, for every set of tasks, every total and every limits: provided
\* the sum of the priorities does not overflow its u8.
THEOREM SharesStayCurrent ==
    ASSUME PrioritiesFit
    PROVE  BandwidthSpec => []SharesAreCurrent
<1>1. BandwidthInv => SharesAreCurrent
    <2> SUFFICES ASSUME BandwidthInv, sharing = 0 PROVE SharesAreCurrent
        BY DEF SharesAreCurrent
    <2>1. \A k \in DOMAIN clients : clients[k].share \in MinBandwidth .. MaxBandwidth
        BY DEF BandwidthInv
    <2>2. ASSUME strategy # "Dynamic"
          PROVE  /\ clients = Shared(clients)
                 /\ SumOf([k \in DOMAIN clients |-> clients[k].share])
                      <= TotalBandwidth + MinBandwidth * Cardinality(DOMAIN clients)
        <3>1. \A k \in DOMAIN clients : clients[k].share = Share(clients, k) /\ clients[k] \in Entry
            BY <2>2 DEF BandwidthInv, IsTable
        <3>2. ASSUME NEW k \in DOMAIN clients
              PROVE  clients[k] = [clients[k] EXCEPT !.share = Share(clients, k)]
            BY <3>1 DEF Entry
        <3>3. clients = [k \in DOMAIN clients |-> clients[k]]
            BY DEF BandwidthInv, IsTable
        <3>4. clients = Shared(clients)
            BY <3>2, <3>3 DEF Shared
        <3>5. Given(clients) <= TotalBandwidth + MinBandwidth * Cardinality(DOMAIN clients)
            BY <2>2, <3>1, SharesFit DEF BandwidthInv
        <3>. QED BY <3>4, <3>5 DEF Given
    <2>. QED BY <2>1, <2>2 DEF SharesAreCurrent
<1>. QED BY <1>1, BandwidthInitially, BandwidthStep, PTL DEF BandwidthSpec
=============================================================================
