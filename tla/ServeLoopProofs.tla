----------------------------- MODULE ServeLoopProofs ---------------------------
(***************************************************************************)
(* What Delivery promises for every deadline, call limit, resolver and     *)
(* number of addresses, and the loop of run_serve for every interval,      *)
(* limit and list of alerts: one cycle for each deadline, and what is      *)
(* proved of a delivery by itself holds of the deliveries the loop makes.  *)
(* Then what config_open accepts, of every file: it is sound and whole.    *)
(* Last, what metrics_collect hands to a cycle: nothing of an earlier one, *)
(* CPU shares that make up the whole however the counters wrap, and no     *)
(* byte twice.                                                             *)
(*                                                                         *)
(* The inductive invariant of a delivery, IInv, says for each place        *)
(* post_webhook can be in what it holds, how long its call may still take, *)
(* and what it has printed.                                                *)
(***************************************************************************)
EXTENDS ServeLoop, Sampler, FiniteSetTheorems, SequenceTheorems, WellFoundedInduction,
        TLAPS

Places == {"off", "resolve", "connect", "connecting", "io", "call", "close"}

Typed ==
    /\ now \in Nat /\ until \in Nat /\ deadline \in Nat /\ resolved \in Nat
    /\ addrs \in Nat /\ reported \in Nat
    /\ dpc \in Places
    /\ phase \in {"write", "read", "tls", "receive", "bye", "close"}
    /\ scheme \in {"http", "https", "insecure"}
    /\ head \in {"none", "part", "2xx", "other"}
    /\ tls_failed \in {0, 1} /\ cut \in {0, 1} /\ delivered \in {-1, 0, 1}

(* A call begins only in time, so it is over before deadline +             *)
(* CallSeconds; what was resolved after the deadline starts none.          *)
Timely ==
    /\ dpc \in {"connecting", "call"} => until < deadline + CallSeconds /\ now <= until
    /\ dpc \in {"connect", "io", "close"} => now <= resolved \/ now < deadline + CallSeconds
    /\ dpc \in {"connect", "connecting", "io", "call", "close"} => resolved <= now

Anchors == IF scheme = "https" THEN {"anchors"} ELSE {}

(* What each place has to release. *)
Holds ==
    /\ dpc = "off" => held = {}
    /\ dpc = "resolve" => held = Anchors
    /\ dpc = "connect" => held = Anchors \cup {"addrinfo"}
    /\ dpc = "connecting" => held = Anchors \cup {"addrinfo", "socket"}
    /\ dpc \in {"io", "call", "close"} => held = Anchors \cup {"socket"}

(* Nothing is printed on the way but by TlsFail, after which nothing is    *)
(* read.                                                                   *)
Lines ==
    /\ SingleLine
    /\ dpc \notin {"off", "close"} => tls_failed = 0 /\ cut = 0 /\ reported = 0
    /\ dpc = "close" /\ tls_failed = 0 => cut = 0 /\ reported = 0
    /\ dpc = "close" /\ tls_failed = 1 => reported = 1 - cut /\ head = "none"
    /\ dpc \in {"resolve", "connect", "connecting"} => head = "none"
    /\ dpc \in {"io", "call"} /\ phase = "tls" => head = "none"
    /\ dpc \in {"io", "call"} => phase # "close"

IInv == Typed /\ Timely /\ Holds /\ Lines

all == <<clock, dvars>>
--------------------------------------------------------------------------------
LEMMA InitIInv == PostInit => IInv
BY DEF PostInit, IInv, Typed, Places, Timely, Holds, Anchors, Lines, SingleLine

LEMMA NextIInv == IInv /\ [PostNext]_all => IInv'
<1> SUFFICES ASSUME IInv, [PostNext]_all PROVE IInv'
    OBVIOUS
<1> USE DeliveryAssumption DEF IInv, Typed, Places, Timely, Holds, Anchors, Lines,
        SingleLine, in_time, clock, tls, dvars
<1>1. CASE PostTick
    BY <1>1 DEF PostTick, Waiting
<1>2. CASE Refuse
    BY <1>2 DEF Refuse
<1>3. CASE Post
    BY <1>3 DEF Post, Blocks
<1>4. CASE ResolveFail
    BY <1>4 DEF ResolveFail, Return
<1>5. CASE Resolve
    BY <1>5 DEF Resolve
<1>6. CASE Attempt
    BY <1>6 DEF Attempt, Blocks
<1>7. CASE ConnectFail
    BY <1>7 DEF ConnectFail
<1>8. CASE Connect
    BY <1>8 DEF Connect
<1>9. CASE GiveUp
    BY <1>9 DEF GiveUp, Return
<1>10. CASE Io
    BY <1>10 DEF Io, Blocks
<1>11. CASE Some
    BY <1>11 DEF Some, Heads
<1>12. CASE Over
    BY <1>12 DEF Over, After
<1>13. CASE TlsFail
    BY <1>13 DEF TlsFail
<1>14. CASE Close
    BY <1>14 DEF Close, Return, reply_ok
<1>15. CASE UNCHANGED all
    BY <1>15 DEF all
<1>16. QED
    BY <1>1, <1>2, <1>3, <1>4, <1>5, <1>6, <1>7, <1>8, <1>9, <1>10, <1>11, <1>12, <1>13,
       <1>14, <1>15 DEF PostNext, PostStep

LEMMA Invariance == PostSpec => []IInv
<1>1. PostInit => IInv
    BY InitIInv
<1>2. IInv /\ [PostNext]_all => IInv'
    BY NextIInv
<1>3. QED
    BY <1>1, <1>2, PTL DEF PostSpec, all
--------------------------------------------------------------------------------
(* A slow endpoint holds the loop for less than the deadline and one call, *)
(* whatever the limits are.                                                *)
THEOREM AlwaysInTime == PostSpec => []EndsInTime
<1>1. IInv => EndsInTime
    BY DeliveryAssumption DEF IInv, Typed, Places, Timely, EndsInTime
<1>2. QED
    BY <1>1, Invariance, PTL

(* Anchors, addresses and socket are given back on every path of           *)
(* post_webhook.                                                           *)
THEOREM AlwaysReleased == PostSpec => []Released
<1>1. IInv => Released
    BY DEF IInv, Holds, Released
<1>2. QED
    BY <1>1, Invariance, PTL

(* One line for a failure and none for a success, whatever the limits are; *)
(* none either for a TLS exchange that fails past the deadline, and for    *)
(* that alone.                                                             *)
THEOREM AlwaysOneLine == PostSpec => []SingleLine
<1>1. IInv => SingleLine
    BY DEF IInv, Lines
<1>2. QED
    BY <1>1, Invariance, PTL
--------------------------------------------------------------------------------
(* Every family of subsets of a finite set has a least one: induction on   *)
(* finite sets, as a statement about sets.                                 *)
LEMMA LeastSubset ==
    ASSUME NEW S, IsFiniteSet(S), NEW F \in SUBSET SUBSET S, F # {}
    PROVE  \E x \in F : \A y \in SUBSET x : y # x => y \notin F
<1>1. IsWellFoundedOn(StrictSubsetOrdering(S), FiniteSubsetsOf(S))
  BY FS_StrictSubsetOrderingWellFounded
<1>2. F \subseteq FiniteSubsetsOf(S)
  BY FS_FiniteSubsetsOfFinite
<1>3. \E x \in F : \A y \in F : <<y, x>> \notin StrictSubsetOrdering(S)
  BY <1>1, <1>2, WFMin
<1>. QED
  BY <1>3 DEF StrictSubsetOrdering


(* And every set of naturals. *)
LEMMA LeastNumber ==
    ASSUME NEW T \in SUBSET Nat, T # {}
    PROVE  \E n \in T : \A k \in T : n <= k
<1>1. IsWellFoundedOn(OpToRel(<, Nat), Nat)
  BY NatLessThanWellFounded
<1>2. PICK n \in T : \A k \in T : <<k, n>> \notin OpToRel(<, Nat)
  BY <1>1, WFMin
<1>3. ASSUME NEW k \in T PROVE n <= k
  <2>1. k \in Nat /\ n \in Nat
    BY <1>2
  <2>2. ~(k < n)
    BY <1>2, <2>1 DEF OpToRel
  <2>. QED
    BY <2>1, <2>2
<1>. QED
  BY <1>3

--------------------------------------------------------------------------------
(* config_load's loop over the ranges, entry by entry: the prefixes for    *)
(* which there is no such run are a set without a least member.            *)
LEMMA UsableSteps ==
    ASSUME NEW c, NEW E, NEW l \in Seq(E)
    PROVE  \E f : /\ UsableOf(c, l) = f[Len(l)]
                  /\ \A n \in 0..Len(l) :
                       f[n] = IF n = 0 THEN <<>>
                              ELSE IF Usable(c, l[n]) THEN Append(f[n - 1], l[n])
                              ELSE f[n - 1]
<1> DEFINE N == Len(l)
           Entry(g, n) == IF n = 0 THEN <<>>
                       ELSE IF Usable(c, l[n]) THEN Append(g[n - 1], l[n]) ELSE g[n - 1]
           Is(g, i) == g = [n \in 0..i |-> Entry(g, n)]
           f == CHOOSE g : Is(g, N)
<1>1. N \in Nat /\ \A n \in 1..N : l[n] \in E
  OBVIOUS
<1>2. \A i \in Nat : i <= N => \E g : Is(g, i)
  <2> DEFINE Bad == {i \in 0..N : ~ \E g : Is(g, i)}
  <2>1. ASSUME Bad # {} PROVE FALSE
    <3>1. Bad \in SUBSET Nat
      BY <1>1
    <3> HIDE DEF Bad
    <3>2. PICK i \in Bad : \A k \in Bad : i <= k
      BY <2>1, <3>1, LeastNumber
    <3> USE DEF Bad
    <3>a. i \in Nat /\ i <= N /\ ~ \E g : Is(g, i)
      BY <1>1, <3>2
    <3>b. \A k \in 0..N : k < i => \E g : Is(g, k)
      <4>. SUFFICES ASSUME NEW k \in 0..N, k < i PROVE k \notin Bad
        OBVIOUS
      <4> HIDE DEF Bad
      <4>. QED
        BY <1>1, <3>a, <3>2
    <3>3. CASE i = 0
      <4>1. Is([n \in 0..0 |-> <<>>], 0)
        OBVIOUS
      <4>. QED
        BY <3>a, <3>3, <4>1
    <3>4. CASE i # 0
      <4>1. i - 1 \in 0..N /\ i - 1 < i
        BY <1>1, <3>a, <3>4
      <4>2. PICK g : Is(g, i - 1)
        BY <3>b, <4>1
      <4> DEFINE h == [n \in 0..i |-> Entry(g, n)]
      <4>3. \A n \in 0..(i - 1) : h[n] = g[n]
        <5>. SUFFICES ASSUME NEW n \in 0..(i - 1) PROVE h[n] = g[n]
          OBVIOUS
        <5>1. n \in 0..i
          BY <3>a
        <5>2. g[n] = Entry(g, n)
          BY <4>2
        <5>. QED
          BY <5>1, <5>2
      <4>4. Is(h, i)
        <5>. SUFFICES ASSUME NEW n \in 0..i PROVE h[n] = Entry(h, n)
          OBVIOUS
        <5>1. CASE n = 0
          BY <5>1
        <5>2. CASE n # 0
          <6>1. n - 1 \in 0..(i - 1)
            BY <3>a, <5>2
          <6>2. h[n - 1] = g[n - 1]
            BY <4>3, <6>1
          <6> HIDE DEF h
          <6>3. Entry(h, n) = Entry(g, n)
            BY <6>2
          <6>. QED
            BY <6>3 DEF h
        <5>. QED
          BY <5>1, <5>2
      <4>. QED
        BY <3>a, <4>4
    <3>. QED
      BY <3>3, <3>4
  <2>. QED
    <3>. SUFFICES ASSUME NEW i \in Nat, i <= N PROVE \E g : Is(g, i)
      OBVIOUS
    <3>1. i \in 0..N
      BY <1>1
    <3>2. i \notin Bad
      <4> HIDE DEF Bad
      <4>. QED
        BY <2>1
    <3>. QED
      BY <3>1, <3>2
<1>3. Is(f, N)
  <2>0. N \in Nat /\ N <= N
    BY <1>1
  <2> HIDE DEF N, Is
  <2>1. \E g : Is(g, N)
    BY <2>0, <1>2
  <2>. QED
    BY <2>1
<1>4. UsableOf(c, l) = f[N]
  BY DEF UsableOf
<1> HIDE DEF f
<1>5. \A n \in 0..N : f[n] = Entry(f, n)
  BY <1>3
<1>. QED
  BY <1>4, <1>5

(* It keeps entries of the list, and only those that are usable. *)
LEMMA UsableOfType ==
    ASSUME NEW c, NEW E, NEW l \in Seq(E)
    PROVE  UsableOf(c, l) \in Seq({e \in E : Usable(c, e)})
<1> DEFINE N == Len(l)
           U == {e \in E : Usable(c, e)}
           Entry(g, n) == IF n = 0 THEN <<>>
                       ELSE IF Usable(c, l[n]) THEN Append(g[n - 1], l[n]) ELSE g[n - 1]
<1>1. N \in Nat /\ \A n \in 1..N : l[n] \in E
  OBVIOUS
<1>4. PICK f : UsableOf(c, l) = f[N] /\ \A n \in 0..N : f[n] = Entry(f, n)
  BY UsableSteps
<1> DEFINE Wrong == {i \in 0..N : f[i] \notin Seq(U)}
<1>5. ASSUME Wrong # {} PROVE FALSE
  <2>1. Wrong \in SUBSET Nat
    BY <1>1
  <2> HIDE DEF Wrong
  <2>2. PICK i \in Wrong : \A k \in Wrong : i <= k
    BY <1>5, <2>1, LeastNumber
  <2> USE DEF Wrong
  <2>3. i \in 0..N /\ f[i] = Entry(f, i)
    BY <1>4, <2>2
  <2>4. i # 0
    <3>1. <<>> \in Seq(U)
      BY EmptySeq
    <3>. QED
      BY <2>2, <2>3, <3>1
  <2>5. i - 1 \in 0..N /\ f[i - 1] \in Seq(U)
    BY <1>1, <2>2, <2>4
  <2>6. l[i] \in E
    BY <1>1, <2>2, <2>4
  <2> HIDE DEF U
  <2>7. Usable(c, l[i]) => l[i] \in U
    BY <2>6 DEF U
  <2>8. f[i] \in Seq(U)
    BY <2>3, <2>4, <2>5, <2>7
  <2>. QED
    BY <2>2, <2>8
<1>. QED
  BY <1>1, <1>4, <1>5

LEMMA Appended ==
    ASSUME NEW E, NEW s \in Seq(E), NEW x \in E
    PROVE  /\ Append(s, x) \in Seq(E) /\ Len(s) \in Nat
           /\ Len(Append(s, x)) = Len(s) + 1 /\ Append(s, x)[Len(s) + 1] = x
           /\ \A k \in 1..Len(s) : Append(s, x)[k] = s[k]
  OBVIOUS

LEMMA Counted ==
    ASSUME NEW n \in Nat, NEW S \in SUBSET (1..n)
    PROVE  IsFiniteSet(S) /\ Cardinality(S) \in Nat
<1>1. IsFiniteSet(1..n)
  BY FS_Interval
<1>. QED
  BY <1>1, FS_Subset, FS_CardinalityType

(* And all of them, in their order. *)
LEMMA UsableOfAll ==
    ASSUME NEW c, NEW E, NEW l \in Seq(E)
    PROVE  /\ Len(UsableOf(c, l)) = Cardinality(UsableUpto(c, l, Len(l)))
           /\ \A n \in UsableUpto(c, l, Len(l)) :
                UsableOf(c, l)[Cardinality(UsableUpto(c, l, n))] = l[n]
<1> DEFINE N == Len(l)
           Upto(n) == UsableUpto(c, l, n)
           Entry(g, n) == IF n = 0 THEN <<>>
                       ELSE IF Usable(c, l[n]) THEN Append(g[n - 1], l[n]) ELSE g[n - 1]
<1>1. N \in Nat /\ \A n \in 1..N : l[n] \in E
  OBVIOUS
<1>2. PICK f : UsableOf(c, l) = f[N] /\ \A n \in 0..N : f[n] = Entry(f, n)
  BY UsableSteps
<1> DEFINE Holds_(i) == /\ f[i] \in Seq(E)
                        /\ Len(f[i]) = Cardinality(Upto(i))
                        /\ \A n \in Upto(i) : /\ Cardinality(Upto(n)) \in 1..Len(f[i])
                                               /\ f[i][Cardinality(Upto(n))] = l[n]
           Wrong == {i \in 0..N : ~Holds_(i)}
<1>3. \A n \in Nat : IsFiniteSet(Upto(n)) /\ Cardinality(Upto(n)) \in Nat
  BY Counted DEF UsableUpto
<1>4. ASSUME Wrong # {} PROVE FALSE
  <2>1. Wrong \in SUBSET Nat
    BY <1>1
  <2> HIDE DEF Wrong
  <2>2. PICK i \in Wrong : \A k \in Wrong : i <= k
    BY <1>4, <2>1, LeastNumber
  <2> USE DEF Wrong
  <2>3. i \in 0..N /\ f[i] = Entry(f, i) /\ ~Holds_(i)
    BY <1>2, <2>2
  <2>4. i # 0
    <3>1. Upto(0) = {} /\ f[0] = <<>>
      BY <1>1, <1>2 DEF UsableUpto
    <3>2. Holds_(0)
      BY <3>1, FS_EmptySet, EmptySeq
    <3>. QED
      BY <2>3, <3>2
  <2>5. i - 1 \in 0..N /\ Holds_(i - 1)
    BY <1>1, <2>2, <2>4
  <2>6. i \in Nat /\ l[i] \in E
    BY <1>1, <2>3, <2>4
  <2> DEFINE g == f[i - 1]
             U == Upto(i - 1)
  <2>7. CASE Usable(c, l[i])
    <3>1. f[i] = Append(g, l[i])
      BY <2>3, <2>4, <2>7
    <3>2. Upto(i) = U \cup {i} /\ i \notin U
      BY <2>4, <2>6, <2>7 DEF UsableUpto
    <3>3. Cardinality(Upto(i)) = Cardinality(U) + 1
      <4>1. IsFiniteSet(U) /\ Cardinality(U) \in Nat
        BY <1>3, <2>4, <2>6
      <4>. HIDE DEF U
      <4>2. Cardinality(U \cup {i}) = Cardinality(U) + 1
        BY <3>2, <4>1, FS_AddElement
      <4>. QED
        BY <3>2, <4>2
    <3>4. g \in Seq(E) /\ Len(g) = Cardinality(U)
      BY <2>5
    <3>5. f[i] \in Seq(E) /\ Len(f[i]) = Len(g) + 1 /\ f[i][Len(g) + 1] = l[i]
          /\ Len(g) \in Nat /\ \A k \in 1..Len(g) : f[i][k] = g[k]
      <4>. HIDE DEF g, U
      <4>. QED
        BY <2>6, <3>1, <3>4, Appended
    <3>6. ASSUME NEW n \in Upto(i)
          PROVE  Cardinality(Upto(n)) \in 1..Len(f[i]) /\ f[i][Cardinality(Upto(n))] = l[n]
      <4> DEFINE place == Cardinality(Upto(n))
                 len == Len(g)
      <4>0. len \in Nat
        BY <3>5
      <4>1. CASE n = i
        <5>1. place = len + 1
          BY <3>3, <3>4, <4>1
        <5>. HIDE DEF place, g
        <5>2. f[i][place] = l[n]
          BY <3>5, <4>1, <5>1
        <5>. HIDE DEF len
        <5>3. place \in 1..(len + 1)
          BY <4>0, <5>1
        <5>. QED
          BY <3>5, <5>2, <5>3 DEF place, len
      <4>2. CASE n \in U
        <5>1. place \in 1..len /\ g[place] = l[n]
          BY <2>5, <4>2
        <5>. HIDE DEF place, g
        <5>2. f[i][place] = l[n]
          BY <3>5, <5>1
        <5>. HIDE DEF len
        <5>3. place \in 1..(len + 1)
          BY <4>0, <5>1
        <5>. QED
          BY <3>5, <5>2, <5>3 DEF place, len
      <4>. QED
        BY <3>2, <4>1, <4>2
    <3>7. Len(f[i]) = Cardinality(Upto(i))
      <4>. HIDE DEF U, g, Upto
      <4>. QED
        BY <3>3, <3>4, <3>5
    <3>. QED
      BY <2>3, <3>5, <3>6, <3>7
  <2>8. CASE ~Usable(c, l[i])
    <3>1. f[i] = g
      BY <2>3, <2>4, <2>8
    <3>2. Upto(i) = U
      BY <2>4, <2>6, <2>8 DEF UsableUpto
    <3>. QED
      BY <2>3, <2>5, <3>1, <3>2
  <2>. QED
    BY <2>7, <2>8
<1>5. Holds_(N)
  <2>1. N \in 0..N
    BY <1>1
  <2> HIDE DEF Holds_
  <2>. QED
    BY <1>4, <2>1
<1>. QED
  BY <1>2, <1>5

(* The maximum of naturals that are bounded is one of them. *)
LEMMA MaxIs ==
    ASSUME NEW S \in SUBSET Nat, NEW n \in Nat, \A x \in S : x <= n, S # {}
    PROVE  Max(S) \in S /\ \A x \in S : x <= Max(S)
<1> DEFINE T == {k \in Nat : \A x \in S : x <= k}
<1>1. T # {} /\ T \in SUBSET Nat
  OBVIOUS
<1> HIDE DEF T
<1>2. PICK k \in T : \A j \in T : k <= j
  BY <1>1, LeastNumber
<1>3. k \in Nat /\ \A x \in S : x \in Nat /\ x <= k
  BY <1>2 DEF T
<1>4. k \in S
  <2>. SUFFICES ASSUME k \notin S PROVE FALSE
    OBVIOUS
  <2>1. \A x \in S : x < k
    BY <1>3
  <2>2. k - 1 \in Nat /\ \A x \in S : x <= k - 1
    <3>1. PICK y \in S : TRUE
      OBVIOUS
    <3>2. y \in Nat /\ y < k /\ k \in Nat
      BY <1>3, <2>1
    <3>. QED
      BY <1>3, <2>1, <3>2
  <2>3. k - 1 \in T
    BY <2>2 DEF T
  <2>. QED
    BY <1>2, <1>3, <2>3
<1>5. \E x \in S : \A y \in S : x >= y
  BY <1>3, <1>4
<1>6. Max(S) \in S /\ \A y \in S : Max(S) >= y
  BY <1>5 DEF Max
<1>. QED
  BY <1>3, <1>6

(* A document that was found and parsed. *)
IsFull(d) ==
    /\ \A v \in {d.max_dashboards, d.keepalive, d.interval, d.refresh, d.speed} : v \in Values
    /\ d.strs \in [StrKeys -> {"none", "fits", "long"}]
    /\ d.ranges.l \in Seq(Durations)
    /\ d.alerts.l \in Seq(AlertTables)

(* What holds of the config_t between two sections of config_load: its     *)
(* fields; the numbers within their limits; every range usable and every   *)
(* alert with an action, none of them cut without too_long being set.      *)
Shape(c) ==
    DOMAIN c = {"rc", "too_long", "strs", "max_dashboards", "keepalive", "interval", "refresh",
                "insecure", "unit", "net_max_speed", "charts", "ranges", "alerts"}

NumbersOk(c) ==
    /\ c.max_dashboards \in 1..256 /\ c.keepalive \in 1..INT_MAX
    /\ c.interval \in Int /\ c.interval >= 1 /\ c.interval <= 3600
    /\ c.refresh \in 1..INT_MAX

RangesOk(c) ==
    /\ c.ranges \in Seq(Durations) /\ c.ranges # <<>>
    /\ \A k \in DOMAIN c.ranges : Usable(c, c.ranges[k])
    /\ \A k \in DOMAIN c.ranges : c.ranges[k].fits = 1 \/ c.too_long = 1

AlertsOk(c) ==
    \A k \in DOMAIN c.alerts :
       LET a == c.alerts[k]
       IN  /\ a.webhook = "fits" \/ a.command = "fits"
           /\ a.webhook = "long" \/ a.command = "long" => c.too_long = 1

(* The keys of K have been copied. *)
StrsOk(c, d, K) ==
    /\ \A k \in K : d.strs[k] = "long" => c.too_long = 1
    /\ c.strs = [k \in StrKeys |-> IF k \in K /\ d.strs[k] = "fits" THEN "set" ELSE "default"]

(* And it was not refused.  Each section keeps this, with the keys it      *)
(* copies added to K.                                                      *)
Loading(c, d, K) ==
    Shape(c) /\ c.rc = 0 /\ NumbersOk(c) /\ RangesOk(c) /\ AlertsOk(c) /\ StrsOk(c, d, K)

LEMMA UsableIs ==
    ASSUME NEW c, NEW e, NEW x, c.interval = e.interval
    PROVE  Usable(c, x) = Usable(e, x)
  BY DEF Usable

(* What a section leaves alone is as it was. *)
LEMMA LeftAlone ==
    ASSUME NEW c, NEW d, NEW K, Loading(c, d, K), NEW e,
           Shape(e), e.rc = 0, e.too_long = c.too_long \/ e.too_long = 1,
           e.interval = c.interval
    PROVE  /\ e.ranges = c.ranges => RangesOk(e)
           /\ e.alerts = c.alerts => AlertsOk(e)
           /\ e.strs = c.strs => StrsOk(e, d, K)
<1>1. \A x : Usable(c, x) = Usable(e, x)
  BY UsableIs
<1>. QED
  BY <1>1 DEF Loading, RangesOk, AlertsOk, StrsOk

LEMMA LongIs ==
    ASSUME NEW c, Shape(c), NEW V
    PROVE  /\ Shape(Long(c, V))
           /\ Long(c, V).too_long = IF "long" \in V THEN 1 ELSE c.too_long
           /\ \A x \in DOMAIN c \ {"too_long"} : Long(c, V)[x] = c[x]
  BY DEF Long, Shape

LEMMA CopyIs ==
    ASSUME NEW c, NEW d, NEW K, Loading(c, d, K), IsFull(d), NEW k \in StrKeys, k \notin K
    PROVE  /\ Shape(str_copy(c, d, k))
           /\ StrsOk(str_copy(c, d, k), d, K \cup {k})
           /\ str_copy(c, d, k).too_long \in {c.too_long, 1}
           /\ \A x \in DOMAIN c \ {"too_long", "strs"} : str_copy(c, d, k)[x] = c[x]
<1> DEFINE e == str_copy(c, d, k)
           b == Long(c, {d.strs[k]})
<1>1. Shape(c) /\ StrsOk(c, d, K) /\ d.strs[k] \in {"none", "fits", "long"}
  BY DEF Loading, IsFull
<1>2. /\ Shape(b) /\ b.too_long = IF d.strs[k] = "long" THEN 1 ELSE c.too_long
      /\ \A x \in DOMAIN c \ {"too_long"} : b[x] = c[x]
  BY <1>1, LongIs
<1>3. e = [b EXCEPT !.strs[k] = IF d.strs[k] = "fits" THEN "set" ELSE @]
  BY DEF str_copy
<1> HIDE DEF e, b
<1>4. Shape(e) /\ \A x \in DOMAIN b \ {"strs"} : e[x] = b[x]
  BY <1>2, <1>3 DEF Shape
<1>5. e.strs = [c.strs EXCEPT ![k] = IF d.strs[k] = "fits" THEN "set" ELSE @]
  BY <1>1, <1>2, <1>3 DEF Shape
<1>6. e.strs = [j \in StrKeys |->
                  IF j \in K \cup {k} /\ d.strs[j] = "fits" THEN "set" ELSE "default"]
  BY <1>1, <1>5 DEF StrsOk
<1>7. e.too_long = b.too_long
  BY <1>2, <1>4 DEF Shape
<1>8. \A j \in K \cup {k} : d.strs[j] = "long" => e.too_long = 1
  BY <1>1, <1>2, <1>7 DEF StrsOk
<1>9. \A x \in DOMAIN c \ {"too_long", "strs"} : e[x] = c[x]
  BY <1>1, <1>2, <1>4 DEF Shape
<1>. QED
  BY <1>2, <1>4, <1>6, <1>7, <1>8, <1>9 DEF StrsOk, e

LEMMA IntMax == INT_MAX \in Nat /\ INT_MAX > 3600
  BY SMT DEF INT_MAX

LEMMA DaysUsable ==
    ASSUME NEW c, c.interval \in Int, c.interval <= 3600, NEW n \in {1, 7, 30, 90}
    PROVE  Usable(c, Duration(n, "d"))
<1> DEFINE x == Duration(n, "d")
<1>1. x.n = n /\ x.u = "d"
  BY DEF Duration
<1> HIDE DEF x
<1>2. UnitCap[x.u] = 3653 /\ UnitSeconds[x.u] = 86400 /\ x.u \in DOMAIN UnitCap
  BY <1>1 DEF UnitCap, UnitSeconds
<1> DEFINE s == n * 86400
<1>3. n \in 1..3653 /\ s \in Nat /\ s >= 3600
  OBVIOUS
<1>4. parse_duration(x) = s
  BY <1>1, <1>2, <1>3 DEF parse_duration
<1> HIDE DEF s
<1>5. valid_range(x)
  BY <1>1, <1>3 DEF valid_range
<1>6. range_in_bounds(x)
  BY <1>1, <1>3 DEF range_in_bounds
<1>7. parse_duration(x) >= c.interval
  BY ONLY <1>3, <1>4, c.interval \in Int, c.interval <= 3600
<1>. QED
  BY <1>5, <1>6, <1>7 DEF Usable, x

LEMMA DefaultsLoad ==
    ASSUME NEW d
    PROVE  Loading(Defaults, d, {}) /\ Defaults.interval = 60
<1>2. Shape(Defaults)
  BY DEF Shape, Defaults
<1>3. Defaults.rc = 0 /\ NumbersOk(Defaults) /\ AlertsOk(Defaults) /\ StrsOk(Defaults, d, {})
  BY IntMax DEF Defaults, NumbersOk, AlertsOk, StrsOk
<1>4. RangesOk(Defaults)
  <2>0. Defaults.interval \in Int /\ Defaults.interval <= 3600
    BY DEF Defaults
  <2>1. \A n \in {1, 7, 30, 90} : Usable(Defaults, Duration(n, "d"))
    BY <2>0, DaysUsable
  <2>4. \A n \in {1, 7, 30, 90} : Duration(n, "d").fits = 1
    BY DEF Duration
  <2>2. Defaults.ranges =
          <<Duration(1, "d"), Duration(7, "d"), Duration(30, "d"), Duration(90, "d")>>
    BY DEF Defaults
  <2>3. \A n \in {1, 7, 30, 90} : Duration(n, "d") \in Durations
    BY DEF Duration, Durations, UnitSeconds
  <2>. QED
    BY <2>1, <2>2, <2>3, <2>4 DEF RangesOk
<1>. QED
  BY <1>2, <1>3, <1>4 DEF Loading, Defaults

LEMMA RefusedRc == ASSUME NEW c, Shape(c) PROVE Refused(c).rc = -1
  BY DEF Refused, Shape

LEMMA ServerLoads ==
    ASSUME NEW d, IsFull(d), NEW c, Loading(c, d, {}), Server(c, d).rc = 0
    PROVE  /\ Loading(Server(c, d), d, {"listen"})
           /\ Server(c, d).ranges = c.ranges /\ Server(c, d).alerts = c.alerts
<1> DEFINE e == Server(c, d)
           b == str_copy(c, d, "listen")
           md == d.max_dashboards
           ka == d.keepalive
<1>1. Shape(c) /\ c.rc = 0 /\ NumbersOk(c)
  BY DEF Loading
<1>2. /\ Shape(b) /\ StrsOk(b, d, {"listen"})
      /\ b.too_long \in {c.too_long, 1}
      /\ \A x \in DOMAIN c \ {"too_long", "strs"} : b[x] = c[x]
  <2>1. "listen" \in StrKeys /\ "listen" \notin {} /\ {} \cup {"listen"} = {"listen"}
    BY DEF StrKeys
  <2> HIDE DEF b
  <2>2. /\ Shape(b) /\ StrsOk(b, d, {} \cup {"listen"})
        /\ b.too_long \in {c.too_long, 1}
        /\ \A x \in DOMAIN c \ {"too_long", "strs"} : b[x] = c[x]
    BY <2>1, CopyIs DEF b
  <2>. QED
    BY <2>1, <2>2
<1>3. ~(IsInt(md) /\ md.n < 1)
  BY <1>1, RefusedRc DEF Server
<1>4. e = [b EXCEPT !.max_dashboards = IF IsInt(md) /\ md.n <= 256 THEN md.n ELSE @,
                    !.keepalive = IF IsInt(ka) /\ ka.n > 0 THEN to_int(ka) ELSE @]
  BY <1>3 DEF Server
<1>5. md \in Values /\ ka \in Values
  BY DEF IsFull
<1> HIDE DEF b, e
<1>6. b.max_dashboards \in 1..256 /\ b.keepalive \in 1..INT_MAX
      /\ b.interval = c.interval /\ b.refresh = c.refresh
      /\ b.ranges = c.ranges /\ b.alerts = c.alerts /\ b.rc = 0
  BY <1>1, <1>2 DEF Shape, NumbersOk
<1>7. Shape(e) /\ \A x \in DOMAIN b \ {"max_dashboards", "keepalive"} : e[x] = b[x]
  BY <1>2, <1>4 DEF Shape
<1>8. e.max_dashboards \in 1..256
  BY <1>2, <1>3, <1>4, <1>5, <1>6 DEF Shape, Values
<1>9. e.keepalive \in 1..INT_MAX
  BY <1>2, <1>4, <1>5, <1>6, IntMax DEF Shape, Values, to_int, IsInt
<1>10. /\ e.interval = c.interval /\ e.refresh = c.refresh /\ e.rc = 0
       /\ e.ranges = c.ranges /\ e.alerts = c.alerts
       /\ e.strs = b.strs /\ e.too_long = b.too_long
  <2>1. \A x \in {"interval", "refresh", "rc", "ranges", "alerts", "strs", "too_long"} : e[x] = b[x]
    BY <1>2, <1>7 DEF Shape
  <2>. QED
    BY <1>6, <2>1
<1>11. NumbersOk(e)
  BY <1>1, <1>8, <1>9, <1>10 DEF NumbersOk
<1>12. StrsOk(e, d, {"listen"})
  BY <1>2, <1>10 DEF StrsOk
<1>13. RangesOk(e) /\ AlertsOk(e)
  BY <1>2, <1>7, <1>10, LeftAlone
<1>. QED
  BY <1>7, <1>10, <1>11, <1>12, <1>13 DEF Loading, e

LEMMA IntervalLoads ==
    ASSUME NEW d, IsFull(d), NEW K, NEW c, Loading(c, d, K), Interval(c, d).rc = 0,
           c.ranges = Defaults.ranges, c.alerts = <<>>
    PROVE  Loading(Interval(c, d), d, K)
<1> DEFINE e == Interval(c, d)
           v == d.interval
<1>1. Shape(c) /\ c.rc = 0 /\ NumbersOk(c) /\ StrsOk(c, d, K)
  BY DEF Loading
<1>2. ~(v.t = "string" \/ (IsInt(v) /\ v.n < 1))
  BY <1>1, RefusedRc DEF Interval
<1>3. e = [c EXCEPT !.interval = IF ~IsInt(v) THEN @ ELSE IF v.n > 3600 THEN 3600 ELSE v.n]
  BY <1>2 DEF Interval
<1>4. v \in Values
  BY DEF IsFull
<1> HIDE DEF e
<1>5. Shape(e) /\ \A x \in DOMAIN c \ {"interval"} : e[x] = c[x]
  BY <1>1, <1>3 DEF Shape
<1>6. e.interval \in Int /\ e.interval >= 1 /\ e.interval <= 3600
  <2>1. e.interval = IF ~IsInt(v) THEN c.interval ELSE IF v.n > 3600 THEN 3600 ELSE v.n
    BY <1>1, <1>3 DEF Shape
  <2>2. c.interval \in Int /\ c.interval >= 1 /\ c.interval <= 3600 /\ v.n \in Int
    BY <1>1, <1>4 DEF NumbersOk, Values
  <2>. QED
    BY <1>2, <2>1, <2>2 DEF IsInt
<1>7. /\ e.max_dashboards = c.max_dashboards /\ e.keepalive = c.keepalive
      /\ e.refresh = c.refresh /\ e.rc = 0 /\ e.ranges = c.ranges /\ e.alerts = <<>>
      /\ e.strs = c.strs /\ e.too_long = c.too_long
  BY <1>1, <1>5 DEF Shape
<1>8. NumbersOk(e) /\ StrsOk(e, d, K) /\ AlertsOk(e)
  BY <1>1, <1>6, <1>7 DEF NumbersOk, StrsOk, AlertsOk
<1>9. RangesOk(e)
  <2>1. e.ranges \in Seq(Durations) /\ e.ranges # <<>>
        /\ \A k \in DOMAIN e.ranges : e.ranges[k].fits = 1 \/ e.too_long = 1
    BY <1>7 DEF Loading, RangesOk
  <2>2. \A n \in {1, 7, 30, 90} : Usable(e, Duration(n, "d"))
    BY <1>6, DaysUsable
  <2>3. \A k \in DOMAIN e.ranges : Usable(e, e.ranges[k])
    BY <1>7, <2>2 DEF Defaults
  <2>. QED
    BY <2>1, <2>3 DEF RangesOk
<1>. QED
  BY <1>5, <1>7, <1>8, <1>9 DEF Loading, e

LEMMA CopyLoads ==
    ASSUME NEW d, IsFull(d), NEW K, NEW c, Loading(c, d, K), NEW k \in StrKeys, k \notin K
    PROVE  Loading(str_copy(c, d, k), d, K \cup {k})
<1> DEFINE e == str_copy(c, d, k)
<1>1. /\ Shape(c) /\ Shape(e) /\ StrsOk(e, d, K \cup {k}) /\ e.too_long \in {c.too_long, 1}
      /\ \A x \in DOMAIN c \ {"too_long", "strs"} : e[x] = c[x]
  BY CopyIs DEF Loading
<1> HIDE DEF e
<1>2. /\ e.rc = c.rc /\ e.interval = c.interval /\ e.ranges = c.ranges /\ e.alerts = c.alerts
      /\ e.max_dashboards = c.max_dashboards /\ e.keepalive = c.keepalive /\ e.refresh = c.refresh
  BY <1>1 DEF Shape
<1>3. RangesOk(e) /\ AlertsOk(e)
  BY <1>1, <1>2, LeftAlone DEF Loading
<1>. QED
  BY <1>1, <1>2, <1>3 DEF Loading, NumbersOk, e

LEMMA CollectLoads ==
    ASSUME NEW d, IsFull(d), NEW K, NEW c, Loading(c, d, K), Collect(c, d).rc = 0,
           "db" \notin K, "disk_path" \notin K
    PROVE  Loading(Collect(c, d), d, K \cup {"db", "disk_path"})
<1>1. Loading(str_copy(c, d, "db"), d, K \cup {"db"})
  BY CopyLoads DEF StrKeys
<1>2. Loading(str_copy(str_copy(c, d, "db"), d, "disk_path"), d, (K \cup {"db"}) \cup {"disk_path"})
  BY <1>1, CopyLoads DEF StrKeys
<1>3. Collect(c, d) = str_copy(str_copy(c, d, "db"), d, "disk_path")
  BY RefusedRc DEF Collect, Loading
<1>4. (K \cup {"db"}) \cup {"disk_path"} = K \cup {"db", "disk_path"}
  OBVIOUS
<1>. QED
  BY <1>2, <1>3, <1>4

LEMMA WebhookLoads ==
    ASSUME NEW d, IsFull(d), NEW K, NEW c, Loading(c, d, K), Webhook(c, d).rc = 0,
           "ca_file" \notin K
    PROVE  Loading(Webhook(c, d), d, K \cup {"ca_file"})
<1> DEFINE e == Webhook(c, d)
           b == str_copy(c, d, "ca_file")
<1>1. Loading(b, d, K \cup {"ca_file"})
  BY CopyLoads DEF StrKeys
<1>2. e = [b EXCEPT !.insecure = d.insecure]
  BY RefusedRc DEF Webhook, Loading
<1> HIDE DEF b, e
<1>3. Shape(e) /\ \A x \in DOMAIN b \ {"insecure"} : e[x] = b[x]
  BY <1>1, <1>2 DEF Loading, Shape
<1>4. \A x \in {"rc", "too_long", "strs", "max_dashboards", "keepalive", "interval", "refresh",
                "ranges", "alerts"} : e[x] = b[x]
  BY <1>1, <1>3 DEF Loading, Shape
<1>5. NumbersOk(e)
  BY <1>1, <1>4 DEF Loading, NumbersOk
<1>6. RangesOk(e) /\ AlertsOk(e) /\ StrsOk(e, d, K \cup {"ca_file"}) /\ e.rc = 0
  <2>1. b.rc = 0
    BY <1>1 DEF Loading
  <2>. QED
    BY <1>1, <1>3, <1>4, <2>1, LeftAlone
<1>. QED
  BY <1>3, <1>5, <1>6 DEF Loading, e

LEMMA ChartsIs ==
    ASSUME NEW c, NEW d, Shape(c)
    PROVE  /\ Shape(Charts(c, d)) /\ Charts(c, d).too_long \in {c.too_long, 1}
           /\ \A x \in DOMAIN c \ {"too_long", "charts"} : Charts(c, d)[x] = c[x]
<1>1. ASSUME NEW b, Shape(b), b.too_long \in {c.too_long, 1},
             \A x \in DOMAIN c \ {"too_long", "charts"} : b[x] = c[x],
             NEW n, NEW e, e = [b EXCEPT !.charts = n]
      PROVE  /\ Shape(e) /\ e.too_long \in {c.too_long, 1}
             /\ \A x \in DOMAIN c \ {"too_long", "charts"} : e[x] = c[x]
  BY <1>1 DEF Shape
<1>2. ASSUME NEW V
      PROVE  /\ Shape(Long(c, V)) /\ Long(c, V).too_long \in {c.too_long, 1}
             /\ \A x \in DOMAIN c \ {"too_long", "charts"} : Long(c, V)[x] = c[x]
  BY LongIs
<1>3. CASE d.charts.t # "list"
  BY <1>3 DEF Charts
<1>4. CASE d.charts.t = "list" /\ d.charts.l = <<>>
  BY <1>1, <1>4 DEF Charts
<1>5. CASE d.charts.t = "list" /\ d.charts.l # <<>>
  <2>1. \E V, n : Charts(c, d) = [Long(c, V) EXCEPT !.charts = n]
    BY <1>5 DEF Charts
  <2>. QED
    BY <1>1, <1>2, <2>1
<1>. QED
  BY <1>3, <1>4, <1>5

LEMMA DashboardLoads ==
    ASSUME NEW d, IsFull(d), NEW K, NEW c, Loading(c, d, K), "title" \notin K
    PROVE  /\ Loading(Dashboard(c, d), d, K \cup {"title"})
<1> DEFINE a == str_copy(c, d, "title")
           b == [a EXCEPT
              !.refresh = IF IsInt(d.refresh) /\ d.refresh.n > 0 THEN to_int(d.refresh) ELSE @,
              !.unit = IF d.unit = "known" THEN "set" ELSE @,
              !.net_max_speed =
                 IF IsInt(d.speed) /\ d.speed.n \in Speeds THEN d.speed.n ELSE @]
           e == Dashboard(c, d)
<1>1. Loading(a, d, K \cup {"title"})
  BY CopyLoads DEF StrKeys
<1>2. e = Charts(b, d)
  BY DEF Dashboard
<1> HIDE DEF a, e
<1>3. Shape(b) /\ \A x \in DOMAIN a \ {"refresh", "unit", "net_max_speed"} : b[x] = a[x]
  BY <1>1 DEF Loading, Shape
<1>4. b.refresh = IF IsInt(d.refresh) /\ d.refresh.n > 0 THEN to_int(d.refresh) ELSE a.refresh
  BY <1>1 DEF Loading, Shape
<1> HIDE DEF b
<1>5. b.refresh \in 1..INT_MAX
  <2>1. a.refresh \in 1..INT_MAX /\ d.refresh \in Values
    BY <1>1 DEF Loading, NumbersOk, IsFull
  <2>. QED
    BY <1>4, <2>1, IntMax DEF Values, to_int, IsInt
<1>6. /\ Shape(e) /\ e.too_long \in {b.too_long, 1}
      /\ \A x \in DOMAIN b \ {"too_long", "charts"} : e[x] = b[x]
  BY <1>2, <1>3, ChartsIs
<1>7. \A x \in {"rc", "too_long", "strs", "max_dashboards", "keepalive", "interval",
                "ranges", "alerts"} : b[x] = a[x]
  BY <1>1, <1>3 DEF Loading, Shape
<1>8. \A x \in {"rc", "strs", "max_dashboards", "keepalive", "interval", "refresh",
                "ranges", "alerts"} : e[x] = b[x]
  BY <1>3, <1>6 DEF Shape
<1>9. NumbersOk(e)
  BY <1>1, <1>5, <1>7, <1>8 DEF Loading, NumbersOk
<1>10. RangesOk(e) /\ AlertsOk(e) /\ StrsOk(e, d, K \cup {"title"}) /\ e.rc = 0
  <2>1. a.rc = 0 /\ Shape(a)
    BY <1>1 DEF Loading
  <2>2. \A x \in {"rc", "strs", "interval", "ranges", "alerts"} : e[x] = a[x]
    BY <1>7, <1>8
  <2>3. e.too_long = a.too_long \/ e.too_long = 1
    BY <1>6, <1>7
  <2>. QED
    BY <1>1, <1>6, <2>1, <2>2, <2>3, LeftAlone
<1>. QED
  BY <1>6, <1>9, <1>10 DEF Loading, e

(* What the two sections with lists make of them. *)
RangesAs(c, d) == d.ranges.t = "list" /\ d.ranges.l # <<>> => Listed(d.ranges.l, c)

AlertsAs(c, d) ==
    d.alerts.t = "list" =>
       /\ DOMAIN c.alerts = DOMAIN d.alerts.l
       /\ \A k \in DOMAIN c.alerts :
            /\ SameAlert(c.alerts[k], d.alerts.l[k])
            /\ d.alerts.l[k].name = "fits" \/ c.too_long = 1

(* It stands as long as the ranges and the interval do. *)
LEMMA RangesStand ==
    ASSUME NEW c, NEW d, RangesAs(c, d), NEW e,
           e.ranges = c.ranges, e.interval = c.interval
    PROVE  RangesAs(e, d)
<1> DEFINE Upto(b, n) == UsableUpto(b, d.ranges.l, n)
<1>1. \A x : Usable(c, x) = Usable(e, x)
  BY UsableIs
<1>2. \A n : Upto(c, n) = Upto(e, n)
  BY <1>1 DEF UsableUpto
<1>. QED
  BY <1>2 DEF RangesAs, Listed

LEMMA RangesLoads ==
    ASSUME NEW d, IsFull(d), NEW K, NEW c, Loading(c, d, K), Ranges(c, d).rc = 0
    PROVE  Loading(Ranges(c, d), d, K) /\ RangesAs(Ranges(c, d), d)
<1> DEFINE kept == UsableOf(c, d.ranges.l)
           e == Ranges(c, d)
<1>1. Shape(c) /\ c.rc = 0
  BY DEF Loading
<1>2. CASE d.ranges.t # "list" \/ d.ranges.l = <<>>
  <2>1. e = c
    BY <1>2 DEF Ranges
  <2>. QED
    BY <1>2, <2>1 DEF RangesAs
<1>3. CASE ~(d.ranges.t # "list" \/ d.ranges.l = <<>>)
  <2>1. ~(Len(d.ranges.l) > MAX_RANGES) /\ kept # <<>>
    BY <1>1, <1>3, RefusedRc DEF Ranges
  <2>2. e = [c EXCEPT !.ranges = kept,
                      !.too_long = IF \E k \in DOMAIN kept : kept[k].fits = 0 THEN 1 ELSE @]
    BY <1>3, <2>1 DEF Ranges
  <2>3. kept \in Seq({x \in Durations : Usable(c, x)})
    BY UsableOfType DEF IsFull
  <2> HIDE DEF e, kept
  <2>4. Shape(e) /\ \A x \in DOMAIN c \ {"ranges", "too_long"} : e[x] = c[x]
    BY <1>1, <2>2 DEF Shape
  <2>5. /\ e.ranges = kept
        /\ e.too_long = IF \E k \in DOMAIN kept : kept[k].fits = 0 THEN 1 ELSE c.too_long
    BY <1>1, <2>2 DEF Shape
  <2>6. \A x \in {"rc", "strs", "max_dashboards", "keepalive", "interval", "refresh",
                  "alerts"} : e[x] = c[x]
    BY <1>1, <2>4 DEF Shape
  <2>7. \A k \in DOMAIN kept : kept[k] \in Durations /\ Usable(c, kept[k])
    BY <2>3
  <2>8. kept \in Seq(Durations)
    BY <2>3
  <2>9. RangesOk(e)
    <3>1. \A x : Usable(c, x) = Usable(e, x)
      BY <2>6, UsableIs
    <3>2. \A k \in DOMAIN kept : kept[k].fits \in {0, 1}
      BY <2>7 DEF Durations
    <3>3. \A k \in DOMAIN kept : kept[k].fits = 1 \/ e.too_long = 1
      BY <2>5, <3>2
    <3>. QED
      BY <2>1, <2>5, <2>7, <2>8, <3>1, <3>3 DEF RangesOk
  <2>10. AlertsOk(e) /\ StrsOk(e, d, K) /\ e.rc = 0
    BY <1>1, <2>4, <2>5, <2>6, LeftAlone
  <2>11. NumbersOk(e)
    BY <2>6 DEF Loading, NumbersOk
  <2>12. Listed(d.ranges.l, e)
    <3> DEFINE l == d.ranges.l
               Upto(b, n) == UsableUpto(b, l, n)
    <3>1. Len(l) <= MAX_RANGES /\ l \in Seq(Durations)
      BY <2>1, ConfigAssumption DEF IsFull
    <3>2. /\ Len(kept) = Cardinality(Upto(c, Len(l)))
          /\ \A n \in Upto(c, Len(l)) : kept[Cardinality(Upto(c, n))] = l[n]
      <4>1. d.ranges.l \in Seq(Durations)
        BY <3>1
      <4>. QED
        BY ONLY <4>1, UsableOfAll DEF kept
    <3>3. \A x : Usable(c, x) = Usable(e, x)
      BY <2>6, UsableIs
    <3>4. \A n : Upto(c, n) = Upto(e, n)
      BY <3>3 DEF UsableUpto
    <3>. QED
      BY <2>5, <3>1, <3>2, <3>4 DEF Listed
  <2>. QED
    BY <2>4, <2>9, <2>10, <2>11, <2>12 DEF Loading, RangesAs, e
<1>. QED
  BY <1>2, <1>3

LEMMA AlertsLoads ==
    ASSUME NEW d, IsFull(d), NEW K, NEW c, Loading(c, d, K), Alerts(c, d).rc = 0
    PROVE  /\ Loading(Alerts(c, d), d, K)
           /\ AlertsAs(Alerts(c, d), d)
           /\ Alerts(c, d).ranges = c.ranges /\ Alerts(c, d).interval = c.interval
<1> DEFINE l == d.alerts.l
           e == Alerts(c, d)
           V == UNION {{l[k].name, l[k].webhook, l[k].command} : k \in DOMAIN l}
           b == Long(c, V)
<1>1. Shape(c) /\ c.rc = 0
  BY DEF Loading
<1>2. CASE d.alerts.t = "none"
  BY <1>2 DEF Alerts, AlertsAs
<1>3. CASE d.alerts.t # "none"
  <2>1. \A k \in DOMAIN l : ~BadAlert(l[k])
    BY <1>1, <1>3, RefusedRc DEF Alerts
  <2>2. e = [b EXCEPT !.alerts = [k \in DOMAIN l |-> AlertOf(l[k])]]
    BY <1>1, <1>3, RefusedRc DEF Alerts
  <2>3. /\ Shape(b) /\ b.too_long = IF "long" \in V THEN 1 ELSE c.too_long
        /\ \A x \in DOMAIN c \ {"too_long"} : b[x] = c[x]
    BY <1>1, LongIs
  <2>4. \A k \in DOMAIN l : l[k].webhook \in V /\ l[k].command \in V /\ l[k].name \in V
    OBVIOUS
  <2> HIDE DEF e, b, V
  <2>5. Shape(e) /\ e.alerts = [k \in DOMAIN l |-> AlertOf(l[k])]
        /\ \A x \in DOMAIN b \ {"alerts"} : e[x] = b[x]
    BY <2>2, <2>3 DEF Shape
  <2>6. \A x \in {"rc", "strs", "max_dashboards", "keepalive", "interval", "refresh",
                  "ranges"} : e[x] = c[x]
    BY <1>1, <2>3, <2>5 DEF Shape
  <2>7. e.too_long = b.too_long
    BY <2>3, <2>5 DEF Shape
  <2>8. AlertsOk(e)
    <3>. SUFFICES ASSUME NEW k \in DOMAIN l
                  PROVE  LET a == AlertOf(l[k])
                         IN  /\ a.webhook = "fits" \/ a.command = "fits"
                             /\ a.webhook = "long" \/ a.command = "long" => e.too_long = 1
      BY <2>5 DEF AlertsOk
    <3>1. AlertOf(l[k]).webhook = l[k].webhook /\ AlertOf(l[k]).command = l[k].command
      BY DEF AlertOf
    <3>2. l[k].webhook = "fits" \/ l[k].command = "fits"
      BY <2>1 DEF BadAlert
    <3>. QED
      BY <2>3, <2>4, <2>7, <3>1, <3>2
  <2>9. RangesOk(e) /\ StrsOk(e, d, K) /\ e.rc = 0
    BY <1>1, <2>3, <2>5, <2>6, <2>7, LeftAlone
  <2>10. NumbersOk(e)
    BY <2>6 DEF Loading, NumbersOk
  <2>11. \A k \in DOMAIN l : SameAlert(AlertOf(l[k]), l[k])
    BY DEF SameAlert, AlertOf
  <2>12. \A k \in DOMAIN l : l[k].name = "fits" \/ e.too_long = 1
    <3>. SUFFICES ASSUME NEW k \in DOMAIN l, l[k].name # "fits" PROVE e.too_long = 1
      OBVIOUS
    <3>1. l[k] \in AlertTables
      BY DEF IsFull
    <3>2. l[k].name = "long"
      BY <3>1 DEF AlertTables
    <3>. QED
      BY <2>3, <2>4, <2>7, <3>2
  <2>13. AlertsAs(e, d)
    BY <2>5, <2>11, <2>12 DEF AlertsAs
  <2>. QED
    BY <2>5, <2>6, <2>8, <2>9, <2>10, <2>13 DEF Loading, e
<1>. QED
  BY <1>2, <1>3

LEMMA ClampLoads ==
    ASSUME NEW d, NEW K, NEW c, Loading(c, d, K), Clamp(c, d).rc = 0
    PROVE  /\ Loading(Clamp(c, d), d, K) /\ Clamp(c, d).too_long # 1
           /\ Clamp(c, d).refresh <= Clamp(c, d).interval
           /\ Clamp(c, d).alerts = c.alerts /\ Clamp(c, d).ranges = c.ranges
           /\ Clamp(c, d).interval = c.interval /\ Clamp(c, d).too_long = c.too_long
<1> DEFINE e == Clamp(c, d)
<1>1. Shape(c) /\ c.rc = 0 /\ NumbersOk(c)
  BY DEF Loading
<1>2. c.too_long # 1
  BY <1>1, RefusedRc DEF Clamp
<1>3. e = [c EXCEPT !.refresh = IF @ > c.interval THEN c.interval ELSE @]
  BY <1>2 DEF Clamp
<1> HIDE DEF e
<1>4. /\ Shape(e) /\ \A x \in DOMAIN c \ {"refresh"} : e[x] = c[x]
      /\ e.refresh = IF c.refresh > c.interval THEN c.interval ELSE c.refresh
  BY <1>1, <1>3 DEF Shape
<1>5. \A x \in {"rc", "too_long", "strs", "max_dashboards", "keepalive", "interval",
                "ranges", "alerts"} : e[x] = c[x]
  BY <1>1, <1>4 DEF Shape
<1>6. e.refresh \in 1..INT_MAX /\ e.refresh <= e.interval
  BY <1>1, <1>4, <1>5, IntMax DEF NumbersOk
<1>7. NumbersOk(e)
  BY <1>1, <1>5, <1>6 DEF NumbersOk
<1>8. RangesOk(e) /\ AlertsOk(e) /\ StrsOk(e, d, K) /\ e.rc = 0
  BY <1>1, <1>4, <1>5, LeftAlone
<1>. QED
  BY <1>2, <1>4, <1>5, <1>6, <1>7, <1>8 DEF Loading, e

LEMMA Parsed ==
    ASSUME NEW d, config_load(d).rc = 0
    PROVE  d.parses # 0
<1>. SUFFICES ASSUME d.parses = 0 PROVE FALSE
  OBVIOUS
<1>1. config_load(d) = Refused(Defaults)
  BY DEF config_load
<1>2. Shape(Defaults)
  BY DefaultsLoad DEF Loading
<1>. QED
  BY ONLY config_load(d).rc = 0, <1>1, <1>2, RefusedRc

(* A document that config_load accepts has been through every section. *)
LEMMA DocumentLoads ==
    ASSUME NEW d, IsFull(d), config_load(d).rc = 0
    PROVE  /\ Loading(config_load(d), d, StrKeys) /\ config_load(d).too_long # 1
           /\ config_load(d).refresh <= config_load(d).interval
           /\ AlertsAs(config_load(d), d) /\ RangesAs(config_load(d), d)
<1> DEFINE c1 == Then(Defaults, Server, d)
           c2 == Then(c1, Interval, d)
           c3 == Then(c2, Collect, d)
           c4 == Then(c3, Webhook, d)
           c5 == Then(c4, Dashboard, d)
           c6 == Then(c5, Ranges, d)
           c7 == Then(c6, Alerts, d)
           c8 == Then(c7, Clamp, d)
<1>1. config_load(d) = c8
  BY Parsed, Zenon DEF config_load
<1>2. /\ c1 = IF Defaults.rc # 0 THEN Defaults ELSE Server(Defaults, d)
      /\ c2 = IF c1.rc # 0 THEN c1 ELSE Interval(c1, d)
      /\ c3 = IF c2.rc # 0 THEN c2 ELSE Collect(c2, d)
      /\ c4 = IF c3.rc # 0 THEN c3 ELSE Webhook(c3, d)
      /\ c5 = IF c4.rc # 0 THEN c4 ELSE Dashboard(c4, d)
      /\ c6 = IF c5.rc # 0 THEN c5 ELSE Ranges(c5, d)
      /\ c7 = IF c6.rc # 0 THEN c6 ELSE Alerts(c6, d)
      /\ c8 = IF c7.rc # 0 THEN c7 ELSE Clamp(c7, d)
  <2> HIDE DEF c1, c2, c3, c4, c5, c6, c7
  <2>1. c1 = IF Defaults.rc # 0 THEN Defaults ELSE Server(Defaults, d)
    BY Zenon DEF Then, c1
  <2>2. c2 = IF c1.rc # 0 THEN c1 ELSE Interval(c1, d)
    BY Zenon DEF Then, c2
  <2>3. c3 = IF c2.rc # 0 THEN c2 ELSE Collect(c2, d)
    BY Zenon DEF Then, c3
  <2>4. c4 = IF c3.rc # 0 THEN c3 ELSE Webhook(c3, d)
    BY Zenon DEF Then, c4
  <2>5. c5 = IF c4.rc # 0 THEN c4 ELSE Dashboard(c4, d)
    BY Zenon DEF Then, c5
  <2>6. c6 = IF c5.rc # 0 THEN c5 ELSE Ranges(c5, d)
    BY Zenon DEF Then, c6
  <2>7. c7 = IF c6.rc # 0 THEN c6 ELSE Alerts(c6, d)
    BY Zenon DEF Then, c7
  <2>8. c8 = IF c7.rc # 0 THEN c7 ELSE Clamp(c7, d)
    BY Zenon DEF Then
  <2>. QED
    BY ONLY <2>1, <2>2, <2>3, <2>4, <2>5, <2>6, <2>7, <2>8, Zenon
<1> HIDE DEF c1, c2, c3, c4, c5, c6, c7, c8
<1>3. /\ c1.rc = 0 /\ c2.rc = 0 /\ c3.rc = 0 /\ c4.rc = 0
      /\ c5.rc = 0 /\ c6.rc = 0 /\ c7.rc = 0 /\ c8.rc = 0
  BY <1>1, <1>2, Zenon
<1>4. Loading(Defaults, d, {}) /\ Defaults.alerts = <<>> /\ Defaults.rc = 0
  BY DefaultsLoad, Zenon DEF Defaults
<1>5. Loading(c1, d, {"listen"}) /\ c1.ranges = Defaults.ranges /\ c1.alerts = <<>>
  <2>1. c1 = Server(Defaults, d) /\ c1.rc = 0
    BY <1>2, <1>3, <1>4, Zenon
  <2>. QED
    BY ONLY IsFull(d), <1>4, <2>1, ServerLoads, Zenon
<1>6. Loading(c2, d, {"listen"})
  <2>1. c2 = Interval(c1, d) /\ c2.rc = 0
    BY <1>2, <1>3, Zenon
  <2>. QED
    BY ONLY IsFull(d), <1>5, <2>1, IntervalLoads, Zenon
<1>7. Loading(c3, d, {"listen", "db", "disk_path"})
  <2>1. c3 = Collect(c2, d) /\ c3.rc = 0
    BY <1>2, <1>3, Zenon
  <2>2. {"listen"} \cup {"db", "disk_path"} = {"listen", "db", "disk_path"}
    BY Zenon
  <2>3. Loading(c3, d, {"listen"} \cup {"db", "disk_path"})
    BY ONLY IsFull(d), <1>6, <2>1, CollectLoads, Zenon
  <2>. QED
    BY ONLY <2>2, <2>3, Zenon
<1>8. Loading(c4, d, {"listen", "db", "disk_path", "ca_file"})
  <2>1. c4 = Webhook(c3, d) /\ c4.rc = 0
    BY <1>2, <1>3, Zenon
  <2>2. {"listen", "db", "disk_path"} \cup {"ca_file"} = {"listen", "db", "disk_path", "ca_file"}
    BY Zenon
  <2>3. Loading(c4, d, {"listen", "db", "disk_path"} \cup {"ca_file"})
    BY ONLY IsFull(d), <1>7, <2>1, WebhookLoads, Zenon
  <2>. QED
    BY ONLY <2>2, <2>3, Zenon
<1>9. Loading(c5, d, StrKeys)
  <2>1. c5 = Dashboard(c4, d)
    BY <1>2, <1>3, Zenon
  <2>2. {"listen", "db", "disk_path", "ca_file"} \cup {"title"} = StrKeys
    BY Zenon DEF StrKeys
  <2>3. Loading(c5, d, {"listen", "db", "disk_path", "ca_file"} \cup {"title"})
    BY ONLY IsFull(d), <1>8, <2>1, DashboardLoads, Zenon
  <2>. QED
    BY ONLY <2>2, <2>3, Zenon
<1>10. Loading(c6, d, StrKeys) /\ RangesAs(c6, d)
  <2>1. c6 = Ranges(c5, d) /\ c6.rc = 0
    BY <1>2, <1>3, Zenon
  <2>. QED
    BY ONLY IsFull(d), <1>9, <2>1, RangesLoads, Zenon
<1>11. /\ Loading(c7, d, StrKeys) /\ AlertsAs(c7, d)
       /\ c7.ranges = c6.ranges /\ c7.interval = c6.interval
  <2>1. c7 = Alerts(c6, d) /\ c7.rc = 0
    BY <1>2, <1>3, Zenon
  <2>. QED
    BY ONLY IsFull(d), <1>10, <2>1, AlertsLoads, Zenon
<1>12. /\ Loading(c8, d, StrKeys) /\ c8.too_long # 1 /\ c8.refresh <= c8.interval
       /\ c8.alerts = c7.alerts /\ c8.ranges = c7.ranges
       /\ c8.interval = c7.interval /\ c8.too_long = c7.too_long
  <2>1. c8 = Clamp(c7, d) /\ c8.rc = 0 /\ Loading(c7, d, StrKeys)
    BY <1>2, <1>3, <1>11, Zenon
  <2>. QED
    BY ONLY <2>1, ClampLoads, Zenon
<1>13. AlertsAs(c8, d)
  BY ONLY <1>11, <1>12 DEF AlertsAs
<1>14. RangesAs(c8, d)
  BY ONLY <1>10, <1>11, <1>12, RangesStand
<1>. QED
  BY ONLY <1>1, <1>12, <1>13, <1>14, Zenon

LEMMA Within ==
    ASSUME NEW x \in Int, NEW n, 1 <= x, x <= n, n \in Int
    PROVE  x \in 1..n
  OBVIOUS

LEMMA LoadedSound ==
    ASSUME NEW d, NEW K, NEW c, Loading(c, d, K), c.refresh <= c.interval
    PROVE  Sound(c)
<1>1. NumbersOk(c) /\ RangesOk(c) /\ AlertsOk(c)
  BY DEF Loading
<1>2. c.interval \in Int /\ 1 <= c.interval /\ c.interval <= 3600
  BY <1>1 DEF NumbersOk
<1>3. c.refresh \in Int /\ 1 <= c.refresh
  BY <1>1, IntMax DEF NumbersOk
<1> DEFINE i == c.interval
<1> HIDE DEF i
<1>4. i \in 1..3600
  <2>1. i \in Int /\ 1 <= i /\ i <= 3600
    BY <1>2 DEF i
  <2>. QED
    BY ONLY <2>1
<1>5. c.refresh \in 1..c.interval
  BY <1>2, <1>3, Within
<1>6. \A k \in DOMAIN c.ranges : parse_duration(c.ranges[k]) >= c.interval
  BY <1>1 DEF RangesOk, Usable
<1>7. \A k \in DOMAIN c.alerts : c.alerts[k].webhook = "fits" \/ c.alerts[k].command = "fits"
  BY <1>1 DEF AlertsOk
<1>. QED
  BY <1>1, <1>4, <1>5, <1>6, <1>7 DEF Sound, NumbersOk, RangesOk, i

LEMMA LoadedWhole ==
    ASSUME NEW d, IsFull(d), NEW c, Loading(c, d, StrKeys), c.too_long # 1,
           AlertsAs(c, d), RangesAs(c, d)
    PROVE  Whole(d, c)
<1>1. RangesOk(c) /\ AlertsOk(c) /\ StrsOk(c, d, StrKeys)
  BY DEF Loading
<1>2. ASSUME NEW k \in StrKeys
      PROVE  /\ d.strs[k] = "none" => c.strs[k] = "default"
             /\ d.strs[k] # "none" => d.strs[k] = "fits" /\ c.strs[k] = "set"
  <2>1. d.strs[k] \in {"none", "fits", "long"}
    BY DEF IsFull
  <2>2. d.strs[k] # "long"
    BY <1>1 DEF StrsOk
  <2>3. c.strs[k] = IF d.strs[k] = "fits" THEN "set" ELSE "default"
    BY <1>1 DEF StrsOk
  <2>. QED
    BY <2>1, <2>2, <2>3
<1>3. \A k \in DOMAIN c.ranges : c.ranges[k].fits = 1
  BY <1>1 DEF RangesOk
<1>4. \A k \in DOMAIN c.alerts : c.alerts[k].webhook # "long" /\ c.alerts[k].command # "long"
  BY <1>1 DEF AlertsOk
<1>. QED
  BY <1>2, <1>3, <1>4 DEF Whole, AlertsAs, RangesAs

TenYears == 3653

InSeconds(days) == days * 86400

(* Minutes, hours and days are within as many days as they begin. *)
LEMMA MinutesBegun ==
    ASSUME NEW n \in Nat \ {0}, n <= 120, NEW q, q = (n + 1440 - 1) \div 1440,
           NEW s, s = n * 60
    PROVE  q \in 1..TenYears /\ s \in Nat /\ s <= InSeconds(q)
  BY SMT DEF TenYears, InSeconds

LEMMA HoursBegun ==
    ASSUME NEW n \in Nat \ {0}, n <= 72, NEW q, q = (n + 24 - 1) \div 24,
           NEW s, s = n * 3600
    PROVE  q \in 1..TenYears /\ s \in Nat /\ s <= InSeconds(q)
  BY SMT DEF TenYears, InSeconds

LEMMA DaysBegun ==
    ASSUME NEW n \in Nat \ {0}, n <= TenYears, NEW q, q = (n + 1 - 1) \div 1,
           NEW s, s = n * 86400
    PROVE  q \in 1..TenYears /\ s \in Nat /\ s <= InSeconds(q)
  BY SMT DEF TenYears, InSeconds

LEMMA RangeIs ==
    ASSUME NEW c, NEW x \in Durations, Usable(c, x), c.interval \in Int, c.interval >= 1
    PROVE  /\ range_to_days(x) \in 1..TenYears /\ parse_duration(x) \in Nat
           /\ parse_duration(x) <= InSeconds(range_to_days(x))
<1> DEFINE n == x.n
           q == range_to_days(x)
           s == parse_duration(x)
<1>1. n \in Nat \ {0} /\ x.u \in {"m", "h", "d"}
  BY DEF Usable, valid_range, Durations
<1>2. s = n * UnitSeconds[x.u]
  <2>1. parse_duration(x) # -1
    BY DEF Usable
  <2>. QED
    BY ONLY <2>1 DEF parse_duration
<1>3. n <= [m |-> 120, h |-> 72, d |-> 3653][x.u]
  BY DEF Usable, range_in_bounds
<1>4. q = LET per == [m |-> 1440, h |-> 24, d |-> 1][x.u] IN (n + per - 1) \div per
  BY DEF range_to_days
<1> HIDE DEF n, q, s
<1>5. q \in 1..TenYears /\ s \in Nat /\ s <= InSeconds(q)
  <2>1. CASE x.u = "m"
    <3>1. n <= 120 /\ q = (n + 1440 - 1) \div 1440 /\ s = n * 60
      BY ONLY <1>2, <1>3, <1>4, <2>1, SMT DEF UnitSeconds
    <3>. QED
      BY ONLY <1>1, <3>1, MinutesBegun, SMT
  <2>2. CASE x.u = "h"
    <3>1. n <= 72 /\ q = (n + 24 - 1) \div 24 /\ s = n * 3600
      BY ONLY <1>2, <1>3, <1>4, <2>2, SMT DEF UnitSeconds
    <3>. QED
      BY ONLY <1>1, <3>1, HoursBegun, SMT
  <2>3. CASE x.u = "d"
    <3>1. n <= TenYears /\ q = (n + 1 - 1) \div 1 /\ s = n * 86400
      BY ONLY <1>2, <1>3, <1>4, <2>3, SMT DEF UnitSeconds, TenYears
    <3>. QED
      BY ONLY <1>1, <3>1, DaysBegun, SMT
  <2>. QED
    BY ONLY <1>1, <2>1, <2>2, <2>3
<1>. QED
  BY <1>5 DEF q, s

LEMMA MoreDays ==
    ASSUME NEW i \in Nat, NEW k \in Nat, i <= k
    PROVE  InSeconds(i) \in Nat /\ InSeconds(k) \in Nat /\ InSeconds(i) <= InSeconds(k)
  BY SMT DEF InSeconds

LEMMA TenYearsType == TenYears \in Nat
  BY SMT DEF TenYears

(* main.c's retention covers every range that config_ranges kept. *)
LEMMA LoadedKept ==
    ASSUME NEW d, NEW K, NEW c, Loading(c, d, K)
    PROVE  Kept(c)
<1> DEFINE days == {range_to_days(c.ranges[k]) : k \in DOMAIN c.ranges}
           S == {0} \cup days
<1>1. c.interval \in Int /\ c.interval >= 1 /\ c.ranges \in Seq(Durations)
      /\ \A k \in DOMAIN c.ranges : Usable(c, c.ranges[k])
  <2>1. NumbersOk(c) /\ RangesOk(c)
    BY DEF Loading
  <2>2. c.interval \in Int /\ c.interval >= 1
    BY ONLY <2>1, SMTT(30) DEF NumbersOk
  <2>. QED
    BY ONLY <2>1, <2>2 DEF RangesOk
<1>2. \A k \in DOMAIN c.ranges :
        /\ range_to_days(c.ranges[k]) \in 1..TenYears /\ parse_duration(c.ranges[k]) \in Nat
        /\ parse_duration(c.ranges[k]) <= InSeconds(range_to_days(c.ranges[k]))
  BY ONLY <1>1, RangeIs
<1>3. S \in SUBSET Nat /\ S # {} /\ \A x \in S : x <= TenYears
  BY <1>2, TenYearsType
<1> HIDE DEF S
<1>4. Max(S) \in Nat /\ \A x \in S : x <= Max(S)
  BY <1>3, TenYearsType, MaxIs
<1>. SUFFICES ASSUME NEW k \in DOMAIN c.ranges
              PROVE  parse_duration(c.ranges[k]) <= InSeconds(retention_days(c))
  BY SMT DEF Kept, InSeconds
<1> DEFINE x == c.ranges[k]
           q == range_to_days(x)
<1>5. /\ q \in 1..TenYears /\ q \in S
      /\ parse_duration(x) \in Nat /\ parse_duration(x) <= InSeconds(q)
  <2>1. q \in S
    BY DEF S
  <2>. QED
    BY ONLY <1>2, <2>1, k \in DOMAIN c.ranges
<1>6. q <= Max(S) /\ q \in Nat /\ q > 0
  BY <1>4, <1>5, TenYearsType
<1>7. retention_days(c) = Max(S)
  BY <1>4, <1>6 DEF retention_days, S
<1> HIDE DEF q, x
<1>8. parse_duration(x) <= InSeconds(Max(S))
  BY ONLY <1>4, <1>5, <1>6, MoreDays
<1>. QED
  BY <1>7, <1>8 DEF x
--------------------------------------------------------------------------------
(* What is promised of a configuration holds of any that config_open       *)
(* accepts, whatever the document.                                         *)
LEMMA Accepted ==
    ASSUME NEW d \in Docs, config_open(d).rc = 0
    PROVE  /\ Sound(config_open(d)) /\ Kept(config_open(d))
           /\ d.from # "nowhere" => Whole(d, config_open(d))
<1> DEFINE e == config_open(d)
<1>1. CASE d.from = "nowhere"
  <2>1. e = Defaults
    BY <1>1 DEF config_open
  <2>2. Loading(Defaults, d, {}) /\ Defaults.refresh <= Defaults.interval
    BY DefaultsLoad DEF Defaults
  <2>. QED
    BY <1>1, <2>1, <2>2, LoadedSound, LoadedKept
<1>2. CASE d.from # "nowhere"
  <2>1. e = config_load(d) /\ config_load(d).rc = 0
    BY <1>2 DEF config_open
  <2>2. IsFull(d)
    <3>1. d.parses # 0
      BY <2>1, Parsed
    <3>2. IsDocument(d)
      BY ServeAssumption
    <3>. QED
      BY <1>2, <3>1, <3>2 DEF IsDocument, IsFull
  <2>3. /\ Loading(e, d, StrKeys) /\ e.too_long # 1 /\ e.refresh <= e.interval
        /\ AlertsAs(e, d) /\ RangesAs(e, d)
    BY <2>1, <2>2, DocumentLoads
  <2> HIDE DEF e
  <2>4. Sound(e) /\ Kept(e)
    BY <2>3, LoadedSound, LoadedKept
  <2>5. Whole(d, e)
    BY <2>2, <2>3, LoadedWhole
  <2>. QED
    BY <2>4, <2>5 DEF e
<1>. QED
  BY <1>1, <1>2

(* The file is read in one place, and what came of it is there until the   *)
(* database is opened.                                                     *)
ConfigInv == (pc = "load" => doc \in Docs) /\ ConfigSound /\ ConfigWhole

LEMMA ConfigInit == Init => ConfigInv
  BY DEF Init, ConfigInv, ConfigSound, ConfigWhole

LEMMA ConfigStep == ConfigInv /\ [Next]_vars => ConfigInv'
<1>. SUFFICES ASSUME ConfigInv, [Next]_vars PROVE ConfigInv'
  OBVIOUS
<1>. USE DEF ConfigInv, ConfigSound, ConfigWhole
<1>1. CASE Load
  <2>1. CASE pc' = "db"
    <3>1. config_open(doc).rc = 0 /\ doc \in Docs /\ cfg' = config_open(doc) /\ doc' = doc
      BY <1>1, <2>1 DEF Load
    <3>2. /\ Sound(config_open(doc)) /\ Kept(config_open(doc))
          /\ doc.from # "nowhere" => Whole(doc, config_open(doc))
      BY <3>1, Accepted
    <3>. QED
      BY ONLY <2>1, <3>1, <3>2 DEF ConfigInv, ConfigSound, ConfigWhole
  <2>2. CASE pc' # "db"
    BY <1>1, <2>2 DEF Load
  <2>. QED
    BY <2>1, <2>2
<1>2. CASE UNCHANGED <<pc, doc, cfg>>
  BY <1>2
<1>3. CASE pc' \notin {"load", "db"}
  BY <1>3
<1>4. CASE OpenDb \/ OpenReadonly \/ Started \/ StartFails
  BY <1>3, <1>4 DEF OpenDb, OpenReadonly, Started, StartFails, Goto
<1>5. CASE Tick \/ Sigterm \/ Sigint
  BY <1>2, <1>3, <1>5 DEF Tick, Sigterm, Sigint, Handled, env
<1>6. CASE Test \/ Wake \/ Interrupt \/ Woken \/ Cycle \/ Stored \/ CycleDone \/ Stop
  BY <1>3, <1>6 DEF Test, Wake, Interrupt, Woken, Cycle, Stored, CycleDone, Stop, Goto
<1>7. CASE Skip \/ Fire \/ Deliver \/ Command \/ Settle
  BY <1>2, <1>3, <1>7 DEF Skip, Fire, Deliver, Command, Settle, Goto, env
<1>8. CASE UNCHANGED vars
  BY <1>2, <1>8 DEF vars
<1>. QED
  BY <1>1, <1>4, <1>5, <1>6, <1>7, <1>8 DEF Next, Start, Loop

LEMMA ConfigAlways == Spec => []ConfigInv
<1>. QED
  BY ConfigInit, ConfigStep, PTL DEF Spec

(* Whatever file config_open accepts, and with none: the interval, the     *)
(* refresh, the pool, the ranges and the alerts are what the loop, the     *)
(* streams, the queries and alerts_evaluate take for granted, and db_prune *)
(* keeps the rows of the widest tab.                                       *)
THEOREM AcceptedIsSound == Spec => []ConfigSound
<1>1. ConfigInv => ConfigSound
  BY DEF ConfigInv
<1>. QED
  BY <1>1, ConfigAlways, PTL

(* Of any file that was accepted, every string the loader copies is in the *)
(* configuration, every [[alert]] is an alert of it with the same actions  *)
(* and cooldown, and every entry of `ranges` that is within its unit's     *)
(* limit and no shorter than the interval is a tab, in the file's order:   *)
(* however the sections fold too_long into one flag.                       *)
THEOREM AcceptedIsWhole == Spec => []ConfigWhole
<1>1. ConfigInv => ConfigWhole
  BY DEF ConfigInv
<1>. QED
  BY <1>1, ConfigAlways, PTL

(* The loop's deadlines are a natural number of seconds apart. *)
LEMMA IntervalsSound == \A d \in Docs : config_open(d).rc = 0 => config_open(d).interval \in Nat
<1>. SUFFICES ASSUME NEW d \in Docs, config_open(d).rc = 0
              PROVE  config_open(d).interval \in Nat
  OBVIOUS
<1>1. Sound(config_open(d))
  BY Accepted, ZenonT(30)
<1> DEFINE i == config_open(d).interval
<1>2. i \in 1..3600
  BY <1>1 DEF Sound
<1> HIDE DEF i
<1>3. i \in Nat
  BY ONLY <1>2, SMT
<1>. QED
  BY <1>3 DEF i
--------------------------------------------------------------------------------
(* The loop delivers only in one place; elsewhere its clock is free. *)
Apart ==
    /\ IInv
    /\ pc # "webhook" => dpc = "off"

Starting == {"load", "db", "db_ro", "http"}

Running == pc \notin Starting /\ opened # {}

(* next is the first deadline that has not had its cycle, and it is past   *)
(* when a cycle is about to start.                                         *)
Scheduled ==
    /\ pc \in Starting => now = 0 /\ cycles = 0
    /\ pc = "load" => opened = {} /\ doc \in Docs
    /\ pc \in {"db", "db_ro", "http"} => cfg.interval \in Nat
    /\ Running => /\ cfg.interval \in Nat /\ cycles \in Nat
                  /\ next = (cycles + 1) * cfg.interval
                  /\ cycles * cfg.interval <= now
    /\ Running /\ (pc = "due" \/ (pc = "woken" /\ r = 0)) => next <= now
--------------------------------------------------------------------------------
LEMMA Product ==
    ASSUME NEW c \in Nat, NEW i \in Nat
    PROVE  /\ c * i \in Nat /\ (c + 1) * i \in Nat
           /\ (c + 1) * i = c * i + i
           /\ 0 * i = 0 /\ (0 + 1) * i = i
OBVIOUS

(* A step that leaves a delivery as it is, with none under way. *)
LEMMA ApartOff ==
    ASSUME IInv, dpc = "off", UNCHANGED dvars, now' \in Nat, until' \in Nat
    PROVE  IInv'
BY DEF IInv, Typed, Places, Timely, Holds, Anchors, Lines, SingleLine, dvars, tls

LEMMA ApartStep == Apart /\ [Next]_vars => Apart'
<1> SUFFICES ASSUME Apart, [Next]_vars PROVE Apart'
    OBVIOUS
<1>0. now \in Nat /\ until \in Nat /\ IInv
    BY DEF Apart, IInv, Typed
<1> USE DEF Apart
<1>1. CASE Start
    <2>1. UNCHANGED <<clock, dvars>> /\ pc \in Starting /\ pc' # "webhook" /\ dpc = "off"
        BY <1>1 DEF Start, Load, OpenDb, OpenReadonly, Started, StartFails, Goto, Starting
    <2>2. QED
        BY <1>0, <2>1, ApartOff DEF clock, dvars, tls
<1>2. CASE Tick
    <2>1. CASE PostTick
        <3>1. IInv'
            BY <1>0, <2>1, NextIInv DEF PostNext
        <3>2. dpc' = dpc /\ pc' = pc
            BY <1>2, <2>1 DEF Tick, PostTick, dvars, tls
        <3>3. QED
            BY <3>1, <3>2
    <2>2. CASE ~PostTick
        <3>1. /\ pc \in {"sleep", "store", "command"} /\ pc' = pc /\ now' = now + 1
              /\ UNCHANGED <<until, dvars>>
            BY <1>2, <2>2 DEF Tick
        <3>2. dpc = "off" /\ now' \in Nat /\ until' \in Nat /\ UNCHANGED dvars
            BY <1>0, <3>1
        <3>3. IInv'
            BY <1>0, <3>2, ApartOff
        <3>4. QED
            BY <3>2, <3>3 DEF dvars, tls
    <2>3. QED
        BY <2>1, <2>2
<1>3. CASE Test \/ Wake \/ Woken \/ Cycle \/ Stored \/ Skip \/ CycleDone \/ Stop \/ Interrupt
    <2>1. /\ pc # "webhook" /\ pc' # "webhook" /\ UNCHANGED <<now, dvars>>
          /\ until' \in {until, 0, now + MaxStore}
        BY <1>3 DEF Test, Wake, Woken, Cycle, Stored, Skip, NextAlert, CycleDone, Stop,
           Interrupt, Goto, Blocks, clock
    <2>2. dpc = "off" /\ now' \in Nat /\ until' \in Nat /\ UNCHANGED dvars
        BY <1>0, <2>1, ServeAssumption
    <2>3. IInv'
        BY <1>0, <2>2, ApartOff
    <2>4. QED
        BY <2>2, <2>3 DEF dvars, tls
<1>4. CASE Fire
    <2>1. dpc = "off" /\ pc' = "webhook"
        BY <1>4 DEF Fire, Goto
    <2>2. CASE Post \/ Refuse
        BY <1>0, <2>1, <2>2, NextIInv DEF PostNext
    <2>3. CASE UNCHANGED <<clock, dvars>>
        BY <1>0, <2>1, <2>3, NextIInv DEF all
    <2>4. QED
        BY <1>4, <2>2, <2>3 DEF Fire
<1>5. CASE Deliver
    <2>1. IInv'
        BY <1>0, <1>5, NextIInv DEF Deliver, PostNext
    <2>2. QED
        BY <1>5, <2>1 DEF Deliver
<1>6. CASE Command \/ Settle
    <2>1. /\ dpc = "off" /\ UNCHANGED <<now, dvars>>
          /\ until' \in {0, now + MaxCommand}
        BY <1>6 DEF Command, Settle, NextAlert, Goto, Blocks
    <2>2. dpc = "off" /\ now' \in Nat /\ until' \in Nat /\ UNCHANGED dvars
        BY <1>0, <2>1, ServeAssumption
    <2>3. IInv'
        BY <1>0, <2>2, ApartOff
    <2>4. QED
        BY <2>2, <2>3 DEF dvars, tls
<1>7. CASE Sigterm \/ Sigint
    <2>1. UNCHANGED <<clock, dvars>> /\ (pc' = pc \/ pc = "sleep")
        BY <1>7 DEF Sigterm, Sigint, Handled
    <2>2. IInv'
        BY <1>0, <2>1, NextIInv DEF all
    <2>3. QED
        BY <2>1, <2>2 DEF dvars, tls
<1>8. CASE UNCHANGED vars
    <2>1. UNCHANGED <<clock, dvars>> /\ pc' = pc
        BY <1>8 DEF vars
    <2>2. IInv'
        BY <1>0, <2>1, NextIInv DEF all
    <2>3. QED
        BY <2>1, <2>2 DEF dvars, tls
<1>9. QED
    BY <1>1, <1>2, <1>3, <1>4, <1>5, <1>6, <1>7, <1>8 DEF Next, Loop
--------------------------------------------------------------------------------
LEMMA ApartAlways == Spec => []Apart
<1>1. Init => Apart
    BY InitIInv DEF Init, PostInit, Apart
<1>2. QED
    BY <1>1, ApartStep, PTL DEF Spec

(* In the loop too, and beside its sleeps, its stores and its commands, no *)
(* delivery outlasts its deadline by a call.                               *)
THEOREM LoopInTime == Spec => []EndsInTime
<1>1. Apart => EndsInTime
    BY DeliveryAssumption DEF Apart, IInv, Typed, Places, Timely, EndsInTime
<1>2. QED
    BY <1>1, ApartAlways, PTL

(* And between two of its deliveries the loop holds nothing of the last.   *)
THEOREM LoopReleased == Spec => []Released
<1>1. Apart => Released
    BY DEF Apart, IInv, Holds, Released
<1>2. QED
    BY <1>1, ApartAlways, PTL
--------------------------------------------------------------------------------
LEMMA ScheduledStep == Apart /\ Scheduled /\ [Next]_vars => Scheduled'
<1> SUFFICES ASSUME Apart, Scheduled, [Next]_vars PROVE Scheduled'
    OBVIOUS
<1>0. now \in Nat
    BY DEF Apart, IInv, Typed
<1> USE DEF Scheduled, Starting, Running, Goto
<1>1. CASE Load
    BY <1>1, IntervalsSound DEF Load, clock, loop
<1>2. CASE OpenDb \/ OpenReadonly
    BY <1>2 DEF OpenDb, OpenReadonly, clock, loop
<1>3. CASE Started
    <2>1. /\ now = 0 /\ now' = 0 /\ cycles = 0 /\ cycles' = 0 /\ pc' = "test"
          /\ cfg.interval \in Nat /\ cfg' = cfg /\ next' = cfg.interval
        BY <1>3 DEF Started, clock
    <2>2. 0 * cfg.interval = 0 /\ (0 + 1) * cfg.interval = cfg.interval
        BY <2>1, Product
    <2>3. next' = (cycles' + 1) * cfg'.interval /\ cycles' * cfg'.interval <= now'
        BY <2>1, <2>2
    <2>4. QED
        BY <2>1, <2>3
<1>4. CASE StartFails \/ Stop
    BY <1>4 DEF StartFails, Stop, clock, loop
<1>5. CASE Tick
    <2>1. /\ now' = now + 1 /\ UNCHANGED <<doc, cfg, opened, pc, next, r, cycles>>
          /\ pc \notin Starting
        BY <1>5 DEF Tick, PostTick, Waiting, Apart, env, loop
    <2>2. CASE Running
        <3>1. cycles * cfg.interval \in Nat /\ next \in Nat
            BY <2>2, Product
        <3>2. cycles' * cfg'.interval <= now'
            BY <1>0, <2>1, <2>2, <3>1
        <3>3. QED
            BY <1>0, <2>1, <2>2, <3>1, <3>2
    <2>3. QED
        BY <2>1, <2>2
<1>6. CASE Cycle
    <2>1. /\ next' = next + cfg.interval /\ cycles' = cycles + 1 /\ now' = now
          /\ cfg' = cfg /\ opened' = opened /\ pc = "due" /\ pc' = "store"
        BY <1>6 DEF Cycle, Blocks, env
    <2>2. CASE Running
        <3>1. cycles \in Nat /\ cycles + 1 \in Nat /\ cfg.interval \in Nat
            BY <2>2
        <3>0. next = (cycles + 1) * cfg.interval /\ next <= now
            <4>1. next = (cycles + 1) * cfg.interval
                BY <2>2
            <4>2. next <= now
                BY <2>1, <2>2
            <4>3. QED
                BY <4>1, <4>2
        <3>2. ((cycles + 1) + 1) * cfg.interval = (cycles + 1) * cfg.interval + cfg.interval
            BY <3>1, Product
        <3>3. next' = (cycles' + 1) * cfg'.interval /\ cycles' * cfg'.interval <= now'
            BY <2>1, <3>0, <3>2
        <3>4. QED
            BY <2>1, <3>1, <3>3
    <2>3. QED
        BY <2>1, <2>2
<1>7. CASE Fire
    <2>1. now' = now
        BY <1>7 DEF Fire, Post, Refuse, Blocks, clock
    <2>2. UNCHANGED <<cfg, opened, next, r, cycles>> /\ pc = "alerts" /\ pc' = "webhook"
        BY <1>7 DEF Fire, env, loop
    <2>3. QED
        BY <2>1, <2>2
<1>8. CASE Deliver
    <2>1. now' = now
        BY <1>8 DEF Deliver, PostStep, ResolveFail, Resolve, Attempt, ConnectFail, Connect,
           GiveUp, Io, Some, Over, TlsFail, Close, Return, Blocks, clock
    <2>2. UNCHANGED <<cfg, opened, pc, next, r, cycles>> /\ pc = "webhook"
        BY <1>8 DEF Deliver, env, loop
    <2>3. QED
        BY <2>1, <2>2
<1>9. CASE Test \/ Wake \/ Woken \/ Stored \/ Skip \/ CycleDone \/ Interrupt \/ Command \/ Settle
    <2>1. /\ UNCHANGED <<now, cfg, opened, next, cycles>>
          /\ pc \notin Starting /\ pc' \notin Starting
          /\ pc' = "due" \/ (pc' = "woken" /\ r' = 0) =>
               (pc = "woken" /\ r = 0) \/ now >= next
        BY <1>9 DEF Test, Wake, Woken, Stored, Skip, NextAlert, CycleDone, Interrupt, Command,
           Settle, Blocks, clock, env, loop
    <2>2. Running' => Running
        BY <2>1
    <2>3. QED
        BY <2>1, <2>2
<1>10. CASE Sigterm \/ Sigint
    <2>1. /\ UNCHANGED <<now, doc, cfg, opened, next, cycles>>
          /\ (pc' = pc /\ r' = r) \/ (pc' = "woken" /\ r' = 1 /\ pc = "sleep")
        <3>1. UNCHANGED <<now, doc, cfg, opened, next, cycles>>
            BY <1>10 DEF Sigterm, Sigint, clock, env
        <3>2. UNCHANGED <<pc, r>> \/ Handled
            BY <1>10 DEF Sigterm, Sigint
        <3>3. QED
            BY <3>1, <3>2 DEF Handled
    <2>2. QED
        BY <2>1
<1>11. CASE UNCHANGED vars
    BY <1>11 DEF vars, clock, loop
<1>12. QED
    BY <1>1, <1>2, <1>3, <1>4, <1>5, <1>6, <1>7, <1>8, <1>9, <1>10, <1>11 DEF Next, Start, Loop

(* "drift-free collect loop" (run_serve), for any intervals the            *)
(* configurations have and cycles of any length.                           *)
THEOREM NoDrift == Spec => []DriftFree
<1>1. Init => Scheduled
    BY DEF Init, PostInit, Scheduled, Starting, Running
<1>2. Apart /\ Scheduled /\ [Next]_vars => Scheduled'
    BY ScheduledStep
<1>3. Apart /\ Scheduled => DriftFree
    <2> SUFFICES ASSUME Apart, Scheduled, Running
                 PROVE  /\ cycles * cfg.interval <= now
                        /\ now < next => now - cycles * cfg.interval < cfg.interval
        BY DEF DriftFree, Running, Starting
    <2>1. /\ cfg.interval \in Nat /\ cycles \in Nat /\ now \in Nat
          /\ next = (cycles + 1) * cfg.interval /\ cycles * cfg.interval <= now
        BY DEF Scheduled, Apart, IInv, Typed
    <2>2. cycles * cfg.interval \in Nat /\ next = cycles * cfg.interval + cfg.interval
        BY <2>1, Product
    <2>3. QED
        BY <2>1, <2>2
<1>4. QED
    BY <1>1, <1>2, <1>3, ApartAlways, PTL DEF Spec
--------------------------------------------------------------------------------
(* Unsigned counters: what `%` makes of a difference, of one tick more and *)
(* of a sum that does not reach the modulus.                               *)
LEMMA Increasing ==
    ASSUME NEW m1 \in Int, NEW m2 \in Int, NEW M \in Nat \ {0}, m1 * M < m2 * M
    PROVE  m1 < m2
  OBVIOUS

LEMMA Residue ==
    ASSUME NEW M \in Nat \ {0}, NEW a \in Int
    PROVE  a % M \in 0..(M - 1) /\ \E q \in Int : a = q * M + (a % M)
<1>1. a % M \in 0..(M - 1) /\ a = (a \div M) * M + (a % M) /\ a \div M \in Int
  BY Z3
<1>. QED
  BY <1>1

LEMMA ResidueIs ==
    ASSUME NEW M \in Nat \ {0}, NEW a \in Int, NEW s \in 0..(M - 1),
           NEW q \in Int, a = q * M + s
    PROVE  a % M = s
<1> DEFINE t == a % M
<1>1. PICK p \in Int : a = p * M + t /\ t \in 0..(M - 1)
  BY Residue
<1> HIDE DEF t
<1>2. p * M < (q + 1) * M /\ q * M < (p + 1) * M
  BY <1>1
<1>3. p < q + 1 /\ q < p + 1
  BY <1>1, <1>2, Increasing
<1>. QED
  BY <1>1, <1>3 DEF t

LEMMA Difference ==
    ASSUME NEW M \in Nat \ {0}, NEW x \in 0..(M - 1), NEW y \in 0..(M - 1)
    PROVE  (x - y) % M = IF x >= y THEN x - y ELSE x - y + M
<1>1. CASE x >= y
  <2>1. x - y \in 0..(M - 1) /\ x - y = 0 * M + (x - y)
    BY <1>1
  <2>. QED
    BY <1>1, <2>1, ResidueIs
<1>2. CASE x < y
  <2>1. x - y + M \in 0..(M - 1) /\ x - y = (-1) * M + (x - y + M)
    BY <1>2
  <2>. QED
    BY <1>2, <2>1, ResidueIs
<1>. QED
  BY <1>1, <1>2

LEMMA Small ==
    ASSUME NEW M \in Nat \ {0}, NEW x \in 0..(M - 1)
    PROVE  x % M = x /\ (x - x) % M = 0
<1>1. x = 0 * M + x /\ x - x = 0 * M + 0 /\ 0 \in 0..(M - 1)
  OBVIOUS
<1>. QED
  BY <1>1, ResidueIs

LEMMA Successor ==
    ASSUME NEW M \in Nat \ {0}, NEW x \in 0..(M - 1)
    PROVE  (x + 1) % M = IF x + 1 = M THEN 0 ELSE x + 1
<1>1. CASE x + 1 = M
  <2>1. x + 1 = 1 * M + 0 /\ 0 \in 0..(M - 1)
    BY <1>1
  <2>. QED
    BY <1>1, <2>1, ResidueIs
<1>2. CASE x + 1 # M
  <2>1. x + 1 \in 0..(M - 1) /\ x + 1 = 0 * M + (x + 1)
    BY <1>2
  <2>. QED
    BY <1>2, <2>1, ResidueIs
<1>. QED
  BY <1>1, <1>2

(* What the sampler keeps from one cycle to the next.  By how much the     *)
(* counters are ahead of the last reading, modulo what they wrap at, is no *)
(* more than the ticks there were.                                         *)
Counters == [Classes -> 0..(Modulus - 1)]

Ahead(c) == (cpu[c] - prev_cpu.at[c]) % Modulus

ReadInv ==
    /\ events \in 0..MaxEvents /\ fallen \in {0, 1}
    /\ cpu \in Counters
    /\ prev_cpu.valid # 0 =>
          /\ prev_cpu.at \in Counters
          /\ fallen = 0 => Ahead("user") + Ahead("system") + Ahead("idle") <= events

(* The shares in the metrics_t, of this cycle or an earlier one. *)
ShareInv ==
    m.cpu.valid = 1 /\ fallen = 0 =>
       /\ m.cpu.part \in [Classes -> Nat]
       /\ m.cpu.part["user"] + m.cpu.part["system"] + m.cpu.part["idle"] = m.cpu.total

(* A part of it is this cycle's as soon as it has been collected. *)
Parts == {"cpu", "net", "swap_io"}

FreshInv ==
    /\ DOMAIN m = Parts \cup {"swap"} /\ \A x \in Parts : "valid" \in DOMAIN m[x]
    /\ mpc \in {"sleep", "cpu", "net", "swap_io", "store"}
    /\ mpc \in {"net", "swap_io", "store"} /\ m.cpu.valid = 1 => "cpu" \in fresh
    /\ mpc \in {"swap_io", "store"} /\ m.net.valid = 1 => "net" \in fresh
    /\ mpc = "store" /\ m.swap_io.valid = 1 => "swap_io" \in fresh

LEMMA FreshInit == SampleInit => FreshInv
  BY DEF SampleInit, FreshInv, Parts, None

(* The kernel leaves metrics_collect alone. *)
LEMMA KernelLeaves ==
    ASSUME Kernel
    PROVE  UNCHANGED <<mpc, m, prev_cpu, fresh>>
  BY DEF Kernel, Time, CpuTick, IowaitFalls, Transfer, Reset, Page, Swapon

LEMMA FreshStep == FreshInv /\ [SampleNext]_svars => FreshInv'
<1>. SUFFICES ASSUME FreshInv, [SampleNext]_svars PROVE FreshInv'
  OBVIOUS
<1>. USE DEF FreshInv, Parts
<1>1. CASE Kernel
  BY <1>1, KernelLeaves
<1>2. CASE Gauges
  BY <1>2 DEF Gauges, Part
<1>3. CASE GaugesFail
  BY <1>3 DEF GaugesFail
<1>4. CASE CollectCpu
  <2>1. CASE m' = [m EXCEPT !.cpu.valid = 0] /\ UNCHANGED fresh
    BY <1>4, <2>1 DEF CollectCpu, Part
  <2>2. ASSUME NEW d, NEW total,
               m' = [m EXCEPT !.cpu = [valid |-> 1, part |-> d, total |-> total]],
               fresh' = fresh \cup {"cpu"}
        PROVE  FreshInv'
    BY <1>4, <2>2 DEF CollectCpu, Part
  <2>. QED
    BY <1>4, <2>1, <2>2 DEF CollectCpu
<1>5. CASE CpuUnreadable
  BY <1>5 DEF CpuUnreadable, Part
<1>6. CASE CollectNet
  <2>1. CASE m' = [m EXCEPT !.net.valid = 0] /\ UNCHANGED fresh
    BY <1>6, <2>1 DEF CollectNet, Part
  <2>2. CASE m' = [m EXCEPT !.net = Rates(prev_net, ReadNet)] /\ fresh' = fresh \cup {"net"}
    BY <1>6, <2>2 DEF CollectNet, Part, Rates
  <2>. QED
    BY <1>6, <2>1, <2>2 DEF CollectNet
<1>7. CASE NetUnreadable
  BY <1>7 DEF NetUnreadable, Part
<1>8. CASE CollectSwapIo
  <2>1. CASE m' = [m EXCEPT !.swap_io.valid = 0] /\ UNCHANGED fresh
    BY <1>8, <2>1 DEF CollectSwapIo, Part
  <2>2. CASE /\ m' = [m EXCEPT !.swap_io = Rates(prev_swap, ReadSwap)]
             /\ fresh' = fresh \cup {"swap_io"}
    BY <1>8, <2>2 DEF CollectSwapIo, Part, Rates
  <2>. QED
    BY <1>8, <2>1, <2>2 DEF CollectSwapIo
<1>9. CASE SwapIoUnreadable
  BY <1>9 DEF SwapIoUnreadable, Part
<1>10. CASE Store
  BY <1>10 DEF Store, Part
<1>11. CASE UNCHANGED svars
  BY <1>11 DEF svars
<1>. QED
  BY <1>1, <1>2, <1>3, <1>4, <1>5, <1>6, <1>7, <1>8, <1>9, <1>10, <1>11
     DEF SampleNext, Collector

(* The metrics_t outlives the cycle, and every part is worked out anew or  *)
(* marked as missing before db_insert binds it: nothing of an earlier      *)
(* cycle is stored, whichever files could not be read.                     *)
THEOREM NothingStale == SampleSpec => []StaleNeverStored
<1>1. FreshInv => StaleNeverStored
  BY DEF FreshInv, StaleNeverStored, Parts
<1>. QED
  BY FreshInit, FreshStep, <1>1, PTL DEF SampleSpec

LEMMA AheadType ==
    ASSUME cpu \in Counters, prev_cpu.at \in Counters, NEW c \in Classes
    PROVE  /\ Ahead(c) \in 0..(Modulus - 1)
           /\ Ahead(c) = IF cpu[c] >= prev_cpu.at[c] THEN cpu[c] - prev_cpu.at[c]
                         ELSE cpu[c] - prev_cpu.at[c] + Modulus
<1>1. Modulus \in Nat \ {0} /\ cpu[c] \in 0..(Modulus - 1) /\ prev_cpu.at[c] \in 0..(Modulus - 1)
  BY SamplerAssumption DEF Counters
<1>2. Ahead(c) = IF cpu[c] >= prev_cpu.at[c] THEN cpu[c] - prev_cpu.at[c]
                 ELSE cpu[c] - prev_cpu.at[c] + Modulus
  BY ONLY <1>1, Difference DEF Ahead
<1>3. Ahead(c) \in 0..(Modulus - 1)
  BY <1>1, <1>2
<1>. QED
  BY <1>2, <1>3

(* One tick puts its counter one further ahead, or takes it round. *)
LEMMA OneTick ==
    ASSUME NEW M \in Nat \ {0}, NEW x \in 0..(M - 1), NEW y \in 0..(M - 1)
    PROVE  (((x + 1) % M) - y) % M <= ((x - y) % M) + 1 /\ (x + 1) % M \in 0..(M - 1)
<1> DEFINE z == (x + 1) % M
<1>1. z = IF x + 1 = M THEN 0 ELSE x + 1
  BY Successor
<1>2. z \in 0..(M - 1)
  BY <1>1
<1> HIDE DEF z
<1>3. (z - y) % M = IF z >= y THEN z - y ELSE z - y + M
  BY ONLY M \in Nat \ {0}, y \in 0..(M - 1), <1>2, Difference
<1>4. (x - y) % M = IF x >= y THEN x - y ELSE x - y + M
  BY ONLY M \in Nat \ {0}, x \in 0..(M - 1), y \in 0..(M - 1), Difference
<1> DEFINE before == (x - y) % M
           after == (z - y) % M
<1>5. /\ after = IF z >= y THEN z - y ELSE z - y + M
      /\ before = IF x >= y THEN x - y ELSE x - y + M
  BY <1>3, <1>4
<1> HIDE DEF before, after
<1>6. after <= before + 1
  BY <1>1, <1>5
<1>. QED
  BY <1>2, <1>6 DEF z, before, after

LEMMA CpuInit == SampleInit => ReadInv /\ ShareInv
<1>. SUFFICES ASSUME SampleInit PROVE ReadInv /\ ShareInv
  OBVIOUS
<1>1. prev_cpu.valid = 0 /\ m.cpu.valid = 0 /\ events = 0 /\ fallen = 0
  BY DEF SampleInit, None
<1>2. cpu \in Counters
  BY SamplerAssumption DEF SampleInit, Counters
<1>. QED
  BY <1>1, <1>2, SamplerAssumption DEF ReadInv, ShareInv

LEMMA TickKeeps ==
    ASSUME ReadInv, NEW c \in Classes, CpuTick(c)
    PROVE  ReadInv'
<1>1. Modulus \in Nat \ {0}
  BY SamplerAssumption
<1>2. /\ cpu \in Counters /\ cpu' = [cpu EXCEPT ![c] = (cpu[c] + 1) % Modulus]
      /\ events' = events + 1 /\ events' \in 0..MaxEvents
      /\ UNCHANGED <<prev_cpu, fallen>>
  BY SamplerAssumption DEF CpuTick, ReadInv, ghosts
<1>3. \A k \in Classes : cpu[k] \in 0..(Modulus - 1)
  BY <1>2 DEF Counters
<1>4. cpu' \in Counters
  BY <1>1, <1>2, <1>3, OneTick DEF Counters
<1>5. ASSUME prev_cpu.valid # 0, fallen = 0
      PROVE  Ahead("user")' + Ahead("system")' + Ahead("idle")' <= events'
  <2>1. /\ prev_cpu.at \in Counters /\ \A k \in Classes : prev_cpu.at[k] \in 0..(Modulus - 1)
        /\ Ahead("user") + Ahead("system") + Ahead("idle") <= events
    BY <1>5 DEF ReadInv, Counters
  <2>2. \A k \in Classes : Ahead(k) \in Nat
    BY <1>2, <2>1, AheadType
  <2>3. \A k \in Classes : k # c => Ahead(k)' = Ahead(k)
    BY <1>2 DEF Ahead, Counters
  <2>4. Ahead(c)' <= Ahead(c) + 1
    <3>1. cpu'[c] = (cpu[c] + 1) % Modulus /\ prev_cpu'.at[c] = prev_cpu.at[c]
      BY <1>2 DEF Counters
    <3>. QED
      BY <1>1, <1>3, <2>1, <3>1, OneTick DEF Ahead
  <2>5. Ahead(c)' \in Nat
    <3>1. prev_cpu'.at \in Counters
      BY <1>2, <2>1
    <3>2. cpu'[c] \in 0..(Modulus - 1) /\ prev_cpu'.at[c] \in 0..(Modulus - 1)
      BY <1>4, <3>1 DEF Counters
    <3>3. cpu'[c] - prev_cpu'.at[c] \in Int
      BY <1>1, <3>2
    <3>4. (cpu'[c] - prev_cpu'.at[c]) % Modulus \in 0..(Modulus - 1)
      BY <1>1, <3>3, Residue
    <3>. QED
      BY <1>1, <3>4 DEF Ahead
  <2>6. events \in Nat
    BY SamplerAssumption DEF ReadInv
  <2>7. c \in {"user", "system", "idle"}
    BY DEF Classes
  <2>8. CASE c = "user"
    BY <1>2, <2>1, <2>2, <2>3, <2>4, <2>5, <2>6, <2>8 DEF Classes
  <2>9. CASE c = "system"
    BY <1>2, <2>1, <2>2, <2>3, <2>4, <2>5, <2>6, <2>9 DEF Classes
  <2>10. CASE c = "idle"
    BY <1>2, <2>1, <2>2, <2>3, <2>4, <2>5, <2>6, <2>10 DEF Classes
  <2>. QED
    BY <2>7, <2>8, <2>9, <2>10
<1>. QED
  BY <1>2, <1>4, <1>5 DEF ReadInv

(* The shares worked out from two readings that are less than the modulus  *)
(* apart: the sum does not wrap.                                           *)
LEMMA SharesWhole ==
    ASSUME MaxEvents < Modulus, ReadInv, prev_cpu.valid # 0, fallen = 0
    PROVE  /\ CpuDelta \in [Classes -> Nat]
           /\ LET t == CpuDelta["user"] + CpuDelta["system"] + CpuDelta["idle"]
              IN  t % Modulus = t
<1>1. Modulus \in Nat \ {0} /\ MaxEvents \in Nat /\ events \in Nat /\ events <= MaxEvents
  BY SamplerAssumption DEF ReadInv
<1>2. \A c \in Classes : CpuDelta[c] = Ahead(c)
  BY DEF CpuDelta, Ahead
<1>3. \A c \in Classes : Ahead(c) \in Nat
  BY AheadType DEF ReadInv
<1>4. Ahead("user") + Ahead("system") + Ahead("idle") <= events
  BY DEF ReadInv
<1> DEFINE t == CpuDelta["user"] + CpuDelta["system"] + CpuDelta["idle"]
<1>5. t = Ahead("user") + Ahead("system") + Ahead("idle")
  BY <1>2 DEF Classes
<1>6. t \in Nat
  BY <1>3, <1>5 DEF Classes
<1> HIDE DEF t
<1>7. t \in 0..(Modulus - 1)
  BY <1>1, <1>4, <1>5, <1>6
<1>8. t % Modulus = t
  BY <1>1, <1>7, Small
<1>9. CpuDelta \in [Classes -> Nat]
  BY <1>2, <1>3 DEF CpuDelta
<1>. QED
  BY <1>8, <1>9 DEF t

LEMMA CollectKeepsShares ==
    ASSUME MaxEvents < Modulus, FreshInv, ReadInv, ShareInv, CollectCpu
    PROVE  ReadInv' /\ ShareInv'
<1>1. /\ prev_cpu' = [valid |-> 1, at |-> cpu]
      /\ UNCHANGED <<cpu, events, fallen>>
  BY DEF CollectCpu, kernel, ghosts
<1>2. cpu \in Counters /\ Modulus \in Nat \ {0} /\ events \in Nat
  BY SamplerAssumption DEF ReadInv
<1>3. \A c \in Classes : Ahead(c)' = 0
  <2>. SUFFICES ASSUME NEW c \in Classes PROVE Ahead(c)' = 0
    OBVIOUS
  <2>1. cpu[c] \in 0..(Modulus - 1)
    BY <1>2 DEF Counters
  <2>2. (cpu[c] - cpu[c]) % Modulus = 0
    BY <1>2, <2>1, Small
  <2>. QED
    BY <1>1, <2>2 DEF Ahead
<1>4. ReadInv'
  BY <1>1, <1>2, <1>3 DEF ReadInv, Classes
<1>5. ASSUME m' = [m EXCEPT !.cpu.valid = 0] PROVE ShareInv'
  BY <1>5 DEF ShareInv, FreshInv, Parts
<1>6. ASSUME NEW total,
             m' = [m EXCEPT !.cpu = [valid |-> 1, part |-> CpuDelta, total |-> total]],
             total = (CpuDelta["user"] + CpuDelta["system"] + CpuDelta["idle"]) % Modulus,
             prev_cpu.valid # 0
      PROVE  ShareInv'
  <2>1. m'.cpu = [valid |-> 1, part |-> CpuDelta, total |-> total]
    BY <1>6 DEF FreshInv, Parts
  <2>2. CASE fallen = 0
    BY <1>6, <2>1, <2>2, SharesWhole DEF ShareInv
  <2>3. CASE fallen # 0
    BY <1>1, <2>3 DEF ShareInv
  <2>. QED
    BY <2>2, <2>3
<1>7. ShareInv'
  BY <1>5, <1>6 DEF CollectCpu
<1>. QED
  BY <1>4, <1>7

LEMMA CpuStep ==
    ASSUME MaxEvents < Modulus
    PROVE  FreshInv /\ ReadInv /\ ShareInv /\ [SampleNext]_svars => ReadInv' /\ ShareInv'
<1>. SUFFICES ASSUME FreshInv, ReadInv, ShareInv, [SampleNext]_svars
              PROVE  ReadInv' /\ ShareInv'
  OBVIOUS
<1>1. ASSUME UNCHANGED <<cpu, prev_cpu, fallen>>, events' = events \/ events' \in 0..MaxEvents,
             events <= events'
      PROVE  ReadInv'
  <2>1. \A c : Ahead(c)' = Ahead(c)
    BY <1>1 DEF Ahead
  <2>2. events' \in 0..MaxEvents
    BY <1>1 DEF ReadInv
  <2>3. ASSUME prev_cpu.valid # 0, fallen = 0
        PROVE  Ahead("user") + Ahead("system") + Ahead("idle") <= events'
    <3>1. \A c \in Classes : Ahead(c) \in Nat
      BY <2>3, AheadType DEF ReadInv
    <3>2. Ahead("user") \in Nat /\ Ahead("system") \in Nat /\ Ahead("idle") \in Nat
      BY <3>1 DEF Classes
    <3>3. Ahead("user") + Ahead("system") + Ahead("idle") <= events
      BY <2>3 DEF ReadInv
    <3>. QED
      BY <1>1, <2>2, <3>2, <3>3, SamplerAssumption DEF ReadInv
  <2>. QED
    BY <1>1, <2>1, <2>2, <2>3 DEF ReadInv
<1>2. events \in Nat /\ MaxEvents \in Nat
  BY SamplerAssumption DEF ReadInv
<1>3. ASSUME m'.cpu = m.cpu \/ m'.cpu.valid = 0, fallen' = fallen
      PROVE  ShareInv'
  BY <1>3 DEF ShareInv
<1>4. CASE Kernel
  <2>1. m' = m
    BY <1>4, KernelLeaves
  <2>2. CASE \E c \in Classes : CpuTick(c)
    <3>1. fallen' = fallen
      BY <2>2 DEF CpuTick, ghosts
    <3>. QED
      BY <1>3, <2>1, <2>2, <3>1, TickKeeps
  <2>3. CASE IowaitFalls
    <3>1. cpu["idle"] \in 0..(Modulus - 1) /\ Modulus \in Nat \ {0} /\ cpu \in Counters
      BY SamplerAssumption DEF ReadInv, Counters, Classes
    <3>2. cpu["idle"] - 1 \in Int /\ (cpu["idle"] - 1) % Modulus \in 0..(Modulus - 1)
      <4>1. cpu["idle"] - 1 \in Int
        BY <3>1
      <4>. QED
        BY <3>1, <4>1, Residue
    <3>3. cpu' \in Counters
      BY <2>3, <3>1, <3>2 DEF IowaitFalls, Counters
    <3>4. fallen' = 1 /\ events' \in 0..MaxEvents /\ prev_cpu' = prev_cpu
      BY <1>2, <2>3 DEF IowaitFalls, ReadInv
    <3>. QED
      BY <3>3, <3>4 DEF ReadInv, ShareInv
  <2>4. CASE ~IowaitFalls /\ ~\E c \in Classes : CpuTick(c)
    <3>1. /\ UNCHANGED <<cpu, prev_cpu, fallen>>
          /\ events' = events \/ (events < MaxEvents /\ events' = events + 1)
      BY <1>4, <2>4 DEF Kernel, Time, Transfer, Reset, Page, Swapon, ghosts
    <3>2. (events' = events \/ events' \in 0..MaxEvents) /\ events <= events'
      BY <1>2, <3>1 DEF ReadInv
    <3>. QED
      BY <1>1, <1>3, <2>1, <3>1, <3>2
  <2>. QED
    BY <2>2, <2>3, <2>4
<1>5. CASE CollectCpu
  BY <1>5, CollectKeepsShares
<1>6. CASE Collector /\ ~CollectCpu
  <2>1. UNCHANGED <<cpu, events, prev_cpu, fallen>>
    BY <1>6 DEF Collector, Gauges, GaugesFail, CpuUnreadable, CollectNet, NetUnreadable,
                CollectSwapIo, SwapIoUnreadable, Store, kernel, ghosts
  <2>2. m'.cpu = m.cpu \/ m'.cpu.valid = 0
    BY <1>6 DEF Collector, Gauges, GaugesFail, CpuUnreadable, CollectNet, NetUnreadable,
                CollectSwapIo, SwapIoUnreadable, Store, FreshInv, Parts
  <2>. QED
    BY <1>1, <1>2, <1>3, <2>1, <2>2
<1>7. CASE UNCHANGED svars
  <2>1. UNCHANGED <<cpu, events, prev_cpu, fallen, m>>
    BY <1>7 DEF svars
  <2>. QED
    BY <1>1, <1>2, <1>3, <2>1
<1>. QED
  BY <1>4, <1>5, <1>6, <1>7 DEF SampleNext

(* collect_cpu's three shares make up the whole and none is more than it,  *)
(* wherever the 64-bit counters stand and however often they wrap, unless  *)
(* the kernel lowers iowait: as long as it does not tick 2^64 times.       *)
THEOREM SharesAlwaysWhole ==
    ASSUME MaxEvents < Modulus
    PROVE  SampleSpec => []CpuShares
<1>1. ShareInv => CpuShares
  <2>. SUFFICES ASSUME ShareInv, m.cpu.valid = 1, fallen = 0
                PROVE  /\ \A c \in Classes : m.cpu.part[c] <= m.cpu.total
                       /\ m.cpu.part["user"] + m.cpu.part["system"] + m.cpu.part["idle"]
                             = m.cpu.total
    BY DEF CpuShares
  <2>1. m.cpu.part["user"] \in Nat /\ m.cpu.part["system"] \in Nat /\ m.cpu.part["idle"] \in Nat
    BY DEF ShareInv, Classes
  <2>2. m.cpu.part["user"] + m.cpu.part["system"] + m.cpu.part["idle"] = m.cpu.total
    BY DEF ShareInv
  <2>. QED
    BY <2>1, <2>2 DEF Classes
<1>2. SampleInit => FreshInv /\ ReadInv /\ ShareInv
  BY FreshInit, CpuInit
<1>3. FreshInv /\ ReadInv /\ ShareInv /\ [SampleNext]_svars => (FreshInv /\ ReadInv /\ ShareInv)'
  BY FreshStep, CpuStep
<1>. QED
  BY <1>1, <1>2, <1>3, PTL DEF SampleSpec
--------------------------------------------------------------------------------
(* The sum over a set as the number of pairs of an element and a unit. *)
Units(h, s) == UNION {{f} \X (1..h[f]) : f \in s}

LEMMA UnitsAdd ==
    ASSUME NEW S, NEW h \in [S -> Nat], NEW s \in SUBSET S, NEW x \in s,
           IsFiniteSet(Units(h, s \ {x}))
    PROVE  /\ IsFiniteSet(Units(h, s))
           /\ Cardinality(Units(h, s)) = h[x] + Cardinality(Units(h, s \ {x}))
<1> DEFINE A == {x} \X (1..h[x])
           B == Units(h, s \ {x})
<1>1. IsFiniteSet(A) /\ Cardinality(A) = h[x]
  <2>1. h[x] \in Nat
    OBVIOUS
  <2>2. IsFiniteSet(1..h[x]) /\ Cardinality(1..h[x]) = h[x]
    BY <2>1, FS_Interval
  <2>3. IsFiniteSet({x}) /\ Cardinality({x}) = 1
    BY FS_Singleton
  <2>4. IsFiniteSet(A) /\ Cardinality(A) = 1 * h[x]
    BY <2>2, <2>3, FS_Product
  <2>. QED
    BY <2>1, <2>4
<1>2. Units(h, s) = A \cup B
  BY DEF Units
<1>3. A \cap B = {}
  BY DEF Units
<1> HIDE DEF A, B
<1>4. IsFiniteSet(B)
  BY DEF B
<1>5. /\ IsFiniteSet(A \cup B)
      /\ Cardinality(A \cup B) = Cardinality(A) + Cardinality(B) - Cardinality(A \cap B)
  BY <1>1, <1>4, FS_Union
<1>6. Cardinality(A \cap B) = 0
  BY <1>3, FS_EmptySet
<1>7. Cardinality(B) \in Nat /\ Cardinality(A) \in Nat
  BY <1>1, <1>4, FS_CardinalityType
<1>8. Cardinality(A \cup B) = h[x] + Cardinality(B)
  BY <1>1, <1>5, <1>6, <1>7
<1>. QED
  BY <1>2, <1>5, <1>8 DEF B

LEMMA UnitsFinite ==
    ASSUME NEW S, IsFiniteSet(S), NEW h \in [S -> Nat], NEW s \in SUBSET S
    PROVE  IsFiniteSet(Units(h, s))
<1> DEFINE Bad == {t \in SUBSET S : ~IsFiniteSet(Units(h, t))}
<1>1. ASSUME Bad # {} PROVE FALSE
  <2>1. PICK t \in Bad : \A y \in SUBSET t : y # t => y \notin Bad
    BY <1>1, LeastSubset
  <2>2. CASE t = {}
    <3>1. Units(h, t) = {}
      BY <2>2 DEF Units
    <3>. QED
      BY <2>1, <3>1, FS_EmptySet
  <2>3. ASSUME NEW x \in t PROVE FALSE
    <3>1. IsFiniteSet(Units(h, t \ {x}))
      BY <2>1, <2>3
    <3>. QED
      BY <2>1, <2>3, <3>1, UnitsAdd
  <2>. QED
    BY <2>2, <2>3
<1>. QED
  BY <1>1

(* The one function that satisfies the equation MapThenSumSet is defined   *)
(* by.                                                                     *)
SumOf(h, S) ==
    CHOOSE g : g = [s \in SUBSET S |->
        IF s = {} THEN 0 ELSE h[CHOOSE x \in s : TRUE] + g[s \ {CHOOSE x \in s : TRUE}]]

LEMMA SumIsCount ==
    ASSUME NEW S, IsFiniteSet(S), NEW h \in [S -> Nat]
    PROVE  SumOf(h, S)[S] = Cardinality(Units(h, S))
<1> DEFINE c(s) == CHOOSE x \in s : TRUE
           Is(g) == g = [s \in SUBSET S |-> IF s = {} THEN 0 ELSE h[c(s)] + g[s \ {c(s)}]]
           k == [s \in SUBSET S |-> Cardinality(Units(h, s))]
<1>1. \A s \in SUBSET S : s # {} => c(s) \in s
  OBVIOUS
<1> HIDE DEF c
<1>2. Is(k)
  <2>. SUFFICES ASSUME NEW s \in SUBSET S
                PROVE  k[s] = IF s = {} THEN 0 ELSE h[c(s)] + k[s \ {c(s)}]
    OBVIOUS
  <2>1. CASE s = {}
    <3>1. Units(h, s) = {}
      BY <2>1 DEF Units
    <3>. QED
      BY <2>1, <3>1, FS_EmptySet
  <2>2. CASE s # {}
    <3>1. c(s) \in s /\ s \ {c(s)} \in SUBSET S
      BY <1>1, <2>2
    <3>2. IsFiniteSet(Units(h, s \ {c(s)}))
      BY <3>1, UnitsFinite
    <3>3. Cardinality(Units(h, s)) = h[c(s)] + Cardinality(Units(h, s \ {c(s)}))
      BY <3>1, <3>2, UnitsAdd
    <3>. QED
      BY <2>2, <3>1, <3>3
  <2>. QED
    BY <2>1, <2>2
<1> DEFINE g == SumOf(h, S)
<1>3. Is(g)
  BY <1>2 DEF SumOf, c
<1> HIDE DEF g, k
<1> DEFINE Bad == {s \in SUBSET S : g[s] # k[s]}
<1>4. ASSUME Bad # {} PROVE FALSE
  <2>. Bad \in SUBSET SUBSET S
    OBVIOUS
  <2>. HIDE DEF Bad
  <2>1. PICK t \in Bad : \A y \in SUBSET t : y # t => y \notin Bad
    BY <1>4, LeastSubset
  <2>. USE DEF Bad
  <2>2. t \in SUBSET S /\ g[t] # k[t]
    BY <2>1
  <2>3. t # {}
    BY <1>2, <1>3, <2>2
  <2>4. g[t \ {c(t)}] = k[t \ {c(t)}]
    BY <1>1, <2>1, <2>2, <2>3
  <2>. QED
    BY <1>2, <1>3, <2>2, <2>3, <2>4
<1>5. g[S] = k[S]
  BY <1>4
<1>. QED
  BY <1>5 DEF g, k

LEMMA ReadNetIs ==
    ASSUME NEW w \in Ways
    PROVE  ReadNet.at[w] = SumOf([f \in Ifaces |-> net[f][w]], Ifaces)[Ifaces]
  BY DEF ReadNet, SumOf, MapThenSumSet, MapThenFoldSet

(* Bytes of a cycle that is under way, still to be stored; and by how much *)
(* the interfaces are ahead of the last reading.  A transfer may only add  *)
(* to the second what it adds to moved.                                    *)
Pending(w) ==
    IF mpc \in {"swap_io", "store"} /\ m.net.valid = 1 THEN m.net.bytes[w] ELSE 0

Counts == [Ifaces -> [Ways -> Nat]]

TotalIn(n, w) == Cardinality(Units([f \in Ifaces |-> n[f][w]], Ifaces))

GrowthIn(n, w) ==
    IF prev_net.valid = 1 /\ TotalIn(n, w) > prev_net.at[w]
    THEN TotalIn(n, w) - prev_net.at[w] ELSE 0

LEMMA TotalIs ==
    ASSUME net \in Counts, NEW w \in Ways
    PROVE  ReadNet.at[w] = TotalIn(net, w)
<1>1. [f \in Ifaces |-> net[f][w]] \in [Ifaces -> Nat]
  BY DEF Counts
<1>. QED
  BY <1>1, SumIsCount, ReadNetIs, SamplerAssumption DEF TotalIn

LEMMA TotalType ==
    ASSUME NEW n \in Counts, NEW w \in Ways
    PROVE  TotalIn(n, w) \in Nat /\ IsFiniteSet(Units([f \in Ifaces |-> n[f][w]], Ifaces))
<1>1. [f \in Ifaces |-> n[f][w]] \in [Ifaces -> Nat]
  BY DEF Counts
<1>. QED
  BY <1>1, UnitsFinite, FS_CardinalityType, SamplerAssumption DEF TotalIn

(* A transfer adds a unit to one sum, and a reset adds none. *)
LEMMA TotalGrows ==
    ASSUME NEW n \in Counts, NEW f \in Ifaces, NEW v \in Ways, NEW w \in Ways
    PROVE  LET n2 == [n EXCEPT ![f][v] = @ + 1]
           IN  n2 \in Counts /\ TotalIn(n2, w) <= TotalIn(n, w) + IF v = w THEN 1 ELSE 0
<1> DEFINE n2 == [n EXCEPT ![f][v] = @ + 1]
           A == Units([x \in Ifaces |-> n[x][w]], Ifaces)
           B == Units([x \in Ifaces |-> n2[x][w]], Ifaces)
<1>1. n2 \in Counts
  BY DEF Counts
<1>2. IsFiniteSet(A) /\ Cardinality(A) \in Nat
  BY TotalType DEF TotalIn
<1>3. CASE v # w
  <2>1. \A x \in Ifaces : n2[x][w] = n[x][w]
    BY <1>3 DEF Counts
  <2>2. A = B
    BY <2>1
  <2>. QED
    BY <1>1, <1>2, <1>3, <2>2 DEF TotalIn
<1>4. CASE v = w
  <2>1. /\ \A x \in Ifaces \ {f} : n2[x][w] = n[x][w]
        /\ n2[f][w] = n[f][w] + 1 /\ n[f][w] \in Nat
    BY <1>4 DEF Counts
  <2>2. B = A \cup {<<f, n[f][w] + 1>>}
    <3>1. 1..(n[f][w] + 1) = (1..n[f][w]) \cup {n[f][w] + 1}
      BY <2>1
    <3>2. \A x \in Ifaces :
            1..n2[x][w] = IF x = f THEN (1..n[x][w]) \cup {n[f][w] + 1} ELSE 1..n[x][w]
      BY <2>1, <3>1
    <3> HIDE DEF n2
    <3>3. \A p : p \in B <=> \E x \in Ifaces : \E k \in 1..n2[x][w] : p = <<x, k>>
      BY DEF Units
    <3>4. \A p : p \in A <=> \E x \in Ifaces : \E k \in 1..n[x][w] : p = <<x, k>>
      BY DEF Units
    <3> HIDE DEF A, B
    <3>. QED
      BY <3>2, <3>3, <3>4
  <2> HIDE DEF A, B, n2
  <2>3. Cardinality(B) \in {Cardinality(A), Cardinality(A) + 1}
    BY ONLY <1>2, <2>2, FS_AddElement
  <2>4. Cardinality(B) <= Cardinality(A) + 1
    BY <1>2, <2>3
  <2>. QED
    BY <1>1, <1>4, <2>4 DEF TotalIn, A, B, n2
<1>. QED
  BY <1>3, <1>4

LEMMA TotalFalls ==
    ASSUME NEW n \in Counts, NEW f \in Ifaces, NEW w \in Ways
    PROVE  LET n2 == [n EXCEPT ![f] = [v \in Ways |-> 0]]
           IN  n2 \in Counts /\ TotalIn(n2, w) <= TotalIn(n, w)
<1> DEFINE n2 == [n EXCEPT ![f] = [v \in Ways |-> 0]]
           A == Units([x \in Ifaces |-> n[x][w]], Ifaces)
           B == Units([x \in Ifaces |-> n2[x][w]], Ifaces)
<1>1. n2 \in Counts
  BY DEF Counts
<1>2. IsFiniteSet(A)
  BY TotalType
<1>3. \A x \in Ifaces : n2[x][w] \in Nat /\ n[x][w] \in Nat /\ n2[x][w] <= n[x][w]
  BY DEF Counts
<1>4. \A x \in Ifaces : 1..n2[x][w] \subseteq 1..n[x][w]
  BY <1>3
<1>5. B \subseteq A
  <2> HIDE DEF n2
  <2>. QED
    BY <1>4 DEF Units
<1> HIDE DEF n2, A, B
<1>6. Cardinality(B) <= Cardinality(A)
  BY <1>2, <1>5, FS_Subset
<1>. QED
  BY <1>1, <1>6 DEF TotalIn, A, B, n2

BytesTyped ==
    /\ net \in Counts
    /\ moved \in [Ways -> Nat] /\ told \in [Ways -> Nat]
    /\ prev_net.valid \in {0, 1}
    /\ prev_net.valid = 1 => prev_net.at \in [Ways -> Nat]
    /\ m.net.valid = 1 => m.net.bytes \in [Ways -> Nat]

Accounted == \A w \in Ways : told[w] + Pending(w) + GrowthIn(net, w) <= moved[w]

BytesInv == BytesTyped /\ Accounted

LEMMA BytesInit == SampleInit => BytesInv
<1>. SUFFICES ASSUME SampleInit PROVE BytesInv
  OBVIOUS
<1>1. prev_net.valid = 0 /\ m.net.valid = 0 /\ net \in Counts
  BY DEF SampleInit, None, Counts
<1>2. /\ moved = [w \in Ways |-> 0] /\ told = [w \in Ways |-> 0]
  BY DEF SampleInit
<1>. QED
  BY <1>1, <1>2 DEF BytesInv, BytesTyped, Accounted, Pending, GrowthIn

LEMMA AmountTypes ==
    ASSUME BytesTyped, NEW w \in Ways
    PROVE  /\ told[w] \in Nat /\ moved[w] \in Nat
           /\ TotalIn(net, w) \in Nat /\ GrowthIn(net, w) \in Nat /\ Pending(w) \in Nat
           /\ prev_net.valid = 1 => prev_net.at[w] \in Nat
<1>1. TotalIn(net, w) \in Nat
  BY TotalType DEF BytesTyped
<1>. QED
  BY <1>1 DEF BytesTyped, GrowthIn, Pending

(* The kernel's counters move. *)
LEMMA CountersMove ==
    ASSUME BytesInv, Kernel
    PROVE  BytesInv'
<1>1. UNCHANGED <<mpc, m, prev_net, told>>
  BY KernelLeaves DEF Kernel, Time, CpuTick, IowaitFalls, Transfer, Reset, Page, Swapon, ghosts
<1>2. \A w \in Ways : Pending(w)' = Pending(w)
  BY <1>1 DEF Pending
<1>3. CASE UNCHANGED <<net, moved>>
  BY <1>1, <1>2, <1>3 DEF BytesInv, BytesTyped, Accounted, GrowthIn
<1>4. ASSUME NEW f \in Ifaces, NEW v \in Ways, Transfer(f, v) PROVE BytesInv'
  <2>1. /\ net' = [net EXCEPT ![f][v] = @ + 1]
        /\ moved' = [moved EXCEPT ![v] = @ + prev_net.valid]
    BY <1>4 DEF Transfer
  <2>2. /\ net' \in Counts
        /\ \A w \in Ways : TotalIn(net', w) <= TotalIn(net, w) + IF v = w THEN 1 ELSE 0
    BY <2>1, TotalGrows DEF BytesInv, BytesTyped
  <2>3. BytesTyped'
    BY <1>1, <2>1, <2>2 DEF BytesInv, BytesTyped
  <2>4. ASSUME NEW w \in Ways
        PROVE  told'[w] + Pending(w)' + GrowthIn(net, w)' <= moved'[w]
    <3>1. /\ told[w] \in Nat /\ moved[w] \in Nat
          /\ TotalIn(net, w) \in Nat /\ GrowthIn(net, w) \in Nat /\ Pending(w) \in Nat
          /\ prev_net.valid = 1 => prev_net.at[w] \in Nat
      BY <2>4, AmountTypes DEF BytesInv
    <3>2. TotalIn(net', w) \in Nat
      BY <2>2, TotalType
    <3>3. told[w] + Pending(w) + GrowthIn(net, w) <= moved[w]
      BY DEF BytesInv, Accounted
    <3>4. moved'[w] = moved[w] + IF v = w THEN prev_net.valid ELSE 0
      BY <2>1, <3>1 DEF BytesInv, BytesTyped
    <3>5. TotalIn(net', w) <= TotalIn(net, w) + IF v = w THEN 1 ELSE 0
      BY <2>2
    <3>6. GrowthIn(net, w)' = IF prev_net.valid = 1 /\ TotalIn(net', w) > prev_net.at[w]
                              THEN TotalIn(net', w) - prev_net.at[w] ELSE 0
      BY <1>1 DEF GrowthIn
    <3>7. GrowthIn(net, w)' <= GrowthIn(net, w) + IF v = w THEN prev_net.valid ELSE 0
      <4>1. prev_net.valid \in {0, 1}
        BY DEF BytesInv, BytesTyped
      <4>. QED
        BY <3>1, <3>2, <3>5, <3>6, <4>1 DEF GrowthIn
    <3>8. GrowthIn(net, w)' \in Nat /\ prev_net.valid \in {0, 1}
      BY <3>1, <3>2, <3>6 DEF BytesInv, BytesTyped
    <3>. QED
      BY <1>1, <1>2, <3>1, <3>3, <3>4, <3>7, <3>8
  <2>. QED
    BY <2>3, <2>4 DEF BytesInv, Accounted
<1>5. ASSUME NEW f \in Ifaces, Reset(f) PROVE BytesInv'
  <2>1. net' = [net EXCEPT ![f] = [w \in Ways |-> 0]] /\ moved' = moved
    BY <1>5 DEF Reset, ghosts
  <2>2. net' \in Counts /\ \A w \in Ways : TotalIn(net', w) <= TotalIn(net, w)
    <3>1. net \in Counts
      BY DEF BytesInv, BytesTyped
    <3>2. net' \in Counts
      BY <2>1, <3>1 DEF Counts
    <3>3. ASSUME NEW w \in Ways PROVE TotalIn(net', w) <= TotalIn(net, w)
      BY ONLY <1>5, <2>1, <3>1, <3>3, TotalFalls
    <3>. QED
      BY <3>2, <3>3
  <2>3. BytesTyped'
    BY <1>1, <2>1, <2>2 DEF BytesInv, BytesTyped
  <2>4. ASSUME NEW w \in Ways
        PROVE  told'[w] + Pending(w)' + GrowthIn(net, w)' <= moved'[w]
    <3>1. /\ told[w] \in Nat /\ moved[w] \in Nat
          /\ TotalIn(net, w) \in Nat /\ GrowthIn(net, w) \in Nat /\ Pending(w) \in Nat
          /\ prev_net.valid = 1 => prev_net.at[w] \in Nat
      BY <2>4, AmountTypes DEF BytesInv
    <3>2. TotalIn(net', w) \in Nat /\ TotalIn(net', w) <= TotalIn(net, w)
      BY <2>2, TotalType
    <3>3. told[w] + Pending(w) + GrowthIn(net, w) <= moved[w]
      BY DEF BytesInv, Accounted
    <3>4. GrowthIn(net, w)' <= GrowthIn(net, w) /\ GrowthIn(net, w)' \in Nat
      BY <1>1, <3>1, <3>2 DEF GrowthIn
    <3>. QED
      BY <1>1, <1>2, <2>1, <3>1, <3>3, <3>4
  <2>. QED
    BY <2>3, <2>4 DEF BytesInv, Accounted
<1>. QED
  BY <1>3, <1>4, <1>5 DEF Kernel, Time, CpuTick, IowaitFalls, Page, Swapon, ghosts

(* The steps of metrics_collect that read nothing of the network. *)
LEMMA OthersKeep ==
    ASSUME BytesInv, FreshInv, UNCHANGED <<net, moved, told, prev_net>>,
           m'.net = m.net,
           mpc' \in {"swap_io", "store"} => mpc \in {"swap_io", "store"}
    PROVE  BytesInv'
<1>1. BytesTyped'
  BY DEF BytesInv, BytesTyped
<1>2. \A w \in Ways : GrowthIn(net, w)' = GrowthIn(net, w)
  BY DEF GrowthIn
<1>3. \A w \in Ways : Pending(w)' = Pending(w) \/ Pending(w)' = 0
  BY DEF Pending
<1>4. \A w \in Ways : told[w] \in Nat /\ moved[w] \in Nat /\ Pending(w) \in Nat
                      /\ GrowthIn(net, w) \in Nat
  BY AmountTypes DEF BytesInv
<1>5. \A w \in Ways : told[w] + Pending(w)' + GrowthIn(net, w) <= moved[w]
  BY <1>3, <1>4 DEF BytesInv, Accounted
<1>. QED
  BY <1>1, <1>2, <1>5 DEF BytesInv, Accounted

LEMMA CollectNetKeeps ==
    ASSUME BytesInv, FreshInv, CollectNet
    PROVE  BytesInv'
<1>1. /\ mpc = "net" /\ mpc' = "swap_io"
      /\ UNCHANGED <<net, moved, told>> /\ prev_net' = ReadNet
  BY DEF CollectNet, Part, kernel, ghosts
<1>2. prev_net'.valid = 1 /\ \A w \in Ways : prev_net'.at[w] = TotalIn(net, w)
  BY <1>1, TotalIs DEF ReadNet, BytesInv, BytesTyped
<1>3. prev_net'.at \in [Ways -> Nat]
  <2>1. \A w \in Ways : ReadNet.at[w] \in Nat
    BY <1>1, <1>2, AmountTypes DEF BytesInv
  <2>. QED
    BY <1>1, <2>1 DEF ReadNet
<1>4. \A w \in Ways : GrowthIn(net, w)' = 0
  <2>. SUFFICES ASSUME NEW w \in Ways PROVE GrowthIn(net, w)' = 0
    OBVIOUS
  <2>1. TotalIn(net, w)' = TotalIn(net, w) /\ TotalIn(net, w) \in Nat
    BY <1>1, AmountTypes DEF BytesInv
  <2>. QED
    BY <1>1, <1>2, <2>1 DEF GrowthIn
<1>5. CASE m' = [m EXCEPT !.net.valid = 0]
  <2>1. m'.net.valid = 0
    BY <1>5 DEF FreshInv, Parts
  <2>2. BytesTyped'
    BY <1>1, <1>2, <1>3, <2>1 DEF BytesInv, BytesTyped
  <2>3. \A w \in Ways : Pending(w)' = 0
    BY <2>1 DEF Pending
  <2>4. \A w \in Ways : /\ told[w] \in Nat /\ moved[w] \in Nat /\ Pending(w) \in Nat
                        /\ GrowthIn(net, w) \in Nat
    BY AmountTypes DEF BytesInv
  <2>5. \A w \in Ways : told[w] + 0 + 0 <= moved[w]
    BY <2>4 DEF BytesInv, Accounted
  <2>. QED
    BY <1>1, <1>4, <2>2, <2>3, <2>5 DEF BytesInv, Accounted
<1>6. ASSUME m' = [m EXCEPT !.net = Rates(prev_net, ReadNet)],
             prev_net.valid # 0, ~NoRates(prev_net, ReadNet)
      PROVE  BytesInv'
  <2>1. m'.net = Rates(prev_net, ReadNet)
    BY <1>6 DEF FreshInv, Parts
  <2>2. \A w \in Ways : m'.net.bytes[w] = TotalIn(net, w) - prev_net.at[w]
    BY <1>1, <1>2, <2>1 DEF Rates
  <2>3. prev_net.valid = 1 /\ \A w \in Ways : ~(TotalIn(net, w) < prev_net.at[w])
    BY <1>1, <1>2, <1>6 DEF NoRates, BytesInv, BytesTyped
  <2>4. \A w \in Ways : TotalIn(net, w) \in Nat /\ prev_net.at[w] \in Nat
    BY <2>3, AmountTypes DEF BytesInv
  <2>5. \A w \in Ways : m'.net.bytes[w] \in Nat /\ m'.net.bytes[w] = GrowthIn(net, w)
    BY <2>2, <2>3, <2>4 DEF GrowthIn
  <2>6. m'.net.bytes \in [Ways -> Nat] /\ m'.net.valid = 1
    BY <2>1, <2>5 DEF Rates
  <2>7. BytesTyped'
    BY <1>1, <1>2, <1>3, <2>6 DEF BytesInv, BytesTyped
  <2>8. \A w \in Ways : Pending(w)' = GrowthIn(net, w) /\ Pending(w) = 0
    BY <1>1, <2>5, <2>6 DEF Pending
  <2>9. \A w \in Ways : told[w] \in Nat /\ moved[w] \in Nat /\ GrowthIn(net, w) \in Nat
    BY AmountTypes DEF BytesInv
  <2>10. \A w \in Ways : told[w] + GrowthIn(net, w) + 0 <= moved[w]
    BY <2>8, <2>9 DEF BytesInv, Accounted
  <2>. QED
    BY <1>1, <1>4, <2>7, <2>8, <2>10 DEF BytesInv, Accounted
<1>. QED
  BY <1>5, <1>6 DEF CollectNet

LEMMA StoreKeeps ==
    ASSUME BytesInv, FreshInv, Store
    PROVE  BytesInv'
<1>1. /\ mpc = "store" /\ mpc' = "sleep"
      /\ UNCHANGED <<net, moved, m, prev_net>>
      /\ told' = IF m.net.valid = 1 THEN [w \in Ways |-> told[w] + m.net.bytes[w]] ELSE told
  BY DEF Store, Part, kernel
<1>2. \A w \in Ways : told'[w] = told[w] + Pending(w)
  <2>. SUFFICES ASSUME NEW w \in Ways PROVE told'[w] = told[w] + Pending(w)
    OBVIOUS
  <2>1. told[w] \in Nat
    BY AmountTypes DEF BytesInv
  <2>. QED
    BY <1>1, <2>1 DEF Pending
<1>3. \A w \in Ways : /\ told[w] \in Nat /\ moved[w] \in Nat /\ Pending(w) \in Nat
                      /\ GrowthIn(net, w) \in Nat
  BY AmountTypes DEF BytesInv
<1>4. told' \in [Ways -> Nat]
  <2>1. \A w \in Ways : told'[w] \in Nat
    BY <1>2, <1>3
  <2>2. told' = [w \in Ways |-> told'[w]]
    BY <1>1 DEF BytesInv, BytesTyped
  <2>. QED
    BY <2>1, <2>2
<1>5. BytesTyped'
  BY <1>1, <1>4 DEF BytesInv, BytesTyped
<1>6. \A w \in Ways : GrowthIn(net, w)' = GrowthIn(net, w) /\ Pending(w)' = 0
  BY <1>1 DEF GrowthIn, Pending
<1>7. \A w \in Ways : told'[w] + 0 + GrowthIn(net, w) <= moved[w]
  BY <1>2, <1>3 DEF BytesInv, Accounted
<1>. QED
  BY <1>1, <1>5, <1>6, <1>7 DEF BytesInv, Accounted

LEMMA BytesStep == BytesInv /\ FreshInv /\ [SampleNext]_svars => BytesInv'
<1>. SUFFICES ASSUME BytesInv, FreshInv, [SampleNext]_svars PROVE BytesInv'
  OBVIOUS
<1>1. CASE Kernel
  BY <1>1, CountersMove
<1>2. CASE Gauges
  <2>1. m'.net = m.net
    BY <1>2 DEF Gauges, FreshInv, Parts
  <2>. QED
    BY <1>2, <2>1, OthersKeep DEF Gauges, Part, kernel, ghosts
<1>3. CASE GaugesFail
  <2>1. m'.net = m.net
    BY <1>3 DEF GaugesFail, FreshInv, Parts
  <2>. QED
    BY <1>3, <2>1, OthersKeep DEF GaugesFail, kernel, ghosts
<1>4. CASE CollectCpu
  <2>1. m'.net = m.net
    BY <1>4 DEF CollectCpu, FreshInv, Parts
  <2>. QED
    BY <1>4, <2>1, OthersKeep DEF CollectCpu, Part, kernel, ghosts
<1>5. CASE CpuUnreadable
  <2>1. m'.net = m.net
    BY <1>5 DEF CpuUnreadable, FreshInv, Parts
  <2>. QED
    BY <1>5, <2>1, OthersKeep DEF CpuUnreadable, Part, kernel, ghosts
<1>6. CASE CollectNet
  BY <1>6, CollectNetKeeps
<1>7. CASE NetUnreadable
  <2>1. m'.net.valid = 0
    BY <1>7 DEF NetUnreadable, FreshInv, Parts
  <2>2. UNCHANGED <<net, moved, told, prev_net>>
    BY <1>7 DEF NetUnreadable, kernel, ghosts
  <2>3. BytesTyped'
    BY <2>1, <2>2 DEF BytesInv, BytesTyped
  <2>4. \A w \in Ways : Pending(w)' = 0 /\ GrowthIn(net, w)' = GrowthIn(net, w)
    BY <2>1, <2>2 DEF Pending, GrowthIn
  <2>5. \A w \in Ways : /\ told[w] \in Nat /\ moved[w] \in Nat /\ Pending(w) \in Nat
                        /\ GrowthIn(net, w) \in Nat
    BY AmountTypes DEF BytesInv
  <2>6. \A w \in Ways : told[w] + 0 + GrowthIn(net, w) <= moved[w]
    BY <2>5 DEF BytesInv, Accounted
  <2>. QED
    BY <2>2, <2>3, <2>4, <2>6 DEF BytesInv, Accounted
<1>8. CASE CollectSwapIo
  <2>1. m'.net = m.net
    BY <1>8 DEF CollectSwapIo, FreshInv, Parts
  <2>. QED
    BY <1>8, <2>1, OthersKeep DEF CollectSwapIo, Part, kernel, ghosts
<1>9. CASE SwapIoUnreadable
  <2>1. m'.net = m.net
    BY <1>9 DEF SwapIoUnreadable, FreshInv, Parts
  <2>. QED
    BY <1>9, <2>1, OthersKeep DEF SwapIoUnreadable, Part, kernel, ghosts
<1>10. CASE Store
  BY <1>10, StoreKeeps
<1>11. CASE UNCHANGED svars
  BY <1>11, OthersKeep DEF svars
<1>. QED
  BY <1>1, <1>2, <1>3, <1>4, <1>5, <1>6, <1>7, <1>8, <1>9, <1>10, <1>11
     DEF SampleNext, Collector

(* The stored rates never tell of more bytes than went over the wire since *)
(* the first reading, for any number of interfaces and readings: whatever  *)
(* counters are reset, and whichever cycles could not read or not store.   *)
THEOREM NoByteTold == SampleSpec => []NoByteTwice
<1>1. BytesInv => NoByteTwice
  <2>. SUFFICES ASSUME BytesInv, NEW w \in Ways PROVE told[w] <= moved[w]
    BY DEF NoByteTwice
  <2>1. /\ told[w] \in Nat /\ moved[w] \in Nat
        /\ GrowthIn(net, w) \in Nat /\ Pending(w) \in Nat
    BY AmountTypes DEF BytesInv
  <2>2. told[w] + Pending(w) + GrowthIn(net, w) <= moved[w]
    BY DEF BytesInv, Accounted
  <2>. QED
    BY <2>1, <2>2
<1>. QED
  BY <1>1, BytesInit, BytesStep, FreshInit, FreshStep, PTL DEF SampleSpec
================================================================================
