-------------------------- MODULE EntitlementsProofs --------------------------
(***************************************************************************)
(* Proofs about Entitlements for every choice of terms, traffic, window    *)
(* and clock bound.                                                        *)
(***************************************************************************)
EXTENDS Entitlements, SequenceTheorems, FiniteSetTheorems, WellFoundedInduction, TLAPS

-----------------------------------------------------------------------------
(* Least and greatest members of sets of numbers. *)

(* A set of natural numbers has a least member, and Min finds it. *)
LEMMA LeastMember ==
  ASSUME NEW S \in SUBSET Nat, S # {}
  PROVE  Min(S) \in S /\ \A y \in S : Min(S) <= y
<1>1. PICK x \in S : \A y \in S : ~(<<y, x>> \in OpToRel(<, Nat))
  BY WFMin, NatLessThanWellFounded
<1>2. \A y \in S : x <= y
  <2>1. SUFFICES ASSUME NEW y \in S, y < x PROVE FALSE
    OBVIOUS
  <2>2. <<y, x>> \in OpToRel(<, Nat)
    BY <2>1 DEF OpToRel
  <2> QED
    BY <1>1, <2>2
<1> QED
  BY <1>1, <1>2 DEF Min

(* A bounded set of natural numbers has a greatest member, and Max finds it. *)
LEMMA GreatestMember ==
  ASSUME NEW S \in SUBSET Nat, S # {}, NEW b \in Nat, \A y \in S : y <= b
  PROVE  Max(S) \in S /\ \A y \in S : Max(S) >= y
<1> DEFINE Below == {b - y : y \in S}
<1>1. Below \in SUBSET Nat /\ Below # {}
  <2>1. \A y \in S : b - y \in Nat
    OBVIOUS
  <2>2. PICK s \in S : TRUE
    OBVIOUS
  <2>3. b - s \in Below
    OBVIOUS
  <2> QED
    BY <2>1, <2>3
<1>2. Min(Below) \in Below /\ \A d \in Below : Min(Below) <= d
  BY <1>1, LeastMember
<1>3. PICK x \in S : Min(Below) = b - x
  BY <1>2
<1>4. \A y \in S : b - x <= b - y
  BY <1>2, <1>3
<1>5. \A y \in S : x >= y
  BY <1>4
<1> QED
  BY <1>3, <1>5 DEF Max

(* Finitely many natural numbers have a bound: the shortest prefix without one has no last member. *)
LEMMA PrefixBounded ==
  ASSUME NEW n \in Nat, NEW f \in [1 .. n -> Nat]
  PROVE  \E b \in Nat : \A i \in 1 .. n : f[i] <= b
<1> DEFINE Bounded(k) == \E b \in Nat : \A i \in 1 .. k : f[i] <= b
           Unbounded == {k \in 0 .. n : ~Bounded(k)}
<1>1. SUFFICES ASSUME Unbounded # {} PROVE FALSE
  <2>1. n \in 0 .. n
    OBVIOUS
  <2>2. SUFFICES ASSUME ~Bounded(n) PROVE FALSE
    OBVIOUS
  <2>3. n \in Unbounded
    BY <2>1, <2>2
  <2> HIDE DEF Unbounded
  <2> QED
    BY <1>1, <2>3
<1>2. Unbounded \in SUBSET Nat
  OBVIOUS
<1>3. PICK k \in Unbounded : \A j \in Unbounded : k <= j
  BY <1>1, <1>2, LeastMember
<1>4. Bounded(0)
  <2>1. \A i \in 1 .. 0 : f[i] <= 0
    OBVIOUS
  <2> QED
    BY <2>1, 0 \in Nat
<1>5. k \in 1 .. n
  BY <1>3, <1>4
<1>6. Bounded(k - 1)
  <2>1. k - 1 \in 0 .. n /\ k - 1 \in Nat /\ ~(k <= k - 1)
    BY <1>5
  <2>2. k - 1 \notin Unbounded
    BY <1>3, <2>1
  <2> HIDE DEF Bounded
  <2> QED
    BY <2>1, <2>2
<1>7. PICK b \in Nat : \A i \in 1 .. (k - 1) : f[i] <= b
  BY <1>6
<1>8. CASE f[k] <= b
  <2>1. \A i \in 1 .. k : f[i] <= b
    BY <1>5, <1>7, <1>8
  <2> QED
    BY <1>3, <2>1
<1>9. CASE f[k] > b
  <2>1. \A i \in 1 .. k : f[i] <= f[k]
    BY <1>5, <1>7, <1>9
  <2> QED
    BY <1>3, <1>5, <2>1
<1> QED
  BY <1>5, <1>8, <1>9

(* Max of two natural numbers. *)
LEMMA LaterOf ==
  ASSUME NEW a \in Nat, NEW b \in Nat
  PROVE  Max({a, b}) \in Nat /\ Max({a, b}) >= a /\ Max({a, b}) >= b /\ Max({a, b}) \in {a, b}
<1>1. \A y \in {a, b} : y <= a + b
  OBVIOUS
<1> QED
  BY <1>1, GreatestMember, a + b \in Nat, {a, b} \in SUBSET Nat, {a, b} # {}

-----------------------------------------------------------------------------
(* The shape of the grants. What a grant has used is left open: FoldLeft computes it. *)

Row(U) == [starts : Nat, ends : Nat \union {None}, quota : (Nat \ {0}) \union {None}, used : U,
           limit : (Nat \ {0}) \union {None}, status : {"active", "revoked"}]
Forward(g) == g.ends = None \/ g.starts <= g.ends
Dated(gs) == \E U : gs \in Seq(Row(U)) /\ \A i \in DOMAIN gs : Forward(gs[i])

(* Rows computed one by one from dated grants are dated grants. *)
LEMMA DatedMap ==
  ASSUME NEW gs, NEW U, gs \in Seq(Row(U)), NEW V, NEW after, DOMAIN after = DOMAIN gs,
         after = [i \in DOMAIN after |-> after[i]],
         \A i \in DOMAIN gs : after[i] \in Row(V) /\ Forward(after[i])
  PROVE  Dated(after)
<1>1. Len(gs) \in Nat /\ DOMAIN gs = 1 .. Len(gs)
  BY LenProperties
<1>2. after \in [1 .. Len(gs) -> Row(V)]
  BY <1>1
<1>3. after \in Seq(Row(V))
  BY <1>1, <1>2, SeqDef
<1> QED
  BY <1>3 DEF Dated

(* Grants start and end at moments, or do not end. *)
LEMMA MomentsOfGrants ==
  ASSUME NEW gs, Dated(gs)
  PROVE  \A i \in DOMAIN gs : gs[i].starts \in Nat /\ gs[i].ends \in Nat \union {None}
<1>1. PICK U : gs \in Seq(Row(U))
  BY DEF Dated
<1>2. \A i \in DOMAIN gs : gs[i] \in Row(U)
  BY <1>1, LenProperties, ElementOfSeq
<1> QED
  BY <1>2 DEF Row

(* Where a new timed grant starts: a moment, never before now. *)
LEMMA TimedEndType ==
  ASSUME NEW gs, Dated(gs), now \in Nat
  PROVE  TimedEnd(gs) \in Nat /\ TimedEnd(gs) >= now
<1> DEFINE J == {j \in DOMAIN gs : Live(gs[j], now) /\ gs[j].ends # None}
           S == {now} \union {gs[i].ends : i \in J}
           f == [i \in 1 .. Len(gs) |-> IF gs[i].ends # None THEN gs[i].ends ELSE 0]
<1>1. PICK U : gs \in Seq(Row(U))
  BY DEF Dated
<1>2. Len(gs) \in Nat /\ DOMAIN gs = 1 .. Len(gs) /\ \A i \in DOMAIN gs : gs[i].ends \in Nat \union {None}
  BY <1>1, LenProperties, MomentsOfGrants
<1>3. f \in [1 .. Len(gs) -> Nat]
  <2>1. \A i \in 1 .. Len(gs) : (IF gs[i].ends # None THEN gs[i].ends ELSE 0) \in Nat
    BY <1>2
  <2> HIDE DEF J, S
  <2> QED
    BY <2>1
<1>4. PICK b \in Nat : \A i \in 1 .. Len(gs) : f[i] <= b
  BY <1>2, <1>3, PrefixBounded
<1>5. \A y \in S : y \in Nat /\ y <= now + b
  BY <1>2, <1>4
<1>6. Max(S) \in S /\ \A y \in S : Max(S) >= y
  BY <1>5, GreatestMember, S # {}, now + b \in Nat
<1> QED
  BY <1>5, <1>6 DEF TimedEnd

(* Giving a grant leaves dated grants. *)
LEMMA GrantedDated ==
  ASSUME Dated(grants), now \in Nat, NEW term \in TermRow, term.ends # None => term.ends > now, NEW replace \in BOOLEAN
  PROVE  Dated(Granted(term, replace))
<1> DEFINE kept == Kept(grants, replace)
           new == NewGrant(kept, term)
<1>1. PICK U : grants \in Seq(Row(U)) /\ \A i \in DOMAIN grants : Forward(grants[i])
  BY DEF Dated
<1>2. \A i \in DOMAIN grants : grants[i] \in Row(U)
  BY <1>1, LenProperties, ElementOfSeq
<1>3. \A i \in DOMAIN grants : kept[i] \in Row(U) /\ Forward(kept[i])
  BY <1>1, <1>2 DEF Kept, Revoked, Row, Forward
<1>4. DOMAIN kept = DOMAIN grants /\ kept = [i \in DOMAIN kept |-> kept[i]]
  BY DEF Kept
<1> HIDE DEF kept
<1>5. Dated(kept)
  BY <1>1, <1>3, <1>4, DatedMap
<1>6. TimedEnd(kept) \in Nat /\ TimedEnd(kept) >= now
  BY <1>5, TimedEndType
<1>7. new \in Row({0}) /\ Forward(new)
  BY <1>6, NoneAssumption DEF NewGrant, Row, Forward, TermRow
<1> HIDE DEF new
<1>8. PICK V : kept \in Seq(Row(V)) /\ \A i \in DOMAIN kept : Forward(kept[i])
  BY <1>5 DEF Dated
<1> DEFINE W == V \union {0}
<1>9. kept \in Seq(Row(W)) /\ new \in Row(W)
  <2>1. Row(V) \subseteq Row(W) /\ Row({0}) \subseteq Row(W)
    BY DEF Row
  <2> QED
    BY <1>7, <1>8, <2>1, SeqMonotonic
<1>10. Append(kept, new) \in Seq(Row(W)) /\ \A i \in DOMAIN Append(kept, new) : Forward(Append(kept, new)[i])
  BY <1>7, <1>8, <1>9, AppendProperties, LenProperties
<1>11. Granted(term, replace) = Append(kept, new)
  BY DEF Granted, kept, new
<1> QED
  BY <1>10, <1>11 DEF Dated

(* Revoking a grant leaves dated grants: those behind it move, and not to before the clock's start. *)
LEMMA PulledDated ==
  ASSUME Dated(grants), now \in Nat, NEW k \in DOMAIN grants
  PROVE  Dated(PulledForward(grants, k))
<1> DEFINE g == grants[k]
           length == IF g.ends = None THEN 0 ELSE g.ends - Max({now, g.starts})
           after == PulledForward(grants, k)
<1>1. PICK U : grants \in Seq(Row(U)) /\ \A i \in DOMAIN grants : Forward(grants[i])
  BY DEF Dated
<1>2. \A i \in DOMAIN grants : grants[i] \in Row(U)
  BY <1>1, LenProperties, ElementOfSeq
<1>3. Max({now, g.starts}) \in Nat
  BY <1>2, LaterOf DEF Row
<1>4. DOMAIN after = DOMAIN grants /\ after = [i \in DOMAIN after |-> after[i]]
  BY DEF PulledForward
<1>5. ASSUME NEW i \in DOMAIN grants PROVE after[i] \in Row(U) /\ Forward(after[i])
  <2>1. CASE i = k
    BY <1>1, <1>2, <2>1 DEF PulledForward, Revoked, Row, Forward
  <2>2. CASE i # k /\ after[i] = grants[i]
    BY <1>1, <1>2, <2>2
  <2>3. CASE i # k /\ after[i] # grants[i]
    <3> DEFINE later == grants[i]
    <3>1. /\ length > 0 /\ later.ends # None /\ later.starts >= g.ends
          /\ after[i] = [later EXCEPT !.starts = @ - length, !.ends = @ - length]
      BY <2>3 DEF PulledForward
    <3>2. g.ends \in Nat /\ length = g.ends - Max({now, g.starts}) /\ later.starts \in Nat /\ later.ends \in Nat /\ later.starts <= later.ends
      BY <1>1, <1>2, <3>1 DEF Row, Forward
    <3> HIDE DEF length
    <3>3. Max({now, g.starts}) >= 0 /\ length \in Int
      BY <1>3, <3>2
    <3> DEFINE a == later.starts - length
               b == later.ends - length
    <3>4. a \in Nat /\ b \in Nat /\ a <= b
      BY <1>3, <3>1, <3>2, <3>3
    <3>5. after[i] = [later EXCEPT !.starts = a, !.ends = b]
      BY <3>1
    <3> HIDE DEF a, b, after
    <3> QED
      BY <1>2, <3>4, <3>5 DEF Row, Forward
  <2> QED
    BY <2>1, <2>2, <2>3
<1> HIDE DEF after
<1> QED
  BY <1>1, <1>4, <1>5, DatedMap DEF after

(* Charging traffic changes what the grants have used and nothing else. *)
LEMMA ChargedDated ==
  ASSUME Dated(grants), NEW bytes
  PROVE  Dated([i \in DOMAIN grants |-> [grants[i] EXCEPT !.used = Charged(bytes)[i].used]])
<1> DEFINE used(i) == Charged(bytes)[i].used
           after == [i \in DOMAIN grants |-> [grants[i] EXCEPT !.used = used(i)]]
           V == {used(i) : i \in DOMAIN grants}
<1>1. PICK U : grants \in Seq(Row(U)) /\ \A i \in DOMAIN grants : Forward(grants[i])
  BY DEF Dated
<1>2. \A i \in DOMAIN grants : grants[i] \in Row(U)
  BY <1>1, LenProperties, ElementOfSeq
<1> HIDE DEF used
<1>3. \A i \in DOMAIN grants : after[i] \in Row(V) /\ Forward(after[i])
  BY <1>1, <1>2 DEF Row, Forward
<1>4. Dated(after)
  BY <1>1, <1>3, DatedMap
<1> QED
  BY <1>4 DEF used

-----------------------------------------------------------------------------
(* What evaluate says, at the moment it is computed and after. *)

(* Wherever the end of coverage has not come, a grant that was live covers the moment. *)
LEMMA CoveredUntil ==
  ASSUME NEW gs, Dated(gs), NEW at \in Nat, NEW t \in Nat, at <= t, Until(gs, at) = None \/ t < Until(gs, at)
  PROVE  \E i \in DOMAIN gs : Covers(gs[i], at, t)
<1> DEFINE ends == {gs[i].ends : i \in {j \in DOMAIN gs : Live(gs[j], at) /\ gs[j].ends # None}}
           Begun == {c \in {at} \union ends : c <= t}
           c == Max(Begun)
<1>1. \A i \in DOMAIN gs : gs[i].starts \in Nat /\ gs[i].ends \in Nat \union {None}
  BY MomentsOfGrants
<1>2. {at} \union ends \in SUBSET Nat
  BY <1>1
<1>3. \A i \in DOMAIN gs : Live(gs[i], at) /\ gs[i].ends # None => gs[i].ends \in ends
  OBVIOUS
<1>4. Gaps(gs, at) = {m \in {at} \union ends : \A i \in DOMAIN gs : ~Covers(gs[i], at, m)}
  BY DEF Gaps
<1> HIDE DEF ends
<1>5. c \in Begun /\ \A m \in Begun : m <= c
  <2>1. Begun \in SUBSET Nat /\ at \in Begun /\ \A m \in Begun : m <= t
    BY <1>2
  <2> HIDE DEF Begun
  <2>2. c \in Begun /\ \A m \in Begun : c >= m
    BY <2>1, GreatestMember
  <2> QED
    BY <2>1, <2>2
<1> HIDE DEF c
<1>6. c \in Nat /\ c <= t /\ c \in {at} \union ends
  BY <1>2, <1>5
<1>7. c \notin Gaps(gs, at)
  <2>1. SUFFICES ASSUME c \in Gaps(gs, at) PROVE FALSE
    OBVIOUS
  <2>2. Until(gs, at) = Min(Gaps(gs, at))
    BY <2>1 DEF Until
  <2>3. Gaps(gs, at) \in SUBSET Nat
    BY <1>2, <1>4
  <2>4. Until(gs, at) \in Nat /\ Until(gs, at) <= c
    BY <2>1, <2>2, <2>3, LeastMember
  <2> QED
    BY <1>6, <2>4, NoneAssumption
<1>8. PICK i \in DOMAIN gs : Covers(gs[i], at, c)
  BY <1>4, <1>6, <1>7
<1>9. gs[i].starts <= t
  BY <1>1, <1>6, <1>8 DEF Covers
<1>10. EndsAfter(gs[i], t)
  <2>1. SUFFICES ASSUME gs[i].ends # None, ~(gs[i].ends > t) PROVE FALSE
    BY DEF EndsAfter
  <2>2. gs[i].ends \in ends /\ gs[i].ends > c
    BY <1>3, <1>8, <2>1 DEF Covers, EndsAfter
  <2>3. gs[i].ends \in Begun
    BY <1>1, <2>1, <2>2
  <2> QED
    BY <1>1, <1>5, <1>6, <2>1, <2>2, <2>3
<1> QED
  BY <1>8, <1>9, <1>10 DEF Covers

(* Coverage that has begun ends later than now. *)
LEMMA UntilAhead ==
  ASSUME NEW gs, Dated(gs), NEW at \in Nat, Current(gs, at) # {}
  PROVE  Until(gs, at) = None \/ (Until(gs, at) \in Nat /\ Until(gs, at) > at)
<1>1. PICK k \in DOMAIN gs : Usable(gs[k], at)
  BY DEF Current
<1>2. Covers(gs[k], at, at)
  BY <1>1 DEF Usable, Covers, Live
<1>3. \A i \in DOMAIN gs : gs[i].ends \in Nat \union {None}
  BY MomentsOfGrants
<1>4. \A m \in Gaps(gs, at) : m \in Nat /\ m > at
  <2>1. SUFFICES ASSUME NEW m \in Gaps(gs, at) PROVE m \in Nat /\ m > at
    OBVIOUS
  <2>2. m # at
    BY <1>2 DEF Gaps
  <2>3. PICK i \in DOMAIN gs : Live(gs[i], at) /\ gs[i].ends # None /\ m = gs[i].ends
    BY <2>2 DEF Gaps
  <2> QED
    BY <1>3, <2>3 DEF Live, EndsAfter
<1>5. CASE Gaps(gs, at) = {}
  BY <1>5 DEF Until
<1>6. CASE Gaps(gs, at) # {}
  <2>1. Min(Gaps(gs, at)) \in Gaps(gs, at)
    BY <1>4, <1>6, LeastMember, Gaps(gs, at) \in SUBSET Nat
  <2> QED
    BY <1>4, <1>6, <2>1 DEF Until
<1> QED
  BY <1>5, <1>6

(* While no active grant starts or ends, evaluate says the same. *)
LEMMA NothingPassed ==
  ASSUME NEW gs, Dated(gs), NEW s \in Nat, NEW t \in Nat, s <= t,
         \A i \in DOMAIN gs : gs[i].status = "active" =>
           /\ ~(s < gs[i].starts /\ gs[i].starts <= t)
           /\ gs[i].ends # None => ~(s < gs[i].ends /\ gs[i].ends <= t)
  PROVE  Evaluate(gs, s) = Evaluate(gs, t)
<1>1. \A i \in DOMAIN gs : gs[i].starts \in Nat /\ gs[i].ends \in Nat \union {None}
  BY MomentsOfGrants
<1>2. \A i \in DOMAIN gs : Live(gs[i], s) <=> Live(gs[i], t)
  BY <1>1 DEF Live, EndsAfter
<1>3. \A i \in DOMAIN gs : Usable(gs[i], s) <=> Usable(gs[i], t)
  BY <1>1, <1>2 DEF Usable, Live
<1>4. Current(gs, s) = Current(gs, t)
  BY <1>3 DEF Current
<1>5. \A i \in DOMAIN gs, m \in Nat : Covers(gs[i], s, m) <=> Covers(gs[i], t, m)
  BY <1>2 DEF Covers
<1>6. ASSUME Current(gs, s) # {} PROVE Gaps(gs, s) = Gaps(gs, t)
  <2>1. PICK k \in DOMAIN gs : Usable(gs[k], s) /\ Usable(gs[k], t)
    BY <1>3, <1>6 DEF Current
  <2>2. Covers(gs[k], s, s) /\ Covers(gs[k], t, t)
    BY <2>1 DEF Usable, Covers, Live
  <2> DEFINE ends == {gs[i].ends : i \in {j \in DOMAIN gs : Live(gs[j], s) /\ gs[j].ends # None}}
  <2>3. ends = {gs[i].ends : i \in {j \in DOMAIN gs : Live(gs[j], t) /\ gs[j].ends # None}}
    BY <1>2
  <2>4. ends \in SUBSET Nat
    BY <1>1
  <2>5. Gaps(gs, s) = {m \in {s} \union ends : \A i \in DOMAIN gs : ~Covers(gs[i], s, m)}
    BY DEF Gaps
  <2>6. Gaps(gs, t) = {m \in {t} \union ends : \A i \in DOMAIN gs : ~Covers(gs[i], t, m)}
    BY <2>3 DEF Gaps
  <2> HIDE DEF ends
  <2>7. Gaps(gs, s) = {m \in ends : \A i \in DOMAIN gs : ~Covers(gs[i], s, m)}
    BY <2>2, <2>5
  <2>8. Gaps(gs, t) = {m \in ends : \A i \in DOMAIN gs : ~Covers(gs[i], t, m)}
    BY <2>2, <2>6
  <2> QED
    BY <1>5, <2>4, <2>7, <2>8
<1>7. Current(gs, s) # {} => Until(gs, s) = Until(gs, t)
  BY <1>6 DEF Until
<1>8. DeviceLimit(gs, s) = DeviceLimit(gs, t)
  BY <1>4 DEF DeviceLimit
<1> QED
  BY <1>4, <1>7, <1>8 DEF Evaluate

-----------------------------------------------------------------------------
(* The inductive invariant: the cache is what evaluate said of today's grants at some moment   *)
(* that is not too long ago. How long depends on the minute job: when its window is as wide as *)
(* the longest gap between its runs, not before the last run that got through.                 *)

WindowSuffices == MaxGap <= Window

Oldest == IF WindowSuffices THEN swept ELSE 0
CacheFromGrants == \E s \in Oldest .. now : cache = Evaluate(grants, s)

IInv ==
  /\ now \in Nat /\ swept \in 0 .. now /\ now - swept <= MaxGap
  /\ Dated(grants)
  /\ CacheFromGrants \/ (grants = <<>> /\ (status = "absent" \/ registering # "no"))

(* A transaction that writes dated grants and their cache re-establishes the invariant. *)
LEMMA StoreKeeps ==
  ASSUME IInv, NEW gs, Dated(gs), Store(gs), now' = now, swept' = swept \/ swept' = now
  PROVE  IInv'
<1>1. swept' \in 0 .. now' /\ now' - swept' <= MaxGap
  <2>1. MaxGap \in Nat
    BY BoundsAssumption
  <2>2. now \in Nat /\ swept \in 0 .. now /\ now - swept <= MaxGap /\ now - now = 0
    BY DEF IInv
  <2>3. CASE swept' = swept
    BY <2>1, <2>2, <2>3
  <2>4. CASE swept' = now
    BY <2>1, <2>2, <2>4
  <2> QED
    BY <2>3, <2>4
<1>2. Oldest' \in 0 .. now
  BY <1>1 DEF Oldest, IInv
<1>3. cache' = Evaluate(grants', now') /\ now' \in Oldest' .. now'
  BY <1>2 DEF Store, IInv
<1> QED
  BY <1>1, <1>3 DEF IInv, Store, CacheFromGrants

(* A step that leaves clock, grants, cache and sweep alone keeps what the cache says. *)
LEMMA AsideKeeps ==
  ASSUME IInv, UNCHANGED <<now, grants, cache, swept>>,
         grants = <<>> /\ (status = "absent" \/ registering # "no") => status' = "absent" \/ registering' # "no"
  PROVE  IInv'
<1>1. Oldest' = Oldest
  BY DEF Oldest
<1>2. Dated(grants') /\ (CacheFromGrants => CacheFromGrants')
  BY <1>1 DEF IInv, CacheFromGrants
<1> QED
  BY <1>2 DEF IInv

(* The clock moves on: the cache is older, and the last run of the job no further away than allowed. *)
LEMMA TickKeeps ==
  ASSUME IInv, Minute
  PROVE  IInv'
<1>1. now' = now + 1 /\ now' \in Nat /\ swept' = swept /\ grants' = grants /\ cache' = cache /\ now - swept < MaxGap
  BY DEF Minute, IInv
<1>2. CacheFromGrants \/ (grants' = <<>> /\ registering' # "no")
  BY DEF IInv, Minute
<1>3. Oldest' = Oldest /\ Oldest \in 0 .. now
  BY <1>1 DEF Oldest, IInv
<1>4. CacheFromGrants => CacheFromGrants'
  BY <1>1, <1>3 DEF CacheFromGrants, IInv
<1>5. swept' \in 0 .. now' /\ now' - swept' <= MaxGap
  BY <1>1, BoundsAssumption DEF IInv
<1> QED
  BY <1>1, <1>2, <1>4, <1>5 DEF IInv

(* The job finds nothing due: no start and no end lies between its last run and now, so the    *)
(* cache would be computed today as it was then.                                               *)
LEMMA SelectKeeps ==
  ASSUME IInv, JobSelect
  PROVE  IInv'
<1>1. UNCHANGED <<now, status, registering, grants, cache>>
  BY DEF JobSelect
<1>2. swept' \in 0 .. now' /\ now' - swept' <= MaxGap
  BY BoundsAssumption DEF JobSelect, IInv
<1>3. ASSUME CacheFromGrants PROVE CacheFromGrants'
  <2>1. PICK s \in Oldest .. now : cache = Evaluate(grants, s)
    BY <1>3 DEF CacheFromGrants
  <2>2. Oldest \in 0 .. now /\ s \in Nat /\ s <= now /\ now \in Nat
    BY <2>1 DEF Oldest, IInv
  <2>3. CASE Oldest' = Oldest
    BY <1>1, <2>1, <2>3 DEF CacheFromGrants
  <2>4. CASE Oldest' # Oldest
    <3>1. WindowSuffices /\ ~JobDue /\ swept' = now /\ Oldest' = now /\ s >= swept
      BY <2>1, <2>2, <2>4 DEF Oldest, JobSelect, IInv
    <3>2. now - Window <= s
      BY <2>2, <3>1, BoundsAssumption DEF WindowSuffices, IInv
    <3>3. \A i \in DOMAIN grants : grants[i].starts \in Nat /\ grants[i].ends \in Nat \union {None}
      BY MomentsOfGrants DEF IInv
    <3>4. \A i \in DOMAIN grants : grants[i].status = "active" =>
            /\ ~(s < grants[i].starts /\ grants[i].starts <= now)
            /\ grants[i].ends # None => ~(s < grants[i].ends /\ grants[i].ends <= now)
      <4>1. \A m \in Nat : s < m /\ m <= now => RecentlyPassed(m)
        BY <2>2, <3>2, BoundsAssumption DEF RecentlyPassed
      <4> QED
        BY <3>1, <3>3, <4>1 DEF JobDue
    <3>5. Evaluate(grants, s) = Evaluate(grants, now)
      BY <2>2, <3>4, NothingPassed DEF IInv
    <3>6. cache' = Evaluate(grants', now') /\ now' \in Oldest' .. now'
      BY <1>1, <2>1, <2>2, <3>1, <3>5
    <3> QED
      BY <3>6 DEF CacheFromGrants
  <2> QED
    BY <2>3, <2>4
<1>4. Dated(grants')
  BY <1>1 DEF IInv
<1> QED
  BY <1>1, <1>2, <1>3, <1>4 DEF IInv

(* Every step keeps the invariant. *)
LEMMA StepKeeps ==
  ASSUME IInv, [AccessNext]_accessVars
  PROVE  IInv'
<1>1. now \in Nat /\ Dated(grants)
  BY DEF IInv
<1>2. CASE Register
  BY <1>2, AsideKeeps DEF Register
<1>3. CASE GrantWelcome
  <2>1. CASE Welcome = None
    BY <1>1, <1>3, <2>1, StoreKeeps DEF GrantWelcome
  <2>2. CASE Welcome # None
    <3>1. Dated(Granted(Welcome, FALSE))
      BY <1>1, <2>2, TermsAssumption, GrantedDated
    <3> QED
      BY <1>3, <2>2, <3>1, StoreKeeps DEF GrantWelcome
  <2> QED
    BY <2>1, <2>2
<1>4. CASE RegisterFails
  BY <1>4, AsideKeeps DEF RegisterFails
<1>5. ASSUME NEW s \in {"active", "pending"}, SetStatus(s) PROVE IInv'
  BY <1>5, AsideKeeps DEF SetStatus
<1>6. ASSUME NEW term \in Terms, NEW replace \in BOOLEAN, GrantAccess(term, replace) PROVE IInv'
  <2>1. Dated(Granted(term, replace))
    BY <1>1, <1>6, TermsAssumption, GrantedDated DEF GrantAccess
  <2> QED
    BY <1>6, <2>1, StoreKeeps DEF GrantAccess
<1>7. ASSUME NEW k \in DOMAIN grants, RevokeGrant(k) PROVE IInv'
  <2>1. Dated(PulledForward(grants, k))
    BY <1>1, <1>7, PulledDated
  <2> QED
    BY <1>7, <2>1, StoreKeeps DEF RevokeGrant
<1>8. ASSUME NEW bytes \in Bytes, ChargeTraffic(bytes) PROVE IInv'
  <2> DEFINE after == [i \in DOMAIN grants |-> [grants[i] EXCEPT !.used = Charged(bytes)[i].used]]
  <2>1. Dated(after)
    BY <1>1, ChargedDated
  <2>2. Store(after) /\ now' = now /\ swept' = swept
    BY <1>8 DEF ChargeTraffic
  <2> HIDE DEF after
  <2> QED
    BY <2>1, <2>2, StoreKeeps
<1>9. CASE JobRefresh
  BY <1>1, <1>9, StoreKeeps DEF JobRefresh
<1>10. CASE JobFails \/ UNCHANGED accessVars
  BY <1>10, AsideKeeps DEF JobFails, accessVars
<1> QED
  BY <1>2, <1>3, <1>4, <1>5, <1>6, <1>7, <1>8, <1>9, <1>10, SelectKeeps, TickKeeps DEF AccessNext

-----------------------------------------------------------------------------
(* The theorems. *)

(* The inductive invariant holds of every behaviour. *)
LEMMA Invariant == AccessSpec => []IInv
<1>1. AccessInit => IInv
  <2>1. Dated(<<>>)
    <3>1. <<>> \in Seq(Row({})) /\ \A i \in DOMAIN <<>> : Forward(<<>>[i])
      BY EmptySeq
    <3> QED
      BY <3>1 DEF Dated
  <2> QED
    BY <2>1, BoundsAssumption DEF AccessInit, IInv
<1>2. IInv /\ [AccessNext]_accessVars => IInv'
  BY StepKeeps
<1> QED
  BY <1>1, <1>2, PTL DEF AccessSpec

(* Whoever may connect holds a usable grant, for any terms, any traffic and any number of      *)
(* grants, however late the minute job runs: the end evaluate finds is never beyond the first  *)
(* gap in the coverage.                                                                        *)
THEOREM AccessNeedsGrant == AccessSpec => []AccessIsCovered
<1>1. IInv => AccessIsCovered
  <2>1. SUFFICES ASSUME IInv, Access, ~OnDefaults PROVE Current(grants, now) # {}
    BY DEF AccessIsCovered
  <2>2. CacheFromGrants /\ now \in Nat /\ Oldest \in 0 .. now
    BY <2>1 DEF IInv, Access, Oldest, OnDefaults
  <2>3. PICK s \in Oldest .. now : cache = Evaluate(grants, s)
    BY <2>2 DEF CacheFromGrants
  <2>4. s \in Nat /\ s <= now
    BY <2>2
  <2>5. Until(grants, s) = None \/ now < Until(grants, s)
    <3>1. cache.ok /\ (cache.until = None \/ cache.until > now)
      BY <2>1 DEF Access
    <3>2. Current(grants, s) # {} /\ cache.until = Until(grants, s)
      BY <2>3, <3>1 DEF Evaluate
    <3>3. Until(grants, s) = None \/ Until(grants, s) \in Nat
      BY <2>1, <2>4, <3>2, UntilAhead DEF IInv
    <3> QED
      BY <2>2, <3>1, <3>2, <3>3
  <2>6. PICK i \in DOMAIN grants : Covers(grants[i], s, now)
    BY <2>1, <2>2, <2>4, <2>5, CoveredUntil DEF IInv
  <2>7. Usable(grants[i], now)
    BY <2>6 DEF Covers, Usable, Live
  <2> QED
    BY <2>7 DEF Current
<1> QED
  BY <1>1, Invariant, PTL

(* When the minute job has got through, the cache says what the grants say, for every plan and *)
(* every history, as long as no gap between its runs is wider than the window it looks back.   *)
THEOREM JobKeepsCache ==
  ASSUME WindowSuffices
  PROVE  AccessSpec => []CacheFollowsGrants
<1>1. IInv => CacheFollowsGrants
  <2>1. SUFFICES ASSUME IInv, status # "absent", ~OnDefaults, swept = now,
                        NEW truth, truth = Evaluate(grants, now)
                 PROVE  /\ truth.ok <=> (cache.ok /\ (cache.until = None \/ cache.until > now))
                        /\ truth.ok => cache.until = truth.until /\ cache.limit = truth.limit
    BY DEF CacheFollowsGrants
  <2>2. cache = truth
    BY <2>1 DEF IInv, CacheFromGrants, Oldest, OnDefaults
  <2>3. truth.ok <=> Current(grants, now) # {}
    BY <2>1 DEF Evaluate
  <2>4. truth.ok => truth.until = None \/ truth.until > now
    BY <2>1, <2>3, UntilAhead DEF Evaluate, IInv
  <2> QED
    BY <2>2, <2>4
<1> QED
  BY <1>1, Invariant, PTL

=============================================================================
