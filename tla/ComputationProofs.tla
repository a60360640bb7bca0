--------------------------- MODULE ComputationProofs ---------------------------
(***************************************************************************)
(* What the computations of bigbrain compute, for every size of their      *)
(* input: the scans of decide find the best pods, the rings of the         *)
(* insights store keep the newest rows, and a query sums up what is        *)
(* stored.  Induction over data is that of the natural numbers on a set:   *)
(* a set that has 0 and with n also n + 1 has every number.                *)
(***************************************************************************)
EXTENDS DecideLoops, Insights, InsightsQuery, FiniteSetTheorems, SequenceTheorems,
        WellFoundedInduction, TLAPS

-----------------------------------------------------------------------------
(* Induction and recursion. *)

\* Induction over the natural numbers, as a fact of sets.
LEMMA SetInduction ==
  ASSUME NEW S, 0 \in S, \A n \in Nat : n \in S => n + 1 \in S
  PROVE  Nat \subseteq S
<1> DEFINE R == OpToRel(<, Nat)
           T == Nat \ S
<1>1. SUFFICES ASSUME T # {} PROVE FALSE
  OBVIOUS
<1>2. IsWellFoundedOn(R, Nat)
  BY NatLessThanWellFounded
<1>3. PICK x \in T : \A y \in T : ~(<<y, x>> \in R)
  <2> HIDE DEF R
  <2> QED  BY <1>1, <1>2, WFMin
<1>4. x \in Nat /\ x # 0 /\ x - 1 \in Nat
  OBVIOUS
<1>5. <<x - 1, x>> \in R
  BY <1>4 DEF OpToRel
<1>6. x - 1 \in S
  BY <1>3, <1>4, <1>5
<1> QED
  BY <1>4, <1>6

\* The states of a loop: step[<<n, a>>] is what it makes of a in its n-th turn.
Steps(A) == [Nat \X A -> A]
IsLoop(g, n, A, a0, step) ==
  g \in [0..n -> A] /\ g[0] = a0 /\ \A k \in 1..n : g[k] = step[<<k, g[k - 1]>>]

\* There are such states for every number of turns.
LEMMA Recursion ==
  ASSUME NEW A, NEW a0 \in A, NEW step \in Steps(A), NEW N \in Nat
  PROVE  \E f : IsLoop(f, N, A, a0, step)
<1> DEFINE Is(g, n) == IsLoop(g, n, A, a0, step)
           S == {n \in Nat : \E g : Is(g, n)}
<1> USE DEF IsLoop, Steps
<1>1. 0 \in S
  <2> DEFINE g == [k \in 0..0 |-> a0]
  <2>1. Is(g, 0)
    OBVIOUS
  <2> QED  BY <2>1
<1>2. ASSUME NEW n \in Nat, n \in S
      PROVE  n + 1 \in S
  <2>1. PICK g : Is(g, n)
    BY <1>2
  <2> DEFINE h == [k \in 0..(n + 1) |-> IF k = n + 1 THEN step[<<n + 1, g[n]>>] ELSE g[k]]
  <2>2. g[n] \in A  BY <2>1
  <2>3. step[<<n + 1, g[n]>>] \in A  BY <2>2
  <2>4. h \in [0..(n + 1) -> A]  BY <2>1, <2>3
  <2>5. h[0] = a0  BY <2>1
  <2>6. ASSUME NEW k \in 1..(n + 1) PROVE h[k] = step[<<k, h[k - 1]>>]
    <3>1. CASE k = n + 1
      <4>1. k - 1 = n /\ k - 1 \in 0..(n + 1) /\ h[k - 1] = g[n]  BY <3>1
      <4> QED  BY <3>1, <4>1
    <3>2. CASE k # n + 1
      <4>1. k \in 1..n /\ k \in 0..(n + 1) /\ k - 1 # n + 1 /\ k - 1 \in 0..(n + 1)  BY <3>2
      <4>2. h[k] = g[k] /\ h[k - 1] = g[k - 1]  BY <4>1
      <4> QED  BY <2>1, <4>1, <4>2
    <3> QED  BY <3>1, <3>2
  <2>7. Is(h, n + 1)  BY <2>4, <2>5, <2>6
  <2> HIDE DEF Is, h
  <2> QED  BY <2>7
<1>3. \E f : Is(f, N)
  <2>1. Nat \subseteq S
    <3> HIDE DEF S
    <3> QED  BY <1>1, <1>2, SetInduction
  <2> QED  BY <2>1
<1> QED
  BY <1>3

-----------------------------------------------------------------------------
(* The scans of decide. *)

\* The order of a comparison: beaten[p] are those that p is better than.
IsStrictOrder(beaten, S) ==
  /\ \A p, q, r \in S : q \in beaten[p] /\ r \in beaten[q] => r \in beaten[p]
  /\ \A p, q \in S : p = q \/ q \in beaten[p] \/ p \in beaten[q]
  /\ \A p \in S : p \notin beaten[p]

\* A scan finds the element that beats all the others, and none only if there is none.
LEMMA ScanFinds ==
  ASSUME NEW E, NoPod \notin E, NEW S, E \subseteq S, NEW s \in Seq(S), NEW beaten, IsStrictOrder(beaten, E)
  PROVE  LET b == scan(s, E, beaten)
         IN  \/ b = NoPod /\ \A k \in 1..Len(s) : s[k] \notin E
             \/ /\ b \in E /\ \E k \in 1..Len(s) : s[k] = b
                /\ \A k \in 1..Len(s) : s[k] \in E => s[k] = b \/ s[k] \in beaten[b]
<1> DEFINE A == S \union {NoPod}
           n0 == Len(s)
           D(f) == [n \in 0..n0 |->
                      IF n = 0 THEN NoPod
                      ELSE IF s[n] \in E /\ (f[n - 1] = NoPod \/ f[n - 1] \in beaten[s[n]])
                           THEN s[n] ELSE f[n - 1]]
           best == CHOOSE f : f = D(f)
           step == [x \in Nat \X A |->
                      IF s[x[1]] \in E /\ (x[2] = NoPod \/ x[2] \in beaten[s[x[1]]])
                      THEN s[x[1]] ELSE x[2]]
<1>1. n0 \in Nat /\ \A n \in 1..n0 : s[n] \in S
  OBVIOUS
<1>2. step \in Steps(A)
  BY DEF Steps
<1>3. \E f : f = D(f)
  <2>1. PICK f : f \in [0..n0 -> A] /\ f[0] = NoPod /\ \A n \in 1..n0 : f[n] = step[<<n, f[n - 1]>>]
    <3>1. NoPod \in A /\ n0 \in Nat
      BY <1>1
    <3> HIDE DEF step, n0, A, D, best
    <3>2. \E f : IsLoop(f, n0, A, NoPod, step)
      BY <1>2, <3>1, Recursion
    <3> QED  BY <3>2 DEF IsLoop
  <2>2. ASSUME NEW n \in 0..n0, n # 0
        PROVE  step[<<n, f[n - 1]>>] =
                 IF s[n] \in E /\ (f[n - 1] = NoPod \/ f[n - 1] \in beaten[s[n]]) THEN s[n] ELSE f[n - 1]
    <3>1. n \in Nat /\ n - 1 \in 0..n0 /\ f[n - 1] \in A
      <4> HIDE DEF step, D, A, n0
      <4> QED  BY <1>1, <2>1, <2>2
    <3> QED  BY <3>1
  <2>3. ASSUME NEW n \in 0..n0
        PROVE  f[n] = D(f)[n]
    <3>1. CASE n = 0
      BY <2>1, <3>1
    <3>2. CASE n # 0
      <4>1. n \in 1..n0
        BY <1>1, <3>2
      <4> HIDE DEF step
      <4> QED  BY <2>1, <2>2, <3>2, <4>1
    <3> QED  BY <3>1, <3>2
  <2>4. f = D(f)
    <3>1. DOMAIN D(f) = 0..n0 /\ D(f) = [n \in 0..n0 |-> D(f)[n]]
      OBVIOUS
    <3> HIDE DEF D
    <3> QED  BY <2>1, <2>3, <3>1
  <2> QED  BY <2>4
<1>4. best = D(best)
  <2> HIDE DEF D
  <2> QED  BY <1>3
<1>5. scan(s, E, beaten) = best[n0]
  BY DEF scan
<1> DEFINE Kept(n) == \/ best[n] = NoPod /\ \A k \in 1..n : s[k] \notin E
                      \/ /\ best[n] \in E /\ \E k \in 1..n : s[k] = best[n]
                         /\ \A k \in 1..n : s[k] \in E => s[k] = best[n] \/ s[k] \in beaten[best[n]]
           T == {n \in Nat : n <= n0 => Kept(n)}
<1> HIDE DEF best
<1>6. 0 \in T
  <2>1. best[0] = NoPod
    BY <1>1, <1>4
  <2> QED  BY <2>1
<1>7. ASSUME NEW n \in Nat, n \in T
      PROVE  n + 1 \in T
  <2> SUFFICES ASSUME n + 1 <= n0
               PROVE  Kept(n + 1)
    OBVIOUS
  <2> DEFINE p == s[n + 1]
             b == best[n]
             c == best[n + 1]
  <2>1. Kept(n) /\ n + 1 \in 0..n0 /\ n + 1 # 0 /\ (n + 1) - 1 = n /\ n + 1 \in 1..n0
    BY <1>1, <1>7
  <2>2. c = IF p \in E /\ (b = NoPod \/ b \in beaten[p]) THEN p ELSE b
    BY <1>4, <2>1
  <2>3. p \in S
    BY <1>1, <2>1
  <2>4. \A k \in 1..(n + 1) : k = n + 1 \/ k \in 1..n
    OBVIOUS
  <2>5. \A k \in 1..n : k \in 1..(n + 1)
    OBVIOUS
  <2>6. n + 1 \in 1..(n + 1)
    OBVIOUS
  <2> HIDE DEF p, b, c
  <2>7. NoPod \notin E
    OBVIOUS
  <2>8. CASE p \notin E
    <3>1. c = b
      BY <2>2, <2>8
    <3> QED
      BY <2>1, <2>4, <2>5, <2>8, <3>1 DEF b, c, p
  <2>9. CASE p \in E /\ b = NoPod
    <3>1. c = p
      BY <2>2, <2>9
    <3>2. \A k \in 1..n : s[k] \notin E
      BY <2>1, <2>7, <2>9 DEF b
    <3> QED
      BY <2>4, <2>6, <2>9, <3>1, <3>2 DEF c, p
  <2>10. CASE p \in E /\ b # NoPod
    <3>1. /\ b \in E /\ \E k \in 1..n : s[k] = b
          /\ \A k \in 1..n : s[k] \in E => s[k] = b \/ s[k] \in beaten[b]
      BY <2>1, <2>10 DEF b
    <3>2. CASE b \in beaten[p]
      <4>1. c = p
        BY <2>2, <2>10, <3>2
      <4>2. \A k \in 1..n : s[k] \in E => s[k] \in beaten[p]
        BY <2>10, <3>1, <3>2 DEF IsStrictOrder
      <4> QED
        BY <2>4, <2>6, <2>10, <4>1, <4>2 DEF c, p
    <3>3. CASE b \notin beaten[p]
      <4>1. c = b
        BY <2>2, <2>10, <3>3
      <4>2. p = b \/ p \in beaten[b]
        BY <2>10, <3>1, <3>3 DEF IsStrictOrder
      <4> QED
        BY <2>4, <2>5, <3>1, <4>1, <4>2 DEF c, p
    <3> QED
      BY <3>2, <3>3
  <2> QED
    BY <2>8, <2>9, <2>10
<1>8. Kept(n0)
  <2>1. Nat \subseteq T
    <3> HIDE DEF T
    <3> QED  BY <1>6, <1>7, SetInduction
  <2> QED  BY <1>1, <2>1
<1> QED
  BY <1>5, <1>8

-----------------------------------------------------------------------------
(* The comparisons are strict total orders. *)

IsRound(r, S) == r \in [S -> Observation] /\ S \subseteq Nat \ {NoPod} /\ \A p \in S : Priority[p] \in Nat

\* The numbers of an observation that the comparisons read.
LEMMA ObservationTyped ==
  ASSUME NEW o \in Observation
  PROVE  o.lease \in Nat /\ o.latest \in Nat
  BY DEF Observation

\* pickLeader's comparison, by the lease and then the pod, is a strict total order of
\* any pods that were observed.
LEMMA LeaderOrder ==
  ASSUME NEW S, NEW r, IsRound(r, S)
  PROVE  IsStrictOrder([p \in S |-> {q \in S : betterLeader(r, p, q)}], S)
<1> DEFINE lease == [p \in S |-> r[p].lease]
<1>1. lease \in [S -> Nat] /\ S \subseteq Nat
  BY ObservationTyped DEF IsRound
<1>2. \A p, q \in S : betterLeader(r, p, q) <=> lease[p] > lease[q] \/ (lease[p] = lease[q] /\ p < q)
  BY DEF betterLeader
<1> HIDE DEF lease
<1> QED
  BY <1>1, <1>2 DEF IsStrictOrder

\* So is bestFailbackCandidate's: the priority, then the timestamp, then the pod.
LEMMA PreferenceOrder ==
  ASSUME NEW S, NEW r, IsRound(r, S)
  PROVE  IsStrictOrder([p \in S |-> {q \in S : morePreferredCandidate(r, p, q)}], S)
<1> DEFINE latest == [p \in S |-> r[p].latest]
<1>1. latest \in [S -> Nat] /\ S \subseteq Nat /\ \A p \in S : Priority[p] \in Nat
  BY ObservationTyped DEF IsRound
<1>2. \A p, q \in S : morePreferredCandidate(r, p, q) <=>
        \/ Priority[p] > Priority[q]
        \/ Priority[p] = Priority[q] /\ latest[p] > latest[q]
        \/ Priority[p] = Priority[q] /\ latest[p] = latest[q] /\ p < q
  BY DEF morePreferredCandidate
<1> HIDE DEF latest
<1> QED
  BY <1>1, <1>2 DEF IsStrictOrder

\* So is bestCandidate's: the attempts come before the preference.
LEMMA AttemptOrder ==
  ASSUME NEW S, NEW r, IsRound(r, S), NEW a \in [S -> Nat]
  PROVE  IsStrictOrder([p \in S |-> {q \in S : lessRecentlyAttempted(r, a, p, q)}], S)
<1> DEFINE pref == [p \in S |-> {q \in S : morePreferredCandidate(r, p, q)}]
           less == [p \in S |-> {q \in S : lessRecentlyAttempted(r, a, p, q)}]
<1>1. IsStrictOrder(pref, S)
  BY PreferenceOrder
<1>2. \A p, q \in S : q \in less[p] <=> a[p] < a[q] \/ (a[p] = a[q] /\ q \in pref[p])
  BY DEF lessRecentlyAttempted
<1> HIDE DEF pref, less
<1>4. \A p, q, t \in S : q \in less[p] /\ t \in less[q] => t \in less[p]
  <2> SUFFICES ASSUME NEW p \in S, NEW q \in S, NEW t \in S, q \in less[p], t \in less[q]
               PROVE  t \in less[p]
    OBVIOUS
  <2>1. a[p] \in Nat /\ a[q] \in Nat /\ a[t] \in Nat
    OBVIOUS
  <2>2. a[p] < a[t] \/ (a[p] = a[t] /\ q \in pref[p] /\ t \in pref[q])
    BY <1>2, <2>1
  <2> QED
    BY <1>1, <1>2, <2>2 DEF IsStrictOrder
<1>5. \A p, q \in S : p = q \/ q \in less[p] \/ p \in less[q]
  <2> SUFFICES ASSUME NEW p \in S, NEW q \in S
               PROVE  p = q \/ q \in less[p] \/ p \in less[q]
    OBVIOUS
  <2>1. a[p] < a[q] \/ a[q] < a[p] \/ a[p] = a[q]
    OBVIOUS
  <2>2. p = q \/ q \in pref[p] \/ p \in pref[q]
    BY <1>1 DEF IsStrictOrder
  <2> QED
    BY <1>2, <2>1, <2>2
<1>6. \A p \in S : p \notin less[p]
  BY <1>1, <1>2 DEF IsStrictOrder
<1>7. IsStrictOrder(less, S)
  BY <1>4, <1>5, <1>6 DEF IsStrictOrder
<1> QED
  BY <1>7 DEF less

\* The element of E that beats the others, and a list that leaves nobody out.
IsBest(p, E, beaten) == p \in E /\ \A q \in E \ {p} : q \in beaten[p]
IsListing(s, S) == s \in Seq(S) /\ \A p \in S : \E k \in 1..Len(s) : s[k] = p

\* An order on all pods is one on some of them, and its best element is unique.
LEMMA ScanOfAll ==
  ASSUME NEW S, NoPod \notin S, NEW s, IsListing(s, S),
         NEW E, E \subseteq S, NEW beaten, IsStrictOrder(beaten, S)
  PROVE  /\ E = {} => scan(s, E, beaten) = NoPod
         /\ E # {} => /\ scan(s, E, beaten) \in E
                      /\ \A p \in S : IsBest(p, E, beaten) <=> p = scan(s, E, beaten)
<1> DEFINE b == scan(s, E, beaten)
<1>1. IsStrictOrder(beaten, E)
  BY DEF IsStrictOrder
<1>2. s \in Seq(S) /\ NoPod \notin E
  BY DEF IsListing
<1>3. \/ b = NoPod /\ \A k \in 1..Len(s) : s[k] \notin E
      \/ b \in E /\ \A k \in 1..Len(s) : s[k] \in E => s[k] = b \/ s[k] \in beaten[b]
  BY <1>1, <1>2, ScanFinds
<1> HIDE DEF b
<1>4. \A p \in E : \E k \in 1..Len(s) : s[k] = p
  BY DEF IsListing
<1>5. CASE E = {}
  BY <1>3, <1>5 DEF b
<1>6. CASE E # {}
  <2>1. b \in E /\ \A q \in E : q = b \/ q \in beaten[b]
    BY <1>3, <1>4, <1>6
  <2>2. \A p \in S : IsBest(p, E, beaten) => p = b
    BY <2>1 DEF IsStrictOrder, IsBest
  <2>3. IsBest(b, E, beaten)
    BY <2>1 DEF IsBest
  <2> QED
    BY <1>6, <2>1, <2>2, <2>3 DEF b
<1> QED
  BY <1>5, <1>6

\* So it exists in every set that is not empty.
LEMMA BestExists ==
  ASSUME NEW S, IsFiniteSet(S), NoPod \notin S, NEW E, E \subseteq S, E # {},
         NEW beaten, IsStrictOrder(beaten, S)
  PROVE  \E p \in S : \A q \in S : IsBest(q, E, beaten) <=> q = p
<1>1. PICK s : IsListing(s, S)
  <2>1. PICK f : f \in Bijection(1..Cardinality(S), S)
    BY FS_CardinalityType DEF ExistsBijection
  <2>2. f \in [1..Cardinality(S) -> S] /\ \A p \in S : \E k \in 1..Cardinality(S) : f[k] = p
    BY <2>1 DEF Bijection, Injection, Surjection
  <2>3. f \in Seq(S) /\ Len(f) = Cardinality(S)
    BY <2>2, FS_CardinalityType
  <2>4. IsListing(f, S)
    BY <2>2, <2>3 DEF IsListing
  <2> QED
    BY <2>4
<1>2. scan(s, E, beaten) \in E /\ \A p \in S : IsBest(p, E, beaten) <=> p = scan(s, E, beaten)
  BY <1>1, ScanOfAll
<1> QED
  BY <1>2

\* What an order of the code prefers, as a relation, and what it says of the best.
LEMMA BestLeader ==
  ASSUME NEW S, NEW r, IsRound(r, S), NEW p \in S
  PROVE  IsBest(p, claimedLeaders(r), [x \in S |-> {q \in S : betterLeader(r, x, q)}]) <=> PickLeader(r, p)
<1>1. claimedLeaders(r) \subseteq S
  BY DEF claimedLeaders, IsRound
<1> QED
  BY <1>1 DEF IsBest, PickLeader

\* The same of the candidates for a promotion.
LEMMA BestPromotable ==
  ASSUME NEW S, NEW r, IsRound(r, S), NEW a, NEW p \in S
  PROVE  IsBest(p, promotable(r), [x \in S |-> {q \in S : lessRecentlyAttempted(r, a, x, q)}])
           <=> BestCandidate(r, a, p)
<1>1. promotable(r) \subseteq S
  BY DEF promotable, IsRound
<1> QED
  BY <1>1 DEF IsBest, BestCandidate

\* The same of the candidates for a failback.
LEMMA BestFailback ==
  ASSUME NEW S, NEW r, IsRound(r, S), NEW l, NEW p \in S, FailbackEnabled
  PROVE  IsBest(p, failbackCandidates(r, l), [x \in S |-> {q \in S : morePreferredCandidate(r, x, q)}])
           <=> BestFailbackCandidate(r, l, p)
<1>1. failbackCandidates(r, l) \subseteq S
  BY DEF failbackCandidates, promotable, IsRound
<1> QED
  BY <1>1 DEF IsBest, BestFailbackCandidate

\* A controller that reads a round finds exactly one pod to follow if any claims to
\* lead, and one to promote if any can be: what Election's steps choose exists.
THEOREM ChoicesAreUnique ==
  ASSUME NEW S, IsFiniteSet(S), NEW r, IsRound(r, S), NEW a \in [S -> Nat], NEW l
  PROVE  /\ claimedLeaders(r) # {} => \E p \in S : \A q \in S : PickLeader(r, q) <=> q = p
         /\ promotable(r) # {} => \E p \in S : \A q \in S : BestCandidate(r, a, q) <=> q = p
         /\ FailbackEnabled /\ failbackCandidates(r, l) # {} =>
              \E p \in S : \A q \in S : BestFailbackCandidate(r, l, q) <=> q = p
<1>1. NoPod \notin S
  BY DEF IsRound
<1>2. /\ claimedLeaders(r) \subseteq S /\ promotable(r) \subseteq S
      /\ failbackCandidates(r, l) \subseteq S
  BY DEF claimedLeaders, promotable, failbackCandidates, IsRound
<1>3. ASSUME claimedLeaders(r) # {}
      PROVE  \E p \in S : \A q \in S : PickLeader(r, q) <=> q = p
  <2> DEFINE beaten == [x \in S |-> {q \in S : betterLeader(r, x, q)}]
  <2>1. IsStrictOrder(beaten, S)
    BY LeaderOrder
  <2>2. \A q \in S : IsBest(q, claimedLeaders(r), beaten) <=> PickLeader(r, q)
    BY BestLeader
  <2> HIDE DEF beaten
  <2>3. PICK p \in S : \A q \in S : IsBest(q, claimedLeaders(r), beaten) <=> q = p
    BY <1>1, <1>2, <1>3, <2>1, BestExists
  <2> QED
    BY <2>2, <2>3
<1>4. ASSUME promotable(r) # {}
      PROVE  \E p \in S : \A q \in S : BestCandidate(r, a, q) <=> q = p
  <2> DEFINE beaten == [x \in S |-> {q \in S : lessRecentlyAttempted(r, a, x, q)}]
  <2>1. IsStrictOrder(beaten, S)
    BY AttemptOrder
  <2>2. \A q \in S : IsBest(q, promotable(r), beaten) <=> BestCandidate(r, a, q)
    BY BestPromotable
  <2> HIDE DEF beaten
  <2>3. PICK p \in S : \A q \in S : IsBest(q, promotable(r), beaten) <=> q = p
    BY <1>1, <1>2, <1>4, <2>1, BestExists
  <2> QED
    BY <2>2, <2>3
<1>5. ASSUME FailbackEnabled, failbackCandidates(r, l) # {}
      PROVE  \E p \in S : \A q \in S : BestFailbackCandidate(r, l, q) <=> q = p
  <2> DEFINE beaten == [x \in S |-> {q \in S : morePreferredCandidate(r, x, q)}]
  <2>1. IsStrictOrder(beaten, S)
    BY PreferenceOrder
  <2>2. \A q \in S : IsBest(q, failbackCandidates(r, l), beaten) <=> BestFailbackCandidate(r, l, q)
    BY <1>5, BestFailback
  <2> HIDE DEF beaten
  <2>3. PICK p \in S : \A q \in S : IsBest(q, failbackCandidates(r, l), beaten) <=> q = p
    BY <1>1, <1>2, <1>5, <2>1, BestExists
  <2> QED
    BY <2>2, <2>3
<1> QED
  BY <1>3, <1>4, <1>5

-----------------------------------------------------------------------------
(* The decision. *)

CallTypeOK == IsListing(list, Listed) /\ IsRound(obs, Listed) /\ attempted \in [Listed -> Nat]

\* The sets that decide's scans go through, over the pods that are listed.
LEMMA RoundSets ==
  ASSUME CallTypeOK, NEW l
  PROVE  /\ claimedLeaders(obs) = {p \in Listed : isLiveLeaderClaim(obs[p])}
         /\ promotable(obs) = {p \in Listed : isPromotable(obs[p])}
         /\ failbackCandidates(obs, l) \subseteq promotable(obs)
         /\ NoPod \notin Listed
         /\ ~anyTransitioning(obs) => \A p \in Listed : ~isTransitioning(obs[p])
<1>1. DOMAIN obs = Listed /\ NoPod \notin Listed
  BY DEF CallTypeOK, IsRound
<1> QED
  BY <1>1 DEF claimedLeaders, promotable, failbackCandidates, anyTransitioning

\* pickLeader finds the leader that PickLeader describes, and there is one such.
LEMMA LeaderPicked ==
  ASSUME CallTypeOK, claimedLeaders(obs) # {}
  PROVE  /\ pickLeader \in claimedLeaders(obs)
         /\ \A p \in Listed : PickLeader(obs, p) <=> p = pickLeader
<1> DEFINE beaten == [x \in Listed |-> {q \in Listed : betterLeader(obs, x, q)}]
<1>1. IsListing(list, Listed) /\ IsRound(obs, Listed)
  BY DEF CallTypeOK
<1>2. IsStrictOrder(beaten, Listed) /\ NoPod \notin Listed /\ claimedLeaders(obs) \subseteq Listed
  BY <1>1, LeaderOrder, RoundSets
<1>3. \A p \in Listed : IsBest(p, claimedLeaders(obs), beaten) <=> PickLeader(obs, p)
  BY <1>1, BestLeader
<1>4. pickLeader = scan(list, claimedLeaders(obs), beaten)
  BY DEF pickLeader
<1> HIDE DEF beaten
<1>5. /\ scan(list, claimedLeaders(obs), beaten) \in claimedLeaders(obs)
      /\ \A p \in Listed : IsBest(p, claimedLeaders(obs), beaten)
                             <=> p = scan(list, claimedLeaders(obs), beaten)
  BY <1>1, <1>2, ScanOfAll
<1> QED
  BY <1>3, <1>4, <1>5

\* bestCandidate finds the one BestCandidate, or NoPod when none can be promoted.
LEMMA CandidateFound ==
  ASSUME CallTypeOK
  PROVE  /\ promotable(obs) = {} => bestCandidate = NoPod
         /\ promotable(obs) # {} =>
              /\ bestCandidate \in promotable(obs)
              /\ \A p \in Listed : BestCandidate(obs, attempted, p) <=> p = bestCandidate
<1> DEFINE beaten == [x \in Listed |-> {q \in Listed : lessRecentlyAttempted(obs, attempted, x, q)}]
<1>1. IsListing(list, Listed) /\ IsRound(obs, Listed) /\ attempted \in [Listed -> Nat]
  BY DEF CallTypeOK
<1>2. IsStrictOrder(beaten, Listed)
  BY <1>1, AttemptOrder
<1>3. \A p \in Listed : IsBest(p, promotable(obs), beaten) <=> BestCandidate(obs, attempted, p)
  BY <1>1, BestPromotable
<1>4. bestCandidate = scan(list, promotable(obs), beaten)
  BY DEF bestCandidate
<1>5. NoPod \notin Listed /\ promotable(obs) \subseteq Listed
  BY RoundSets
<1> HIDE DEF beaten
<1>6. /\ promotable(obs) = {} => scan(list, promotable(obs), beaten) = NoPod
      /\ promotable(obs) # {} =>
           /\ scan(list, promotable(obs), beaten) \in promotable(obs)
           /\ \A p \in Listed : IsBest(p, promotable(obs), beaten)
                                  <=> p = scan(list, promotable(obs), beaten)
  BY <1>1, <1>2, <1>5, ScanOfAll
<1> QED
  BY <1>3, <1>4, <1>6

\* bestFailbackCandidate finds a BestFailbackCandidate, or NoPod when there is none.
LEMMA FailbackFound ==
  ASSUME CallTypeOK, FailbackEnabled, NEW l
  PROVE  LET b == bestFailbackCandidate(l)
         IN  /\ failbackCandidates(obs, l) = {} => b = NoPod
             /\ failbackCandidates(obs, l) # {} => b \in Listed /\ BestFailbackCandidate(obs, l, b)
<1> DEFINE beaten == [x \in Listed |-> {q \in Listed : morePreferredCandidate(obs, x, q)}]
           E == failbackCandidates(obs, l)
<1>1. IsListing(list, Listed) /\ IsRound(obs, Listed)
  BY DEF CallTypeOK
<1>2. IsStrictOrder(beaten, Listed)
  BY <1>1, PreferenceOrder
<1>3. \A p \in Listed : IsBest(p, E, beaten) <=> BestFailbackCandidate(obs, l, p)
  BY <1>1, BestFailback
<1>4. bestFailbackCandidate(l) = scan(list, E, beaten)
  BY DEF bestFailbackCandidate
<1>5. NoPod \notin Listed /\ E \subseteq Listed
  BY RoundSets
<1> HIDE DEF beaten, E
<1>6. /\ E = {} => scan(list, E, beaten) = NoPod
      /\ E # {} => /\ scan(list, E, beaten) \in E
                   /\ \A p \in Listed : IsBest(p, E, beaten) <=> p = scan(list, E, beaten)
  BY <1>1, <1>2, <1>5, ScanOfAll
<1>7. /\ E = {} => bestFailbackCandidate(l) = NoPod
      /\ E # {} => /\ bestFailbackCandidate(l) \in Listed
                   /\ BestFailbackCandidate(obs, l, bestFailbackCandidate(l))
  BY <1>3, <1>4, <1>5, <1>6
<1> QED
  BY <1>7 DEF E

\* The calls that decide returns are those that Decide specifies.
LEMMA DecidesAsSpecified ==
  ASSUME CallTypeOK, result = decide
  PROVE  Specified
<1>1. CASE claimedLeaders(obs) = {}
  <2>1. result = decideLeaderless
    BY <1>1 DEF decide
  <2>2. /\ result.leader = NoPod /\ result.demotes = {} /\ result.failbackTarget = NoPod
        /\ result.failbackState = retainedFailback(obs, prior)
        /\ result.promoteTarget = IF anyTransitioning(obs) THEN NoPod ELSE bestCandidate
    BY <2>1 DEF decideLeaderless
  <2> QED
    BY <1>1, <2>2, CandidateFound DEF Specified
<1>2. CASE claimedLeaders(obs) # {}
  <2> DEFINE l == pickLeader
             fb == evaluateFailback(l)
             others == {p \in claimedLeaders(obs) : p # l}
             b == bestFailbackCandidate(l)
  <2>1. l \in claimedLeaders(obs) /\ \A p \in Listed : PickLeader(obs, p) <=> p = l
    BY <1>2, LeaderPicked
  <2>2. /\ result.leader = l /\ result.demotes = others /\ result.promoteTarget = NoPod
        /\ result.failbackState = fb.state
        /\ result.failbackTarget = IF others = {} /\ ~anyTransitioning(obs) THEN fb.target ELSE NoPod
    BY <1>2 DEF decide, decideLed
  <2>3. others = {} <=> claimedLeaders(obs) = {l}
    BY <2>1
  <2>4. CASE ~FailbackEnabled \/ failbackCandidates(obs, l) = {}
    <3>1. fb = [target |-> NoPod, state |-> NoFailback]
      BY <2>4, FailbackFound DEF evaluateFailback
    <3> QED
      BY <1>2, <2>1, <2>2, <2>4, <3>1 DEF Specified
  <2>5. CASE FailbackEnabled /\ failbackCandidates(obs, l) # {}
    <3>1. b \in Listed /\ BestFailbackCandidate(obs, l, b)
      BY <2>5, FailbackFound
    <3>2. b # NoPod
      BY <3>1, LoopsAssumption
    <3>3. fb = [target |-> IF failbackDue(nextFailback(obs, prior, b)) THEN b ELSE NoPod,
                state |-> nextFailback(obs, prior, b)]
      BY <2>5, <3>2 DEF evaluateFailback
    <3>4. /\ result.failbackState = nextFailback(obs, prior, b)
          /\ result.failbackTarget =
               IF failbackDue(nextFailback(obs, prior, b)) /\ others = {} /\ ~anyTransitioning(obs)
               THEN b ELSE NoPod
      BY <2>2, <3>3
    <3> HIDE DEF b, fb, others, l
    <3> QED
      BY <1>2, <2>1, <2>2, <2>3, <2>5, <3>1, <3>2, <3>4 DEF Specified, others
  <2> QED
    BY <2>4, <2>5
<1> QED
  BY <1>1, <1>2

\* A round promotes at most one pod, which answered and does not lead, and then it
\* demotes nobody.
LEMMA DecidesOneActuation ==
  ASSUME CallTypeOK, result = decide
  PROVE  OneActuation
<1>1. Specified
  BY DecidesAsSpecified
<1>2. ASSUME NEW p \in {result.promoteTarget, result.failbackTarget} \ {NoPod}
      PROVE  /\ p \in promotable(obs) /\ result.demotes = {} /\ ~anyTransitioning(obs)
             /\ result.promoteTarget = NoPod \/ result.failbackTarget = NoPod
             /\ p # result.leader
  <2>1. CASE claimedLeaders(obs) = {}
    <3>1. result = decideLeaderless
      BY <2>1 DEF decide
    <3>2. /\ result.leader = NoPod /\ result.demotes = {} /\ result.failbackTarget = NoPod
          /\ result.promoteTarget = IF anyTransitioning(obs) THEN NoPod ELSE bestCandidate
      BY <3>1 DEF decideLeaderless
    <3>3. ~anyTransitioning(obs) /\ p = bestCandidate /\ p # NoPod
      BY <1>2, <3>2
    <3> QED
      BY <3>2, <3>3, CandidateFound
  <2>2. CASE claimedLeaders(obs) # {}
    <3>1. /\ result.promoteTarget = NoPod /\ p = result.failbackTarget
          /\ result.demotes = claimedLeaders(obs) \ {result.leader}
          /\ result.leader \in claimedLeaders(obs)
      <4>1. result.leader = pickLeader
        BY <2>2 DEF decide, decideLed
      <4> QED
        BY <1>1, <1>2, <2>2, <4>1, LeaderPicked DEF Specified
    <3>2. PICK c \in Listed :
                 /\ BestFailbackCandidate(obs, result.leader, c)
                 /\ result.failbackTarget =
                      IF /\ failbackDue(result.failbackState)
                         /\ claimedLeaders(obs) = {result.leader} /\ ~anyTransitioning(obs)
                      THEN c ELSE NoPod
      BY <1>1, <1>2, <2>2, <3>1 DEF Specified
    <3>3. p = c /\ claimedLeaders(obs) = {result.leader} /\ ~anyTransitioning(obs)
      BY <1>2, <3>1, <3>2
    <3>4. p \in promotable(obs)
      BY <3>2, <3>3 DEF BestFailbackCandidate, failbackCandidates
    <3>5. p # result.leader
      BY <3>1, <3>4, RoundSets DEF isPromotable, isLiveLeaderClaim
    <3> QED
      BY <3>1, <3>3, <3>4, <3>5
  <2> QED
    BY <2>1, <2>2
<1>3. \A p \in promotable(obs) : p \in Listed /\ ~obs[p].isLeader /\ obs[p].reach
  BY RoundSets DEF isPromotable
<1>4. ~anyTransitioning(obs) =>
        \A q \in Listed : obs[q].reach /\ (obs[q].promoting \/ obs[q].lease # 0) => obs[q].isLeader
  BY RoundSets DEF isTransitioning
<1> QED
  BY <1>2, <1>3, <1>4 DEF OneActuation

\* Whatever the pods answer and in whatever order they are listed, the loops of
\* decide find the unique best choices, and a round never works against itself.
THEOREM DecisionsAreSound == DecideSpec => []DecisionsSound
<1> DEFINE Inv == CallTypeOK /\ (result = NoResult \/ result = decide)
<1>1. DecideInit => Inv
  <2> SUFFICES ASSUME DecideInit
               PROVE  CallTypeOK
    BY DEF DecideInit
  <2>1. /\ list \in [1..Cardinality(Listed) -> Listed]
        /\ \A i, j \in 1..Cardinality(Listed) : i # j => list[i] # list[j]
    BY DEF DecideInit, SetToSeqs
  <2>2. Cardinality(Listed) \in Nat
    BY LoopsAssumption, FS_CardinalityType
  <2>3. list \in Injection(1..Cardinality(Listed), Listed)
    BY <2>1 DEF Injection, IsInjective
  <2>4. IsFiniteSet(1..Cardinality(Listed)) /\ Cardinality(1..Cardinality(Listed)) = Cardinality(Listed)
    BY <2>2, FS_Interval
  <2>5. list \in Surjection(1..Cardinality(Listed), Listed)
    BY <2>3, <2>4, LoopsAssumption, FS_Injection
  <2>6. list \in Seq(Listed) /\ Len(list) = Cardinality(Listed)
    BY <2>1, <2>2
  <2>7. \A p \in Listed : \E k \in 1..Len(list) : list[k] = p
    BY <2>5, <2>6 DEF Surjection
  <2>8. obs \in [Listed -> Observation] /\ attempted \in [Listed -> Nat]
    BY LoopsAssumption DEF DecideInit
  <2> QED
    BY <2>6, <2>7, <2>8, LoopsAssumption DEF CallTypeOK, IsListing, IsRound
<1>2. Inv /\ [DecideNext]_decideVars => Inv'
  <2> SUFFICES ASSUME Inv, [DecideNext]_decideVars
               PROVE  Inv'
    OBVIOUS
  <2>1. UNCHANGED <<list, obs, attempted, prior>>
    BY DEF DecideNext, Decide, decideVars
  <2>2. CallTypeOK'
    BY <2>1 DEF CallTypeOK
  <2>3. decide' = decide
    BY <2>1 DEF decide, decideLeaderless, decideLed, evaluateFailback, bestFailbackCandidate,
                bestCandidate, pickLeader
  <2>4. result' = result \/ result' = decide
    BY DEF DecideNext, Decide, decideVars
  <2> QED
    BY <2>2, <2>3, <2>4
<1>3. Inv => DecisionsSound
  <2>1. CASE result = NoResult
    BY <2>1 DEF DecisionsSound, LoopsDecide, OneActuation
  <2>2. CASE CallTypeOK /\ result = decide
    BY <2>2, DecidesAsSpecified, DecidesOneActuation DEF DecisionsSound, LoopsDecide
  <2> QED
    BY <2>1, <2>2
<1> QED
  BY <1>1, <1>2, <1>3, PTL DEF DecideSpec

-----------------------------------------------------------------------------
(* The rings of the insights store implement RecentRows. *)

\* Going once round a ring.
LEMMA Wrap ==
  ASSUME NEW n \in Nat \ {0}, NEW a \in 0..(2 * n - 1)
  PROVE  a % n = IF a < n THEN a ELSE a - n
<1>1. CASE a < n
  BY <1>1
<1>2. CASE a >= n
  <2>1. a - n \in 0..(n - 1)
    BY <1>2
  <2> QED
    BY <1>2, <2>1
<1> QED
  BY <1>1, <1>2

\* Reading without the remainder: to the end of the slice, then from its start.
LEMMA ReadOutOf ==
  ASSUME NEW s \in Seq(Row), NEW k \in Nat, k < Len(s) \/ (k = 0 /\ s = <<>>)
  PROVE  readFrom(s, k)
           = [n \in 1..Len(s) |-> IF k + n <= Len(s) THEN s[k + n] ELSE s[k + n - Len(s)]]
<1> SUFFICES ASSUME NEW n \in 1..Len(s)
             PROVE  ((k + n - 1) % Len(s)) + 1 = IF k + n <= Len(s) THEN k + n ELSE k + n - Len(s)
  BY DEF readFrom
<1>1. Len(s) \in Nat \ {0} /\ k < Len(s)
  <2>1. Len(s) \in Nat /\ Len(s) # 0
    OBVIOUS
  <2>2. s # <<>>
    BY <2>1
  <2> QED
    BY <2>1, <2>2
<1> DEFINE a == k + n - 1
           len == Len(s)
<1>2. len \in Nat \ {0} /\ a \in 0..(2 * len - 1) /\ a + 1 = k + n
  BY <1>1
<1>3. a % len = IF a < len THEN a ELSE a - len
  <2> HIDE DEF a, len
  <2> QED
    BY <1>2, Wrap
<1>4. a < len <=> k + n <= len
  BY <1>1
<1>5. (a % len) + 1 = IF k + n <= len THEN k + n ELSE k + n - len
  <2> HIDE DEF a, len
  <2> QED
    BY <1>2, <1>3, <1>4
<1> QED
  BY <1>5

-----------------------------------------------------------------------------
(* The invariant. *)

\* The empty rings.
LEMMA InsightsInitially == Init => InsightsInv
<1> SUFFICES ASSUME Init PROVE InsightsInv
  OBVIOUS
<1>1. InsightsTypeOK
  BY DEF Init, InsightsTypeOK
<1>2. RingShape
  BY InsightsAssumption DEF Init, RingShape
<1> QED
  BY <1>1, <1>2 DEF InsightsInv

\* A push keeps the ring in shape, in the slice that grows and in the full one.
LEMMA PushKeepsShape ==
  ASSUME InsightsInv, NEW d \in Deployment, NEW r \in Row, push(d, r)
  PROVE  /\ rows' \in [Deployment -> Seq(Row)] /\ start' \in [Deployment -> Nat]
         /\ \A e \in Deployment :
              /\ Len(rows'[e]) <= RingCap
              /\ IF Len(rows'[e]) < RingCap THEN start'[e] = 0 ELSE start'[e] < RingCap
         /\ \A e \in Deployment : e # d => rows'[e] = rows[e] /\ start'[e] = start[e]
<1>1. /\ rows \in [Deployment -> Seq(Row)] /\ start \in [Deployment -> Nat]
      /\ RingCap \in Nat \ {0}
      /\ \A e \in Deployment :
           /\ Len(rows[e]) <= RingCap
           /\ IF Len(rows[e]) < RingCap THEN start[e] = 0 ELSE start[e] < RingCap
  BY InsightsAssumption DEF InsightsInv, InsightsTypeOK, RingShape
<1>2. CASE Len(rows[d]) < RingCap
  <2>1. rows' = [rows EXCEPT ![d] = Append(rows[d], r)] /\ start' = start
    BY <1>2 DEF push
  <2>2. Append(rows[d], r) \in Seq(Row) /\ Len(Append(rows[d], r)) = Len(rows[d]) + 1
    BY <1>1
  <2> QED
    BY <1>1, <1>2, <2>1, <2>2
<1>3. CASE ~(Len(rows[d]) < RingCap)
  <2>1. Len(rows[d]) = RingCap /\ start[d] \in 0..(RingCap - 1)
    BY <1>1, <1>3
  <2> DEFINE slice == [rows[d] EXCEPT ![start[d] + 1] = r]
  <2>2. /\ rows' = [rows EXCEPT ![d] = slice]
        /\ start' = [start EXCEPT ![d] = (start[d] + 1) % RingCap]
    BY <1>3, <2>1 DEF push
  <2>3. slice \in Seq(Row) /\ Len(slice) = RingCap
    BY <1>1, <2>1
  <2>4. (start[d] + 1) % RingCap \in 0..(RingCap - 1)
    BY <1>1, <2>1
  <2> HIDE DEF slice
  <2> QED
    BY <1>1, <2>2, <2>3, <2>4
<1> QED
  BY <1>2, <1>3

\* Every operation of the store keeps its rings typed, in bounds and in order.
LEMMA InsightsStep == InsightsInv /\ [Next]_vars => InsightsInv'
<1> SUFFICES ASSUME InsightsInv, [Next]_vars PROVE InsightsInv'
  OBVIOUS
<1>1. ASSUME NEW d \in Deployment, NEW l \in ReadLimits, NEW rs \in Posts, Ingest(d, l, rs)
      PROVE  InsightsInv'
  <2>1. rs \in Seq(Row)
    BY InsightsAssumption DEF Posts
  <2>2. InsightsTypeOK'
    BY <1>1, <2>1 DEF InsightsInv, InsightsTypeOK, Ingest
  <2>3. limits'[d] = l /\ l # NoLimits /\ \A e \in Deployment : e # d => limits'[e] = limits[e]
    BY <1>1, InsightsAssumption DEF InsightsInv, InsightsTypeOK, Ingest
  <2>4. RingShape'
    BY <1>1, <2>3, InsightsAssumption DEF InsightsInv, RingShape, Ingest
  <2> QED
    BY <2>2, <2>4 DEF InsightsInv
<1>2. CASE PushRow
  <2>1. /\ holder \in Deployment /\ Head(todo) \in Row /\ Tail(todo) \in Seq(Row)
        /\ push(holder, Head(todo)) /\ todo' = Tail(todo)
        /\ limits' = limits /\ holder' = holder /\ limits[holder] # NoLimits
    BY <1>2 DEF PushRow, InsightsInv, InsightsTypeOK, RingShape
  <2>2. /\ rows' \in [Deployment -> Seq(Row)] /\ start' \in [Deployment -> Nat]
        /\ \A e \in Deployment :
             /\ Len(rows'[e]) <= RingCap
             /\ IF Len(rows'[e]) < RingCap THEN start'[e] = 0 ELSE start'[e] < RingCap
        /\ \A e \in Deployment : e # holder => rows'[e] = rows[e]
    BY <2>1, PushKeepsShape
  <2>3. InsightsTypeOK'
    BY <2>1, <2>2 DEF InsightsInv, InsightsTypeOK
  <2>4. RingShape'
    BY <1>2, <2>1, <2>2 DEF InsightsInv, RingShape, PushRow
  <2> QED
    BY <2>3, <2>4 DEF InsightsInv
<1>3. CASE Unlock \/ UNCHANGED vars
  BY <1>3 DEF Unlock, vars, InsightsInv, InsightsTypeOK, RingShape
<1> QED
  BY <1>1, <1>2, <1>3 DEF Next

\* No push and no read of a ring is out of range (deploymentRows.push,
\* Insights.rows): InsightsInv holds in every state.
THEOREM InsightsInvariance == Spec => []InsightsInv
<1> QED
  BY InsightsInitially, InsightsStep, PTL DEF Spec

-----------------------------------------------------------------------------
(* The refinement. *)

\* The slot read at place n + 1 before a push is read at place n after it, and is
\* not the one overwritten.
LEMMA ShiftOne ==
  ASSUME NEW len \in Nat \ {0}, NEW k \in 0..(len - 1), NEW n \in 1..(len - 1),
         NEW j, j = IF k + 1 < len THEN k + 1 ELSE 0
  PROVE  LET old == IF k + n + 1 <= len THEN k + n + 1 ELSE k + n + 1 - len
             new == IF j + n <= len THEN j + n ELSE j + n - len
         IN  new = old /\ old \in 1..len /\ old # k + 1
  OBVIOUS

\* A push to one ring is an addition to what is read out of it.
LEMMA PushAdds ==
  ASSUME NEW s \in Seq(Row), NEW k \in Nat, NEW r \in Row, Len(s) <= RingCap,
         IF Len(s) < RingCap THEN k = 0 ELSE k < RingCap,
         NEW t \in Seq(Row), NEW j \in Nat,
         IF Len(s) < RingCap
         THEN t = Append(s, r) /\ j = k
         ELSE t = [s EXCEPT ![k + 1] = r] /\ j = (k + 1) % Len(s)
  PROVE  readFrom(t, j) = IF Len(readFrom(s, k)) < RingCap
                          THEN Append(readFrom(s, k), r) ELSE Append(Tail(readFrom(s, k)), r)
<1> DEFINE out == [n \in 1..Len(s) |-> IF k + n <= Len(s) THEN s[k + n] ELSE s[k + n - Len(s)]]
           next == [n \in 1..Len(t) |-> IF j + n <= Len(t) THEN t[j + n] ELSE t[j + n - Len(t)]]
<1>1. RingCap \in Nat \ {0} /\ Len(s) \in Nat
  BY InsightsAssumption
<1>2. out \in Seq(Row) /\ Len(out) = Len(s)
  <2>1. \A n \in 1..Len(s) : k + n <= Len(s) => s[k + n] \in Row
    BY <1>1
  <2>2. \A n \in 1..Len(s) : k + n > Len(s) => k + n - Len(s) \in 1..Len(s)
    BY <1>1
  <2>3. \A n \in 1..Len(s) : k + n > Len(s) => s[k + n - Len(s)] \in Row
    BY <1>1, <2>2
  <2> QED
    BY <2>1, <2>3
<1>3. CASE Len(s) < RingCap
  <2>1. k = 0 /\ j = 0 /\ t = Append(s, r) /\ Len(t) = Len(s) + 1
    BY <1>3
  <2>2. out = s
    BY <2>1
  <2>3. next = t
    <3>1. Len(t) \in Nat /\ t = [n \in 1..Len(t) |-> t[n]]
      OBVIOUS
    <3>2. \A n \in 1..Len(t) : j + n = n /\ n <= Len(t)
      BY <2>1, <3>1
    <3>3. next = [n \in 1..Len(t) |-> t[n]]
      BY <3>2
    <3> HIDE DEF next
    <3> QED
      BY <3>1, <3>3
  <2>4. next = Append(out, r)
    BY <2>1, <2>2, <2>3
  <2>5. \/ k < Len(s) \/ (k = 0 /\ s = <<>>)
    BY <1>1, <2>1
  <2>6. j < Len(t)
    BY <1>1, <2>1
  <2> HIDE DEF out, next
  <2> QED
    BY <1>2, <1>3, <2>4, <2>5, <2>6, ReadOutOf DEF out, next
<1>4. CASE ~(Len(s) < RingCap)
  <2>1. /\ Len(s) = RingCap /\ k \in 0..(Len(s) - 1) /\ t = [s EXCEPT ![k + 1] = r]
        /\ Len(t) = Len(s) /\ j = (k + 1) % Len(s)
    BY <1>1, <1>4
  <2>2. j = IF k + 1 < Len(s) THEN k + 1 ELSE 0
    <3> DEFINE a == k + 1
               len == Len(s)
    <3>1. len \in Nat \ {0} /\ a \in 0..(2 * len - 1) /\ (a >= len => a - len = 0)
      BY <1>1, <2>1
    <3>2. a % len = IF a < len THEN a ELSE a - len
      <4> HIDE DEF a, len
      <4> QED
        BY <3>1, Wrap
    <3> QED
      BY <2>1, <3>1, <3>2
  <2>3. Tail(out) \in Seq(Row) /\ Len(Tail(out)) = Len(s) - 1
        /\ \A n \in 1..(Len(s) - 1) : Tail(out)[n] = out[n + 1]
    <3> HIDE DEF out
    <3> QED
      BY <1>1, <1>2, <2>1
  <2> DEFINE rest == Tail(out)
             want == Append(rest, r)
  <2>4. /\ want \in Seq(Row) /\ Len(want) = Len(s) /\ want[Len(s)] = r
        /\ \A n \in 1..(Len(s) - 1) : want[n] = out[n + 1]
    <3>1. /\ rest \in Seq(Row) /\ Len(rest) + 1 = Len(s)
          /\ \A n \in 1..(Len(s) - 1) : n \in 1..Len(rest) /\ rest[n] = out[n + 1]
      <4>1. rest \in Seq(Row) /\ Len(rest) = Len(s) - 1
            /\ \A n \in 1..(Len(s) - 1) : rest[n] = out[n + 1]
        BY <2>3
      <4> HIDE DEF rest, out
      <4> QED
        BY <1>1, <4>1
    <3> HIDE DEF rest, out
    <3>2. want \in Seq(Row) /\ Len(want) = Len(rest) + 1 /\ want[Len(rest) + 1] = r
      BY <3>1
    <3>3. \A n \in 1..Len(rest) : want[n] = rest[n]
      BY <3>1
    <3> HIDE DEF want
    <3> QED
      BY <3>1, <3>2, <3>3
  <2> HIDE DEF rest, want
  <2>5. ASSUME NEW n \in 1..Len(s) PROVE next[n] = want[n]
    <3>1. CASE n = Len(s)
      <4>1. next[n] = t[k + 1]
        BY <1>1, <2>1, <2>2, <3>1
      <4>2. t[k + 1] = r
        BY <2>1
      <4> HIDE DEF next
      <4> QED
        BY <2>4, <3>1, <4>1, <4>2
    <3>2. CASE n < Len(s)
      <4> DEFINE len == Len(s)
                 old == IF k + n + 1 <= len THEN k + n + 1 ELSE k + n + 1 - len
                 new == IF j + n <= len THEN j + n ELSE j + n - len
      <4>1. out[n + 1] = s[old]
        BY <1>1, <3>2
      <4>2. next[n] = t[new]
        BY <2>1
      <4>3. new = old /\ old \in 1..len /\ old # k + 1
        <5>1. /\ len \in Nat \ {0} /\ k \in 0..(len - 1) /\ n \in 1..(len - 1)
              /\ j = IF k + 1 < len THEN k + 1 ELSE 0
          BY <1>1, <2>1, <2>2, <3>2
        <5> HIDE DEF len
        <5> QED
          BY <5>1, ShiftOne
      <4>4. t[old] = s[old]
        BY <2>1, <4>3
      <4> HIDE DEF next, out, old, new, len
      <4>5. next[n] = out[n + 1]
        BY <4>1, <4>2, <4>3, <4>4
      <4>6. n \in 1..(Len(s) - 1)
        BY <1>1, <3>2
      <4> QED
        BY <2>4, <4>5, <4>6
    <3>3. n = Len(s) \/ n < Len(s)
      BY <1>1
    <3> QED
      BY <3>1, <3>2, <3>3
  <2>6. next = want
    <3>1. next = [n \in 1..Len(s) |-> next[n]]
      BY <2>1
    <3>2. want = [n \in 1..Len(s) |-> want[n]]
      BY <2>4
    <3> HIDE DEF next
    <3> QED
      BY <2>5, <3>1, <3>2
  <2>7. k < Len(s) /\ j < Len(t)
    BY <1>1, <2>1, <2>2
  <2> HIDE DEF out, next
  <2> QED
    BY <1>2, <1>4, <2>6, <2>7, ReadOutOf DEF out, next, want, rest
<1> QED
  BY <1>3, <1>4

\* The empty rings hold no rows.
LEMMA RecentInitially == Init => Recent!RecentInit
<1> SUFFICES ASSUME Init PROVE Recent!RecentInit
  OBVIOUS
<1>1. ASSUME NEW d \in Deployment PROVE readOut(d) = <<>>
  <2>1. 1..Len(rows[d]) = {}
    BY DEF Init
  <2>2. DOMAIN readOut(d) = {} /\ readOut(d) = [n \in {} |-> readOut(d)[n]]
    BY <2>1 DEF readOut, readFrom
  <2> QED
    BY <2>2
<1> QED
  BY <1>1 DEF Recent!RecentInit

\* One turn of the loop of Ingest adds a row; nothing else changes what is read.
LEMMA StepAdds ==
  InsightsInv /\ InsightsInv' /\ [Next]_vars
    => [Recent!RecentNext]_[d \in Deployment |-> readOut(d)]
<1> SUFFICES ASSUME InsightsInv, InsightsInv', [Next]_vars
             PROVE  \/ Recent!RecentNext
                    \/ [d \in Deployment |-> readOut(d)]' = [d \in Deployment |-> readOut(d)]
  OBVIOUS
<1>1. CASE PushRow
  <2>1. /\ holder \in Deployment /\ Head(todo) \in Row /\ push(holder, Head(todo))
    BY <1>1 DEF PushRow, InsightsInv, InsightsTypeOK
  <2> PICK d \in Deployment, r \in Row : d = holder /\ r = Head(todo)
    BY <2>1
  <2>2. /\ rows[d] \in Seq(Row) /\ rows'[d] \in Seq(Row) /\ start[d] \in Nat /\ start'[d] \in Nat
        /\ Len(rows[d]) <= RingCap
        /\ IF Len(rows[d]) < RingCap THEN start[d] = 0 ELSE start[d] < RingCap
    BY <2>1 DEF InsightsInv, InsightsTypeOK, RingShape
  <2>3. IF Len(rows[d]) < RingCap
        THEN rows'[d] = Append(rows[d], r) /\ start'[d] = start[d]
        ELSE rows'[d] = [rows[d] EXCEPT ![start[d] + 1] = r]
             /\ start'[d] = (start[d] + 1) % Len(rows[d])
    BY <2>1 DEF push, InsightsInv, InsightsTypeOK
  <2>4. \A e \in Deployment : e # d => rows'[e] = rows[e] /\ start'[e] = start[e]
    BY <2>1, PushKeepsShape
  <2>5. readOut(d)' = IF Len(readOut(d)) < RingCap THEN Append(readOut(d), r)
                                                  ELSE Append(Tail(readOut(d)), r)
    <3> DEFINE s == rows[d]
               t == rows'[d]
               k == start[d]
               j == start'[d]
    <3>1. /\ s \in Seq(Row) /\ t \in Seq(Row) /\ k \in Nat /\ j \in Nat /\ r \in Row
          /\ Len(s) <= RingCap
          /\ IF Len(s) < RingCap THEN k = 0 ELSE k < RingCap
          /\ IF Len(s) < RingCap
             THEN t = Append(s, r) /\ j = k
             ELSE t = [s EXCEPT ![k + 1] = r] /\ j = (k + 1) % Len(s)
      BY <2>1, <2>2, <2>3
    <3>2. readOut(d) = readFrom(s, k) /\ readOut(d)' = readFrom(t, j)
      BY DEF readOut
    <3> HIDE DEF s, t, k, j
    <3> QED
      BY <3>1, <3>2, PushAdds
  <2>6. \A e \in Deployment : e # d => readOut(e)' = readOut(e)
    BY <2>4 DEF readOut
  <2>7. Recent!Add(d, r)
    <3> HIDE DEF readOut
    <3> QED
      BY <2>5, <2>6 DEF Recent!Add
  <2> QED
    BY <2>7 DEF Recent!RecentNext
<1>2. CASE ~PushRow
  <2>1. UNCHANGED <<rows, start>>
    BY <1>2 DEF Next, Ingest, Unlock, vars
  <2>2. \A d \in Deployment : readOut(d)' = readOut(d)
    BY <2>1 DEF readOut
  <2> QED
    BY <2>2
<1> QED
  BY <1>1, <1>2

\* A query sees the rows of its deployment that came last, in their order, however
\* often its ring has wrapped and whatever other deployments send (Ingest, push,
\* rows implement RecentRows).
THEOREM RecentRefined == Spec => RecentImplemented
<1> QED
  BY InsightsInvariance, RecentInitially, StepAdds, PTL
     DEF Spec, RecentImplemented, Recent!RecentSpec

\* The values of a function on a finite set are no more than its elements.
LEMMA ImageFinite ==
  ASSUME NEW S, IsFiniteSet(S), NEW f
  PROVE  IsFiniteSet({f[x] : x \in S}) /\ Cardinality({f[x] : x \in S}) <= Cardinality(S)
<1> DEFINE T == {f[x] : x \in S}
           g == [x \in S |-> f[x]]
<1>1. g \in Surjection(S, T)
  BY DEF Surjection
<1> HIDE DEF T, g
<1>2. IsFiniteSet(T) /\ Cardinality(T) <= Cardinality(S)
  BY <1>1, FS_Surjection
<1> QED
  BY <1>2 DEF T

\* Finite sets of numbers have a largest and a smallest element.
LEMMA Extrema ==
  ASSUME NEW S, IsFiniteSet(S), S \subseteq Int, S # {}
  PROVE  /\ \E x \in S : \A y \in S : y <= x
         /\ \E x \in S : \A y \in S : x <= y
<1> DEFINE Bounded(A) == /\ \E x \in A : \A y \in A : y <= x
                         /\ \E x \in A : \A y \in A : x <= y
           T == {n \in Nat : \A A \in SUBSET S : Cardinality(A) = n /\ A # {} => Bounded(A)}
<1>1. \A A \in SUBSET S : IsFiniteSet(A) /\ Cardinality(A) \in Nat
  BY FS_Subset, FS_CardinalityType
<1>2. 0 \in T
  BY <1>1, FS_EmptySet
<1>3. ASSUME NEW n \in Nat, n \in T
      PROVE  n + 1 \in T
  <2> SUFFICES ASSUME NEW A \in SUBSET S, Cardinality(A) = n + 1, A # {}
               PROVE  Bounded(A)
    OBVIOUS
  <2>1. PICK a \in A : TRUE
    OBVIOUS
  <2>2. A \ {a} \in SUBSET S /\ Cardinality(A \ {a}) = n
    <3>1. IsFiniteSet(A)
      BY <1>1
    <3> HIDE DEF T, Bounded
    <3>2. Cardinality(A \ {a}) = Cardinality(A) - 1
      BY <3>1, FS_RemoveElement
    <3> QED  BY <3>2
  <2>3. A \subseteq Int /\ a \in Int
    OBVIOUS
  <2>4. CASE A \ {a} = {}
    <3>1. A = {a}
      BY <2>1, <2>4
    <3> QED
      BY <2>3, <3>1
  <2>5. CASE A \ {a} # {}
    <3>1. Bounded(A \ {a})
      BY <1>3, <2>2, <2>5
    <3>2. PICK x \in A \ {a} : \A y \in A \ {a} : y <= x
      BY <3>1
    <3>3. PICK z \in A \ {a} : \A y \in A \ {a} : z <= y
      BY <3>1
    <3>4. \E m \in A : \A y \in A : y <= m
      <4>1. CASE a <= x
        <5>1. \A y \in A : y <= x
          BY <3>2, <4>1
        <5> QED  BY <5>1
      <4>2. CASE ~(a <= x)
        <5>1. ASSUME NEW y \in A PROVE y <= a
          BY <2>3, <3>2, <4>2
        <5> QED  BY <5>1
      <4> QED  BY <4>1, <4>2
    <3>5. \E m \in A : \A y \in A : m <= y
      <4>1. CASE z <= a
        <5>1. \A y \in A : z <= y
          BY <3>3, <4>1
        <5> QED  BY <5>1
      <4>2. CASE ~(z <= a)
        <5>1. ASSUME NEW y \in A PROVE a <= y
          BY <2>3, <3>3, <4>2
        <5> QED  BY <5>1
      <4> QED  BY <4>1, <4>2
    <3> QED
      BY <3>4, <3>5
  <2> QED
    BY <2>4, <2>5
<1>4. Nat \subseteq T
  <2> HIDE DEF T
  <2> QED  BY <1>2, <1>3, SetInduction
<1>5. Cardinality(S) \in T
  BY <1>1, <1>4
<1> QED
  BY <1>5

\* The maximum of the library, of a finite set.
LEMMA MaxIsMaximum ==
  ASSUME NEW S, IsFiniteSet(S), S \subseteq Int, S # {}
  PROVE  Max(S) \in S /\ \A y \in S : y <= Max(S)
<1>1. \E x \in S : \A y \in S : x >= y
  <2>1. PICK x \in S : \A y \in S : y <= x
    BY Extrema
  <2> QED  BY <2>1
<1>2. Max(S) \in S /\ \A y \in S : Max(S) >= y
  BY <1>1 DEF Max
<1> QED  BY <1>2

\* The lesser of two numbers.
LEMMA MinOfTwo ==
  ASSUME NEW a \in Int, NEW b \in Int
  PROVE  Min({a, b}) = IF a <= b THEN a ELSE b
<1>1. \E x \in {a, b} : \A y \in {a, b} : x =< y
  OBVIOUS
<1>2. Min({a, b}) \in {a, b} /\ \A y \in {a, b} : Min({a, b}) =< y
  BY <1>1 DEF Min
<1> QED  BY <1>2

\* They can be listed from the largest on.
LEMMA Sortable ==
  ASSUME NEW S, IsFiniteSet(S), NEW v \in [S -> Int]
  PROVE  \E o \in [1..Cardinality(S) -> S] :
           \A j, k \in 1..Cardinality(S) : j < k => o[j] # o[k] /\ v[o[j]] >= v[o[k]]
<1> DEFINE Sorts(o, A, n) == /\ o \in [1..n -> A]
                             /\ \A j, k \in 1..n : j < k => o[j] # o[k] /\ v[o[j]] >= v[o[k]]
           T == {n \in Nat : \A A \in SUBSET S : Cardinality(A) = n => \E o : Sorts(o, A, n)}
<1>1. \A A \in SUBSET S : IsFiniteSet(A) /\ Cardinality(A) \in Nat
  BY FS_Subset, FS_CardinalityType
<1>2. 0 \in T
  <2> SUFFICES ASSUME NEW A \in SUBSET S
               PROVE  \E o : Sorts(o, A, 0)
    OBVIOUS
  <2>1. [k \in 1..0 |-> {}] \in [1..0 -> A] /\ 1..0 = {}
    OBVIOUS
  <2>2. Sorts([k \in 1..0 |-> {}], A, 0)
    BY <2>1
  <2> QED  BY <2>2
<1>3. ASSUME NEW n \in Nat, n \in T
      PROVE  n + 1 \in T
  <2> SUFFICES ASSUME NEW A \in SUBSET S, Cardinality(A) = n + 1
               PROVE  \E o : Sorts(o, A, n + 1)
    OBVIOUS
  <2>1. A # {}
    BY FS_EmptySet
  <2>2. PICK a \in A : \A x \in A : v[a] <= v[x]
    <3> DEFINE V == {v[x] : x \in A}
    <3>1. IsFiniteSet(V)
      <4> HIDE DEF T, Sorts
      <4>1. IsFiniteSet(A) /\ A \subseteq DOMAIN v
        BY <1>1
      <4>2. IsFiniteSet({v[x] : x \in A})
        BY <4>1, ImageFinite
      <4> QED  BY <4>2
    <3>2. V \subseteq Int /\ V # {}
      BY <2>1
    <3>3. PICK m \in V : \A y \in V : m <= y
      BY <3>1, <3>2, Extrema
    <3> QED  BY <3>3
  <2>3. A \ {a} \in SUBSET S /\ Cardinality(A \ {a}) = n
    <3>1. IsFiniteSet(A)
      BY <1>1
    <3> HIDE DEF T, Sorts
    <3>2. Cardinality(A \ {a}) = Cardinality(A) - 1
      BY <3>1, FS_RemoveElement
    <3> QED  BY <3>2
  <2>4. PICK o : Sorts(o, A \ {a}, n)
    BY <1>3, <2>3
  <2> DEFINE p == [k \in 1..(n + 1) |-> IF k = n + 1 THEN a ELSE o[k]]
  <2>5. \A k \in 1..n : o[k] \in A \ {a} /\ p[k] = o[k]
    BY <2>4
  <2>6. p[n + 1] = a
    OBVIOUS
  <2>7. \A k \in 1..(n + 1) : k \in 1..n \/ k = n + 1
    OBVIOUS
  <2>8. p \in [1..(n + 1) -> A]
    BY <2>5, <2>7
  <2> HIDE DEF p
  <2>9. ASSUME NEW j \in 1..(n + 1), NEW k \in 1..(n + 1), j < k
        PROVE  p[j] # p[k] /\ v[p[j]] >= v[p[k]]
    <3>1. j \in 1..n
      BY <2>9
    <3>2. CASE k \in 1..n
      BY <2>4, <2>5, <2>9, <3>1, <3>2
    <3>3. CASE k = n + 1
      <4>1. p[j] \in A \ {a} /\ p[k] = a
        BY <2>5, <2>6, <3>1, <3>3
      <4>2. v[a] <= v[p[j]] /\ v[a] \in Int /\ v[p[j]] \in Int
        BY <2>2, <4>1
      <4> QED
        BY <4>1, <4>2
    <3> QED
      BY <2>7, <3>2, <3>3
  <2>10. Sorts(p, A, n + 1)
    BY <2>8, <2>9
  <2> QED  BY <2>10
<1>4. Nat \subseteq T
  <2> HIDE DEF T
  <2> QED  BY <1>2, <1>3, SetInduction
<1>5. Cardinality(S) \in T
  BY <1>1, <1>4
<1>6. \E o : Sorts(o, S, Cardinality(S))
  BY <1>5
<1> QED
  BY <1>6

-----------------------------------------------------------------------------
(* What the operators on rows return. *)

\* A total of numbers is a number.
LEMMA TotalTyped ==
  ASSUME NEW f \in Seq(Int)
  PROVE  total(f) \in Int
<1> DEFINE N == Len(f)
           D(g) == [n \in 0..N |-> IF n = 0 THEN 0 ELSE g[n - 1] + f[n]]
           sum == CHOOSE g : g = D(g)
           step == [x \in Nat \X Int |-> IF x[1] \in 1..N THEN x[2] + f[x[1]] ELSE 0]
<1>1. N \in Nat /\ step \in Steps(Int) /\ 0 \in Int
  BY DEF Steps
<1>2. PICK g : IsLoop(g, N, Int, 0, step)
  <2> HIDE DEF step, N, D, sum
  <2> QED  BY <1>1, Recursion
<1>3. g \in [0..N -> Int] /\ g[0] = 0 /\ \A n \in 1..N : g[n] = step[<<n, g[n - 1]>>]
  <2> HIDE DEF step, N, D, sum
  <2> QED  BY <1>2 DEF IsLoop
<1>4. ASSUME NEW n \in 1..N
      PROVE  g[n] = g[n - 1] + f[n]
  <2>1. n \in Nat /\ n - 1 \in 0..N /\ g[n - 1] \in Int
    <3> HIDE DEF step, D, sum, N
    <3> QED  BY <1>1, <1>3
  <2>2. step[<<n, g[n - 1]>>] = g[n - 1] + f[n]
    <3> HIDE DEF D, sum, N
    <3> QED  BY <2>1
  <2> QED  BY <1>3, <2>2
<1>11. g = D(g)
  <2>1. \A n \in 0..N : n # 0 => n \in 1..N
    BY <1>1
  <2>2. \A n \in 0..N : g[n] = IF n = 0 THEN 0 ELSE g[n - 1] + f[n]
    <3> HIDE DEF step, D, sum, N
    <3> QED  BY <1>3, <1>4, <2>1
  <2>3. D(g) = [n \in 0..N |-> D(g)[n]] /\ \A n \in 0..N : D(g)[n] = g[n]
    BY <2>2
  <2> HIDE DEF step, D, sum, N
  <2> QED  BY <1>3, <2>3
<1>5. sum = D(sum)
  <2> HIDE DEF D
  <2> QED  BY <1>11
<1> DEFINE T == {n \in Nat : n <= N => sum[n] \in Int}
<1> HIDE DEF sum
<1>6. 0 \in T
  BY <1>1, <1>5
<1>7. ASSUME NEW n \in Nat, n \in T
      PROVE  n + 1 \in T
  <2> SUFFICES ASSUME n + 1 <= N
               PROVE  sum[n + 1] \in Int
    OBVIOUS
  <2>1. n + 1 \in 0..N /\ n + 1 # 0 /\ (n + 1) - 1 = n /\ n + 1 \in 1..N /\ sum[n] \in Int
    BY <1>1, <1>7
  <2>2. sum[n + 1] = sum[n] + f[n + 1]
    BY <1>5, <2>1
  <2>3. f[n + 1] \in Int
    BY <2>1
  <2> QED  BY <2>1, <2>2, <2>3
<1>8. Nat \subseteq T
  <2> HIDE DEF T
  <2> QED  BY <1>6, <1>7, SetInduction
<1>9. sum[N] \in Int
  BY <1>1, <1>8
<1>10. total(f) = sum[N]
  BY DEF total, sum
<1> QED
  BY <1>9, <1>10

\* Joining sequences gives a sequence over the same set.
LEMMA FlattenSeqTyped ==
  ASSUME NEW S, NEW ss \in Seq(Seq(S))
  PROVE  FlattenSeq(ss) \in Seq(S)
<1> DEFINE N == Len(ss)
           D(g) == [i \in 1..N |-> IF i = 1 THEN ss[i] ELSE g[i - 1] \o ss[i]]
           flatten == CHOOSE g : g = D(g)
           step == [x \in Nat \X Seq(S) |->
                      IF x[1] \in 1..N THEN IF x[1] = 1 THEN ss[1] ELSE x[2] \o ss[x[1]] ELSE <<>>]
<1>1. N \in Nat /\ \A i \in 1..N : ss[i] \in Seq(S)
  OBVIOUS
<1>2. step \in Steps(Seq(S)) /\ <<>> \in Seq(S)
  BY <1>1 DEF Steps
<1>3. CASE N = 0
  <2>1. FlattenSeq(ss) = ss /\ ss = <<>>
    BY <1>3 DEF FlattenSeq
  <2> QED  BY <1>2, <2>1
<1>4. CASE N # 0
  <2> HIDE DEF step, N, D, flatten
  <2>0. PICK f : IsLoop(f, N, Seq(S), <<>>, step)
    BY <1>1, <1>2, Recursion
  <2>1. f \in [0..N -> Seq(S)] /\ \A n \in 1..N : f[n] = step[<<n, f[n - 1]>>]
    BY <2>0 DEF IsLoop
  <2> DEFINE g == [i \in 1..N |-> f[i]]
  <2>2. ASSUME NEW i \in 1..N
        PROVE  g[i] = IF i = 1 THEN ss[i] ELSE g[i - 1] \o ss[i]
    <3>1. i \in 0..N /\ i # 0 /\ i \in Nat /\ i - 1 \in 0..N /\ f[i - 1] \in Seq(S)
      BY <1>1, <2>1
    <3>2. f[i] = step[<<i, f[i - 1]>>]
      BY <2>1, <3>1
    <3>3. step[<<i, f[i - 1]>>] = IF i = 1 THEN ss[1] ELSE f[i - 1] \o ss[i]
      BY <3>1 DEF step
    <3>4. i # 1 => i - 1 \in 1..N
      BY <1>1
    <3> QED  BY <3>2, <3>3, <3>4
  <2>3. g = D(g)
    <3>1. D(g) = [i \in 1..N |-> D(g)[i]] /\ \A i \in 1..N : D(g)[i] = g[i]
      <4> HIDE DEF g
      <4> QED  BY <2>2 DEF D
    <3>2. g = [i \in 1..N |-> g[i]]
      OBVIOUS
    <3> HIDE DEF D, g
    <3> QED  BY <3>1, <3>2
  <2>4. flatten = D(flatten)
    <3> HIDE DEF g
    <3> QED  BY <2>3 DEF flatten
  <2> DEFINE T == {n \in Nat : n + 1 <= N => flatten[n + 1] \in Seq(S)}
  <2> HIDE DEF g
  <2>5. 0 \in T
    <3>1. 1 \in 1..N
      BY <1>1, <1>4
    <3>2. flatten[1] = ss[1]
      BY <2>4, <3>1 DEF D
    <3> QED  BY <1>1, <3>1, <3>2
  <2>6. ASSUME NEW n \in Nat, n \in T
        PROVE  n + 1 \in T
    <3> SUFFICES ASSUME (n + 1) + 1 <= N
                 PROVE  flatten[(n + 1) + 1] \in Seq(S)
      OBVIOUS
    <3>1. /\ (n + 1) + 1 \in 1..N /\ (n + 1) + 1 # 1 /\ ((n + 1) + 1) - 1 = n + 1
          /\ flatten[n + 1] \in Seq(S)
      BY <1>1, <2>6
    <3>2. flatten[(n + 1) + 1] = flatten[n + 1] \o ss[(n + 1) + 1]
      BY <2>4, <3>1 DEF D
    <3>3. ss[(n + 1) + 1] \in Seq(S)
      BY <1>1, <3>1
    <3> QED  BY <3>1, <3>2, <3>3
  <2>7. Nat \subseteq T
    <3> HIDE DEF T
    <3> QED  BY <2>5, <2>6, SetInduction
  <2>8. flatten[N] \in Seq(S)
    <3>1. N - 1 \in Nat /\ (N - 1) + 1 = N
      BY <1>1, <1>4
    <3>2. N - 1 \in T
      <4> HIDE DEF T
      <4> QED  BY <2>7, <3>1
    <3> QED  BY <3>1, <3>2
  <2>9. FlattenSeq(ss) = flatten[N]
    BY <1>4 DEF FlattenSeq, flatten, D, N
  <2> QED  BY <2>8, <2>9
<1> QED
  BY <1>3, <1>4

Call == [bytes : Int, documents : Int]
RowSet == [kind : {"read", "occRetried", "occFailedPermanently"}, ts : Int,
           udf : {e.udf : e \in Event}, comp : {component(e) : e \in Event},
           table : {e.table : e \in Event} \union {""}, calls : Seq(Call)]

\* The rows of a post (makeRows) are rows.
LEMMA MakeRowsTyped ==
  ASSUME NEW es \in Seq(Event)
  PROVE  makeRows(es) \in Seq(RowSet)
<1>1. ASSUME NEW e \in Event
      PROVE  makeRow(e) \in Seq(RowSet)
  <2>1. /\ eventTime(e) \in Int /\ e.calls \in Seq(Call) /\ <<>> \in Seq(Call)
        /\ e.occ \in BOOLEAN /\ e.failed \in BOOLEAN
    <3>1. Now \in Int
      <4>1. Now \in Nat
        BY InsightsQueryAssumption
      <4> QED  BY <4>1
    <3>2. /\ e.ts \in Int \union {NoTime} /\ e.occ \in BOOLEAN /\ e.failed \in BOOLEAN
          /\ e.calls \in Seq(Call)
      <4>1. \A x \in Event : /\ x.ts \in Int \union {NoTime} /\ x.occ \in BOOLEAN /\ x.failed \in BOOLEAN
                             /\ x.calls \in Seq([bytes : Int, documents : Int])
        BY PostAssumption
      <4> QED  BY <4>1 DEF Call
    <3>3. <<>> \in Seq(Call)
      OBVIOUS
    <3> QED  BY <3>1, <3>2, <3>3 DEF eventTime
  <2> DEFINE o == [kind |-> IF e.failed THEN "occFailedPermanently" ELSE "occRetried",
                   ts |-> eventTime(e), udf |-> e.udf, comp |-> component(e), table |-> e.table,
                   calls |-> <<>>]
             r == [kind |-> "read", ts |-> eventTime(e), udf |-> e.udf, comp |-> component(e),
                   table |-> "", calls |-> e.calls]
  <2>2. o \in RowSet /\ r \in RowSet
    BY <2>1 DEF RowSet
  <2>3. makeRow(e) = <<o>> \/ makeRow(e) = <<r>> \/ makeRow(e) = <<>>
    BY DEF makeRow
  <2> HIDE DEF o, r
  <2>4. <<o>> \in Seq(RowSet) /\ <<r>> \in Seq(RowSet) /\ <<>> \in Seq(RowSet)
    BY <2>2
  <2> QED  BY <2>3, <2>4
<1>2. Len(es) \in Nat /\ DOMAIN es = 1..Len(es) /\ \A i \in 1..Len(es) : es[i] \in Event
  OBVIOUS
<1>3. [i \in DOMAIN es |-> makeRow(es[i])] \in Seq(Seq(RowSet))
  BY <1>1, <1>2
<1> QED
  BY <1>3, FlattenSeqTyped DEF makeRows

\* The greater of two numbers.
LEMMA MaxOfTwo ==
  ASSUME NEW a \in Int, NEW b \in Int
  PROVE  Max({a, b}) = IF a >= b THEN a ELSE b
<1>1. \E x \in {a, b} : \A y \in {a, b} : x >= y
  OBVIOUS
<1>2. Max({a, b}) \in {a, b} /\ \A y \in {a, b} : Max({a, b}) >= y
  BY <1>1 DEF Max
<1> QED  BY <1>2

\* What is kept of the rows fits the ring.
LEMMA NewestFits ==
  ASSUME NEW S, NEW s \in Seq(S)
  PROVE  Newest(s) \in Seq(S) /\ Len(Newest(s)) <= MaxStored
<1>1. Len(s) \in Nat /\ MaxStored \in Nat \ {0}
  <2>1. Len(s) \in Nat
    OBVIOUS
  <2>2. MaxStored \in Nat \ {0}
    BY InsightsQueryAssumption
  <2> QED  BY <2>1, <2>2
<1> DEFINE m == Max({1, Len(s) - MaxStored + 1})
<1>2. m = IF 1 >= Len(s) - MaxStored + 1 THEN 1 ELSE Len(s) - MaxStored + 1
  BY <1>1, MaxOfTwo
<1>3. m \in Nat /\ m >= 1 /\ m >= Len(s) - MaxStored + 1
  BY <1>1, <1>2
<1> HIDE DEF m
<1>4. SubSeq(s, m, Len(s)) \in Seq(S)
  BY <1>1, <1>3
<1>5. Len(SubSeq(s, m, Len(s))) = IF m <= Len(s) THEN Len(s) - m + 1 ELSE 0
  BY <1>1, <1>3
<1>6. Newest(s) = SubSeq(s, m, Len(s))
  BY DEF Newest, m
<1>7. Len(s) - m + 1 <= MaxStored
  BY <1>1, <1>3
<1> QED
  BY <1>1, <1>4, <1>5, <1>6, <1>7

-----------------------------------------------------------------------------
(* What an aggregation returns. *)

\* Division rounds down: where a quotient lies, the number it is of lies.
LEMMA Division ==
  ASSUME NEW x \in Int, NEW d \in Nat \ {0}
  PROVE  /\ x \div d \in Int
         /\ \A q \in Int : /\ q <= x \div d <=> q * d <= x
                           /\ x \div d <= q <=> x < q * d + d
<1> DEFINE z == x \div d
<1>1. z \in Int /\ d * z <= x /\ x < d * z + d
  OBVIOUS
<1> HIDE DEF z
<1>2. ASSUME NEW a \in Int, NEW b \in Int
      PROVE  a <= b => d * a <= d * b
  <2>1. a <= b => d * (b - a) >= 0
    OBVIOUS
  <2> QED  BY <2>1
<1>3. ASSUME NEW q \in Int
      PROVE  (q <= z <=> q * d <= x) /\ (z <= q <=> x < q * d + d)
  <2>1. q <= z => d * q <= d * z
    BY <1>1, <1>2
  <2>2. z <= q => d * z <= d * q
    BY <1>1, <1>2
  <2>3. z + 1 <= q => d * (z + 1) <= d * q
    BY <1>1, <1>2
  <2>4. q + 1 <= z => d * (q + 1) <= d * z
    BY <1>1, <1>2
  <2>5. d * (z + 1) = d * z + d /\ d * (q + 1) = d * q + d /\ q * d = d * q
    BY <1>1
  <2>6. d * q \in Int /\ d * z \in Int
    BY <1>1
  <2> DEFINE u == d * q
             v == d * z
  <2> HIDE DEF u, v
  <2>7. /\ q <= z => u <= v
        /\ z <= q => v <= u
        /\ z + 1 <= q => v + d <= u
        /\ q + 1 <= z => u + d <= v
        /\ v <= x /\ x < v + d /\ u \in Int /\ v \in Int
    BY <1>1, <2>1, <2>2, <2>3, <2>4, <2>5, <2>6 DEF u, v
  <2>8. (q <= z <=> u <= x) /\ (z <= q <=> x < u + d)
    BY <1>1, <2>7
  <2> QED  BY <2>5, <2>8 DEF u
<1> QED
  BY <1>1, <1>3 DEF z

\* What the aggregation reads of a row.
LEMMA RowTyped ==
  ASSUME NEW s \in Seq(RowSet), NEW n \in DOMAIN s
  PROVE  /\ s[n].ts \in Int /\ s[n].calls \in Seq(Call)
         /\ s[n].kind \in {"read", "occRetried", "occFailedPermanently"}
<1>1. s[n] \in RowSet
  OBVIOUS
<1> QED
  BY <1>1 DEF RowSet

\* The rows between two midnights are those of the days asked for.
LEMMA DaysAsked ==
  ASSUME NEW s \in Seq(RowSet), NEW from \in Int, NEW to \in Int
  PROVE  rowsIn(s, from, to) = {n \in DOMAIN s : s[n].ts \div Day \in from..to}
<1>1. Day \in Nat \ {0}
  <2>1. HourTicks \in Nat \ {0}
    BY InsightsQueryAssumption
  <2> QED  BY <2>1 DEF Day
<1>2. ASSUME NEW n \in DOMAIN s
      PROVE  s[n].ts >= from * Day /\ s[n].ts < to * Day + Day <=> s[n].ts \div Day \in from..to
  <2>1. s[n].ts \in Int
    BY RowTyped
  <2> DEFINE t == s[n].ts
  <2> HIDE DEF t
  <2>2. /\ t \div Day \in Int
        /\ from <= t \div Day <=> from * Day <= t
        /\ t \div Day <= to <=> t < to * Day + Day
    BY <1>1, <2>1, Division DEF t
  <2>3. from * Day \in Int /\ t \in Int
    BY <1>1, <2>1 DEF t
  <2>4. t \div Day \in from..to <=> from * Day <= t /\ t < to * Day + Day
    BY <2>2
  <2> QED
    BY <2>3, <2>4 DEF t
<1> QED
  BY <1>2 DEF rowsIn

\* A threshold lies between 0 and its limit.
LEMMA ThresholdInRange ==
  ASSUME NEW l \in [documents : Int, bytes : Int, num : Int, den : Nat \ {0}], valid(l),
         NEW limit \in Int, limit > 0
  PROVE  threshold(l, limit) \in Int /\ 0 <= threshold(l, limit) /\ threshold(l, limit) <= limit
<1>1. l.num \in Nat /\ l.den \in Nat \ {0} /\ l.num <= l.den
  BY DEF valid
<1> DEFINE n == l.num
           d == l.den
<1> HIDE DEF n, d
<1>2. limit * n \in Int /\ 0 <= limit * n /\ limit * n <= limit * d
  <2>1. limit * (d - n) >= 0 /\ limit * n >= 0
    BY <1>1 DEF n, d
  <2> QED  BY <1>1, <2>1 DEF n, d
<1>3. /\ (limit * n) \div d \in Int
      /\ 0 * d <= limit * n => 0 <= (limit * n) \div d
      /\ limit * n < limit * d + d => (limit * n) \div d <= limit
  BY <1>1, <1>2, Division DEF d
<1>4. 0 * d = 0 /\ d \in Nat \ {0} /\ limit * d \in Int
  BY <1>1 DEF d
<1>5. limit * n < limit * d + d
  BY <1>2, <1>4
<1> QED
  BY <1>2, <1>3, <1>4, <1>5 DEF threshold, n, d

\* An insight counts the rows of its group, all in all and by the hour, and shows
\* the newest of them.
Reports(i, s, grp) ==
  /\ i.count = Cardinality(grp)
  /\ DOMAIN i.hourly = {s[n].ts \div HourTicks : n \in grp}
  /\ \A h \in DOMAIN i.hourly : i.hourly[h] = Cardinality({n \in grp : s[n].ts \div HourTicks = h})
  /\ Len(i.recent) = Min({Cardinality(grp), MaxRecent})
  /\ \A k \in DOMAIN i.recent : /\ Cardinality({n \in grp : s[n].ts > i.recent[k]}) < k
                                /\ Cardinality({n \in grp : s[n].ts >= i.recent[k]}) >= k

\* The k-th recent event of a group is its k-th newest: fewer than k are newer, and
\* at least k no older (the sort and the cut of buildOCCRow and readDimension.row).
LEMMA RecentRanked ==
  ASSUME NEW s \in Seq(RowSet), NEW grp, grp \subseteq DOMAIN s
  PROVE  /\ Len(recentOf(s, grp)) = Min({Cardinality(grp), MaxRecent})
         /\ \A k \in DOMAIN recentOf(s, grp) :
              /\ Cardinality({n \in grp : s[n].ts > recentOf(s, grp)[k]}) < k
              /\ Cardinality({n \in grp : s[n].ts >= recentOf(s, grp)[k]}) >= k
<1> DEFINE N == Cardinality(grp)
           M == Min({N, MaxRecent})
           ts == [n \in grp |-> s[n].ts]
           order == CHOOSE o \in [1..N -> grp] : NewestFirst(s, o)
           recent == recentOf(s, grp)
<1>1. IsFiniteSet(grp) /\ N \in Nat
  <2>1. IsFiniteSet(1..Len(s)) /\ grp \in SUBSET (1..Len(s))
    BY FS_Interval
  <2>2. IsFiniteSet(grp)
    BY <2>1, FS_Subset
  <2> QED  BY <2>2, FS_CardinalityType
<1>2. ts \in [grp -> Int]
  <2>1. \A n \in grp : s[n].ts \in Int
    BY RowTyped
  <2> QED  BY <2>1
<1>3. order \in [1..N -> grp] /\ NewestFirst(s, order)
  <2>1. PICK o \in [1..N -> grp] : \A j, k \in 1..N : j < k => o[j] # o[k] /\ ts[o[j]] >= ts[o[k]]
    <3> HIDE DEF ts
    <3> QED  BY <1>1, <1>2, Sortable
  <2>2. NewestFirst(s, o)
    <3>1. \A j \in 1..N : o[j] \in grp /\ ts[o[j]] = s[o[j]].ts
      BY <2>1
    <3> QED  BY <2>1, <3>1 DEF NewestFirst
  <2> QED  BY <2>1, <2>2
<1> HIDE DEF order
<1>4. \A j, k \in 1..N : j < k => order[j] # order[k] /\ ts[order[j]] >= ts[order[k]]
  <2>1. \A j \in 1..N : order[j] \in grp /\ ts[order[j]] = s[order[j]].ts
    BY <1>3
  <2> QED  BY <1>3, <2>1 DEF NewestFirst
<1>5. order \in Surjection(1..N, grp)
  <2>1. IsFiniteSet(1..N) /\ Cardinality(1..N) = N
    BY <1>1, FS_Interval
  <2>2. order \in Injection(1..N, grp)
    <3>1. ASSUME NEW j \in 1..N, NEW k \in 1..N, order[j] = order[k]
          PROVE  j = k
      <4>1. ~(j < k) /\ ~(k < j)
        BY <1>4, <3>1
      <4> QED  BY <1>1, <4>1
    <3> QED  BY <1>3, <3>1 DEF Injection, IsInjective
  <2> QED
    BY <1>1, <2>1, <2>2, FS_Injection
<1>6. M \in Nat /\ M <= N /\ \A k \in 1..M : k \in 1..N
  <2>1. MaxRecent \in Nat
    BY InsightsQueryAssumption
  <2>2. M = IF N <= MaxRecent THEN N ELSE MaxRecent
    BY <1>1, <2>1, MinOfTwo
  <2> HIDE DEF M, N
  <2> QED  BY <1>1, <2>1, <2>2
<1>7. recent = [k \in 1..M |-> s[order[k]].ts]
  BY DEF recentOf, order
<1>8. DOMAIN recent = 1..M /\ \A k \in 1..M : recent[k] = ts[order[k]]
  BY <1>3, <1>6, <1>7
<1>9. Len(recent) = M
  <2> HIDE DEF M, recent
  <2>1. recent = [k \in 1..M |-> recent[k]] /\ M \in Nat
    BY <1>6, <1>7, <1>8
  <2> QED  BY <2>1
<1> HIDE DEF recent, M, ts, N
<1>10. ASSUME NEW k \in 1..M
       PROVE  /\ Cardinality({n \in grp : ts[n] > ts[order[k]]}) < k
              /\ Cardinality({n \in grp : ts[n] >= ts[order[k]]}) >= k
  <2> DEFINE newer == {n \in grp : ts[n] > ts[order[k]]}
             older == {n \in grp : ts[n] >= ts[order[k]]}
             before == {order[j] : j \in 1..(k - 1)}
             first == [j \in 1..k |-> order[j]]
  <2>1. k \in 1..N /\ k \in Nat /\ k - 1 \in Nat /\ \A j \in 1..k : j \in 1..N
    BY <1>1, <1>6
  <2>2. \A j \in 1..N : order[j] \in grp /\ ts[order[j]] \in Int
    BY <1>2, <1>3
  <2>3. newer \subseteq before
    <3> SUFFICES ASSUME NEW n \in grp, ts[n] > ts[order[k]]
                 PROVE  \E j \in 1..(k - 1) : n = order[j]
      OBVIOUS
    <3>1. PICK j \in 1..N : order[j] = n
      BY <1>5 DEF Surjection
    <3>2. ~(k < j) /\ j # k
      BY <1>4, <2>1, <2>2, <3>1
    <3>3. j \in 1..(k - 1)
      BY <1>1, <2>1, <3>1, <3>2
    <3> QED  BY <3>1, <3>3
  <2>4. Cardinality(newer) <= k - 1
    <3>1. IsFiniteSet(1..(k - 1)) /\ Cardinality(1..(k - 1)) = k - 1
      BY <2>1, FS_Interval
    <3>2. IsFiniteSet(before) /\ Cardinality(before) <= k - 1
      BY <3>1, ImageFinite
    <3> HIDE DEF newer, before
    <3>3. IsFiniteSet(newer) /\ Cardinality(newer) <= Cardinality(before)
      BY <2>3, <3>2, FS_Subset
    <3>4. Cardinality(newer) \in Nat /\ Cardinality(before) \in Nat
      BY <3>2, <3>3, FS_CardinalityType
    <3> QED  BY <2>1, <3>2, <3>3, <3>4
  <2>5. first \in Injection(1..k, older)
    <3>1. ASSUME NEW j \in 1..k
          PROVE  order[j] \in older
      <4>1. j < k \/ j = k
        BY <2>1
      <4> QED  BY <1>4, <2>1, <2>2, <4>1
    <3>2. ASSUME NEW i \in 1..k, NEW j \in 1..k, order[i] = order[j]
          PROVE  i = j
      <4>1. ~(i < j) /\ ~(j < i)
        BY <1>4, <2>1, <3>2
      <4> QED  BY <2>1, <4>1
    <3>3. first \in [1..k -> older]
      BY <3>1
    <3>4. \A i, j \in 1..k : first[i] = first[j] => i = j
      BY <3>2
    <3> HIDE DEF first, older
    <3> QED  BY <3>3, <3>4 DEF Injection, IsInjective
  <2>6. Cardinality(older) >= k
    <3>1. IsFiniteSet(1..k) /\ Cardinality(1..k) = k
      BY <2>1, FS_Interval
    <3>2. IsFiniteSet(older)
      BY <1>1, FS_Subset
    <3> HIDE DEF first, older
    <3>3. k <= Cardinality(older) /\ Cardinality(older) \in Nat
      BY <2>5, <3>1, <3>2, FS_Injection, FS_CardinalityType
    <3> QED  BY <2>1, <3>3
  <2>7. Cardinality(newer) \in Nat
    <3>1. IsFiniteSet(newer)
      BY <1>1, FS_Subset
    <3> HIDE DEF newer
    <3> QED  BY <3>1, FS_CardinalityType
  <2> HIDE DEF newer, older
  <2>8. Cardinality(newer) < k
    BY <2>1, <2>4, <2>7
  <2> QED
    BY <2>6, <2>8 DEF newer, older
<1>11. \A n \in grp : ts[n] = s[n].ts
  BY DEF ts
<1>12. ASSUME NEW k \in 1..M
       PROVE  /\ {n \in grp : s[n].ts > recent[k]} = {n \in grp : ts[n] > ts[order[k]]}
              /\ {n \in grp : s[n].ts >= recent[k]} = {n \in grp : ts[n] >= ts[order[k]]}
  BY <1>8, <1>11
<1>13. \A k \in DOMAIN recent : /\ Cardinality({n \in grp : s[n].ts > recent[k]}) < k
                                /\ Cardinality({n \in grp : s[n].ts >= recent[k]}) >= k
  BY <1>8, <1>10, <1>12
<1> QED
  BY <1>9, <1>13 DEF recent, M, N

\* An insight of any group reports that group.
LEMMA InsightReports ==
  ASSUME NEW s \in Seq(RowSet), NEW grp, grp \subseteq DOMAIN s,
         NEW kind, NEW udf, NEW comp, NEW table
  PROVE  Reports(Insight(kind, udf, comp, table, s, grp), s, grp)
<1> DEFINE i == Insight(kind, udf, comp, table, s, grp)
<1>1. i.count = Cardinality(grp) /\ i.hourly = bucket(s, grp) /\ i.recent = recentOf(s, grp)
  BY DEF Insight
<1> HIDE DEF i
<1>2. /\ DOMAIN i.hourly = {s[n].ts \div HourTicks : n \in grp}
      /\ \A h \in DOMAIN i.hourly : i.hourly[h] = Cardinality({n \in grp : s[n].ts \div HourTicks = h})
  BY <1>1 DEF bucket, hourOf
<1>3. /\ Len(i.recent) = Min({Cardinality(grp), MaxRecent})
      /\ \A k \in DOMAIN i.recent : /\ Cardinality({n \in grp : s[n].ts > i.recent[k]}) < k
                                    /\ Cardinality({n \in grp : s[n].ts >= i.recent[k]}) >= k
  BY <1>1, RecentRanked
<1> QED
  BY <1>1, <1>2, <1>3 DEF Reports, i

\* The rows of an insight among those asked for, as in RowsOf.
RowsAt(i, s, asked, l) ==
  IF i.kind \in OccKinds THEN {n \in asked : occKey(s[n]) = occKey(i)}
  ELSE {n \in asked :
          /\ s[n].kind = "read" /\ s[n].udf = i.udf /\ s[n].comp = i.comp
          /\ IF i.kind \in ByteKinds THEN bytesRead(s[n]) >= threshold(l, l.bytes)
             ELSE documentsRead(s[n]) >= threshold(l, l.documents)}

\* What is to be shown of the insights of conflicts.
OccSound(all, s, asked, l) ==
  /\ \A i \in all : /\ i.kind \in OccKinds /\ RowsAt(i, s, asked, l) # {}
                    /\ Reports(i, s, RowsAt(i, s, asked, l))
  /\ \A i, j \in all : occKey(i) = occKey(j) => i = j
  /\ \A n \in asked : s[n].kind # "read" => \E i \in all : n \in RowsAt(i, s, asked, l)

\* aggregateOCC makes one insight of every key, and it reports the rows of that key.
LEMMA OccInsights ==
  ASSUME NEW s \in Seq(RowSet), NEW asked, asked \subseteq DOMAIN s, NEW l
  PROVE  OccSound(aggregateOCC(s, asked), s, asked, l)
<1> DEFINE occ == {n \in asked : s[n].kind # "read"}
           grp(n) == {m \in occ : occKey(s[m]) = occKey(s[n])}
           of(n) == Insight(s[n].kind, s[n].udf, s[n].comp, s[n].table, s, grp(n))
<1>1. aggregateOCC(s, asked) = {of(n) : n \in occ}
  BY DEF aggregateOCC
<1>2. ASSUME NEW n \in occ
      PROVE  /\ of(n).kind = s[n].kind /\ of(n).kind \in OccKinds
             /\ occKey(of(n)) = occKey(s[n])
             /\ RowsAt(of(n), s, asked, l) = grp(n) /\ n \in grp(n)
             /\ Reports(of(n), s, grp(n))
  <2>1. /\ of(n).kind = s[n].kind /\ of(n).udf = s[n].udf
        /\ of(n).comp = s[n].comp /\ of(n).table = s[n].table
    BY DEF Insight
  <2>2. s[n].kind \in OccKinds
    BY RowTyped DEF OccKinds
  <2>3. Reports(of(n), s, grp(n))
    <3>1. grp(n) \subseteq DOMAIN s
      OBVIOUS
    <3> HIDE DEF grp
    <3> QED  BY <3>1, InsightReports
  <2>4. occKey(of(n)) = occKey(s[n])
    BY <2>1 DEF occKey
  <2> HIDE DEF of
  <2>5. RowsAt(of(n), s, asked, l) = {m \in asked : occKey(s[m]) = occKey(s[n])}
    BY <2>1, <2>2, <2>4 DEF RowsAt
  <2>6. \A m \in asked : occKey(s[m]) = occKey(s[n]) => m \in occ
    BY DEF occKey
  <2> QED
    BY <2>1, <2>2, <2>3, <2>4, <2>5, <2>6
<1>3. ASSUME NEW n \in occ, NEW m \in occ, occKey(s[n]) = occKey(s[m])
      PROVE  of(n) = of(m)
  <2>1. grp(n) = grp(m)
    BY <1>3
  <2>2. s[n].kind = s[m].kind /\ s[n].udf = s[m].udf /\ s[n].comp = s[m].comp /\ s[n].table = s[m].table
    BY <1>3 DEF occKey
  <2> QED  BY <2>1, <2>2
<1> HIDE DEF of, grp
<1>4. \A i \in aggregateOCC(s, asked) :
         /\ i.kind \in OccKinds /\ RowsAt(i, s, asked, l) # {}
         /\ Reports(i, s, RowsAt(i, s, asked, l))
  BY <1>1, <1>2
<1>5. \A i, j \in aggregateOCC(s, asked) : occKey(i) = occKey(j) => i = j
  BY <1>1, <1>2, <1>3
<1>6. \A n \in asked : s[n].kind # "read" =>
        \E i \in aggregateOCC(s, asked) : n \in RowsAt(i, s, asked, l)
  BY <1>1, <1>2
<1> QED
  BY <1>4, <1>5, <1>6 DEF OccSound

\* What the calls of a function read, and the kind that the highest of them calls for.
ReadsOf(s, asked, udf, comp) == {n \in asked : s[n].kind = "read" /\ s[n].udf = udf /\ s[n].comp = comp}
Called(peak, limit, least, kindLimit, kindThreshold) ==
  IF peak >= limit THEN {kindLimit} ELSE IF peak >= least THEN {kindThreshold} ELSE {}

Measures(measure, grp) == IsFiniteSet(grp) /\ grp # {} /\ \A n \in grp : measure[n] \in Int
Bounds(least, limit) == limit \in Int /\ least \in Int /\ 0 <= least /\ least <= limit /\ limit > 0
Over(measure, least, grp) == {n \in grp : measure[n] >= least}
Peak(measure, grp) == Max({measure[n] : n \in grp})
Under(kinds, udf, comp, s, grp) == {Insight(k, udf, comp, "", s, grp) : k \in kinds}

\* readDimension.row makes the insight that its peak calls for, over the rows that
\* came to the threshold, and some did when it calls for one.
LEMMA DimensionOf ==
  ASSUME NEW grp, NEW measure, Measures(measure, grp), NEW limit, NEW least, Bounds(least, limit),
         NEW kindLimit, NEW kindThreshold, NEW udf, NEW comp, NEW s
  PROVE  /\ dimensionRow(measure, limit, least, kindLimit, kindThreshold, udf, comp, s, grp)
              = Under(Called(Peak(measure, grp), limit, least, kindLimit, kindThreshold),
                      udf, comp, s, Over(measure, least, grp))
         /\ Called(Peak(measure, grp), limit, least, kindLimit, kindThreshold) # {} =>
              Over(measure, least, grp) # {}
<1> DEFINE V == {measure[n] : n \in grp}
           m == Max(V)
           over == {n \in grp : measure[n] >= least}
           W == {0} \union {measure[n] : n \in over}
           peak == Max(W)
           row == dimensionRow(measure, limit, least, kindLimit, kindThreshold, udf, comp, s, grp)
<1> USE DEF Measures, Bounds
<1>1. m \in V /\ \A y \in V : y <= m
  <2>1. IsFiniteSet(V)
    BY ImageFinite
  <2>2. V \subseteq Int /\ V # {}
    OBVIOUS
  <2> HIDE DEF V
  <2> QED  BY <2>1, <2>2, MaxIsMaximum
<1>2. PICK p \in grp : m = measure[p]
  <2> HIDE DEF m
  <2> QED  BY <1>1
<1>3. m \in Int /\ \A n \in grp : measure[n] <= m
  <2> HIDE DEF m
  <2> QED  BY <1>1, <1>2
<1>4. peak \in W /\ \A y \in W : y <= peak
  <2>1. IsFiniteSet(over)
    BY FS_Subset
  <2>2. IsFiniteSet({measure[n] : n \in over})
    <3> HIDE DEF over
    <3> QED  BY <2>1, ImageFinite
  <2>3. IsFiniteSet(W)
    <3>1. W = {measure[n] : n \in over} \union {0}
      OBVIOUS
    <3> HIDE DEF over, W
    <3> QED  BY <2>2, <3>1, FS_AddElement
  <2>4. W \subseteq Int /\ W # {}
    OBVIOUS
  <2> HIDE DEF W
  <2> QED  BY <2>3, <2>4, MaxIsMaximum
<1> HIDE DEF m, peak
<1>5. over # {} <=> m >= least
  BY <1>2, <1>3
<1>6. over # {} => peak = m
  <2> SUFFICES ASSUME over # {}
               PROVE  peak = m
    OBVIOUS
  <2>1. p \in over
    BY <1>2, <1>5
  <2>2. m \in W
    BY <1>2, <2>1
  <2>3. \A y \in W : y = 0 \/ y <= m
    BY <1>3
  <2>4. peak \in Int
    BY <1>4
  <2>5. m <= peak /\ (peak = 0 \/ peak <= m) /\ m >= 0
    BY <1>3, <1>4, <1>5, <2>2, <2>3
  <2> QED
    BY <1>3, <2>4, <2>5
<1>7. row = IF over = {} THEN {}
            ELSE {Insight(kindFor(peak, limit, kindLimit, kindThreshold), udf, comp, "", s, over)}
  BY DEF dimensionRow, peak
<1> DEFINE C == Called(m, limit, least, kindLimit, kindThreshold)
<1> HIDE DEF row, over
<1>8. CASE over = {}
  <2>1. C = {}
    BY <1>3, <1>5, <1>8 DEF Called
  <2> HIDE DEF C
  <2>2. row = Under(C, udf, comp, s, over) /\ ~(C # {})
    BY <1>7, <1>8, <2>1 DEF Under
  <2> QED  BY <2>2 DEF C, row, m, over, Over, Peak
<1>9. CASE over # {}
  <2>1. C = {kindFor(peak, limit, kindLimit, kindThreshold)}
    BY <1>5, <1>6, <1>9 DEF Called, kindFor
  <2> HIDE DEF C
  <2>2. row = Under(C, udf, comp, s, over)
    BY <1>7, <1>9, <2>1 DEF Under
  <2> QED  BY <1>9, <2>2 DEF C, row, m, over, Over, Peak
<1> QED
  BY <1>8, <1>9

\* What a row read is a number, of bytes and of documents.
LEMMA MeasuresTyped ==
  ASSUME NEW r, r.calls \in Seq(Call)
  PROVE  bytesRead(r) \in Int /\ documentsRead(r) \in Int
<1> DEFINE N == Len(r.calls)
<1>1. N \in Nat /\ \A n \in 1..N : r.calls[n] \in Call
  OBVIOUS
<1>2. \A n \in 1..N : r.calls[n].bytes \in Int /\ r.calls[n].documents \in Int
  BY <1>1 DEF Call
<1> HIDE DEF N
<1>3. /\ [n \in 1..N |-> r.calls[n].bytes] \in Seq(Int)
      /\ [n \in 1..N |-> r.calls[n].documents] \in Seq(Int)
  BY <1>1, <1>2
<1>4. total([n \in 1..N |-> r.calls[n].bytes]) \in Int /\ total([n \in 1..N |-> r.calls[n].documents]) \in Int
  BY <1>3, TotalTyped
<1> QED
  BY <1>4 DEF bytesRead, documentsRead, N

LimitSet == [documents : Int, bytes : Int, num : Int, den : Nat \ {0}]
DocumentKinds == {"documentsReadLimit", "documentsReadThreshold"}

BytesOver(s, asked, l, u, c) ==
  {n \in ReadsOf(s, asked, u, c) : bytesRead(s[n]) >= threshold(l, l.bytes)}
DocumentsOver(s, asked, l, u, c) ==
  {n \in ReadsOf(s, asked, u, c) : documentsRead(s[n]) >= threshold(l, l.documents)}

BytesCalled(s, asked, l, u, c) ==
  Called(Max({bytesRead(s[n]) : n \in ReadsOf(s, asked, u, c)}), l.bytes, threshold(l, l.bytes),
         "bytesReadLimit", "bytesReadThreshold")
DocumentsCalled(s, asked, l, u, c) ==
  Called(Max({documentsRead(s[n]) : n \in ReadsOf(s, asked, u, c)}), l.documents,
         threshold(l, l.documents), "documentsReadLimit", "documentsReadThreshold")

OfBytes(s, asked, l, u, c) ==
  Under(BytesCalled(s, asked, l, u, c), u, c, s, BytesOver(s, asked, l, u, c))
OfDocuments(s, asked, l, u, c) ==
  Under(DocumentsCalled(s, asked, l, u, c), u, c, s, DocumentsOver(s, asked, l, u, c))

\* aggregateRead makes for each function the insights that its calls call for.
LEMMA ReadsAggregated ==
  ASSUME NEW s \in Seq(RowSet), NEW asked, asked \subseteq DOMAIN s, NEW l \in LimitSet, valid(l)
  PROVE  /\ aggregateRead(s, asked, l) =
              UNION {OfBytes(s, asked, l, s[n].udf, s[n].comp)
                       \union OfDocuments(s, asked, l, s[n].udf, s[n].comp) :
                     n \in {m \in asked : s[m].kind = "read"}}
         /\ \A n \in asked : s[n].kind = "read" =>
              LET u == s[n].udf
                  c == s[n].comp
              IN  /\ BytesCalled(s, asked, l, u, c) # {} => BytesOver(s, asked, l, u, c) # {}
                  /\ DocumentsCalled(s, asked, l, u, c) # {} => DocumentsOver(s, asked, l, u, c) # {}
<1> DEFINE reads == {n \in asked : s[n].kind = "read"}
           bytes == [n \in reads |-> bytesRead(s[n])]
           documents == [n \in reads |-> documentsRead(s[n])]
           group(n) == {m \in reads : s[m].udf = s[n].udf /\ s[m].comp = s[n].comp}
           bytesRow(n) == dimensionRow(bytes, l.bytes, threshold(l, l.bytes), "bytesReadLimit",
                                       "bytesReadThreshold", s[n].udf, s[n].comp, s, group(n))
           documentsRow(n) == dimensionRow(documents, l.documents, threshold(l, l.documents),
                                           "documentsReadLimit", "documentsReadThreshold",
                                           s[n].udf, s[n].comp, s, group(n))
<1>1. aggregateRead(s, asked, l) = UNION {bytesRow(n) \union documentsRow(n) : n \in reads}
  BY DEF aggregateRead
<1>2. /\ l.bytes \in Int /\ l.bytes > 0 /\ l.documents \in Int /\ l.documents > 0
      /\ threshold(l, l.bytes) \in Int /\ 0 <= threshold(l, l.bytes)
      /\ threshold(l, l.bytes) <= l.bytes
      /\ threshold(l, l.documents) \in Int /\ 0 <= threshold(l, l.documents)
      /\ threshold(l, l.documents) <= l.documents
  <2>1. l.bytes \in Int /\ l.bytes > 0 /\ l.documents \in Int /\ l.documents > 0
    BY DEF valid, LimitSet
  <2> QED  BY <2>1, ThresholdInRange DEF LimitSet
<1>3. ASSUME NEW n \in reads
      PROVE  bytesRead(s[n]) \in Int /\ documentsRead(s[n]) \in Int
  <2>1. s[n].calls \in Seq(Call)
    BY RowTyped
  <2> QED  BY <2>1, MeasuresTyped
<1>4. ASSUME NEW n \in reads
      PROVE  /\ bytesRow(n) = OfBytes(s, asked, l, s[n].udf, s[n].comp)
             /\ documentsRow(n) = OfDocuments(s, asked, l, s[n].udf, s[n].comp)
             /\ BytesCalled(s, asked, l, s[n].udf, s[n].comp) # {} =>
                  BytesOver(s, asked, l, s[n].udf, s[n].comp) # {}
             /\ DocumentsCalled(s, asked, l, s[n].udf, s[n].comp) # {} =>
                  DocumentsOver(s, asked, l, s[n].udf, s[n].comp) # {}
  <2> DEFINE u == s[n].udf
             c == s[n].comp
             g == ReadsOf(s, asked, u, c)
  <2>1. group(n) = g /\ n \in g /\ g \subseteq reads
    BY DEF ReadsOf
  <2>2. IsFiniteSet(g)
    <3>1. IsFiniteSet(1..Len(s)) /\ g \in SUBSET (1..Len(s))
      <4>1. Len(s) \in Int
        OBVIOUS
      <4>2. g \in SUBSET (1..Len(s))
        BY DEF ReadsOf
      <4>3. IsFiniteSet(1..Len(s))
        BY <4>1, FS_Interval
      <4> HIDE DEF g
      <4> QED  BY <4>2, <4>3
    <3> HIDE DEF g
    <3> QED  BY <3>1, FS_Subset
  <2>3. \A m \in g : /\ bytes[m] = bytesRead(s[m]) /\ documents[m] = documentsRead(s[m])
                     /\ bytes[m] \in Int /\ documents[m] \in Int
    BY <1>3, <2>1
  <2>4. /\ Peak(bytes, g) = Max({bytesRead(s[m]) : m \in g})
        /\ Over(bytes, threshold(l, l.bytes), g) = {m \in g : bytesRead(s[m]) >= threshold(l, l.bytes)}
        /\ Peak(documents, g) = Max({documentsRead(s[m]) : m \in g})
        /\ Over(documents, threshold(l, l.documents), g)
             = {m \in g : documentsRead(s[m]) >= threshold(l, l.documents)}
    <3>1. /\ {bytes[m] : m \in g} = {bytesRead(s[m]) : m \in g}
          /\ {documents[m] : m \in g} = {documentsRead(s[m]) : m \in g}
      <4> HIDE DEF bytes, documents, g
      <4> QED  BY <2>3
    <3>2. /\ Over(bytes, threshold(l, l.bytes), g) = {m \in g : bytesRead(s[m]) >= threshold(l, l.bytes)}
          /\ Over(documents, threshold(l, l.documents), g)
             = {m \in g : documentsRead(s[m]) >= threshold(l, l.documents)}
      <4> HIDE DEF bytes, documents, g
      <4> QED  BY <2>3 DEF Over
    <3> HIDE DEF bytes, documents, g
    <3> QED  BY <3>1, <3>2 DEF Peak
  <2> HIDE DEF bytes, documents, u, c
  <2>5. /\ dimensionRow(bytes, l.bytes, threshold(l, l.bytes), "bytesReadLimit",
                        "bytesReadThreshold", u, c, s, g) = OfBytes(s, asked, l, u, c)
        /\ BytesCalled(s, asked, l, u, c) # {} => BytesOver(s, asked, l, u, c) # {}
    <3> HIDE DEF g
    <3> DEFINE limit == l.bytes
               least == threshold(l, l.bytes)
               kl == "bytesReadLimit"
               kt == "bytesReadThreshold"
               C == Called(Peak(bytes, g), limit, least, kl, kt)
               O == Over(bytes, least, g)
    <3>1. Measures(bytes, g) /\ Bounds(least, limit)
      BY <1>2, <2>1, <2>2, <2>3 DEF Measures, Bounds
    <3> HIDE DEF limit, least, kl, kt
    <3>2. /\ dimensionRow(bytes, limit, least, kl, kt, u, c, s, g) = Under(C, u, c, s, O)
          /\ C # {} => O # {}
      BY <3>1, DimensionOf
    <3>3. C = BytesCalled(s, asked, l, u, c)
      BY <2>4 DEF BytesCalled, g, limit, least, kl, kt
    <3>4. O = BytesOver(s, asked, l, u, c)
      BY <2>4 DEF BytesOver, g, least
    <3> HIDE DEF C, O
    <3> QED
      BY <3>2, <3>3, <3>4 DEF OfBytes, limit, least, kl, kt
  <2>6. /\ dimensionRow(documents, l.documents, threshold(l, l.documents), "documentsReadLimit",
                        "documentsReadThreshold", u, c, s, g) = OfDocuments(s, asked, l, u, c)
        /\ DocumentsCalled(s, asked, l, u, c) # {} => DocumentsOver(s, asked, l, u, c) # {}
    <3> HIDE DEF g
    <3> DEFINE limit == l.documents
               least == threshold(l, l.documents)
               kl == "documentsReadLimit"
               kt == "documentsReadThreshold"
               C == Called(Peak(documents, g), limit, least, kl, kt)
               O == Over(documents, least, g)
    <3>1. Measures(documents, g) /\ Bounds(least, limit)
      BY <1>2, <2>1, <2>2, <2>3 DEF Measures, Bounds
    <3> HIDE DEF limit, least, kl, kt
    <3>2. /\ dimensionRow(documents, limit, least, kl, kt, u, c, s, g) = Under(C, u, c, s, O)
          /\ C # {} => O # {}
      BY <3>1, DimensionOf
    <3>3. C = DocumentsCalled(s, asked, l, u, c)
      BY <2>4 DEF DocumentsCalled, g, limit, least, kl, kt
    <3>4. O = DocumentsOver(s, asked, l, u, c)
      BY <2>4 DEF DocumentsOver, g, least
    <3> HIDE DEF C, O
    <3> QED
      BY <3>2, <3>3, <3>4 DEF OfDocuments, limit, least, kl, kt
  <2> HIDE DEF group, g
  <2> QED
    BY <2>1, <2>5, <2>6 DEF u, c
<1> HIDE DEF bytesRow, documentsRow
<1>5. aggregateRead(s, asked, l) =
        UNION {OfBytes(s, asked, l, s[n].udf, s[n].comp)
                 \union OfDocuments(s, asked, l, s[n].udf, s[n].comp) : n \in reads}
  BY <1>1, <1>4
<1> QED
  BY <1>4, <1>5

\* What is to be shown of the insights of reads.
ReadsSound(all, s, asked, l) ==
  /\ \A i \in all :
       /\ \/ i.kind \in ByteKinds /\ i.kind \in BytesCalled(s, asked, l, i.udf, i.comp)
          \/ i.kind \in DocumentKinds /\ i.kind \in DocumentsCalled(s, asked, l, i.udf, i.comp)
       /\ RowsAt(i, s, asked, l) # {} /\ Reports(i, s, RowsAt(i, s, asked, l))
  /\ \A n \in asked : s[n].kind = "read" =>
       \A k \in BytesCalled(s, asked, l, s[n].udf, s[n].comp)
                  \union DocumentsCalled(s, asked, l, s[n].udf, s[n].comp) :
         \E i \in all : i.kind = k /\ i.udf = s[n].udf /\ i.comp = s[n].comp

\* Each of those reports the reads that came to the threshold, and they are all.
LEMMA ReadInsights ==
  ASSUME NEW s \in Seq(RowSet), NEW asked, asked \subseteq DOMAIN s, NEW l \in LimitSet, valid(l)
  PROVE  ReadsSound(aggregateRead(s, asked, l), s, asked, l)
<1>2. \A u, c : BytesCalled(s, asked, l, u, c) \subseteq ByteKinds
                /\ DocumentsCalled(s, asked, l, u, c) \subseteq DocumentKinds
  BY DEF BytesCalled, DocumentsCalled, Called, ByteKinds, DocumentKinds
<1>3. ASSUME NEW n \in asked, s[n].kind = "read", NEW i \in OfBytes(s, asked, l, s[n].udf, s[n].comp)
      PROVE  /\ i.kind \in ByteKinds /\ i.kind \in BytesCalled(s, asked, l, i.udf, i.comp)
             /\ RowsAt(i, s, asked, l) # {} /\ Reports(i, s, RowsAt(i, s, asked, l))
  <2> DEFINE u == s[n].udf
             c == s[n].comp
             g == BytesOver(s, asked, l, u, c)
  <2>1. PICK k \in BytesCalled(s, asked, l, u, c) : i = Insight(k, u, c, "", s, g)
    BY <1>3 DEF OfBytes, Under
  <2> HIDE DEF u, c
  <2>2. i.kind = k /\ i.udf = u /\ i.comp = c /\ k \in ByteKinds
    BY <1>2, <2>1 DEF Insight
  <2>3. k \notin OccKinds
    BY <2>2 DEF OccKinds, ByteKinds
  <2>4. RowsAt(i, s, asked, l) = g
    BY <2>2, <2>3 DEF RowsAt, BytesOver, ReadsOf
  <2>5. g # {}
    BY <1>3, <2>1, ReadsAggregated DEF u, c
  <2>6. g \subseteq DOMAIN s
    BY DEF BytesOver, ReadsOf
  <2> HIDE DEF g
  <2>7. Reports(i, s, g)
    BY <2>1, <2>6, InsightReports
  <2> QED
    BY <2>1, <2>2, <2>4, <2>5, <2>7
<1>4. ASSUME NEW n \in asked, s[n].kind = "read", NEW i \in OfDocuments(s, asked, l, s[n].udf, s[n].comp)
      PROVE  /\ i.kind \in DocumentKinds /\ i.kind \in DocumentsCalled(s, asked, l, i.udf, i.comp)
             /\ RowsAt(i, s, asked, l) # {} /\ Reports(i, s, RowsAt(i, s, asked, l))
  <2> DEFINE u == s[n].udf
             c == s[n].comp
             g == DocumentsOver(s, asked, l, u, c)
  <2>1. PICK k \in DocumentsCalled(s, asked, l, u, c) : i = Insight(k, u, c, "", s, g)
    BY <1>4 DEF OfDocuments, Under
  <2> HIDE DEF u, c
  <2>2. i.kind = k /\ i.udf = u /\ i.comp = c /\ k \in DocumentKinds
    BY <1>2, <2>1 DEF Insight
  <2>3. k \notin OccKinds /\ k \notin ByteKinds
    BY <2>2 DEF OccKinds, ByteKinds, DocumentKinds
  <2>4. RowsAt(i, s, asked, l) = g
    BY <2>2, <2>3 DEF RowsAt, DocumentsOver, ReadsOf
  <2>5. g # {}
    BY <1>4, <2>1, ReadsAggregated DEF u, c
  <2>6. g \subseteq DOMAIN s
    BY DEF DocumentsOver, ReadsOf
  <2> HIDE DEF g
  <2>7. Reports(i, s, g)
    BY <2>1, <2>6, InsightReports
  <2> QED
    BY <2>1, <2>2, <2>4, <2>5, <2>7
<1>5. aggregateRead(s, asked, l) =
        UNION {OfBytes(s, asked, l, s[n].udf, s[n].comp)
                 \union OfDocuments(s, asked, l, s[n].udf, s[n].comp) :
               n \in {m \in asked : s[m].kind = "read"}}
  BY ReadsAggregated
<1>6. ASSUME NEW i \in aggregateRead(s, asked, l)
      PROVE  /\ \/ i.kind \in ByteKinds /\ i.kind \in BytesCalled(s, asked, l, i.udf, i.comp)
                \/ i.kind \in DocumentKinds /\ i.kind \in DocumentsCalled(s, asked, l, i.udf, i.comp)
             /\ RowsAt(i, s, asked, l) # {} /\ Reports(i, s, RowsAt(i, s, asked, l))
  <2>1. PICK n \in asked : /\ s[n].kind = "read"
                           /\ \/ i \in OfBytes(s, asked, l, s[n].udf, s[n].comp)
                              \/ i \in OfDocuments(s, asked, l, s[n].udf, s[n].comp)
    BY <1>5
  <2> QED
    BY <1>3, <1>4, <2>1
<1>7. ASSUME NEW n \in asked, s[n].kind = "read",
             NEW k \in BytesCalled(s, asked, l, s[n].udf, s[n].comp)
                         \union DocumentsCalled(s, asked, l, s[n].udf, s[n].comp)
      PROVE  \E i \in aggregateRead(s, asked, l) :
               i.kind = k /\ i.udf = s[n].udf /\ i.comp = s[n].comp
  <2> DEFINE u == s[n].udf
             c == s[n].comp
             b == Insight(k, u, c, "", s, BytesOver(s, asked, l, u, c))
             o == Insight(k, u, c, "", s, DocumentsOver(s, asked, l, u, c))
  <2>1. OfBytes(s, asked, l, u, c) \union OfDocuments(s, asked, l, u, c) \subseteq aggregateRead(s, asked, l)
    BY <1>5, <1>7
  <2>2. b \in OfBytes(s, asked, l, u, c) \/ o \in OfDocuments(s, asked, l, u, c)
    BY DEF OfBytes, OfDocuments, Under
  <2>3. b.kind = k /\ b.udf = u /\ b.comp = c /\ o.kind = k /\ o.udf = u /\ o.comp = c
    BY DEF Insight
  <2> HIDE DEF b, o
  <2> QED
    BY <2>1, <2>2, <2>3
<1> QED
  BY <1>6, <1>7 DEF ReadsSound

-----------------------------------------------------------------------------
(* The queries. *)

InsightsOf(s, asked, l) == aggregateOCC(s, asked) \union aggregateRead(s, asked, l)

RowsKept(s, sent) ==
  /\ s \in [Registered -> Seq(RowSet)] /\ sent \in [Registered -> LimitSet]
  /\ \A d \in Registered :
       /\ Len(s[d]) <= MaxStored
       /\ s[d] # <<>> => valid(sent[d]) /\ usageTokens[d] # ""

Answered(a, s, sent) ==
  /\ a.status \in {0, 200, 400, 401, 413}
  /\ "insights" \in DOMAIN a =>
       LET d == a.deployment
       IN  /\ d \in Registered /\ usageTokens[d] # "" /\ a.from \in Int /\ a.to \in Int
           /\ a.insights = InsightsOf(s[d], rowsIn(s[d], a.from, a.to), sent[d])

\* The inductive invariant: the rows are typed and fit, limits that rows came with
\* are in range, and an answer with insights is that of the state it was made in.
QueryIInv == RowsKept(stored, lastLimits) /\ Answered(answer, stored, lastLimits)

Verdict(all, k, u, c) == \E i \in all : i.kind = k /\ i.udf = u /\ i.comp = c

\* The most that the calls of a function read is a number.
LEMMA PeakTyped ==
  ASSUME NEW s \in Seq(RowSet), NEW asked, asked \subseteq DOMAIN s, NEW n \in asked, s[n].kind = "read"
  PROVE  /\ Max({bytesRead(s[m]) : m \in ReadsOf(s, asked, s[n].udf, s[n].comp)}) \in Int
         /\ Max({documentsRead(s[m]) : m \in ReadsOf(s, asked, s[n].udf, s[n].comp)}) \in Int
<1> DEFINE g == ReadsOf(s, asked, s[n].udf, s[n].comp)
           bytes == [m \in g |-> bytesRead(s[m])]
           documents == [m \in g |-> documentsRead(s[m])]
<1>1. n \in g /\ g \in SUBSET (1..Len(s))
  BY DEF ReadsOf
<1>2. IsFiniteSet(g)
  <2>1. IsFiniteSet(1..Len(s))
    <3>1. Len(s) \in Int
      OBVIOUS
    <3> QED  BY <3>1, FS_Interval
  <2> HIDE DEF g
  <2> QED  BY <1>1, <2>1, FS_Subset
<1>3. ASSUME NEW m \in g
      PROVE  bytes[m] = bytesRead(s[m]) /\ bytes[m] \in Int
             /\ documents[m] = documentsRead(s[m]) /\ documents[m] \in Int
  <2>1. s[m].calls \in Seq(Call)
    BY <1>1, RowTyped
  <2>2. bytesRead(s[m]) \in Int /\ documentsRead(s[m]) \in Int
    BY <2>1, MeasuresTyped
  <2> HIDE DEF g
  <2> QED  BY <2>2
<1> HIDE DEF bytes, documents, g
<1>4. IsFiniteSet({bytes[m] : m \in g}) /\ IsFiniteSet({documents[m] : m \in g})
  BY <1>2, ImageFinite
<1>5. /\ {bytes[m] : m \in g} # {} /\ {bytes[m] : m \in g} \subseteq Int
      /\ {documents[m] : m \in g} # {} /\ {documents[m] : m \in g} \subseteq Int
  BY <1>1, <1>3
<1>6. /\ {bytes[m] : m \in g} = {bytesRead(s[m]) : m \in g}
      /\ {documents[m] : m \in g} = {documentsRead(s[m]) : m \in g}
  BY <1>3
<1> DEFINE B == {bytes[m] : m \in g}
           C == {documents[m] : m \in g}
<1>7. Max(B) \in Int /\ Max(C) \in Int
  <2>1. IsFiniteSet(B) /\ IsFiniteSet(C) /\ B # {} /\ C # {} /\ B \subseteq Int /\ C \subseteq Int
    BY <1>4, <1>5
  <2> HIDE DEF B, C
  <2>2. Max(B) \in B /\ Max(C) \in C
    BY <2>1, MaxIsMaximum
  <2> QED  BY <2>1, <2>2
<1> QED
  BY <1>6, <1>7 DEF g

\* What is to be shown of the insights of an answer.
AllSound(all, s, asked, l) ==
  /\ \A i \in all : /\ i.kind \in Kinds /\ RowsAt(i, s, asked, l) # {}
                    /\ Reports(i, s, RowsAt(i, s, asked, l))
  /\ \A n \in asked : s[n].kind # "read" =>
       \E i \in all : \A j \in all : n \in RowsAt(j, s, asked, l) <=> j = i
  /\ \A n \in asked : s[n].kind = "read" =>
       /\ \A k \in ByteKinds : Verdict(all, k, s[n].udf, s[n].comp)
                                 <=> k \in BytesCalled(s, asked, l, s[n].udf, s[n].comp)
       /\ \A k \in DocumentKinds : Verdict(all, k, s[n].udf, s[n].comp)
                                     <=> k \in DocumentsCalled(s, asked, l, s[n].udf, s[n].comp)

\* The insights of a query, of conflicts and of reads together: no row is reported
\* under two conflicts, and no kind is called for that is missing.
LEMMA AllInsights ==
  ASSUME NEW s \in Seq(RowSet), NEW asked, asked \subseteq DOMAIN s, NEW l \in LimitSet, valid(l),
         NEW all, all = aggregateOCC(s, asked) \union aggregateRead(s, asked, l)
  PROVE  AllSound(all, s, asked, l)
<1> DEFINE occ == aggregateOCC(s, asked)
           read == aggregateRead(s, asked, l)
           At(i) == RowsAt(i, s, asked, l)
<1>1. OccSound(occ, s, asked, l)
  BY OccInsights
<1>2. ReadsSound(read, s, asked, l)
  BY ReadInsights
<1>3. /\ OccKinds \intersect ByteKinds = {} /\ OccKinds \intersect DocumentKinds = {}
      /\ ByteKinds \intersect DocumentKinds = {}
      /\ OccKinds \union ByteKinds \union DocumentKinds = Kinds
  BY DEF OccKinds, ByteKinds, DocumentKinds, Kinds
<1> HIDE DEF occ, read
<1> USE DEF OccSound, ReadsSound
<1>4. all = occ \union read
  BY DEF occ, read
<1>5. \A i \in all : i.kind \in Kinds /\ At(i) # {} /\ Reports(i, s, At(i))
  BY <1>1, <1>2, <1>3, <1>4
<1>6. ASSUME NEW n \in asked, s[n].kind # "read"
      PROVE  \E i \in all : \A j \in all : n \in At(j) <=> j = i
  <2>1. PICK i \in occ : n \in At(i)
    BY <1>1, <1>6
  <2>2. occKey(s[n]) = occKey(i)
    BY <1>1, <2>1 DEF RowsAt
  <2>3. ASSUME NEW j \in all, n \in At(j)
        PROVE  j = i
    <3>1. j.kind \in OccKinds /\ occKey(s[n]) = occKey(j)
      BY <1>6, <2>3 DEF RowsAt
    <3>2. j \in occ
      BY <1>2, <1>3, <1>4, <3>1
    <3> QED  BY <1>1, <2>2, <3>1, <3>2
  <2> QED  BY <1>4, <2>1, <2>3
<1>7. ASSUME NEW n \in asked, s[n].kind = "read"
      PROVE  /\ \A k \in ByteKinds : Verdict(all, k, s[n].udf, s[n].comp)
                                       <=> k \in BytesCalled(s, asked, l, s[n].udf, s[n].comp)
             /\ \A k \in DocumentKinds : Verdict(all, k, s[n].udf, s[n].comp)
                                           <=> k \in DocumentsCalled(s, asked, l, s[n].udf, s[n].comp)
  <2> DEFINE u == s[n].udf
             c == s[n].comp
  <2>1. ASSUME NEW k \in BytesCalled(s, asked, l, u, c) \union DocumentsCalled(s, asked, l, u, c)
        PROVE  Verdict(all, k, u, c)
    <3>1. PICK i \in read : i.kind = k /\ i.udf = u /\ i.comp = c
      BY <1>2, <1>7
    <3> HIDE DEF u, c
    <3> QED  BY <1>4, <3>1 DEF Verdict
  <2>2. ASSUME NEW k, Verdict(all, k, u, c)
        PROVE  /\ k \in ByteKinds => k \in BytesCalled(s, asked, l, u, c)
               /\ k \in DocumentKinds => k \in DocumentsCalled(s, asked, l, u, c)
    <3>1. PICK i \in all : i.kind = k /\ i.udf = u /\ i.comp = c
      BY <2>2 DEF Verdict
    <3> HIDE DEF u, c
    <3> QED  BY <1>1, <1>2, <1>3, <1>4, <3>1
  <2> HIDE DEF u, c
  <2>3. /\ \A k \in ByteKinds : Verdict(all, k, u, c) <=> k \in BytesCalled(s, asked, l, u, c)
        /\ \A k \in DocumentKinds : Verdict(all, k, u, c) <=> k \in DocumentsCalled(s, asked, l, u, c)
    BY <2>1, <2>2
  <2> QED  BY <2>3 DEF u, c
<1> QED
  BY <1>5, <1>6, <1>7 DEF AllSound

\* The invariant says of every answer what QueryInv asks.
LEMMA AnswersAreSound ==
  ASSUME QueryIInv
  PROVE  QueryInv
<1>1. NoTokenNoData
  BY DEF QueryIInv, RowsKept, Answered, Reported, NoTokenNoData
<1>2. /\ \A d \in Registered : Len(stored[d]) <= MaxStored
      /\ answer.status \in {0, 200, 400, 401, 413}
  BY DEF QueryIInv, RowsKept, Answered
<1>3. CASE ~Reported
  BY <1>1, <1>2, <1>3 DEF QueryInv, InsightsQueryTypeOK, CountedOnce, ReadVerdicts,
                          RecentAreNewest, Reported
<1>4. CASE Reported
  <2> DEFINE d == answer.deployment
             s == stored[d]
             l == lastLimits[d]
             all == answer.insights
  <2>1. /\ d \in Registered /\ s \in Seq(RowSet) /\ l \in LimitSet
        /\ answer.from \in Int /\ answer.to \in Int
        /\ s # <<>> => valid(l)
        /\ all = aggregateOCC(s, rowsIn(s, answer.from, answer.to))
                   \union aggregateRead(s, rowsIn(s, answer.from, answer.to), l)
    <3>1. /\ d \in Registered /\ answer.from \in Int /\ answer.to \in Int
          /\ all = aggregateOCC(s, rowsIn(s, answer.from, answer.to))
                     \union aggregateRead(s, rowsIn(s, answer.from, answer.to), l)
      BY <1>4 DEF QueryIInv, Answered, Reported, InsightsOf
    <3>2. s # <<>> => valid(l)
      BY <3>1 DEF QueryIInv, RowsKept
    <3>3. stored \in [Registered -> Seq(RowSet)] /\ lastLimits \in [Registered -> LimitSet]
      BY DEF QueryIInv, RowsKept
    <3>4. s \in Seq(RowSet) /\ l \in LimitSet
      BY <3>1, <3>3
    <3> HIDE DEF d, s, l, all
    <3> QED  BY <3>1, <3>2, <3>4
  <2>2. Asked = rowsIn(s, answer.from, answer.to) /\ Asked \subseteq DOMAIN s
    <3>1. rowsIn(s, answer.from, answer.to)
            = {n \in DOMAIN s : s[n].ts \div Day \in answer.from..answer.to}
      <4> HIDE DEF s
      <4> QED  BY <2>1, DaysAsked
    <3> QED  BY <3>1 DEF Asked
  <2>3. \A n : RowAt(n) = s[n]
    BY DEF RowAt
  <2>4. \A i : RowsOf(i) = RowsAt(i, s, Asked, l)
    BY <2>3 DEF RowsOf, RowsAt
  <2> HIDE DEF s, l, all
  <2>5. all = aggregateOCC(s, Asked) \union aggregateRead(s, Asked, l)
    BY <2>1, <2>2
  <2>6. CASE Asked = {}
    <3>1. aggregateOCC(s, Asked) = {} /\ aggregateRead(s, Asked, l) = {}
      BY <2>6 DEF aggregateOCC, aggregateRead
    <3>2. all = {}
      BY <2>5, <3>1
    <3> QED
      BY <1>1, <1>2, <2>6, <3>2 DEF QueryInv, InsightsQueryTypeOK, CountedOnce, ReadVerdicts,
                                    RecentAreNewest, all
  <2>7. CASE Asked # {}
    <3>1. valid(l)
      BY <2>1, <2>2, <2>7
    <3>2. AllSound(all, s, Asked, l)
      <4> HIDE DEF d
      <4> QED  BY <2>1, <2>2, <2>5, <3>1, AllInsights
    <3>3. \A i \in all : RowsOf(i) # {} /\ Reports(i, s, RowsOf(i))
      BY <2>4, <3>2 DEF AllSound
    <3>4. InsightsQueryTypeOK
      <4>1. ASSUME NEW i \in all
            PROVE  i.kind \in Kinds /\ i.count > 0
        <5>1. i.count = Cardinality(RowsOf(i)) /\ RowsOf(i) # {}
          BY <3>3 DEF Reports
        <5>2. RowsOf(i) \in SUBSET (1..Len(s)) /\ IsFiniteSet(1..Len(s))
          <6>1. RowsOf(i) \subseteq Asked
            BY DEF RowsOf
          <6>2. Len(s) \in Int /\ DOMAIN s = 1..Len(s)
            BY <2>1
          <6> QED  BY <2>2, <6>1, <6>2, FS_Interval
        <5>3. IsFiniteSet(RowsOf(i))
          BY <5>2, FS_Subset
        <5>4. Cardinality(RowsOf(i)) \in Nat /\ Cardinality(RowsOf(i)) # 0
          BY <5>1, <5>3, FS_EmptySet, FS_CardinalityType
        <5> QED  BY <3>2, <5>1, <5>4 DEF AllSound
      <4> QED  BY <1>2, <4>1 DEF InsightsQueryTypeOK, all
    <3>5. CountedOnce
      <4>1. \A n \in Asked : RowAt(n).kind # "read" =>
              \E i \in all : \A j \in all : n \in RowsOf(j) <=> j = i
        BY <2>3, <2>4, <3>2 DEF AllSound
      <4>2. \A i \in all :
              /\ i.count = Cardinality(RowsOf(i))
              /\ DOMAIN i.hourly = {RowAt(n).ts \div HourTicks : n \in RowsOf(i)}
              /\ \A h \in DOMAIN i.hourly :
                   i.hourly[h] = Cardinality({n \in RowsOf(i) : RowAt(n).ts \div HourTicks = h})
        BY <2>3, <3>3 DEF Reports
      <4> QED  BY <4>1, <4>2 DEF CountedOnce, all
    <3>6. RecentAreNewest
      <4>1. \A i \in all :
              /\ Len(i.recent) = Min({i.count, MaxRecent})
              /\ \A k \in DOMAIN i.recent :
                   /\ Cardinality({n \in RowsOf(i) : RowAt(n).ts > i.recent[k]}) < k
                   /\ Cardinality({n \in RowsOf(i) : RowAt(n).ts >= i.recent[k]}) >= k
        BY <2>3, <3>3 DEF Reports
      <4> QED  BY <4>1 DEF RecentAreNewest, all
    <3>7. ReadVerdicts
      <4>1. ASSUME NEW n \in Asked, RowAt(n).kind = "read"
            PROVE  LET u == RowAt(n).udf
                       c == RowAt(n).comp
                       bytes == Max({bytesRead(RowAt(m)) : m \in ReadsOf(s, Asked, u, c)})
                       documents == Max({documentsRead(RowAt(m)) : m \in ReadsOf(s, Asked, u, c)})
                   IN  /\ Verdict(all, "bytesReadLimit", u, c) <=> bytes >= l.bytes
                       /\ Verdict(all, "bytesReadThreshold", u, c)
                            <=> bytes < l.bytes /\ bytes >= threshold(l, l.bytes)
                       /\ Verdict(all, "documentsReadLimit", u, c) <=> documents >= l.documents
                       /\ Verdict(all, "documentsReadThreshold", u, c)
                            <=> documents < l.documents /\ documents >= threshold(l, l.documents)
        <5> DEFINE u == s[n].udf
                   c == s[n].comp
                   bytes == Max({bytesRead(s[m]) : m \in ReadsOf(s, Asked, u, c)})
                   documents == Max({documentsRead(s[m]) : m \in ReadsOf(s, Asked, u, c)})
        <5>1. s[n].kind = "read"
          BY <2>3, <4>1
        <5>2. bytes \in Int /\ documents \in Int
          BY <2>1, <2>2, <5>1, PeakTyped
        <5>3. l.bytes \in Int /\ l.documents \in Int
          BY <2>1 DEF LimitSet
        <5>4. /\ \A k \in ByteKinds : Verdict(all, k, u, c)
                   <=> k \in Called(bytes, l.bytes, threshold(l, l.bytes),
                                    "bytesReadLimit", "bytesReadThreshold")
              /\ \A k \in DocumentKinds : Verdict(all, k, u, c)
                   <=> k \in Called(documents, l.documents, threshold(l, l.documents),
                                    "documentsReadLimit", "documentsReadThreshold")
          BY <3>2, <5>1 DEF AllSound, BytesCalled, DocumentsCalled
        <5> HIDE DEF bytes, documents, u, c
        <5>5. /\ Verdict(all, "bytesReadLimit", u, c) <=> bytes >= l.bytes
              /\ Verdict(all, "bytesReadThreshold", u, c)
                   <=> bytes < l.bytes /\ bytes >= threshold(l, l.bytes)
          BY <5>2, <5>3, <5>4 DEF Called, ByteKinds
        <5>6. /\ Verdict(all, "documentsReadLimit", u, c) <=> documents >= l.documents
              /\ Verdict(all, "documentsReadThreshold", u, c)
                   <=> documents < l.documents /\ documents >= threshold(l, l.documents)
          BY <5>2, <5>3, <5>4 DEF Called, DocumentKinds
        <5> QED  BY <2>3, <5>5, <5>6 DEF bytes, documents, u, c
      <4>2. \A u, c : ReadsOf(s, Asked, u, c)
                        = {n \in Asked : RowAt(n).kind = "read" /\ RowAt(n).udf = u /\ RowAt(n).comp = c}
        BY <2>3 DEF ReadsOf
      <4> QED
        BY <4>1, <4>2 DEF ReadVerdicts, Verdict, all, l
    <3> QED
      BY <1>1, <3>4, <3>5, <3>6, <3>7 DEF QueryInv
  <2> QED
    BY <2>6, <2>7
<1> QED
  BY <1>3, <1>4


\* The days of a query that is answered, and the day it is, are numbers.
LEMMA DaysTyped ==
  /\ Today \in Int /\ Today - 3 \in Int
  /\ \A x \in Dates : x # NoDate /\ x # BadDate => x \in Int
<1>1. Now \in Nat
  BY InsightsQueryAssumption
<1>2. HourTicks \in Nat \ {0}
  BY InsightsQueryAssumption
<1>3. Date \subseteq Int
  BY InsightsQueryAssumption
<1>4. Day \in Nat \ {0}
  BY <1>2 DEF Day
<1>5. Today \in Int /\ Today - 3 \in Int
  BY <1>1, <1>4 DEF Today
<1> QED
  BY <1>3, <1>5 DEF Dates

\* A post keeps the invariant: it is refused and changes nothing, or its rows are
\* typed, the newest of them fit, and the limits that came with them are in range.
LEMMA IngestKeeps ==
  ASSUME QueryIInv, NEW body, NEW d \in Names, NEW h \in Header, NEW l \in Limits,
         NEW es \in Seq(Event), handleUsageIngest(body, d, h, l, es)
  PROVE  QueryIInv'
<1>1. /\ stored \in [Registered -> Seq(RowSet)] /\ lastLimits \in [Registered -> LimitSet]
      /\ \A x \in Registered : /\ Len(stored[x]) <= MaxStored
                               /\ stored[x] # <<>> => valid(lastLimits[x]) /\ usageTokens[x] # ""
  BY DEF QueryIInv, RowsKept
<1>2. CASE UNCHANGED <<stored, lastLimits>> /\ \E st \in {400, 401, 413} : answer' = Failed(st)
  <2>1. PICK st \in {400, 401, 413} : answer' = [status |-> st]
    BY <1>2 DEF Failed
  <2>2. Answered(answer', stored, lastLimits)
    BY <2>1 DEF Answered
  <2> QED  BY <1>2, <2>2 DEF QueryIInv
<1>3. CASE /\ bearerOK(h, d) /\ valid(l)
           /\ stored' = [stored EXCEPT ![d] = Newest(stored[d] \o makeRows(es))]
           /\ lastLimits' = [lastLimits EXCEPT ![d] = l]
           /\ answer' = [status |-> 200, ingested |-> Len(makeRows(es))]
  <2>1. d \in Registered /\ usageTokens[d] # ""
    BY <1>3 DEF bearerOK
  <2>2. l \in LimitSet
    BY PostAssumption DEF LimitSet
  <2>3. stored[d] \o makeRows(es) \in Seq(RowSet)
    <3>1. stored[d] \in Seq(RowSet) /\ makeRows(es) \in Seq(RowSet)
      BY <1>1, <2>1, MakeRowsTyped
    <3> QED  BY <3>1
  <2> DEFINE posted == Newest(stored[d] \o makeRows(es))
  <2>4. posted \in Seq(RowSet) /\ Len(posted) <= MaxStored
    BY <2>3, NewestFits
  <2>5. Answered(answer', stored', lastLimits')
    BY <1>3 DEF Answered
  <2> HIDE DEF posted
  <2>6. stored' = [stored EXCEPT ![d] = posted]
    BY <1>3 DEF posted
  <2>7. stored' \in [Registered -> Seq(RowSet)] /\ lastLimits' \in [Registered -> LimitSet]
    BY <1>1, <1>3, <2>2, <2>4, <2>6
  <2>8. ASSUME NEW x \in Registered
        PROVE  /\ Len(stored'[x]) <= MaxStored
               /\ stored'[x] # <<>> => valid(lastLimits'[x]) /\ usageTokens[x] # ""
    <3>1. CASE x = d
      <4>1. stored'[x] = posted /\ lastLimits'[x] = l
        BY <1>1, <1>3, <2>6, <3>1
      <4> QED  BY <1>3, <2>1, <2>4, <3>1, <4>1
    <3>2. CASE x # d
      <4>1. stored'[x] = stored[x] /\ lastLimits'[x] = lastLimits[x]
        BY <1>1, <1>3, <2>6, <3>2
      <4> QED  BY <1>1, <4>1
    <3> QED  BY <3>1, <3>2
  <2>9. RowsKept(stored', lastLimits')
    BY <2>7, <2>8 DEF RowsKept
  <2> QED  BY <2>5, <2>9 DEF QueryIInv
<1>4. \/ UNCHANGED <<stored, lastLimits>> /\ \E st \in {400, 401, 413} : answer' = Failed(st)
      \/ /\ bearerOK(h, d) /\ valid(l)
         /\ stored' = [stored EXCEPT ![d] = Newest(stored[d] \o makeRows(es))]
         /\ lastLimits' = [lastLimits EXCEPT ![d] = l]
         /\ answer' = [status |-> 200, ingested |-> Len(makeRows(es))]
  <2>1. CASE UNCHANGED <<stored, lastLimits>>
    <3>1. \/ answer' = Failed(IF body = "large" THEN 413 ELSE 400)
          \/ answer' = Failed(401) \/ answer' = Failed(400)
          \/ /\ bearerOK(h, d) /\ valid(l)
             /\ stored' = [stored EXCEPT ![d] = Newest(stored[d] \o makeRows(es))]
             /\ lastLimits' = [lastLimits EXCEPT ![d] = l]
             /\ answer' = [status |-> 200, ingested |-> Len(makeRows(es))]
      BY Zenon DEF handleUsageIngest
    <3> QED  BY <2>1, <3>1
  <2>2. CASE ~UNCHANGED <<stored, lastLimits>>
    BY <2>2, Zenon DEF handleUsageIngest
  <2> QED  BY <2>1, <2>2
<1> QED
  BY <1>2, <1>3, <1>4

\* A query keeps it: what it answers is of the state it leaves alone.
LEMMA QueryKeeps ==
  ASSUME QueryIInv, NEW d \in Names, NEW h \in Header, NEW fromDate \in Dates, NEW toDate \in Dates,
         handleUsageQuery(d, h, fromDate, toDate)
  PROVE  QueryIInv'
<1> DEFINE from == IF fromDate = NoDate THEN Today - 3 ELSE fromDate
           to == IF toDate = NoDate THEN Today ELSE toDate
           insights == InsightsOf(stored[d], rowsIn(stored[d], from, to), lastLimits[d])
<1>1. UNCHANGED <<stored, lastLimits>>
  BY DEF handleUsageQuery
<1>2. \/ \E st \in {400, 401} : answer' = Failed(st)
      \/ /\ bearerOK(h, d) /\ from # BadDate /\ to # BadDate
         /\ answer' = [status |-> 200, deployment |-> d, from |-> from, to |-> to,
                       insights |-> insights]
  BY DEF handleUsageQuery, InsightsOf
<1>3. CASE \E st \in {400, 401} : answer' = Failed(st)
  <2>1. PICK st \in {400, 401} : answer' = [status |-> st]
    BY <1>3 DEF Failed
  <2>2. Answered(answer', stored, lastLimits)
    BY <2>1 DEF Answered
  <2> QED  BY <1>1, <2>2 DEF QueryIInv
<1>4. CASE /\ bearerOK(h, d) /\ from # BadDate /\ to # BadDate
           /\ answer' = [status |-> 200, deployment |-> d, from |-> from, to |-> to,
                         insights |-> insights]
  <2>1. d \in Registered /\ usageTokens[d] # ""
    BY <1>4 DEF bearerOK
  <2>2. from \in Int /\ to \in Int
    BY <1>4, DaysTyped
  <2> HIDE DEF from, to
  <2> HIDE DEF insights
  <2>3. /\ answer'.deployment = d /\ answer'.from = from /\ answer'.to = to
        /\ answer'.insights = insights /\ answer'.status = 200
    BY <1>4
  <2>4. Answered(answer', stored, lastLimits)
    BY <2>1, <2>2, <2>3 DEF Answered, insights
  <2> QED
    BY <1>1, <2>4 DEF QueryIInv
<1> QED
  BY <1>2, <1>3, <1>4

\* What a query answers is what the stored rows say, whatever was posted and asked.
THEOREM QueriesAreSound == QuerySpec => []QueryInv
<1>1. QueryInit => QueryIInv
  <2> SUFFICES ASSUME QueryInit  PROVE QueryIInv
    OBVIOUS
  <2> DEFINE none == [documents |-> 0, bytes |-> 0, num |-> 0, den |-> 1]
  <2>1. <<>> \in Seq(RowSet) /\ Len(<<>>) = 0 /\ none \in LimitSet
    BY DEF LimitSet
  <2>2. MaxStored \in Nat
    BY InsightsQueryAssumption
  <2>3. Answered(answer, stored, lastLimits)
    BY DEF QueryInit, Failed, Answered
  <2> HIDE DEF none
  <2>4. stored = [d \in Registered |-> << >>] /\ lastLimits = [d \in Registered |-> none]
    BY DEF QueryInit, none
  <2>5. RowsKept(stored, lastLimits)
    BY <2>1, <2>2, <2>4 DEF RowsKept
  <2> QED  BY <2>3, <2>5 DEF QueryIInv
<1>2. QueryIInv /\ [QueryNext]_queryVars => QueryIInv'
  <2> SUFFICES ASSUME QueryIInv, [QueryNext]_queryVars  PROVE QueryIInv'
    OBVIOUS
  <2>1. ASSUME NEW d \in Names, NEW h \in Header, NEW l \in Limits, NEW es \in EventLists,
               handleUsageIngest("good", d, h, l, es)
        PROVE  QueryIInv'
    <3>1. es \in Seq(Event)
      BY DEF EventLists
    <3> QED  BY <2>1, <3>1, IngestKeeps
  <2>2. ASSUME NEW d \in Names, NEW h \in Header, NEW l \in Limits,
               NEW body \in {"large", "malformed", "badEvents"},
               handleUsageIngest(body, d, h, l, <<>>)
        PROVE  QueryIInv'
    <3>1. <<>> \in Seq(Event)
      OBVIOUS
    <3> QED  BY <2>2, <3>1, IngestKeeps
  <2>3. ASSUME NEW d \in Names, NEW h \in Header, NEW from \in Dates, NEW to \in Dates,
               handleUsageQuery(d, h, from, to)
        PROVE  QueryIInv'
    BY <2>3, QueryKeeps
  <2>4. CASE UNCHANGED queryVars
    BY <2>4 DEF QueryIInv, queryVars
  <2> QED
    BY <2>1, <2>2, <2>3, <2>4 DEF QueryNext
<1>3. QueryIInv => QueryInv
  BY AnswersAreSound
<1> QED
  BY <1>1, <1>2, <1>3, PTL DEF QuerySpec

================================================================================
