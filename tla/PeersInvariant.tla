---------------------------- MODULE PeersInvariant ----------------------------
(***************************************************************************)
(* The invariant of the peers on one DefaultContext, for any number of     *)
(* peers and operations, and the lemmas about the loops and the tables of  *)
(* DefaultContext that it rests on.                                        *)
(***************************************************************************)
EXTENDS Peers, WellFoundedInduction, TLAPS

-----------------------------------------------------------------------------
(***************************************************************************)
(* What a loop over the indices 1..n of a table computes.  The models      *)
(* write such a loop as a recursive function of the index; the lemmas here *)
(* say that the function exists, and that what holds before the loop and   *)
(* is kept by each of its turns holds after it.  They are about sets and   *)
(* functions, not operators, so that the proofs can instantiate them.      *)
(***************************************************************************)
\* A non-empty set of indices has a first one.
LEMMA FirstIndex ==
    ASSUME NEW T, T \subseteq Nat, T # {}
    PROVE  \E x \in T : \A y \in T : x <= y
<1>1. PICK x \in T : \A y \in T : ~(<<y, x>> \in OpToRel(<, Nat))
  BY NatLessThanWellFounded, WFMin, Zenon
<1>2. ASSUME NEW y \in T PROVE ~(y < x)
  <2>1. x \in Nat /\ y \in Nat
    OBVIOUS
  <2>2. SUFFICES ASSUME y < x PROVE <<y, x>> \in OpToRel(<, Nat)
    BY <1>1, Zenon
  <2> QED
    BY <2>1, <2>2, Zenon DEF OpToRel
<1>3. \A y \in T : x <= y
  <2> SUFFICES ASSUME NEW y \in T PROVE x <= y
    OBVIOUS
  <2>1. x \in Nat /\ y \in Nat
    OBVIOUS
  <2> QED
    BY <1>2, <2>1
<1> QED
  BY <1>3

\* A set of indices that has 0 and, with an index below n, the next one, has all of
\* 0..n: the induction on the turns of a loop.
LEMMA CountingUp ==
    ASSUME NEW n \in Nat, NEW T, 0 \in T,
           \A i \in 0..n : i < n /\ i \in T => i + 1 \in T
    PROVE  \A i \in 0..n : i \in T
<1> DEFINE Out == {i \in 0..n : i \notin T}
<1>1. SUFFICES ASSUME Out # {} PROVE FALSE
  BY <1>1
<1>2. PICK x \in Out : \A y \in Out : x <= y
  <2>1. Out \subseteq Nat
    OBVIOUS
  <2> HIDE DEF Out
  <2> QED
    BY <1>1, <2>1, FirstIndex, Zenon
<1>3. x \in 0..n /\ x \notin T
  OBVIOUS
<1>4. x # 0
  BY <1>3
<1>5. x - 1 \in 0..n /\ x - 1 < n /\ x - 1 + 1 = x /\ ~(x <= x - 1)
  BY <1>3, <1>4
<1>6. x - 1 \in Out
  BY <1>3, <1>5
<1> QED
  BY <1>2, <1>5, <1>6

\* f holds what a loop computes that starts with base and does step[i] in turn i.
Computes(f, n, base, step) == f[0] = base /\ \A i \in 1..n : f[i] = step[i][f[i - 1]]

\* A loop whose turns stay in V computes something.
LEMMA LoopDefined ==
    ASSUME NEW n \in Nat, NEW V, NEW base \in V, NEW step \in [1..n -> [V -> V]]
    PROVE  \E f \in [0..n -> V] : Computes(f, n, base, step)
<1> DEFINE T == {k \in 0..n : \E f \in [0..k -> V] : Computes(f, k, base, step)}
<1>1. 0 \in T
  <2> DEFINE f == [i \in 0..0 |-> base]
  <2>1. f \in [0..0 -> V] /\ 0 \in 0..n
    OBVIOUS
  <2>2. Computes(f, 0, base, step)
    BY DEF Computes
  <2> HIDE DEF f
  <2> QED
    BY <2>1, <2>2
<1>2. \A k \in 0..n : k < n /\ k \in T => k + 1 \in T
  <2> SUFFICES ASSUME NEW k \in 0..n, k < n, k \in T PROVE k + 1 \in T
    OBVIOUS
  <2>1. PICK f \in [0..k -> V] : Computes(f, k, base, step)
    OBVIOUS
  <2> DEFINE g == [i \in 0..k + 1 |-> IF i <= k THEN f[i] ELSE step[k + 1][f[k]]]
  <2>2. k \in Nat /\ k + 1 \in 1..n /\ k \in 0..k /\ 0 \in 0..k + 1 /\ k + 1 \in 0..n
    OBVIOUS
  <2>3. step[k + 1][f[k]] \in V
    BY <2>2
  <2>4. g \in [0..k + 1 -> V]
    BY <2>2, <2>3
  <2>5. g[0] = base
    BY <2>1, <2>2 DEF Computes
  <2>6. ASSUME NEW i \in 1..k + 1 PROVE g[i] = step[i][g[i - 1]]
    <3>1. CASE i = k + 1
      BY <3>1, <2>2
    <3>2. CASE i <= k
      BY <3>2, <2>1, <2>2 DEF Computes
    <3> QED
      BY <3>1, <3>2, <2>2
  <2>7. Computes(g, k + 1, base, step)
    <3> HIDE DEF g
    <3> QED
      BY <2>5, <2>6 DEF Computes
  <2> HIDE DEF g
  <2> QED
    BY <2>2, <2>4, <2>7
<1>3. \A k \in 0..n : k \in T
  <2> HIDE DEF T
  <2> QED
    BY <1>1, <1>2, CountingUp
<1>4. n \in T
  BY <1>3
<1> QED
  BY <1>4

-----------------------------------------------------------------------------
(***************************************************************************)
(* The loops of DefaultContext.                                            *)
(***************************************************************************)
\* push_back() adds one element.
LEMMA Appended ==
    ASSUME NEW E, NEW S \in Seq(E), NEW e \in E
    PROVE  Append(S, e) \in Seq(E) /\ Range(Append(S, e)) = Range(S) \cup {e}
<1> DEFINE n == Len(S)
<1>1. n \in Nat /\ DOMAIN S = 1..n /\ DOMAIN Append(S, e) = 1..n + 1
  OBVIOUS
<1>2. Append(S, e)[n + 1] = e /\ \A i \in 1..n : Append(S, e)[i] = S[i]
  OBVIOUS
<1>3. 1..n + 1 = 1..n \cup {n + 1}
  BY <1>1
<1> HIDE DEF n
<1>4. Range(Append(S, e)) = Range(S) \cup {e}
  BY <1>1, <1>2, <1>3 DEF Range
<1> QED
  BY <1>4

\* std::erase_if() leaves the elements that are not erased, and nothing else.
LEMMA Erased ==
    ASSUME NEW E, NEW S \in Seq(E), NEW G
    PROVE  /\ EraseIf(S, G) \in Seq(E)
           /\ Range(EraseIf(S, G)) = Range(S) \ G
<1> DEFINE n == Len(S)
           Turn(i, v) == IF S[i] \in G THEN v ELSE Append(v, S[i])
           Body(h) == [i \in 0..n |-> IF i = 0 THEN <<>>
                                      ELSE IF S[i] \in G THEN h[i - 1] ELSE Append(h[i - 1], S[i])]
           K == CHOOSE h : h = Body(h)
<1>1. n \in Nat /\ DOMAIN S = 1..n /\ \A i \in 1..n : S[i] \in E
  OBVIOUS
<1>2. \A i \in 1..n, v \in Seq(E) : Turn(i, v) \in Seq(E)
  BY <1>1
<1>3. K = Body(K)
  <2> DEFINE step == [i \in 1..n |-> [v \in Seq(E) |-> Turn(i, v)]]
  <2>1. step \in [1..n -> [Seq(E) -> Seq(E)]] /\ <<>> \in Seq(E)
    <3> HIDE DEF Turn
    <3> QED
      BY <1>2
  <2>2. PICK f \in [0..n -> Seq(E)] : Computes(f, n, <<>>, step)
    <3> HIDE DEF step, n
    <3> QED
      BY <1>1, <2>1, LoopDefined, Zenon
  <2>3. ASSUME NEW i \in 0..n PROVE f[i] = Body(f)[i]
    <3>1. CASE i = 0
      BY <3>1, <2>2 DEF Computes
    <3>2. CASE i # 0
      <4>1. i \in 1..n /\ i - 1 \in 0..n
        BY <3>2, <1>1
      <4>2. f[i] = Turn(i, f[i - 1])
        <5> HIDE DEF Turn
        <5> QED
          BY <4>1, <2>2, Zenon DEF Computes
      <4> QED
        BY <4>1, <4>2, <3>2
    <3> QED
      BY <3>1, <3>2
  <2>4. f = Body(f)
    <3> HIDE DEF n
    <3> QED
      BY <2>3
  <2> QED
    BY <2>4, Zenon
<1>4. EraseIf(S, G) = K[n]
  BY DEF EraseIf
<1> HIDE DEF K
<1>5. K[0] = <<>> /\ \A i \in 0..n : i < n => K[i + 1] = Turn(i + 1, K[i])
  <2>1. 0 \in 0..n /\ K[0] = Body(K)[0]
    BY <1>1, <1>3
  <2>2. K[0] = <<>>
    BY <2>1
  <2>3. ASSUME NEW i \in 0..n, i < n PROVE K[i + 1] = Turn(i + 1, K[i])
    <3>1. i + 1 \in 0..n /\ i + 1 # 0 /\ i + 1 - 1 = i
      BY <1>1, <2>3
    <3>2. K[i + 1] = Body(K)[i + 1]
      <4> HIDE DEF Body
      <4> QED
        BY <1>3
    <3> QED
      BY <3>1, <3>2
  <2> QED
    BY <2>2, <2>3
<1> DEFINE T == {i \in 0..n : /\ K[i] \in Seq(E)
                              /\ Range(K[i]) = {S[j] : j \in 1..i} \ G}
<1>6. 0 \in T
  <2>1. Range(<<>>) = {} /\ {S[j] : j \in 1..0} = {}
    BY DEF Range
  <2>2. <<>> \in Seq(E) /\ 0 \in 0..n
    BY <1>1
  <2>3. Range(K[0]) = {S[j] : j \in 1..0} \ G
    BY <1>5, <2>1
  <2> QED
    BY <1>5, <2>2, <2>3, Zenon
<1>7. \A i \in 0..n : i < n /\ i \in T => i + 1 \in T
  <2> SUFFICES ASSUME NEW i \in 0..n, i < n, i \in T PROVE i + 1 \in T
    BY Zenon
  <2>1. i + 1 \in 1..n /\ i + 1 \in 0..n /\ 1..i + 1 = 1..i \cup {i + 1}
    BY <1>1
  <2>2. K[i] \in Seq(E) /\ S[i + 1] \in E
    BY <1>1, <2>1
  <2>3. K[i + 1] = Turn(i + 1, K[i])
    BY <1>5
  <2>4. {S[j] : j \in 1..i + 1} = {S[j] : j \in 1..i} \cup {S[i + 1]}
    BY <2>1
  <2>5. Range(Append(K[i], S[i + 1])) = Range(K[i]) \cup {S[i + 1]}
    BY <2>2, Appended
  <2>6. CASE S[i + 1] \in G
    BY <2>1, <2>2, <2>3, <2>4, <2>6
  <2>7. CASE S[i + 1] \notin G
    <3>1. K[i + 1] = Append(K[i], S[i + 1])
      BY <2>3, <2>7
    <3>2. Range(K[i]) = {S[j] : j \in 1..i} \ G
      OBVIOUS
    <3>3. Range(K[i + 1]) = {S[j] : j \in 1..i + 1} \ G
      BY <3>1, <3>2, <2>4, <2>5, <2>7
    <3>4. K[i + 1] \in Seq(E)
      BY <3>1, <2>2
    <3> QED
      BY <3>3, <3>4, <2>1
  <2> QED
    BY <2>6, <2>7
<1>8. n \in T
  <2>1. \A i \in 0..n : i \in T
    <3> HIDE DEF T, n
    <3> QED
      BY <1>1, <1>6, <1>7, CountingUp
  <2>2. n \in 0..n
    BY <1>1
  <2> QED
    BY <2>1, <2>2, Zenon
<1>9. {S[j] : j \in 1..n} = Range(S)
  BY <1>1 DEF Range
<1> QED
  BY <1>4, <1>8, <1>9

\* static_cast<int> keeps a number of milliseconds that fits.
LEMMA Fits ==
    ASSUME NEW n \in Nat, n < 2^(IntBits - 1)
    PROVE  ToInt(n) = n
<1> DEFINE H == 2^(IntBits - 1)
<1>1. H \in Nat \ {0} /\ 2^IntBits = 2 * H /\ n < H
  BY ContextBits
<1>2. ToInt(n) = LET m == n % (2 * H) IN IF m < H THEN m ELSE m - 2 * H
  BY <1>1 DEF ToInt
<1> HIDE DEF H
<1>3. n % (2 * H) = n
  BY <1>1
<1> QED
  BY <1>1, <1>2, <1>3

Clamp(n) == IF n > 0 THEN n ELSE 0

\* The times left of the timers at indices I of m_timers that are waited on.
Lefts(I) == {timer[m_timers[j]].left : j \in {k \in I : HasPending(m_timers[k])}}

\* ms is the time to the first of the times L, and Forever when there are none.
Earliest(ms, L) == IF L = {} THEN ms = Forever
                   ELSE \E n \in L : (\A m \in L : n <= m) /\ ms = Clamp(n)

\* One turn of compute_next_timeout_ms(): another timer is looked at.
LEMMA SoonerIsEarliest ==
    ASSUME NEW L \in SUBSET Int, NEW ms \in Int, NEW l \in Int, Earliest(ms, L)
    PROVE  Earliest(Sooner(ms, Clamp(l)), L \cup {l})
<1>1. CASE L = {}
  BY <1>1 DEF Earliest, Sooner, Clamp, Forever
<1>2. CASE L # {}
  <2>1. PICK n \in L : (\A m \in L : n <= m) /\ ms = Clamp(n)
    BY <1>2, Zenon DEF Earliest
  <2>2. n \in Int /\ L \cup {l} # {}
    OBVIOUS
  <2>3. CASE l < n
    <3>1. \A m \in L \cup {l} : l <= m
      BY <2>1, <2>2, <2>3
    <3>2. Sooner(ms, Clamp(l)) = Clamp(l)
      BY <2>1, <2>2, <2>3 DEF Sooner, Clamp
    <3> QED
      BY <2>2, <3>1, <3>2 DEF Earliest
  <2>4. CASE ~(l < n)
    <3>1. \A m \in L \cup {l} : n <= m
      BY <2>1, <2>2, <2>4
    <3>2. Sooner(ms, Clamp(l)) = Clamp(n)
      BY <2>1, <2>2, <2>4 DEF Sooner, Clamp
    <3> QED
      BY <2>2, <3>1, <3>2 DEF Earliest
  <2> QED
    BY <2>3, <2>4
<1> QED
  BY <1>1, <1>2

\* Every time left fits into an int.
TimesFit == \A t \in Timers : timer[t].left < 2^(IntBits - 1)

MinMsTurn(i, v) == IF HasPending(m_timers[i]) THEN Sooner(v, Millis(m_timers[i])) ELSE v

\* min_ms starts as Forever and each turn of compute_next_timeout_ms() updates it.
LEMMA MinMsTurns ==
    ASSUME m_timers \in Seq(Timers), timer \in [Timers -> TimerStates]
    PROVE  \E K \in [0..Len(m_timers) -> Int] :
             /\ K[0] = Forever /\ ComputeNextTimeout = K[Len(m_timers)]
             /\ \A i \in 0..Len(m_timers) : i < Len(m_timers) => K[i + 1] = MinMsTurn(i + 1, K[i])
<1> DEFINE n == Len(m_timers)
           Body(h) == [i \in 0..n |-> IF i = 0 THEN Forever
                         ELSE IF HasPending(m_timers[i])
                              THEN Sooner(h[i - 1], Millis(m_timers[i])) ELSE h[i - 1]]
           K == CHOOSE h : h = Body(h)
<1>1. n \in Nat /\ DOMAIN m_timers = 1..n /\ \A i \in 1..n : m_timers[i] \in Timers
  OBVIOUS
<1>2. \A i \in 1..n : Millis(m_timers[i]) \in Int
  <2> SUFFICES ASSUME NEW i \in 1..n PROVE Millis(m_timers[i]) \in Int
    OBVIOUS
  <2> DEFINE l == timer[m_timers[i]].left
             H == 2^(IntBits - 1)
  <2>1. l \in Int
    BY <1>1 DEF TimerStates
  <2>2. H \in Nat \ {0} /\ 2^IntBits = 2 * H
    BY ContextBits
  <2>3. Millis(m_timers[i]) = LET m == (IF l > 0 THEN l ELSE 0) % (2 * H)
                              IN  IF m < H THEN m ELSE m - 2 * H
    BY <2>2 DEF Millis, ToInt
  <2> HIDE DEF l, H
  <2> QED
    BY <2>1, <2>2, <2>3
<1>3. \A i \in 1..n, v \in Int : MinMsTurn(i, v) \in Int
  BY <1>2 DEF MinMsTurn, Sooner
<1>4. PICK f \in [0..n -> Int] : f = Body(f)
  <2> DEFINE step == [i \in 1..n |-> [v \in Int |-> MinMsTurn(i, v)]]
  <2>1. step \in [1..n -> [Int -> Int]] /\ Forever \in Int
    BY <1>3 DEF Forever
  <2>2. PICK f \in [0..n -> Int] : Computes(f, n, Forever, step)
    <3> HIDE DEF step, n
    <3> QED
      BY <1>1, <2>1, LoopDefined, Zenon
  <2>3. ASSUME NEW i \in 0..n PROVE f[i] = Body(f)[i]
    <3>1. CASE i = 0
      BY <3>1, <2>2 DEF Computes
    <3>2. CASE i # 0
      <4>1. i \in 1..n /\ i - 1 \in 0..n
        BY <3>2, <1>1
      <4>2. f[i] = MinMsTurn(i, f[i - 1])
        BY <4>1, <2>2, Zenon DEF Computes
      <4> QED
        BY <4>1, <4>2, <3>2 DEF MinMsTurn
    <3> QED
      BY <3>1, <3>2
  <2>4. f = Body(f)
    <3> HIDE DEF n
    <3> QED
      BY <2>3
  <2> QED
    BY <2>4
<1>5. K = Body(K)
  BY <1>4, Zenon
<1>6. ComputeNextTimeout = K[n]
  BY DEF ComputeNextTimeout
<1> HIDE DEF K
<1>7. K[0] = Forever
  <2>1. 0 \in 0..n /\ K[0] = Body(K)[0]
    BY <1>1, <1>5
  <2> QED
    BY <2>1
<1>8. ASSUME NEW i \in 0..n, i < n PROVE K[i + 1] = MinMsTurn(i + 1, K[i])
  <2>1. i + 1 \in 0..n /\ i + 1 # 0 /\ i + 1 - 1 = i
    BY <1>1, <1>8
  <2>2. K[i + 1] = Body(K)[i + 1]
    <3> HIDE DEF Body
    <3> QED
      BY <1>5
  <2> QED
    BY <2>1, <2>2 DEF MinMsTurn
<1>9. \A i \in 0..n : K[i] \in Int
  <2> DEFINE T == {i \in 0..n : K[i] \in Int}
  <2>1. 0 \in T
    BY <1>1, <1>7 DEF Forever
  <2>2. ASSUME NEW i \in 0..n, i < n, i \in T PROVE i + 1 \in T
    <3>1. i + 1 \in 1..n /\ i + 1 \in 0..n /\ K[i] \in Int
      BY <1>1, <2>2
    <3> QED
      BY <1>3, <1>8, <2>2, <3>1, Zenon
  <2> HIDE DEF T, n
  <2>3. \A i \in 0..n : i \in T
    BY <1>1, <2>1, <2>2, CountingUp, Zenon
  <2> QED
    BY <2>3 DEF T
<1>10. K \in [0..n -> Int]
  <2>1. DOMAIN K = 0..n /\ K = [i \in 0..n |-> K[i]]
    BY <1>5
  <2> HIDE DEF n
  <2> QED
    BY <1>9, <2>1
<1> QED
  BY <1>6, <1>7, <1>8, <1>10

\* compute_next_timeout_ms() returns an int.
LEMMA NextTimeoutTyped ==
    ASSUME m_timers \in Seq(Timers), timer \in [Timers -> TimerStates]
    PROVE  ComputeNextTimeout \in Int
<1>1. Len(m_timers) \in 0..Len(m_timers)
  OBVIOUS
<1> QED
  BY <1>1, MinMsTurns

\* It finds the first deadline of all registered timers.
LEMMA NextTimeoutIsEarliest ==
    ASSUME m_timers \in Seq(Timers), timer \in [Timers -> TimerStates], TimesFit
    PROVE  Earliest(ComputeNextTimeout, Lefts(DOMAIN m_timers))
<1> DEFINE n == Len(m_timers)
<1>1. n \in Nat /\ DOMAIN m_timers = 1..n /\ \A i \in 1..n : m_timers[i] \in Timers
  OBVIOUS
<1>2. ASSUME NEW i \in 1..n
      PROVE  /\ timer[m_timers[i]].left \in Int
             /\ Millis(m_timers[i]) = Clamp(timer[m_timers[i]].left)
  <2> DEFINE l == timer[m_timers[i]].left
             H == 2^(IntBits - 1)
  <2>1. l \in Int /\ l < H /\ H \in Nat \ {0}
    BY <1>1, ContextBits DEF TimesFit, TimerStates
  <2>2. Millis(m_timers[i]) = ToInt(Clamp(l))
    BY DEF Millis, Clamp
  <2>3. Clamp(l) \in Nat /\ Clamp(l) < H
    <3> HIDE DEF l, H
    <3> QED
      BY <2>1 DEF Clamp
  <2> HIDE DEF l
  <2>4. ToInt(Clamp(l)) = Clamp(l)
    BY <2>3, Fits
  <2> QED
    BY <2>1, <2>2, <2>4 DEF l
<1>3. PICK K \in [0..n -> Int] :
        /\ K[0] = Forever /\ ComputeNextTimeout = K[n]
        /\ \A i \in 0..n : i < n => K[i + 1] = MinMsTurn(i + 1, K[i])
  BY MinMsTurns
<1> DEFINE T == {i \in 0..n : Earliest(K[i], Lefts(1..i))}
<1>4. 0 \in T
  <2>1. Lefts(1..0) = {}
    BY DEF Lefts
  <2>2. 0 \in 0..n
    BY <1>1
  <2> QED
    BY <1>3, <2>1, <2>2 DEF Earliest, Forever
<1>5. ASSUME NEW i \in 0..n, i < n, i \in T PROVE i + 1 \in T
  <2> DEFINE l == timer[m_timers[i + 1]].left
  <2>1. i + 1 \in 1..n /\ i + 1 \in 0..n /\ 1..i + 1 = 1..i \cup {i + 1} /\ 1..i \subseteq 1..n
    BY <1>1, <1>5
  <2>2. K[i] \in Int /\ l \in Int /\ Lefts(1..i) \in SUBSET Int
    BY <1>2, <2>1 DEF Lefts
  <2>3. K[i + 1] = MinMsTurn(i + 1, K[i])
    BY <1>3, <1>5
  <2>4. Millis(m_timers[i + 1]) = Clamp(l)
    BY <1>2, <2>1
  <2>5. Earliest(K[i], Lefts(1..i))
    BY <1>5
  <2>6. CASE HasPending(m_timers[i + 1])
    <3>1. Lefts(1..i + 1) = Lefts(1..i) \cup {l}
      BY <2>1, <2>6 DEF Lefts
    <3>2. K[i + 1] = Sooner(K[i], Clamp(l))
      BY <2>3, <2>4, <2>6 DEF MinMsTurn
    <3> HIDE DEF l
    <3>3. Earliest(K[i + 1], Lefts(1..i + 1))
      BY <2>2, <2>5, <3>1, <3>2, SoonerIsEarliest
    <3> QED
      BY <2>1, <3>3
  <2>7. CASE ~HasPending(m_timers[i + 1])
    <3>1. Lefts(1..i + 1) = Lefts(1..i)
      BY <2>1, <2>7 DEF Lefts
    <3>2. K[i + 1] = K[i]
      BY <2>3, <2>7 DEF MinMsTurn
    <3> QED
      BY <2>1, <2>5, <3>1, <3>2
  <2> QED
    BY <2>6, <2>7
<1>6. n \in T
  <2>1. \A i \in 0..n : i \in T
    <3> HIDE DEF T, n
    <3> QED
      BY <1>1, <1>4, <1>5, CountingUp, Zenon
  <2>2. n \in 0..n
    BY <1>1
  <2> QED
    BY <2>1, <2>2
<1> QED
  BY <1>1, <1>3, <1>6

-----------------------------------------------------------------------------
(***************************************************************************)
(* The tables.                                                             *)
(***************************************************************************)
\* A timer and an operation know their peer; an operation is not the absence of one.
LEMMA Names ==
    /\ \A p \in Peers : Recv(p) \in Timers /\ Delay(p) \in Timers
    /\ \A p \in Peers : Owner(Recv(p)) = p /\ Owner(Delay(p)) = p /\ Recv(p) # Delay(p)
    /\ \A p, q \in Peers : p # q => Recv(p) # Recv(q) /\ Delay(p) # Delay(q)
    /\ \A t \in Timers : Owner(t) \in Peers /\ (t = Recv(Owner(t)) \/ t = Delay(Owner(t)))
    /\ \A t \in Timers : (t[2] = "recv" => t = Recv(Owner(t))) /\ (t[2] = "delay" => t = Delay(Owner(t)))
    /\ \A o \in Operations : Peer(o) \in Peers /\ o \in Of(Peer(o)) /\ o # NoWait
BY DEF Timers, Owner, Recv, Delay, Operations, Peer, Of, NoWait

\* An element of a sequence's range.
LEMMA InRange ==
    ASSUME NEW E, NEW S \in Seq(E)
    PROVE  /\ \A e \in Range(S) : e \in E /\ \E i \in DOMAIN S : e = S[i]
           /\ \A i \in DOMAIN S : S[i] \in Range(S)
BY DEF Range

\* register_timer() adds a timer once.
LEMMA TimerRegistered ==
    ASSUME NEW T \in Seq(Timers), NEW t \in Timers
    PROVE  RegisterTimer(T, t) \in Seq(Timers) /\ Range(RegisterTimer(T, t)) = Range(T) \cup {t}
BY Appended DEF RegisterTimer

\* deregister_timer() removes it.
LEMMA TimerDeregistered ==
    ASSUME NEW T \in Seq(Timers), NEW t \in Timers
    PROVE  DeregisterTimer(T, t) \in Seq(Timers) /\ Range(DeregisterTimer(T, t)) = Range(T) \ {t}
BY Erased DEF DeregisterTimer

\* register_socket() adds an entry for this peer or gives it an existing one.
LEMMA SocketRegistered ==
    ASSUME NEW S \in Seq(SocketEntries), NEW fd \in Peers \cup {Closed}, NEW p \in Peers
    PROVE  /\ RegisterSocket(S, fd, p) \in Seq(SocketEntries)
           /\ \A e \in Range(RegisterSocket(S, fd, p)) : e \in Range(S) \/ e.owner = p
<1> DEFINE same == {i \in DOMAIN S : S[i].fd = fd}
           k == CHOOSE i \in same : \A j \in same : i <= j
           new == [fd |-> fd, owner |-> p]
           taken == [S EXCEPT ![k].owner = p]
<1>1. CASE same = {}
  <2>1. RegisterSocket(S, fd, p) = Append(S, new)
    BY <1>1 DEF RegisterSocket
  <2>2. new \in SocketEntries /\ new.owner = p
    BY DEF SocketEntries
  <2> HIDE DEF new
  <2>3. Append(S, new) \in Seq(SocketEntries) /\ Range(Append(S, new)) = Range(S) \cup {new}
    BY <2>2, Appended
  <2> QED
    BY <2>1, <2>2, <2>3
<1>2. CASE same # {}
  <2>1. RegisterSocket(S, fd, p) = taken
    BY <1>2 DEF RegisterSocket
  <2> HIDE DEF k
  <2>2. Len(S) \in Nat /\ DOMAIN S = 1..Len(S) /\ \A i \in DOMAIN S : S[i] \in SocketEntries
    OBVIOUS
  <2>3. \A e \in SocketEntries : [e EXCEPT !.owner = p] \in SocketEntries /\ [e EXCEPT !.owner = p].owner = p
    BY DEF SocketEntries
  <2>4. \A i \in DOMAIN S : taken[i] = IF i = k THEN [S[i] EXCEPT !.owner = p] ELSE S[i]
    BY <2>2
  <2>5. DOMAIN taken = DOMAIN S
    OBVIOUS
  <2>6. \A i \in DOMAIN S : taken[i] \in SocketEntries /\ (taken[i] = S[i] \/ taken[i].owner = p)
    BY <2>2, <2>3, <2>4
  <2>7. taken \in [1..Len(S) -> SocketEntries]
    BY <2>2, <2>5, <2>6, Zenon
  <2> HIDE DEF taken
  <2>8. taken \in Seq(SocketEntries)
    BY <2>2, <2>7
  <2> QED
    BY <2>1, <2>5, <2>6, <2>8 DEF Range
<1> QED
  BY <1>1, <1>2

\* deregister_socket() removes the entries with the descriptor.
LEMMA SocketDeregistered ==
    ASSUME NEW S \in Seq(SocketEntries), NEW fd
    PROVE  /\ DeregisterSocket(S, fd) \in Seq(SocketEntries)
           /\ Range(DeregisterSocket(S, fd)) = {e \in Range(S) : e.fd # fd}
<1> DEFINE G == {e \in Range(S) : e.fd = fd}
<1>1. Range(S) \ G = {e \in Range(S) : e.fd # fd}
  OBVIOUS
<1>2. DeregisterSocket(S, fd) = EraseIf(S, G)
  BY DEF DeregisterSocket
<1> HIDE DEF G
<1> QED
  BY <1>1, <1>2, Erased

\* What the tables hold, and what the operations are.
SocketsTyped == m_sockets \in Seq(SocketEntries) /\ open \in [Peers -> BOOLEAN]
TimersTyped ==
    /\ m_timers \in Seq(Timers) /\ timer \in [Timers -> TimerStates]
    /\ \A t \in Timers : timer[t].left >= -Lateness /\ (HasPending(t) => t \in Range(m_timers))
OpsTyped ==
    /\ loop \in [Operations -> {"none", "running", "stopped"}]
    /\ receiver \in [Peers -> Operations \cup {NoWait}]
    /\ handler \in [Operations -> BOOLEAN] /\ calls \in [Operations -> Nat]
UsersTyped ==
    /\ m_work_queue \in Seq(Peers) /\ local \in Seq(Peers) /\ arrived \in 0..MaxPackets
    /\ m_stopped \in [Peers -> BOOLEAN] /\ alive \in [Peers -> BOOLEAN]
    /\ mode \in [Peers -> {"multicast", "unicast"}] /\ calling \in Peers \cup {Nobody}
    /\ m_query_sent \in [Peers -> BOOLEAN] /\ m_duplicate_seen \in [Peers -> BOOLEAN]
PollTyped ==
    /\ firing \in Seq(Timers)
    /\ phase \in {"top", "blocked", "wakeup", "work", "dispatch", "timers"}
    /\ m_pollfds \in Seq(PollFds) /\ at \in 0..Len(m_pollfds) + 1
    /\ timeout \in Nat \cup {Forever} /\ inbox \in [Peers -> Seq(Packets)] /\ fault \in BOOLEAN

\* The type invariant is the conjunction of these parts.
LEMMA TypeParts ==
    TypeOK <=> SocketsTyped /\ TimersTyped /\ OpsTyped /\ UsersTyped /\ PollTyped
BY DEF TypeOK, SocketsTyped, TimersTyped, OpsTyped, UsersTyped, PollTyped

\* Cancelling timers takes them out of m_timers and drops their handlers.
LEMMA Cancelled ==
    ASSUME TimersTyped, NEW C, Cancel(C)
    PROVE  /\ m_timers' \in Seq(Timers) /\ Range(m_timers') = Range(m_timers) \ C
           /\ timer' \in [Timers -> TimerStates]
           /\ \A t \in Timers : timer'[t] = IF t \in C THEN Off ELSE timer[t]
<1>1. m_timers \in Seq(Timers) /\ timer \in [Timers -> TimerStates]
  BY DEF TimersTyped
<1>2. Off \in TimerStates
  BY DEF Off, TimerStates
<1>3. m_timers' = EraseIf(m_timers, C) /\ timer' = Set(timer, C, Off)
  BY DEF Cancel
<1>4. m_timers' \in Seq(Timers) /\ Range(m_timers') = Range(m_timers) \ C
  BY <1>1, <1>3, Erased
<1>5. /\ timer' \in [Timers -> TimerStates]
      /\ \A t \in Timers : timer'[t] = IF t \in C THEN Off ELSE timer[t]
  BY <1>1, <1>2, <1>3 DEF Set
<1> QED
  BY <1>4, <1>5

\* Closing a socket takes its entries out of m_sockets, and no other.
LEMMA SocketClosed ==
    ASSUME SocketsTyped, NEW p \in Peers, Close(p)
    PROVE  /\ m_sockets' \in Seq(SocketEntries) /\ open' = [open EXCEPT ![p] = FALSE]
           /\ Range(m_sockets') \subseteq Range(m_sockets)
           /\ open[p] => \A e \in Range(m_sockets') : e.fd # p
           /\ \A e \in Range(m_sockets) : e.fd # p => e \in Range(m_sockets')
<1>1. m_sockets \in Seq(SocketEntries) /\ open' = [open EXCEPT ![p] = FALSE]
  BY DEF SocketsTyped, Close
<1>2. CASE open[p]
  <2>1. m_sockets' = DeregisterSocket(m_sockets, p)
    BY <1>2 DEF Close
  <2>2. /\ m_sockets' \in Seq(SocketEntries)
        /\ Range(m_sockets') = {e \in Range(m_sockets) : e.fd # p}
    BY <1>1, <2>1, SocketDeregistered
  <2> QED
    BY <1>1, <2>2
<1>3. CASE ~open[p]
  <2>1. m_sockets' = m_sockets
    BY <1>3 DEF Close
  <2> QED
    BY <1>1, <1>3, <2>1
<1> QED
  BY <1>2, <1>3

\* The timers that go when the loops S of peer p are stopped.
Stopping(S, p, C) == IF S = {} THEN C ELSE C \cup {Recv(p)}

\* recv_loop::stop(), for the loops S of peer p.
LEMMA LoopsStopped ==
    ASSUME SocketsTyped, TimersTyped, OpsTyped, NEW p \in Peers, NEW S, NEW C, LoopStop(S, p, C)
    PROVE  /\ loop' \in [Operations -> {"none", "running", "stopped"}]
           /\ \A o \in Operations : loop'[o] = IF o \in S THEN "stopped" ELSE loop[o]
           /\ m_timers' \in Seq(Timers) /\ Range(m_timers') = Range(m_timers) \ Stopping(S, p, C)
           /\ timer' \in [Timers -> TimerStates]
           /\ \A t \in Timers : timer'[t] = IF t \in Stopping(S, p, C) THEN Off ELSE timer[t]
           /\ S = {} => UNCHANGED <<m_sockets, open>>
           /\ S # {} => Close(p)
<1>1. loop \in [Operations -> {"none", "running", "stopped"}] /\ loop' = Set(loop, S, "stopped")
  BY DEF OpsTyped, LoopStop
<1>2. "stopped" \in {"none", "running", "stopped"}
  OBVIOUS
<1>3. /\ loop' \in [Operations -> {"none", "running", "stopped"}]
      /\ \A o \in Operations : loop'[o] = IF o \in S THEN "stopped" ELSE loop[o]
  BY <1>1, <1>2 DEF Set
<1>4. Cancel(Stopping(S, p, C))
  BY DEF LoopStop, Stopping
<1>5. (S = {} => UNCHANGED <<m_sockets, open>>) /\ (S # {} => Close(p))
  BY DEF LoopStop
<1> QED
  BY <1>3, <1>4, <1>5, Cancelled

\* The loops S end, and the waits on the timers in T.
LoopsEnd(S) == /\ loop' \in [Operations -> {"none", "running", "stopped"}]
               /\ \A o \in Operations : loop'[o] = IF o \in S THEN "stopped" ELSE loop[o]
WaitsEnd(T) == \A t \in Timers : timer'[t] = IF t \in T THEN Off ELSE timer[t]

\* The parts of recv_loop::stop() about the loops and about the waits.
LEMMA StopEffect ==
    ASSUME SocketsTyped, TimersTyped, OpsTyped, NEW p \in Peers, NEW S, NEW C, LoopStop(S, p, C)
    PROVE  LoopsEnd(S) /\ WaitsEnd(Stopping(S, p, C))
<1>1. /\ loop' \in [Operations -> {"none", "running", "stopped"}]
      /\ \A o \in Operations : loop'[o] = IF o \in S THEN "stopped" ELSE loop[o]
  BY LoopsStopped
<1>2. \A t \in Timers : timer'[t] = IF t \in Stopping(S, p, C) THEN Off ELSE timer[t]
  BY LoopsStopped
<1> QED
  BY <1>1, <1>2 DEF LoopsEnd, WaitsEnd

\* std::exchange() of the completion handlers of S.
LEMMA Completed ==
    ASSUME OpsTyped, NEW S, Complete(S)
    PROVE  /\ calls' \in [Operations -> Nat] /\ handler' \in [Operations -> BOOLEAN]
           /\ \A o \in Operations : calls'[o] = IF o \in S /\ handler[o] THEN calls[o] + 1 ELSE calls[o]
           /\ \A o \in Operations : handler'[o] = (handler[o] /\ o \notin S)
<1>1. handler \in [Operations -> BOOLEAN] /\ calls \in [Operations -> Nat]
  BY DEF OpsTyped
<1>2. /\ calls' = [o \in Operations |-> IF o \in S /\ handler[o] THEN calls[o] + 1 ELSE calls[o]]
      /\ handler' = Set(handler, S, FALSE)
  BY DEF Complete
<1>3. /\ handler' \in [Operations -> BOOLEAN]
      /\ \A o \in Operations : handler'[o] = IF o \in S THEN FALSE ELSE handler[o]
  BY <1>1, <1>2, Zenon DEF Set
<1>4. calls' \in [Operations -> Nat]
  BY <1>1, <1>2
<1>5. \A o \in Operations : handler'[o] = (handler[o] /\ o \notin S)
  BY <1>1, <1>3, Zenon
<1> QED
  BY <1>2, <1>3, <1>4, <1>5, Zenon

-----------------------------------------------------------------------------
(***************************************************************************)
(* What each step does to the tables and to the operations.                *)
(***************************************************************************)
\* Who receives: an entry's handler was armed by an operation of its peer.
Listening == \A e \in Range(m_sockets) : receiver[e.owner] \in Of(e.owner)

Starting == \E o \in Wanted, m \in Modes, d \in Delays : StartOperation(o, m, d)

Destroys == \E p \in Peers : Destroy(p) /\ UNCHANGED <<phase, pollVars, inbox, fault>> /\ phase \in {"work"} \cup HandlersIn

Receiving == \E p \in Peers : ReceivePacket(p)

\* Most steps leave the tables and the operations alone.
LEMMA TableSteps ==
    ASSUME Next
    PROVE  \/ UNCHANGED <<tables, ops, query, alive>>
           \/ Starting \/ RunTeardown \/ Destroys \/ Receiving
           \/ SilenceFires \/ DelayFires \/ Elapse
<1>1. CASE Polls
  BY <1>1 DEF Polls, PollReturns
<1>2. CASE Iterate
  BY <1>2 DEF Iterate, DoPoll, Interrupted, SkipReceive, StartFiring, EndIteration
<1>3. CASE LoopStep
  <2>1. CASE DrainWorkQueue
    BY <2>1 DEF DrainWorkQueue
  <2>2. CASE WorkDone
    BY <2>2 DEF WorkDone
  <2>3. CASE HandlerReturns
    BY <2>3 DEF HandlerReturns
  <2>4. CASE SkipTimer
    BY <2>4 DEF SkipTimer
  <2> QED
    BY <1>3, <2>1, <2>2, <2>3, <2>4 DEF LoopStep, Receiving
<1>4. CASE Application
  <2>1. ASSUME NEW p \in Peers, AppDestroys(p) PROVE Destroys
    BY <2>1 DEF AppDestroys, Working, Destroys
  <2>2. ASSUME NEW p \in Peers, HandlerDestroys(p) PROVE Destroys
    BY <2>2 DEF HandlerDestroys, Destroys
  <2>3. ASSUME NEW p \in Peers, Stop(p) PROVE UNCHANGED <<tables, ops, query, alive>>
    BY <2>3 DEF Stop
  <2> QED
    BY <1>4, <2>1, <2>2, <2>3 DEF Application, Starting
<1>5. CASE Arrives
  BY <1>5 DEF Arrives, Arrive
<1> QED
  BY <1>1, <1>2, <1>3, <1>4, <1>5 DEF Next

\* The state of a timer that operation o waits on.
Wait(o, left) == [wait |-> o, left |-> left]

\* Starting an operation: its handler, its receiver, its timers.
LEMMA Started ==
    ASSUME SocketsTyped, TimersTyped, OpsTyped,
           NEW o \in Operations, NEW m, NEW d \in Delays, StartOperation(o, m, d)
    PROVE  /\ open' = open /\ calls' = calls /\ alive' = alive /\ alive[Peer(o)] /\ loop[o] = "none"
           /\ m_sockets' = RegisterSocket(m_sockets, Fd(Peer(o)), Peer(o))
           /\ m_timers' \in Seq(Timers)
           /\ Range(m_timers') = Range(m_timers) \cup {Recv(Peer(o))}
                                   \cup (IF Delayed(o, m) THEN {Delay(Peer(o))} ELSE {})
           /\ timer' \in [Timers -> TimerStates]
           /\ \A t \in Timers : timer'[t] = IF t = Recv(Peer(o)) THEN Wait(o, SilenceOf(o))
                                            ELSE IF Delayed(o, m) /\ t = Delay(Peer(o)) THEN Wait(o, d)
                                            ELSE timer[t]
           /\ loop' = [loop EXCEPT ![o] = "running"]
           /\ receiver' = [receiver EXCEPT ![Peer(o)] = o]
           /\ handler' = [handler EXCEPT ![o] = TRUE]
<1> DEFINE p == Peer(o)
           silence == RegisterTimer(m_timers, Recv(p))
           armed == ArmSilenceTimer(timer, o)
<1>1. /\ open' = open /\ calls' = calls /\ alive' = alive /\ alive[p] /\ loop[o] = "none"
      /\ m_sockets' = RegisterSocket(m_sockets, Fd(p), p)
      /\ loop' = [loop EXCEPT ![o] = "running"]
      /\ receiver' = [receiver EXCEPT ![p] = o]
      /\ handler' = [handler EXCEPT ![o] = TRUE]
  BY DEF StartOperation, StartLoop
<1>2. IF Delayed(o, m)
      THEN /\ m_timers' = RegisterTimer(silence, Delay(p))
           /\ timer' = [armed EXCEPT ![Delay(p)] = Wait(o, d)]
      ELSE m_timers' = silence /\ timer' = armed
  BY DEF StartOperation, Wait
<1>3. p \in Peers /\ Recv(p) \in Timers /\ Delay(p) \in Timers /\ Recv(p) # Delay(p)
  BY Names
<1>4. SilenceOf(o) \in Int /\ d \in Int
  BY PeerTimes DEF SilenceOf
<1>5. Wait(o, SilenceOf(o)) \in TimerStates /\ Wait(o, d) \in TimerStates
  BY <1>4 DEF Wait, TimerStates
<1>6. m_timers \in Seq(Timers) /\ timer \in [Timers -> TimerStates]
  BY DEF TimersTyped
<1>7. armed = [timer EXCEPT ![Recv(p)] = Wait(o, SilenceOf(o))]
  BY DEF ArmSilenceTimer, Wait
<1> HIDE DEF p
<1>8. silence \in Seq(Timers) /\ Range(silence) = Range(m_timers) \cup {Recv(p)}
  BY <1>3, <1>6, TimerRegistered
<1>9. CASE Delayed(o, m)
  <2> HIDE DEF silence, armed
  <2>1. m_timers' \in Seq(Timers) /\ Range(m_timers') = Range(silence) \cup {Delay(p)}
    BY <1>2, <1>3, <1>8, <1>9, TimerRegistered, Zenon
  <2>2. timer' = [armed EXCEPT ![Delay(p)] = Wait(o, d)]
    BY <1>2, <1>9
  <2>3. /\ timer' \in [Timers -> TimerStates]
        /\ \A t \in Timers : timer'[t] = IF t = Recv(p) THEN Wait(o, SilenceOf(o))
                                         ELSE IF t = Delay(p) THEN Wait(o, d) ELSE timer[t]
    BY <1>3, <1>5, <1>6, <1>7, <2>2
  <2> QED
    BY <1>1, <1>8, <1>9, <2>1, <2>3 DEF p
<1>10. CASE ~Delayed(o, m)
  <2> HIDE DEF silence, armed
  <2>1. m_timers' = silence /\ timer' = armed
    BY <1>2, <1>10
  <2>2. /\ timer' \in [Timers -> TimerStates]
        /\ \A t \in Timers : timer'[t] = IF t = Recv(p) THEN Wait(o, SilenceOf(o)) ELSE timer[t]
    BY <1>3, <1>5, <1>6, <1>7, <2>1
  <2> QED
    BY <1>1, <1>8, <1>10, <2>1, <2>2 DEF p
<1> QED
  BY <1>9, <1>10, Zenon

\* What the handler of arm_receive() does with the packet: give up the own query, and
\* put off the silence.
Heard(p) == loop[receiver[p]] = "running" /\ TtlAccepted(Head(inbox[p]))
Suppressed(p) == Heard(p) /\ receiver[p][2] = "query" /\ ~m_stopped[p] /\ IsDuplicate(p, Head(inbox[p]))
Rearmed(p) == Heard(p) /\ IsRelevant(receiver[p], Head(inbox[p]))

\* A packet, handed to the handler that its peer armed last.
LEMMA Received ==
    ASSUME SocketsTyped, TimersTyped, OpsTyped,
           NEW p \in Peers, receiver[p] \in Of(p), ReceivePacket(p)
    PROVE  /\ open' = open /\ UNCHANGED ops /\ alive' = alive
           /\ m_sockets' = IF loop[receiver[p]] = "running" THEN RegisterSocket(m_sockets, Fd(p), p)
                           ELSE m_sockets
           /\ m_timers' \in Seq(Timers)
           /\ Range(m_timers') = (Range(m_timers) \ (IF Suppressed(p) THEN {Delay(p)} ELSE {}))
                                   \cup (IF Rearmed(p) THEN {Recv(p)} ELSE {})
           /\ timer' \in [Timers -> TimerStates]
           /\ \A t \in Timers :
                timer'[t] = IF Rearmed(p) /\ t = Recv(p) THEN Wait(receiver[p], SilenceOf(receiver[p]))
                            ELSE IF Suppressed(p) /\ t = Delay(p) THEN Off ELSE timer[t]
<1> DEFINE o == receiver[p]
           kept == IF Suppressed(p) THEN DeregisterTimer(m_timers, Delay(p)) ELSE m_timers
           cancelled == IF Suppressed(p) THEN [timer EXCEPT ![Delay(p)] = Off] ELSE timer
<1>1. /\ open' = open /\ UNCHANGED ops /\ alive' = alive
      /\ m_sockets' = IF loop[o] = "running" THEN RegisterSocket(m_sockets, Fd(p), p) ELSE m_sockets
  BY Zenon DEF ReceivePacket
<1>2. /\ timer' = IF Rearmed(p) THEN ArmSilenceTimer(cancelled, o) ELSE cancelled
      /\ m_timers' = IF Rearmed(p) THEN RegisterTimer(kept, Recv(p)) ELSE kept
  BY Zenon DEF ReceivePacket, Suppressed, Rearmed, Heard
<1>3. o \in Operations /\ Peer(o) = p
  BY DEF Of
<1>4. Recv(p) \in Timers /\ Delay(p) \in Timers /\ Recv(p) # Delay(p)
  BY Names
<1>5. SilenceOf(o) \in Int
  BY PeerTimes DEF SilenceOf
<1>6. Wait(o, SilenceOf(o)) \in TimerStates /\ Off \in TimerStates
  BY <1>3, <1>5 DEF Wait, TimerStates, Off
<1>7. m_timers \in Seq(Timers) /\ timer \in [Timers -> TimerStates]
  BY DEF TimersTyped
<1>8. ArmSilenceTimer(cancelled, o) = [cancelled EXCEPT ![Recv(p)] = Wait(o, SilenceOf(o))]
  BY <1>3 DEF ArmSilenceTimer, Wait
<1> HIDE DEF o
<1>9. /\ kept \in Seq(Timers)
      /\ Range(kept) = Range(m_timers) \ (IF Suppressed(p) THEN {Delay(p)} ELSE {})
  <2>1. CASE Suppressed(p)
    BY <1>4, <1>7, <2>1, TimerDeregistered
  <2>2. CASE ~Suppressed(p)
    BY <1>7, <2>2
  <2> QED
    BY <2>1, <2>2
<1>10. /\ cancelled \in [Timers -> TimerStates]
       /\ \A t \in Timers : cancelled[t] = IF Suppressed(p) /\ t = Delay(p) THEN Off ELSE timer[t]
  BY <1>4, <1>6, <1>7
<1> HIDE DEF kept, cancelled
<1>11. /\ m_timers' \in Seq(Timers)
       /\ Range(m_timers') = Range(kept) \cup (IF Rearmed(p) THEN {Recv(p)} ELSE {})
  <2>1. CASE Rearmed(p)
    BY <1>2, <1>4, <1>9, <2>1, TimerRegistered, Zenon
  <2>2. CASE ~Rearmed(p)
    BY <1>2, <1>9, <2>2
  <2> QED
    BY <2>1, <2>2
<1>12. /\ timer' \in [Timers -> TimerStates]
       /\ \A t \in Timers : timer'[t] = IF Rearmed(p) /\ t = Recv(p) THEN Wait(o, SilenceOf(o))
                                        ELSE cancelled[t]
  BY <1>2, <1>4, <1>6, <1>8, <1>10
<1> QED
  BY <1>1, <1>9, <1>10, <1>11, <1>12, Zenon DEF o

\* The next element of a queue, and the rest of it.
LEMMA HeadAndTail ==
    ASSUME NEW E, NEW S \in Seq(E), S # <<>>
    PROVE  /\ Head(S) \in E /\ Head(S) \in Range(S)
           /\ Tail(S) \in Seq(E) /\ Range(Tail(S)) \subseteq Range(S)
<1>1. Len(S) \in Nat \ {0} /\ DOMAIN S = 1..Len(S) /\ Head(S) = S[1] /\ 1 \in 1..Len(S)
  OBVIOUS
<1>2. Head(S) \in E /\ Head(S) \in Range(S)
  BY <1>1 DEF Range
<1>3. Tail(S) \in Seq(E) /\ DOMAIN Tail(S) = 1..Len(S) - 1
  BY <1>1
<1>4. \A i \in 1..Len(S) - 1 : Tail(S)[i] = S[i + 1] /\ i + 1 \in 1..Len(S)
  BY <1>1
<1> QED
  BY <1>1, <1>2, <1>3, <1>4 DEF Range

\* A silence timer that fires ends its operation, unless it is an observer's.
LEMMA SilenceFired ==
    ASSUME TimersTyped, PollTyped, SilenceFires
    PROVE  \E t \in Timers, o \in Operations :
             /\ t \in Range(firing) /\ timer[t].wait = o /\ timer[t].left <= 0
             /\ t = Recv(Owner(t)) /\ receiver' = receiver /\ alive' = alive
             /\ \/ /\ o[2] = "observe" /\ timer' = [timer EXCEPT ![t] = Off]
                   /\ UNCHANGED <<m_sockets, m_timers, open, loop, handler, calls>>
                \/ /\ o[2] # "observe" /\ LoopStop({o}, Peer(o), {t}) /\ Complete({o})
<1> DEFINE t == Head(firing)
           o == timer[t].wait
<1>1. firing \in Seq(Timers) /\ firing # <<>> /\ Due(t) /\ t[2] = "recv"
  BY DEF PollTyped, SilenceFires, FiresNext
<1>2. t \in Timers /\ t \in Range(firing)
  BY <1>1, HeadAndTail
<1>3. o # NoWait /\ timer[t].left <= 0
  BY <1>1 DEF Due, HasPending
<1>4. timer[t] \in TimerStates
  BY <1>2 DEF TimersTyped
<1>5. o \in Operations
  BY <1>3, <1>4 DEF TimerStates
<1>6. t = Recv(Owner(t))
  BY <1>1, <1>2, Names
<1>7. receiver' = receiver /\ alive' = alive
  BY Zenon DEF SilenceFires
<1>8. \/ /\ o[2] = "observe" /\ timer' = [timer EXCEPT ![t] = Off]
         /\ UNCHANGED <<m_sockets, m_timers, open, loop, handler, calls>>
      \/ /\ o[2] # "observe" /\ LoopStop({o}, Peer(o), {t}) /\ Complete({o})
  BY DEF SilenceFires
<1> HIDE DEF t, o
<1> QED
  BY <1>2, <1>3, <1>5, <1>6, <1>7, <1>8, Zenon DEF o

\* A delayed query's timer fires once.
LEMMA DelayFired ==
    ASSUME TimersTyped, PollTyped, DelayFires
    PROVE  \E p \in Peers :
             /\ Delay(p) \in Timers /\ HasPending(Delay(p)) /\ timer' = [timer EXCEPT ![Delay(p)] = Off]
             /\ m_query_sent' = [m_query_sent EXCEPT ![p] = @ \/ Sends(p)]
             /\ UNCHANGED <<m_sockets, m_timers, open, ops, mode, m_duplicate_seen, alive, m_stopped>>
<1> DEFINE t == Head(firing)
<1>1. firing \in Seq(Timers) /\ firing # <<>> /\ Due(t) /\ t[2] = "delay"
  BY DEF PollTyped, DelayFires, FiresNext
<1>2. t \in Timers
  BY <1>1, HeadAndTail
<1>3. Owner(t) \in Peers /\ t = Delay(Owner(t))
  BY <1>1, <1>2, Names
<1>4. HasPending(t)
  BY <1>1 DEF Due
<1>5. /\ timer' = [timer EXCEPT ![t] = Off]
      /\ m_query_sent' = [m_query_sent EXCEPT ![Owner(t)] = @ \/ Sends(Owner(t))]
      /\ UNCHANGED <<m_sockets, m_timers, open, ops, mode, m_duplicate_seen, alive, m_stopped>>
  BY DEF DelayFires, users
<1> HIDE DEF t
<1> QED
  BY <1>2, <1>3, <1>4, <1>5, Zenon

\* Time passes for all timers that are waited on alike.
LEMMA Elapsed ==
    ASSUME TimersTyped, Elapse
    PROVE  /\ phase = "blocked" /\ phase' = phase
           /\ \A t \in Timers : HasPending(t) => timer[t].left > -Lateness
           /\ timer' \in [Timers -> TimerStates]
           /\ \A t \in Timers : /\ timer'[t].wait = timer[t].wait
                                /\ timer'[t].left = IF HasPending(t) THEN timer[t].left - 1
                                                    ELSE timer[t].left
           /\ UNCHANGED <<m_sockets, m_timers, open, ops, query, alive, work, users>>
<1>1. timer \in [Timers -> TimerStates]
  BY DEF TimersTyped
<1>2. /\ phase = "blocked" /\ phase' = phase
      /\ \A t \in Timers : HasPending(t) => timer[t].left > -Lateness
      /\ timer' = [t \in Timers |-> IF HasPending(t) THEN [timer[t] EXCEPT !.left = @ - 1] ELSE timer[t]]
      /\ UNCHANGED <<m_sockets, m_timers, open, ops, query, alive, work, users>>
  BY DEF Elapse
<1>3. \A s \in TimerStates : /\ [s EXCEPT !.left = @ - 1] \in TimerStates
                             /\ [s EXCEPT !.left = @ - 1].wait = s.wait
                             /\ [s EXCEPT !.left = @ - 1].left = s.left - 1
  BY DEF TimerStates
<1> QED
  BY <1>1, <1>2, <1>3

\* The destructor of a peer.
LEMMA Destroyed ==
    ASSUME SocketsTyped, TimersTyped, OpsTyped, NEW p \in Peers, Destroy(p)
    PROVE  /\ alive[p] /\ alive' = [alive EXCEPT ![p] = FALSE] /\ Close(p)
           /\ m_timers' \in Seq(Timers) /\ Range(m_timers') = Range(m_timers) \ {Recv(p), Delay(p)}
           /\ timer' \in [Timers -> TimerStates]
           /\ \A t \in Timers : timer'[t] = IF t \in {Recv(p), Delay(p)} THEN Off ELSE timer[t]
           /\ loop' \in [Operations -> {"none", "running", "stopped"}]
           /\ \A o \in Operations : loop'[o] = IF Peer(o) = p /\ loop[o] = "running" THEN "stopped" ELSE loop[o]
           /\ handler' \in [Operations -> BOOLEAN]
           /\ \A o \in Operations : handler'[o] = (handler[o] /\ Peer(o) # p)
           /\ UNCHANGED <<receiver, calls, query>>
<1>1. /\ alive[p] /\ alive' = [alive EXCEPT ![p] = FALSE] /\ Close(p) /\ Cancel({Recv(p), Delay(p)})
      /\ loop' = Set(loop, Running(p), "stopped") /\ handler' = Set(handler, Of(p), FALSE)
      /\ UNCHANGED <<receiver, calls, query>>
  BY Zenon DEF Destroy
<1>2. /\ loop \in [Operations -> {"none", "running", "stopped"}]
      /\ handler \in [Operations -> BOOLEAN]
  BY DEF OpsTyped
<1>3. /\ m_timers' \in Seq(Timers) /\ Range(m_timers') = Range(m_timers) \ {Recv(p), Delay(p)}
      /\ timer' \in [Timers -> TimerStates]
      /\ \A t \in Timers : timer'[t] = IF t \in {Recv(p), Delay(p)} THEN Off ELSE timer[t]
  BY <1>1, Cancelled
<1>4. \A o \in Operations : (o \in Of(p) <=> Peer(o) = p)
                            /\ (o \in Running(p) <=> Peer(o) = p /\ loop[o] = "running")
  BY DEF Of, Running
<1>5. /\ loop' \in [Operations -> {"none", "running", "stopped"}]
      /\ \A o \in Operations : loop'[o] = IF Peer(o) = p /\ loop[o] = "running" THEN "stopped" ELSE loop[o]
  BY <1>1, <1>2, <1>4 DEF Set
<1>6. /\ handler' \in [Operations -> BOOLEAN]
      /\ \A o \in Operations : handler'[o] = (handler[o] /\ Peer(o) # p)
  BY <1>1, <1>2, <1>4, Zenon DEF Set
<1> QED
  BY <1>1, <1>3, <1>5, <1>6, Zenon

\* The teardown that stop() posted: nothing, if the peer is gone.
LEMMA TornDown ==
    ASSUME UsersTyped, RunTeardown
    PROVE  /\ UNCHANGED <<alive, receiver, query>>
           /\ \/ UNCHANGED <<tables, loop, handler, calls>>
              \/ \E p \in Peers : /\ p \in Range(local) /\ alive[p]
                                  /\ LoopStop(Running(p), p, Waits(p))
                                  /\ Complete({o \in Of(p) : loop[o] # "none"})
<1> DEFINE p == Head(local)
<1>1. local \in Seq(Peers) /\ local # <<>>
  BY DEF UsersTyped, RunTeardown
<1>2. p \in Peers /\ p \in Range(local)
  BY <1>1, HeadAndTail
<1>3. CASE alive[p]
  <2>1. /\ LoopStop(Running(p), p, Waits(p)) /\ Complete({o \in Of(p) : loop[o] # "none"})
        /\ UNCHANGED <<alive, receiver, query>>
    BY <1>3 DEF RunTeardown, GuardLocks
  <2> HIDE DEF p
  <2> QED
    BY <1>2, <1>3, <2>1
<1>4. CASE ~alive[p]
  BY <1>4 DEF RunTeardown, GuardLocks
<1> QED
  BY <1>3, <1>4

-----------------------------------------------------------------------------
(***************************************************************************)
(* The invariant that holds for every set of operations and handlers.      *)
(***************************************************************************)
\* Between poll() and the end of dispatch_receives() its index is set, else it is 0.
Rewound == at = 0 <=> phase \in {"top", "blocked", "timers"}

\* A completion handler is set exactly while its loop runs, and was called only for
\* a loop that has stopped.
HandlerPerLoop ==
    \A o \in Operations :
      /\ handler[o] <=> loop[o] = "running"
      /\ calls[o] <= 1 /\ (loop[o] # "stopped" => calls[o] = 0)
      /\ loop[o] = "running" => alive[Peer(o)]

\* A timer is waited on for an operation that was started.
WaitsForStarted == \A t \in Timers : HasPending(t) => loop[timer[t].wait] # "none"

Inv == TypeOK /\ Listening /\ Rewound /\ HandlerPerLoop /\ WaitsForStarted

\* A packet is handed to an operation of the peer that its entry names.
LEMMA ReceiverKnown ==
    ASSUME TypeOK, Listening, Rewound, NEW p \in Peers, ReceivePacket(p)
    PROVE  receiver[p] \in Of(p) /\ \E e \in Range(m_sockets) : e.owner = p
<1>1. m_sockets \in Seq(SocketEntries)
  BY DEF TypeOK
<1>2. phase = "dispatch" /\ at <= Len(m_sockets) /\ m_sockets[at].owner = p
  BY Zenon DEF ReceivePacket, Receives, InTable
<1>3. at \in Nat /\ at # 0 /\ Len(m_sockets) \in Nat
  BY <1>1, <1>2 DEF TypeOK, Rewound
<1>4. at \in 1..Len(m_sockets)
  BY <1>2, <1>3
<1>5. PICK e \in Range(m_sockets) : e.owner = p
  BY <1>1, <1>2, <1>4, InRange
<1> QED
  BY <1>5 DEF Listening

\* The entries of m_sockets are of peers, and belong to an operation's receive handler.
LEMMA SocketsKept ==
    ASSUME TypeOK, Listening, Rewound, Next
    PROVE  SocketsTyped' /\ Listening'
<1> USE DEF SocketsTyped
<1>1. SocketsTyped /\ TimersTyped /\ OpsTyped /\ UsersTyped /\ PollTyped
  BY TypeParts
<1>2. m_sockets \in Seq(SocketEntries) /\ open \in [Peers -> BOOLEAN]
  BY <1>1
<1>3. \A p \in Peers : Fd(p) \in Peers \cup {Closed}
  BY DEF Fd
<1>4. \A e \in Range(m_sockets) : e.owner \in Peers
  <2>1. \A e \in Range(m_sockets) : e \in SocketEntries
    BY <1>2, InRange
  <2> QED
    BY <2>1 DEF SocketEntries
<1>5. ASSUME NEW p \in Peers, Close(p), receiver' = receiver PROVE SocketsTyped' /\ Listening'
  <2>1. /\ m_sockets' \in Seq(SocketEntries) /\ open' = [open EXCEPT ![p] = FALSE]
        /\ Range(m_sockets') \subseteq Range(m_sockets)
    BY <1>1, <1>5, SocketClosed
  <2> QED
    BY <1>2, <1>5, <2>1 DEF Listening, Of
<1>6. ASSUME UNCHANGED <<m_sockets, open, receiver>> PROVE SocketsTyped' /\ Listening'
  BY <1>2, <1>6 DEF Listening, Of
<1>7. ASSUME NEW p \in Peers, NEW S, NEW C, LoopStop(S, p, C), receiver' = receiver
      PROVE  SocketsTyped' /\ Listening'
  BY <1>5, <1>6, <1>7 DEF LoopStop
<1>8. CASE UNCHANGED <<tables, ops, query, alive>>
  BY <1>6, <1>8 DEF tables, ops
<1>9. CASE Starting
  <2>1. PICK o \in Operations, m \in Modes, d \in Delays : StartOperation(o, m, d)
    BY <1>9, PeerKinds DEF Starting
  <2>2. /\ m_sockets' = RegisterSocket(m_sockets, Fd(Peer(o)), Peer(o)) /\ open' = open
        /\ receiver' = [receiver EXCEPT ![Peer(o)] = o]
    BY <1>1, <2>1, Started, Zenon
  <2>3. Peer(o) \in Peers /\ o \in Of(Peer(o))
    BY Names
  <2>4. /\ m_sockets' \in Seq(SocketEntries)
        /\ \A e \in Range(m_sockets') : e \in Range(m_sockets) \/ e.owner = Peer(o)
    BY <1>2, <1>3, <2>2, <2>3, SocketRegistered, Zenon
  <2>5. receiver \in [Peers -> Operations \cup {NoWait}]
    BY <1>1 DEF OpsTyped
  <2>6. ASSUME NEW e \in Range(m_sockets') PROVE receiver'[e.owner] \in Of(e.owner)
    BY <1>4, <2>2, <2>3, <2>4, <2>5 DEF Listening
  <2> QED
    BY <1>2, <2>2, <2>4, <2>6 DEF Listening, Of
<1>10. CASE RunTeardown
  BY <1>1, <1>6, <1>7, <1>10, TornDown, Zenon DEF tables
<1>11. CASE Destroys
  BY <1>5, <1>11 DEF Destroys, Destroy
<1>12. CASE Receiving
  <2>1. PICK p \in Peers : ReceivePacket(p)
    BY <1>12 DEF Receiving
  <2>3. receiver[p] \in Of(p)
    BY <2>1, ReceiverKnown
  <2>4. /\ open' = open /\ receiver' = receiver
        /\ m_sockets' = IF loop[receiver[p]] = "running" THEN RegisterSocket(m_sockets, Fd(p), p)
                        ELSE m_sockets
    BY <1>1, <2>1, <2>3, Received, Zenon DEF ops
  <2>5. /\ m_sockets' \in Seq(SocketEntries)
        /\ \A f \in Range(m_sockets') : f \in Range(m_sockets) \/ f.owner = p
    BY <1>2, <1>3, <2>4, SocketRegistered, Zenon
  <2> QED
    BY <1>2, <2>3, <2>4, <2>5 DEF Listening, Of
<1>13. CASE SilenceFires
  <2>1. PICK t \in Timers, o \in Operations :
             /\ receiver' = receiver
             /\ \/ UNCHANGED <<m_sockets, open>>
                \/ LoopStop({o}, Peer(o), {t})
    BY <1>1, <1>13, SilenceFired, Zenon
  <2> QED
    BY <1>6, <1>7, <2>1, Names
<1>14. CASE DelayFires
  BY <1>1, <1>6, <1>14, DelayFired DEF ops
<1>15. CASE Elapse
  BY <1>1, <1>6, <1>15, Elapsed DEF ops
<1> QED
  BY <1>8, <1>9, <1>10, <1>11, <1>12, <1>13, <1>14, <1>15, TableSteps

\* The timers that are waited on are registered, and none is more than Lateness late.
LEMMA TimersKept ==
    ASSUME TypeOK, Listening, Rewound, Next
    PROVE  TimersTyped'
<1>1. SocketsTyped /\ TimersTyped /\ OpsTyped /\ UsersTyped /\ PollTyped
  BY TypeParts
<1>2. /\ m_timers \in Seq(Timers) /\ timer \in [Timers -> TimerStates]
      /\ \A t \in Timers : timer[t].left >= -Lateness
      /\ \A t \in Timers : timer[t].wait # NoWait => t \in Range(m_timers)
  BY <1>1 DEF TimersTyped, HasPending
<1>3. /\ Off.wait = NoWait /\ Off.left >= -Lateness
      /\ \A o \in Operations : /\ Wait(o, SilenceOf(o)).left >= -Lateness
                               /\ \A d \in Delays : Wait(o, d).left >= -Lateness
  BY PeerTimes DEF Off, Wait, SilenceOf
<1>4. SUFFICES /\ m_timers' \in Seq(Timers) /\ timer' \in [Timers -> TimerStates]
               /\ \A t \in Timers : timer'[t].left >= -Lateness
               /\ \A t \in Timers : timer'[t].wait # NoWait => t \in Range(m_timers')
  BY DEF TimersTyped, HasPending
<1>5. ASSUME NEW C, /\ m_timers' \in Seq(Timers) /\ Range(m_timers') = Range(m_timers) \ C
                    /\ timer' \in [Timers -> TimerStates]
                    /\ \A t \in Timers : timer'[t] = IF t \in C THEN Off ELSE timer[t]
      PROVE  /\ \A t \in Timers : timer'[t].left >= -Lateness
             /\ \A t \in Timers : timer'[t].wait # NoWait => t \in Range(m_timers')
  BY <1>2, <1>3, <1>5
<1>6. CASE UNCHANGED <<tables, ops, query, alive>>
  BY <1>2, <1>6 DEF tables
<1>7. CASE Starting
  <2>1. PICK o \in Operations, m \in Modes, d \in Delays : StartOperation(o, m, d)
    BY <1>7, PeerKinds DEF Starting
  <2>2. /\ m_timers' \in Seq(Timers) /\ timer' \in [Timers -> TimerStates]
        /\ Range(m_timers') = Range(m_timers) \cup {Recv(Peer(o))}
                                   \cup (IF Delayed(o, m) THEN {Delay(Peer(o))} ELSE {})
        /\ \A t \in Timers : timer'[t] = IF t = Recv(Peer(o)) THEN Wait(o, SilenceOf(o))
                                            ELSE IF Delayed(o, m) /\ t = Delay(Peer(o)) THEN Wait(o, d)
                                            ELSE timer[t]
    BY <1>1, <2>1, Started, Zenon
  <2> QED
    BY <1>2, <1>3, <2>2
<1>8. CASE RunTeardown
  <2>1. CASE UNCHANGED <<tables, loop, handler, calls>>
    BY <1>2, <2>1 DEF tables
  <2>2. CASE \E p \in Peers : LoopStop(Running(p), p, Waits(p))
    BY <1>1, <1>5, <2>2, LoopsStopped
  <2> QED
    BY <1>1, <1>8, <2>1, <2>2, TornDown, Zenon
<1>9. CASE Destroys
  <2>1. PICK p \in Peers : Destroy(p)
    BY <1>9 DEF Destroys
  <2>2. /\ m_timers' \in Seq(Timers) /\ Range(m_timers') = Range(m_timers) \ {Recv(p), Delay(p)}
        /\ timer' \in [Timers -> TimerStates]
        /\ \A t \in Timers : timer'[t] = IF t \in {Recv(p), Delay(p)} THEN Off ELSE timer[t]
    BY <1>1, <2>1, Destroyed
  <2> QED
    BY <1>5, <2>2, Zenon
<1>10. CASE Receiving
  <2>1. PICK p \in Peers : ReceivePacket(p)
    BY <1>10 DEF Receiving
  <2>2. receiver[p] \in Of(p) /\ receiver[p] \in Operations
    BY <2>1, ReceiverKnown DEF Of
  <2>3. /\ m_timers' \in Seq(Timers) /\ timer' \in [Timers -> TimerStates]
        /\ Range(m_timers') = (Range(m_timers) \ (IF Suppressed(p) THEN {Delay(p)} ELSE {}))
                                \cup (IF Rearmed(p) THEN {Recv(p)} ELSE {})
        /\ \A t \in Timers :
             timer'[t] = IF Rearmed(p) /\ t = Recv(p) THEN Wait(receiver[p], SilenceOf(receiver[p]))
                         ELSE IF Suppressed(p) /\ t = Delay(p) THEN Off ELSE timer[t]
    BY <1>1, <2>1, <2>2, Received, Zenon
  <2> QED
    BY <1>2, <1>3, <2>2, <2>3
<1>11. CASE SilenceFires
  <2>1. PICK t \in Timers, o \in Operations :
             \/ timer' = [timer EXCEPT ![t] = Off] /\ m_timers' = m_timers
             \/ LoopStop({o}, Peer(o), {t})
    BY <1>1, <1>11, SilenceFired, Zenon
  <2>2. CASE timer' = [timer EXCEPT ![t] = Off] /\ m_timers' = m_timers
    BY <1>2, <1>3, <2>2 DEF Off, TimerStates
  <2>3. CASE LoopStop({o}, Peer(o), {t})
    <3> DEFINE C == Stopping({o}, Peer(o), {t})
    <3>1. Peer(o) \in Peers
      BY Names
    <3>2. /\ m_timers' \in Seq(Timers) /\ Range(m_timers') = Range(m_timers) \ C
          /\ timer' \in [Timers -> TimerStates]
          /\ \A u \in Timers : timer'[u] = IF u \in C THEN Off ELSE timer[u]
      BY <1>1, <2>3, <3>1, LoopsStopped, Zenon
    <3> HIDE DEF C
    <3> QED
      BY <1>5, <3>2, Zenon
  <2> QED
    BY <2>1, <2>2, <2>3
<1>12. CASE DelayFires
  <2>1. PICK p \in Peers : timer' = [timer EXCEPT ![Delay(p)] = Off] /\ m_timers' = m_timers
    BY <1>1, <1>12, DelayFired
  <2>2. Delay(p) \in Timers /\ Off \in TimerStates
    BY Names DEF Off, TimerStates
  <2> QED
    BY <1>2, <1>3, <2>1, <2>2
<1>13. CASE Elapse
  <2>1. /\ \A t \in Timers : HasPending(t) => timer[t].left > -Lateness
        /\ timer' \in [Timers -> TimerStates] /\ m_timers' = m_timers
        /\ \A t \in Timers : /\ timer'[t].wait = timer[t].wait
                             /\ timer'[t].left = IF HasPending(t) THEN timer[t].left - 1
                                                 ELSE timer[t].left
    BY <1>1, <1>13, Elapsed
  <2>2. \A t \in Timers : timer[t].left \in Int
    BY <1>2 DEF TimerStates
  <2> QED
    BY <1>2, <2>1, <2>2, PeerTimes
<1> QED
  BY <1>6, <1>7, <1>8, <1>9, <1>10, <1>11, <1>12, <1>13, TableSteps

\* The operations: a handler is there while the loop runs, and is called once.
LEMMA OpsKept ==
    ASSUME Inv, Next
    PROVE  OpsTyped' /\ HandlerPerLoop'
<1>1. SocketsTyped /\ TimersTyped /\ OpsTyped /\ UsersTyped /\ PollTyped /\ Listening /\ Rewound
  BY TypeParts DEF Inv
<1>2. /\ loop \in [Operations -> {"none", "running", "stopped"}]
      /\ receiver \in [Peers -> Operations \cup {NoWait}]
      /\ handler \in [Operations -> BOOLEAN] /\ calls \in [Operations -> Nat]
      /\ alive \in [Peers -> BOOLEAN]
  BY <1>1 DEF OpsTyped, UsersTyped
<1>3. HandlerPerLoop
  BY DEF Inv
<1>4. ASSUME UNCHANGED <<loop, handler, calls, alive>>, receiver' = receiver
      PROVE  OpsTyped' /\ HandlerPerLoop'
  BY <1>2, <1>3, <1>4 DEF OpsTyped, HandlerPerLoop
<1>5. ASSUME NEW S, NEW H, NEW p \in Peers, NEW C, receiver' = receiver, alive' = alive,
             LoopStop(S, p, C), Complete(H),
             \A o \in Operations : /\ o \in H /\ loop[o] = "running" => o \in S
                                   /\ o \in S => o \in H /\ loop[o] # "none"
      PROVE  OpsTyped' /\ HandlerPerLoop'
  <2>1. /\ loop' \in [Operations -> {"none", "running", "stopped"}]
        /\ \A o \in Operations : loop'[o] = IF o \in S THEN "stopped" ELSE loop[o]
    <3>1. LoopsEnd(S)
      BY <1>1, <1>5, StopEffect, Zenon
    <3> QED
      BY <3>1 DEF LoopsEnd
  <2>2. /\ calls' \in [Operations -> Nat] /\ handler' \in [Operations -> BOOLEAN]
        /\ \A o \in Operations : calls'[o] = IF o \in H /\ handler[o] THEN calls[o] + 1 ELSE calls[o]
        /\ \A o \in Operations : handler'[o] = (handler[o] /\ o \notin H)
    BY <1>1, <1>5, Completed
  <2>3. ASSUME NEW o \in Operations
        PROVE  /\ handler'[o] <=> loop'[o] = "running"
               /\ calls'[o] <= 1 /\ (loop'[o] # "stopped" => calls'[o] = 0)
               /\ loop'[o] = "running" => alive'[Peer(o)]
    <3>1. /\ handler[o] <=> loop[o] = "running"
          /\ calls[o] <= 1 /\ (loop[o] # "stopped" => calls[o] = 0)
          /\ loop[o] = "running" => alive[Peer(o)]
          /\ calls[o] \in Nat
      BY <1>2, <1>3 DEF HandlerPerLoop
    <3>2. /\ loop'[o] = IF o \in S THEN "stopped" ELSE loop[o]
          /\ calls'[o] = IF o \in H /\ handler[o] THEN calls[o] + 1 ELSE calls[o]
          /\ handler'[o] = (handler[o] /\ o \notin H)
      BY <2>1, <2>2, Zenon
    <3>3. /\ o \in H /\ loop[o] = "running" => o \in S
          /\ o \in S => o \in H /\ loop[o] # "none"
          /\ alive' = alive
      BY <1>5, Zenon
    <3>4. CASE o \in S
      <4>1. loop'[o] = "stopped" /\ o \in H
        BY <3>2, <3>3, <3>4, Zenon
      <4>2. ~handler'[o]
        BY <3>2, <4>1, Zenon
      <4>3. calls'[o] <= 1
        <5>1. calls[o] \in Nat /\ calls[o] <= 1 /\ (handler[o] => calls[o] = 0)
          BY <3>1, Zenon
        <5>2. calls'[o] = calls[o] \/ (handler[o] /\ calls'[o] = calls[o] + 1)
          BY <3>2, Zenon
        <5> QED
          BY <5>1, <5>2
      <4> QED
        BY <4>1, <4>2, <4>3
    <3>5. CASE o \notin S
      <4>1. loop'[o] = loop[o] /\ alive' = alive
        BY <3>2, <3>3, <3>5, Zenon
      <4>2. ~(o \in H /\ handler[o])
        BY <3>1, <3>3, <3>5, Zenon
      <4>3. calls'[o] = calls[o]
        BY <3>2, <4>2, Zenon
      <4>4. handler'[o] <=> handler[o]
        BY <3>2, <4>2, Zenon
      <4> QED
        BY <3>1, <4>1, <4>3, <4>4, Zenon
    <3> QED
      BY <3>4, <3>5
  <2>4. OpsTyped'
    BY <1>2, <1>5, <2>1, <2>2, Zenon DEF OpsTyped
  <2>5. HandlerPerLoop'
    BY <2>3, Zenon DEF HandlerPerLoop
  <2> QED
    BY <2>4, <2>5
<1>6. CASE UNCHANGED <<tables, ops, query, alive>>
  BY <1>4, <1>6 DEF ops
<1>7. CASE Starting
  <2>1. PICK o \in Operations, m \in Modes, d \in Delays : StartOperation(o, m, d)
    BY <1>7, PeerKinds DEF Starting
  <2>2. /\ calls' = calls /\ alive' = alive /\ alive[Peer(o)] /\ loop[o] = "none"
        /\ loop' = [loop EXCEPT ![o] = "running"]
        /\ receiver' = [receiver EXCEPT ![Peer(o)] = o]
        /\ handler' = [handler EXCEPT ![o] = TRUE]
    BY <1>1, <2>1, Started, Zenon
  <2> QED
    BY <1>2, <1>3, <2>2, Zenon DEF OpsTyped, HandlerPerLoop
<1>8. CASE RunTeardown
  <2>1. receiver' = receiver /\ alive' = alive
    BY <1>1, <1>8, TornDown
  <2>2. CASE UNCHANGED <<tables, loop, handler, calls>>
    BY <1>4, <2>1, <2>2
  <2>3. CASE \E p \in Peers : /\ LoopStop(Running(p), p, Waits(p))
                              /\ Complete({o \in Of(p) : loop[o] # "none"})
    <3>1. PICK p \in Peers : /\ LoopStop(Running(p), p, Waits(p))
                             /\ Complete({o \in Of(p) : loop[o] # "none"})
      BY <2>3
    <3>2. \A o \in Operations :
            /\ o \in {x \in Of(p) : loop[x] # "none"} /\ loop[o] = "running" => o \in Running(p)
            /\ o \in Running(p) => o \in {x \in Of(p) : loop[x] # "none"} /\ loop[o] # "none"
      BY DEF Running
    <3> QED
      BY <1>5, <2>1, <3>1, <3>2
  <2> QED
    BY <1>1, <1>8, <2>2, <2>3, TornDown
<1>9. CASE Destroys
  <2>1. PICK p \in Peers : Destroy(p)
    BY <1>9 DEF Destroys
  <2>2. /\ alive' = [alive EXCEPT ![p] = FALSE] /\ receiver' = receiver /\ calls' = calls
        /\ loop' \in [Operations -> {"none", "running", "stopped"}]
        /\ \A o \in Operations : loop'[o] = IF Peer(o) = p /\ loop[o] = "running" THEN "stopped" ELSE loop[o]
        /\ handler' \in [Operations -> BOOLEAN]
        /\ \A o \in Operations : handler'[o] = (handler[o] /\ Peer(o) # p)
    BY <1>1, <2>1, Destroyed
  <2>3. ASSUME NEW o \in Operations
        PROVE  /\ handler'[o] <=> loop'[o] = "running"
               /\ calls'[o] <= 1 /\ (loop'[o] # "stopped" => calls'[o] = 0)
               /\ loop'[o] = "running" => alive'[Peer(o)]
    <3>1. /\ handler[o] <=> loop[o] = "running"
          /\ calls[o] <= 1 /\ (loop[o] # "stopped" => calls[o] = 0)
          /\ loop[o] = "running" => alive[Peer(o)]
      BY <1>3 DEF HandlerPerLoop
    <3>2. Peer(o) # p => alive'[Peer(o)] = alive[Peer(o)]
      BY <1>2, <2>2, Names
    <3> QED
      BY <2>2, <3>1, <3>2
  <2> QED
    BY <1>2, <2>2, <2>3 DEF OpsTyped, HandlerPerLoop
<1>10. CASE Receiving
  BY <1>1, <1>4, <1>10, ReceiverKnown, Received, Zenon DEF Receiving, ops, Inv
<1>11. CASE SilenceFires
  <2>1. PICK t \in Timers, o \in Operations :
             /\ receiver' = receiver /\ alive' = alive
             /\ \/ UNCHANGED <<loop, handler, calls>>
                \/ timer[t].wait = o /\ LoopStop({o}, Peer(o), {t}) /\ Complete({o})
    BY <1>1, <1>11, SilenceFired, Zenon
  <2>2. CASE UNCHANGED <<loop, handler, calls>>
    BY <1>4, <2>1, <2>2
  <2>3. CASE timer[t].wait = o /\ LoopStop({o}, Peer(o), {t}) /\ Complete({o})
    <3>1. loop[o] # "none"
      BY <2>3, Names DEF Inv, WaitsForStarted, HasPending
    <3>2. Peer(o) \in Peers
      BY Names
    <3>3. \A x \in Operations : /\ x \in {o} /\ loop[x] = "running" => x \in {o}
                                /\ x \in {o} => x \in {o} /\ loop[x] # "none"
      BY <3>1
    <3> QED
      BY <1>5, <2>1, <2>3, <3>2, <3>3
  <2> QED
    BY <2>1, <2>2, <2>3
<1>12. CASE DelayFires
  BY <1>1, <1>4, <1>12, DelayFired DEF ops
<1>13. CASE Elapse
  BY <1>1, <1>4, <1>13, Elapsed DEF ops
<1> QED
  BY <1>6, <1>7, <1>8, <1>9, <1>10, <1>11, <1>12, <1>13, TableSteps

\* The timers wait for operations that were started.
LEMMA WaitsKept ==
    ASSUME Inv, Next
    PROVE  WaitsForStarted'
<1>1. SocketsTyped /\ TimersTyped /\ OpsTyped /\ UsersTyped /\ PollTyped /\ TypeOK /\ Listening /\ Rewound
  BY TypeParts DEF Inv
<1>2. /\ loop \in [Operations -> {"none", "running", "stopped"}]
      /\ timer \in [Timers -> TimerStates]
  BY <1>1 DEF OpsTyped, TimersTyped
<1>3. \A t \in Timers : timer[t].wait # NoWait => timer[t].wait \in Operations /\ loop[timer[t].wait] # "none"
  <2>1. \A t \in Timers : timer[t].wait # NoWait => timer[t].wait \in Operations
    BY <1>2 DEF TimerStates
  <2> QED
    BY <2>1 DEF Inv, WaitsForStarted, HasPending
<1>4. Off.wait = NoWait /\ \A o, l : Wait(o, l).wait = o
  BY DEF Off, Wait
<1>5. SUFFICES \A t \in Timers : timer'[t].wait # NoWait => loop'[timer'[t].wait] # "none"
  BY DEF WaitsForStarted, HasPending
<1>6. ASSUME \A t \in Timers : timer'[t].wait \in {NoWait, timer[t].wait},
             \A o \in Operations : loop[o] # "none" => loop'[o] # "none"
      PROVE  \A t \in Timers : timer'[t].wait # NoWait => loop'[timer'[t].wait] # "none"
  BY <1>3, <1>6
<1>7. CASE UNCHANGED <<tables, ops, query, alive>>
  BY <1>6, <1>7 DEF tables, ops
<1>8. CASE Starting
  <2>1. PICK o \in Operations, m \in Modes, d \in Delays : StartOperation(o, m, d)
    BY <1>8, PeerKinds DEF Starting
  <2>2. /\ loop' = [loop EXCEPT ![o] = "running"]
        /\ \A t \in Timers : timer'[t] = IF t = Recv(Peer(o)) THEN Wait(o, SilenceOf(o))
                                            ELSE IF Delayed(o, m) /\ t = Delay(Peer(o)) THEN Wait(o, d)
                                            ELSE timer[t]
    BY <1>1, <2>1, Started, Zenon
  <2>3. \A q \in Operations : loop[q] # "none" \/ q = o => loop'[q] # "none"
    BY <1>2, <2>2
  <2>4. \A t \in Timers : timer'[t].wait = o \/ timer'[t] = timer[t]
    BY <1>4, <2>2, Zenon
  <2> QED
    BY <1>3, <2>3, <2>4, Zenon
<1>9. ASSUME NEW S, NEW p \in Peers, NEW C, LoopStop(S, p, C)
      PROVE  \A t \in Timers : timer'[t].wait # NoWait => loop'[timer'[t].wait] # "none"
  <2>1. /\ \A o \in Operations : loop'[o] = IF o \in S THEN "stopped" ELSE loop[o]
        /\ \A t \in Timers : timer'[t] = IF t \in Stopping(S, p, C) THEN Off ELSE timer[t]
    <3>1. SocketsTyped /\ TimersTyped /\ OpsTyped
      BY <1>1
    <3>2. LoopsEnd(S) /\ WaitsEnd(Stopping(S, p, C))
      BY <3>1, <1>9, StopEffect, Zenon
    <3> QED
      BY <3>2 DEF LoopsEnd, WaitsEnd
  <2>2. \A o \in Operations : loop[o] # "none" => loop'[o] # "none"
    BY <2>1
  <2>3. \A t \in Timers : timer'[t].wait \in {NoWait, timer[t].wait}
    BY <1>4, <2>1, Zenon
  <2> QED
    BY <1>6, <2>2, <2>3
<1>10. CASE RunTeardown
  <2>1. CASE UNCHANGED <<tables, loop, handler, calls>>
    BY <1>6, <2>1 DEF tables
  <2> QED
    BY <1>1, <1>9, <1>10, <2>1, TornDown, Zenon
<1>11. CASE Destroys
  <2>1. PICK p \in Peers : Destroy(p)
    BY <1>11 DEF Destroys
  <2>2. /\ \A t \in Timers : timer'[t] = IF t \in {Recv(p), Delay(p)} THEN Off ELSE timer[t]
        /\ \A o \in Operations : loop'[o] = IF Peer(o) = p /\ loop[o] = "running" THEN "stopped" ELSE loop[o]
    BY <1>1, <2>1, Destroyed, Zenon
  <2> QED
    BY <1>4, <1>6, <2>2
<1>12. CASE Receiving
  <2>1. PICK p \in Peers : ReceivePacket(p)
    BY <1>12 DEF Receiving
  <2>2. receiver[p] \in Of(p)
    BY <1>1, <2>1, ReceiverKnown
  <2>3. /\ loop' = loop
        /\ \A t \in Timers :
             timer'[t] = IF Rearmed(p) /\ t = Recv(p) THEN Wait(receiver[p], SilenceOf(receiver[p]))
                         ELSE IF Suppressed(p) /\ t = Delay(p) THEN Off ELSE timer[t]
    BY <1>1, <2>1, <2>2, Received, Zenon DEF ops
  <2>4. Rearmed(p) => loop[receiver[p]] = "running"
    BY DEF Rearmed, Heard
  <2>5. \A t \in Timers : \/ timer'[t].wait = receiver[p] /\ loop[receiver[p]] = "running"
                          \/ timer'[t].wait = NoWait
                          \/ timer'[t] = timer[t]
    BY <1>4, <2>3, <2>4, Zenon
  <2>6. loop' = loop
    BY <2>3
  <2> QED
    BY <1>3, <2>5, <2>6
<1>13. CASE SilenceFires
  <2>1. PICK t \in Timers, o \in Operations :
             \/ timer' = [timer EXCEPT ![t] = Off] /\ loop' = loop
             \/ LoopStop({o}, Peer(o), {t})
    BY <1>1, <1>13, SilenceFired, Zenon
  <2>2. CASE timer' = [timer EXCEPT ![t] = Off] /\ loop' = loop
    BY <1>2, <1>4, <1>6, <2>2
  <2>3. CASE LoopStop({o}, Peer(o), {t})
    BY <1>9, <2>3, Names, Zenon
  <2> QED
    BY <2>1, <2>2, <2>3
<1>14. CASE DelayFires
  <2>1. PICK p \in Peers : timer' = [timer EXCEPT ![Delay(p)] = Off] /\ loop' = loop
    BY <1>1, <1>14, DelayFired DEF ops
  <2> QED
    BY <1>2, <1>4, <1>6, <2>1
<1>15. CASE Elapse
  <2>1. loop' = loop /\ \A t \in Timers : timer'[t].wait = timer[t].wait
    BY <1>1, <1>15, Elapsed, Zenon DEF ops
  <2> QED
    BY <1>6, <2>1
<1> QED
  BY <1>7, <1>8, <1>10, <1>11, <1>12, <1>13, <1>14, <1>15, TableSteps

\* run() and its loops over the tables.
LEMMA PollKept ==
    ASSUME Inv, Next
    PROVE  PollTyped' /\ Rewound'
<1>1. TypeOK /\ PollTyped /\ Rewound /\ m_sockets \in Seq(SocketEntries) /\ m_timers \in Seq(Timers)
      /\ timer \in [Timers -> TimerStates]
  BY TypeParts DEF Inv, SocketsTyped, TimersTyped
<1>2. /\ firing \in Seq(Timers)
      /\ phase \in {"top", "blocked", "wakeup", "work", "dispatch", "timers"}
      /\ m_pollfds \in Seq(PollFds) /\ at \in 0..Len(m_pollfds) + 1
      /\ timeout \in Nat \cup {Forever} /\ inbox \in [Peers -> Seq(Packets)] /\ fault \in BOOLEAN
      /\ Len(m_pollfds) \in Nat /\ at \in Nat
      /\ at = 0 <=> phase \in {"top", "blocked", "timers"}
  BY <1>1 DEF PollTyped, Rewound
<1> USE DEF PollTyped, Rewound
<1>3. ASSUME UNCHANGED <<pollVars, phase, inbox, fault>> PROVE PollTyped' /\ Rewound'
  BY <1>2, <1>3 DEF pollVars
<1>4. CASE Polls
  <2>1. PICK posted \in BOOLEAN : PollReturns(posted)
    BY <1>4, Zenon DEF Polls
  <2>2. /\ m_pollfds' = [i \in DOMAIN m_pollfds |->
                           [m_pollfds[i] EXCEPT !.ready = Readable(m_pollfds[i].fd)]]
        /\ phase' \in {"wakeup", "dispatch"} /\ timeout' = 0 /\ at' = 1
        /\ UNCHANGED <<firing, inbox, fault>>
    BY <2>1 DEF PollReturns
  <2>3. \A f \in PollFds : [f EXCEPT !.ready = Readable(f.fd)] \in PollFds
    BY Zenon DEF PollFds, Readable
  <2>4. DOMAIN m_pollfds = 1..Len(m_pollfds)
    BY <1>2
  <2>5. m_pollfds' \in [1..Len(m_pollfds) -> PollFds]
    BY <1>2, <2>2, <2>3, <2>4
  <2>6. m_pollfds' \in Seq(PollFds) /\ Len(m_pollfds') = Len(m_pollfds)
    BY <1>2, <2>5
  <2> QED
    BY <1>2, <2>2, <2>6
<1>5. CASE Iterate
  <2>1. CASE DoPoll
    <3>1. /\ phase = "top" /\ phase' = "blocked"
          /\ timeout' = IF ComputeNextTimeout < 0 THEN Forever ELSE ComputeNextTimeout
          /\ m_pollfds' = [i \in DOMAIN m_sockets |-> [fd |-> m_sockets[i].fd, ready |-> FALSE]]
          /\ UNCHANGED <<at, firing, inbox, fault>>
      BY <2>1 DEF DoPoll
    <3>2. ComputeNextTimeout \in Int
      BY <1>1, NextTimeoutTyped
    <3>3. \A e \in SocketEntries : [fd |-> e.fd, ready |-> FALSE] \in PollFds
      BY DEF SocketEntries, PollFds
    <3>4. DOMAIN m_sockets = 1..Len(m_sockets) /\ Len(m_sockets) \in Nat
      BY <1>1
    <3>5. m_pollfds' \in [1..Len(m_sockets) -> PollFds]
      BY <1>1, <3>1, <3>3, <3>4
    <3>6. m_pollfds' \in Seq(PollFds) /\ Len(m_pollfds') = Len(m_sockets)
      BY <3>4, <3>5
    <3>7. timeout' \in Nat \cup {Forever}
      BY <3>1, <3>2
    <3> QED
      BY <1>2, <3>1, <3>4, <3>6, <3>7
  <2>2. CASE Interrupted
    BY <1>2, <2>2 DEF Interrupted
  <2>3. CASE SkipReceive
    BY <1>2, <2>3 DEF SkipReceive
  <2>4. CASE StartFiring
    BY <1>1, <1>2, <2>4 DEF StartFiring
  <2>5. CASE EndIteration
    BY <1>2, <2>5 DEF EndIteration, pollVars
  <2> QED
    BY <1>5, <2>1, <2>2, <2>3, <2>4, <2>5 DEF Iterate
<1>6. ASSUME firing # <<>>, firing' = Tail(firing), fault' \in BOOLEAN,
             UNCHANGED <<m_pollfds, timeout, at, phase, inbox>>
      PROVE  PollTyped' /\ Rewound'
  <2>1. firing' \in Seq(Timers)
    BY <1>2, <1>6, HeadAndTail
  <2> QED
    BY <1>2, <1>6, <2>1
<1>7. CASE LoopStep
  <2>1. CASE DrainWorkQueue
    BY <1>2, <2>1 DEF DrainWorkQueue, pollVars
  <2>2. CASE RunTeardown
    BY <1>3, <2>2 DEF RunTeardown, Working
  <2>3. CASE WorkDone
    BY <1>2, <2>3 DEF WorkDone, pollVars
  <2>4. CASE HandlerReturns
    BY <1>3, <2>4 DEF HandlerReturns
  <2>5. ASSUME NEW p \in Peers, ReceivePacket(p) PROVE PollTyped' /\ Rewound'
    <3>1. /\ phase = "dispatch" /\ at <= Len(m_pollfds) /\ HasData(at)
          /\ inbox' = [inbox EXCEPT ![m_sockets[at].fd] = Tail(@)] /\ at' = at + 1
          /\ UNCHANGED <<phase, m_pollfds, timeout, firing, fault>>
      BY <2>5, Zenon DEF ReceivePacket, Receives
    <3>2. m_sockets[at].fd \in Peers /\ inbox[m_sockets[at].fd] # <<>>
      BY <3>1 DEF HasData, Readable
    <3>3. Tail(inbox[m_sockets[at].fd]) \in Seq(Packets)
      BY <1>2, <3>2
    <3>4. inbox' \in [Peers -> Seq(Packets)]
      BY <1>2, <3>1, <3>3, Zenon
    <3> QED
      BY <1>2, <3>1, <3>4
  <2>6. CASE SkipTimer
    BY <1>2, <1>6, <2>6 DEF SkipTimer, FiresNext
  <2>7. CASE SilenceFires
    BY <1>2, <1>6, <2>7, Zenon DEF SilenceFires, FiresNext
  <2>8. CASE DelayFires
    BY <1>2, <1>6, <2>8 DEF DelayFires, FiresNext
  <2> QED
    BY <1>7, <2>1, <2>2, <2>3, <2>4, <2>5, <2>6, <2>7, <2>8 DEF LoopStep
<1>8. CASE Application
  <2>1. ASSUME NEW o, NEW m, NEW d, StartOperation(o, m, d) PROVE UNCHANGED <<pollVars, phase, inbox, fault>>
    BY <2>1, Zenon DEF StartOperation, Working
  <2>2. ASSUME NEW p, AppDestroys(p) \/ HandlerDestroys(p) \/ Stop(p)
        PROVE  UNCHANGED <<pollVars, phase, inbox, fault>>
    BY <2>2 DEF AppDestroys, Working, HandlerDestroys, Stop
  <2> QED
    BY <1>3, <1>8, <2>1, <2>2 DEF Application
<1>9. CASE Arrives
  <2>1. PICK p \in Peers, k \in Packets : Arrive(p, k)
    BY <1>9 DEF Arrives
  <2>2. inbox' = [inbox EXCEPT ![p] = Append(@, k)] /\ UNCHANGED <<pollVars, phase, fault>>
    BY <2>1 DEF Arrive
  <2>3. inbox' \in [Peers -> Seq(Packets)]
    BY <1>2, <2>2
  <2> QED
    BY <1>2, <2>2, <2>3 DEF pollVars
<1>10. CASE Elapse
  <2>1. /\ timeout' = IF timeout > 0 THEN timeout - 1 ELSE timeout
        /\ UNCHANGED <<m_pollfds, at, firing, phase, inbox, fault>>
    BY <1>10 DEF Elapse
  <2>2. timeout' \in Nat \cup {Forever}
    BY <1>2, <2>1 DEF Forever
  <2> QED
    BY <1>2, <2>1, <2>2
<1> QED
  BY <1>4, <1>5, <1>7, <1>8, <1>9, <1>10 DEF Next

\* The users' side: the posted teardowns, the flags and the state of the query.
LEMMA UsersKept ==
    ASSUME TypeOK, Next
    PROVE  UsersTyped'
<1>1. UsersTyped /\ OpsTyped /\ TimersTyped /\ PollTyped
  BY TypeParts
<1>2. /\ m_work_queue \in Seq(Peers) /\ local \in Seq(Peers) /\ arrived \in 0..MaxPackets
      /\ m_stopped \in [Peers -> BOOLEAN] /\ alive \in [Peers -> BOOLEAN]
      /\ mode \in [Peers -> {"multicast", "unicast"}] /\ calling \in Peers \cup {Nobody}
      /\ m_query_sent \in [Peers -> BOOLEAN] /\ m_duplicate_seen \in [Peers -> BOOLEAN]
  BY <1>1 DEF UsersTyped
<1> USE DEF UsersTyped
<1>3. ASSUME UNCHANGED <<work, users, alive, query, calling>> PROVE UsersTyped'
  BY <1>2, <1>3 DEF work, users, query
<1>4. CASE Polls \/ Iterate \/ Elapse
  BY <1>3, <1>4, Zenon DEF Polls, Iterate, Elapse
<1>5. CASE LoopStep
  <2>1. CASE DrainWorkQueue
    BY <1>2, <2>1 DEF DrainWorkQueue, users, query
  <2>2. CASE RunTeardown
    <3> DEFINE p == Head(local)
    <3>1. local # <<>> /\ local' = Tail(local) /\ UNCHANGED <<m_work_queue, users, alive, query>>
      BY <2>2 DEF RunTeardown
    <3>2. p \in Peers /\ local' \in Seq(Peers)
      BY <1>2, <3>1, HeadAndTail
    <3>3. calling' \in {calling, p, Nobody}
      BY <2>2, Zenon DEF RunTeardown, Calls
    <3> HIDE DEF p
    <3> QED
      BY <1>2, <3>1, <3>2, <3>3 DEF users, query
  <2>3. CASE WorkDone
    BY <1>3, <2>3 DEF WorkDone
  <2>4. CASE HandlerReturns
    BY <1>2, <2>4 DEF HandlerReturns, work, users, query
  <2>5. ASSUME NEW p \in Peers, ReceivePacket(p) PROVE UsersTyped'
    <3>1. /\ UNCHANGED <<work, users, alive, mode, m_query_sent, calling>>
          /\ m_duplicate_seen' = [m_duplicate_seen EXCEPT ![p] = @ \/ Suppressed(p)]
      BY <2>5, Zenon DEF ReceivePacket, Suppressed, Heard
    <3>2. m_duplicate_seen' \in [Peers -> BOOLEAN]
      BY <1>2, <3>1
    <3> QED
      BY <1>2, <3>1, <3>2 DEF work, users
  <2>6. CASE SkipTimer
    BY <1>3, <2>6 DEF SkipTimer
  <2>7. CASE SilenceFires
    <3> DEFINE o == timer[Head(firing)].wait
    <3>1. /\ o[2] # "observe" => calling' \in {Peer(o), Nobody}
          /\ o[2] = "observe" => calling' = calling
          /\ UNCHANGED <<work, users, alive, query>>
      BY <2>7, Zenon DEF SilenceFires, Calls
    <3>2. o \in Operations
      BY <1>1, <2>7, HeadAndTail DEF SilenceFires, FiresNext, Due, HasPending, TimersTyped, TimerStates, PollTyped
    <3>3. Peer(o) \in Peers
      BY <3>2, Names
    <3> HIDE DEF o
    <3> QED
      BY <1>2, <3>1, <3>3 DEF work, users, query
  <2>8. CASE DelayFires
    <3>1. PICK p \in Peers : m_query_sent' = [m_query_sent EXCEPT ![p] = @ \/ Sends(p)]
      BY <1>1, <2>8, DelayFired
    <3>2. m_query_sent' \in [Peers -> BOOLEAN]
      BY <1>2, <3>1 DEF Sends
    <3>3. UNCHANGED <<work, users, alive, mode, m_duplicate_seen, calling>>
      BY <2>8 DEF DelayFires
    <3> QED
      BY <1>2, <3>2, <3>3 DEF work, users
  <2> QED
    BY <1>5, <2>1, <2>2, <2>3, <2>4, <2>5, <2>6, <2>7, <2>8 DEF LoopStep
<1>6. CASE Application
  <2>1. ASSUME NEW o \in Wanted, NEW m \in Modes, NEW d \in Delays, StartOperation(o, m, d)
        PROVE  UsersTyped'
    <3>1. /\ UNCHANGED <<work, users, alive, calling>> /\ InitQueryState(o, m)
      BY <2>1, Zenon DEF StartOperation
    <3>2. m \in {"multicast", "unicast"}
      BY PeerKinds
    <3>3. /\ mode' \in [Peers -> {"multicast", "unicast"}]
          /\ m_query_sent' \in [Peers -> BOOLEAN] /\ m_duplicate_seen' \in [Peers -> BOOLEAN]
      BY <1>2, <3>1, <3>2, Zenon DEF InitQueryState
    <3> QED
      BY <1>2, <3>1, <3>3 DEF work, users
  <2>2. ASSUME NEW p \in Peers, Destroy(p), calling' \in {calling, Nobody} PROVE UsersTyped'
    <3>1. /\ alive' = [alive EXCEPT ![p] = FALSE] /\ m_stopped' = [m_stopped EXCEPT ![p] = TRUE]
          /\ m_work_queue' = m_work_queue \/ m_work_queue' = Append(m_work_queue, p)
          /\ UNCHANGED <<local, arrived, query>>
      BY <2>2 DEF Destroy, Post
    <3>2. m_work_queue' \in Seq(Peers)
      <4>1. Append(m_work_queue, p) \in Seq(Peers)
        BY <1>2, Appended
      <4> QED
        BY <1>2, <3>1, <4>1, Zenon
    <3>3. alive' \in [Peers -> BOOLEAN] /\ m_stopped' \in [Peers -> BOOLEAN]
      BY <1>2, <3>1
    <3> QED
      BY <1>2, <2>2, <3>1, <3>2, <3>3 DEF query
  <2>3. ASSUME NEW p \in Peers, AppDestroys(p) \/ HandlerDestroys(p) PROVE UsersTyped'
    BY <2>2, <2>3 DEF AppDestroys, HandlerDestroys
  <2>4. ASSUME NEW p \in Peers, Stop(p) PROVE UsersTyped'
    BY <1>2, <2>4 DEF Stop, Post, query
  <2> QED
    BY <1>6, <2>1, <2>3, <2>4 DEF Application
<1>7. CASE Arrives
  BY <1>2, <1>7, PeerTimes DEF Arrives, Arrive, work, query
<1> QED
  BY <1>4, <1>5, <1>6, <1>7 DEF Next

\* The invariant holds before anything is started.
LEMMA InvAtFirst == Init => Inv
<1> SUFFICES ASSUME Init PROVE Inv
  OBVIOUS
<1>1. Off \in TimerStates /\ Off.wait = NoWait /\ Off.left = 0
  BY DEF Off, TimerStates
<1>2. timer = [t \in Timers |-> Off] /\ m_timers = <<>> /\ m_sockets = <<>>
  BY DEF Init, ContextInit
<1>3. SocketsTyped /\ OpsTyped /\ UsersTyped /\ PollTyped
  <2>1. SocketsTyped
    BY DEF Init, ContextInit, SocketsTyped
  <2>2. OpsTyped
    BY DEF Init, OpsTyped
  <2>3. UsersTyped
    BY PeerTimes DEF Init, UsersTyped
  <2>4. PollTyped
    <3>1. /\ m_pollfds = <<>> /\ timeout = 0 /\ phase = "top" /\ at = 0 /\ firing = <<>>
          /\ inbox = [p \in Peers |-> <<>>] /\ fault = FALSE
      BY DEF Init, ContextInit
    <3>2. m_pollfds \in Seq(PollFds) /\ Len(m_pollfds) = 0 /\ firing \in Seq(Timers)
      BY <3>1
    <3>3. inbox \in [Peers -> Seq(Packets)]
      BY <3>1
    <3>4. at \in 0..Len(m_pollfds) + 1
      BY <3>1, <3>2
    <3> QED
      BY <3>1, <3>2, <3>3, <3>4, Zenon DEF PollTyped
  <2> QED
    BY <2>1, <2>2, <2>3, <2>4
<1>4. TimersTyped
  BY <1>1, <1>2, PeerTimes DEF TimersTyped, HasPending
<1>5. Range(m_sockets) = {}
  BY <1>2 DEF Range
<1>6. Listening /\ Rewound /\ HandlerPerLoop
  BY <1>5 DEF Init, ContextInit, Listening, Rewound, HandlerPerLoop
<1>7. WaitsForStarted
  BY <1>1, <1>2 DEF WaitsForStarted, HasPending
<1> QED
  BY <1>3, <1>4, <1>6, <1>7, TypeParts DEF Inv

\* Every step keeps it.
LEMMA InvKept == Inv /\ [Next]_vars => Inv'
<1>1. ASSUME Inv, Next PROVE Inv'
  <2>1. TypeOK /\ Listening /\ Rewound
    BY <1>1 DEF Inv
  <2>2. SocketsTyped' /\ Listening'
    BY <1>1, <2>1, SocketsKept
  <2>3. TimersTyped'
    BY <1>1, <2>1, TimersKept
  <2>4. OpsTyped' /\ HandlerPerLoop'
    BY <1>1, OpsKept
  <2>5. UsersTyped'
    BY <1>1, <2>1, UsersKept
  <2>6. PollTyped' /\ Rewound'
    BY <1>1, PollKept
  <2>7. WaitsForStarted'
    BY <1>1, WaitsKept
  <2>8. TypeOK'
    BY <2>2, <2>3, <2>4, <2>5, <2>6, TypeParts, PTL
  <2> QED
    BY <2>2, <2>4, <2>6, <2>7, <2>8 DEF Inv
<1>2. ASSUME Inv, UNCHANGED vars PROVE Inv'
  BY <1>2, Zenon DEF Inv, TypeOK, Listening, Rewound, HandlerPerLoop, WaitsForStarted, HasPending, vars, tables,
              pollVars, work, users, ops, query
<1> QED
  BY <1>1, <1>2

\* It holds from then on.
LEMMA InvInvariant == Spec => []Inv
BY InvAtFirst, InvKept, PTL DEF Spec

-----------------------------------------------------------------------------
(***************************************************************************)
(* What the invariant says of an operation.                                *)
(***************************************************************************)
\* The status of an operation in terms of its loop and its calls.
Stage(o) == IF loop[o] = "none" THEN "idle" ELSE IF loop[o] = "running" THEN "pending"
            ELSE IF calls[o] = 1 THEN "completed" ELSE "abandoned"

\* A handler that is set exactly while the loop runs leaves four of the cases.
LEMMA StatusValue ==
    ASSUME NEW l \in {"none", "running", "stopped"}, NEW h \in BOOLEAN, NEW c \in Nat,
           h <=> l = "running", c <= 1, l # "stopped" => c = 0
    PROVE  (IF l = "none" THEN "idle"
            ELSE CASE c = 1 /\ ~h -> "completed"
                   [] c = 0 /\ h -> "pending"
                   [] c = 0 /\ ~h -> "abandoned"
                   [] OTHER -> "called_again")
           = IF l = "none" THEN "idle" ELSE IF l = "running" THEN "pending"
             ELSE IF c = 1 THEN "completed" ELSE "abandoned"
<1>1. c = 0 \/ c = 1
  OBVIOUS
<1>2. CASE l = "none"
  BY <1>2
<1>3. CASE l = "running"
  BY <1>3
<1>4. CASE l = "stopped"
  BY <1>1, <1>4
<1> QED
  BY <1>2, <1>3, <1>4

\* The invariant decides which status an operation has.
LEMMA StatusIsStage == Inv => \A o \in Operations : Status(o) = Stage(o)
<1> SUFFICES ASSUME Inv, NEW o \in Operations PROVE Status(o) = Stage(o)
  OBVIOUS
<1>1. /\ loop[o] \in {"none", "running", "stopped"} /\ handler[o] \in BOOLEAN /\ calls[o] \in Nat
      /\ handler[o] <=> loop[o] = "running"
      /\ calls[o] <= 1 /\ (loop[o] # "stopped" => calls[o] = 0)
  BY DEF Inv, TypeOK, HandlerPerLoop
<1> QED
  BY <1>1, StatusValue DEF Status, Stage

\* Only wanted operations are started.
StartedWanted == \A o \in Operations : loop[o] # "none" => o \in Wanted

=============================================================================
