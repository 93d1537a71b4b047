---------------------------- MODULE HttpParse_proof ----------------------------
(* What the loop of praseHeader does with a buffer of any length: it goes     *)
(* round for ever exactly when it leaves at no line of the buffer, and it     *)
(* ends at the first empty line.  The proofs are inductions over the turns of *)
(* the loop, which go through the set of turns for which a fact holds.        *)
EXTENDS HttpParse, SequenceLemmas, WellFoundedInduction

(* Where find("\r\n") can put bpos: behind a CRLF, or, by the wrap of npos,   *)
(* into the request line.                                                     *)
LineStarts(buf) == {1} \cup {i \in 2 .. Len(buf) + 1 : buf[i - 1] = CRLF}

LineEnd(buf, i) == IF FindCrlf(buf, i) = 0 THEN Len(buf) ELSE FindCrlf(buf, i)

NextPlace(buf, i) ==
  IF FindCrlf(buf, i) = 0 THEN 1 ELSE NextLine(i, FindCrlf(buf, i))

(* The loop of praseHeader leaves at a line that is empty or has no colon.    *)
EmptyLineAt(buf, i) == FindCrlf(buf, i) = i

LeavesAt(buf, i) == EmptyLineAt(buf, i) \/ Colons(buf, i, LineEnd(buf, i)) = {}

LeavesWith(buf, i) == IF EmptyLineAt(buf, i) THEN "end" ELSE "error"

(* The lines behind the request line at which it leaves.                      *)
Stops(buf) == {i \in LineStarts(buf) : i # 1 /\ LeavesAt(buf, i)}

-----------------------------------------------------------------------------
(* Induction.                                                                 *)
Below == {p \in Nat \X Nat : p[1] < p[2]}

LEMMA BelowWellFounded == IsWellFoundedOn(Below, Nat)
<1>1. Below = OpToRel(<, Nat)
  BY Zenon DEF Below, OpToRel
<1> QED
  BY <1>1, NatLessThanWellFounded

LEMMA LeastElement ==
  ASSUME NEW T, T \subseteq Nat, T # {}
  PROVE  \E x \in T : \A y \in T : x <= y
<1>1. PICK x \in T : \A y \in T : ~(<<y, x>> \in Below)
  BY BelowWellFounded, WFMin
<1>2. ASSUME NEW y \in T PROVE x <= y
  <2>1. x \in Nat /\ y \in Nat
    OBVIOUS
  <2>2. <<y, x>> \notin Below
    BY <1>1
  <2>3. ~(y < x)
    BY <2>1, <2>2 DEF Below
  <2> QED
    BY <2>1, <2>3
<1> QED
  BY <1>2

(* A set of turns that begins at 0 and goes on from each to the next is all.  *)
LEMMA EveryTurn ==
  ASSUME NEW n \in Nat, NEW T, 0 \in T,
         \A k \in 0 .. n - 1 : k \in T => k + 1 \in T
  PROVE  0 .. n \subseteq T
<1> SUFFICES ASSUME (0 .. n) \ T # {} PROVE FALSE
  OBVIOUS
<1>1. PICK k \in (0 .. n) \ T : \A j \in (0 .. n) \ T : k <= j
  <2>1. (0 .. n) \ T \subseteq Nat
    OBVIOUS
  <2> QED
    BY <2>1, LeastElement
<1>2. k \in 1 .. n
  BY <1>1
<1>3. k - 1 \in 0 .. n - 1 /\ k - 1 \in 0 .. n /\ (k - 1) + 1 = k
  BY <1>2
<1>4. k - 1 \in T
  BY <1>1, <1>3, <1>2
<1> QED
  BY <1>1, <1>3, <1>4

LEMMA MinIsLeast ==
  ASSUME NEW T, T \subseteq Nat, T # {}
  PROVE  Min(T) \in T /\ \A y \in T : Min(T) <= y
<1>1. \E x \in T : \A y \in T : x <= y
  BY LeastElement
<1> QED
  BY <1>1, Zenon DEF Min

-----------------------------------------------------------------------------
(* Where a turn can go.                                                       *)
LEMMA FindCrlfFinds ==
  ASSUME NEW S, NEW buf \in Seq(S), NEW i \in Nat, NEW j \in i .. Len(buf),
         buf[j] = CRLF
  PROVE  /\ FindCrlf(buf, i) \in i .. j
         /\ buf[FindCrlf(buf, i)] = CRLF
<1> DEFINE ends == {k \in i .. Len(buf) : buf[k] = CRLF}
<1>1. ends \subseteq Nat /\ j \in ends
  OBVIOUS
<1>2. Min(ends) \in ends /\ \A y \in ends : Min(ends) <= y
  BY <1>1, MinIsLeast
<1>3. FindCrlf(buf, i) = Min(ends)
  BY <1>1 DEF FindCrlf
<1> QED
  BY <1>1, <1>2, <1>3

LEMMA FindCrlfFails ==
  ASSUME NEW S, NEW buf \in Seq(S), NEW i \in Nat,
         \A j \in i .. Len(buf) : buf[j] # CRLF
  PROVE  FindCrlf(buf, i) = 0
BY DEF FindCrlf

LEMMA FindCrlfRange ==
  ASSUME NEW S, NEW buf \in Seq(S), NEW i \in Nat \ {0}
  PROVE  \/ FindCrlf(buf, i) = 0
         \/ FindCrlf(buf, i) \in i .. Len(buf) /\ buf[FindCrlf(buf, i)] = CRLF
<1>1. CASE \E j \in i .. Len(buf) : buf[j] = CRLF
  <2>1. PICK j \in i .. Len(buf) : buf[j] = CRLF
    BY <1>1
  <2>2. FindCrlf(buf, i) \in i .. j /\ buf[FindCrlf(buf, i)] = CRLF
    BY <2>1, FindCrlfFinds
  <2> QED
    BY <2>1, <2>2
<1>2. CASE \A j \in i .. Len(buf) : buf[j] # CRLF
  BY <1>2, FindCrlfFails
<1> QED
  BY <1>1, <1>2

(* A turn that does not leave the loop goes to a later line or into the       *)
(* request line; it leaps over no line start.                                 *)
LEMMA TurnTaken ==
  ASSUME NEW S, NEW buf \in Seq(S), NEW i \in 1 .. Len(buf) + 1,
         ~LeavesAt(buf, i)
  PROVE  /\ NextPlace(buf, i) \in LineStarts(buf)
         /\ NextPlace(buf, i) = 1 \/ NextPlace(buf, i) > i
         /\ \A j \in LineStarts(buf) :
               j > i => NextPlace(buf, i) > i /\ NextPlace(buf, i) <= j
<1>1. CASE FindCrlf(buf, i) = 0
  <2>1. NextPlace(buf, i) = 1
    BY <1>1 DEF NextPlace
  <2>2. ASSUME NEW j \in LineStarts(buf), j > i PROVE FALSE
    <3>1. j - 1 \in i .. Len(buf) /\ buf[j - 1] = CRLF
      BY <2>2 DEF LineStarts
    <3> QED
      BY <1>1, <3>1, FindCrlfFinds
  <2> QED
    BY <2>1, <2>2 DEF LineStarts
<1>2. CASE FindCrlf(buf, i) # 0
  <2>1. FindCrlf(buf, i) \in i .. Len(buf) /\ buf[FindCrlf(buf, i)] = CRLF
    BY <1>2, FindCrlfRange
  <2>2. NextPlace(buf, i) = FindCrlf(buf, i) + 1
    BY <1>2 DEF NextPlace, NextLine
  <2>3. ASSUME NEW j \in LineStarts(buf), j > i PROVE NextPlace(buf, i) <= j
    <3>1. j \in Nat /\ j - 1 \in i .. Len(buf) /\ buf[j - 1] = CRLF
      BY <2>3 DEF LineStarts
    <3>2. FindCrlf(buf, i) \in i .. j - 1
      BY <3>1, FindCrlfFinds
    <3>3. ASSUME NEW f \in i .. j - 1 PROVE f + 1 <= j
      BY <3>1
    <3> QED
      BY <2>2, <3>2, <3>3
  <2> QED
    BY <2>1, <2>2, <2>3 DEF LineStarts
<1> QED
  BY <1>1, <1>2

(* The headers begin behind the request line.                                 *)
LEMMA HeadersBegin ==
  ASSUME NEW S, NEW buf \in Seq(S), PraseUrl(buf) # 0
  PROVE  /\ PraseUrl(buf) = 3
         /\ 3 \in LineStarts(buf)
         /\ \A i \in LineStarts(buf) : i = 1 \/ i >= 3
         /\ ~EmptyLineAt(buf, 1)
<1>1. PraseUrl(buf) = 3 /\ FindCrlf(buf, 1) = 2
  BY DEF PraseUrl
<1>2. 2 \in 1 .. Len(buf) /\ buf[2] = CRLF
  BY <1>1, FindCrlfRange
<1>3. buf[1] # CRLF
  <2> SUFFICES ASSUME buf[1] = CRLF PROVE FALSE
    OBVIOUS
  <2>1. FindCrlf(buf, 1) \in 1 .. 1
    BY <1>2, FindCrlfFinds
  <2> QED
    BY <1>1, <2>1
<1>4. ASSUME NEW i \in LineStarts(buf) PROVE i = 1 \/ i >= 3
  BY <1>3 DEF LineStarts
<1>5. 3 \in 2 .. Len(buf) + 1 /\ 3 - 1 = 2
  BY <1>2
<1>6. 3 \in LineStarts(buf)
  BY <1>2, <1>5 DEF LineStarts
<1> QED
  BY <1>1, <1>4, <1>6 DEF EmptyLineAt

-----------------------------------------------------------------------------
(* The walk over the headers.                                                 *)
LEMMA NextPlaceIsPlace ==
  ASSUME NEW S, NEW buf \in Seq(S), NEW i \in 1 .. Len(buf) + 1, ~LeavesAt(buf, i)
  PROVE  NextPlace(buf, i) \in 1 .. Len(buf) + 1
BY TurnTaken DEF LineStarts

Places(buf, n) == (1 .. Len(buf) + 1) \X (0 .. n)

Turn(buf, walk, at) ==
  IF LeavesAt(buf, at[1]) THEN LeavesWith(buf, at[1])
  ELSE IF at[2] = 0 THEN "forever"
  ELSE walk[<<NextPlace(buf, at[1]), at[2] - 1>>]

LEMMA WalkExists ==
  ASSUME NEW S, NEW buf \in Seq(S), NEW n \in Nat
  PROVE  \E g : g = [at \in Places(buf, n) |-> Turn(buf, g, at)]
<1> DEFINE T == {m \in 0 .. n :
                   \E g : g = [at \in Places(buf, m) |-> Turn(buf, g, at)]}
<1>1. 0 \in T
  <2> DEFINE g == [at \in Places(buf, 0) |->
                     IF LeavesAt(buf, at[1]) THEN LeavesWith(buf, at[1])
                                             ELSE "forever"]
  <2>1. \A at \in Places(buf, 0) : at[2] = 0
    BY DEF Places
  <2>2. g = [at \in Places(buf, 0) |-> Turn(buf, g, at)]
    BY <2>1 DEF Turn
  <2>3. 0 \in 0 .. n
    OBVIOUS
  <2> QED
    BY <2>2, <2>3
<1>2. ASSUME NEW m \in 0 .. n - 1, m \in T PROVE m + 1 \in T
  <2>1. PICK g : g = [at \in Places(buf, m) |-> Turn(buf, g, at)]
    BY <1>2
  <2> DEFINE h == [at \in Places(buf, m + 1) |->
                     IF at \in Places(buf, m) THEN g[at] ELSE Turn(buf, g, at)]
  <2>2. ASSUME NEW at \in Places(buf, m)
        PROVE  h[at] = g[at] /\ g[at] = Turn(buf, g, at)
    <3>1. at \in Places(buf, m + 1)
      BY DEF Places
    <3> QED
      BY <2>1, <3>1
  <2>3. ASSUME NEW at \in Places(buf, m + 1) PROVE h[at] = Turn(buf, g, at)
    BY <2>2
  <2>4. h = [at \in Places(buf, m + 1) |-> h[at]]
    OBVIOUS
  <2> HIDE DEF h
  <2>5. ASSUME NEW at \in Places(buf, m + 1)
        PROVE  Turn(buf, h, at) = Turn(buf, g, at)
    <3>1. CASE LeavesAt(buf, at[1]) \/ at[2] = 0
      BY <3>1 DEF Turn
    <3>2. CASE ~LeavesAt(buf, at[1]) /\ at[2] # 0
      <4>1. at[1] \in 1 .. Len(buf) + 1 /\ at[2] - 1 \in 0 .. m
        BY <3>2 DEF Places
      <4>2. NextPlace(buf, at[1]) \in 1 .. Len(buf) + 1
        BY <3>2, <4>1, NextPlaceIsPlace
      <4>3. <<NextPlace(buf, at[1]), at[2] - 1>> \in Places(buf, m)
        BY <4>1, <4>2 DEF Places
      <4> QED
        BY <2>2, <3>2, <4>3 DEF Turn
    <3> QED
      BY <3>1, <3>2
  <2>6. h = [at \in Places(buf, m + 1) |-> Turn(buf, h, at)]
    BY <2>3, <2>4, <2>5
  <2>7. m + 1 \in 0 .. n
    OBVIOUS
  <2> QED
    BY <2>6, <2>7
<1>3. n \in T
  <2> HIDE DEF T
  <2>1. n \in 0 .. n
    OBVIOUS
  <2>2. 0 .. n \subseteq T
    BY <1>1, <1>2, EveryTurn
  <2> QED
    BY <2>1, <2>2
<1> QED
  BY <1>3

LEMMA WalkUnfolds ==
  ASSUME NEW S, NEW buf \in Seq(S), NEW at \in Places(buf, Len(buf) + 1)
  PROVE  HeaderWalk(buf)[at] = Turn(buf, HeaderWalk(buf), at)
<1> DEFINE D == (1 .. Len(buf) + 1) \X (0 .. Len(buf) + 1)
           Body(g, a) ==
             LET i == a[1]
                 turns == a[2]
                 epos == FindCrlf(buf, i)
                 last == IF epos = 0 THEN Len(buf) ELSE epos
                 next == IF epos = 0 THEN 1 ELSE NextLine(i, epos)
             IN  CASE epos = i -> "end"
                   [] epos # i /\ Colons(buf, i, last) = {} -> "error"
                   [] epos # i /\ Colons(buf, i, last) # {} ->
                        IF turns = 0 THEN "forever" ELSE g[<<next, turns - 1>>]
           walk[a \in D] ==
             LET i == a[1]
                 turns == a[2]
                 epos == FindCrlf(buf, i)
                 last == IF epos = 0 THEN Len(buf) ELSE epos
                 next == IF epos = 0 THEN 1 ELSE NextLine(i, epos)
             IN  CASE epos = i -> "end"
                   [] epos # i /\ Colons(buf, i, last) = {} -> "error"
                   [] epos # i /\ Colons(buf, i, last) # {} ->
                        IF turns = 0 THEN "forever" ELSE walk[<<next, turns - 1>>]
<1>1. D = Places(buf, Len(buf) + 1)
  BY DEF Places
<1>2. ASSUME NEW g, NEW a PROVE Body(g, a) = Turn(buf, g, a)
  BY DEF Turn, LeavesAt, LeavesWith, EmptyLineAt, LineEnd, NextPlace
<1>3. HeaderWalk(buf) = walk
  BY DEF HeaderWalk
<1> HIDE DEF D, Body
<1>4. PICK g : g = [a \in D |-> Turn(buf, g, a)]
  BY <1>1, WalkExists
<1>5. g = [a \in D |-> Body(g, a)]
  BY <1>2, <1>4
<1>6. walk = [a \in D |-> Body(walk, a)]
  BY <1>5 DEF Body
<1> HIDE DEF walk
<1>7. walk[at] = Body(walk, at)
  BY <1>1, <1>6
<1> QED
  BY <1>2, <1>3, <1>7

LEMMA WalkTurns ==
  ASSUME NEW S, NEW buf \in Seq(S), NEW i \in LineStarts(buf),
         NEW m \in 0 .. Len(buf) + 1
  PROVE  /\ LeavesAt(buf, i) => HeaderWalk(buf)[<<i, m>>] = LeavesWith(buf, i)
         /\ ~LeavesAt(buf, i) /\ m = 0 => HeaderWalk(buf)[<<i, m>>] = "forever"
         /\ ~LeavesAt(buf, i) /\ m # 0 =>
               HeaderWalk(buf)[<<i, m>>] = HeaderWalk(buf)[<<NextPlace(buf, i), m - 1>>]
<1>1. <<i, m>> \in Places(buf, Len(buf) + 1)
  BY DEF Places, LineStarts
<1>2. HeaderWalk(buf)[<<i, m>>] = Turn(buf, HeaderWalk(buf), <<i, m>>)
  BY <1>1, WalkUnfolds
<1> QED
  BY <1>2 DEF Turn

(* The walk stops at the first stop it comes to.                              *)
LEMMA FirstStopDecides ==
  ASSUME NEW S, NEW buf \in Seq(S), NEW e \in LineStarts(buf), LeavesAt(buf, e),
         NEW i \in LineStarts(buf), i <= e,
         \A j \in LineStarts(buf) : i <= j /\ j < e => ~LeavesAt(buf, j)
  PROVE  HeaderWalk(buf)[<<i, Len(buf) + 1>>] = LeavesWith(buf, e)
<1> DEFINE n == Len(buf) + 1
           w == HeaderWalk(buf)
           T == {m \in 0 .. n : \A k \in LineStarts(buf) :
                   i <= k /\ k <= e /\ e - k <= m => w[<<k, m>>] = LeavesWith(buf, e)}
<1>1. n \in Nat /\ LineStarts(buf) \subseteq 1 .. n
  BY DEF LineStarts
<1>2. w[<<e, 0>>] = LeavesWith(buf, e)
  <2>1. 0 \in 0 .. n
    BY <1>1
  <2> QED
    BY <2>1, WalkTurns
<1>3. 0 \in T
  <2> HIDE DEF n, w
  <2>1. ASSUME NEW k \in LineStarts(buf), k <= e, e - k <= 0 PROVE k = e
    BY <1>1, <2>1
  <2> QED
    BY <1>1, <1>2, <2>1
<1>4. ASSUME NEW m \in 0 .. n - 1, m \in T PROVE m + 1 \in T
  <2>1. m + 1 \in 0 .. n /\ m + 1 # 0 /\ (m + 1) - 1 = m
    BY <1>1
  <2>2. ASSUME NEW k \in LineStarts(buf), i <= k, k <= e, e - k <= m + 1
        PROVE  w[<<k, m + 1>>] = LeavesWith(buf, e)
    <3>1. CASE k = e
      BY <1>1, <2>1, <3>1, WalkTurns
    <3>2. CASE k # e
      <4>1. k \in 1 .. n /\ e \in 1 .. n /\ i \in 1 .. n /\ k < e
        BY <1>1, <2>2, <3>2
      <4>2. ~LeavesAt(buf, k)
        BY <2>2, <4>1
      <4>3. /\ NextPlace(buf, k) \in LineStarts(buf)
            /\ NextPlace(buf, k) > k /\ NextPlace(buf, k) <= e
        BY <4>1, <4>2, TurnTaken
      <4>4. w[<<k, m + 1>>] = w[<<NextPlace(buf, k), m>>]
        BY <1>1, <2>1, <4>2, WalkTurns
      <4>5. NextPlace(buf, k) \in 1 .. n
        BY <1>1, <4>3
      <4> HIDE DEF n, w
      <4>6. i <= NextPlace(buf, k) /\ e - NextPlace(buf, k) <= m
        BY <2>2, <4>1, <4>3, <4>5
      <4> QED
        BY <1>4, <4>3, <4>4, <4>6
    <3> QED
      BY <3>1, <3>2
  <2> QED
    BY <2>1, <2>2
<1>5. n \in 0 .. n /\ 0 .. n \subseteq T
  <2> HIDE DEF n, T
  <2>1. n \in 0 .. n
    BY <1>1
  <2>2. 0 .. n \subseteq T
    BY <1>1, <1>3, <1>4, EveryTurn
  <2> QED
    BY <2>1, <2>2
<1>6. i \in 1 .. n /\ e \in 1 .. n
  BY <1>1
<1> HIDE DEF n, w
<1>7. i <= i /\ e - i <= n
  BY <1>1, <1>6
<1>8. w[<<i, n>>] = LeavesWith(buf, e)
  BY <1>5, <1>7
<1> QED
  BY <1>8 DEF n, w

(* Without a stop behind it, the walk wraps into the request line and leaves  *)
(* there if that has no colon.                                                *)
LEMMA RequestLineDecides ==
  ASSUME NEW S, NEW buf \in Seq(S), Stops(buf) = {}, LeavesAt(buf, 1),
         NEW i \in LineStarts(buf)
  PROVE  HeaderWalk(buf)[<<i, Len(buf) + 1>>] = LeavesWith(buf, 1)
<1> DEFINE n == Len(buf) + 1
           w == HeaderWalk(buf)
           T == {m \in 0 .. n : \A k \in LineStarts(buf) :
                   k = 1 \/ n + 1 - k <= m => w[<<k, m>>] = LeavesWith(buf, 1)}
<1>1. n \in Nat /\ LineStarts(buf) \subseteq 1 .. n /\ 1 \in LineStarts(buf)
  BY DEF LineStarts
<1>2. ASSUME NEW m \in 0 .. n PROVE w[<<1, m>>] = LeavesWith(buf, 1)
  BY <1>1, WalkTurns
<1>3. 0 \in T
  <2> HIDE DEF n, w
  <2>1. ASSUME NEW k \in LineStarts(buf), n + 1 - k <= 0 PROVE FALSE
    BY <1>1, <2>1
  <2> QED
    BY <1>1, <1>2, <2>1
<1>4. ASSUME NEW m \in 0 .. n - 1, m \in T PROVE m + 1 \in T
  <2>1. m + 1 \in 0 .. n /\ m + 1 # 0 /\ (m + 1) - 1 = m
    BY <1>1
  <2>2. ASSUME NEW k \in LineStarts(buf), k # 1, n + 1 - k <= m + 1
        PROVE  w[<<k, m + 1>>] = LeavesWith(buf, 1)
    <3>1. ~LeavesAt(buf, k)
      BY <2>2 DEF Stops
    <3>2. k \in 1 .. n
      BY <1>1
    <3>3. /\ NextPlace(buf, k) \in LineStarts(buf)
          /\ NextPlace(buf, k) = 1 \/ NextPlace(buf, k) > k
      BY <3>1, <3>2, TurnTaken
    <3>4. w[<<k, m + 1>>] = w[<<NextPlace(buf, k), m>>]
      BY <1>1, <2>1, <3>1, WalkTurns
    <3>5. NextPlace(buf, k) \in 1 .. n
      BY <1>1, <3>3
    <3> HIDE DEF n, w
    <3>6. NextPlace(buf, k) = 1 \/ n + 1 - NextPlace(buf, k) <= m
      BY <1>1, <2>2, <3>2, <3>3, <3>5
    <3> QED
      BY <1>4, <3>3, <3>4, <3>6
  <2> QED
    BY <1>2, <2>1, <2>2
<1>5. n \in 0 .. n /\ 0 .. n \subseteq T
  <2> HIDE DEF n, T
  <2>1. n \in 0 .. n
    BY <1>1
  <2>2. 0 .. n \subseteq T
    BY <1>1, <1>3, <1>4, EveryTurn
  <2> QED
    BY <2>1, <2>2
<1>6. i \in 1 .. n
  BY <1>1
<1> HIDE DEF n, w
<1>7. n + 1 - i <= n
  BY <1>1, <1>6
<1>8. w[<<i, n>>] = LeavesWith(buf, 1)
  BY <1>5, <1>7
<1> QED
  BY <1>8 DEF n, w

(* Without any stop it goes on, however many turns it is given.               *)
LEMMA NothingStopsIt ==
  ASSUME NEW S, NEW buf \in Seq(S), \A j \in LineStarts(buf) : ~LeavesAt(buf, j),
         NEW i \in LineStarts(buf)
  PROVE  HeaderWalk(buf)[<<i, Len(buf) + 1>>] = "forever"
<1> DEFINE n == Len(buf) + 1
           w == HeaderWalk(buf)
           T == {m \in 0 .. n : \A k \in LineStarts(buf) : w[<<k, m>>] = "forever"}
<1>1. n \in Nat /\ LineStarts(buf) \subseteq 1 .. n
  BY DEF LineStarts
<1>2. 0 \in T
  <2>1. 0 \in 0 .. n
    BY <1>1
  <2> QED
    BY <2>1, WalkTurns
<1>3. ASSUME NEW m \in 0 .. n - 1, m \in T PROVE m + 1 \in T
  <2>1. m + 1 \in 0 .. n /\ m + 1 # 0 /\ (m + 1) - 1 = m
    BY <1>1
  <2>2. ASSUME NEW k \in LineStarts(buf) PROVE w[<<k, m + 1>>] = "forever"
    <3>1. NextPlace(buf, k) \in LineStarts(buf)
      BY <1>1, TurnTaken
    <3>2. w[<<k, m + 1>>] = w[<<NextPlace(buf, k), m>>]
      BY <1>1, <2>1, WalkTurns
    <3> HIDE DEF n, w
    <3> QED
      BY <1>3, <3>1, <3>2
  <2> QED
    BY <2>1, <2>2
<1>4. n \in 0 .. n /\ 0 .. n \subseteq T
  <2> HIDE DEF n, T
  <2>1. n \in 0 .. n
    BY <1>1
  <2>2. 0 .. n \subseteq T
    BY <1>1, <1>2, <1>3, EveryTurn
  <2> QED
    BY <2>1, <2>2
<1> QED
  BY <1>4

-----------------------------------------------------------------------------
(* What the loop of praseHeader (HttpHandler.cc:172) does with any buffer: it *)
(* is decided by the first line behind the request line that is empty or has  *)
(* no colon.  Without one, the walk wraps into the request line, and is left  *)
(* there or goes round for ever.                                              *)
THEOREM FirstStopIsOutcome ==
  ASSUME NEW S, NEW buf \in Seq(S), PraseUrl(buf) # 0
  PROVE  Outcome(buf) = IF Stops(buf) # {} THEN LeavesWith(buf, Min(Stops(buf)))
                        ELSE IF LeavesAt(buf, 1) THEN "error" ELSE "forever"
<1>1. /\ Outcome(buf) = HeaderWalk(buf)[<<3, Len(buf) + 1>>]
      /\ 3 \in LineStarts(buf)
  BY HeadersBegin DEF Outcome
<1>2. CASE Stops(buf) # {}
  <2> DEFINE e == Min(Stops(buf))
  <2>1. Stops(buf) \subseteq Nat
    BY DEF Stops, LineStarts
  <2>2. e \in Stops(buf) /\ \A j \in Stops(buf) : e <= j
    BY <1>2, <2>1, MinIsLeast
  <2>3. e \in LineStarts(buf) /\ LeavesAt(buf, e) /\ 3 <= e /\ e \in Nat
    BY <2>1, <2>2, HeadersBegin DEF Stops
  <2> HIDE DEF e
  <2>4. ASSUME NEW j \in LineStarts(buf), 3 <= j, j < e PROVE ~LeavesAt(buf, j)
    <3>1. j \in Nat /\ j # 1
      BY <2>4 DEF LineStarts
    <3> QED
      BY <2>2, <2>3, <2>4, <3>1 DEF Stops
  <2>5. HeaderWalk(buf)[<<3, Len(buf) + 1>>] = LeavesWith(buf, e)
    BY <1>1, <2>3, <2>4, FirstStopDecides
  <2> QED
    BY <1>1, <1>2, <2>5 DEF e
<1>3. CASE Stops(buf) = {} /\ LeavesAt(buf, 1)
  <2>1. LeavesWith(buf, 1) = "error"
    BY HeadersBegin DEF LeavesWith
  <2> QED
    BY <1>1, <1>3, <2>1, RequestLineDecides
<1>4. CASE Stops(buf) = {} /\ ~LeavesAt(buf, 1)
  <2>1. \A j \in LineStarts(buf) : ~LeavesAt(buf, j)
    BY <1>4 DEF Stops
  <2> QED
    BY <1>1, <1>4, <2>1, NothingStopsIt
<1> QED
  BY <1>2, <1>3, <1>4

(* A turn of the loop; it stays where it leaves.                              *)
TurnFrom(buf, i) == IF LeavesAt(buf, i) THEN i ELSE NextPlace(buf, i)

(* The turns that HeaderWalk counts are enough: a buffer that praseHeader     *)
(* leaves, after any number of turns, is none it goes round in for ever.      *)
THEOREM ForeverIsForEver ==
  ASSUME NEW S, NEW buf \in Seq(S), PraseUrl(buf) # 0, NEW n \in Nat, NEW bpos,
         bpos[0] = PraseUrl(buf),
         \A k \in 1 .. n : bpos[k] = TurnFrom(buf, bpos[k - 1]),
         Outcome(buf) = "forever"
  PROVE  ~LeavesAt(buf, bpos[n])
<1> DEFINE T == {k \in 0 .. n : bpos[k] \in LineStarts(buf)}
<1>1. \A j \in LineStarts(buf) : ~LeavesAt(buf, j)
  BY FirstStopIsOutcome DEF Stops, LeavesWith
<1>2. 0 \in T
  BY HeadersBegin
<1>3. ASSUME NEW k \in 0 .. n - 1, k \in T PROVE k + 1 \in T
  <2>1. k + 1 \in 1 .. n /\ k + 1 \in 0 .. n /\ (k + 1) - 1 = k
    OBVIOUS
  <2>2. bpos[k] \in LineStarts(buf) /\ bpos[k] \in 1 .. Len(buf) + 1
    BY <1>3 DEF LineStarts
  <2>3. bpos[k + 1] = NextPlace(buf, bpos[k])
    BY <1>1, <2>1, <2>2 DEF TurnFrom
  <2> QED
    BY <1>1, <2>1, <2>2, <2>3, TurnTaken
<1>4. 0 .. n \subseteq T
  <2> HIDE DEF T
  <2> QED
    BY <1>2, <1>3, EveryTurn
<1>5. n \in 0 .. n
  OBVIOUS
<1> QED
  BY <1>1, <1>4, <1>5

LEMMA EmptyLineStops ==
  ASSUME NEW S, NEW buf \in Seq(S), NEW e \in EmptyLines(buf)
  PROVE  e \in Stops(buf) /\ EmptyLineAt(buf, e)
<1>1. e \in 2 .. Len(buf) /\ buf[e] = CRLF /\ buf[e - 1] = CRLF
  BY DEF EmptyLines
<1>2. FindCrlf(buf, e) \in e .. e
  BY <1>1, FindCrlfFinds
<1> QED
  BY <1>1, <1>2 DEF Stops, LineStarts, LeavesAt, EmptyLineAt

(* A buffer that holds an empty line is parsed to an end, whatever else was   *)
(* received with it.                                                          *)
THEOREM EmptyLineEndsWalk ==
  ASSUME NEW S, NEW buf \in Seq(S), EmptyLines(buf) # {}
  PROVE  Outcome(buf) # "forever"
<1>1. CASE PraseUrl(buf) = 0
  BY <1>1 DEF Outcome
<1>2. CASE PraseUrl(buf) # 0
  BY <1>2, EmptyLineStops, FirstStopIsOutcome DEF LeavesWith
<1> QED
  BY <1>1, <1>2

(* A request is taken for complete at its first empty line and nowhere else:  *)
(* every line in front of that one is a header with a colon.  The Connection  *)
(* lines that count are therefore those of the first request in the buffer.   *)
THEOREM EndsAtFirstEmptyLine ==
  ASSUME NEW S, NEW buf \in Seq(S), Outcome(buf) = "end"
  PROVE  /\ EmptyLines(buf) # {}
         /\ \A i \in Stops(buf) : Min(EmptyLines(buf)) <= i
<1>1. PraseUrl(buf) # 0
  BY DEF Outcome
<1>2. Stops(buf) # {} /\ EmptyLineAt(buf, Min(Stops(buf)))
  BY <1>1, FirstStopIsOutcome DEF LeavesWith
<1> DEFINE i == Min(Stops(buf))
<1>3. Stops(buf) \subseteq Nat /\ EmptyLines(buf) \subseteq Nat
  BY DEF Stops, LineStarts, EmptyLines
<1>4. i \in Stops(buf) /\ \A j \in Stops(buf) : i <= j
  BY <1>2, <1>3, MinIsLeast
<1>5. i \in 2 .. Len(buf) + 1 /\ buf[i - 1] = CRLF
  BY <1>4 DEF Stops, LineStarts
<1>6. i \in EmptyLines(buf)
  <2>1. i \in i .. Len(buf) /\ buf[i] = CRLF
    BY <1>2, <1>5, FindCrlfRange DEF EmptyLineAt
  <2> QED
    BY <1>5, <2>1 DEF EmptyLines
<1>7. Min(EmptyLines(buf)) \in EmptyLines(buf) /\ Min(EmptyLines(buf)) <= i
  BY <1>3, <1>6, MinIsLeast
<1>8. ASSUME NEW j \in Stops(buf) PROVE Min(EmptyLines(buf)) <= j
  BY <1>3, <1>4, <1>7
<1> QED
  BY <1>6, <1>8
=============================================================================
