--------------------------- MODULE WorkgroupsProofs ---------------------------
(***************************************************************************)
(* Facts about the division of an array among workgroups, used for every   *)
(* primitive made of them, and what the two loops of a workgroup compute:  *)
(* the tree sum the sum of its elements, the Hillis-Steele scan their      *)
(* running sums.  Induction is over the least counterexample in Nat.       *)
(***************************************************************************)
EXTENDS Workgroups, WellFoundedInduction, TLAPS

LEMMA LengthFacts ==
    ASSUME NEW k \in Nat, NEW f, DOMAIN f = 1 .. k
    PROVE  Len(f) = k
  OBVIOUS

LEMMA Quotient ==
    ASSUME NEW a \in Nat, NEW w \in Nat, w >= 1
    PROVE  /\ a \div w \in Nat
           /\ w * (a \div w) <= a /\ a < w * ((a \div w) + 1)
  OBVIOUS

LEMMA BlocksFacts ==
    ASSUME NEW m \in Nat
    PROVE  /\ Blocks(m) \in Nat /\ Blocks(m) <= m
           /\ W * Blocks(m) < m + W /\ m <= W * Blocks(m)
           /\ W \in Nat /\ W >= 2
  <1>1. W \in Nat /\ W >= 2
    BY WorkgroupAssumption
  <1> DEFINE q == Blocks(m)
  <1>2. q \in Nat /\ W * q <= m + W - 1 /\ m + W - 1 < W * (q + 1)
    BY <1>1, Quotient DEF Blocks
  <1>3. W * (q + 1) = W * q + W
    BY <1>1, <1>2
  <1>4. W * q \in Nat
    BY <1>1, <1>2
  <1> HIDE DEF q
  <1>5. W * q < m + W /\ m <= W * q
    BY <1>1, <1>2, <1>3, <1>4
  <1>6. q <= m
    <2> SUFFICES ASSUME q >= m + 1 PROVE FALSE
      BY <1>2
    <2>1. W * q >= W * (m + 1)
      BY <1>1, <1>2
    <2>2. W * (m + 1) = W * m + W /\ W * m >= m /\ W * m \in Nat
      BY <1>1
    <2> QED
      BY <1>1, <1>4, <1>5, <2>1, <2>2
  <1> QED
    BY <1>1, <1>2, <1>5, <1>6 DEF q

(* Fewer elements do not need more workgroups. *)
LEMMA BlocksMonotonic ==
    ASSUME NEW m \in Nat, NEW k \in Nat, m <= k
    PROVE  Blocks(m) <= Blocks(k)
  <1> DEFINE p == Blocks(m)
             q == Blocks(k)
  <1>1. /\ p \in Nat /\ q \in Nat /\ W \in Nat /\ W >= 2
        /\ W * p < m + W /\ k <= W * q
    BY BlocksFacts
  <1> HIDE DEF p, q
  <1>2. SUFFICES ASSUME p >= q + 1 PROVE FALSE
    BY <1>1 DEF p, q
  <1>3. W * p >= W * (q + 1) /\ W * (q + 1) = W * q + W /\ W * q \in Nat /\ W * p \in Nat
    BY <1>1, <1>2
  <1> QED
    BY <1>1, <1>3

(* Two workgroups work on different elements. *)
LEMMA GroupsApart ==
    ASSUME NEW g \in Nat \ {0}, NEW h \in Nat \ {0}, NEW t \in 1 .. W, g # h
    PROVE  /\ Global(h, t) \in Nat \ {0}
           /\ ~(Global(g, 1) <= Global(h, t) /\ Global(h, t) <= Global(g, W))
  <1>1. W \in Nat /\ W >= 2
    BY WorkgroupAssumption
  <1>2. (g - 1) * W \in Nat /\ (h - 1) * W \in Nat
    BY <1>1
  <1>3. CASE g < h
    <2>1. (h - 1) * W >= g * W /\ g * W = (g - 1) * W + W
      BY <1>1, <1>3
    <2> QED
      BY <1>1, <1>2, <2>1 DEF Global
  <1>4. CASE h < g
    <2>1. (g - 1) * W >= h * W /\ h * W = (h - 1) * W + W
      BY <1>1, <1>4
    <2> QED
      BY <1>1, <1>2, <2>1 DEF Global
  <1> QED
    BY <1>3, <1>4
LEMMA GlobalApart ==
    ASSUME NEW g \in Nat \ {0}, NEW h \in Nat \ {0}, NEW t \in 1 .. W, NEW u \in 1 .. W,
           Global(g, t) = Global(h, u)
    PROVE  g = h /\ t = u
  <1>1. W \in Nat /\ W >= 2 /\ (g - 1) * W \in Nat
    BY WorkgroupAssumption
  <1>2. g = h
    <2> SUFFICES ASSUME g # h PROVE FALSE
      OBVIOUS
    <2>1. ~(Global(g, 1) <= Global(h, u) /\ Global(h, u) <= Global(g, W))
      BY GroupsApart
    <2> QED
      BY <1>1, <2>1 DEF Global
  <1> QED
    BY <1>1, <1>2 DEF Global

LEMMA EveryElementLoaded ==
    ASSUME NEW m \in Nat, NEW i \in 1 .. m
    PROVE  \E g \in 1 .. Blocks(m) : \E t \in 1 .. W : Global(g, t) = i
  <1> DEFINE q == (i - 1) \div W
  <1>1. /\ W \in Nat /\ W >= 2 /\ Blocks(m) \in Nat /\ W * Blocks(m) >= m
    BY BlocksFacts
  <1>2. q \in Nat /\ W * q <= i - 1 /\ i - 1 < W * (q + 1) /\ W * (q + 1) = W * q + W
    BY <1>1, Quotient
  <1> HIDE DEF q
  <1>3. q + 1 <= Blocks(m)
    <2> SUFFICES ASSUME Blocks(m) <= q PROVE FALSE
      BY <1>1, <1>2
    <2>1. W * Blocks(m) <= W * q
      BY <1>1, <1>2
    <2>2. W * q \in Nat /\ W * Blocks(m) \in Nat
      BY <1>1, <1>2
    <2> QED
      BY <1>1, <1>2, <2>1, <2>2
  <1>4. ((q + 1) - 1) * W = W * q /\ W * q \in Nat
    BY <1>1, <1>2
  <1>5. i - W * q \in 1 .. W /\ Global(q + 1, i - W * q) = i
    BY <1>1, <1>2, <1>4 DEF Global
  <1> QED
    BY <1>2, <1>3, <1>5

LEMMA BlocksPositive ==
    ASSUME NEW m \in Nat, m >= 1
    PROVE  Blocks(m) >= 1
  <1>1. W \in Nat /\ Blocks(m) \in Nat /\ W * Blocks(m) >= m
    BY BlocksFacts
  <1>2. Blocks(m) = 0 => W * Blocks(m) = 0
    BY <1>1
  <1> QED
    BY <1>1, <1>2

-------------------------------------------------------------------------------
(* Induction, from the well-foundedness of Nat. *)
Less == {p \in Nat \X Nat : p[1] < p[2]}

LEMMA LessWellFounded == IsWellFoundedOn(Less, Nat)
  BY NatLessThanWellFounded DEF OpToRel, Less

LEMMA Smallest ==
    ASSUME NEW T \in SUBSET Nat, T # {}
    PROVE  \E m \in T : \A k \in T : m <= k
  <1>1. PICK m \in T : \A k \in T : <<k, m>> \notin Less
    BY LessWellFounded, WFMin
  <1>2. ASSUME NEW k \in T, k < m PROVE FALSE
    <2>1. <<k, m>> \in Less
      BY <1>2 DEF Less
    <2> QED
      BY <1>1, <2>1
  <1> QED
    BY <1>2

LEMMA Largest ==
    ASSUME NEW b \in Nat, NEW T \in SUBSET (0 .. b), T # {}
    PROVE  \E m \in T : \A k \in T : k <= m
  <1> DEFINE U == {b - k : k \in T}
  <1>1. PICK u \in U : \A v \in U : u <= v
    <2>1. U \in SUBSET Nat /\ U # {}
      OBVIOUS
    <2> QED
      BY <2>1, Smallest
  <1>2. PICK m \in T : u = b - m
    OBVIOUS
  <1>3. \A k \in T : k <= m
    BY <1>1, <1>2
  <1> QED
    BY <1>3

LEMMA Induction ==
    ASSUME NEW S, 0 \in S, \A k \in Nat : k \in S => k + 1 \in S
    PROVE  Nat \subseteq S
  <1> SUFFICES ASSUME Nat \ S # {} PROVE FALSE
    OBVIOUS
  <1>1. PICK m \in Nat \ S : \A k \in Nat \ S : m <= k
    BY Smallest
  <1>2. m # 0 /\ m - 1 \in Nat
    BY <1>1
  <1>3. m - 1 \in S
    BY <1>1, <1>2
  <1> QED
    BY <1>1, <1>2, <1>3

-------------------------------------------------------------------------------
(* The strides of the rounds are the powers of two. *)
Powers == {2^k : k \in 0 .. 10}

LEMMA PowersAre == Powers = {1, 2, 4, 8, 16, 32, 64, 128, 256, 512, 1024}
  <1>1. 0 .. 10 = {0, 1, 2, 3, 4, 5, 6, 7, 8, 9, 10}
    OBVIOUS
  <1>2. /\ 2^0 = 1 /\ 2^1 = 2 /\ 2^2 = 4 /\ 2^3 = 8 /\ 2^4 = 16 /\ 2^5 = 32
        /\ 2^6 = 64 /\ 2^7 = 128 /\ 2^8 = 256 /\ 2^9 = 512 /\ 2^10 = 1024
    OBVIOUS
  <1> QED
    BY <1>1, <1>2 DEF Powers

LEMMA WIsAPower == W \in Powers /\ W \in Nat /\ W >= 2
  <1>1. PICK k \in 1 .. 10 : W = 2^k
    BY WorkgroupAssumption
  <1>2. k \in 0 .. 10
    OBVIOUS
  <1> QED
    BY <1>1, <1>2, WorkgroupAssumption DEF Powers

LEMMA DoubleFacts ==
    ASSUME NEW s \in Powers
    PROVE  /\ s \in Nat \ {0}
           /\ s < W => 2 * s \in Powers /\ 2 * s <= W
           /\ \A r \in Powers : r > s => r >= 2 * s
           /\ s # 1 => s \div 2 \in Powers /\ 2 * (s \div 2) = s
  BY WIsAPower, PowersAre
-------------------------------------------------------------------------------
(* A value that adds each of the positions in a set once is the bag of the set. *)
LEMMA AddApart ==
    ASSUME NEW A, NEW B, A \cap B = {}
    PROVE  SetToBag(A) (+) SetToBag(B) = SetToBag(A \cup B)
  BY DEF SetToBag, (+)

Apart(S) == \A t, u \in DOMAIN S : t # u => S[t] \cap S[u] = {}

(* The rounds of the tree have a solution, so the definition unfolds.        *)
TreeRounds(loaded, round, D) ==
    round = [s \in D |-> IF s = W THEN loaded
                         ELSE [t \in 1 .. W |-> IF t <= s THEN round[2 * s][t] (+) round[2 * s][t + s]
                                                ELSE round[2 * s][t]]]

LEMMA TreeRoundsExist ==
    ASSUME NEW loaded
    PROVE  \E round : TreeRounds(loaded, round, Powers \cap 1 .. W)
  <1> DEFINE D(b) == {r \in Powers : b <= r /\ r <= W}
             Bad == {s \in Powers \cap 1 .. W : ~ \E round : TreeRounds(loaded, round, D(s))}
  <1>1. Bad = {}
    <2> SUFFICES ASSUME Bad # {} PROVE FALSE
      OBVIOUS
    <2>1. Bad \in SUBSET (0 .. W) /\ W \in Nat
      BY WIsAPower
    <2>2. PICK s \in Bad : \A r \in Bad : r <= s
      BY <2>1, Largest
    <2>3. s \in Powers /\ s \in Nat \ {0} /\ s <= W /\ ~ \E round : TreeRounds(loaded, round, D(s))
      <3>1. s \in Powers \cap 1 .. W /\ ~ \E round : TreeRounds(loaded, round, D(s))
        BY <2>2
      <3>2. s \in Nat \ {0} /\ s <= W
        BY <3>1, DoubleFacts
      <3> QED
        BY <3>1, <3>2
    <2>4. CASE s = W
      <3> DEFINE f == [r \in {W} |-> loaded]
      <3>1. D(s) = {W}
        BY <2>3, <2>4, PowersAre, WIsAPower
      <3>2. TreeRounds(loaded, f, D(s))
        BY <3>1 DEF TreeRounds
      <3> QED
        BY <2>3, <3>2
    <2>5. CASE s < W
      <3>1. 2 * s \in Powers /\ 2 * s <= W /\ 2 * s > s /\ 2 * s \in 1 .. W
        BY <2>3, <2>5, DoubleFacts, WIsAPower
      <3>2. PICK f : TreeRounds(loaded, f, D(2 * s))
        BY <2>2, <2>3, <3>1
      <3> DEFINE new == [t \in 1 .. W |-> IF t <= s THEN f[2 * s][t] (+) f[2 * s][t + s]
                                          ELSE f[2 * s][t]]
                 g == [r \in D(s) |-> IF r = s THEN new ELSE f[r]]
      <3>3. \A r \in D(s) : r = s \/ r \in D(2 * s)
        BY <2>3, DoubleFacts
      <3>4. D(2 * s) \subseteq D(s)
        BY <2>3, <3>1, PowersAre, WIsAPower
      <3>5. \A r \in D(2 * s) : r # s /\ (r # W => 2 * r \in D(2 * s) /\ 2 * r # s)
        BY <2>3, <3>1, DoubleFacts, PowersAre, WIsAPower
      <3>6. s \in D(s) /\ 2 * s \in D(2 * s) /\ s # W
        BY <2>3, <2>5, <3>1
      <3>7. \A r \in D(2 * s) : f[r] = IF r = W THEN loaded
                ELSE [t \in 1 .. W |-> IF t <= r THEN f[2 * r][t] (+) f[2 * r][t + r]
                                       ELSE f[2 * r][t]]
        BY <3>2 DEF TreeRounds
      <3> HIDE DEF D, Bad
      <3>8. g[s] = new /\ \A r \in D(2 * s) : g[r] = f[r]
        BY <3>4, <3>5, <3>6
      <3>9. TreeRounds(loaded, g, D(s))
        <4>1. \A r \in D(s) : g[r] = IF r = W THEN loaded
                ELSE [t \in 1 .. W |-> IF t <= r THEN g[2 * r][t] (+) g[2 * r][t + r]
                                       ELSE g[2 * r][t]]
          <5> SUFFICES ASSUME NEW r \in D(s)
                       PROVE  g[r] = IF r = W THEN loaded
                ELSE [t \in 1 .. W |-> IF t <= r THEN g[2 * r][t] (+) g[2 * r][t + r]
                                       ELSE g[2 * r][t]]
            OBVIOUS
          <5>1. CASE r = s
            <6>1. g[2 * s] = f[2 * s]
              BY <3>6, <3>8
            <6> QED
              BY <3>6, <3>8, <5>1, <6>1
          <5>2. CASE r \in D(2 * s)
            <6>1. g[r] = f[r] /\ (r # W => g[2 * r] = f[2 * r])
              BY <3>5, <3>8, <5>2
            <6> HIDE DEF g
            <6> QED
              BY <3>7, <5>2, <6>1
          <5> QED
            BY <3>3, <5>1, <5>2
        <4> QED
          BY <4>1 DEF TreeRounds
      <3> QED
        BY <2>3, <3>9
    <2> QED
      BY <2>3, <2>4, <2>5, WIsAPower
  <1>2. 1 \in Powers \cap 1 .. W /\ D(1) = Powers \cap 1 .. W
    BY PowersAre, WIsAPower
  <1> QED
    BY <1>1, <1>2
LEMMA TreeSumUnfolds ==
    ASSUME NEW loaded
    PROVE  \E round : /\ TreeRounds(loaded, round, Powers \cap 1 .. W)
                      /\ TreeSum(loaded) = round[1][1]
  <1> DEFINE D == {2^k : k \in 0 .. 10} \cap 1 .. W
             round == CHOOSE f : f = [s \in D |-> IF s = W THEN loaded
                         ELSE [t \in 1 .. W |-> LET v == f[2 * s]
                                   IN  IF t <= s THEN v[t] (+) v[t + s] ELSE v[t]]]
  <1>1. \E f : TreeRounds(loaded, f, D)
    BY TreeRoundsExist DEF Powers
  <1>2. TreeRounds(loaded, round, D)
    BY <1>1 DEF TreeRounds
  <1>3. TreeSum(loaded) = round[1][1]
    BY DEF TreeSum
  <1> HIDE DEF round
  <1> QED
    BY <1>2, <1>3 DEF Powers

(* The threads whose elements have been added into thread t's when the       *)
(* round of stride s is over.                                                *)
Span(s, t) == {u \in 1 .. W : \E q \in Nat : u = t + q * s}
Added(S, U)  == UNION {S[u] : u \in U}

LEMMA SpanHalves ==
    ASSUME NEW s \in Nat \ {0}, NEW t \in 1 .. s
    PROVE  /\ Span(s, t) = Span(2 * s, t) \cup Span(2 * s, t + s)
           /\ Span(2 * s, t) \cap Span(2 * s, t + s) = {}
  <1>1. ASSUME NEW u \in Span(s, t)
        PROVE  u \in Span(2 * s, t) \/ u \in Span(2 * s, t + s)
    <2>1. PICK q \in Nat : u = t + q * s
      BY DEF Span
    <2>2. PICK h \in Nat : q = 2 * h \/ q = 2 * h + 1
      <3>1. q = 2 * (q \div 2) \/ q = 2 * (q \div 2) + 1
        BY <2>1
      <3> QED
        BY <3>1, <2>1
    <2>3. (2 * h) * s = h * (2 * s) /\ (2 * h + 1) * s = h * (2 * s) + s
      BY <2>2
    <2>4. u = t + h * (2 * s) \/ u = (t + s) + h * (2 * s)
      <3>1. h * (2 * s) \in Nat
        BY <2>2
      <3> QED
        BY <2>1, <2>2, <2>3, <3>1
    <2> QED
      BY <2>2, <2>4 DEF Span
  <1>2. ASSUME NEW u \in Span(2 * s, t) PROVE u \in Span(s, t)
    <2>1. PICK h \in Nat : u = t + h * (2 * s)
      BY DEF Span
    <2>2. u = t + (2 * h) * s /\ 2 * h \in Nat
      BY <2>1
    <2> QED
      BY <2>2 DEF Span
  <1>3. ASSUME NEW u \in Span(2 * s, t + s) PROVE u \in Span(s, t)
    <2>1. PICK h \in Nat : u = (t + s) + h * (2 * s)
      BY DEF Span
    <2>2. u = t + (2 * h + 1) * s /\ 2 * h + 1 \in Nat
      BY <2>1
    <2> QED
      BY <2>2 DEF Span
  <1>4. ASSUME NEW u \in Span(2 * s, t), u \in Span(2 * s, t + s) PROVE FALSE
    <2>1. PICK h \in Nat : u = t + h * (2 * s)
      BY DEF Span
    <2>2. PICK j \in Nat : u = (t + s) + j * (2 * s)
      BY <1>4 DEF Span
    <2>3. h * (2 * s) = 2 * (h * s) /\ j * (2 * s) = 2 * (j * s) /\ h * s \in Nat /\ j * s \in Nat
      BY <2>1, <2>2
    <2>4. 2 * (h * s) = s + 2 * (j * s)
      <3>1. u = t + 2 * (h * s) /\ u = (t + s) + 2 * (j * s)
        BY <2>1, <2>2, <2>3
      <3>2. \A x, y \in Nat : u = t + 2 * x /\ u = (t + s) + 2 * y => 2 * x = s + 2 * y
        OBVIOUS
      <3> QED
        BY <2>3, <3>1, <3>2
    <2>5. CASE h <= j
      <3>1. h * s <= j * s
        BY <2>5
      <3> QED
        BY <2>3, <2>4, <3>1
    <2>6. CASE h >= j + 1
      <3>1. h * s >= (j + 1) * s /\ (j + 1) * s = j * s + s
        BY <2>6
      <3> QED
        BY <2>3, <2>4, <3>1
    <2> QED
      BY <2>5, <2>6
  <1> QED
    BY <1>1, <1>2, <1>3, <1>4

(* A sum over two disjoint sets of elements. *)
LEMMA SumApart ==
    ASSUME NEW S, Apart(S), NEW U \in SUBSET DOMAIN S, NEW V \in SUBSET DOMAIN S, U \cap V = {}
    PROVE  SetToBag(Added(S, U)) (+) SetToBag(Added(S, V)) = SetToBag(Added(S, U \cup V))
  <1>1. Added(S, U) \cap Added(S, V) = {}
    BY DEF Added, Apart
  <1>2. Added(S, U) \cup Added(S, V) = Added(S, U \cup V)
    BY DEF Added
  <1> QED
    BY <1>1, <1>2, AddApart

(* The tree reduction adds the elements of all threads, each of them once.   *)
LEMMA TreeSumAdds ==
    ASSUME NEW S, DOMAIN S = 1 .. W, Apart(S),
           NEW loaded, loaded = [t \in 1 .. W |-> SetToBag(S[t])]
    PROVE  TreeSum(loaded) = SetToBag(UNION {S[t] : t \in 1 .. W})
  <1> DEFINE D == Powers \cap 1 .. W
  <1>1. PICK round : TreeRounds(loaded, round, D) /\ TreeSum(loaded) = round[1][1]
    BY TreeSumUnfolds
  <1>2. W \in D /\ W \in Nat /\ W >= 2 /\ 1 \in D
    BY WIsAPower, PowersAre
  <1> DEFINE Right(s) == \A t \in 1 .. s : round[s][t] = SetToBag(Added(S, Span(s, t)))
             Bad == {s \in D : ~ Right(s)}
  <1>3. Bad = {}
    <2> SUFFICES ASSUME Bad # {} PROVE FALSE
      OBVIOUS
    <2>1. Bad \in SUBSET (0 .. W) /\ W \in Nat
      BY <1>2
    <2>2. PICK s \in Bad : \A r \in Bad : r <= s
      BY <2>1, Largest
    <2>3. s \in D /\ s \in Powers /\ s \in Nat \ {0} /\ s <= W /\ ~ Right(s)
      BY <2>2, DoubleFacts
    <2>4. CASE s = W
      <3>1. \A t \in 1 .. W : Span(W, t) = {t}
        <4> SUFFICES ASSUME NEW t \in 1 .. W, NEW u \in Span(W, t) PROVE u = t
          <5>1. \A t \in 1 .. W : t = t + 0 * W
            BY <1>2
          <5> QED
            BY <5>1 DEF Span
        <4>1. PICK q \in Nat : u = t + q * W /\ u \in 1 .. W
          BY DEF Span
        <4>2. q >= 1 => q * W >= W
          BY <4>1, <1>2
        <4>3. q = 0 => q * W = 0
          BY <1>2
        <4> QED
          BY <4>1, <4>2, <4>3, <1>2
      <3>2. round[W] = loaded
        BY <1>1, <1>2 DEF TreeRounds
      <3>3. \A t \in 1 .. W : Added(S, {t}) = S[t]
        BY DEF Added
      <3> QED
        BY <2>3, <2>4, <3>1, <3>2, <3>3
    <2>5. CASE s < W
      <3>1. 2 * s \in D /\ 2 * s > s /\ 2 * s <= W
        BY <2>3, <2>5, DoubleFacts, <1>2
      <3>2. Right(2 * s)
        BY <2>2, <2>3, <3>1
      <3>3. round[s] = [t \in 1 .. W |-> IF t <= s THEN round[2 * s][t] (+) round[2 * s][t + s]
                                         ELSE round[2 * s][t]]
        <4>1. \A r \in D : round[r] = IF r = W THEN loaded
                ELSE [t \in 1 .. W |-> IF t <= r THEN round[2 * r][t] (+) round[2 * r][t + r]
                                       ELSE round[2 * r][t]]
          BY <1>1 DEF TreeRounds
        <4>2. s \in D /\ s # W
          BY <2>3, <2>5, <1>2
        <4> HIDE DEF D, Bad, Right
        <4> QED
          BY <4>1, <4>2, Zenon
      <3>4. ASSUME NEW t \in 1 .. s
            PROVE  round[s][t] = SetToBag(Added(S, Span(s, t)))
        <4>1. t \in 1 .. W /\ t <= s /\ t \in 1 .. 2 * s /\ t + s \in 1 .. 2 * s
          BY <2>3, <3>1, <1>2
        <4>2. round[s][t] = round[2 * s][t] (+) round[2 * s][t + s]
          BY <3>3, <4>1
        <4>3. /\ round[2 * s][t] = SetToBag(Added(S, Span(2 * s, t)))
              /\ round[2 * s][t + s] = SetToBag(Added(S, Span(2 * s, t + s)))
          BY <3>2, <4>1
        <4>4. /\ Span(2 * s, t) \in SUBSET (1 .. W) /\ Span(2 * s, t + s) \in SUBSET (1 .. W)
          BY DEF Span
        <4>5. SetToBag(Added(S, Span(2 * s, t))) (+) SetToBag(Added(S, Span(2 * s, t + s)))
                = SetToBag(Added(S, Span(2 * s, t) \cup Span(2 * s, t + s)))
          <5>1. Span(2 * s, t) \cap Span(2 * s, t + s) = {}
            BY SpanHalves, <2>3
          <5> HIDE DEF D
          <5> QED
            BY <4>4, <5>1, SumApart
        <4> QED
          BY <4>2, <4>3, <4>5, SpanHalves, <2>3
      <3> QED
        BY <2>3, <3>4
    <2> QED
      BY <2>3, <2>4, <2>5, <1>2
  <1>4. round[1][1] = SetToBag(Added(S, Span(1, 1)))
    BY <1>2, <1>3
  <1>5. Span(1, 1) = 1 .. W
    <2>1. ASSUME NEW u \in 1 .. W PROVE u = 1 + (u - 1) * 1 /\ u - 1 \in Nat
      BY <1>2
    <2> QED
      BY <2>1 DEF Span
  <1> QED
    BY <1>1, <1>4, <1>5 DEF Added
(* The same for the rounds of the Hillis-Steele scan.                        *)
ScanRounds(loaded, round, D) ==
    round = [d \in D |-> IF d = 1 THEN loaded
                         ELSE [t \in 1 .. W |-> IF t > d \div 2
                                  THEN round[d \div 2][t] (+) round[d \div 2][t - d \div 2]
                                  ELSE round[d \div 2][t]]]

LEMMA ScanRoundsExist ==
    ASSUME NEW loaded
    PROVE  \E round : ScanRounds(loaded, round, Powers)
  <1> DEFINE D(b) == {r \in Powers : r <= b}
             Bad == {s \in Powers : ~ \E round : ScanRounds(loaded, round, D(s))}
  <1>1. Bad = {}
    <2> SUFFICES ASSUME Bad # {} PROVE FALSE
      OBVIOUS
    <2>1. Bad \in SUBSET Nat
      BY PowersAre
    <2>2. PICK s \in Bad : \A r \in Bad : s <= r
      BY <2>1, Smallest
    <2>3. s \in Powers /\ s \in Nat \ {0} /\ ~ \E round : ScanRounds(loaded, round, D(s))
      <3>1. s \in Powers /\ ~ \E round : ScanRounds(loaded, round, D(s))
        BY <2>2
      <3>2. s \in Nat \ {0}
        BY <3>1, DoubleFacts
      <3> QED
        BY <3>1, <3>2
    <2>4. CASE s = 1
      <3> DEFINE f == [r \in {1} |-> loaded]
      <3>1. D(s) = {1}
        BY <2>3, <2>4, PowersAre
      <3>2. ScanRounds(loaded, f, D(s))
        BY <3>1 DEF ScanRounds
      <3> QED
        BY <2>3, <3>2
    <2>5. CASE s # 1
      <3>1. PICK h \in Powers : h = s \div 2 /\ 2 * h = s /\ h \in Nat \ {0} /\ h < s
        <4>1. s \div 2 \in Powers /\ 2 * (s \div 2) = s
          BY <2>3, <2>5, DoubleFacts
        <4>2. s \div 2 \in Nat \ {0}
          BY <4>1, DoubleFacts
        <4> QED
          BY <4>1, <4>2, <2>3
      <3>2. PICK f : ScanRounds(loaded, f, D(h))
        <4>1. h \notin Bad
          <5> HIDE DEF Bad
          <5> QED
            BY <2>2, <2>3, <3>1
        <4> QED
          BY <3>1, <4>1
      <3> DEFINE new == [t \in 1 .. W |-> IF t > h THEN f[h][t] (+) f[h][t - h] ELSE f[h][t]]
                 g == [r \in D(s) |-> IF r = s THEN new ELSE f[r]]
      <3>3. \A r \in D(s) : r = s \/ r \in D(h)
        BY <2>3, <3>1, DoubleFacts, PowersAre
      <3>4. D(h) \subseteq D(s) /\ s \in D(s) /\ h \in D(h)
        BY <2>3, <3>1, PowersAre
      <3>5. \A r \in D(h) : r # s /\ (r # 1 => r \div 2 \in D(h) /\ r \div 2 # s)
        BY <2>3, <3>1, DoubleFacts, PowersAre
      <3>6. \A r \in D(h) : f[r] = IF r = 1 THEN loaded
                ELSE [t \in 1 .. W |-> IF t > r \div 2 THEN f[r \div 2][t] (+) f[r \div 2][t - r \div 2]
                                       ELSE f[r \div 2][t]]
        BY <3>2 DEF ScanRounds
      <3>7. g[s] = new /\ \A r \in D(h) : g[r] = f[r]
        BY <3>4, <3>5
      <3>8. g[s] = IF s = 1 THEN loaded
                ELSE [t \in 1 .. W |-> IF t > s \div 2 THEN g[s \div 2][t] (+) g[s \div 2][t - s \div 2]
                                       ELSE g[s \div 2][t]]
        <4>1. g[s \div 2] = f[s \div 2]
          BY <3>1, <3>4, <3>7
        <4> HIDE DEF g
        <4> QED
          BY <3>1, <3>7, <4>1, <2>5
      <3> HIDE DEF D, Bad
      <3>9. ScanRounds(loaded, g, D(s))
        <4>1. \A r \in D(s) : g[r] = IF r = 1 THEN loaded
                ELSE [t \in 1 .. W |-> IF t > r \div 2 THEN g[r \div 2][t] (+) g[r \div 2][t - r \div 2]
                                       ELSE g[r \div 2][t]]
          <5> HIDE DEF g
          <5>1. ASSUME NEW r \in D(h)
                PROVE  g[r] = IF r = 1 THEN loaded
                ELSE [t \in 1 .. W |-> IF t > r \div 2 THEN g[r \div 2][t] (+) g[r \div 2][t - r \div 2]
                                       ELSE g[r \div 2][t]]
            <6>1. g[r] = f[r] /\ (r # 1 => g[r \div 2] = f[r \div 2])
              BY <3>5, <3>7
            <6> QED
              BY <3>6, <6>1
          <5> QED
            BY <3>3, <3>8, <5>1
        <4> QED
          BY <4>1 DEF ScanRounds
      <3> QED
        BY <2>3, <3>9
    <2> QED
      BY <2>4, <2>5
  <1>2. 1024 \in Powers /\ D(1024) = Powers
    BY PowersAre
  <1> QED
    BY <1>1, <1>2

LEMMA HillisSteeleUnfolds ==
    ASSUME NEW loaded
    PROVE  \E round : ScanRounds(loaded, round, Powers) /\ HillisSteele(loaded) = round[W]
  <1> DEFINE round == CHOOSE f : f = [offset \in {2^k : k \in 0 .. 10} |->
            IF offset = 1 THEN loaded
            ELSE LET v == f[offset \div 2]
                     d == offset \div 2
                 IN  [t \in 1 .. W |-> IF t > d THEN v[t] (+) v[t - d] ELSE v[t]]]
  <1>1. \E f : ScanRounds(loaded, f, Powers)
    BY ScanRoundsExist
  <1>2. ScanRounds(loaded, round, Powers)
    BY <1>1 DEF ScanRounds, Powers
  <1>3. HillisSteele(loaded) = round[W]
    BY DEF HillisSteele
  <1> HIDE DEF round
  <1> QED
    BY <1>2, <1>3

(* The threads whose elements have been added into thread t's after the      *)
(* rounds below offset d.                                                    *)
Window(d, t) == {u \in 1 .. t : u > t - d}

(* The scan leaves with every thread the elements up to its own, each once.  *)
LEMMA HillisSteeleAdds ==
    ASSUME NEW S, DOMAIN S = 1 .. W, Apart(S),
           NEW loaded, loaded = [t \in 1 .. W |-> SetToBag(S[t])]
    PROVE  HillisSteele(loaded) = [t \in 1 .. W |-> SetToBag(Added(S, 1 .. t))]
  <1>1. PICK round : ScanRounds(loaded, round, Powers) /\ HillisSteele(loaded) = round[W]
    BY HillisSteeleUnfolds
  <1> DEFINE Right(d) == round[d] = [t \in 1 .. W |-> SetToBag(Added(S, Window(d, t)))]
             Bad == {d \in Powers : ~ Right(d)}
  <1>2. W \in Powers /\ W \in Nat
    BY WIsAPower
  <1>3. \A d \in Powers : round[d] = IF d = 1 THEN loaded
          ELSE [t \in 1 .. W |-> IF t > d \div 2
                                  THEN round[d \div 2][t] (+) round[d \div 2][t - d \div 2]
                                  ELSE round[d \div 2][t]]
    BY <1>1 DEF ScanRounds
  <1>4. Bad = {}
    <2> SUFFICES ASSUME Bad # {} PROVE FALSE
      OBVIOUS
    <2>1. Bad \in SUBSET Nat
      BY PowersAre
    <2>2. PICK d \in Bad : \A r \in Bad : d <= r
      BY <2>1, Smallest
    <2>3. d \in Powers /\ d \in Nat \ {0} /\ ~ Right(d)
      <3>1. d \in Powers /\ ~ Right(d)
        BY <2>2
      <3>2. d \in Nat \ {0}
        BY <3>1, DoubleFacts
      <3> QED
        BY <3>1, <3>2
    <2>4. CASE d = 1
      <3>1. \A t \in 1 .. W : Window(1, t) = {t} /\ Added(S, {t}) = S[t]
        BY <1>2 DEF Window, Added
      <3>2. round[1] = loaded
        BY <1>3, <2>3, <2>4
      <3>3. \A t \in 1 .. W : loaded[t] = SetToBag(Added(S, Window(1, t)))
        BY <3>1
      <3> QED
        BY <2>3, <2>4, <3>2, <3>3
    <2>5. CASE d # 1
      <3>1. PICK h \in Powers : h = d \div 2 /\ 2 * h = d /\ h \in Nat \ {0} /\ h < d
        <4>1. d \div 2 \in Powers /\ 2 * (d \div 2) = d
          BY <2>3, <2>5, DoubleFacts
        <4>2. d \div 2 \in Nat \ {0}
          BY <4>1, DoubleFacts
        <4> QED
          BY <4>1, <4>2, <2>3
      <3>2. Right(h)
        BY <2>2, <2>3, <3>1
      <3>3. round[d] = [t \in 1 .. W |-> IF t > h THEN round[h][t] (+) round[h][t - h]
                                         ELSE round[h][t]]
        BY <1>3, <2>3, <2>5, <3>1
      <3>4. ASSUME NEW t \in 1 .. W
            PROVE  (IF t > h THEN round[h][t] (+) round[h][t - h] ELSE round[h][t])
                     = SetToBag(Added(S, Window(d, t)))
        <4>1. CASE t > h
          <5>1. t - h \in 1 .. W
            BY <3>1, <4>1, <1>2
          <5>2. /\ Window(h, t) \in SUBSET (1 .. W) /\ Window(h, t - h) \in SUBSET (1 .. W)
                /\ Window(h, t) \cap Window(h, t - h) = {}
            BY <3>1, <5>1, <1>2 DEF Window
          <5>3. Window(h, t) \cup Window(h, t - h) = Window(d, t)
            BY <2>3, <3>1, <4>1, <5>1, <1>2 DEF Window
          <5>4. /\ round[h][t] = SetToBag(Added(S, Window(h, t)))
                /\ round[h][t - h] = SetToBag(Added(S, Window(h, t - h)))
            BY <3>2, <5>1
          <5> HIDE DEF Right, Bad
          <5>5. SetToBag(Added(S, Window(h, t))) (+) SetToBag(Added(S, Window(h, t - h)))
                  = SetToBag(Added(S, Window(h, t) \cup Window(h, t - h)))
            BY <5>2, SumApart
          <5> QED
            BY <4>1, <5>3, <5>4, <5>5
        <4>2. CASE ~(t > h)
          <5>1. Window(h, t) = Window(d, t)
            BY <2>3, <3>1, <4>2, <1>2 DEF Window
          <5> QED
            BY <3>2, <4>2, <5>1
        <4> QED
          BY <4>1, <4>2
      <3>5. Right(d)
        BY <3>3, <3>4
      <3> QED
        BY <2>3, <3>5
    <2> QED
      BY <2>4, <2>5
  <1>5. \A t \in 1 .. W : Window(W, t) = 1 .. t
    BY <1>2 DEF Window
  <1>6. Right(W)
    BY <1>2, <1>4
  <1> QED
    BY <1>1, <1>5, <1>6
===============================================================================
