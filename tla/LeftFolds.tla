----------------------------- MODULE LeftFolds -----------------------------
(***************************************************************************)
(* Induction over the places of a sequence, and what follows for functions *)
(* that are defined by recursion from left to right.  The library states   *)
(* induction for an operator; here it is stated for a set, and a recursion *)
(* is given by the function step that makes a value from the value before  *)
(* and the next element.                                                   *)
(***************************************************************************)
EXTENDS Naturals, Sequences, WellFoundedInduction, TLAPS

\* A set of numbers has a least one: < is well founded on Nat.
LEMMA LeastNat ==
  ASSUME NEW T, T \subseteq Nat, T # {}
  PROVE  \E x \in T : \A y \in T : x <= y
<1> DEFINE R == {pair \in Nat \X Nat : pair[1] < pair[2]}
<1>1. IsWellFoundedOn(R, Nat)
  BY NatLessThanWellFounded, Zenon DEF OpToRel
<1>2. \A x, y \in Nat : <<y, x>> \in R <=> y < x
  OBVIOUS
<1> HIDE DEF R
<1>3. PICK x \in T : \A y \in T : <<y, x>> \notin R
  BY <1>1, WFMin
<1>4. \A y \in T : x \in Nat /\ y \in Nat /\ ~(y < x)
  BY <1>2, <1>3
<1> QED
  BY <1>4

\* And one of numbers up to n has a last one.
LEMMA LastOne ==
  ASSUME NEW n \in Nat, NEW at, at \subseteq 1..n, at # {}
  PROVE  \E k \in at : \A j \in at : j <= k
<1> DEFINE T == {n - k : k \in at}
<1>1. T \subseteq Nat /\ T # {}
  <2>1. \A k \in at : n - k \in Nat
    OBVIOUS
  <2>2. T \subseteq Nat
    BY <2>1
  <2>3. PICK k \in at : TRUE
    OBVIOUS
  <2>4. n - k \in T
    OBVIOUS
  <2> QED
    BY <2>2, <2>4
<1> HIDE DEF T
<1>2. PICK x \in T : \A y \in T : x <= y
  BY <1>1, LeastNat
<1>3. PICK k \in at : x = n - k
  BY DEF T
<1>4. ASSUME NEW j \in at PROVE j <= k
  <2>1. n - j \in T
    BY DEF T
  <2>2. n - k <= n - j
    BY <1>2, <1>3, <2>1
  <2>3. j \in Nat /\ k \in Nat
    OBVIOUS
  <2> QED
    BY <2>2, <2>3
<1> QED
  BY <1>4

\* A set that holds 0, and with a number below n the next one, holds 0..n.
LEMMA Climbing ==
  ASSUME NEW n \in Nat, NEW S, 0 \in S, \A k \in 0..n : k \in S /\ k # n => k + 1 \in S
  PROVE  0..n \subseteq S
<1> DEFINE T == {k \in 0..n : k \notin S}
<1>1. SUFFICES ASSUME T # {} PROVE FALSE
  OBVIOUS
<1>2. PICK k \in T : \A l \in T : k <= l
  <2>1. T \subseteq Nat
    OBVIOUS
  <2> HIDE DEF T
  <2> QED
    BY <1>1, <2>1, LeastNat
<1>3. k # 0 /\ k - 1 \in 0..n /\ k - 1 # n /\ (k - 1) + 1 = k
  BY <1>2
<1>4. k - 1 \in S
  BY <1>2, <1>3
<1> QED
  BY <1>2, <1>3, <1>4

\* f holds the values of the recursion over t: base, and after every element the
\* step from the value before it.
IsFold(f, step, base, t) ==
  /\ DOMAIN f = 0..Len(t)
  /\ f[0] = base
  /\ \A n \in 1..Len(t) : f[n] = step[<<f[n - 1], t[n]>>]

\* step makes a value of Y from a value of Y and an element of X.
StepOn(step, X, Y) == step \in [Y \X X -> Y]

\* There is such a function, and its values are of the type that step keeps.
LEMMA FoldExists ==
  ASSUME NEW X, NEW Y, NEW step, StepOn(step, X, Y), NEW base \in Y, NEW t \in Seq(X)
  PROVE  \E f \in [0..Len(t) -> Y] : IsFold(f, step, base, t)
<1> DEFINE Upto(f, k) == f[0] = base /\ \A n \in 1..k : f[n] = step[<<f[n - 1], t[n]>>]
           S == {k \in 0..Len(t) : \E f \in [0..k -> Y] : Upto(f, k)}
<1>1. 0 \in S
  <2>1. [n \in 0..0 |-> base] \in [0..0 -> Y] /\ Upto([n \in 0..0 |-> base], 0)
    OBVIOUS
  <2>2. \E f \in [0..0 -> Y] : Upto(f, 0)
    BY <2>1
  <2> QED
    BY <2>2
<1>2. ASSUME NEW k \in 0..Len(t), k \in S, k # Len(t)
      PROVE  k + 1 \in S
  <2>1. PICK f \in [0..k -> Y] : Upto(f, k)
    BY <1>2
  <2>2. k \in Nat /\ k + 1 \in 1..Len(t) /\ (k + 1) - 1 = k /\ f[k] \in Y /\ t[k + 1] \in X
    BY <1>2
  <2>3. PICK v \in Y : v = step[<<f[k], t[k + 1]>>]
    BY <2>2 DEF StepOn
  <2> DEFINE g == [n \in 0..(k + 1) |-> IF n = k + 1 THEN v ELSE f[n]]
  <2>4. g \in [0..(k + 1) -> Y]
    BY <2>2, <2>3
  <2>5. \A n \in 0..k : g[n] = f[n]
    BY <2>2
  <2>6. g[k + 1] = step[<<g[k], t[k + 1]>>]
    <3>1. g[k + 1] = v /\ g[k] = f[k]
      BY <2>2, <2>5
    <3> HIDE DEF g
    <3> QED
      BY <2>3, <3>1
  <2>7. ASSUME NEW n \in 1..(k + 1) PROVE g[n] = step[<<g[n - 1], t[n]>>]
    <3>1. CASE n = k + 1
      BY <2>2, <2>6, <3>1
    <3>2. CASE n # k + 1
      <4>1. n \in 1..k /\ n - 1 \in 0..k /\ n \in 0..k
        BY <2>2, <3>2
      <4> HIDE DEF g
      <4> QED
        BY <2>1, <2>5, <4>1
    <3> QED
      BY <3>1, <3>2
  <2>8. g[0] = base
    BY <2>1, <2>2, <2>5
  <2> HIDE DEF g
  <2> QED
    BY <2>2, <2>4, <2>7, <2>8
<1>3. Len(t) \in Nat
  OBVIOUS
<1>4. Len(t) \in S
  <2> HIDE DEF S
  <2>1. 0..Len(t) \subseteq S
    BY <1>1, <1>2, <1>3, Climbing
  <2> QED
    BY <1>3, <2>1
<1> QED
  BY <1>4 DEF IsFold

Agree(f, g, places) == \A n \in places : f[n] = g[n]

\* The values depend on what has been read alone.
LEMMA FoldsAgree ==
  ASSUME NEW X, NEW t \in Seq(X), NEW u \in Seq(X), NEW f, NEW g, NEW step, NEW base,
         IsFold(f, step, base, t), IsFold(g, step, base, u),
         NEW m \in Nat, m <= Len(t), m <= Len(u), Agree(t, u, 1..m)
  PROVE  Agree(f, g, 0..m)
<1> DEFINE S == {k \in 0..m : f[k] = g[k]}
<1>1. 0 \in S
  BY DEF IsFold
<1>2. ASSUME NEW k \in 0..m, k \in S, k # m PROVE k + 1 \in S
  <2>1. k + 1 \in 1..Len(t) /\ k + 1 \in 1..Len(u) /\ k + 1 \in 1..m /\ (k + 1) - 1 = k
    BY <1>2
  <2>2. f[k + 1] = step[<<f[k], t[k + 1]>>] /\ g[k + 1] = step[<<g[k], u[k + 1]>>]
    BY <2>1 DEF IsFold
  <2>3. f[k] = g[k] /\ t[k + 1] = u[k + 1]
    BY <1>2, <2>1 DEF Agree
  <2> QED
    BY <1>2, <2>1, <2>2, <2>3
<1>3. 0..m \subseteq S
  <2> HIDE DEF S
  <2> QED
    BY <1>1, <1>2, Climbing
<1> QED
  BY <1>3 DEF Agree

\* The value after the last element.
LeftFold(step, base, t) == (CHOOSE f : IsFold(f, step, base, t))[Len(t)]

\* However the function of the recursion is given, this is its last value.
LEMMA FoldIs ==
  ASSUME NEW X, NEW t \in Seq(X), NEW f, NEW step, NEW base, IsFold(f, step, base, t)
  PROVE  LeftFold(step, base, t) = f[Len(t)]
<1> DEFINE g == CHOOSE g : IsFold(g, step, base, t)
<1>1. IsFold(g, step, base, t)
  <2>1. \E h : IsFold(h, step, base, t)
    OBVIOUS
  <2> QED
    BY <2>1, Zenon
<1> HIDE DEF g
<1>2. Len(t) \in Nat
  OBVIOUS
<1>3. Agree(f, g, 0..Len(t))
  BY <1>1, <1>2, FoldsAgree DEF Agree
<1> QED
  BY <1>2, <1>3 DEF LeftFold, g, Agree

\* Over nothing it is base.
LEMMA FoldEmpty ==
  ASSUME NEW X, NEW Y, NEW step, StepOn(step, X, Y), NEW base \in Y
  PROVE  LeftFold(step, base, <<>>) = base
<1>1. <<>> \in Seq(X) /\ Len(<<>>) = 0
  OBVIOUS
<1>2. PICK f \in [0..Len(<<>>) -> Y] : IsFold(f, step, base, <<>>)
  BY <1>1, FoldExists
<1>3. LeftFold(step, base, <<>>) = f[Len(<<>>)]
  BY <1>1, <1>2, FoldIs
<1> QED
  BY <1>1, <1>2, <1>3 DEF IsFold

\* It has the type that step keeps.
LEMMA FoldTyped ==
  ASSUME NEW X, NEW Y, NEW step, StepOn(step, X, Y), NEW base \in Y, NEW t \in Seq(X)
  PROVE  LeftFold(step, base, t) \in Y
<1>1. PICK f \in [0..Len(t) -> Y] : IsFold(f, step, base, t)
  BY FoldExists
<1>2. Len(t) \in 0..Len(t)
  OBVIOUS
<1> QED
  BY <1>1, <1>2, FoldIs

\* One element more is one step more.
LEMMA FoldAppend ==
  ASSUME NEW X, NEW Y, NEW step, StepOn(step, X, Y), NEW base \in Y,
         NEW t \in Seq(X), NEW x \in X
  PROVE  LeftFold(step, base, Append(t, x)) = step[<<LeftFold(step, base, t), x>>]
<1> DEFINE u == Append(t, x)
           m == Len(t)
<1>1. u \in Seq(X) /\ Len(u) = m + 1 /\ u[m + 1] = x /\ m \in Nat
      /\ \A n \in 1..m : t[n] = u[n]
  OBVIOUS
<1> HIDE DEF u, m
<1>2. PICK f \in [0..Len(t) -> Y] : IsFold(f, step, base, t)
  BY FoldExists
<1>3. PICK g \in [0..Len(u) -> Y] : IsFold(g, step, base, u)
  BY <1>1, FoldExists
<1>4. f[m] = g[m]
  <2>1. m <= Len(t) /\ m <= Len(u) /\ m \in 0..m
    BY <1>1 DEF m
  <2>2. u \in Seq(X) /\ m \in Nat
    BY <1>1
  <2>3. Agree(t, u, 1..m)
    BY <1>1 DEF Agree
  <2>4. Agree(f, g, 0..m)
    BY <1>2, <1>3, <2>1, <2>2, <2>3, FoldsAgree
  <2> QED
    BY <2>1, <2>4 DEF Agree
<1>5. g[m + 1] = step[<<g[m], x>>]
  BY <1>1, <1>3 DEF IsFold
<1>6. LeftFold(step, base, t) = f[m] /\ LeftFold(step, base, u) = g[m + 1]
  BY <1>1, <1>2, <1>3, FoldIs DEF m
<1> QED
  BY <1>4, <1>5, <1>6 DEF u

\* The elements of t at these places change no value.
Neutral(step, Y, t, places) == \A n \in places, y \in Y : step[<<y, t[n]>>] = y

\* Such elements are passed over.
LEMMA FoldIdle ==
  ASSUME NEW X, NEW Y, NEW step, NEW base, NEW t \in Seq(X), NEW f \in [0..Len(t) -> Y],
         IsFold(f, step, base, t), NEW lo \in 0..Len(t), NEW hi \in 0..Len(t), lo <= hi,
         Neutral(step, Y, t, (lo + 1)..hi)
  PROVE  f[hi] = f[lo]
<1> DEFINE S == {k \in 0..(hi - lo) : f[lo + k] = f[lo]}
<1>1. hi - lo \in Nat /\ lo \in Nat /\ hi \in Nat /\ Len(t) \in Nat /\ lo + (hi - lo) = hi
  OBVIOUS
<1>2. 0 \in S
  BY <1>1
<1>3. ASSUME NEW k \in 0..(hi - lo), k \in S, k # hi - lo PROVE k + 1 \in S
  <2>1. /\ lo + k + 1 \in 1..Len(t) /\ lo + k + 1 \in (lo + 1)..hi /\ lo + k \in 0..Len(t)
        /\ (lo + k + 1) - 1 = lo + k /\ k + 1 \in 0..(hi - lo) /\ lo + (k + 1) = lo + k + 1
    BY <1>1, <1>3
  <2>2. f[lo + k + 1] = step[<<f[lo + k], t[lo + k + 1]>>]
    BY <2>1 DEF IsFold
  <2>3. f[lo + k] \in Y
    BY <2>1
  <2>4. f[lo + k + 1] = f[lo + k]
    BY <2>1, <2>2, <2>3 DEF Neutral
  <2> QED
    BY <1>3, <2>1, <2>4
<1>4. 0..(hi - lo) \subseteq S
  <2> HIDE DEF S
  <2> QED
    BY <1>1, <1>2, <1>3, Climbing
<1> QED
  BY <1>1, <1>4

\* So a part of t has the value of t when nothing outside it changes one.
LEMMA FoldPart ==
  ASSUME NEW X, NEW Y, NEW step, StepOn(step, X, Y), NEW base \in Y, NEW t \in Seq(X),
         NEW a \in 1..Len(t), NEW b \in a..Len(t),
         Neutral(step, Y, t, 1..(a - 1)), Neutral(step, Y, t, (b + 1)..Len(t))
  PROVE  LeftFold(step, base, SubSeq(t, a, b)) = LeftFold(step, base, t)
<1> DEFINE u == SubSeq(t, a, b)
           m == (b - a) + 1
<1>1. /\ Len(t) \in Nat /\ a \in Nat \ {0} /\ b \in Nat /\ a <= b /\ b <= Len(t)
      /\ m \in Nat /\ (a - 1) + m = b
  OBVIOUS
<1>2. u \in Seq(X) /\ Len(u) = m /\ \A k \in 1..m : u[k] = t[(a - 1) + k]
  BY <1>1
<1> HIDE DEF u, m
<1>3. PICK f \in [0..Len(t) -> Y] : IsFold(f, step, base, t)
  BY FoldExists
<1>4. PICK g \in [0..Len(u) -> Y] : IsFold(g, step, base, u)
  BY <1>2, FoldExists
<1>5. f[a - 1] = base
  <2>1. PICK lo \in 0..Len(t), hi \in 0..Len(t) : lo = 0 /\ hi = a - 1
    BY <1>1
  <2>2. lo <= hi /\ Neutral(step, Y, t, (lo + 1)..hi)
    BY <1>1, <2>1
  <2>3. f[hi] = f[lo]
    BY <1>3, <2>2, FoldIdle, SMTT(30)
  <2> QED
    BY <1>3, <2>1, <2>3 DEF IsFold
<1>6. f[Len(t)] = f[b]
  <2>1. b \in 0..Len(t) /\ Len(t) \in 0..Len(t) /\ b <= Len(t)
    BY <1>1
  <2> QED
    BY <1>3, <2>1, FoldIdle
<1> DEFINE S == {k \in 0..m : g[k] = f[(a - 1) + k]}
<1>7. 0 \in S
  BY <1>1, <1>4, <1>5 DEF IsFold
<1>8. ASSUME NEW k \in 0..m, k \in S, k # m PROVE k + 1 \in S
  <2>1. /\ k + 1 \in 1..m /\ (k + 1) - 1 = k /\ (a - 1) + k + 1 \in 1..Len(t)
        /\ ((a - 1) + k + 1) - 1 = (a - 1) + k /\ (a - 1) + (k + 1) = (a - 1) + k + 1
        /\ k + 1 \in 0..m
    BY <1>1, <1>8
  <2>2. g[k + 1] = step[<<g[k], u[k + 1]>>]
    BY <1>2, <1>4, <2>1 DEF IsFold
  <2>3. f[(a - 1) + k + 1] = step[<<f[(a - 1) + k], t[(a - 1) + k + 1]>>]
    BY <1>3, <2>1 DEF IsFold
  <2>4. u[k + 1] = t[(a - 1) + k + 1]
    BY <1>2, <2>1
  <2> QED
    BY <1>8, <2>1, <2>2, <2>3, <2>4
<1>9. 0..m \subseteq S
  <2> HIDE DEF S
  <2> QED
    BY <1>1, <1>7, <1>8, Climbing
<1>10. g[m] = f[b]
  <2>1. m \in S
    <3>1. m \in 0..m
      BY <1>1
    <3> HIDE DEF S
    <3> QED
      BY <1>9, <3>1
  <2> QED
    BY <1>1, <2>1
<1>11. LeftFold(step, base, u) = g[m] /\ LeftFold(step, base, t) = f[Len(t)]
  BY <1>2, <1>3, <1>4, FoldIs
<1> QED
  BY <1>6, <1>10, <1>11 DEF u

\* The same when nothing in t changes a value.
LEMMA FoldNothing ==
  ASSUME NEW X, NEW Y, NEW step, StepOn(step, X, Y), NEW base \in Y, NEW t \in Seq(X),
         Neutral(step, Y, t, 1..Len(t))
  PROVE  LeftFold(step, base, t) = base
<1>1. PICK f \in [0..Len(t) -> Y] : IsFold(f, step, base, t)
  BY FoldExists
<1>2. PICK lo \in 0..Len(t) : lo = 0
  OBVIOUS
<1>3. Len(t) \in 0..Len(t) /\ lo <= Len(t) /\ Neutral(step, Y, t, (lo + 1)..Len(t))
  BY <1>2
<1>4. f[Len(t)] = f[lo]
  BY <1>1, <1>3, FoldIdle
<1>5. LeftFold(step, base, t) = f[Len(t)]
  BY <1>1, FoldIs
<1> QED
  BY <1>1, <1>2, <1>4, <1>5 DEF IsFold

\* What t adds is added after s as well.
LEMMA FoldAfter ==
  ASSUME NEW X, NEW Y, NEW step, StepOn(step, X, Y), NEW base \in Y,
         NEW s \in Seq(X), NEW t \in Seq(X)
  PROVE  LeftFold(step, base, s \o t) = LeftFold(step, LeftFold(step, base, s), t)
<1> DEFINE u == s \o t
           k == Len(s)
           m == Len(t)
<1>1. /\ u \in Seq(X) /\ k \in Nat /\ m \in Nat /\ Len(u) = k + m
      /\ \A n \in 1..k : u[n] = s[n]
      /\ \A n \in 1..m : u[k + n] = t[n]
  <2>1. u \in Seq(X) /\ k \in Nat /\ m \in Nat /\ Len(u) = k + m
    OBVIOUS
  <2>2. \A n \in 1..k : u[n] = s[n]
    OBVIOUS
  <2>3. ASSUME NEW n \in 1..m PROVE u[k + n] = t[n]
    <3>1. k + n \in 1..(k + m) /\ ~(k + n <= k) /\ (k + n) - k = n
      BY <2>1
    <3> QED
      BY <3>1
  <2> QED
    BY <2>1, <2>2, <2>3
<1>2. u \in Seq(X) /\ k <= Len(s) /\ k <= Len(u) /\ Agree(s, u, 1..k)
  BY <1>1 DEF Agree
<1> HIDE DEF u
<1>3. PICK g \in [0..Len(u) -> Y] : IsFold(g, step, base, u)
  BY <1>2, FoldExists
<1>4. PICK h \in [0..Len(s) -> Y] : IsFold(h, step, base, s)
  BY FoldExists
<1>5. Agree(h, g, 0..k)
  BY <1>1, <1>2, <1>3, <1>4, FoldsAgree
<1>6. g[k] = LeftFold(step, base, s)
  BY <1>1, <1>4, <1>5, FoldIs DEF Agree
<1>7. g[k + m] = LeftFold(step, base, u)
  BY <1>1, <1>2, <1>3, FoldIs, ZenonT(30)
<1> DEFINE f == [n \in 0..m |-> g[k + n]]
<1>8. \A n \in 0..m : k + n \in 0..Len(u)
  BY <1>1
<1>9. f \in [0..m -> Y] /\ f[0] = g[k] /\ f[m] = g[k + m]
  BY <1>1, <1>3, <1>8
<1>10. ASSUME NEW n \in 1..m PROVE f[n] = step[<<f[n - 1], t[n]>>]
  <2>1. k + n \in 1..Len(u) /\ (k + n) - 1 = k + (n - 1) /\ n - 1 \in 0..m /\ n \in 0..m
    BY <1>1
  <2>2. g[k + n] = step[<<g[k + (n - 1)], u[k + n]>>]
    BY <1>3, <2>1 DEF IsFold
  <2>3. u[k + n] = t[n]
    BY <1>1
  <2> QED
    BY <2>1, <2>2, <2>3
<1> HIDE DEF f
<1>11. IsFold(f, step, g[k], t)
  BY <1>9, <1>10 DEF IsFold
<1>12. LeftFold(step, g[k], t) = f[m]
  BY <1>11, FoldIs
<1> QED
  BY <1>6, <1>7, <1>9, <1>12 DEF u

\* g takes the step of f wherever it has the value of f.
Follows(g, f, n) ==
  f[0] = g[0] /\ \A k \in 1..n : f[k - 1] = g[k - 1] => f[k] = g[k]

\* Then it has the values of f at every place.
LEMMA SameSteps ==
  ASSUME NEW n \in Nat, NEW f, NEW g, Follows(g, f, n)
  PROVE  Agree(f, g, 0..n)
<1> DEFINE S == {k \in 0..n : f[k] = g[k]}
<1>1. 0 \in S
  BY DEF Follows
<1>2. ASSUME NEW k \in 0..n, k \in S, k # n PROVE k + 1 \in S
  <2>1. k + 1 \in 1..n /\ (k + 1) - 1 = k /\ k + 1 \in 0..n
    BY <1>2
  <2> QED
    BY <1>2, <2>1 DEF Follows
<1>3. 0..n \subseteq S
  <2> HIDE DEF S
  <2> QED
    BY <1>1, <1>2, Climbing
<1> QED
  BY <1>3 DEF Agree

=============================================================================
