-------------------------- MODULE ExplorerTabsProofs --------------------------
(***************************************************************************)
(* Theorems about ExplorerTabs, for every set of tabs and folders, every   *)
(* mix of behaviours and every bound on requests and changes.              *)
(***************************************************************************)
EXTENDS ExplorerTabs, TLAPS

-----------------------------------------------------------------------------
(* Sequences                                                               *)

Elements(s) == {s[i] : i \in 1..Len(s)}

LEMMA Joined ==
    ASSUME NEW S, NEW p \in Seq(S), NEW q \in Seq(S)
    PROVE  /\ p \o q \in Seq(S) /\ Len(p \o q) = Len(p) + Len(q)
           /\ \A k \in 1..Len(p) : (p \o q)[k] = p[k]
           /\ \A k \in 1..Len(q) : (p \o q)[Len(p) + k] = q[k]
OBVIOUS

LEMMA RemovedAt ==
    ASSUME NEW S, NEW s \in Seq(S), NEW i \in 1..Len(s)
    PROVE  /\ RemoveAt(s, i) \in Seq(S) /\ Len(RemoveAt(s, i)) = Len(s) - 1
           /\ \A k \in 1..(Len(s) - 1) :
                 RemoveAt(s, i)[k] = IF k < i THEN s[k] ELSE s[k + 1]
<1> DEFINE p == SubSeq(s, 1, i - 1)
           q == SubSeq(s, i + 1, Len(s))
<1>1. /\ p \in Seq(S) /\ Len(p) = i - 1
      /\ \A k \in 1..(i - 1) : p[k] = s[k]
  OBVIOUS
<1>2. /\ q \in Seq(S) /\ Len(q) = Len(s) - i
      /\ \A k \in 1..(Len(s) - i) : q[k] = s[i + k]
  OBVIOUS
<1>3. RemoveAt(s, i) = p \o q
  BY DEF RemoveAt
<1> HIDE DEF p, q
<1>4. /\ p \o q \in Seq(S) /\ Len(p \o q) = Len(s) - 1
      /\ \A k \in 1..(i - 1) : (p \o q)[k] = p[k]
      /\ \A k \in i..(Len(s) - 1) : (p \o q)[k] = q[k - i + 1]
  <2>1. /\ p \o q \in Seq(S) /\ Len(p \o q) = Len(p) + Len(q)
        /\ \A k \in 1..Len(p) : (p \o q)[k] = p[k]
        /\ \A k \in 1..Len(q) : (p \o q)[Len(p) + k] = q[k]
    <3>1. p \in Seq(S) /\ q \in Seq(S)
      BY <1>1, <1>2
    <3> QED
      BY <3>1, Joined
  <2>2. Len(p) = i - 1 /\ Len(q) = Len(s) - i /\ Len(s) \in Nat
    BY <1>1, <1>2
  <2>3. ASSUME NEW k \in i..(Len(s) - 1)
        PROVE  (p \o q)[k] = q[k - i + 1]
    <3>1. k - i + 1 \in 1..Len(q) /\ Len(p) + (k - i + 1) = k
      BY <2>2
    <3> QED
      BY <2>1, <3>1
  <2>4. Len(p) + Len(q) = Len(s) - 1
    BY <2>2
  <2>5. \A k \in 1..(i - 1) : (p \o q)[k] = p[k]
    BY <2>1, <2>2
  <2> QED
    BY <2>1, <2>3, <2>4, <2>5
<1>5. ASSUME NEW k \in 1..(Len(s) - 1)
      PROVE  (p \o q)[k] = IF k < i THEN s[k] ELSE s[k + 1]
  <2>1. CASE k < i
    BY <1>1, <1>4, <2>1
  <2>2. CASE ~(k < i)
    <3>1. k - i + 1 \in 1..(Len(s) - i) /\ i + (k - i + 1) = k + 1 /\ k \in i..(Len(s) - 1)
      BY <2>2
    <3> QED
      BY <1>2, <1>4, <2>2, <3>1
  <2> QED
    BY <2>1, <2>2
<1> QED
  BY <1>3, <1>4, <1>5

LEMMA InsertedAt ==
    ASSUME NEW S, NEW s \in Seq(S), NEW i \in 1..(Len(s) + 1), NEW e \in S
    PROVE  /\ InsertAt(s, i, e) \in Seq(S) /\ Len(InsertAt(s, i, e)) = Len(s) + 1
           /\ \A k \in 1..(Len(s) + 1) :
                 InsertAt(s, i, e)[k] = IF k < i THEN s[k] ELSE IF k = i THEN e ELSE s[k - 1]
<1> DEFINE p == SubSeq(s, 1, i - 1)
           q == SubSeq(s, i, Len(s))
<1>1. /\ p \in Seq(S) /\ Len(p) = i - 1
      /\ \A k \in 1..(i - 1) : p[k] = s[k]
  OBVIOUS
<1>2. /\ q \in Seq(S) /\ Len(q) = Len(s) - i + 1
      /\ \A k \in 1..(Len(s) - i + 1) : q[k] = s[i + k - 1]
  OBVIOUS
<1>3. InsertAt(s, i, e) = p \o <<e>> \o q
  BY DEF InsertAt
<1> HIDE DEF p, q
<1> DEFINE r == p \o <<e>>
<1>4. /\ r \in Seq(S) /\ Len(r) = i
      /\ \A k \in 1..(i - 1) : r[k] = s[k]
      /\ r[i] = e
  BY <1>1
<1> HIDE DEF r
<1>5. /\ r \o q \in Seq(S) /\ Len(r \o q) = Len(s) + 1
      /\ \A k \in 1..i : (r \o q)[k] = r[k]
      /\ \A k \in (i + 1)..(Len(s) + 1) : (r \o q)[k] = q[k - i]
  <2>1. /\ r \o q \in Seq(S) /\ Len(r \o q) = Len(r) + Len(q)
        /\ \A k \in 1..Len(r) : (r \o q)[k] = r[k]
        /\ \A k \in 1..Len(q) : (r \o q)[Len(r) + k] = q[k]
    BY <1>2, <1>4, Joined
  <2>2. Len(r) = i /\ Len(q) = Len(s) - i + 1 /\ Len(s) \in Nat
    BY <1>2, <1>4
  <2>3. ASSUME NEW k \in (i + 1)..(Len(s) + 1)
        PROVE  k - i \in 1..Len(q) /\ Len(r) + (k - i) = k
    BY <2>2
  <2> QED
    BY <2>1, <2>2, <2>3
<1>6. ASSUME NEW k \in 1..(Len(s) + 1)
      PROVE  (r \o q)[k] = IF k < i THEN s[k] ELSE IF k = i THEN e ELSE s[k - 1]
  <2>1. CASE k <= i
    BY <1>4, <1>5, <2>1
  <2>2. CASE ~(k <= i)
    <3>1. k - i \in 1..(Len(s) - i + 1) /\ i + (k - i) - 1 = k - 1 /\ k \in (i + 1)..(Len(s) + 1)
      BY <2>2
    <3> QED
      BY <1>2, <1>5, <2>2, <3>1
  <2> QED
    BY <2>1, <2>2
<1>7. InsertAt(s, i, e) = r \o q
  BY <1>3 DEF r
<1> QED
  BY <1>5, <1>6, <1>7

\* Tabs are taken out of the order and put into it without a repetition.
LEMMA RemovedOrder ==
    ASSUME NEW S, NEW s \in Seq(S), NEW i \in 1..Len(s), IsInjective(s)
    PROVE  /\ RemoveAt(s, i) \in Seq(S) /\ IsInjective(RemoveAt(s, i))
           /\ Len(RemoveAt(s, i)) = Len(s) - 1
           /\ Elements(RemoveAt(s, i)) = Elements(s) \ {s[i]}
<1> DEFINE r == RemoveAt(s, i)
           n == Len(s)
<1>1. /\ r \in Seq(S) /\ Len(r) = n - 1
      /\ \A k \in 1..(n - 1) : r[k] = IF k < i THEN s[k] ELSE s[k + 1]
  BY RemovedAt
<1>2. n \in Nat /\ i \in 1..n /\ DOMAIN s = 1..n /\ DOMAIN r = 1..(n - 1)
  BY <1>1
<1>3. \A j, k \in 1..n : s[j] = s[k] => j = k
  BY <1>2 DEF IsInjective
<1> HIDE DEF r, n
<1>4. ASSUME NEW j \in 1..(n - 1), NEW k \in 1..(n - 1), r[j] = r[k]
      PROVE  j = k
  <2>1. /\ r[j] = IF j < i THEN s[j] ELSE s[j + 1]
        /\ r[k] = IF k < i THEN s[k] ELSE s[k + 1]
    BY <1>1
  <2>2. j \in 1..n /\ j + 1 \in 1..n /\ k \in 1..n /\ k + 1 \in 1..n
    BY <1>2
  <2>3. (IF j < i THEN j ELSE j + 1) = (IF k < i THEN k ELSE k + 1)
    BY <1>3, <1>4, <2>1, <2>2
  <2> QED
    BY <1>2, <2>3
<1>5. IsInjective(r)
  BY <1>2, <1>4 DEF IsInjective
<1>6. ASSUME NEW k \in 1..(n - 1) PROVE r[k] \in {s[j] : j \in 1..n} \ {s[i]}
  <2>1. PICK j \in 1..n : r[k] = s[j] /\ j # i
    <3>1. CASE k < i
      BY <1>1, <1>2, <3>1
    <3>2. CASE ~(k < i)
      <4>1. k + 1 \in 1..n /\ k + 1 # i
        BY <1>2, <3>2
      <4> QED
        BY <1>1, <3>2, <4>1
    <3> QED
      BY <3>1, <3>2
  <2> QED
    BY <1>2, <1>3, <2>1
<1>7. ASSUME NEW j \in 1..n, j # i PROVE \E k \in 1..(n - 1) : r[k] = s[j]
  <2>1. CASE j < i
    <3>1. j \in 1..(n - 1)
      BY <1>2, <2>1
    <3> QED
      BY <1>1, <2>1, <3>1
  <2>2. CASE ~(j < i)
    <3>1. j - 1 \in 1..(n - 1) /\ ~(j - 1 < i) /\ (j - 1) + 1 = j
      BY <1>2, <1>7, <2>2
    <3> QED
      BY <1>1, <3>1
  <2> QED
    BY <2>1, <2>2
<1>8. Elements(r) = {s[j] : j \in 1..n} \ {s[i]}
  <2>1. Elements(r) = {r[k] : k \in 1..(n - 1)}
    BY <1>1 DEF Elements
  <2>2. {r[k] : k \in 1..(n - 1)} \subseteq {s[j] : j \in 1..n} \ {s[i]}
    BY <1>6
  <2>3. {s[j] : j \in 1..n} \ {s[i]} \subseteq {r[k] : k \in 1..(n - 1)}
    BY <1>7
  <2> QED
    BY <2>1, <2>2, <2>3
<1> QED
  BY <1>1, <1>5, <1>8 DEF r, n, Elements

LEMMA InsertedOrder ==
    ASSUME NEW S, NEW s \in Seq(S), NEW i \in 1..(Len(s) + 1), NEW e \in S \ Elements(s),
           IsInjective(s)
    PROVE  /\ InsertAt(s, i, e) \in Seq(S) /\ IsInjective(InsertAt(s, i, e))
           /\ Len(InsertAt(s, i, e)) = Len(s) + 1
           /\ Elements(InsertAt(s, i, e)) = Elements(s) \cup {e}
<1> DEFINE r == InsertAt(s, i, e)
           n == Len(s)
<1>1. /\ r \in Seq(S) /\ Len(r) = n + 1
      /\ \A k \in 1..(n + 1) : r[k] = IF k < i THEN s[k] ELSE IF k = i THEN e ELSE s[k - 1]
  BY InsertedAt
<1>2. n \in Nat /\ i \in 1..(n + 1) /\ DOMAIN s = 1..n /\ DOMAIN r = 1..(n + 1)
  BY <1>1
<1>3. /\ \A j, k \in 1..n : s[j] = s[k] => j = k
      /\ \A j \in 1..n : s[j] # e
  BY <1>2 DEF IsInjective, Elements
<1> HIDE DEF r, n
<1>4. /\ \A k \in 1..(n + 1) : k < i => k \in 1..n /\ r[k] = s[k]
      /\ \A k \in 1..(n + 1) : k > i => k - 1 \in 1..n /\ r[k] = s[k - 1]
      /\ i \in 1..(n + 1) /\ r[i] = e
  BY <1>1, <1>2
<1>5. ASSUME NEW j \in 1..(n + 1), NEW k \in 1..(n + 1), r[j] = r[k]
      PROVE  j = k
  <2>1. j < i \/ j = i \/ j > i
    BY <1>2
  <2>2. k < i \/ k = i \/ k > i
    BY <1>2
  <2>3. CASE j = i
    BY <1>3, <1>4, <1>5, <2>2, <2>3
  <2>4. CASE k = i
    BY <1>3, <1>4, <1>5, <2>1, <2>4
  <2>5. CASE j < i /\ k < i
    BY <1>3, <1>4, <1>5, <2>5
  <2>6. CASE j > i /\ k > i
    <3>1. j - 1 = k - 1
      BY <1>3, <1>4, <1>5, <2>6
    <3> QED
      BY <1>2, <3>1
  <2>7. CASE j < i /\ k > i
    <3>1. j = k - 1
      BY <1>3, <1>4, <1>5, <2>7
    <3> QED
      BY <1>2, <2>7, <3>1
  <2>8. CASE j > i /\ k < i
    <3>1. k = j - 1
      BY <1>3, <1>4, <1>5, <2>8
    <3> QED
      BY <1>2, <2>8, <3>1
  <2> QED
    BY <2>1, <2>2, <2>3, <2>4, <2>5, <2>6, <2>7, <2>8
<1>6. IsInjective(r)
  BY <1>2, <1>5 DEF IsInjective
<1>7. ASSUME NEW k \in 1..(n + 1) PROVE r[k] \in {s[j] : j \in 1..n} \cup {e}
  <2>1. k < i \/ k = i \/ k > i
    BY <1>2
  <2> QED
    BY <1>4, <2>1
<1>8. ASSUME NEW j \in 1..n PROVE \E k \in 1..(n + 1) : r[k] = s[j]
  <2>1. CASE j < i
    BY <1>2, <1>4, <2>1
  <2>2. CASE ~(j < i)
    <3>1. j + 1 \in 1..(n + 1) /\ j + 1 > i /\ (j + 1) - 1 = j
      BY <1>2, <2>2
    <3> QED
      BY <1>4, <3>1
  <2> QED
    BY <2>1, <2>2
<1>9. Elements(r) = {s[j] : j \in 1..n} \cup {e}
  <2>1. \E k \in 1..(n + 1) : r[k] = e
    BY <1>4
  <2> QED
    BY <1>1, <1>7, <1>8, <2>1 DEF Elements
<1> QED
  BY <1>1, <1>6, <1>9 DEF r, n, Elements

LEMMA SameSequence ==
    ASSUME NEW S, NEW s \in Seq(S), NEW t \in Seq(S), Len(s) = Len(t),
           \A k \in 1..Len(s) : s[k] = t[k]
    PROVE  s = t
OBVIOUS

LEMMA Reversed ==
    ASSUME NEW S, NEW s \in Seq(S)
    PROVE  /\ Reverse(s) \in Seq(S) /\ Len(Reverse(s)) = Len(s)
           /\ \A k \in 1..Len(s) : Reverse(s)[k] = s[Len(s) - k + 1]
BY DEF Reverse

\* The line of a history, position by position.
Line(back, cur, fwd) == Append(back, cur) \o Reverse(fwd)

LineFacts(v, S, back, cur, fwd) ==
    /\ v \in Seq(S) /\ Len(v) = Len(back) + 1 + Len(fwd)
    /\ \A k \in 1..Len(back) : v[k] = back[k]
    /\ v[Len(back) + 1] = cur
    /\ \A k \in 1..Len(fwd) : v[Len(back) + 1 + k] = fwd[Len(fwd) - k + 1]

LEMMA LineAt ==
    ASSUME NEW S, NEW back \in Seq(S), NEW cur \in S, NEW fwd \in Seq(S)
    PROVE  LineFacts(Line(back, cur, fwd), S, back, cur, fwd)
<1> DEFINE p == Append(back, cur)
           q == Reverse(fwd)
           n == Len(back)
           m == Len(fwd)
<1>1. /\ p \in Seq(S) /\ Len(p) = n + 1
      /\ \A k \in 1..n : p[k] = back[k]
      /\ p[n + 1] = cur
  OBVIOUS
<1>2. q \in Seq(S) /\ Len(q) = m /\ \A k \in 1..m : q[k] = fwd[m - k + 1]
  BY Reversed
<1>3. n \in Nat /\ m \in Nat
  OBVIOUS
<1>4. Line(back, cur, fwd) = p \o q
  BY DEF Line
<1> HIDE DEF p, q, n, m
<1>5. p \in Seq(S) /\ q \in Seq(S)
  BY <1>1, <1>2
<1>6. /\ p \o q \in Seq(S) /\ Len(p \o q) = Len(p) + Len(q)
      /\ \A k \in 1..Len(p) : (p \o q)[k] = p[k]
      /\ \A k \in 1..Len(q) : (p \o q)[Len(p) + k] = q[k]
  BY <1>5, Joined
<1>7. Len(p \o q) = n + 1 + m
  <2>1. Len(p) + Len(q) = n + 1 + m
    BY <1>1, <1>2, <1>3
  <2> QED
    BY <1>6, <2>1
<1>8. ASSUME NEW k \in 1..n PROVE (p \o q)[k] = back[k]
  <2>1. k \in 1..Len(p)
    BY <1>1, <1>3
  <2> QED
    BY <1>1, <1>6, <2>1
<1>9. (p \o q)[n + 1] = cur
  <2>1. n + 1 \in 1..Len(p)
    BY <1>1, <1>3
  <2> QED
    BY <1>1, <1>6, <2>1
<1>10. ASSUME NEW k \in 1..m PROVE (p \o q)[n + 1 + k] = fwd[m - k + 1]
  <2>1. k \in 1..Len(q) /\ Len(p) + k = n + 1 + k
    BY <1>1, <1>2, <1>3
  <2> QED
    BY <1>2, <1>6, <2>1
<1>11. /\ p \o q \in Seq(S) /\ Len(p \o q) = n + 1 + m
       /\ \A k \in 1..n : (p \o q)[k] = back[k]
       /\ (p \o q)[n + 1] = cur
       /\ \A k \in 1..m : (p \o q)[n + 1 + k] = fwd[m - k + 1]
  BY <1>6, <1>7, <1>8, <1>9, <1>10
<1> QED
  BY <1>4, <1>11 DEF n, m, LineFacts

LEMMA MirroredLine ==
    ASSUME NEW S, NEW back \in Seq(S), NEW cur \in S, NEW fwd \in Seq(S)
    PROVE  Line(back, cur, fwd) = Reverse(Line(fwd, cur, back))
<1> DEFINE v == Line(back, cur, fwd)
           w == Line(fwd, cur, back)
           n == Len(back)
           m == Len(fwd)
<1>1. n \in Nat /\ m \in Nat
  OBVIOUS
<1>2. /\ v \in Seq(S) /\ Len(v) = n + 1 + m
      /\ \A k \in 1..n : v[k] = back[k]
      /\ v[n + 1] = cur
      /\ \A k \in 1..m : v[n + 1 + k] = fwd[m - k + 1]
  <2>1. LineFacts(v, S, back, cur, fwd)
    BY LineAt
  <2> HIDE DEF v
  <2> QED
    BY <2>1 DEF LineFacts
<1>3. /\ w \in Seq(S) /\ Len(w) = m + 1 + n
      /\ \A k \in 1..m : w[k] = fwd[k]
      /\ w[m + 1] = cur
      /\ \A k \in 1..n : w[m + 1 + k] = back[n - k + 1]
  <2>1. LineFacts(w, S, fwd, cur, back)
    BY LineAt
  <2> HIDE DEF w
  <2> QED
    BY <2>1 DEF LineFacts
<1>4. /\ Reverse(w) \in Seq(S) /\ Len(Reverse(w)) = Len(w)
      /\ \A k \in 1..Len(w) : Reverse(w)[k] = w[Len(w) - k + 1]
  <2> HIDE DEF w
  <2>1. w \in Seq(S)
    BY <1>3
  <2> QED
    BY <2>1, Reversed
<1> HIDE DEF v, w, n, m
<1>5. ASSUME NEW k \in 1..(n + 1 + m) PROVE v[k] = w[n + 1 + m - k + 1]
  <2>1. CASE k <= n
    <3>1. k \in 1..n /\ n - k + 1 \in 1..n /\ n + 1 + m - k + 1 = m + 1 + (n - k + 1)
          /\ n - (n - k + 1) + 1 = k
      BY <1>1, <2>1
    <3> QED
      BY <1>2, <1>3, <3>1
  <2>2. CASE k = n + 1
    <3>1. n + 1 + m - k + 1 = m + 1
      BY <1>1, <2>2
    <3> QED
      BY <1>2, <1>3, <2>2, <3>1
  <2>3. CASE k > n + 1
    <3>1. /\ k - (n + 1) \in 1..m /\ n + 1 + (k - (n + 1)) = k
          /\ m - (k - (n + 1)) + 1 = n + 1 + m - k + 1
          /\ n + 1 + m - k + 1 \in 1..m
      BY <1>1, <2>3
    <3>2. v[k] = fwd[n + 1 + m - k + 1]
      BY <1>2, <3>1
    <3> QED
      BY <1>3, <3>1, <3>2
  <2> QED
    BY <1>1, <2>1, <2>2, <2>3
<1>6. Len(w) = n + 1 + m
  BY <1>1, <1>3
<1>7. v = Reverse(w)
  <2> DEFINE u == Reverse(w)
  <2>1. u \in Seq(S) /\ v \in Seq(S)
    BY <1>2, <1>4
  <2>2. Len(v) = Len(u) /\ \A k \in 1..Len(v) : v[k] = u[k]
    <3>1. Len(v) = n + 1 + m /\ Len(u) = n + 1 + m
      BY <1>2, <1>4, <1>6
    <3>2. ASSUME NEW k \in 1..(n + 1 + m) PROVE u[k] = w[n + 1 + m - k + 1]
      <4>1. \A j \in 1..Len(w) : u[j] = w[Len(w) - j + 1]
        BY <1>4
      <4> HIDE DEF u
      <4> QED
        BY <1>1, <1>6, <4>1, Z3
    <3> HIDE DEF u
    <3> QED
      BY <1>5, <3>1, <3>2
  <2> HIDE DEF u
  <2>3. v = u
    BY <2>1, <2>2, SameSequence
  <2> QED
    BY <2>3 DEF u
<1> QED
  BY <1>7 DEF v, w

\* A jump back moves the entries it crosses to the forward stack: the line
\* stays as it is.
LEMMA JumpBack ==
    ASSUME NEW S, NEW back \in Seq(S), NEW cur \in S, NEW fwd \in Seq(S),
           NEW d \in 1..Len(back)
    PROVE  LET b == SubSeq(back, 1, d - 1)
               f == Append(fwd, cur) \o Reverse(SubSeq(back, d + 1, Len(back)))
           IN b \in Seq(S) /\ f \in Seq(S) /\ Line(b, back[d], f) = Line(back, cur, fwd)
<1> DEFINE b == SubSeq(back, 1, d - 1)
           r == SubSeq(back, d + 1, Len(back))
           f == Line(fwd, cur, r)
           n == Len(back)
           m == Len(fwd)
           v == Line(back, cur, fwd)
           w == Line(b, back[d], f)
<1>1. n \in Nat /\ m \in Nat /\ d \in 1..n /\ back[d] \in S
  OBVIOUS
<1>2. b \in Seq(S) /\ Len(b) = d - 1 /\ \A k \in 1..(d - 1) : b[k] = back[k]
  OBVIOUS
<1>3. r \in Seq(S) /\ Len(r) = n - d /\ \A k \in 1..(n - d) : r[k] = back[d + k]
  OBVIOUS
<1> HIDE DEF b, r, n, m
<1>4. /\ f \in Seq(S) /\ Len(f) = m + 1 + (n - d)
      /\ \A k \in 1..m : f[k] = fwd[k]
      /\ f[m + 1] = cur
      /\ \A k \in 1..(n - d) : f[m + 1 + k] = back[n - k + 1]
  <2>1. /\ f \in Seq(S) /\ Len(f) = m + 1 + Len(r)
        /\ \A k \in 1..m : f[k] = fwd[k]
        /\ f[m + 1] = cur
        /\ \A k \in 1..Len(r) : f[m + 1 + k] = r[Len(r) - k + 1]
    <3>1. r \in Seq(S)
      BY <1>3
    <3>2. LineFacts(f, S, fwd, cur, r)
      BY <3>1, LineAt
    <3> HIDE DEF f
    <3> QED
      BY <3>2 DEF LineFacts, m
  <2> HIDE DEF f
  <2>2. ASSUME NEW k \in 1..(n - d) PROVE f[m + 1 + k] = back[n - k + 1]
    <3>1. Len(r) = n - d
      BY <1>3
    <3>2. /\ (n - d) - k + 1 \in 1..(n - d) /\ d + ((n - d) - k + 1) = n - k + 1
      BY <1>1
    <3>3. r[(n - d) - k + 1] = back[n - k + 1]
      BY <1>3, <3>2
    <3> QED
      BY <2>1, <3>1, <3>3
  <2>3. Len(r) = n - d
    BY <1>3
  <2> QED
    BY <2>1, <2>2, <2>3
<1> HIDE DEF f
<1>5. /\ v \in Seq(S) /\ Len(v) = n + 1 + m
      /\ \A k \in 1..n : v[k] = back[k]
      /\ v[n + 1] = cur
      /\ \A k \in 1..m : v[n + 1 + k] = fwd[m - k + 1]
  <2>1. LineFacts(v, S, back, cur, fwd)
    BY LineAt
  <2> HIDE DEF v
  <2> QED
    BY <2>1 DEF LineFacts, n, m
<1>6. /\ w \in Seq(S) /\ Len(w) = Len(b) + 1 + Len(f)
      /\ \A k \in 1..Len(b) : w[k] = b[k]
      /\ w[Len(b) + 1] = back[d]
      /\ \A k \in 1..Len(f) : w[Len(b) + 1 + k] = f[Len(f) - k + 1]
  <2>1. b \in Seq(S) /\ f \in Seq(S) /\ back[d] \in S
    BY <1>1, <1>2, <1>4
  <2>2. LineFacts(w, S, b, back[d], f)
    BY <2>1, LineAt
  <2> HIDE DEF w
  <2> QED
    BY <2>2 DEF LineFacts
<1> HIDE DEF v, w
<1>7. Len(b) = d - 1 /\ Len(f) = m + 1 + (n - d) /\ Len(w) = n + 1 + m
  <2>1. Len(b) = d - 1 /\ Len(f) = m + 1 + (n - d) /\ Len(w) = Len(b) + 1 + Len(f)
    BY <1>2, <1>4, <1>6
  <2> QED
    BY <1>1, <2>1
<1>8. ASSUME NEW j \in 1..(n + 1 + m) PROVE w[j] = v[j]
  <2>1. CASE j < d
    <3>1. j \in 1..(d - 1) /\ j \in 1..n
      BY <1>1, <2>1
    <3>2. w[j] = b[j]
      BY <1>6, <1>7, <3>1
    <3> QED
      BY <1>2, <1>5, <3>1, <3>2
  <2>2. CASE j = d
    <3>1. (d - 1) + 1 = j /\ j \in 1..n
      BY <1>1, <2>2
    <3> QED
      BY <1>5, <1>6, <1>7, <2>2, <3>1
  <2>3. CASE j > d
    <3> DEFINE k == j - d
               i == n + m + 2 - j
    <3>1. /\ k \in 1..(m + 1 + (n - d)) /\ (d - 1) + 1 + k = j
          /\ (m + 1 + (n - d)) - k + 1 = i
      BY <1>1, <2>3
    <3>2. w[j] = f[i]
      <4> HIDE DEF k, i
      <4> QED
        BY <1>6, <1>7, <3>1
    <3>3. CASE j <= n
      <4>1. n + 1 - j \in 1..(n - d) /\ m + 1 + (n + 1 - j) = i /\ n - (n + 1 - j) + 1 = j /\ j \in 1..n
        BY <1>1, <2>3, <3>3
      <4>2. f[i] = back[j]
        <5> HIDE DEF i
        <5> QED
          BY <1>4, <4>1
      <4> QED
        BY <1>5, <3>2, <4>1, <4>2
    <3>4. CASE j = n + 1
      <4>1. i = m + 1
        BY <1>1, <3>4
      <4> QED
        BY <1>4, <1>5, <3>2, <3>4, <4>1
    <3>5. CASE j > n + 1
      <4>1. /\ i \in 1..m /\ j - (n + 1) \in 1..m /\ n + 1 + (j - (n + 1)) = j
            /\ m - (j - (n + 1)) + 1 = i
        BY <1>1, <3>5
      <4>2. v[j] = fwd[i]
        <5> HIDE DEF i
        <5> QED
          BY <1>5, <4>1
      <4>3. f[i] = fwd[i]
        <5> HIDE DEF i
        <5> QED
          BY <1>4, <4>1
      <4> QED
        BY <3>2, <4>2, <4>3
    <3> QED
      BY <1>1, <3>3, <3>4, <3>5
  <2> QED
    BY <1>1, <2>1, <2>2, <2>3
<1>9. w = v
  <2>1. w \in Seq(S) /\ v \in Seq(S) /\ Len(w) = Len(v)
    BY <1>5, <1>6, <1>7
  <2>2. \A k \in 1..Len(w) : w[k] = v[k]
    BY <1>7, <1>8
  <2> QED
    BY <2>1, <2>2, SameSequence
<1>10. f = Append(fwd, cur) \o Reverse(SubSeq(back, d + 1, Len(back)))
  BY DEF f, r, Line
<1>11. b \in Seq(S) /\ f \in Seq(S)
  BY <1>2, <1>4
<1>12. Line(b, back[d], f) = Line(back, cur, fwd)
  BY <1>9 DEF v, w
<1> QED
  BY <1>10, <1>11, <1>12 DEF b

LEMMA JumpForward ==
    ASSUME NEW S, NEW back \in Seq(S), NEW cur \in S, NEW fwd \in Seq(S),
           NEW d \in 1..Len(fwd)
    PROVE  LET f == SubSeq(fwd, 1, d - 1)
               b == Append(back, cur) \o Reverse(SubSeq(fwd, d + 1, Len(fwd)))
           IN f \in Seq(S) /\ b \in Seq(S) /\ Line(b, fwd[d], f) = Line(back, cur, fwd)
<1> DEFINE f == SubSeq(fwd, 1, d - 1)
           b == Append(back, cur) \o Reverse(SubSeq(fwd, d + 1, Len(fwd)))
<1>1. f \in Seq(S) /\ b \in Seq(S) /\ Line(f, fwd[d], b) = Line(fwd, cur, back)
  BY JumpBack
<1>2. fwd[d] \in S
  OBVIOUS
<1> HIDE DEF f, b
<1>3. Line(b, fwd[d], f) = Reverse(Line(f, fwd[d], b))
  BY <1>1, <1>2, MirroredLine
<1>4. Line(back, cur, fwd) = Reverse(Line(fwd, cur, back))
  BY MirroredLine
<1> QED
  BY <1>1, <1>3, <1>4 DEF f, b

\* Going somewhere else cuts the line behind the cursor.
LEMMA CutLine ==
    ASSUME NEW S, NEW back \in Seq(S), NEW cur \in S, NEW l \in S
    PROVE  /\ Append(back, cur) \in Seq(S)
           /\ Line(Append(back, cur), l, <<>>) = back \o <<cur, l>>
<1>1. Reverse(<<>>) = <<>>
  BY DEF Reverse
<1>2. Append(Append(back, cur), l) \o <<>> = back \o <<cur, l>>
  OBVIOUS
<1> QED
  BY <1>1, <1>2 DEF Line

-----------------------------------------------------------------------------
(* The invariant                                                           *)

Canon == {l \in Locations : Resolve[l] = l}
Rows == SUBSET (Locations \X Nat)
Stages == {"queued", "list", "finish", "watch", "done"}
Jump == [direction : {"none", "back", "forward"}, steps : 0..MaxRequests]

TabRecord ==
    [gen : 0..MaxRequests, back : Seq(Canon), cur : Canon, fwd : Seq(Canon),
     pending : Jump, dir : DirStates, req : 0..MaxRequests, rows : Rows,
     seen : Rows, search : SearchStates, sreq : 0..MaxRequests, hits : BOOLEAN]

ClosedRecord == [index : Nat \ {0}, back : Seq(Canon), cur : Canon, fwd : Seq(Canon)]

Request == [tab : TabIds, gen : 1..MaxRequests, kind : {"load", "search"}, loc : Locations]

EventKinds == LoadEvents \cup {"Failed", "SearchBatch", "SearchReady", "SearchCancelled"}

EventRecord == [kind : EventKinds, loc : Locations, rows : Rows]

WatchRecord == [loc : Locations, gen : 0..MaxRequests]

\* TypeOK and the types of everything else.
WindowShape ==
    /\ scenario \in Scenarios
    /\ order \in Seq(TabIds) /\ order # <<>> /\ IsInjective(order)
    /\ active \in Open /\ Open \subseteq used /\ used \subseteq TabIds
    /\ closed \in Seq(ClosedRecord)

ServiceShape ==
    /\ requests \in Seq(Request) /\ Len(requests) <= MaxRequests
    /\ svc \in Seq(Stages) /\ Len(svc) = Len(requests)
    /\ mail \in Seq(Seq(EventRecord)) /\ Len(mail) = Len(requests)
    /\ cancelled \subseteq 1..Len(requests)

FolderShape ==
    /\ watch \in [TabIds -> WatchRecord]
    /\ notices \subseteq [tab : TabIds, gen : 1..MaxRequests]
    /\ disk \in [Locations -> 0..MaxChanges]
    /\ missed \subseteq TabIds

Shapes ==
    /\ WindowShape /\ ServiceShape /\ FolderShape
    /\ tab \in [TabIds -> TabRecord]
    /\ cache \in [Locations -> Rows]

\* rows is one complete listing of folder l.
ListingOf(rows, l, d) == \E v \in 0..d[l] : rows = {<<l, v>>}

\* The pending jump of tb leads to l.
JumpsTo(tb, l) ==
    /\ tb.pending.direction = "back" =>
          /\ tb.pending.steps \in 1..Len(tb.back)
          /\ l = tb.back[Len(tb.back) - tb.pending.steps + 1]
    /\ tb.pending.direction = "forward" =>
          /\ tb.pending.steps \in 1..Len(tb.fwd)
          /\ l = tb.fwd[Len(tb.fwd) - tb.pending.steps + 1]

\* What tab t, whose record is tb, has to do with the requests rs.
Linked(t, tb, rs, u, d) ==
    /\ tb.gen <= Len(rs) /\ tb.req <= Len(rs) /\ tb.sreq <= Len(rs)
    /\ t \notin u => tb.gen = 0 /\ tb.dir = "Idle" /\ tb.search = "Idle"
    /\ tb.dir = "Loading" =>
          tb.req > 0 /\ rs[tb.req].tab = t /\ rs[tb.req].kind = "load"
    /\ tb.search = "Loading" =>
          tb.sreq > 0 /\ rs[tb.sreq].tab = t /\ rs[tb.sreq].kind = "search"
    /\ tb.dir = "Loading" /\ tb.search = "Loading" => rs[tb.req].gen # tb.gen
    /\ tb.pending.direction # "none" => tb.req > 0 /\ JumpsTo(tb, rs[tb.req].loc)
    /\ tb.dir = "Ready" => ListingOf(tb.rows, tb.cur, d)

\* The events of a load of folder l that are still in its mailbox.
LoadBox(l, stage, box, d) ==
    /\ stage = "queued" => box = <<>>
    /\ \A k \in 1..Len(box) :
          /\ box[k].kind \in LoadEvents \cup {"Failed"}
          /\ box[k].kind = "LocationResolved" => box[k].loc = l /\ k = 1
          /\ box[k].kind = "DirectoryBatch" =>
                /\ ListingOf(box[k].rows, l, d) /\ stage \notin {"queued", "list"}
                /\ \A m \in 1..(k - 1) : box[m].kind = "LocationResolved"
          /\ box[k].kind = "DirectoryFinished" =>
                /\ stage \in {"watch", "done"} /\ k = Len(box)
                /\ \A m \in 1..(k - 1) : box[m].kind \in {"LocationResolved", "DirectoryBatch"}
          /\ box[k].kind = "Failed" =>
                /\ stage = "done" /\ k = Len(box)
                /\ \A m \in 1..(k - 1) : box[m].kind = "LocationResolved"

SearchBox(stage, box) ==
    \A k \in 1..Len(box) :
       /\ box[k].kind \notin LoadEvents
       /\ box[k].kind # "SearchBatch" => stage = "done"

\* Request r of a tab with record tb, and its mailbox.
Served(r, stage, box, tb, u, d) ==
    /\ r.tab \in u /\ r.gen <= tb.gen
    /\ r.kind = "load" => LoadBox(Resolve[r.loc], stage, box, d)
    /\ r.kind = "search" => SearchBox(stage, box)

\* Work that has not started, and that nobody cancelled, is what its tab waits for.
Awaited(i, r, stage, tb, opened, gone) ==
    stage \in {"queued", "list"} /\ i \notin gone =>
       /\ r.tab \in opened
       /\ r.kind = "load" => i \in LoadOf(tb)
       /\ r.kind = "search" => i \in SearchOf(tb)

Has(box, kind) == \E k \in 1..Len(box) : box[k].kind = kind
Resolving(stage, box) == stage = "queued" \/ Has(box, "LocationResolved")
ToList(stage, box) == stage \in {"queued", "list"} \/ Has(box, "DirectoryBatch")

\* How far a tab is with the load it shows the events of.
Progress(tb, r, stage, box, d) ==
    /\ ToList(stage, box) => tb.seen = {}
    /\ ~Has(box, "Failed") /\ ~Resolving(stage, box) =>
          tb.cur = Resolve[r.loc] /\ tb.pending.direction = "none"
    /\ ~Has(box, "Failed") /\ ~ToList(stage, box) =>
          ListingOf(tb.seen, Resolve[r.loc], d) /\ tb.seen \subseteq tb.rows

\* The tab takes the events of the load it waits for.
Attends(t, tb, rs, opened, gone) ==
    /\ t \in opened /\ tb.dir = "Loading" /\ tb.req \notin gone
    /\ tb.gen = rs[tb.req].gen

\* Rows read from folder l for tab t, of generation g, are up to date, or it is
\* known why not, or the tab is about to be told.
Covered(t, g, l, rows, d, ms, ns) ==
    rows = {<<l, d[l]>>} \/ t \in ms \/ [tab |-> t, gen |-> g] \in ns

Shown(t, tb, d, ms, ns) ==
    tb.dir = "Ready" /\ tb.cur \notin Synthetic => Covered(t, tb.gen, tb.cur, tb.rows, d, ms, ns)

Coming(t, tb, r, stage, box, d, ms, ns) ==
    /\ \A k \in 1..Len(box) :
          box[k].kind = "DirectoryBatch" =>
             Covered(t, tb.gen, Resolve[r.loc], box[k].rows, d, ms, ns)
    /\ ~Has(box, "Failed") /\ ~ToList(stage, box) =>
          Covered(t, tb.gen, Resolve[r.loc], tb.seen, d, ms, ns)

TabsLinked == \A t \in TabIds : Linked(t, tab[t], requests, used, disk)

RequestsServed ==
    \A i \in 1..Len(requests) :
       Served(requests[i], svc[i], mail[i], tab[requests[i].tab], used, disk)

WorkAwaited ==
    \A i \in 1..Len(requests) :
       Awaited(i, requests[i], svc[i], tab[requests[i].tab], Open, cancelled)

LoadsProgress ==
    \A t \in TabIds :
       Attends(t, tab[t], requests, Open, cancelled) =>
          Progress(tab[t], requests[tab[t].req], svc[tab[t].req], mail[tab[t].req], disk)

CacheListed == \A l \in Locations : cache[l] = {} \/ ListingOf(cache[l], l, disk)

ShownFresh == \A t \in Open : Shown(t, tab[t], disk, missed, notices)

ComingFresh ==
    \A t \in TabIds :
       Attends(t, tab[t], requests, Open, cancelled) =>
          Coming(t, tab[t], requests[tab[t].req], svc[tab[t].req], mail[tab[t].req],
                 disk, missed, notices)

TabInv ==
    /\ Shapes /\ TabsLinked /\ RequestsServed /\ WorkAwaited /\ LoadsProgress
    /\ CacheListed /\ ShownFresh /\ ComingFresh

-----------------------------------------------------------------------------
(* The transitions of a tab's record, field by field                       *)

SameHistory(n, o) == n.back = o.back /\ n.cur = o.cur /\ n.fwd = o.fwd

SameLoad(n, o) ==
    /\ n.pending = o.pending /\ n.dir = o.dir /\ n.req = o.req
    /\ n.rows = o.rows /\ n.seen = o.seen

SameSearch(n, o) == n.search = o.search /\ n.sreq = o.sreq /\ n.hits = o.hits

Begun(n, o, i, rows, p) ==
    /\ n \in TabRecord /\ SameHistory(n, o)
    /\ n.gen = o.gen + 1 /\ n.pending = p
    /\ n.dir = "Loading" /\ n.req = i /\ n.rows = rows /\ n.seen = {}
    /\ n.search = "Idle" /\ n.sreq = o.sreq

LEMMA LoadingFields ==
    ASSUME NEW tb \in TabRecord, NEW i \in 1..MaxRequests, NEW rows \in Rows, NEW p \in Jump,
           tb.gen < MaxRequests
    PROVE  Begun([Loading(tb, i, rows) EXCEPT !.pending = p], tb, i, rows, p)
<1> DEFINE g == tb.gen + 1
           n == [[[tb EXCEPT !.search = "Idle", !.hits = FALSE]
                     EXCEPT !.gen = g, !.pending = NoPending, !.dir = "Loading",
                            !.req = i, !.rows = rows, !.seen = {}] EXCEPT !.pending = p]
<1>1. n = [Loading(tb, i, rows) EXCEPT !.pending = p]
  BY DEF Loading, LeftSearch
<1>2. g \in 0..MaxRequests
  BY TabsAssumption DEF TabRecord
<1>3. i \in 0..MaxRequests /\ {} \in Rows
  BY DEF Rows
<1>4. g = tb.gen + 1
  OBVIOUS
<1> HIDE DEF g
<1>5. n \in TabRecord
  BY <1>2, <1>3 DEF TabRecord, DirStates, SearchStates
<1>6. /\ n.back = tb.back /\ n.cur = tb.cur /\ n.fwd = tb.fwd
      /\ n.gen = g /\ n.pending = p
      /\ n.dir = "Loading" /\ n.req = i /\ n.rows = rows /\ n.seen = {}
      /\ n.search = "Idle" /\ n.sreq = tb.sreq
  BY DEF TabRecord
<1> HIDE DEF n
<1>7. Begun(n, tb, i, rows, p)
  BY <1>4, <1>5, <1>6 DEF Begun, SameHistory
<1> QED
  BY <1>1, <1>7

LEMMA LoadingAlone ==
    ASSUME NEW tb \in TabRecord, NEW i \in 1..MaxRequests, NEW rows \in Rows,
           tb.gen < MaxRequests
    PROVE  Begun(Loading(tb, i, rows), tb, i, rows, NoPending)
<1> DEFINE m == Loading(tb, i, rows)
           n == [m EXCEPT !.pending = NoPending]
<1>1. NoPending \in Jump
  BY TabsAssumption DEF NoPending, Jump
<1>2. Begun(n, tb, i, rows, NoPending)
  BY <1>1, LoadingFields
<1>3. m = n
  <2> DEFINE g == tb.gen + 1
             k == [[tb EXCEPT !.search = "Idle", !.hits = FALSE]
                       EXCEPT !.gen = g, !.pending = NoPending, !.dir = "Loading",
                              !.req = i, !.rows = rows, !.seen = {}]
  <2>1. m = k
    BY DEF Loading, LeftSearch
  <2> HIDE DEF m, g
  <2>2. k = [k EXCEPT !.pending = NoPending]
    BY DEF TabRecord
  <2> HIDE DEF k
  <2> QED
    BY <2>1, <2>2
<1> HIDE DEF m, n
<1>4. Begun(m, tb, i, rows, NoPending)
  BY <1>2, <1>3
<1> QED
  BY <1>4 DEF m

LEMMA NewTabRecord ==
    ASSUME NEW back \in Seq(Canon), NEW cur \in Canon, NEW fwd \in Seq(Canon)
    PROVE  LET n == TabAt(back, cur, fwd)
           IN /\ n \in TabRecord /\ n.gen = 0 /\ n.back = back /\ n.cur = cur /\ n.fwd = fwd
              /\ n.pending = NoPending /\ n.dir = "Idle" /\ n.req = 0 /\ n.search = "Idle"
              /\ n.sreq = 0
<1>1. {} \in Rows /\ 0 \in 0..MaxRequests /\ NoPending \in Jump
  BY TabsAssumption DEF Rows, NoPending, Jump
<1> QED
  BY <1>1 DEF TabAt, TabRecord, DirStates, SearchStates

Searched(n, o) ==
    n \in TabRecord /\ n.gen = o.gen /\ n.sreq = o.sreq /\ SameHistory(n, o) /\ SameLoad(n, o)

LEMMA LeftFields ==
    ASSUME NEW tb \in TabRecord
    PROVE  Searched(LeftSearch(tb), tb) /\ LeftSearch(tb).search = "Idle"
<1> DEFINE n == LeftSearch(tb)
<1>1. n \in TabRecord
  BY DEF LeftSearch, TabRecord, SearchStates
<1>2. /\ n.gen = tb.gen /\ n.sreq = tb.sreq /\ n.search = "Idle"
      /\ n.back = tb.back /\ n.cur = tb.cur /\ n.fwd = tb.fwd
      /\ n.pending = tb.pending /\ n.dir = tb.dir /\ n.req = tb.req
      /\ n.rows = tb.rows /\ n.seen = tb.seen
  BY DEF LeftSearch, TabRecord
<1> HIDE DEF n
<1>3. Searched(n, tb) /\ n.search = "Idle"
  BY <1>1, <1>2 DEF Searched, SameHistory, SameLoad
<1> QED
  BY <1>3 DEF n

LEMMA SearchFields ==
    ASSUME NEW tb \in TabRecord, NEW s \in SearchStates
    PROVE  Searched([tb EXCEPT !.search = s], tb) /\ [tb EXCEPT !.search = s].search = s
<1> DEFINE n == [tb EXCEPT !.search = s]
<1>1. n \in TabRecord
  BY DEF TabRecord
<1>2. /\ n.gen = tb.gen /\ n.sreq = tb.sreq /\ n.search = s
      /\ n.back = tb.back /\ n.cur = tb.cur /\ n.fwd = tb.fwd
      /\ n.pending = tb.pending /\ n.dir = tb.dir /\ n.req = tb.req
      /\ n.rows = tb.rows /\ n.seen = tb.seen
  BY DEF TabRecord
<1> HIDE DEF n
<1>3. Searched(n, tb) /\ n.search = s
  BY <1>1, <1>2 DEF Searched, SameHistory, SameLoad
<1> QED
  BY <1>3 DEF n

LEMMA HitFields ==
    ASSUME NEW tb \in TabRecord
    PROVE  Searched([tb EXCEPT !.hits = TRUE], tb) /\ [tb EXCEPT !.hits = TRUE].search = tb.search
<1> DEFINE n == [tb EXCEPT !.hits = TRUE]
<1>1. n \in TabRecord
  BY DEF TabRecord
<1>2. /\ n.gen = tb.gen /\ n.sreq = tb.sreq /\ n.search = tb.search
      /\ n.back = tb.back /\ n.cur = tb.cur /\ n.fwd = tb.fwd
      /\ n.pending = tb.pending /\ n.dir = tb.dir /\ n.req = tb.req
      /\ n.rows = tb.rows /\ n.seen = tb.seen
  BY DEF TabRecord
<1> HIDE DEF n
<1>3. Searched(n, tb) /\ n.search = tb.search
  BY <1>1, <1>2 DEF Searched, SameHistory, SameLoad
<1> QED
  BY <1>3 DEF n

LEMMA SearchedTwice ==
    ASSUME NEW n, NEW m, NEW o, Searched(m, o), Searched(n, m)
    PROVE  Searched(n, o)
BY DEF Searched, SameHistory, SameLoad

LEMMA EndedFields ==
    ASSUME NEW tb \in TabRecord, NEW outcome \in {"Ready", "Cancelled", "Error"}
    PROVE  Searched(SearchEnded(tb, outcome), tb) /\ SearchEnded(tb, outcome).search # "Loading"
<1> DEFINE s == IF outcome = "Error" /\ tb.hits THEN "Partial" ELSE outcome
<1>1. s \in SearchStates /\ s # "Loading"
  BY DEF SearchStates
<1>2. SearchEnded(tb, outcome) = [tb EXCEPT !.search = s]
  BY DEF SearchEnded
<1> HIDE DEF s
<1> QED
  BY <1>1, <1>2, SearchFields

LEMMA SearchingFields ==
    ASSUME NEW tb \in TabRecord, NEW i \in 1..MaxRequests, tb.gen < MaxRequests
    PROVE  LET n == Searching(tb, i)
           IN /\ n \in TabRecord /\ n.gen = tb.gen + 1 /\ n.search = "Loading" /\ n.sreq = i
              /\ SameHistory(n, tb) /\ SameLoad(n, tb)
<1> DEFINE g == tb.gen + 1
           n == [tb EXCEPT !.gen = g, !.search = "Loading", !.sreq = i, !.hits = FALSE]
<1>1. n = Searching(tb, i)
  BY DEF Searching
<1>2. g \in 0..MaxRequests /\ g = tb.gen + 1 /\ i \in 0..MaxRequests
  BY TabsAssumption DEF TabRecord
<1> HIDE DEF g
<1>3. n \in TabRecord
  BY <1>2 DEF TabRecord, SearchStates
<1>4. /\ n.gen = g /\ n.search = "Loading" /\ n.sreq = i
      /\ n.back = tb.back /\ n.cur = tb.cur /\ n.fwd = tb.fwd
      /\ n.pending = tb.pending /\ n.dir = tb.dir /\ n.req = tb.req
      /\ n.rows = tb.rows /\ n.seen = tb.seen
  BY DEF TabRecord
<1> HIDE DEF n
<1>5. /\ n \in TabRecord /\ n.gen = tb.gen + 1 /\ n.search = "Loading" /\ n.sreq = i
      /\ SameHistory(n, tb) /\ SameLoad(n, tb)
  BY <1>2, <1>3, <1>4 DEF SameHistory, SameLoad
<1> QED
  BY <1>1, <1>5

\* The events of a load leave the generation, the request and the search alone.
LoadStep(n, o) ==
    n \in TabRecord /\ n.gen = o.gen /\ n.req = o.req /\ SameSearch(n, o)

LEMMA MergedFields ==
    ASSUME NEW tb \in TabRecord, NEW rows \in Rows
    PROVE  LET n == Merged(tb, rows)
           IN /\ LoadStep(n, tb) /\ SameHistory(n, tb)
              /\ n.pending = tb.pending /\ n.dir = tb.dir
              /\ n.rows = tb.rows \cup rows /\ n.seen = tb.seen \cup rows
<1> DEFINE p == tb.rows \cup rows
           q == tb.seen \cup rows
           n == [tb EXCEPT !.rows = p, !.seen = q]
<1>1. n = Merged(tb, rows)
  BY DEF Merged
<1>2. p \in Rows /\ q \in Rows /\ p = tb.rows \cup rows /\ q = tb.seen \cup rows
  BY DEF TabRecord, Rows
<1> HIDE DEF p, q
<1>3. n \in TabRecord
  BY <1>2 DEF TabRecord
<1>4. /\ n.gen = tb.gen /\ n.req = tb.req /\ n.search = tb.search /\ n.sreq = tb.sreq
      /\ n.hits = tb.hits /\ n.back = tb.back /\ n.cur = tb.cur /\ n.fwd = tb.fwd
      /\ n.pending = tb.pending /\ n.dir = tb.dir /\ n.rows = p /\ n.seen = q
  BY DEF TabRecord
<1> HIDE DEF n
<1>5. /\ LoadStep(n, tb) /\ SameHistory(n, tb)
      /\ n.pending = tb.pending /\ n.dir = tb.dir
      /\ n.rows = tb.rows \cup rows /\ n.seen = tb.seen \cup rows
  BY <1>2, <1>3, <1>4 DEF LoadStep, SameHistory, SameSearch
<1> QED
  BY <1>1, <1>5

LEMMA FinishedFields ==
    ASSUME NEW tb \in TabRecord
    PROVE  LET n == Finished(tb)
           IN /\ LoadStep(n, tb) /\ SameHistory(n, tb)
              /\ n.pending = tb.pending /\ n.dir = "Ready"
              /\ n.rows = tb.rows \cap tb.seen
<1> DEFINE p == tb.rows \cap tb.seen
           n == [tb EXCEPT !.dir = "Ready", !.rows = p, !.seen = {}]
<1>1. n = Finished(tb)
  BY DEF Finished
<1>2. p \in Rows /\ {} \in Rows /\ p = tb.rows \cap tb.seen
  BY DEF TabRecord, Rows
<1> HIDE DEF p
<1>3. n \in TabRecord
  BY <1>2 DEF TabRecord, DirStates
<1>4. /\ n.gen = tb.gen /\ n.req = tb.req /\ n.search = tb.search /\ n.sreq = tb.sreq
      /\ n.hits = tb.hits /\ n.back = tb.back /\ n.cur = tb.cur /\ n.fwd = tb.fwd
      /\ n.pending = tb.pending /\ n.dir = "Ready" /\ n.rows = p
  BY DEF TabRecord
<1> HIDE DEF n
<1>5. /\ LoadStep(n, tb) /\ SameHistory(n, tb)
      /\ n.pending = tb.pending /\ n.dir = "Ready"
      /\ n.rows = tb.rows \cap tb.seen
  BY <1>2, <1>3, <1>4 DEF LoadStep, SameHistory, SameSearch
<1> QED
  BY <1>1, <1>5

LEMMA FailedFields ==
    ASSUME NEW tb \in TabRecord
    PROVE  LET n == Failed(tb)
           IN /\ LoadStep(n, tb) /\ SameHistory(n, tb)
              /\ n.pending = NoPending /\ n.dir = "Error"
<1> DEFINE n == [tb EXCEPT !.dir = "Error", !.pending = NoPending, !.seen = {}]
<1>1. n = Failed(tb)
  BY DEF Failed
<1>2. {} \in Rows /\ NoPending \in Jump
  BY TabsAssumption DEF Rows, NoPending, Jump
<1>3. n \in TabRecord
  BY <1>2 DEF TabRecord, DirStates
<1>4. /\ n.gen = tb.gen /\ n.req = tb.req /\ n.search = tb.search /\ n.sreq = tb.sreq
      /\ n.hits = tb.hits /\ n.back = tb.back /\ n.cur = tb.cur /\ n.fwd = tb.fwd
      /\ n.pending = NoPending /\ n.dir = "Error"
  BY DEF TabRecord
<1> HIDE DEF n
<1>5. /\ LoadStep(n, tb) /\ SameHistory(n, tb)
      /\ n.pending = NoPending /\ n.dir = "Error"
  BY <1>3, <1>4 DEF LoadStep, SameHistory, SameSearch
<1> QED
  BY <1>1, <1>5

HistorySet(n, tb, b, c, f) ==
    /\ LoadStep(n, tb) /\ n.back = b /\ n.cur = c /\ n.fwd = f
    /\ n.pending = tb.pending /\ n.dir = tb.dir /\ n.rows = tb.rows /\ n.seen = tb.seen

LEMMA BackwardFields ==
    ASSUME NEW tb \in TabRecord, NEW b \in Seq(Canon), NEW c \in Canon, NEW f \in Seq(Canon)
    PROVE  HistorySet([tb EXCEPT !.back = b, !.cur = c, !.fwd = f], tb, b, c, f)
<1> DEFINE n == [tb EXCEPT !.back = b, !.cur = c, !.fwd = f]
<1>1. n \in TabRecord
  BY DEF TabRecord
<1>2. /\ n.gen = tb.gen /\ n.req = tb.req /\ n.search = tb.search /\ n.sreq = tb.sreq
      /\ n.hits = tb.hits /\ n.back = b /\ n.cur = c /\ n.fwd = f
      /\ n.pending = tb.pending /\ n.dir = tb.dir /\ n.rows = tb.rows /\ n.seen = tb.seen
  BY DEF TabRecord
<1> HIDE DEF n
<1>3. HistorySet(n, tb, b, c, f)
  BY <1>1, <1>2 DEF HistorySet, LoadStep, SameSearch
<1> QED
  BY <1>3 DEF n

LEMMA ForwardFields ==
    ASSUME NEW tb \in TabRecord, NEW b \in Seq(Canon), NEW c \in Canon, NEW f \in Seq(Canon)
    PROVE  HistorySet([tb EXCEPT !.fwd = f, !.cur = c, !.back = b], tb, b, c, f)
<1> DEFINE n == [tb EXCEPT !.fwd = f, !.cur = c, !.back = b]
<1>1. n \in TabRecord
  BY DEF TabRecord
<1>2. /\ n.gen = tb.gen /\ n.req = tb.req /\ n.search = tb.search /\ n.sreq = tb.sreq
      /\ n.hits = tb.hits /\ n.back = b /\ n.cur = c /\ n.fwd = f
      /\ n.pending = tb.pending /\ n.dir = tb.dir /\ n.rows = tb.rows /\ n.seen = tb.seen
  BY DEF TabRecord
<1> HIDE DEF n
<1>3. HistorySet(n, tb, b, c, f)
  BY <1>1, <1>2 DEF HistorySet, LoadStep, SameSearch
<1> QED
  BY <1>3 DEF n

LEMMA ClearedFields ==
    ASSUME NEW tb \in TabRecord
    PROVE  LET n == [tb EXCEPT !.pending = NoPending]
           IN /\ LoadStep(n, tb) /\ SameHistory(n, tb) /\ n.pending = NoPending
              /\ n.dir = tb.dir /\ n.rows = tb.rows /\ n.seen = tb.seen
<1> DEFINE n == [tb EXCEPT !.pending = NoPending]
<1>1. NoPending \in Jump
  BY TabsAssumption DEF NoPending, Jump
<1>2. n \in TabRecord
  BY <1>1 DEF TabRecord
<1>3. /\ n.gen = tb.gen /\ n.req = tb.req /\ n.search = tb.search /\ n.sreq = tb.sreq
      /\ n.hits = tb.hits /\ n.back = tb.back /\ n.cur = tb.cur /\ n.fwd = tb.fwd
      /\ n.pending = NoPending /\ n.dir = tb.dir /\ n.rows = tb.rows /\ n.seen = tb.seen
  BY DEF TabRecord
<1> HIDE DEF n
<1>4. /\ LoadStep(n, tb) /\ SameHistory(n, tb) /\ n.pending = NoPending
      /\ n.dir = tb.dir /\ n.rows = tb.rows /\ n.seen = tb.seen
  BY <1>2, <1>3 DEF LoadStep, SameHistory, SameSearch
<1> QED
  BY <1>4 DEF n

\* A step keeps the line of a tab, or cuts it behind the cursor.
LineStep(n, o) == Timeline(n) = Timeline(o) \/ Timeline(n) = o.back \o <<o.cur, n.cur>>

Arrived(n, tb, l) ==
    /\ LoadStep(n, tb) /\ n.cur = l /\ n.pending.direction = "none"
    /\ n.dir = tb.dir /\ n.rows = tb.rows /\ n.seen = tb.seen
    /\ LineStep(n, tb)

LEMMA HistoryTyped ==
    ASSUME NEW tb \in TabRecord
    PROVE  tb.back \in Seq(Canon) /\ tb.cur \in Canon /\ tb.fwd \in Seq(Canon)
BY DEF TabRecord

LEMMA SameTimeline ==
    ASSUME NEW n, NEW o, SameHistory(n, o)
    PROVE  Timeline(n) = Timeline(o)
BY DEF SameHistory, Timeline

LEMMA CommitArrives ==
    ASSUME NEW tb \in TabRecord, NEW l \in Canon, tb.pending.direction = "none"
    PROVE  Arrived(CommitNavigation(tb, l), tb, l)
<1>1. CASE tb.cur = l
  <2>1. CommitNavigation(tb, l) = tb
    BY <1>1 DEF CommitNavigation
  <2>2. Arrived(tb, tb, l)
    BY <1>1 DEF Arrived, LoadStep, SameSearch, LineStep
  <2> QED
    BY <2>1, <2>2
<1>2. CASE tb.cur # l
  <2> DEFINE b == Append(tb.back, tb.cur)
             n == [tb EXCEPT !.back = b, !.cur = l, !.fwd = <<>>]
  <2>1. CommitNavigation(tb, l) = n
    BY <1>2 DEF CommitNavigation
  <2>2. b \in Seq(Canon) /\ Line(b, l, <<>>) = tb.back \o <<tb.cur, l>>
    BY HistoryTyped, CutLine
  <2>3. <<>> \in Seq(Canon)
    OBVIOUS
  <2> HIDE DEF b
  <2>4. HistorySet(n, tb, b, l, <<>>)
    BY <2>2, <2>3, BackwardFields
  <2> HIDE DEF n
  <2>5. Timeline(n) = Line(b, l, <<>>) /\ n.cur = l
    BY <2>4 DEF HistorySet, Timeline, Line
  <2>6. LineStep(n, tb)
    BY <2>2, <2>5 DEF LineStep
  <2>7. Arrived(n, tb, l)
    BY <2>4, <2>6 DEF Arrived, HistorySet
  <2> QED
    BY <2>1, <2>7
<1> QED
  BY <1>1, <1>2

LEMMA BackArrives ==
    ASSUME NEW tb \in TabRecord, NEW l \in Canon, JumpsTo(tb, l), tb.pending.direction = "back",
           NEW o, LoadStep(o, tb), SameHistory(o, tb), o.pending = NoPending,
           o.dir = tb.dir, o.rows = tb.rows, o.seen = tb.seen
    PROVE  Arrived(CommitBack(o, l, tb.pending.steps), tb, l)
<1> DEFINE k == tb.pending.steps
           d == Len(tb.back) - k + 1
<1>1. k \in 1..Len(tb.back) /\ l = tb.back[Len(tb.back) - k + 1]
  BY DEF JumpsTo
<1>2. tb.back \in Seq(Canon) /\ tb.cur \in Canon /\ tb.fwd \in Seq(Canon) /\ Len(tb.back) \in Nat
  BY HistoryTyped
<1>3. o.back = tb.back /\ o.cur = tb.cur /\ o.fwd = tb.fwd /\ o \in TabRecord
  BY DEF SameHistory, LoadStep
<1>4. d \in 1..Len(tb.back) /\ l = tb.back[d]
  <2> HIDE DEF k
  <2> QED
    BY <1>1, <1>2
<1> DEFINE b == SubSeq(tb.back, 1, d - 1)
           f == Append(tb.fwd, tb.cur) \o Reverse(SubSeq(tb.back, d + 1, Len(tb.back)))
           n == [o EXCEPT !.back = b, !.cur = l, !.fwd = f]
<1>5. CommitBack(o, l, k) = n
  <2>1. ~(d < 1 \/ tb.back[d] # l)
    <3> HIDE DEF d
    <3> QED
      BY <1>2, <1>4
  <2>2. CommitBack(o, l, k) =
           IF d < 1 \/ tb.back[d] # l THEN o ELSE n
    BY <1>3 DEF CommitBack
  <2> HIDE DEF d, n
  <2> QED
    BY <2>1, <2>2
<1> HIDE DEF d
<1>6. b \in Seq(Canon) /\ f \in Seq(Canon) /\ Line(b, l, f) = Line(tb.back, tb.cur, tb.fwd)
  <2> DEFINE back == tb.back
             cur == tb.cur
             fwd == tb.fwd
  <2>1. back \in Seq(Canon) /\ cur \in Canon /\ fwd \in Seq(Canon) /\ d \in 1..Len(back)
    BY <1>2, <1>4
  <2>2. l = back[d]
    BY <1>4
  <2> HIDE DEF back, cur, fwd
  <2>3. LET bb == SubSeq(back, 1, d - 1)
            ff == Append(fwd, cur) \o Reverse(SubSeq(back, d + 1, Len(back)))
        IN bb \in Seq(Canon) /\ ff \in Seq(Canon) /\ Line(bb, back[d], ff) = Line(back, cur, fwd)
    BY <2>1, JumpBack
  <2> QED
    BY <2>2, <2>3 DEF back, cur, fwd
<1> HIDE DEF b, f
<1>7. HistorySet(n, o, b, l, f)
  BY <1>3, <1>6, BackwardFields
<1> HIDE DEF n
<1>8. Timeline(n) = Timeline(tb)
  BY <1>6, <1>7 DEF HistorySet, Timeline, Line
<1>9. Arrived(n, tb, l)
  <2>1. LineStep(n, tb)
    BY <1>8 DEF LineStep
  <2>2. n.pending.direction = "none"
    BY <1>7 DEF HistorySet, NoPending
  <2>3. LoadStep(n, tb)
    BY <1>7 DEF HistorySet, LoadStep, SameSearch
  <2> QED
    BY <1>7, <2>1, <2>2, <2>3 DEF Arrived, HistorySet
<1> HIDE DEF k
<1>10. Arrived(CommitBack(o, l, k), tb, l)
  BY <1>5, <1>9
<1> QED
  BY <1>10 DEF k

LEMMA ForwardArrives ==
    ASSUME NEW tb \in TabRecord, NEW l \in Canon, JumpsTo(tb, l), tb.pending.direction = "forward",
           NEW o, LoadStep(o, tb), SameHistory(o, tb), o.pending = NoPending,
           o.dir = tb.dir, o.rows = tb.rows, o.seen = tb.seen
    PROVE  Arrived(CommitForward(o, l, tb.pending.steps), tb, l)
<1> DEFINE k == tb.pending.steps
           d == Len(tb.fwd) - k + 1
<1>1. k \in 1..Len(tb.fwd) /\ l = tb.fwd[Len(tb.fwd) - k + 1]
  BY DEF JumpsTo
<1>2. tb.back \in Seq(Canon) /\ tb.cur \in Canon /\ tb.fwd \in Seq(Canon) /\ Len(tb.fwd) \in Nat
  BY HistoryTyped
<1>3. o.back = tb.back /\ o.cur = tb.cur /\ o.fwd = tb.fwd /\ o \in TabRecord
  BY DEF SameHistory, LoadStep
<1>4. d \in 1..Len(tb.fwd) /\ l = tb.fwd[d]
  <2> HIDE DEF k
  <2> QED
    BY <1>1, <1>2
<1> DEFINE f == SubSeq(tb.fwd, 1, d - 1)
           b == Append(tb.back, tb.cur) \o Reverse(SubSeq(tb.fwd, d + 1, Len(tb.fwd)))
           n == [o EXCEPT !.fwd = f, !.cur = l, !.back = b]
<1>5. CommitForward(o, l, k) = n
  <2>1. ~(d < 1 \/ tb.fwd[d] # l)
    <3> HIDE DEF d
    <3> QED
      BY <1>2, <1>4
  <2>2. CommitForward(o, l, k) =
           IF d < 1 \/ tb.fwd[d] # l THEN o ELSE n
    BY <1>3 DEF CommitForward
  <2> HIDE DEF d, n
  <2> QED
    BY <2>1, <2>2
<1> HIDE DEF d
<1>6. b \in Seq(Canon) /\ f \in Seq(Canon) /\ Line(b, l, f) = Line(tb.back, tb.cur, tb.fwd)
  <2> DEFINE back == tb.back
             cur == tb.cur
             fwd == tb.fwd
  <2>1. back \in Seq(Canon) /\ cur \in Canon /\ fwd \in Seq(Canon) /\ d \in 1..Len(fwd)
    BY <1>2, <1>4
  <2>2. l = fwd[d]
    BY <1>4
  <2> HIDE DEF back, cur, fwd
  <2>3. LET ff == SubSeq(fwd, 1, d - 1)
            bb == Append(back, cur) \o Reverse(SubSeq(fwd, d + 1, Len(fwd)))
        IN ff \in Seq(Canon) /\ bb \in Seq(Canon) /\ Line(bb, fwd[d], ff) = Line(back, cur, fwd)
    BY <2>1, JumpForward
  <2> QED
    BY <2>2, <2>3 DEF back, cur, fwd
<1> HIDE DEF b, f
<1>7. HistorySet(n, o, b, l, f)
  BY <1>3, <1>6, ForwardFields
<1> HIDE DEF n
<1>8. Timeline(n) = Timeline(tb)
  BY <1>6, <1>7 DEF HistorySet, Timeline, Line
<1>9. Arrived(n, tb, l)
  <2>1. LineStep(n, tb)
    BY <1>8 DEF LineStep
  <2>2. n.pending.direction = "none"
    BY <1>7 DEF HistorySet, NoPending
  <2>3. LoadStep(n, tb)
    BY <1>7 DEF HistorySet, LoadStep, SameSearch
  <2> QED
    BY <1>7, <2>1, <2>2, <2>3 DEF Arrived, HistorySet
<1> HIDE DEF k
<1>10. Arrived(CommitForward(o, l, k), tb, l)
  BY <1>5, <1>9
<1> QED
  BY <1>10 DEF k

\* commit_resolved_location brings the tab to the resolved folder, by a jump if
\* one is pending.
LEMMA ResolvedArrives ==
    ASSUME NEW tb \in TabRecord, NEW l \in Canon, JumpsTo(tb, l)
    PROVE  Arrived(Resolved(tb, l), tb, l)
<1> DEFINE o == [tb EXCEPT !.pending = NoPending]
<1>1. /\ LoadStep(o, tb) /\ SameHistory(o, tb) /\ o.pending = NoPending
      /\ o.dir = tb.dir /\ o.rows = tb.rows /\ o.seen = tb.seen
  BY ClearedFields
<1>2. Resolved(tb, l) =
        IF tb.pending.direction = "none" THEN CommitNavigation(tb, l)
        ELSE IF tb.pending.direction = "back" THEN CommitBack(o, l, tb.pending.steps)
        ELSE CommitForward(o, l, tb.pending.steps)
  BY DEF Resolved
<1>3. tb.pending.direction \in {"none", "back", "forward"}
  BY DEF TabRecord, Jump
<1> HIDE DEF o
<1>4. CASE tb.pending.direction = "none"
  BY <1>2, <1>4, CommitArrives
<1>5. CASE tb.pending.direction = "back"
  <2>1. Arrived(CommitBack(o, l, tb.pending.steps), tb, l)
    BY <1>1, <1>5, BackArrives
  <2> QED
    BY <1>2, <1>5, <2>1
<1>6. CASE tb.pending.direction = "forward"
  <2>1. Arrived(CommitForward(o, l, tb.pending.steps), tb, l)
    BY <1>1, <1>6, ForwardArrives
  <2> QED
    BY <1>2, <1>6, <2>1
<1> QED
  BY <1>3, <1>4, <1>5, <1>6

-----------------------------------------------------------------------------
(* What a step leaves alone                                                *)

Disks == [Locations -> 0..MaxChanges]

Extends(rs, rs2) == Len(rs) <= Len(rs2) /\ \A i \in 1..Len(rs) : rs2[i] = rs[i]
Later(d, d2) == \A l \in Locations : d[l] <= d2[l]

LEMMA ShapeFacts ==
    ASSUME Shapes
    PROVE  /\ requests \in Seq(Request) /\ Len(requests) \in 0..MaxRequests
           /\ svc \in Seq(Stages) /\ Len(svc) = Len(requests)
           /\ mail \in Seq(Seq(EventRecord)) /\ Len(mail) = Len(requests)
           /\ cancelled \subseteq 1..Len(requests)
           /\ tab \in [TabIds -> TabRecord] /\ disk \in Disks
           /\ Open \subseteq TabIds /\ Open \subseteq used /\ used \subseteq TabIds
BY TabsAssumption DEF Shapes, ServiceShape, FolderShape, WindowShape, Disks

LEMMA RequestFacts ==
    ASSUME Shapes, NEW i \in 1..Len(requests)
    PROVE  /\ requests[i] \in Request /\ svc[i] \in Stages /\ mail[i] \in Seq(EventRecord)
           /\ requests[i].tab \in TabIds /\ requests[i].gen \in 1..MaxRequests
           /\ requests[i].kind \in {"load", "search"} /\ requests[i].loc \in Locations
           /\ Resolve[requests[i].loc] \in Canon
           /\ tab[requests[i].tab] \in TabRecord
<1>1. requests[i] \in Request /\ svc[i] \in Stages /\ mail[i] \in Seq(EventRecord)
  BY ShapeFacts
<1>2. /\ requests[i].tab \in TabIds /\ requests[i].gen \in 1..MaxRequests
      /\ requests[i].kind \in {"load", "search"} /\ requests[i].loc \in Locations
  BY <1>1 DEF Request
<1>3. Resolve[requests[i].loc] \in Canon
  BY <1>2, TabsAssumption DEF Canon
<1>4. tab[requests[i].tab] \in TabRecord
  BY <1>2, ShapeFacts
<1> QED
  BY <1>1, <1>2, <1>3, <1>4

LEMMA TabFacts ==
    ASSUME NEW tb \in TabRecord
    PROVE  /\ tb.gen \in 0..MaxRequests /\ tb.req \in 0..MaxRequests /\ tb.sreq \in 0..MaxRequests
           /\ tb.cur \in Canon /\ tb.cur \in Locations /\ tb.rows \in Rows /\ tb.seen \in Rows
           /\ tb.dir \in DirStates /\ tb.search \in SearchStates /\ tb.pending \in Jump
BY DEF TabRecord, Canon

LEMMA LaterListing ==
    ASSUME NEW d \in Disks, NEW d2 \in Disks, Later(d, d2), NEW l \in Locations, NEW rows,
           ListingOf(rows, l, d)
    PROVE  ListingOf(rows, l, d2)
<1>1. d[l] \in Nat /\ d2[l] \in Nat /\ d[l] <= d2[l]
  BY TabsAssumption DEF Disks, Later
<1>2. PICK v \in 0..d[l] : rows = {<<l, v>>}
  BY DEF ListingOf
<1>3. v \in 0..d2[l]
  BY <1>1
<1> QED
  BY <1>2, <1>3 DEF ListingOf

LEMMA LaterSame ==
    ASSUME NEW d \in Disks
    PROVE  Later(d, d)
<1>1. \A l \in Locations : d[l] \in Nat
  BY TabsAssumption DEF Disks
<1> QED
  BY <1>1 DEF Later

LEMMA ExtendsSame ==
    ASSUME NEW S, NEW rs \in Seq(S)
    PROVE  Extends(rs, rs)
BY DEF Extends

LEMMA ExtendsAppend ==
    ASSUME NEW S, NEW rs \in Seq(S), NEW r
    PROVE  Extends(rs, Append(rs, r)) /\ Len(Append(rs, r)) = Len(rs) + 1
           /\ Append(rs, r)[Len(rs) + 1] = r
BY DEF Extends

LEMMA LinkedKept ==
    ASSUME NEW t, NEW tb \in TabRecord, NEW rs \in Seq(Request), NEW rs2 \in Seq(Request),
           Extends(rs, rs2), NEW u, NEW u2, u \subseteq u2,
           NEW d \in Disks, NEW d2 \in Disks, Later(d, d2), Linked(t, tb, rs, u, d)
    PROVE  Linked(t, tb, rs2, u2, d2)
<1>1. /\ tb.gen <= Len(rs) /\ tb.req <= Len(rs) /\ tb.sreq <= Len(rs)
      /\ t \notin u => tb.gen = 0 /\ tb.dir = "Idle" /\ tb.search = "Idle"
      /\ tb.dir = "Loading" =>
            tb.req > 0 /\ rs[tb.req].tab = t /\ rs[tb.req].kind = "load"
      /\ tb.search = "Loading" =>
            tb.sreq > 0 /\ rs[tb.sreq].tab = t /\ rs[tb.sreq].kind = "search"
      /\ tb.dir = "Loading" /\ tb.search = "Loading" => rs[tb.req].gen # tb.gen
      /\ tb.pending.direction # "none" => tb.req > 0 /\ JumpsTo(tb, rs[tb.req].loc)
      /\ tb.dir = "Ready" => ListingOf(tb.rows, tb.cur, d)
  BY DEF Linked
<1>2. /\ tb.gen \in Nat /\ tb.req \in Nat /\ tb.sreq \in Nat
      /\ Len(rs) \in Nat /\ Len(rs2) \in Nat /\ Len(rs) <= Len(rs2)
  BY TabFacts, TabsAssumption DEF Extends
<1>3. tb.gen <= Len(rs2) /\ tb.req <= Len(rs2) /\ tb.sreq <= Len(rs2)
  BY <1>1, <1>2
<1>4. tb.req > 0 => rs2[tb.req] = rs[tb.req]
  BY <1>1, <1>2 DEF Extends
<1>5. tb.sreq > 0 => rs2[tb.sreq] = rs[tb.sreq]
  BY <1>1, <1>2 DEF Extends
<1>6. tb.dir = "Ready" => ListingOf(tb.rows, tb.cur, d2)
  BY <1>1, TabFacts, LaterListing
<1>7. t \notin u2 => tb.gen = 0 /\ tb.dir = "Idle" /\ tb.search = "Idle"
  BY <1>1
<1>8. /\ tb.dir = "Loading" =>
            tb.req > 0 /\ rs2[tb.req].tab = t /\ rs2[tb.req].kind = "load"
      /\ tb.search = "Loading" =>
            tb.sreq > 0 /\ rs2[tb.sreq].tab = t /\ rs2[tb.sreq].kind = "search"
  BY <1>1, <1>4, <1>5
<1>9. tb.dir = "Loading" /\ tb.search = "Loading" => rs2[tb.req].gen # tb.gen
  BY <1>1, <1>4
<1>10. tb.pending.direction # "none" => tb.req > 0 /\ JumpsTo(tb, rs2[tb.req].loc)
  BY <1>1, <1>4
<1> QED
  BY <1>3, <1>6, <1>7, <1>8, <1>9, <1>10 DEF Linked

LEMMA LoadBoxLater ==
    ASSUME NEW l \in Locations, NEW stage, NEW box, NEW d \in Disks, NEW d2 \in Disks,
           Later(d, d2), LoadBox(l, stage, box, d)
    PROVE  LoadBox(l, stage, box, d2)
<1>1. ASSUME NEW k \in 1..Len(box), ListingOf(box[k].rows, l, d)
      PROVE  ListingOf(box[k].rows, l, d2)
  BY <1>1, LaterListing
<1> QED
  BY <1>1 DEF LoadBox

LEMMA ServedKept ==
    ASSUME NEW r \in Request, NEW stage, NEW box, NEW tb \in TabRecord, NEW tb2 \in TabRecord,
           tb.gen <= tb2.gen, NEW u, NEW u2, u \subseteq u2,
           NEW d \in Disks, NEW d2 \in Disks, Later(d, d2), Served(r, stage, box, tb, u, d)
    PROVE  Served(r, stage, box, tb2, u2, d2)
<1>1. /\ r.tab \in u /\ r.gen <= tb.gen
      /\ r.kind = "load" => LoadBox(Resolve[r.loc], stage, box, d)
      /\ r.kind = "search" => SearchBox(stage, box)
  BY DEF Served
<1>2. r.gen \in Nat /\ tb.gen \in Nat /\ tb2.gen \in Nat /\ Resolve[r.loc] \in Locations
  <2>1. r.gen \in 1..MaxRequests /\ r.loc \in Locations
    BY DEF Request
  <2> QED
    BY <2>1, TabFacts, TabsAssumption
<1>3. r.gen <= tb2.gen
  BY <1>1, <1>2
<1>4. r.kind = "load" => LoadBox(Resolve[r.loc], stage, box, d2)
  BY <1>1, <1>2, LoadBoxLater
<1> QED
  BY <1>1, <1>3, <1>4 DEF Served

-----------------------------------------------------------------------------
(* What a step keeps of the invariant                                      *)

\* Nothing the user interface holds is forgotten, and no change is undone.
Monotone ==
    /\ Extends(requests, requests') /\ used \subseteq used'
    /\ Later(disk, disk') /\ cancelled \subseteq cancelled'
    /\ \A u \in TabIds : tab[u].gen <= tab'[u].gen

\* No request but i is served, or new.
Only(i) ==
    \A j \in 1..Len(requests') :
       j # i => j \in 1..Len(requests) /\ svc'[j] = svc[j] /\ mail'[j] = mail[j]

LEMMA LinkedNext ==
    ASSUME Shapes, Shapes', TabsLinked, Monotone, NEW t,
           \A u \in TabIds : u # t => tab'[u] = tab[u],
           t \in TabIds => Linked(t, tab'[t], requests', used', disk')
    PROVE  TabsLinked'
<1>1. /\ requests \in Seq(Request) /\ tab \in [TabIds -> TabRecord] /\ disk \in Disks
      /\ requests' \in Seq(Request) /\ disk' \in Disks
  BY ShapeFacts DEF Shapes, ServiceShape, FolderShape, Disks
<1>2. Extends(requests, requests') /\ used \subseteq used' /\ Later(disk, disk')
  BY DEF Monotone
<1>3. ASSUME NEW u \in TabIds, u # t
      PROVE  Linked(u, tab'[u], requests', used', disk')
  <2>1. Linked(u, tab[u], requests, used, disk) /\ tab[u] \in TabRecord
    BY <1>1 DEF TabsLinked
  <2>2. Linked(u, tab[u], requests', used', disk')
    BY <1>1, <1>2, <2>1, LinkedKept
  <2> QED
    BY <1>3, <2>2
<1>4. \A u \in TabIds : Linked(u, tab'[u], requests', used', disk')
  BY <1>3
<1> QED
  BY <1>4 DEF TabsLinked

LEMMA ServedNext ==
    ASSUME Shapes, Shapes', RequestsServed, Monotone, NEW i, Only(i),
           i \in 1..Len(requests') =>
              Served(requests'[i], svc'[i], mail'[i], tab'[requests'[i].tab], used', disk')
    PROVE  RequestsServed'
<1>1. ASSUME NEW j \in 1..Len(requests'), j # i
      PROVE  Served(requests'[j], svc'[j], mail'[j], tab'[requests'[j].tab], used', disk')
  <2>1. j \in 1..Len(requests) /\ svc'[j] = svc[j] /\ mail'[j] = mail[j]
    BY <1>1 DEF Only
  <2>2. requests'[j] = requests[j]
    BY <2>1 DEF Monotone, Extends
  <2>3. /\ requests[j] \in Request /\ requests[j].tab \in TabIds
        /\ tab[requests[j].tab] \in TabRecord
    BY <2>1, RequestFacts
  <2>4. tab'[requests[j].tab] \in TabRecord /\ disk \in Disks /\ disk' \in Disks
    BY <2>3 DEF Shapes, FolderShape, Disks
  <2>5. tab[requests[j].tab].gen <= tab'[requests[j].tab].gen /\ used \subseteq used' /\ Later(disk, disk')
    BY <2>3 DEF Monotone
  <2>6. Served(requests[j], svc[j], mail[j], tab[requests[j].tab], used, disk)
    BY <2>1 DEF RequestsServed
  <2>7. Served(requests[j], svc[j], mail[j], tab'[requests[j].tab], used', disk')
    BY <2>3, <2>4, <2>5, <2>6, ServedKept
  <2> QED
    BY <2>1, <2>2, <2>7
<1>2. \A j \in 1..Len(requests') :
         Served(requests'[j], svc'[j], mail'[j], tab'[requests'[j].tab], used', disk')
  BY <1>1
<1> QED
  BY <1>2 DEF RequestsServed

\* Work that a tab stops waiting for is cancelled, but for request i.
KeepsWork(i) ==
    \A u \in Open :
       /\ LoadOf(tab[u]) \subseteq LoadOf(tab'[u]) \cup cancelled' \cup {i}
       /\ SearchOf(tab[u]) \subseteq SearchOf(tab'[u]) \cup cancelled' \cup {i}
       /\ u \in Open' \/ LoadOf(tab[u]) \cup SearchOf(tab[u]) \subseteq cancelled'

LEMMA AwaitedNext ==
    ASSUME Shapes, WorkAwaited, Monotone, NEW i, KeepsWork(i), Only(i),
           i \in 1..Len(requests') =>
              Awaited(i, requests'[i], svc'[i], tab'[requests'[i].tab], Open', cancelled')
    PROVE  WorkAwaited'
<1>1. ASSUME NEW j \in 1..Len(requests'), j # i
      PROVE  Awaited(j, requests'[j], svc'[j], tab'[requests'[j].tab], Open', cancelled')
  <2>1. j \in 1..Len(requests) /\ svc'[j] = svc[j]
    BY <1>1 DEF Only
  <2>2. requests'[j] = requests[j]
    BY <2>1 DEF Monotone, Extends
  <2> DEFINE r == requests[j]
  <2>3. Awaited(j, r, svc[j], tab[r.tab], Open, cancelled) /\ r.kind \in {"load", "search"}
    BY <2>1, RequestFacts DEF WorkAwaited
  <2>4. cancelled \subseteq cancelled'
    BY DEF Monotone
  <2> HIDE DEF r
  <2>5. ASSUME svc[j] \in {"queued", "list"}, j \notin cancelled'
        PROVE  /\ r.tab \in Open'
               /\ r.kind = "load" => j \in LoadOf(tab'[r.tab])
               /\ r.kind = "search" => j \in SearchOf(tab'[r.tab])
    <3>1. /\ r.tab \in Open
          /\ r.kind = "load" => j \in LoadOf(tab[r.tab])
          /\ r.kind = "search" => j \in SearchOf(tab[r.tab])
      BY <2>3, <2>4, <2>5 DEF Awaited
    <3>2. /\ LoadOf(tab[r.tab]) \subseteq LoadOf(tab'[r.tab]) \cup cancelled' \cup {i}
          /\ SearchOf(tab[r.tab]) \subseteq SearchOf(tab'[r.tab]) \cup cancelled' \cup {i}
          /\ r.tab \in Open' \/ LoadOf(tab[r.tab]) \cup SearchOf(tab[r.tab]) \subseteq cancelled'
      BY <3>1 DEF KeepsWork
    <3> QED
      BY <1>1, <2>3, <2>5, <3>1, <3>2
  <2>6. Awaited(j, r, svc[j], tab'[r.tab], Open', cancelled')
    BY <2>5 DEF Awaited
  <2> QED
    BY <2>1, <2>2, <2>6 DEF r
<1>2. \A j \in 1..Len(requests') :
         Awaited(j, requests'[j], svc'[j], tab'[requests'[j].tab], Open', cancelled')
  BY <1>1
<1> QED
  BY <1>2 DEF WorkAwaited

\* What the load of a tab depends on.
SameTab(n, o) == n.gen = o.gen /\ n.cur = o.cur /\ SameLoad(n, o)

Kept(u) ==
    /\ u \in Open /\ SameTab(tab'[u], tab[u]) /\ disk' = disk
    /\ u \in missed => u \in missed'
    /\ Reported(u) => [tab |-> u, gen |-> tab[u].gen] \in notices'

LEMMA CoveredKept ==
    ASSUME NEW u, Kept(u), NEW l, NEW rows,
           Covered(u, tab[u].gen, l, rows, disk, missed, notices)
    PROVE  Covered(u, tab'[u].gen, l, rows, disk', missed', notices')
BY DEF Covered, Kept, SameTab, Reported

LEMMA ShownKept ==
    ASSUME ShownFresh, NEW u, Kept(u)
    PROVE  Shown(u, tab'[u], disk', missed', notices')
<1>1. u \in Open /\ tab'[u].dir = tab[u].dir /\ tab'[u].cur = tab[u].cur /\ tab'[u].rows = tab[u].rows
  BY DEF Kept, SameTab, SameLoad
<1>2. Shown(u, tab[u], disk, missed, notices)
  BY <1>1 DEF ShownFresh
<1>3. ASSUME tab[u].dir = "Ready", tab[u].cur \notin Synthetic
      PROVE  Covered(u, tab'[u].gen, tab[u].cur, tab[u].rows, disk', missed', notices')
  <2>1. Covered(u, tab[u].gen, tab[u].cur, tab[u].rows, disk, missed, notices)
    BY <1>2, <1>3 DEF Shown
  <2> QED
    BY <2>1, CoveredKept
<1> QED
  BY <1>1, <1>3 DEF Shown

\* The request a loading tab waits for.
LEMMA LoadFacts ==
    ASSUME Shapes, TabsLinked, NEW u \in TabIds, tab[u].dir = "Loading"
    PROVE  /\ tab[u] \in TabRecord /\ tab[u].req \in 1..Len(requests)
           /\ requests[tab[u].req].tab = u /\ requests[tab[u].req].kind = "load"
<1>1. tab[u] \in TabRecord /\ Len(requests) \in Nat
  BY ShapeFacts, TabsAssumption
<1>2. tab[u].req <= Len(requests) /\ tab[u].req > 0 /\ requests[tab[u].req].tab = u
      /\ requests[tab[u].req].kind = "load"
  BY DEF TabsLinked, Linked
<1>3. tab[u].req \in Nat
  BY <1>1, TabFacts, TabsAssumption
<1> QED
  BY <1>1, <1>2, <1>3

LEMMA SearchFacts ==
    ASSUME Shapes, TabsLinked, NEW u \in TabIds, tab[u].search = "Loading"
    PROVE  /\ tab[u] \in TabRecord /\ tab[u].sreq \in 1..Len(requests)
           /\ requests[tab[u].sreq].tab = u /\ requests[tab[u].sreq].kind = "search"
<1>1. tab[u] \in TabRecord /\ Len(requests) \in Nat
  BY ShapeFacts, TabsAssumption
<1>2. tab[u].sreq <= Len(requests) /\ tab[u].sreq > 0 /\ requests[tab[u].sreq].tab = u
      /\ requests[tab[u].sreq].kind = "search"
  BY DEF TabsLinked, Linked
<1>3. tab[u].sreq \in Nat
  BY <1>1, TabFacts, TabsAssumption
<1> QED
  BY <1>1, <1>2, <1>3

Attending(u) == Attends(u, tab[u], requests, Open, cancelled)

\* The load that tab u waits for is where the tab thinks it is.
InStep(u) ==
    /\ Progress(tab[u], requests[tab[u].req], svc[tab[u].req], mail[tab[u].req], disk)
    /\ Coming(u, tab[u], requests[tab[u].req], svc[tab[u].req], mail[tab[u].req],
              disk, missed, notices)

LEMMA LoadKept ==
    ASSUME Shapes, Shapes', TabsLinked, LoadsProgress, ComingFresh, Monotone,
           NEW i, Only(i), NEW u \in TabIds, Kept(u), tab[u].req # i, Attending(u)'
    PROVE  InStep(u)'
<1> DEFINE j == tab[u].req
<1>1. /\ u \in Open /\ tab'[u].gen = tab[u].gen /\ tab'[u].cur = tab[u].cur
      /\ tab'[u].pending = tab[u].pending /\ tab'[u].dir = tab[u].dir /\ tab'[u].req = j
      /\ tab'[u].rows = tab[u].rows /\ tab'[u].seen = tab[u].seen /\ disk' = disk
  BY DEF Kept, SameTab, SameLoad
<1>2. tab'[u].dir = "Loading" /\ tab'[u].req \notin cancelled' /\ tab'[u].gen = requests'[tab'[u].req].gen
  BY DEF Attending, Attends
<1>3. j \in 1..Len(requests)
  BY <1>1, <1>2, LoadFacts
<1>4. requests'[j] = requests[j] /\ cancelled \subseteq cancelled' /\ j \in 1..Len(requests')
  <2>1. Len(requests) \in Nat /\ Len(requests') \in Nat /\ Len(requests) <= Len(requests')
    BY ShapeFacts, TabsAssumption DEF Monotone, Extends, Shapes, ServiceShape
  <2> HIDE DEF j
  <2> QED
    BY <1>3, <2>1 DEF Monotone, Extends
<1>5. svc'[j] = svc[j] /\ mail'[j] = mail[j]
  BY <1>4 DEF Only
<1>6. Attends(u, tab[u], requests, Open, cancelled)
  BY <1>1, <1>2, <1>4 DEF Attends
<1>7. /\ Progress(tab[u], requests[j], svc[j], mail[j], disk)
      /\ Coming(u, tab[u], requests[j], svc[j], mail[j], disk, missed, notices)
  BY <1>6 DEF LoadsProgress, ComingFresh
<1> HIDE DEF j
<1>8. Progress(tab'[u], requests[j], svc[j], mail[j], disk)
  BY <1>1, <1>7 DEF Progress
<1>9. Coming(u, tab'[u], requests[j], svc[j], mail[j], disk', missed', notices')
  BY <1>1, <1>7, CoveredKept DEF Coming
<1> QED
  BY <1>1, <1>4, <1>5, <1>8, <1>9 DEF InStep

\* The load of every tab is in step: the two parts of the invariant together.
LEMMA InStepParts ==
    ASSUME \A u \in TabIds : Attending(u)' => InStep(u)'
    PROVE  LoadsProgress' /\ ComingFresh'
BY DEF Attending, InStep, LoadsProgress, ComingFresh

LEMMA InStepNow ==
    ASSUME LoadsProgress, ComingFresh, NEW u \in TabIds, Attending(u)
    PROVE  InStep(u)
BY DEF Attending, InStep, LoadsProgress, ComingFresh

-----------------------------------------------------------------------------
(* Beginning a load                                                        *)

\* The record of a tab whose load of l has been submitted, and the stage at
\* which the service starts.
Outcome(m, o, l, stage, id, d) ==
    /\ m \in TabRecord /\ m.gen = o.gen + 1 /\ m.req = id /\ m.sreq = o.sreq
    /\ m.search = "Idle" /\ LineStep(m, o)
    /\ stage \in {"queued", "done"} /\ m.dir \in {"Loading", "Ready", "Error"}
    /\ stage = "queued" <=> m.dir = "Loading"
    /\ m.dir = "Loading" => m.seen = {} /\ JumpsTo(m, l)
    /\ m.dir # "Loading" => m.pending.direction = "none"
    /\ m.dir = "Ready" => m.rows = {<<l, d[l]>>} /\ m.cur = l /\ l \in Synthetic

LEMMA SyntheticOutcome ==
    ASSUME Shapes, NEW o \in TabRecord, NEW n, NEW rows \in Rows, NEW p, NEW l \in Synthetic,
           NEW id, Begun(n, o, id, rows, p), JumpsTo(n, l)
    PROVE  Outcome(Finished(Merged(Resolved(n, l), Listing(l))), o, l, "done", id, disk)
<1> DEFINE L == Listing(l)
<1>1. l \in Canon /\ l \in Locations
  BY TabsAssumption DEF Canon
<1>2. L = {<<l, disk[l]>>} /\ L \in Rows
  <2>1. disk[l] \in Nat
    BY <1>1, TabsAssumption DEF Shapes, FolderShape
  <2> QED
    BY <1>1, <2>1 DEF Listing, Rows
<1>3. /\ n \in TabRecord /\ SameHistory(n, o) /\ n.gen = o.gen + 1 /\ n.req = id
      /\ n.rows = rows /\ n.seen = {} /\ n.search = "Idle" /\ n.sreq = o.sreq
  BY DEF Begun
<1> HIDE DEF L
<1>4. PICK r : r = Resolved(n, l)
  OBVIOUS
<1>5. Arrived(r, n, l)
  BY <1>1, <1>3, <1>4, ResolvedArrives
<1>6. r \in TabRecord /\ r.gen = n.gen /\ r.req = n.req /\ r.search = n.search /\ r.sreq = n.sreq
      /\ r.cur = l /\ r.pending.direction = "none" /\ r.rows = n.rows /\ r.seen = n.seen
      /\ LineStep(r, n)
  BY <1>5 DEF Arrived, LoadStep, SameSearch
<1>7. PICK g : g = Merged(r, L)
  OBVIOUS
<1>8. /\ LoadStep(g, r) /\ SameHistory(g, r)
      /\ g.pending = r.pending /\ g.rows = r.rows \cup L /\ g.seen = r.seen \cup L
  BY <1>2, <1>6, <1>7, MergedFields
<1>9. g \in TabRecord /\ g.gen = r.gen /\ g.req = r.req /\ g.search = r.search /\ g.sreq = r.sreq
  BY <1>8 DEF LoadStep, SameSearch
<1>10. PICK m : m = Finished(g)
  OBVIOUS
<1>11. /\ LoadStep(m, g) /\ SameHistory(m, g)
       /\ m.pending = g.pending /\ m.dir = "Ready" /\ m.rows = g.rows \cap g.seen
  BY <1>9, <1>10, FinishedFields
<1>12. m \in TabRecord /\ m.gen = g.gen /\ m.req = g.req /\ m.search = g.search /\ m.sreq = g.sreq
  BY <1>11 DEF LoadStep, SameSearch
<1>13. m.rows = L
  BY <1>3, <1>6, <1>8, <1>11
<1>14. m.cur = l /\ m.pending.direction = "none"
  BY <1>6, <1>8, <1>11 DEF SameHistory
<1>15. LineStep(m, o)
  <2>1. Timeline(m) = Timeline(r) /\ Timeline(n) = Timeline(o)
    BY <1>3, <1>8, <1>11, SameTimeline
  <2>2. n.back = o.back /\ n.cur = o.cur
    BY <1>3 DEF SameHistory
  <2> QED
    BY <1>6, <1>14, <2>1, <2>2 DEF LineStep
<1>16. m.gen = o.gen + 1 /\ m.req = id /\ m.sreq = o.sreq /\ m.search = "Idle"
  BY <1>3, <1>6, <1>9, <1>12
<1>17. Outcome(m, o, l, "done", id, disk)
  BY <1>2, <1>11, <1>12, <1>13, <1>14, <1>15, <1>16 DEF Outcome
<1> QED
  BY <1>4, <1>7, <1>10, <1>17 DEF L

LEMMA QueuedOutcome ==
    ASSUME NEW o \in TabRecord, NEW n, NEW rows, NEW p, NEW l,
           NEW id, Begun(n, o, id, rows, p), JumpsTo(n, l)
    PROVE  Outcome(n, o, l, "queued", id, disk)
<1>1. /\ n \in TabRecord /\ SameHistory(n, o) /\ n.gen = o.gen + 1 /\ n.req = id
      /\ n.dir = "Loading" /\ n.seen = {} /\ n.search = "Idle" /\ n.sreq = o.sreq
  BY DEF Begun
<1>2. LineStep(n, o)
  BY <1>1, SameTimeline DEF LineStep
<1> QED
  BY <1>1, <1>2 DEF Outcome

LEMMA RefusedOutcome ==
    ASSUME NEW o \in TabRecord, NEW n, NEW rows, NEW p, NEW l,
           NEW id, Begun(n, o, id, rows, p)
    PROVE  Outcome(Failed(n), o, l, "done", id, disk)
<1>1. /\ n \in TabRecord /\ SameHistory(n, o) /\ n.gen = o.gen + 1 /\ n.req = id
      /\ n.search = "Idle" /\ n.sreq = o.sreq
  BY DEF Begun
<1>2. PICK m : m = Failed(n)
  OBVIOUS
<1>3. /\ LoadStep(m, n) /\ SameHistory(m, n) /\ m.pending = NoPending /\ m.dir = "Error"
  BY <1>1, <1>2, FailedFields
<1>4. /\ m \in TabRecord /\ m.gen = n.gen /\ m.req = n.req /\ m.search = n.search
      /\ m.sreq = n.sreq /\ m.pending.direction = "none"
  BY <1>3 DEF LoadStep, SameSearch, NoPending
<1>5. LineStep(m, o)
  BY <1>1, <1>3, SameTimeline DEF LineStep
<1>6. Outcome(m, o, l, "done", id, disk)
  BY <1>1, <1>3, <1>4, <1>5 DEF Outcome
<1> QED
  BY <1>2, <1>6

LEMMA SubmitOutcome ==
    ASSUME Shapes, NEW t, NEW o \in TabRecord, NEW n, NEW rows \in Rows, NEW p,
           NEW l \in Locations, Begun(n, o, NextId, rows, p), JumpsTo(n, l), SubmitLoad(t, n, l)
    PROVE  \E m, stage : /\ Outcome(m, o, l, stage, NextId, disk)
                         /\ Enqueue(t, "load", l, stage)
                         /\ tab' = [tab EXCEPT ![t] = m]
                         /\ UNCHANGED <<watch, disk, missed>>
<1>1. UNCHANGED <<watch, disk, missed>>
  BY DEF SubmitLoad
<1>2. CASE /\ l \in Synthetic
           /\ Enqueue(t, "load", l, "done")
           /\ tab' = [tab EXCEPT ![t] = Finished(Merged(Resolved(n, l), Listing(l)))]
  BY <1>1, <1>2, SyntheticOutcome
<1>3. CASE Enqueue(t, "load", l, "queued") /\ tab' = [tab EXCEPT ![t] = n]
  BY <1>1, <1>3, QueuedOutcome
<1>4. CASE Enqueue(t, "load", l, "done") /\ tab' = [tab EXCEPT ![t] = Failed(n)]
  BY <1>1, <1>4, RefusedOutcome
<1> QED
  BY <1>2, <1>3, <1>4 DEF SubmitLoad

Enqueued(t, kind, l, stage) ==
    /\ requests' \in Seq(Request) /\ Len(requests') = NextId /\ NextId <= MaxRequests
    /\ svc' \in Seq(Stages) /\ Len(svc') = NextId
    /\ mail' \in Seq(Seq(EventRecord)) /\ Len(mail') = NextId
    /\ Extends(requests, requests') /\ Only(NextId)
    /\ requests'[NextId].tab = t /\ requests'[NextId].gen = tab[t].gen + 1
    /\ requests'[NextId].kind = kind /\ requests'[NextId].loc = l
    /\ svc'[NextId] = stage /\ mail'[NextId] = <<>>

LEMMA EnqueueFacts ==
    ASSUME Shapes, TabsLinked, NEW t \in TabIds, NEW kind \in {"load", "search"},
           NEW l \in Locations, NEW stage \in Stages, Len(requests) < MaxRequests,
           Enqueue(t, kind, l, stage)
    PROVE  Enqueued(t, kind, l, stage)
<1> DEFINE g == tab[t].gen + 1
           r == [tab |-> t, gen |-> g, kind |-> kind, loc |-> l]
<1>1. Len(requests) \in Nat /\ MaxRequests \in Nat /\ Len(requests) + 1 <= MaxRequests
  BY ShapeFacts, TabsAssumption
<1>2. g \in 1..MaxRequests
  <2>1. tab[t].gen <= Len(requests) /\ tab[t] \in TabRecord
    BY ShapeFacts DEF TabsLinked, Linked
  <2> QED
    BY <1>1, <2>1, TabFacts
<1>3. g = tab[t].gen + 1
  OBVIOUS
<1> HIDE DEF g
<1>4. r \in Request /\ r.tab = t /\ r.gen = g /\ r.kind = kind /\ r.loc = l
  BY <1>2 DEF Request
<1>5. requests' = Append(requests, r) /\ svc' = Append(svc, stage) /\ mail' = Append(mail, <<>>)
  BY DEF Enqueue, g
<1> HIDE DEF r
<1>6. /\ requests \in Seq(Request) /\ svc \in Seq(Stages) /\ Len(svc) = Len(requests)
      /\ mail \in Seq(Seq(EventRecord)) /\ Len(mail) = Len(requests)
  BY ShapeFacts
<1>7. <<>> \in Seq(EventRecord)
  OBVIOUS
<1>8. /\ requests' \in Seq(Request) /\ Len(requests') = Len(requests) + 1
      /\ Extends(requests, requests') /\ requests'[Len(requests) + 1] = r
  BY <1>4, <1>5, <1>6, ExtendsAppend
<1>9. /\ svc' \in Seq(Stages) /\ Len(svc') = Len(requests) + 1
      /\ \A i \in 1..Len(requests) : svc'[i] = svc[i]
      /\ svc'[Len(requests) + 1] = stage
  BY <1>5, <1>6
<1>10. /\ mail' \in Seq(Seq(EventRecord)) /\ Len(mail') = Len(requests) + 1
       /\ \A i \in 1..Len(requests) : mail'[i] = mail[i]
       /\ mail'[Len(requests) + 1] = <<>>
  BY <1>5, <1>6, <1>7
<1>11. Only(Len(requests) + 1)
  <2>1. ASSUME NEW j \in 1..(Len(requests) + 1), j # Len(requests) + 1
        PROVE  j \in 1..Len(requests)
    BY <1>1, <2>1
  <2> QED
    BY <1>8, <1>9, <1>10, <2>1 DEF Only
<1> QED
  BY <1>1, <1>3, <1>4, <1>8, <1>9, <1>10, <1>11 DEF Enqueued, NextId

\* Tab t, whose record was o, starts to load l; tabs other than t keep their
\* work or see it cancelled.
BeginsLoad(t, o, m, l, stage) ==
    /\ t \in TabIds /\ o \in TabRecord /\ l \in Locations /\ Len(requests) < MaxRequests
    /\ o = tab[t] \/ (t \notin used /\ o.gen = 0 /\ o.sreq = 0)
    /\ Outcome(m, o, l, stage, NextId, disk) /\ Enqueue(t, "load", l, stage)
    /\ tab' = [tab EXCEPT ![t] = m]
    /\ UNCHANGED <<watch, disk, missed, cache>>
    /\ cancelled \subseteq cancelled' /\ cancelled' \subseteq 1..Len(requests)
    /\ t \in Open => LoadOf(o) \cup SearchOf(o) \subseteq cancelled'
    /\ \A u \in Open : u \in Open' \/ LoadOf(tab[u]) \cup SearchOf(tab[u]) \subseteq cancelled'
    /\ t \in Open' /\ used \subseteq used' /\ t \in used'
    /\ \A u \in Open' : u # t => u \in Open /\ (Reported(u) => [tab |-> u, gen |-> tab[u].gen] \in notices')
    /\ notices' \subseteq notices

LEMMA BeginFacts ==
    ASSUME Shapes, TabsLinked, NEW t, NEW o, NEW m, NEW l, NEW stage,
           BeginsLoad(t, o, m, l, stage)
    PROVE  /\ Enqueued(t, "load", l, stage)
           /\ tab \in [TabIds -> TabRecord] /\ tab[t].gen = o.gen /\ tab'[t] = m
           /\ tab' \in [TabIds -> TabRecord] /\ \A u \in TabIds : u # t => tab'[u] = tab[u]
           /\ Monotone
<1>1. t \in TabIds /\ o \in TabRecord /\ l \in Locations /\ Len(requests) < MaxRequests
  BY DEF BeginsLoad
<1>2. /\ m \in TabRecord /\ m.gen = o.gen + 1 /\ stage \in Stages
  BY DEF BeginsLoad, Outcome, Stages
<1>3. Enqueued(t, "load", l, stage)
  BY <1>1, <1>2, EnqueueFacts DEF BeginsLoad
<1>4. tab \in [TabIds -> TabRecord] /\ disk \in Disks
  BY ShapeFacts
<1>5. tab[t].gen = o.gen
  <2>1. CASE o = tab[t]
    BY <2>1
  <2>2. CASE t \notin used /\ o.gen = 0
    BY <1>1, <2>2 DEF TabsLinked, Linked
  <2> QED
    BY <2>1, <2>2 DEF BeginsLoad
<1>6. tab' = [tab EXCEPT ![t] = m]
  BY DEF BeginsLoad
<1>7. tab'[t] = m /\ tab' \in [TabIds -> TabRecord] /\ \A u \in TabIds : u # t => tab'[u] = tab[u]
  BY <1>1, <1>2, <1>4, <1>6
<1>8. ASSUME NEW u \in TabIds PROVE tab[u].gen <= tab'[u].gen
  <2>1. tab[u] \in TabRecord
    BY <1>4
  <2>2. tab[u].gen \in Nat
    BY <2>1, TabFacts, TabsAssumption
  <2>3. CASE u = t
    BY <1>2, <1>5, <1>7, <2>2, <2>3
  <2>4. CASE u # t
    BY <1>7, <2>2, <2>4
  <2> QED
    BY <2>3, <2>4
<1>9. Later(disk, disk')
  BY <1>4, LaterSame DEF BeginsLoad
<1>10. Monotone
  BY <1>3, <1>8, <1>9 DEF Monotone, BeginsLoad, Enqueued
<1> QED
  BY <1>3, <1>4, <1>5, <1>7, <1>10

LEMMA BeginShapes ==
    ASSUME Shapes, TabsLinked, NEW t, NEW o, NEW m, NEW l, NEW stage,
           BeginsLoad(t, o, m, l, stage), WindowShape'
    PROVE  Shapes'
<1>1. Enqueued(t, "load", l, stage) /\ tab' \in [TabIds -> TabRecord]
  BY BeginFacts
<1>2. Len(requests) \in Nat
  BY ShapeFacts, TabsAssumption
<1>3. cancelled' \subseteq 1..Len(requests')
  <2>1. cancelled' \subseteq 1..Len(requests) /\ Len(requests') = Len(requests) + 1
    BY <1>1 DEF BeginsLoad, Enqueued, NextId
  <2> QED
    BY <1>2, <2>1
<1>4. ServiceShape'
  BY <1>1, <1>3 DEF ServiceShape, Enqueued
<1>5. FolderShape'
  BY DEF FolderShape, Shapes, BeginsLoad
<1>6. cache' \in [Locations -> Rows]
  BY DEF Shapes, BeginsLoad
<1> QED
  BY <1>1, <1>4, <1>5, <1>6 DEF Shapes

LEMMA BeginLinked ==
    ASSUME Shapes, Shapes', TabsLinked, NEW t, NEW o, NEW m, NEW l, NEW stage,
           BeginsLoad(t, o, m, l, stage)
    PROVE  TabsLinked'
<1>1. /\ Enqueued(t, "load", l, stage) /\ tab[t].gen = o.gen /\ tab'[t] = m
      /\ \A u \in TabIds : u # t => tab'[u] = tab[u]
      /\ Monotone
  BY BeginFacts
<1>2. Outcome(m, o, l, stage, NextId, disk) /\ t \in used' /\ t \in TabIds /\ disk' = disk
  BY DEF BeginsLoad
<1>3. /\ NextId \in Nat /\ NextId > 0 /\ NextId = Len(requests) + 1 /\ Len(requests') = NextId
      /\ Len(requests) \in Nat
  BY <1>1, ShapeFacts, TabsAssumption DEF Enqueued, NextId
<1>4. m.gen <= Len(requests') /\ m.req <= Len(requests') /\ m.sreq <= Len(requests')
  <2>1. o.gen <= Len(requests) /\ o.sreq <= Len(requests)
    <3>1. tab[t].gen <= Len(requests) /\ tab[t].sreq <= Len(requests)
      BY <1>2 DEF TabsLinked, Linked
    <3> QED
      BY <1>1, <1>3, <3>1 DEF BeginsLoad
  <2>2. o.gen \in Nat /\ o.sreq \in Nat
    BY TabFacts, TabsAssumption DEF BeginsLoad
  <2>3. m.gen = o.gen + 1 /\ m.req = NextId /\ m.sreq = o.sreq
    BY <1>2 DEF Outcome
  <2> QED
    BY <1>3, <2>1, <2>2, <2>3
<1>5. m.dir = "Loading" =>
         m.req > 0 /\ requests'[m.req].tab = t /\ requests'[m.req].kind = "load"
  BY <1>1, <1>2, <1>3 DEF Outcome, Enqueued
<1>6. m.search # "Loading"
  BY <1>2 DEF Outcome
<1>7. m.pending.direction # "none" => m.req > 0 /\ JumpsTo(m, requests'[m.req].loc)
  BY <1>1, <1>2, <1>3 DEF Outcome, Enqueued
<1>8. m.dir = "Ready" => ListingOf(m.rows, m.cur, disk')
  <2>1. ASSUME m.dir = "Ready" PROVE ListingOf(m.rows, m.cur, disk)
    <3>1. m.rows = {<<l, disk[l]>>} /\ m.cur = l
      BY <1>2, <2>1 DEF Outcome
    <3>2. disk[l] \in 0..disk[l]
      BY TabsAssumption DEF BeginsLoad, Shapes, FolderShape
    <3> QED
      BY <3>1, <3>2 DEF ListingOf
  <2> QED
    BY <1>2, <2>1
<1>9. Linked(t, m, requests', used', disk')
  BY <1>2, <1>4, <1>5, <1>6, <1>7, <1>8 DEF Linked
<1> QED
  BY <1>1, <1>9, LinkedNext

LEMMA BeginServed ==
    ASSUME Shapes, Shapes', TabsLinked, RequestsServed, NEW t, NEW o, NEW m, NEW l, NEW stage,
           BeginsLoad(t, o, m, l, stage)
    PROVE  RequestsServed'
<1>1. /\ Enqueued(t, "load", l, stage) /\ tab[t].gen = o.gen /\ tab'[t] = m /\ Monotone
  BY BeginFacts
<1> DEFINE i == NextId
           r == requests'[i]
<1>2. r.tab = t /\ r.gen = m.gen /\ r.kind = "load" /\ t \in used' /\ svc'[i] = stage /\ mail'[i] = <<>>
  BY <1>1 DEF Enqueued, BeginsLoad, Outcome
<1>3. m.gen \in Nat /\ tab' \in [TabIds -> TabRecord]
  BY TabFacts, TabsAssumption DEF BeginsLoad, Outcome, Shapes
<1>4. LoadBox(Resolve[r.loc], stage, <<>>, disk')
  BY DEF LoadBox
<1> HIDE DEF r, i
<1>5. Served(r, stage, <<>>, m, used', disk')
  BY <1>2, <1>3, <1>4 DEF Served
<1>6. Only(i)
  BY <1>1 DEF Enqueued, i
<1>7. Served(requests'[i], svc'[i], mail'[i], tab'[requests'[i].tab], used', disk')
  BY <1>1, <1>2, <1>5 DEF r
<1> QED
  BY <1>1, <1>6, <1>7, ServedNext

LEMMA BeginAwaited ==
    ASSUME Shapes, TabsLinked, WorkAwaited, NEW t, NEW o, NEW m, NEW l, NEW stage,
           BeginsLoad(t, o, m, l, stage)
    PROVE  WorkAwaited'
<1>1. /\ Enqueued(t, "load", l, stage) /\ tab'[t] = m /\ Monotone
      /\ \A u \in TabIds : u # t => tab'[u] = tab[u]
  BY BeginFacts
<1>2. Open \subseteq TabIds /\ Open \subseteq used
  BY ShapeFacts
<1>3. ASSUME NEW u \in Open
      PROVE  /\ LoadOf(tab[u]) \subseteq LoadOf(tab'[u]) \cup cancelled'
             /\ SearchOf(tab[u]) \subseteq SearchOf(tab'[u]) \cup cancelled'
             /\ u \in Open' \/ LoadOf(tab[u]) \cup SearchOf(tab[u]) \subseteq cancelled'
  <2>1. CASE u # t
    <3>1. tab'[u] = tab[u]
      BY <1>1, <1>2, <2>1
    <3> QED
      BY <3>1 DEF BeginsLoad
  <2>2. CASE u = t
    <3>1. o = tab[t] /\ LoadOf(o) \cup SearchOf(o) \subseteq cancelled' /\ t \in Open'
      BY <1>2, <2>2 DEF BeginsLoad
    <3> QED
      BY <2>2, <3>1
  <2> QED
    BY <2>1, <2>2
<1> DEFINE i == NextId
           r == requests'[i]
<1>4. KeepsWork(i)
  BY <1>3 DEF KeepsWork
<1>5. r.tab = t /\ r.kind = "load" /\ svc'[i] = stage /\ Only(i)
  BY <1>1 DEF Enqueued
<1>6. stage \in {"queued", "list"} => i \in LoadOf(m)
  BY DEF BeginsLoad, Outcome, LoadOf
<1>7. t \in Open'
  BY DEF BeginsLoad
<1> HIDE DEF r, i
<1>8. Awaited(i, r, stage, m, Open', cancelled')
  BY <1>5, <1>6, <1>7 DEF Awaited
<1>9. Awaited(i, requests'[i], svc'[i], tab'[requests'[i].tab], Open', cancelled')
  BY <1>1, <1>5, <1>8 DEF r
<1> QED
  BY <1>1, <1>4, <1>5, <1>9, AwaitedNext

LEMMA BeginKeeps ==
    ASSUME Shapes, TabsLinked, NEW t, NEW o, NEW m, NEW l, NEW stage,
           BeginsLoad(t, o, m, l, stage), NEW u \in Open', u # t
    PROVE  Kept(u)
<1>1. u \in Open /\ (Reported(u) => [tab |-> u, gen |-> tab[u].gen] \in notices')
  BY DEF BeginsLoad
<1>2. tab'[u] = tab[u]
  BY <1>1, BeginFacts, ShapeFacts
<1>3. disk' = disk /\ missed' = missed
  BY DEF BeginsLoad
<1> QED
  BY <1>1, <1>2, <1>3 DEF Kept, SameTab, SameLoad

LEMMA BeginInStep ==
    ASSUME Shapes, Shapes', TabsLinked, LoadsProgress, ComingFresh,
           NEW t, NEW o, NEW m, NEW l, NEW stage, BeginsLoad(t, o, m, l, stage)
    PROVE  LoadsProgress' /\ ComingFresh'
<1>1. Enqueued(t, "load", l, stage) /\ tab'[t] = m /\ Monotone
  BY BeginFacts
<1>2. ASSUME NEW u \in TabIds, Attending(u)' PROVE InStep(u)'
  <2>1. u \in Open'
    BY <1>2 DEF Attending, Attends
  <2>2. CASE u = t
    <3>1. m.dir = "Loading"
      BY <1>1, <1>2, <2>2 DEF Attending, Attends
    <3>2. stage = "queued" /\ m.req = NextId /\ m.seen = {}
      BY <3>1 DEF BeginsLoad, Outcome
    <3>3. svc'[m.req] = "queued" /\ mail'[m.req] = <<>>
      BY <1>1, <3>2 DEF Enqueued
    <3>4. ToList("queued", <<>>) /\ Resolving("queued", <<>>)
      BY DEF ToList, Resolving
    <3>5. Progress(m, requests'[m.req], svc'[m.req], mail'[m.req], disk')
      BY <3>2, <3>3, <3>4 DEF Progress
    <3>6. Coming(t, m, requests'[m.req], svc'[m.req], mail'[m.req], disk', missed', notices')
      BY <3>3, <3>4 DEF Coming
    <3> QED
      BY <1>1, <2>2, <3>5, <3>6 DEF InStep
  <2>3. CASE u # t
    <3>1. Kept(u)
      BY <2>1, <2>3, BeginKeeps
    <3>2. Only(NextId)
      BY <1>1 DEF Enqueued
    <3>3. tab[u].req # NextId
      <4>1. tab[u] \in TabRecord /\ tab[u].req <= Len(requests) /\ Len(requests) \in Nat
        BY ShapeFacts, TabsAssumption DEF TabsLinked, Linked
      <4>2. tab[u].req \in Nat
        BY <4>1, TabFacts, TabsAssumption
      <4> QED
        BY <4>1, <4>2 DEF NextId
    <3> QED
      BY <1>1, <1>2, <3>1, <3>2, <3>3, LoadKept
  <2> QED
    BY <2>2, <2>3
<1> QED
  BY <1>2, InStepParts

LEMMA BeginShown ==
    ASSUME Shapes, TabsLinked, ShownFresh, NEW t, NEW o, NEW m, NEW l, NEW stage,
           BeginsLoad(t, o, m, l, stage)
    PROVE  ShownFresh'
<1>1. tab'[t] = m
  BY BeginFacts
<1>2. ASSUME NEW u \in Open' PROVE Shown(u, tab'[u], disk', missed', notices')
  <2>1. CASE u = t
    <3>1. m.dir = "Ready" => m.cur \in Synthetic
      BY DEF BeginsLoad, Outcome
    <3> QED
      BY <1>1, <2>1, <3>1 DEF Shown
  <2>2. CASE u # t
    BY <2>2, BeginKeeps, ShownKept
  <2> QED
    BY <2>1, <2>2
<1> QED
  BY <1>2 DEF ShownFresh

\* Beginning a load keeps the invariant, whoever begins it.
LEMMA BeginInv ==
    ASSUME TabInv, NEW t, NEW o, NEW m, NEW l, NEW stage, BeginsLoad(t, o, m, l, stage),
           WindowShape'
    PROVE  TabInv'
<1>1. /\ Shapes /\ TabsLinked /\ RequestsServed /\ WorkAwaited /\ LoadsProgress
      /\ CacheListed /\ ShownFresh /\ ComingFresh
  BY DEF TabInv
<1>2. Shapes'
  BY <1>1, BeginShapes
<1>3. TabsLinked' /\ RequestsServed' /\ WorkAwaited'
  BY <1>1, <1>2, BeginLinked, BeginServed, BeginAwaited
<1>4. LoadsProgress' /\ ComingFresh' /\ ShownFresh'
  BY <1>1, <1>2, BeginInStep, BeginShown
<1>5. CacheListed'
  BY <1>1 DEF CacheListed, BeginsLoad
<1> QED
  BY <1>2, <1>3, <1>4, <1>5 DEF TabInv

-----------------------------------------------------------------------------
(* The actions that begin a load                                           *)

JumpFits(tb, p, l) ==
    /\ p.direction = "back" =>
          p.steps \in 1..Len(tb.back) /\ l = tb.back[Len(tb.back) - p.steps + 1]
    /\ p.direction = "forward" =>
          p.steps \in 1..Len(tb.fwd) /\ l = tb.fwd[Len(tb.fwd) - p.steps + 1]

\* The window shows tab t; other tabs stay, or go with their work cancelled.
Presents(t) ==
    /\ t \in Open' /\ used \subseteq used' /\ t \in used' /\ cache' = cache
    /\ \A u \in Open' : u # t => u \in Open /\ (Reported(u) => [tab |-> u, gen |-> tab[u].gen] \in notices')
    /\ \A u \in Open : u \in Open' \/ LoadOf(tab[u]) \cup SearchOf(tab[u]) \subseteq cancelled'
    /\ notices' \subseteq notices

Loadable(t, tb) ==
    /\ t \in TabIds /\ tb \in TabRecord
    /\ \/ t \in Open /\ tb = tab[t]
       \/ t \notin used /\ tb.gen = 0 /\ tb.sreq = 0 /\ tb.dir = "Idle" /\ tb.search = "Idle"

LEMMA RoomToIssue ==
    ASSUME Shapes, CanIssue
    PROVE  /\ Len(requests) \in Nat /\ Len(requests) < MaxRequests
           /\ NextId \in 1..MaxRequests
<1>1. scenario.requests \in 1..MaxRequests
  BY TabsAssumption DEF Shapes, WindowShape
<1>2. Len(requests) \in Nat
  BY ShapeFacts, TabsAssumption
<1> QED
  BY <1>1, <1>2, TabsAssumption DEF CanIssue, NextId

LEMMA WorkInRange ==
    ASSUME Shapes, TabsLinked, NEW t \in TabIds
    PROVE  LoadOf(tab[t]) \cup SearchOf(tab[t]) \subseteq 1..Len(requests)
<1>1. ASSUME tab[t].dir = "Loading" PROVE tab[t].req \in 1..Len(requests)
  BY <1>1, LoadFacts
<1>2. ASSUME tab[t].search = "Loading" PROVE tab[t].sreq \in 1..Len(requests)
  BY <1>2, SearchFacts
<1> QED
  BY <1>1, <1>2 DEF LoadOf, SearchOf

LEMMA LoadableFacts ==
    ASSUME Shapes, TabsLinked, NEW t, NEW tb, Loadable(t, tb)
    PROVE  /\ t \in TabIds /\ tb \in TabRecord /\ tb.gen <= Len(requests)
           /\ tb = tab[t] \/ (t \notin used /\ tb.gen = 0 /\ tb.sreq = 0)
           /\ LoadOf(tb) \cup SearchOf(tb) \subseteq 1..Len(requests)
<1>1. t \in TabIds /\ tb \in TabRecord
  BY DEF Loadable
<1>2. Len(requests) \in Nat
  BY ShapeFacts, TabsAssumption
<1>3. CASE tb = tab[t]
  <2>1. tab[t].gen <= Len(requests)
    BY <1>1 DEF TabsLinked, Linked
  <2> QED
    BY <1>1, <1>3, <2>1, WorkInRange
<1>4. CASE t \notin used /\ tb.gen = 0 /\ tb.sreq = 0 /\ tb.dir = "Idle" /\ tb.search = "Idle"
  <2>1. LoadOf(tb) = {} /\ SearchOf(tb) = {}
    BY <1>4 DEF LoadOf, SearchOf
  <2> QED
    BY <1>1, <1>2, <1>4, <2>1
<1> QED
  BY <1>3, <1>4 DEF Loadable

\* The part of BeginLoad that CloseTab shares with it.
LEMMA SubmitBegins ==
    ASSUME Shapes, TabsLinked, NEW t, NEW tb, Loadable(t, tb), NEW n, NEW rows \in Rows, NEW p,
           NEW l \in Locations, CanIssue, Begun(n, tb, NextId, rows, p), JumpFits(tb, p, l),
           SubmitLoad(t, n, l), Presents(t),
           cancelled \subseteq cancelled', cancelled' \subseteq 1..Len(requests),
           LoadOf(tb) \cup SearchOf(tb) \subseteq cancelled'
    PROVE  \E m, stage : BeginsLoad(t, tb, m, l, stage)
<1>1. Len(requests) < MaxRequests
  BY RoomToIssue
<1>2. /\ t \in TabIds /\ tb \in TabRecord
      /\ tb = tab[t] \/ (t \notin used /\ tb.gen = 0 /\ tb.sreq = 0)
  BY LoadableFacts
<1>3. JumpsTo(n, l)
  BY DEF Begun, SameHistory, JumpFits, JumpsTo
<1>4. PICK m, stage : /\ Outcome(m, tb, l, stage, NextId, disk)
                      /\ Enqueue(t, "load", l, stage)
                      /\ tab' = [tab EXCEPT ![t] = m]
                      /\ UNCHANGED <<watch, disk, missed>>
  BY <1>2, <1>3, SubmitOutcome
<1>5. BeginsLoad(t, tb, m, l, stage)
  BY <1>1, <1>2, <1>4 DEF BeginsLoad, Presents
<1> QED
  BY <1>5

LEMMA LoadBegins ==
    ASSUME Shapes, TabsLinked, NEW t, NEW tb, Loadable(t, tb), NEW rows \in Rows, NEW p \in Jump,
           NEW l \in Locations, JumpFits(tb, p, l), BeginLoad(t, tb, l, rows, p), Presents(t)
    PROVE  \E m, stage : BeginsLoad(t, tb, m, l, stage)
<1> DEFINE n == [Loading(tb, NextId, rows) EXCEPT !.pending = p]
<1>1. /\ CanIssue /\ SubmitLoad(t, n, l)
      /\ cancelled' = cancelled \cup LoadOf(tb) \cup SearchOf(tb)
  BY DEF BeginLoad
<1>2. /\ Len(requests) < MaxRequests /\ NextId \in 1..MaxRequests /\ Len(requests) \in Nat
  BY <1>1, RoomToIssue
<1>3. tb \in TabRecord /\ tb.gen <= Len(requests) /\ LoadOf(tb) \cup SearchOf(tb) \subseteq 1..Len(requests)
  BY LoadableFacts
<1>4. tb.gen < MaxRequests
  <2>1. tb.gen \in Nat
    BY <1>3, TabFacts, TabsAssumption
  <2> QED
    BY <1>2, <1>3, <2>1, TabsAssumption
<1>5. Begun(n, tb, NextId, rows, p)
  BY <1>2, <1>3, <1>4, LoadingFields
<1>6. cancelled' \subseteq 1..Len(requests)
  BY <1>1, <1>3, ShapeFacts
<1> HIDE DEF n
<1>7. cancelled \subseteq cancelled' /\ LoadOf(tb) \cup SearchOf(tb) \subseteq cancelled'
  BY <1>1
<1> QED
  BY <1>1, <1>5, <1>6, <1>7, SubmitBegins

LEMMA RowsTyped ==
    ASSUME Shapes
    PROVE  /\ \A l \in Locations : cache[l] \in Rows
           /\ \A t \in TabIds : tab[t].rows \in Rows /\ tab[t].cur \in Locations
           /\ active \in Open /\ active \in TabIds
<1>1. \A l \in Locations : cache[l] \in Rows
  BY DEF Shapes
<1>2. ASSUME NEW t \in TabIds PROVE tab[t].rows \in Rows /\ tab[t].cur \in Locations
  BY ShapeFacts, TabFacts
<1>3. active \in Open /\ active \in TabIds
  BY ShapeFacts DEF Shapes, WindowShape
<1> QED
  BY <1>1, <1>2, <1>3

LEMMA NoPendingFits ==
    NoPending \in Jump /\ \A tb, l : JumpFits(tb, NoPending, l)
BY TabsAssumption DEF NoPending, Jump, JumpFits

LEMMA SameWindow ==
    ASSUME Shapes, UNCHANGED uiVars, UNCHANGED scenario
    PROVE  WindowShape' /\ Open' = Open /\ used' = used
<1>1. order' = order /\ active' = active /\ closed' = closed /\ used' = used /\ scenario' = scenario
  BY DEF uiVars
<1>2. Open' = Open
  BY <1>1 DEF Open
<1> QED
  BY <1>1, <1>2 DEF Shapes, WindowShape

\* A load of a tab of the window whose tabs stay what they are.
LEMMA HereBegins ==
    ASSUME TabInv, NEW t \in Open, NEW rows \in Rows, NEW p \in Jump, NEW l \in Locations,
           JumpFits(tab[t], p, l), BeginLoad(t, tab[t], l, rows, p),
           UNCHANGED uiVars, UNCHANGED <<scenario, cache>>, notices' \subseteq notices,
           \A u \in Open : u # t /\ Reported(u) => [tab |-> u, gen |-> tab[u].gen] \in notices'
    PROVE  WindowShape' /\ \E m, stage : BeginsLoad(t, tab[t], m, l, stage)
<1>1. Shapes /\ TabsLinked
  BY DEF TabInv
<1>2. WindowShape' /\ Open' = Open /\ used' = used
  BY <1>1, SameWindow
<1>3. t \in TabIds /\ tab[t] \in TabRecord /\ t \in used
  BY <1>1, ShapeFacts
<1>4. Loadable(t, tab[t])
  BY <1>3 DEF Loadable
<1>5. Presents(t)
  BY <1>2, <1>3 DEF Presents
<1> QED
  BY <1>1, <1>2, <1>4, <1>5, LoadBegins

LEMMA NavigateBegins ==
    ASSUME TabInv, NEW l \in Locations, Navigate(l), UNCHANGED scenario
    PROVE  WindowShape' /\ \E m, stage : BeginsLoad(active, tab[active], m, l, stage)
<1>1. active \in Open /\ cache[l] \in Rows
  BY RowsTyped DEF TabInv
<1>2. NoPending \in Jump /\ JumpFits(tab[active], NoPending, l)
  BY NoPendingFits
<1>3. /\ BeginLoad(active, tab[active], l, cache[l], NoPending)
      /\ UNCHANGED uiVars /\ UNCHANGED <<scenario, cache>> /\ notices' = notices
  BY DEF Navigate
<1>4. \A u \in Open : u # active /\ Reported(u) => [tab |-> u, gen |-> tab[u].gen] \in notices'
  BY <1>3 DEF Reported
<1> QED
  BY <1>1, <1>2, <1>3, <1>4, HereBegins

LEMMA RefreshBegins ==
    ASSUME TabInv, Refresh, UNCHANGED scenario
    PROVE  WindowShape' /\ \E m, l, stage : BeginsLoad(active, tab[active], m, l, stage)
<1> DEFINE l == tab[active].cur
           rows == tab[active].rows
<1>1. active \in Open /\ l \in Locations /\ rows \in Rows
  BY RowsTyped DEF TabInv
<1>2. NoPending \in Jump /\ JumpFits(tab[active], NoPending, l)
  BY NoPendingFits
<1>3. /\ BeginLoad(active, tab[active], l, rows, NoPending)
      /\ UNCHANGED uiVars /\ UNCHANGED <<scenario, cache>> /\ notices' = notices
  BY DEF Refresh
<1>4. \A u \in Open : u # active /\ Reported(u) => [tab |-> u, gen |-> tab[u].gen] \in notices'
  BY <1>3 DEF Reported
<1> HIDE DEF l, rows
<1> QED
  BY <1>1, <1>2, <1>3, <1>4, HereBegins

LEMMA BackBegins ==
    ASSUME TabInv, NEW k \in 1..MaxRequests, Back(k), UNCHANGED scenario
    PROVE  WindowShape' /\ \E m, l, stage : BeginsLoad(active, tab[active], m, l, stage)
<1> DEFINE tb == tab[active]
           l == tb.back[Len(tb.back) - k + 1]
           p == [direction |-> "back", steps |-> k]
<1>1. active \in Open /\ active \in TabIds /\ k <= Len(tb.back)
  BY RowsTyped DEF TabInv, Back
<1>2. tb \in TabRecord
  BY <1>1, ShapeFacts DEF TabInv
<1>3. p \in Jump /\ p.direction = "back" /\ p.steps = k
  BY TabsAssumption DEF Jump
<1>4. tb.back \in Seq(Canon) /\ Len(tb.back) \in Nat
  BY <1>2, HistoryTyped
<1>5. k \in 1..Len(tb.back) /\ Len(tb.back) - k + 1 \in 1..Len(tb.back)
  BY <1>1, <1>4, TabsAssumption
<1>6. l \in Locations
  BY <1>4, <1>5 DEF Canon
<1>7. /\ BeginLoad(active, tb, l, cache[l], p)
      /\ UNCHANGED uiVars /\ UNCHANGED <<scenario, cache>> /\ notices' = notices
  BY DEF Back
<1>8. JumpFits(tb, p, l)
  BY <1>3, <1>5 DEF JumpFits
<1>9. cache[l] \in Rows
  BY <1>6, RowsTyped DEF TabInv
<1>10. \A u \in Open : u # active /\ Reported(u) => [tab |-> u, gen |-> tab[u].gen] \in notices'
  BY <1>7 DEF Reported
<1> HIDE DEF l, p
<1> QED
  BY <1>1, <1>3, <1>6, <1>7, <1>8, <1>9, <1>10, HereBegins

LEMMA ForwardBegins ==
    ASSUME TabInv, NEW k \in 1..MaxRequests, Forward(k), UNCHANGED scenario
    PROVE  WindowShape' /\ \E m, l, stage : BeginsLoad(active, tab[active], m, l, stage)
<1> DEFINE tb == tab[active]
           l == tb.fwd[Len(tb.fwd) - k + 1]
           p == [direction |-> "forward", steps |-> k]
<1>1. active \in Open /\ active \in TabIds /\ k <= Len(tb.fwd)
  BY RowsTyped DEF TabInv, Forward
<1>2. tb \in TabRecord
  BY <1>1, ShapeFacts DEF TabInv
<1>3. p \in Jump /\ p.direction = "forward" /\ p.steps = k
  BY TabsAssumption DEF Jump
<1>4. tb.fwd \in Seq(Canon) /\ Len(tb.fwd) \in Nat
  BY <1>2, HistoryTyped
<1>5. k \in 1..Len(tb.fwd) /\ Len(tb.fwd) - k + 1 \in 1..Len(tb.fwd)
  BY <1>1, <1>4, TabsAssumption
<1>6. l \in Locations
  BY <1>4, <1>5 DEF Canon
<1>7. /\ BeginLoad(active, tb, l, cache[l], p)
      /\ UNCHANGED uiVars /\ UNCHANGED <<scenario, cache>> /\ notices' = notices
  BY DEF Forward
<1>8. JumpFits(tb, p, l)
  BY <1>3, <1>5 DEF JumpFits
<1>9. cache[l] \in Rows
  BY <1>6, RowsTyped DEF TabInv
<1>10. \A u \in Open : u # active /\ Reported(u) => [tab |-> u, gen |-> tab[u].gen] \in notices'
  BY <1>7 DEF Reported
<1> HIDE DEF l, p
<1> QED
  BY <1>1, <1>3, <1>6, <1>7, <1>8, <1>9, <1>10, HereBegins

LEMMA NoticeBegins ==
    ASSUME TabInv, NEW n \in notices, DrainNotice(n), n.tab \in Open, tab[n.tab].gen = n.gen,
           UNCHANGED scenario
    PROVE  WindowShape' /\ \E m, l, stage : BeginsLoad(n.tab, tab[n.tab], m, l, stage)
<1> DEFINE t == n.tab
           l == tab[t].cur
           rows == tab[t].rows
<1>1. t \in TabIds /\ l \in Locations /\ rows \in Rows
  BY RowsTyped, ShapeFacts DEF TabInv
<1>2. NoPending \in Jump /\ JumpFits(tab[t], NoPending, l)
  BY NoPendingFits
<1>3. /\ BeginLoad(t, tab[t], l, rows, NoPending)
      /\ UNCHANGED uiVars /\ UNCHANGED <<scenario, cache>> /\ notices' = notices \ {n}
  BY DEF DrainNotice
<1>4. \A u \in Open : u # t /\ Reported(u) => [tab |-> u, gen |-> tab[u].gen] \in notices'
  BY <1>3 DEF Reported
<1> HIDE DEF l, rows
<1> QED
  BY <1>1, <1>2, <1>3, <1>4, HereBegins

-----------------------------------------------------------------------------
(* Steps that leave folders, loads and histories alone                     *)

\* Request i alone is served, and of tab t alone the search changes.
Light(i, t) ==
    /\ requests' = requests /\ used' \subseteq TabIds /\ used \subseteq used'
    /\ disk' = disk /\ cache' = cache
    /\ \A u \in Open' :
          (u \in missed => u \in missed') \/ (tab[u].dir = "Loading" /\ tab[u].req = i)
    /\ Only(i) /\ cancelled \subseteq cancelled' /\ Open' \subseteq Open
    /\ \A u \in TabIds : u # t => tab'[u] = tab[u]
    /\ t \in TabIds => /\ Searched(tab'[t], tab[t])
                       /\ tab'[t].search = "Loading" => tab[t].search = "Loading"
                       /\ t \notin used => tab'[t].search = "Idle"
    /\ KeepsWork(i)
    /\ \A u \in Open' : Reported(u) => [tab |-> u, gen |-> tab[u].gen] \in notices'
    /\ i \in 1..Len(requests) =>
          /\ Served(requests[i], svc'[i], mail'[i], tab[requests[i].tab], used, disk)
          /\ Awaited(i, requests[i], svc'[i], tab'[requests[i].tab], Open', cancelled')
    /\ \A u \in TabIds : Attending(u)' /\ tab[u].req = i => InStep(u)'

LEMMA SearchedLinked ==
    ASSUME NEW t, NEW n, NEW o, NEW rs, NEW u, NEW d, Linked(t, o, rs, u, d), Searched(n, o),
           n.search = "Loading" => o.search = "Loading", t \notin u => n.search = "Idle"
    PROVE  Linked(t, n, rs, u, d)
<1>1. /\ n.gen = o.gen /\ n.sreq = o.sreq /\ n.back = o.back /\ n.cur = o.cur /\ n.fwd = o.fwd
      /\ n.pending = o.pending /\ n.dir = o.dir /\ n.req = o.req /\ n.rows = o.rows
  BY DEF Searched, SameHistory, SameLoad
<1>2. \A l : JumpsTo(n, l) <=> JumpsTo(o, l)
  BY <1>1 DEF JumpsTo
<1> QED
  BY <1>1, <1>2 DEF Linked

LEMMA LightKept ==
    ASSUME Shapes, NEW i, NEW t, Light(i, t), NEW u \in Open',
           tab[u].dir = "Loading" => tab[u].req # i
    PROVE  Kept(u)
<1>1. u \in Open /\ u \in TabIds
  BY ShapeFacts DEF Light
<1>2. SameTab(tab'[u], tab[u])
  <2>1. CASE u = t
    BY <1>1, <2>1 DEF Light, Searched, SameTab, SameHistory
  <2>2. CASE u # t
    <3>1. tab'[u] = tab[u]
      BY <1>1, <2>2 DEF Light
    <3> QED
      BY <3>1 DEF SameTab, SameLoad
  <2> QED
    BY <2>1, <2>2
<1> QED
  BY <1>1, <1>2 DEF Light, Kept

LEMMA LightMonotone ==
    ASSUME Shapes, NEW i, NEW t, Light(i, t)
    PROVE  Monotone
<1>1. requests' = requests /\ requests \in Seq(Request) /\ disk' = disk /\ disk \in Disks
  BY ShapeFacts DEF Light
<1>2. Extends(requests, requests') /\ Later(disk, disk')
  BY <1>1, ExtendsSame, LaterSame
<1>3. ASSUME NEW u \in TabIds PROVE tab[u].gen <= tab'[u].gen
  <2>1. tab'[u].gen = tab[u].gen
    BY DEF Light, Searched
  <2>2. tab[u].gen \in Nat
    BY ShapeFacts, TabFacts, TabsAssumption
  <2> QED
    BY <2>1, <2>2
<1> QED
  BY <1>2, <1>3 DEF Light, Monotone

LEMMA LightInv ==
    ASSUME TabInv, Shapes', NEW i, NEW t, Light(i, t)
    PROVE  TabInv'
<1>1. /\ Shapes /\ TabsLinked /\ RequestsServed /\ WorkAwaited /\ LoadsProgress
      /\ CacheListed /\ ShownFresh /\ ComingFresh
  BY DEF TabInv
<1>2. Monotone
  BY <1>1, LightMonotone
<1>3. requests' = requests /\ disk' = disk /\ used \subseteq used' /\ Only(i)
      /\ \A u \in TabIds : u # t => tab'[u] = tab[u]
  BY DEF Light
<1>4. TabsLinked'
  <2>1. ASSUME t \in TabIds PROVE Linked(t, tab'[t], requests', used', disk')
    <3>1. Linked(t, tab[t], requests, used, disk)
      BY <1>1, <2>1 DEF TabsLinked
    <3>2. Searched(tab'[t], tab[t]) /\ (tab'[t].search = "Loading" => tab[t].search = "Loading")
          /\ (t \notin used => tab'[t].search = "Idle")
      BY <2>1 DEF Light
    <3>3. Linked(t, tab'[t], requests, used, disk)
      BY <3>1, <3>2, SearchedLinked
    <3>4. tab'[t] \in TabRecord /\ requests \in Seq(Request) /\ disk \in Disks
      BY <1>1, <3>2, ShapeFacts DEF Searched
    <3>5. Extends(requests, requests) /\ Later(disk, disk)
      BY <3>4, ExtendsSame, LaterSame
    <3>6. Linked(t, tab'[t], requests, used', disk)
      BY <1>3, <3>3, <3>4, <3>5, LinkedKept
    <3> QED
      BY <1>3, <3>6
  <2> QED
    BY <1>1, <1>2, <1>3, <2>1, LinkedNext
<1>5. RequestsServed'
  <2>1. ASSUME i \in 1..Len(requests')
        PROVE  Served(requests'[i], svc'[i], mail'[i], tab'[requests'[i].tab], used', disk')
    <3>1. i \in 1..Len(requests)
      BY <1>3, <2>1
    <3>2. /\ requests[i] \in Request /\ requests[i].tab \in TabIds
          /\ tab[requests[i].tab] \in TabRecord /\ disk \in Disks
      BY <1>1, <3>1, RequestFacts, ShapeFacts
    <3>3. tab'[requests[i].tab] \in TabRecord
      BY <3>2 DEF Shapes
    <3>4. tab[requests[i].tab].gen <= tab'[requests[i].tab].gen /\ Later(disk, disk)
      BY <1>2, <3>2, LaterSame DEF Monotone
    <3>5. Served(requests[i], svc'[i], mail'[i], tab[requests[i].tab], used, disk)
      BY <3>1 DEF Light
    <3>6. Served(requests[i], svc'[i], mail'[i], tab'[requests[i].tab], used', disk)
      BY <1>3, <3>2, <3>3, <3>4, <3>5, ServedKept
    <3> QED
      BY <1>3, <3>6
  <2> QED
    BY <1>1, <1>2, <1>3, <2>1, ServedNext
<1>6. WorkAwaited'
  <2>1. i \in 1..Len(requests') =>
           Awaited(i, requests'[i], svc'[i], tab'[requests'[i].tab], Open', cancelled')
    BY <1>3 DEF Light
  <2>2. KeepsWork(i)
    BY DEF Light
  <2> QED
    BY <1>1, <1>2, <1>3, <2>1, <2>2, AwaitedNext
<1>7. LoadsProgress' /\ ComingFresh'
  <2>1. ASSUME NEW u \in TabIds, Attending(u)' PROVE InStep(u)'
    <3>1. u \in Open'
      BY <2>1 DEF Attending, Attends
    <3>2. CASE tab[u].req = i
      BY <2>1, <3>2 DEF Light
    <3>3. CASE tab[u].req # i
      <4>1. Kept(u)
        BY <1>1, <3>1, <3>3, LightKept
      <4> QED
        BY <1>1, <1>2, <1>3, <2>1, <3>3, <4>1, LoadKept
    <3> QED
      BY <3>2, <3>3
  <2> QED
    BY <2>1, InStepParts
<1>8. ShownFresh'
  <2>1. ASSUME NEW u \in Open' PROVE Shown(u, tab'[u], disk', missed', notices')
    <3>1. CASE tab[u].dir = "Loading"
      <4>1. tab'[u].dir = "Loading"
        <5>1. u \in TabIds
          BY <1>1, ShapeFacts DEF Light
        <5>2. CASE u = t
          BY <3>1, <5>1, <5>2 DEF Light, Searched, SameLoad
        <5>3. CASE u # t
          BY <1>3, <3>1, <5>1, <5>3
        <5> QED
          BY <5>2, <5>3
      <4> QED
        BY <4>1 DEF Shown
    <3>2. CASE tab[u].dir # "Loading"
      BY <1>1, <3>2, LightKept, ShownKept
    <3> QED
      BY <3>1, <3>2
  <2> QED
    BY <2>1 DEF ShownFresh
<1>9. CacheListed'
  BY <1>1 DEF CacheListed, Light
<1> QED
  BY <1>4, <1>5, <1>6, <1>7, <1>8, <1>9 DEF TabInv

\* Steps of the window that begin nothing: the order, the active tab, and the
\* work of a tab that goes.
WindowStep ==
    /\ UNCHANGED <<tab, requests, svc, mail, watch, notices, disk, missed, cache, used>>
    /\ cancelled \subseteq cancelled' /\ cancelled' \subseteq 1..Len(requests)
    /\ Open' \subseteq Open
    /\ \A u \in Open : u \in Open' \/ LoadOf(tab[u]) \cup SearchOf(tab[u]) \subseteq cancelled'

LEMMA WindowStepInv ==
    ASSUME TabInv, WindowStep, WindowShape'
    PROVE  TabInv'
<1>1. Shapes
  BY DEF TabInv
<1>2. UNCHANGED <<tab, requests, svc, mail, watch, notices, disk, missed, cache, used>>
  BY DEF WindowStep
<1>3. Shapes'
  <2>1. ServiceShape'
    BY <1>1, <1>2 DEF Shapes, ServiceShape, WindowStep
  <2>2. FolderShape'
    BY <1>1, <1>2 DEF Shapes, FolderShape
  <2>3. tab' \in [TabIds -> TabRecord] /\ cache' \in [Locations -> Rows]
    BY <1>1, <1>2 DEF Shapes
  <2> QED
    BY <2>1, <2>2, <2>3 DEF Shapes
<1> DEFINE i == Len(requests) + 1
<1>4. i \notin 1..Len(requests) /\ \A u \in TabIds : tab[u].req # i
  <2>1. Len(requests) \in Nat
    BY <1>1, ShapeFacts, TabsAssumption
  <2>2. ASSUME NEW u \in TabIds PROVE tab[u].req # i
    <3>1. tab[u].req <= Len(requests)
      BY DEF TabInv, TabsLinked, Linked
    <3>2. tab[u].req \in Nat
      BY <1>1, ShapeFacts, TabFacts, TabsAssumption
    <3> QED
      BY <2>1, <3>1, <3>2
  <2> QED
    BY <2>1, <2>2
<1> HIDE DEF i
<1>5. Only(i)
  BY <1>2 DEF Only
<1>6. KeepsWork(i)
  BY <1>2 DEF KeepsWork, WindowStep
<1>7. PICK t : t \notin TabIds
  <2> DEFINE t == CHOOSE x : x \notin TabIds
  <2> QED
    BY NoSetContainsEverything
<1>8. \A u \in Open' : Reported(u) => [tab |-> u, gen |-> tab[u].gen] \in notices'
  BY <1>2 DEF Reported
<1>9. used' \subseteq TabIds
  BY <1>1, <1>2, ShapeFacts
<1>10. Light(i, t)
  BY <1>2, <1>4, <1>5, <1>6, <1>7, <1>8, <1>9 DEF Light, WindowStep
<1> QED
  BY <1>3, <1>10, LightInv

-----------------------------------------------------------------------------
(* The actions of the window                                               *)

LEMMA AppendedOrder ==
    ASSUME NEW S, NEW s \in Seq(S), NEW e \in S \ Elements(s), IsInjective(s)
    PROVE  /\ Append(s, e) \in Seq(S) /\ IsInjective(Append(s, e))
           /\ Elements(Append(s, e)) = Elements(s) \cup {e}
<1> DEFINE r == Append(s, e)
           n == Len(s)
<1>1. /\ r \in Seq(S) /\ Len(r) = n + 1 /\ n \in Nat /\ DOMAIN s = 1..n /\ DOMAIN r = 1..(n + 1)
      /\ \A k \in 1..n : r[k] = s[k]
      /\ r[n + 1] = e
  OBVIOUS
<1>2. /\ \A j, k \in 1..n : s[j] = s[k] => j = k
      /\ \A j \in 1..n : s[j] # e
  BY <1>1 DEF IsInjective, Elements
<1> HIDE DEF r, n
<1>3. ASSUME NEW j \in 1..(n + 1), NEW k \in 1..(n + 1), r[j] = r[k]
      PROVE  j = k
  <2>1. (j \in 1..n \/ j = n + 1) /\ (k \in 1..n \/ k = n + 1)
    BY <1>1
  <2> QED
    BY <1>1, <1>2, <1>3, <2>1
<1>4. IsInjective(r)
  BY <1>1, <1>3 DEF IsInjective
<1>5. Elements(r) = {s[j] : j \in 1..n} \cup {e}
  <2>1. ASSUME NEW k \in 1..(n + 1) PROVE r[k] \in {s[j] : j \in 1..n} \cup {e}
    <3>1. k \in 1..n \/ k = n + 1
      BY <1>1
    <3> QED
      BY <1>1, <3>1
  <2>2. ASSUME NEW j \in 1..n PROVE \E k \in 1..(n + 1) : r[k] = s[j]
    <3>1. j \in 1..(n + 1)
      BY <1>1
    <3> QED
      BY <1>1, <3>1
  <2>3. \E k \in 1..(n + 1) : r[k] = e
    <3>1. n + 1 \in 1..(n + 1)
      BY <1>1
    <3> QED
      BY <1>1, <3>1
  <2>4. Elements(r) = {r[k] : k \in 1..(n + 1)}
    BY <1>1 DEF Elements
  <2> QED
    BY <2>1, <2>2, <2>3, <2>4
<1> QED
  BY <1>1, <1>4, <1>5 DEF r, n, Elements

LEMMA OrderFacts ==
    ASSUME Shapes
    PROVE  /\ order \in Seq(TabIds) /\ Len(order) \in Nat \ {0} /\ IsInjective(order)
           /\ Open = Elements(order)
<1>1. order \in Seq(TabIds) /\ order # <<>> /\ IsInjective(order)
  BY DEF Shapes, WindowShape
<1>2. Len(order) \in Nat \ {0}
  BY <1>1
<1> QED
  BY <1>1, <1>2 DEF Open, Elements

LEMMA IndexFacts ==
    ASSUME Shapes, NEW t \in Open
    PROVE  IndexOf(t) \in 1..Len(order) /\ order[IndexOf(t)] = t
<1>1. \E i \in 1..Len(order) : order[i] = t
  BY DEF Open
<1> QED
  BY <1>1 DEF IndexOf

LEMMA FreshLoadable ==
    ASSUME NEW t \in TabIds, t \notin used, NEW back \in Seq(Canon), NEW cur \in Canon,
           NEW fwd \in Seq(Canon), NEW tb, tb = TabAt(back, cur, fwd)
    PROVE  /\ Loadable(t, tb) /\ tb.cur = cur /\ tb.dir = "Idle" /\ cur \in Locations
           /\ tb.back = back /\ tb.fwd = fwd
<1>1. /\ tb \in TabRecord /\ tb.gen = 0 /\ tb.cur = cur
      /\ tb.dir = "Idle" /\ tb.search = "Idle" /\ tb.sreq = 0
      /\ tb.back = back /\ tb.fwd = fwd
  BY NewTabRecord
<1> QED
  BY <1>1 DEF Loadable, Canon

LEMMA NewTabBegins ==
    ASSUME TabInv, NEW t \in TabIds, NewTab(t), UNCHANGED scenario
    PROVE  t \notin used /\ WindowShape' /\ \E o, m, l, stage : BeginsLoad(t, o, m, l, stage)
<1>1. Shapes /\ TabsLinked
  BY DEF TabInv
<1> DEFINE src == tab[active]
           tb == TabAt(src.back, src.cur, src.fwd)
<1>2. /\ t \notin used /\ BeginLoad(t, tb, tb.cur, cache[tb.cur], NoPending)
      /\ order' = Append(order, t) /\ active' = t /\ used' = used \cup {t}
      /\ UNCHANGED <<closed, cache, notices>>
  BY DEF NewTab
<1>3. src.back \in Seq(Canon) /\ src.cur \in Canon /\ src.fwd \in Seq(Canon)
  BY <1>1, RowsTyped, ShapeFacts, HistoryTyped
<1> HIDE DEF src
<1>4. Loadable(t, tb) /\ tb.cur \in Locations
  BY <1>2, <1>3, FreshLoadable
<1>5. Open \subseteq used /\ used \subseteq TabIds
  BY <1>1, ShapeFacts
<1>6. order' \in Seq(TabIds) /\ IsInjective(order') /\ Elements(order') = Open \cup {t}
  BY <1>1, <1>2, <1>5, OrderFacts, AppendedOrder
<1>7. Open' = Open \cup {t}
  BY <1>6 DEF Open, Elements
<1>8. order' # <<>>
  BY <1>1, <1>2, OrderFacts
<1>9. WindowShape'
  <2>1. closed' \in Seq(ClosedRecord) /\ scenario' \in Scenarios
    BY <1>1, <1>2 DEF Shapes, WindowShape
  <2>2. active' \in Open' /\ Open' \subseteq used' /\ used' \subseteq TabIds
    BY <1>2, <1>5, <1>7
  <2> QED
    BY <1>6, <1>8, <2>1, <2>2 DEF WindowShape
<1>10. Presents(t)
  <2>1. t \in Open' /\ used \subseteq used' /\ t \in used' /\ cache' = cache /\ notices' = notices
    BY <1>2, <1>7
  <2> QED
    BY <1>7, <2>1 DEF Presents, Reported
<1>11. NoPending \in Jump /\ JumpFits(tb, NoPending, tb.cur)
  BY NoPendingFits
<1>12. cache[tb.cur] \in Rows
  BY <1>1, <1>4, RowsTyped
<1> HIDE DEF tb
<1>13. \E m, stage : BeginsLoad(t, tb, m, tb.cur, stage)
  BY <1>1, <1>2, <1>4, <1>10, <1>11, <1>12, LoadBegins
<1> QED
  BY <1>2, <1>9, <1>13

LEMMA ReopenBegins ==
    ASSUME TabInv, NEW t \in TabIds, ReopenTab(t), UNCHANGED scenario
    PROVE  t \notin used /\ WindowShape' /\ \E o, m, l, stage : BeginsLoad(t, o, m, l, stage)
<1>1. Shapes /\ TabsLinked
  BY DEF TabInv
<1> DEFINE c == Last(closed)
           tb == TabAt(c.back, c.cur, c.fwd)
           j == IF c.index <= Len(order) THEN c.index ELSE Len(order) + 1
<1>2. /\ t \notin used /\ closed # <<>> /\ RevealTab(t, tb)
      /\ order' = InsertAt(order, j, t) /\ active' = t /\ used' = used \cup {t}
      /\ closed' = Front(closed) /\ cache' = cache
  BY DEF ReopenTab
<1>3. closed \in Seq(ClosedRecord) /\ Len(closed) \in Nat \ {0}
  <2>1. closed \in Seq(ClosedRecord)
    BY <1>1 DEF Shapes, WindowShape
  <2> QED
    BY <1>2, <2>1
<1>4. c \in ClosedRecord
  <2>1. c = closed[Len(closed)]
    BY DEF Last
  <2> HIDE DEF c
  <2> QED
    BY <1>3, <2>1
<1>5. Front(closed) \in Seq(ClosedRecord)
  <2>1. Front(closed) = SubSeq(closed, 1, Len(closed) - 1)
    BY DEF Front
  <2>2. SubSeq(closed, 1, Len(closed) - 1) \in Seq(ClosedRecord)
    BY <1>3
  <2> QED
    BY <2>1, <2>2
<1> HIDE DEF c
<1>6. c.back \in Seq(Canon) /\ c.cur \in Canon /\ c.fwd \in Seq(Canon) /\ c.index \in Nat \ {0}
  BY <1>4 DEF ClosedRecord
<1>7. Loadable(t, tb) /\ tb.cur \in Locations /\ tb.dir = "Idle"
  BY <1>2, <1>6, FreshLoadable
<1>8. Open \subseteq used /\ used \subseteq TabIds
  BY <1>1, ShapeFacts
<1>9. j \in 1..(Len(order) + 1)
  BY <1>1, <1>6, OrderFacts
<1> HIDE DEF j
<1>10. /\ order' \in Seq(TabIds) /\ IsInjective(order') /\ Elements(order') = Open \cup {t}
       /\ Len(order') = Len(order) + 1
  BY <1>1, <1>2, <1>8, <1>9, OrderFacts, InsertedOrder
<1>11. Open' = Open \cup {t}
  BY <1>10 DEF Open, Elements
<1>12. order' # <<>>
  BY <1>1, <1>10, OrderFacts
<1>13. WindowShape'
  <2>1. closed' \in Seq(ClosedRecord) /\ scenario' \in Scenarios
    BY <1>1, <1>2, <1>5 DEF Shapes, WindowShape
  <2>2. active' \in Open' /\ Open' \subseteq used' /\ used' \subseteq TabIds
    BY <1>2, <1>8, <1>11
  <2> QED
    BY <1>10, <1>12, <2>1, <2>2 DEF WindowShape
<1>14. BeginLoad(t, tb, tb.cur, cache[tb.cur], NoPending) /\ notices' = notices
  BY <1>2, <1>7 DEF RevealTab
<1>15. Presents(t)
  <2>1. t \in Open' /\ used \subseteq used' /\ t \in used' /\ cache' = cache /\ notices' = notices
    BY <1>2, <1>11, <1>14
  <2> QED
    BY <1>11, <2>1 DEF Presents, Reported
<1>16. NoPending \in Jump /\ JumpFits(tb, NoPending, tb.cur)
  BY NoPendingFits
<1>17. cache[tb.cur] \in Rows
  BY <1>1, <1>7, RowsTyped
<1> HIDE DEF tb
<1>18. \E m, stage : BeginsLoad(t, tb, m, tb.cur, stage)
  BY <1>1, <1>7, <1>14, <1>15, <1>16, <1>17, LoadBegins
<1> QED
  BY <1>2, <1>13, <1>18

\* What a step of the window comes to.
WindowEffect ==
    /\ WindowShape'
    /\ \/ WindowStep
       \/ \E t \in Open : \E m, l, stage : BeginsLoad(t, tab[t], m, l, stage)

LEMMA ActivateEffect ==
    ASSUME TabInv, NEW t, ActivateTab(t), UNCHANGED scenario
    PROVE  WindowEffect
<1>1. Shapes /\ TabsLinked
  BY DEF TabInv
<1>2. /\ t \in Open /\ active' = t /\ RevealTab(t, tab[t])
      /\ UNCHANGED <<order, closed, used, cache>>
  BY DEF ActivateTab
<1>3. Open' = Open
  BY <1>2 DEF Open
<1>4. WindowShape'
  BY <1>1, <1>2, <1>3 DEF Shapes, WindowShape
<1>5. CASE tab[t].dir = "Idle"
  <2>1. /\ BeginLoad(t, tab[t], tab[t].cur, cache[tab[t].cur], NoPending) /\ notices' = notices
    BY <1>2, <1>5 DEF RevealTab
  <2>2. t \in TabIds /\ tab[t] \in TabRecord /\ t \in used /\ tab[t].cur \in Locations
    BY <1>1, <1>2, ShapeFacts, RowsTyped
  <2>3. Loadable(t, tab[t])
    BY <1>2, <2>2 DEF Loadable
  <2>4. Presents(t)
    BY <1>2, <1>3, <2>1, <2>2 DEF Presents, Reported
  <2>5. NoPending \in Jump /\ JumpFits(tab[t], NoPending, tab[t].cur) /\ cache[tab[t].cur] \in Rows
    BY <1>1, <2>2, NoPendingFits, RowsTyped
  <2>6. \E m, stage : BeginsLoad(t, tab[t], m, tab[t].cur, stage)
    BY <1>1, <2>1, <2>2, <2>3, <2>4, <2>5, LoadBegins
  <2> QED
    BY <1>2, <1>4, <2>6 DEF WindowEffect
<1>6. CASE tab[t].dir # "Idle"
  <2>1. UNCHANGED <<tab, requests, cancelled>> /\ UNCHANGED svcVars
    BY <1>2, <1>6 DEF RevealTab
  <2>2. cancelled \subseteq 1..Len(requests)
    BY <1>1, ShapeFacts
  <2>3. WindowStep
    BY <1>2, <1>3, <2>1, <2>2 DEF WindowStep, svcVars
  <2> QED
    BY <1>4, <2>3 DEF WindowEffect
<1> QED
  BY <1>5, <1>6

LEMMA ReorderEffect ==
    ASSUME TabInv, NEW t, NEW j, ReorderTab(t, j), UNCHANGED scenario
    PROVE  WindowEffect
<1>1. Shapes
  BY DEF TabInv
<1>2. /\ t \in Open /\ j \in 1..Len(order)
      /\ order' = InsertAt(RemoveAt(order, IndexOf(t)), j, t)
      /\ UNCHANGED <<active, tab, closed, used, cache, requests, cancelled>>
      /\ UNCHANGED svcVars
  BY DEF ReorderTab
<1> DEFINE i == IndexOf(t)
           rest == RemoveAt(order, i)
<1>3. i \in 1..Len(order) /\ order[i] = t
  BY <1>1, <1>2, IndexFacts
<1>4. order \in Seq(TabIds) /\ Len(order) \in Nat \ {0} /\ IsInjective(order) /\ Open = Elements(order)
  BY <1>1, OrderFacts
<1> HIDE DEF i
<1>5. /\ rest \in Seq(TabIds) /\ IsInjective(rest) /\ Len(rest) = Len(order) - 1
      /\ Elements(rest) = Elements(order) \ {t}
  BY <1>3, <1>4, RemovedOrder
<1>6. order' = InsertAt(rest, j, t)
  BY <1>2 DEF i
<1>7. t \in TabIds
  BY <1>1, <1>2, ShapeFacts
<1> HIDE DEF rest
<1>8. j \in 1..(Len(rest) + 1)
  BY <1>2, <1>4, <1>5
<1>9. t \in TabIds \ Elements(rest)
  BY <1>5, <1>7
<1>10. /\ order' \in Seq(TabIds) /\ IsInjective(order') /\ Len(order') = Len(rest) + 1
       /\ Elements(order') = Elements(rest) \cup {t}
  BY <1>5, <1>6, <1>8, <1>9, InsertedOrder
<1>11. Open' = Open
  <2>1. Open' = Elements(order')
    BY DEF Open, Elements
  <2> QED
    BY <1>2, <1>4, <1>5, <1>10, <2>1
<1>12. order' # <<>>
  <2>1. Len(order') > 0
    BY <1>4, <1>5, <1>10
  <2> QED
    BY <2>1
<1>13. WindowShape'
  <2>1. /\ active \in Open /\ Open \subseteq used /\ used \subseteq TabIds
        /\ closed \in Seq(ClosedRecord) /\ scenario \in Scenarios
    BY <1>1 DEF Shapes, WindowShape
  <2> QED
    BY <1>2, <1>10, <1>11, <1>12, <2>1 DEF WindowShape
<1>14. WindowStep
  <2>1. cancelled \subseteq 1..Len(requests)
    BY <1>1, ShapeFacts
  <2> QED
    BY <1>2, <1>11, <2>1 DEF WindowStep, svcVars
<1> QED
  BY <1>13, <1>14 DEF WindowEffect

LEMMA CancelledByClose ==
    ASSUME Shapes, TabsLinked, NEW t \in TabIds
    PROVE  /\ CancelAll(tab[t]) \subseteq 1..Len(requests)
           /\ LoadOf(tab[t]) \cup SearchOf(tab[t]) \subseteq CancelAll(tab[t])
<1>1. /\ tab[t].req <= Len(requests) /\ tab[t].sreq <= Len(requests)
      /\ tab[t].dir = "Loading" => tab[t].req > 0
      /\ tab[t].search = "Loading" => tab[t].sreq > 0
  BY DEF TabsLinked, Linked
<1>2. tab[t].req \in Nat /\ tab[t].sreq \in Nat /\ Len(requests) \in Nat
  BY ShapeFacts, TabFacts, TabsAssumption
<1>3. CancelAll(tab[t]) \subseteq 1..Len(requests)
  BY <1>1, <1>2 DEF CancelAll
<1>4. LoadOf(tab[t]) \subseteq CancelAll(tab[t])
  BY <1>1, <1>2 DEF CancelAll, LoadOf
<1>5. SearchOf(tab[t]) \subseteq CancelAll(tab[t])
  BY <1>1, <1>2 DEF CancelAll, SearchOf
<1> QED
  BY <1>3, <1>4, <1>5

LEMMA CloseEffect ==
    ASSUME TabInv, NEW t, CloseTab(t), UNCHANGED scenario
    PROVE  WindowEffect
<1>1. Shapes /\ TabsLinked
  BY DEF TabInv
<1> DEFINE i == IndexOf(t)
           rest == RemoveAt(order, i)
           heir == Heir(t, i, rest)
           h == tab[heir]
           tb == tab[t]
           gone == [index |-> i, back |-> tb.back, cur |-> tb.cur, fwd |-> tb.fwd]
<1>2. /\ t \in Open /\ Len(order) > 1 /\ order' = rest /\ active' = heir
      /\ closed' = Append(closed, gone)
      /\ IF h.dir = "Idle"
         THEN /\ CanIssue
              /\ SubmitLoad(heir, Loading(h, NextId, cache[h.cur]), h.cur)
              /\ UNCHANGED notices
         ELSE UNCHANGED <<tab, requests>> /\ UNCHANGED svcVars
      /\ cancelled' = cancelled \cup CancelAll(tb)
           \cup (IF h.dir = "Idle" THEN SearchOf(h) ELSE {})
      /\ UNCHANGED <<used, cache>>
  BY DEF CloseTab
<1>3. i \in 1..Len(order) /\ order[i] = t
  BY <1>1, <1>2, IndexFacts
<1>4. order \in Seq(TabIds) /\ Len(order) \in Nat \ {0} /\ IsInjective(order) /\ Open = Elements(order)
  BY <1>1, OrderFacts
<1>5. t \in TabIds /\ Open \subseteq TabIds /\ Open \subseteq used /\ tb \in TabRecord
  BY <1>1, <1>2, ShapeFacts
<1> HIDE DEF i
<1>6. /\ rest \in Seq(TabIds) /\ IsInjective(rest) /\ Len(rest) = Len(order) - 1
      /\ Elements(rest) = Elements(order) \ {t}
  BY <1>3, <1>4, RemovedOrder
<1> HIDE DEF rest
<1>7. heir \in Elements(rest)
  <2>1. CASE t # active
    <3>1. heir = active
      BY <2>1 DEF Heir
    <3> QED
      BY <1>1, <1>4, <1>6, <2>1, <3>1, RowsTyped
  <2>2. CASE t = active
    <3> DEFINE k == IF i <= Len(rest) THEN i ELSE Len(rest)
    <3>1. heir = rest[k]
      BY <2>2 DEF Heir
    <3>2. Len(rest) \in Nat /\ Len(rest) > 0
      BY <1>2, <1>4, <1>6
    <3>3. k \in 1..Len(rest)
      BY <1>3, <1>4, <3>2
    <3> HIDE DEF k, heir
    <3> QED
      BY <3>1, <3>3 DEF Elements
  <2> QED
    BY <2>1, <2>2
<1> HIDE DEF heir
<1>8. Open' = Open \ {t} /\ heir \in Open /\ heir # t /\ heir \in TabIds
  <2>1. Open' = Elements(rest)
    BY <1>2 DEF Open, Elements
  <2> QED
    BY <1>4, <1>5, <1>6, <1>7, <2>1
<1>9. h \in TabRecord /\ h.cur \in Locations /\ cache[h.cur] \in Rows
  BY <1>1, <1>8, ShapeFacts, TabFacts, RowsTyped
<1>10. gone \in ClosedRecord
  <2>1. i \in Nat \ {0}
    BY <1>3, <1>4
  <2>2. tb.back \in Seq(Canon) /\ tb.cur \in Canon /\ tb.fwd \in Seq(Canon)
    BY <1>5, HistoryTyped
  <2> QED
    BY <2>1, <2>2 DEF ClosedRecord
<1> HIDE DEF gone
<1>11. WindowShape'
  <2>1. /\ closed \in Seq(ClosedRecord) /\ scenario' \in Scenarios /\ used \subseteq TabIds
    BY <1>1 DEF Shapes, WindowShape
  <2>2. closed' \in Seq(ClosedRecord)
    BY <1>2, <1>10, <2>1
  <2>3. order' # <<>>
    <3>1. Len(rest) > 0
      BY <1>2, <1>4, <1>6
    <3> QED
      BY <1>2, <3>1
  <2>4. active' \in Open' /\ Open' \subseteq used' /\ used' \subseteq TabIds
    BY <1>2, <1>5, <1>8, <2>1
  <2> QED
    BY <1>2, <1>6, <2>1, <2>2, <2>3, <2>4 DEF WindowShape
<1>12. /\ CancelAll(tb) \subseteq 1..Len(requests)
       /\ LoadOf(tb) \cup SearchOf(tb) \subseteq CancelAll(tb)
       /\ SearchOf(h) \subseteq 1..Len(requests)
       /\ cancelled \subseteq 1..Len(requests)
  BY <1>1, <1>5, <1>8, CancelledByClose, WorkInRange, ShapeFacts
<1>13. /\ cancelled \subseteq cancelled' /\ cancelled' \subseteq 1..Len(requests)
       /\ \A u \in Open : u \in Open' \/ LoadOf(tab[u]) \cup SearchOf(tab[u]) \subseteq cancelled'
  <2>1. cancelled \subseteq cancelled' /\ cancelled' \subseteq 1..Len(requests)
    BY <1>2, <1>12
  <2>2. LoadOf(tab[t]) \cup SearchOf(tab[t]) \subseteq cancelled'
    BY <1>2, <1>12
  <2> QED
    BY <1>8, <2>1, <2>2
<1>14. CASE h.dir = "Idle"
  <2>1. /\ CanIssue /\ SubmitLoad(heir, Loading(h, NextId, cache[h.cur]), h.cur)
        /\ notices' = notices
    BY <1>2, <1>14
  <2>2. Len(requests) < MaxRequests /\ NextId \in 1..MaxRequests /\ Len(requests) \in Nat
    BY <1>1, <2>1, RoomToIssue
  <2>3. h.gen < MaxRequests
    <3>1. h.gen <= Len(requests)
      BY <1>8 DEF TabInv, TabsLinked, Linked
    <3>2. h.gen \in Nat
      BY <1>9, TabFacts, TabsAssumption
    <3> QED
      BY <2>2, <3>1, <3>2, TabsAssumption
  <2>4. Begun(Loading(h, NextId, cache[h.cur]), h, NextId, cache[h.cur], NoPending)
    BY <1>9, <2>2, <2>3, LoadingAlone
  <2>5. Loadable(heir, h)
    BY <1>8, <1>9 DEF Loadable
  <2>6. Presents(heir)
    <3>1. heir \in Open' /\ used' = used /\ heir \in used /\ cache' = cache
      BY <1>2, <1>5, <1>8
    <3> QED
      BY <1>8, <1>13, <2>1, <3>1 DEF Presents, Reported
  <2>7. LoadOf(h) \cup SearchOf(h) \subseteq cancelled'
    <3>1. LoadOf(h) = {}
      BY <1>14 DEF LoadOf
    <3> QED
      BY <1>2, <1>14, <3>1
  <2>8. JumpFits(h, NoPending, h.cur)
    BY NoPendingFits
  <2>9. \E m, stage : BeginsLoad(heir, h, m, h.cur, stage)
    BY <1>1, <1>9, <1>13, <2>1, <2>4, <2>5, <2>6, <2>7, <2>8, SubmitBegins
  <2> QED
    BY <1>8, <1>11, <2>9 DEF WindowEffect
<1>15. CASE h.dir # "Idle"
  <2>1. UNCHANGED <<tab, requests>> /\ UNCHANGED svcVars
    BY <1>2, <1>15
  <2>2. WindowStep
    BY <1>2, <1>8, <1>13, <2>1 DEF WindowStep, svcVars
  <2> QED
    BY <1>11, <2>2 DEF WindowEffect
<1> QED
  BY <1>14, <1>15

-----------------------------------------------------------------------------
(* Searches                                                                *)

\* A number no request has yet.
LEMMA NoRequest ==
    ASSUME Shapes, TabsLinked, NEW i, i = Len(requests) + 1
    PROVE  i \notin 1..Len(requests) /\ \A u \in TabIds : tab[u].req # i
<1>1. Len(requests) \in Nat
  BY ShapeFacts, TabsAssumption
<1>2. ASSUME NEW u \in TabIds PROVE tab[u].req # i
  <2>1. tab[u].req <= Len(requests)
    BY DEF TabsLinked, Linked
  <2>2. tab[u].req \in Nat
    BY ShapeFacts, TabFacts, TabsAssumption
  <2> QED
    BY <1>1, <2>1, <2>2
<1> QED
  BY <1>1, <1>2

\* The search of tab t ends because the user leaves it.
SearchLeft(t, n) ==
    /\ t \in Open /\ Searched(n, tab[t]) /\ n.search # "Loading"
    /\ tab' = [tab EXCEPT ![t] = n]
    /\ cancelled' = cancelled \cup SearchOf(tab[t])
    /\ UNCHANGED <<cache, requests>> /\ UNCHANGED uiVars /\ UNCHANGED svcVars
    /\ UNCHANGED scenario

LEMMA SearchLeftInv ==
    ASSUME TabInv, NEW t, NEW n, SearchLeft(t, n)
    PROVE  TabInv'
<1>1. Shapes /\ TabsLinked
  BY DEF TabInv
<1>2. /\ t \in Open /\ Searched(n, tab[t]) /\ n.search # "Loading"
      /\ tab' = [tab EXCEPT ![t] = n] /\ cancelled' = cancelled \cup SearchOf(tab[t])
      /\ cache' = cache /\ requests' = requests /\ svc' = svc /\ mail' = mail /\ watch' = watch
      /\ notices' = notices /\ disk' = disk /\ missed' = missed
  BY DEF SearchLeft, svcVars
<1>3. t \in TabIds /\ t \in used /\ tab \in [TabIds -> TabRecord] /\ n \in TabRecord
  BY <1>1, <1>2, ShapeFacts DEF Searched
<1>4. /\ tab'[t] = n /\ tab' \in [TabIds -> TabRecord] /\ \A u \in TabIds : u # t => tab'[u] = tab[u]
  BY <1>2, <1>3
<1>5. WindowShape' /\ Open' = Open /\ used' = used
  BY <1>1, SameWindow DEF SearchLeft
<1>6. cancelled' \subseteq 1..Len(requests)
  BY <1>1, <1>2, <1>3, WorkInRange, ShapeFacts
<1>7. Shapes'
  <2>1. ServiceShape'
    BY <1>1, <1>2, <1>6 DEF Shapes, ServiceShape
  <2>2. FolderShape'
    BY <1>1, <1>2 DEF Shapes, FolderShape
  <2>3. cache' \in [Locations -> Rows]
    BY <1>1, <1>2 DEF Shapes
  <2> QED
    BY <1>4, <1>5, <2>1, <2>2, <2>3 DEF Shapes
<1>8. PICK i : i = Len(requests) + 1
  OBVIOUS
<1>9. i \notin 1..Len(requests) /\ \A u \in TabIds : tab[u].req # i
  BY <1>1, <1>8, NoRequest
<1>10. Only(i)
  BY <1>2 DEF Only
<1>11. KeepsWork(i)
  <2>1. ASSUME NEW u \in Open
        PROVE  /\ LoadOf(tab[u]) \subseteq LoadOf(tab'[u]) \cup cancelled'
               /\ SearchOf(tab[u]) \subseteq SearchOf(tab'[u]) \cup cancelled'
    <3>1. u \in TabIds
      BY <1>1, ShapeFacts
    <3>2. CASE u = t
      <4>1. LoadOf(n) = LoadOf(tab[t])
        BY <1>2 DEF Searched, SameLoad, LoadOf
      <4> QED
        BY <1>2, <1>4, <3>2, <4>1
    <3>3. CASE u # t
      BY <1>4, <3>1, <3>3
    <3> QED
      BY <3>2, <3>3
  <2> QED
    BY <1>5, <2>1 DEF KeepsWork
<1>12. \A u \in Open' : Reported(u) => [tab |-> u, gen |-> tab[u].gen] \in notices'
  BY <1>2 DEF Reported
<1>13. Light(i, t)
  BY <1>1, <1>2, <1>3, <1>4, <1>5, <1>9, <1>10, <1>11, <1>12, ShapeFacts DEF Light
<1> QED
  BY <1>7, <1>13, LightInv

LEMMA LeaveLeft ==
    ASSUME TabInv, LeaveSearch, UNCHANGED scenario
    PROVE  \E n : SearchLeft(active, n)
<1>1. active \in Open /\ tab[active] \in TabRecord
  BY RowsTyped, ShapeFacts DEF TabInv
<1>2. Searched(LeftSearch(tab[active]), tab[active]) /\ LeftSearch(tab[active]).search = "Idle"
  BY <1>1, LeftFields
<1>3. SearchLeft(active, LeftSearch(tab[active]))
  BY <1>1, <1>2 DEF LeaveSearch, SearchLeft
<1> QED
  BY <1>3

LEMMA EditLeft ==
    ASSUME TabInv, EditSearch, UNCHANGED scenario
    PROVE  \E n : SearchLeft(active, n)
<1>1. active \in Open /\ tab[active] \in TabRecord
  BY RowsTyped, ShapeFacts DEF TabInv
<1>2. PICK m : m = LeftSearch(tab[active])
  OBVIOUS
<1>3. Searched(m, tab[active]) /\ m \in TabRecord
  BY <1>1, <1>2, LeftFields DEF Searched
<1>4. PICK n : n = [m EXCEPT !.search = "Editing"]
  OBVIOUS
<1>5. Searched(n, m) /\ n.search = "Editing"
  BY <1>3, <1>4, SearchFields DEF SearchStates
<1>6. Searched(n, tab[active])
  BY <1>3, <1>5, SearchedTwice
<1>7. tab' = [tab EXCEPT ![active] = n]
  BY <1>2, <1>4 DEF EditSearch
<1>8. SearchLeft(active, n)
  BY <1>1, <1>5, <1>6, <1>7 DEF EditSearch, SearchLeft
<1> QED
  BY <1>8

\* Tab t starts a search; n is its new record.
Searches(t, n, stage) ==
    /\ t \in Open /\ Len(requests) < MaxRequests
    /\ n \in TabRecord /\ n.gen = tab[t].gen + 1 /\ n.sreq = NextId
    /\ SameHistory(n, tab[t]) /\ SameLoad(n, tab[t])
    /\ stage \in {"queued", "done"} /\ (n.search = "Loading" <=> stage = "queued")
    /\ Enqueue(t, "search", tab[t].cur, stage)
    /\ tab' = [tab EXCEPT ![t] = n]
    /\ cancelled' = cancelled \cup ({tab[t].sreq} \ {0})
    /\ missed' = missed \cup {u \in {t} : Reported(u)}
    /\ UNCHANGED <<watch, notices, disk, cache>> /\ UNCHANGED uiVars /\ UNCHANGED scenario

LEMMA StartSearches ==
    ASSUME TabInv, StartSearch, UNCHANGED scenario
    PROVE  \E n, stage : Searches(active, n, stage)
<1>1. Shapes /\ TabsLinked
  BY DEF TabInv
<1>2. active \in Open /\ active \in TabIds /\ tab[active] \in TabRecord
  BY <1>1, RowsTyped, ShapeFacts
<1>3. Len(requests) < MaxRequests /\ NextId \in 1..MaxRequests /\ Len(requests) \in Nat
  BY <1>1, RoomToIssue DEF StartSearch
<1>4. tab[active].gen < MaxRequests
  <2>1. tab[active].gen <= Len(requests)
    BY <1>1, <1>2 DEF TabsLinked, Linked
  <2>2. tab[active].gen \in Nat
    BY <1>2, TabFacts, TabsAssumption
  <2> QED
    BY <1>3, <2>1, <2>2, TabsAssumption
<1>5. PICK s : s = Searching(tab[active], NextId)
  OBVIOUS
<1>6. /\ s \in TabRecord /\ s.gen = tab[active].gen + 1 /\ s.search = "Loading" /\ s.sreq = NextId
      /\ SameHistory(s, tab[active]) /\ SameLoad(s, tab[active])
  BY <1>2, <1>3, <1>4, <1>5, SearchingFields
<1>7. s.cur = tab[active].cur
  BY <1>6 DEF SameHistory
<1>8. CASE Enqueue(active, "search", s.cur, "queued") /\ tab' = [tab EXCEPT ![active] = s]
  <2>1. Searches(active, s, "queued")
    BY <1>2, <1>3, <1>6, <1>7, <1>8 DEF StartSearch, Searches
  <2> QED
    BY <2>1
<1>9. CASE /\ Enqueue(active, "search", s.cur, "done")
           /\ tab' = [tab EXCEPT ![active] = SearchEnded(s, "Error")]
  <2>1. PICK n : n = SearchEnded(s, "Error")
    OBVIOUS
  <2>2. Searched(n, s) /\ n.search # "Loading"
    BY <1>6, <2>1, EndedFields
  <2>3. /\ n \in TabRecord /\ n.gen = tab[active].gen + 1 /\ n.sreq = NextId
        /\ SameHistory(n, tab[active]) /\ SameLoad(n, tab[active])
    BY <1>6, <2>2 DEF Searched, SameHistory, SameLoad
  <2>4. Searches(active, n, "done")
    BY <1>2, <1>3, <1>7, <1>9, <2>1, <2>2, <2>3 DEF StartSearch, Searches
  <2> QED
    BY <2>4
<1> QED
  BY <1>5, <1>8, <1>9 DEF StartSearch

LEMMA SearchesFacts ==
    ASSUME Shapes, TabsLinked, NEW t, NEW n, NEW stage, Searches(t, n, stage)
    PROVE  /\ Enqueued(t, "search", tab[t].cur, stage) /\ t \in TabIds /\ t \in used
           /\ tab'[t] = n /\ tab' \in [TabIds -> TabRecord]
           /\ \A u \in TabIds : u # t => tab'[u] = tab[u]
           /\ Monotone /\ WindowShape' /\ Open' = Open /\ used' = used
           /\ Len(requests') = Len(requests) + 1 /\ Len(requests) \in Nat
<1>1. t \in TabIds /\ t \in used /\ tab \in [TabIds -> TabRecord] /\ disk \in Disks /\ Len(requests) \in Nat
  BY ShapeFacts, TabsAssumption DEF Searches
<1>2. tab[t].cur \in Locations /\ tab[t].gen \in Nat
  BY <1>1, TabFacts, TabsAssumption
<1>3. Enqueued(t, "search", tab[t].cur, stage)
  <2>1. stage \in Stages
    BY DEF Searches, Stages
  <2> QED
    BY <1>1, <1>2, <2>1, EnqueueFacts DEF Searches
<1>4. tab'[t] = n /\ tab' \in [TabIds -> TabRecord] /\ \A u \in TabIds : u # t => tab'[u] = tab[u]
  BY <1>1 DEF Searches
<1>5. WindowShape' /\ Open' = Open /\ used' = used
  BY SameWindow DEF Searches
<1>6. ASSUME NEW u \in TabIds PROVE tab[u].gen <= tab'[u].gen
  <2>1. tab[u].gen \in Nat
    BY <1>1, TabFacts, TabsAssumption
  <2>2. CASE u = t
    BY <1>2, <1>4, <2>2 DEF Searches
  <2>3. CASE u # t
    BY <1>4, <2>1, <2>3
  <2> QED
    BY <2>2, <2>3
<1>7. Later(disk, disk')
  BY <1>1, LaterSame DEF Searches
<1>8. Monotone
  BY <1>3, <1>5, <1>6, <1>7 DEF Monotone, Searches, Enqueued
<1> QED
  BY <1>1, <1>3, <1>4, <1>5, <1>8 DEF Enqueued, NextId

LEMMA SearchesShapes ==
    ASSUME Shapes, TabsLinked, NEW t, NEW n, NEW stage, Searches(t, n, stage)
    PROVE  Shapes'
<1>1. /\ Enqueued(t, "search", tab[t].cur, stage) /\ t \in TabIds
      /\ tab' \in [TabIds -> TabRecord] /\ WindowShape'
      /\ Len(requests') = Len(requests) + 1 /\ Len(requests) \in Nat
  BY SearchesFacts
<1>2. cancelled' \subseteq 1..Len(requests')
  <2>1. tab[t].sreq <= Len(requests)
    BY <1>1 DEF TabsLinked, Linked
  <2>2. tab[t].sreq \in Nat
    BY <1>1, ShapeFacts, TabFacts, TabsAssumption
  <2>3. cancelled \subseteq 1..Len(requests) /\ cancelled' = cancelled \cup ({tab[t].sreq} \ {0})
    BY ShapeFacts DEF Searches
  <2> DEFINE s == tab[t].sreq
  <2> HIDE DEF s
  <2>4. s \in Nat /\ s <= Len(requests) /\ cancelled' = cancelled \cup ({s} \ {0})
    BY <2>1, <2>2, <2>3 DEF s
  <2>5. ASSUME NEW c \in cancelled' PROVE c \in 1..Len(requests')
    <3>1. CASE c \in cancelled
      BY <1>1, <2>3, <3>1
    <3>2. CASE c = s /\ s # 0
      BY <1>1, <2>4, <3>2
    <3> QED
      BY <2>4, <2>5, <3>1, <3>2
  <2> QED
    BY <2>5
<1>3. ServiceShape'
  BY <1>1, <1>2 DEF ServiceShape, Enqueued
<1>4. FolderShape'
  <2>1. missed' \subseteq TabIds
    BY <1>1 DEF Shapes, FolderShape, Searches
  <2> QED
    BY <2>1 DEF Shapes, FolderShape, Searches
<1>5. cache' \in [Locations -> Rows]
  BY DEF Shapes, Searches
<1> QED
  BY <1>1, <1>3, <1>4, <1>5 DEF Shapes

\* A load that was started before the search is of an older generation.
LEMMA OlderLoad ==
    ASSUME TabInv, NEW t \in TabIds, tab[t].dir = "Loading"
    PROVE  requests[tab[t].req].gen <= tab[t].gen
<1>1. tab[t].req \in 1..Len(requests) /\ requests[tab[t].req].tab = t
  BY LoadFacts DEF TabInv
<1> QED
  BY <1>1 DEF TabInv, RequestsServed, Served

LEMMA SearchesLinked ==
    ASSUME TabInv, Shapes', NEW t, NEW n, NEW stage, Searches(t, n, stage)
    PROVE  TabsLinked'
<1>1. Shapes /\ TabsLinked
  BY DEF TabInv
<1>2. /\ Enqueued(t, "search", tab[t].cur, stage) /\ t \in TabIds /\ t \in used
      /\ tab'[t] = n /\ \A u \in TabIds : u # t => tab'[u] = tab[u]
      /\ Monotone /\ used' = used
      /\ Len(requests') = Len(requests) + 1 /\ Len(requests) \in Nat
  BY <1>1, SearchesFacts
<1> DEFINE o == tab[t]
<1>3. o \in TabRecord /\ Linked(t, o, requests, used, disk)
  BY <1>1, <1>2, ShapeFacts DEF TabsLinked
<1>4. /\ n.gen = o.gen + 1 /\ n.sreq = NextId /\ n.back = o.back /\ n.cur = o.cur /\ n.fwd = o.fwd
      /\ n.pending = o.pending /\ n.dir = o.dir /\ n.req = o.req /\ n.rows = o.rows
      /\ disk' = disk
  BY DEF Searches, SameHistory, SameLoad
<1>5. ASSUME o.dir = "Loading"
      PROVE  requests'[o.req].gen # n.gen
  <2>1. o.req \in 1..Len(requests) /\ requests[o.req].gen <= o.gen
    BY <1>1, <1>2, <1>5, LoadFacts, OlderLoad
  <2>2. requests[o.req].gen \in Nat
    BY <1>1, <2>1, RequestFacts
  <2>3. o.gen \in Nat
    BY <1>3, TabFacts, TabsAssumption
  <2>4. requests'[o.req] = requests[o.req]
    BY <1>2, <2>1 DEF Enqueued, Extends
  <2> HIDE DEF o
  <2> QED
    BY <1>4, <2>1, <2>2, <2>3, <2>4
<1>6. /\ o.gen <= Len(requests) /\ o.req <= Len(requests)
      /\ o.dir = "Loading" => o.req > 0 /\ requests[o.req].tab = t /\ requests[o.req].kind = "load"
      /\ o.pending.direction # "none" => o.req > 0 /\ JumpsTo(o, requests[o.req].loc)
      /\ o.dir = "Ready" => ListingOf(o.rows, o.cur, disk)
  BY <1>3 DEF Linked
<1>7. o.gen \in Nat /\ o.req \in Nat
  BY <1>3, TabFacts, TabsAssumption
<1>8. o.req > 0 => requests'[o.req] = requests[o.req]
  <2> HIDE DEF o
  <2> QED
    BY <1>2, <1>6, <1>7 DEF Enqueued, Extends
<1>9. \A l : JumpsTo(n, l) <=> JumpsTo(o, l)
  BY <1>4 DEF JumpsTo
<1> HIDE DEF o
<1>10. n.gen <= Len(requests') /\ n.req <= Len(requests') /\ n.sreq <= Len(requests')
  BY <1>2, <1>4, <1>6, <1>7 DEF NextId
<1>11. /\ n.dir = "Loading" =>
             n.req > 0 /\ requests'[n.req].tab = t /\ requests'[n.req].kind = "load"
       /\ n.dir = "Loading" /\ n.search = "Loading" => requests'[n.req].gen # n.gen
       /\ n.pending.direction # "none" => n.req > 0 /\ JumpsTo(n, requests'[n.req].loc)
       /\ n.dir = "Ready" => ListingOf(n.rows, n.cur, disk')
  BY <1>4, <1>5, <1>6, <1>8, <1>9
<1>12. n.sreq > 0 /\ requests'[n.sreq].tab = t /\ requests'[n.sreq].kind = "search"
  BY <1>2, <1>4 DEF Enqueued, NextId
<1>13. Linked(t, n, requests', used', disk')
  BY <1>2, <1>10, <1>11, <1>12 DEF Linked
<1> QED
  BY <1>1, <1>2, <1>13, LinkedNext

LEMMA SearchesServed ==
    ASSUME TabInv, Shapes', NEW t, NEW n, NEW stage, Searches(t, n, stage)
    PROVE  RequestsServed' /\ WorkAwaited'
<1>1. Shapes /\ TabsLinked /\ RequestsServed /\ WorkAwaited
  BY DEF TabInv
<1>2. /\ Enqueued(t, "search", tab[t].cur, stage) /\ t \in TabIds /\ t \in used
      /\ tab'[t] = n /\ \A u \in TabIds : u # t => tab'[u] = tab[u]
      /\ Monotone /\ used' = used /\ Open' = Open
  BY <1>1, SearchesFacts
<1> DEFINE i == NextId
           r == requests'[i]
<1>3. /\ r.tab = t /\ r.gen = n.gen /\ r.kind = "search" /\ svc'[i] = stage /\ mail'[i] = <<>>
      /\ Only(i)
  BY <1>2 DEF Enqueued, Searches
<1>4. n.gen \in Nat /\ t \in Open /\ (stage = "queued" => i \in SearchOf(n))
      /\ stage \in {"queued", "done"}
  BY TabFacts, TabsAssumption DEF Searches, SearchOf
<1> HIDE DEF r, i
<1>5. Served(r, stage, <<>>, n, used', disk')
  BY <1>2, <1>3, <1>4 DEF Served, SearchBox
<1>6. Served(requests'[i], svc'[i], mail'[i], tab'[requests'[i].tab], used', disk')
  BY <1>2, <1>3, <1>5 DEF r
<1>7. RequestsServed'
  BY <1>1, <1>2, <1>3, <1>6, ServedNext
<1>8. Awaited(i, r, stage, n, Open', cancelled')
  BY <1>2, <1>3, <1>4 DEF Awaited
<1>9. Awaited(i, requests'[i], svc'[i], tab'[requests'[i].tab], Open', cancelled')
  BY <1>2, <1>3, <1>8 DEF r
<1>10. KeepsWork(i)
  <2>1. ASSUME NEW u \in Open
        PROVE  /\ LoadOf(tab[u]) \subseteq LoadOf(tab'[u]) \cup cancelled'
               /\ SearchOf(tab[u]) \subseteq SearchOf(tab'[u]) \cup cancelled'
    <3>1. u \in TabIds
      BY <1>1, ShapeFacts
    <3>2. CASE u = t
      <4>1. LoadOf(n) = LoadOf(tab[t])
        BY DEF Searches, SameLoad, LoadOf
      <4>2. SearchOf(tab[t]) \subseteq cancelled'
        <5>1. tab[t].search = "Loading" => tab[t].sreq > 0
          BY <1>1, <1>2 DEF TabsLinked, Linked
        <5>2. tab[t].search = "Loading" => tab[t].sreq # 0
          BY <5>1
        <5> QED
          BY <5>2 DEF SearchOf, Searches
      <4> QED
        BY <1>2, <3>2, <4>1, <4>2
    <3>3. CASE u # t
      BY <1>2, <3>1, <3>3
    <3> QED
      BY <3>2, <3>3
  <2> QED
    BY <1>2, <2>1 DEF KeepsWork
<1>11. WorkAwaited'
  BY <1>1, <1>2, <1>3, <1>9, <1>10, AwaitedNext
<1> QED
  BY <1>7, <1>11

LEMMA SearchesKeeps ==
    ASSUME Shapes, TabsLinked, NEW t, NEW n, NEW stage, Searches(t, n, stage),
           NEW u \in Open, u # t
    PROVE  Kept(u)
<1>1. tab'[u] = tab[u]
  BY SearchesFacts, ShapeFacts
<1>2. disk' = disk /\ missed \subseteq missed' /\ notices' = notices
  BY DEF Searches
<1> QED
  BY <1>1, <1>2 DEF Kept, SameTab, SameLoad, Reported

LEMMA SearchesInStep ==
    ASSUME TabInv, Shapes', NEW t, NEW n, NEW stage, Searches(t, n, stage)
    PROVE  LoadsProgress' /\ ComingFresh' /\ ShownFresh'
<1>1. Shapes /\ TabsLinked /\ LoadsProgress /\ ComingFresh /\ ShownFresh
  BY DEF TabInv
<1>2. /\ Enqueued(t, "search", tab[t].cur, stage) /\ t \in TabIds
      /\ tab'[t] = n /\ Monotone /\ Open' = Open /\ Only(NextId)
  BY <1>1, SearchesFacts DEF Enqueued
<1>3. n.gen = tab[t].gen + 1 /\ n.dir = tab[t].dir /\ n.req = tab[t].req
      /\ n.rows = tab[t].rows /\ n.cur = tab[t].cur
  BY DEF Searches, SameLoad, SameHistory
<1>4. ASSUME NEW u \in TabIds, Attending(u)' PROVE InStep(u)'
  <2>1. u \in Open /\ tab'[u].dir = "Loading" /\ tab'[u].gen = requests'[tab'[u].req].gen
    BY <1>2, <1>4 DEF Attending, Attends
  <2>2. CASE u = t
    <3>1. tab[t].dir = "Loading"
      BY <1>2, <1>3, <2>1, <2>2
    <3>2. tab[t].req \in 1..Len(requests) /\ requests[tab[t].req].gen <= tab[t].gen
      BY <1>1, <1>2, <3>1, LoadFacts, OlderLoad
    <3>3. requests[tab[t].req].gen \in Nat
      BY <1>1, <3>2, RequestFacts
    <3>4. tab[t].gen \in Nat
      BY <1>1, <1>2, ShapeFacts, TabFacts, TabsAssumption
    <3>5. requests'[tab[t].req] = requests[tab[t].req]
      BY <1>2, <3>2 DEF Enqueued, Extends
    <3>6. n.gen = requests[tab[t].req].gen
      BY <1>2, <1>3, <2>1, <2>2, <3>5
    <3> QED
      BY <1>3, <3>2, <3>3, <3>4, <3>6
  <2>3. CASE u # t
    <3>1. Kept(u)
      BY <1>1, <2>1, <2>3, SearchesKeeps
    <3>2. tab[u].req # NextId
      BY <1>1, NoRequest DEF NextId
    <3> QED
      BY <1>1, <1>2, <1>4, <3>1, <3>2, LoadKept
  <2> QED
    BY <2>2, <2>3
<1>5. LoadsProgress' /\ ComingFresh'
  BY <1>4, InStepParts
<1>6. ASSUME NEW u \in Open' PROVE Shown(u, tab'[u], disk', missed', notices')
  <2>1. u \in Open
    BY <1>2
  <2>2. CASE u = t
    <3>1. Shown(t, tab[t], disk, missed, notices)
      BY <1>1, <2>1, <2>2 DEF ShownFresh
    <3>2. disk' = disk /\ missed' = missed \cup {v \in {t} : Reported(v)}
      BY DEF Searches
    <3>3. ASSUME n.dir = "Ready", n.cur \notin Synthetic
          PROVE  Covered(t, n.gen, n.cur, n.rows, disk', missed', notices')
      <4>1. Covered(t, tab[t].gen, tab[t].cur, tab[t].rows, disk, missed, notices)
        BY <1>3, <3>1, <3>3 DEF Shown
      <4> QED
        BY <1>3, <3>2, <4>1 DEF Covered, Reported
    <3> QED
      BY <1>2, <2>2, <3>3 DEF Shown
  <2>3. CASE u # t
    BY <1>1, <2>1, <2>3, SearchesKeeps, ShownKept
  <2> QED
    BY <2>2, <2>3
<1> QED
  BY <1>5, <1>6 DEF ShownFresh

LEMMA SearchesInv ==
    ASSUME TabInv, NEW t, NEW n, NEW stage, Searches(t, n, stage)
    PROVE  TabInv'
<1>1. Shapes /\ TabsLinked /\ CacheListed
  BY DEF TabInv
<1>2. Shapes'
  BY <1>1, SearchesShapes
<1>3. CacheListed'
  BY <1>1 DEF CacheListed, Searches
<1> QED
  BY <1>2, <1>3, SearchesLinked, SearchesServed, SearchesInStep DEF TabInv

-----------------------------------------------------------------------------
(* Mailboxes                                                               *)

LEMMA EventFacts ==
    ASSUME NEW kind \in EventKinds, NEW l \in Locations, NEW rows \in Rows
    PROVE  LET e == Event(kind, l, rows)
           IN e \in EventRecord /\ e.kind = kind /\ e.loc = l /\ e.rows = rows
BY DEF Event, EventRecord

LEMMA PlainFacts ==
    ASSUME NEW kind \in EventKinds
    PROVE  Plain(kind) \in EventRecord /\ Plain(kind).kind = kind
<1>1. InitialLoc \in Locations /\ {} \in Rows
  BY TabsAssumption DEF Rows
<1>2. Plain(kind) = Event(kind, InitialLoc, {})
  BY DEF Plain
<1> QED
  BY <1>1, <1>2, EventFacts

LEMMA Appended ==
    ASSUME NEW box \in Seq(EventRecord), NEW e \in EventRecord
    PROVE  /\ Append(box, e) \in Seq(EventRecord) /\ Len(box) \in Nat
           /\ Len(Append(box, e)) = Len(box) + 1
           /\ \A k \in 1..Len(box) : Append(box, e)[k] = box[k]
           /\ Append(box, e)[Len(box) + 1] = e
OBVIOUS

LEMMA HasAppended ==
    ASSUME NEW box \in Seq(EventRecord), NEW e \in EventRecord, NEW kind
    PROVE  Has(Append(box, e), kind) <=> Has(box, kind) \/ e.kind = kind
<1> DEFINE b == Append(box, e)
           n == Len(box)
<1>1. /\ n \in Nat /\ Len(b) = n + 1 /\ \A k \in 1..n : b[k] = box[k]
      /\ b[n + 1] = e
  BY Appended
<1> HIDE DEF b
<1>2. ASSUME NEW k \in 1..Len(b), b[k].kind = kind PROVE Has(box, kind) \/ e.kind = kind
  BY <1>1, <1>2 DEF Has
<1>3. ASSUME NEW k \in 1..n, box[k].kind = kind PROVE Has(b, kind)
  <2>1. k \in 1..Len(b) /\ b[k].kind = kind
    BY <1>1, <1>3
  <2> QED
    BY <2>1 DEF Has
<1>4. ASSUME e.kind = kind PROVE Has(b, kind)
  <2>1. n + 1 \in 1..Len(b) /\ b[n + 1].kind = kind
    BY <1>1, <1>4
  <2> QED
    BY <2>1 DEF Has
<1>5. Has(b, kind) <=> Has(box, kind) \/ e.kind = kind
  BY <1>2, <1>3, <1>4 DEF Has
<1> QED
  BY <1>5 DEF b

\* What the mailbox of a load that has not listed its folder holds.
LEMMA ListBox ==
    ASSUME NEW l, NEW stage \in {"queued", "list"}, NEW box, NEW d, LoadBox(l, stage, box, d)
    PROVE  /\ \A k \in 1..Len(box) : box[k].kind = "LocationResolved" /\ box[k].loc = l /\ k = 1
           /\ ~Has(box, "Failed") /\ ~Has(box, "DirectoryBatch") /\ ~Has(box, "DirectoryFinished")
<1>1. ASSUME NEW k \in 1..Len(box)
      PROVE  box[k].kind = "LocationResolved" /\ box[k].loc = l /\ k = 1
  BY <1>1 DEF LoadBox, LoadEvents
<1> QED
  BY <1>1 DEF Has

LEMMA FinishBox ==
    ASSUME NEW l, NEW box, NEW d, LoadBox(l, "finish", box, d)
    PROVE  \A k \in 1..Len(box) : box[k].kind \in {"LocationResolved", "DirectoryBatch"}
BY DEF LoadBox, LoadEvents

LEMMA ResolvesBox ==
    ASSUME NEW l, NEW box \in Seq(EventRecord), NEW d, LoadBox(l, "queued", box, d),
           NEW e \in EventRecord, e.kind = "LocationResolved", e.loc = l
    PROVE  LoadBox(l, "list", Append(box, e), d)
<1>1. box = <<>>
  BY DEF LoadBox
<1> DEFINE b == Append(box, e)
<1>2. Len(b) = 1 /\ b[1] = e
  BY <1>1
<1> HIDE DEF b
<1>3. ASSUME NEW k \in 1..Len(b) PROVE b[k] = e /\ k = 1
  BY <1>2
<1>4. LoadBox(l, "list", b, d)
  BY <1>3 DEF LoadBox, LoadEvents
<1> QED
  BY <1>4 DEF b

LEMMA FailsBox ==
    ASSUME NEW l, NEW stage \in {"queued", "list"}, NEW box \in Seq(EventRecord), NEW d,
           LoadBox(l, stage, box, d), NEW e \in EventRecord, e.kind = "Failed"
    PROVE  LoadBox(l, "done", Append(box, e), d)
<1>0. \A k \in 1..Len(box) : box[k].kind = "LocationResolved" /\ box[k].loc = l /\ k = 1
  <2>1. CASE stage = "queued"
    <3>1. box = <<>>
      BY <2>1 DEF LoadBox
    <3> QED
      BY <3>1
  <2>2. CASE stage = "list"
    <3>1. LoadBox(l, "list", box, d)
      BY <2>2
    <3> QED
      BY <3>1, ListBox
  <2> QED
    BY <2>1, <2>2
<1> DEFINE b == Append(box, e)
           n == Len(box)
<1>1. /\ n \in Nat /\ Len(b) = n + 1 /\ \A k \in 1..n : b[k] = box[k]
      /\ b[n + 1] = e
  BY Appended
<1>2. \A k \in 1..n : box[k].kind = "LocationResolved" /\ box[k].loc = l /\ k = 1
  BY <1>0
<1> HIDE DEF b, n
<1>3. ASSUME NEW k \in 1..(n + 1), k # n + 1
      PROVE  b[k].kind = "LocationResolved" /\ b[k].loc = l /\ k = 1
  <2>1. k \in 1..n
    BY <1>1, <1>3
  <2> QED
    BY <1>1, <1>2, <2>1
<1>4. ASSUME NEW k \in 1..(n + 1), k = n + 1
      PROVE  b[k].kind = "Failed" /\ k = Len(b) /\ \A m \in 1..(k - 1) : b[m].kind = "LocationResolved"
  <2>1. k - 1 = n
    BY <1>1, <1>4
  <2>2. b[k].kind = "Failed" /\ k = Len(b)
    BY <1>1, <1>4
  <2>3. \A m \in 1..n : b[m].kind = "LocationResolved"
    BY <1>1, <1>2
  <2> QED
    BY <2>1, <2>2, <2>3
<1>5. LoadBox(l, "done", b, d)
  BY <1>1, <1>3, <1>4 DEF LoadBox, LoadEvents
<1> QED
  BY <1>5 DEF b

LEMMA ListsBox ==
    ASSUME NEW l, NEW box \in Seq(EventRecord), NEW d, LoadBox(l, "list", box, d),
           NEW e \in EventRecord, e.kind = "DirectoryBatch", ListingOf(e.rows, l, d)
    PROVE  LoadBox(l, "finish", Append(box, e), d)
<1> DEFINE b == Append(box, e)
           n == Len(box)
<1>1. /\ n \in Nat /\ Len(b) = n + 1 /\ \A k \in 1..n : b[k] = box[k]
      /\ b[n + 1] = e
  BY Appended
<1>2. \A k \in 1..n : box[k].kind = "LocationResolved" /\ box[k].loc = l /\ k = 1
  BY ListBox
<1> HIDE DEF b, n
<1>3. ASSUME NEW k \in 1..(n + 1), k # n + 1
      PROVE  b[k].kind = "LocationResolved" /\ b[k].loc = l /\ k = 1
  <2>1. k \in 1..n
    BY <1>1, <1>3
  <2> QED
    BY <1>1, <1>2, <2>1
<1>4. ASSUME NEW k \in 1..(n + 1), k = n + 1
      PROVE  /\ b[k].kind = "DirectoryBatch" /\ ListingOf(b[k].rows, l, d)
             /\ \A m \in 1..(k - 1) : b[m].kind = "LocationResolved"
  <2>1. k - 1 = n
    BY <1>1, <1>4
  <2>2. b[k] = e
    BY <1>1, <1>4
  <2>3. \A m \in 1..n : b[m].kind = "LocationResolved"
    BY <1>1, <1>2
  <2> QED
    BY <2>1, <2>2, <2>3
<1>5. LoadBox(l, "finish", b, d)
  BY <1>1, <1>3, <1>4 DEF LoadBox, LoadEvents
<1> QED
  BY <1>5 DEF b

LEMMA FinishesBox ==
    ASSUME NEW l, NEW box \in Seq(EventRecord), NEW d, LoadBox(l, "finish", box, d),
           NEW e \in EventRecord, e.kind = "DirectoryFinished"
    PROVE  LoadBox(l, "watch", Append(box, e), d)
<1> DEFINE b == Append(box, e)
           n == Len(box)
<1>1. /\ n \in Nat /\ Len(b) = n + 1 /\ \A k \in 1..n : b[k] = box[k]
      /\ b[n + 1] = e
  BY Appended
<1>2. \A k \in 1..n : box[k].kind \in {"LocationResolved", "DirectoryBatch"}
  BY FinishBox
<1> HIDE DEF b, n
<1>3. ASSUME NEW k \in 1..(n + 1), k # n + 1
      PROVE  /\ b[k].kind \in {"LocationResolved", "DirectoryBatch"}
             /\ b[k].kind = "LocationResolved" => b[k].loc = l /\ k = 1
             /\ b[k].kind = "DirectoryBatch" =>
                   /\ ListingOf(b[k].rows, l, d)
                   /\ \A m \in 1..(k - 1) : b[m].kind = "LocationResolved"
  <2>1. k \in 1..n
    BY <1>1, <1>3
  <2>2. b[k] = box[k] /\ \A m \in 1..(k - 1) : b[m] = box[m]
    BY <1>1, <2>1
  <2>3. box[k].kind = "LocationResolved" => box[k].loc = l /\ k = 1
    BY <2>1 DEF LoadBox, n
  <2>4. box[k].kind = "DirectoryBatch" =>
           /\ ListingOf(box[k].rows, l, d)
           /\ \A m \in 1..(k - 1) : box[m].kind = "LocationResolved"
    BY <2>1 DEF LoadBox, n
  <2> QED
    BY <1>2, <2>1, <2>2, <2>3, <2>4
<1>4. ASSUME NEW k \in 1..(n + 1), k = n + 1
      PROVE  /\ b[k].kind = "DirectoryFinished" /\ k = Len(b)
             /\ \A m \in 1..(k - 1) : b[m].kind \in {"LocationResolved", "DirectoryBatch"}
  <2>1. k - 1 = n
    BY <1>1, <1>4
  <2>2. b[k].kind = "DirectoryFinished" /\ k = Len(b)
    BY <1>1, <1>4
  <2>3. \A m \in 1..n : b[m].kind \in {"LocationResolved", "DirectoryBatch"}
    BY <1>1, <1>2
  <2> QED
    BY <2>1, <2>2, <2>3
<1>5. LoadBox(l, "watch", b, d)
  BY <1>1, <1>3, <1>4 DEF LoadBox, LoadEvents
<1> QED
  BY <1>5 DEF b

LEMMA WatchesBox ==
    ASSUME NEW l, NEW box, NEW d, LoadBox(l, "watch", box, d)
    PROVE  LoadBox(l, "done", box, d)
BY DEF LoadBox

LEMMA SearchPosts ==
    ASSUME NEW stage, NEW stage2 \in {"list", "done"}, NEW box \in Seq(EventRecord),
           stage # "done", SearchBox(stage, box), NEW e \in EventRecord,
           e.kind \notin LoadEvents, e.kind # "SearchBatch" => stage2 = "done"
    PROVE  SearchBox(stage2, Append(box, e))
<1> DEFINE b == Append(box, e)
           n == Len(box)
<1>1. /\ n \in Nat /\ Len(b) = n + 1 /\ \A k \in 1..n : b[k] = box[k]
      /\ b[n + 1] = e
  BY Appended
<1>2. \A k \in 1..n : box[k].kind = "SearchBatch"
  BY DEF SearchBox
<1> HIDE DEF b, n
<1>3. ASSUME NEW k \in 1..(n + 1)
      PROVE  b[k].kind \notin LoadEvents /\ (b[k].kind # "SearchBatch" => stage2 = "done")
  <2>1. CASE k = n + 1
    BY <1>1, <2>1
  <2>2. CASE k # n + 1
    <3>1. k \in 1..n
      BY <1>1, <1>3, <2>2
    <3> QED
      BY <1>1, <1>2, <3>1 DEF LoadEvents
  <2> QED
    BY <2>1, <2>2
<1>4. SearchBox(stage2, b)
  BY <1>1, <1>3 DEF SearchBox
<1> QED
  BY <1>4 DEF b

\* A tab is where the events of its load have brought it.
Pace(t, tb, r, stage, box, d, ms, ns) ==
    Progress(tb, r, stage, box, d) /\ Coming(t, tb, r, stage, box, d, ms, ns)

LEMMA ResolvesPace ==
    ASSUME NEW t, NEW tb, NEW r, NEW box \in Seq(EventRecord), NEW d, NEW ms, NEW ns, NEW l,
           LoadBox(l, "queued", box, d), Pace(t, tb, r, "queued", box, d, ms, ns),
           NEW e \in EventRecord, e.kind = "LocationResolved"
    PROVE  Pace(t, tb, r, "list", Append(box, e), d, ms, ns)
<1> DEFINE b == Append(box, e)
<1>1. box = <<>>
  BY DEF LoadBox
<1>2. ~Has(box, "DirectoryBatch")
  BY <1>1 DEF Has
<1>3. Has(b, "LocationResolved") /\ ~Has(b, "DirectoryBatch")
  BY <1>2, HasAppended
<1>4. tb.seen = {}
  BY DEF Pace, Progress, ToList
<1> HIDE DEF b
<1>5. Resolving("list", b) /\ ToList("list", b)
  BY <1>3 DEF Resolving, ToList
<1>6. Progress(tb, r, "list", b, d)
  BY <1>4, <1>5 DEF Progress
<1>7. Coming(t, tb, r, "list", b, d, ms, ns)
  BY <1>3, <1>5 DEF Coming, Has
<1>8. Pace(t, tb, r, "list", b, d, ms, ns)
  BY <1>6, <1>7 DEF Pace
<1> QED
  BY <1>8 DEF b

LEMMA FailsPace ==
    ASSUME NEW t, NEW tb, NEW r, NEW box \in Seq(EventRecord), NEW d, NEW ms, NEW ns,
           ~Has(box, "DirectoryBatch"), NEW e \in EventRecord, e.kind = "Failed"
    PROVE  Pace(t, tb, r, "done", Append(box, e), d, ms, ns)
<1> DEFINE b == Append(box, e)
<1>1. Has(b, "Failed") /\ ~Has(b, "DirectoryBatch")
  BY HasAppended
<1> HIDE DEF b
<1>2. ~ToList("done", b)
  BY <1>1 DEF ToList
<1>3. Progress(tb, r, "done", b, d)
  BY <1>1, <1>2 DEF Progress
<1>4. Coming(t, tb, r, "done", b, d, ms, ns)
  BY <1>1 DEF Coming, Has
<1>5. Pace(t, tb, r, "done", b, d, ms, ns)
  BY <1>3, <1>4 DEF Pace
<1> QED
  BY <1>5 DEF b

LEMMA ListsPace ==
    ASSUME NEW t, NEW tb, NEW r, NEW box \in Seq(EventRecord), NEW d, NEW ms, NEW ns, NEW l,
           l = Resolve[r.loc], LoadBox(l, "list", box, d), Pace(t, tb, r, "list", box, d, ms, ns),
           NEW e \in EventRecord, e.kind = "DirectoryBatch", e.rows = {<<l, d[l]>>}, NEW ms2
    PROVE  Pace(t, tb, r, "finish", Append(box, e), d, ms2, ns)
<1> DEFINE b == Append(box, e)
           n == Len(box)
<1>1. /\ n \in Nat /\ Len(b) = n + 1 /\ \A k \in 1..n : b[k] = box[k]
      /\ b[n + 1] = e
  BY Appended
<1>2. ~Has(box, "Failed") /\ ~Has(box, "DirectoryBatch")
  <2>1. "list" \in {"queued", "list"}
    OBVIOUS
  <2> QED
    BY <2>1, ListBox
<1>3. /\ Has(b, "LocationResolved") <=> Has(box, "LocationResolved")
      /\ Has(b, "DirectoryBatch")
  BY HasAppended
<1>4. tb.seen = {} /\ (~Resolving("list", box) => tb.cur = Resolve[r.loc] /\ tb.pending.direction = "none")
  BY <1>2 DEF Pace, Progress, ToList
<1>5. \A k \in 1..(n + 1) :
         b[k].kind = "DirectoryBatch" => b[k].rows = {<<l, d[l]>>}
  <2>1. ASSUME NEW k \in 1..(n + 1), b[k].kind = "DirectoryBatch"
        PROVE  b[k].rows = {<<l, d[l]>>}
    <3>1. CASE k = n + 1
      BY <1>1, <3>1
    <3>2. CASE k # n + 1
      <4>1. k \in 1..n
        BY <1>1, <2>1, <3>2
      <4>2. box[k].kind = "DirectoryBatch"
        BY <1>1, <2>1, <4>1
      <4> QED
        BY <1>2, <4>1, <4>2 DEF Has
    <3> QED
      BY <3>1, <3>2
  <2> QED
    BY <2>1
<1> HIDE DEF b, n
<1>6. ToList("finish", b) /\ (~Resolving("finish", b) => ~Resolving("list", box))
  BY <1>3 DEF ToList, Resolving
<1>7. Progress(tb, r, "finish", b, d)
  BY <1>4, <1>6 DEF Progress
<1>8. Coming(t, tb, r, "finish", b, d, ms2, ns)
  BY <1>1, <1>5, <1>6 DEF Coming, Covered
<1>9. Pace(t, tb, r, "finish", b, d, ms2, ns)
  BY <1>7, <1>8 DEF Pace
<1> QED
  BY <1>9 DEF b

LEMMA FinishesPace ==
    ASSUME NEW t, NEW tb, NEW r, NEW box \in Seq(EventRecord), NEW d, NEW ms, NEW ns,
           Pace(t, tb, r, "finish", box, d, ms, ns),
           NEW e \in EventRecord, e.kind = "DirectoryFinished"
    PROVE  Pace(t, tb, r, "watch", Append(box, e), d, ms, ns)
<1> DEFINE b == Append(box, e)
           n == Len(box)
<1>1. /\ n \in Nat /\ Len(b) = n + 1 /\ \A k \in 1..n : b[k] = box[k]
      /\ b[n + 1] = e
  BY Appended
<1>2. /\ Has(b, "LocationResolved") <=> Has(box, "LocationResolved")
      /\ Has(b, "DirectoryBatch") <=> Has(box, "DirectoryBatch")
      /\ Has(b, "Failed") <=> Has(box, "Failed")
  BY HasAppended
<1> DEFINE l == Resolve[r.loc]
<1>3. \A k \in 1..(n + 1) :
         b[k].kind = "DirectoryBatch" => Covered(t, tb.gen, l, b[k].rows, d, ms, ns)
  <2>1. ASSUME NEW k \in 1..(n + 1), b[k].kind = "DirectoryBatch"
        PROVE  Covered(t, tb.gen, l, b[k].rows, d, ms, ns)
    <3>1. k # n + 1
      BY <1>1, <2>1
    <3>2. k \in 1..n
      BY <1>1, <3>1
    <3>3. b[k] = box[k]
      BY <1>1, <3>2
    <3> QED
      BY <2>1, <3>2, <3>3 DEF Pace, Coming
  <2> QED
    BY <2>1
<1> HIDE DEF b, n
<1>4. /\ ToList("watch", b) <=> ToList("finish", box)
      /\ Resolving("watch", b) <=> Resolving("finish", box)
  BY <1>2 DEF ToList, Resolving
<1>5. Progress(tb, r, "watch", b, d)
  BY <1>2, <1>4 DEF Progress, Pace
<1>6. Coming(t, tb, r, "watch", b, d, ms, ns)
  BY <1>1, <1>2, <1>3, <1>4 DEF Coming, Pace
<1>7. Pace(t, tb, r, "watch", b, d, ms, ns)
  BY <1>5, <1>6 DEF Pace
<1> QED
  BY <1>7 DEF b

LEMMA WatchesPace ==
    ASSUME NEW t, NEW tb, NEW r, NEW box, NEW d, NEW ms, NEW ns,
           Pace(t, tb, r, "watch", box, d, ms, ns)
    PROVE  Pace(t, tb, r, "done", box, d, ms, ns)
<1>1. /\ ToList("done", box) <=> ToList("watch", box)
      /\ Resolving("done", box) <=> Resolving("watch", box)
  BY DEF ToList, Resolving
<1> QED
  BY <1>1 DEF Pace, Progress, Coming

-----------------------------------------------------------------------------
(* The service                                                             *)

\* Request i goes to the given stage with the given mailbox, and nothing else
\* changes but what nobody watches: a watcher, and the debt of a tab that is
\* being read.
Serves(i, stage, box) ==
    /\ i \in 1..Len(requests)
    /\ svc' \in Seq(Stages) /\ Len(svc') = Len(requests) /\ svc'[i] = stage
    /\ mail' \in Seq(Seq(EventRecord)) /\ Len(mail') = Len(requests) /\ mail'[i] = box
    /\ Only(i)
    /\ watch' \in [TabIds -> WatchRecord]
    /\ UNCHANGED <<notices, disk>> /\ UNCHANGED unserved /\ UNCHANGED scenario
    /\ missed' \subseteq missed
    /\ \A u \in missed \ missed' : tab[u].dir = "Loading" /\ tab[u].req = i
    /\ requests[i].kind = "load" => LoadBox(Resolve[requests[i].loc], stage, box, disk)
    /\ requests[i].kind = "search" => SearchBox(stage, box)
    /\ stage \in {"queued", "list"} => svc[i] \in {"queued", "list"}
    /\ \A u \in TabIds :
          Attending(u) /\ tab[u].req = i =>
             Pace(u, tab[u], requests[i], stage, box, disk, missed', notices)

LEMMA ServesInv ==
    ASSUME TabInv, NEW i, NEW stage, NEW box, Serves(i, stage, box)
    PROVE  TabInv'
<1>1. Shapes /\ TabsLinked /\ RequestsServed /\ WorkAwaited
  BY DEF TabInv
<1>2. /\ order' = order /\ active' = active /\ tab' = tab /\ closed' = closed /\ used' = used
      /\ cache' = cache /\ requests' = requests /\ cancelled' = cancelled /\ scenario' = scenario
      /\ notices' = notices /\ disk' = disk
  BY DEF Serves, unserved
<1>3. WindowShape' /\ Open' = Open
  BY <1>1, <1>2, SameWindow DEF uiVars
<1>4. Shapes'
  <2>1. ServiceShape'
    BY <1>1, <1>2 DEF Shapes, ServiceShape, Serves
  <2>2. FolderShape'
    BY <1>1, <1>2 DEF Shapes, FolderShape, Serves
  <2> QED
    BY <1>1, <1>2, <1>3, <2>1, <2>2 DEF Shapes
<1>5. PICK t : t \notin TabIds
  <2> DEFINE t == CHOOSE x : x \notin TabIds
  <2> QED
    BY NoSetContainsEverything
<1>6. i \in 1..Len(requests) /\ svc'[i] = stage /\ mail'[i] = box /\ Only(i)
  BY DEF Serves
<1>7. Served(requests[i], svc'[i], mail'[i], tab[requests[i].tab], used, disk)
  <2>1. Served(requests[i], svc[i], mail[i], tab[requests[i].tab], used, disk)
    BY <1>1, <1>6 DEF RequestsServed
  <2> QED
    BY <1>6, <2>1 DEF Served, Serves
<1>8. Awaited(i, requests[i], svc'[i], tab'[requests[i].tab], Open', cancelled')
  <2>1. Awaited(i, requests[i], svc[i], tab[requests[i].tab], Open, cancelled)
    BY <1>1, <1>6 DEF WorkAwaited
  <2>2. stage \in {"queued", "list"} => svc[i] \in {"queued", "list"}
    BY DEF Serves
  <2> QED
    BY <1>2, <1>3, <1>6, <2>1, <2>2 DEF Awaited
<1>9. ASSUME NEW u \in TabIds, Attending(u)', tab[u].req = i PROVE InStep(u)'
  <2>1. Attending(u)
    BY <1>2, <1>3, <1>9 DEF Attending
  <2>2. Pace(u, tab[u], requests[i], stage, box, disk, missed', notices)
    BY <1>9, <2>1 DEF Serves
  <2> QED
    BY <1>2, <1>6, <1>9, <2>2 DEF Pace, InStep
<1>10. KeepsWork(i)
  BY <1>2, <1>3 DEF KeepsWork
<1>11. \A u \in Open' : Reported(u) => [tab |-> u, gen |-> tab[u].gen] \in notices'
  BY <1>2 DEF Reported
<1>12. \A u \in Open' :
          (u \in missed => u \in missed') \/ (tab[u].dir = "Loading" /\ tab[u].req = i)
  BY DEF Serves
<1>13. Light(i, t)
  <2>1. used' \subseteq TabIds
    BY <1>1, <1>2, ShapeFacts
  <2> QED
    BY <1>2, <1>3, <1>5, <1>6, <1>7, <1>8, <1>9, <1>10, <1>11, <1>12, <2>1 DEF Light
<1> QED
  BY <1>4, <1>13, LightInv

LEMMA PostFacts ==
    ASSUME Shapes, NEW i \in 1..Len(requests), NEW e \in EventRecord, NEW stage \in Stages,
           Post(i, e, stage), requests' = requests
    PROVE  /\ svc' \in Seq(Stages) /\ Len(svc') = Len(requests) /\ svc'[i] = stage
           /\ mail' \in Seq(Seq(EventRecord)) /\ Len(mail') = Len(requests)
           /\ mail'[i] = Append(mail[i], e)
           /\ Only(i)
<1>1. /\ svc \in Seq(Stages) /\ Len(svc) = Len(requests)
      /\ mail \in Seq(Seq(EventRecord)) /\ Len(mail) = Len(requests)
  BY ShapeFacts
<1> DEFINE b == Append(mail[i], e)
<1>2. b \in Seq(EventRecord)
  BY RequestFacts, Appended
<1>3. svc' = [svc EXCEPT ![i] = stage] /\ mail' = [mail EXCEPT ![i] = b]
  BY DEF Post
<1> HIDE DEF b
<1>4. /\ svc' \in Seq(Stages) /\ Len(svc') = Len(requests) /\ svc'[i] = stage
      /\ \A j \in 1..Len(requests) : j # i => svc'[j] = svc[j]
  BY <1>1, <1>3
<1>5. /\ mail' \in Seq(Seq(EventRecord)) /\ Len(mail') = Len(requests) /\ mail'[i] = b
      /\ \A j \in 1..Len(requests) : j # i => mail'[j] = mail[j]
  BY <1>1, <1>2, <1>3
<1> QED
  BY <1>4, <1>5 DEF Only, b

LEMMA ServiceFacts ==
    ASSUME TabInv, NEW i \in 1..Len(requests)
    PROVE  /\ Shapes /\ mail[i] \in Seq(EventRecord) /\ watch \in [TabIds -> WatchRecord]
           /\ requests[i].tab \in TabIds /\ Resolve[requests[i].loc] \in Locations
           /\ requests[i].gen \in 0..MaxRequests
           /\ requests[i].kind = "load" => LoadBox(Resolve[requests[i].loc], svc[i], mail[i], disk)
           /\ requests[i].kind = "search" => SearchBox(svc[i], mail[i])
           /\ \A u \in TabIds :
                 Attending(u) /\ tab[u].req = i =>
                    /\ requests[i].kind = "load"
                    /\ Pace(u, tab[u], requests[i], svc[i], mail[i], disk, missed, notices)
<1>1. Shapes /\ TabsLinked /\ RequestsServed /\ LoadsProgress /\ ComingFresh
  BY DEF TabInv
<1>2. mail[i] \in Seq(EventRecord) /\ requests[i].tab \in TabIds
      /\ requests[i].gen \in 1..MaxRequests /\ Resolve[requests[i].loc] \in Canon
  BY <1>1, RequestFacts
<1>3. watch \in [TabIds -> WatchRecord]
  BY <1>1 DEF Shapes, FolderShape
<1>4. Resolve[requests[i].loc] \in Locations /\ requests[i].gen \in 0..MaxRequests
  BY <1>2, TabsAssumption DEF Canon
<1>5. Served(requests[i], svc[i], mail[i], tab[requests[i].tab], used, disk)
  BY <1>1 DEF RequestsServed
<1>6. ASSUME NEW u \in TabIds, Attending(u), tab[u].req = i
      PROVE  /\ requests[i].kind = "load"
             /\ Pace(u, tab[u], requests[i], svc[i], mail[i], disk, missed, notices)
  <2>1. tab[u].dir = "Loading"
    BY <1>6 DEF Attending, Attends
  <2>2. requests[i].kind = "load"
    BY <1>1, <1>6, <2>1, LoadFacts
  <2>3. InStep(u)
    BY <1>1, <1>6, InStepNow
  <2> QED
    BY <1>6, <2>2, <2>3 DEF InStep, Pace
<1> QED
  BY <1>1, <1>2, <1>3, <1>4, <1>5, <1>6 DEF Served

LEMMA StaFailsServes ==
    ASSUME TabInv, NEW i \in 1..Len(requests), StaFails(i), UNCHANGED scenario
    PROVE  \E stage, box : Serves(i, stage, box)
<1>1. /\ Shapes /\ mail[i] \in Seq(EventRecord) /\ watch \in [TabIds -> WatchRecord]
      /\ requests[i].tab \in TabIds /\ Resolve[requests[i].loc] \in Locations
      /\ requests[i].kind = "load" => LoadBox(Resolve[requests[i].loc], svc[i], mail[i], disk)
      /\ \A u \in TabIds :
            Attending(u) /\ tab[u].req = i =>
               Pace(u, tab[u], requests[i], svc[i], mail[i], disk, missed, notices)
  BY ServiceFacts
<1>2. requests[i].kind = "load"
  BY DEF StaFails, OnSta
<1> DEFINE l == Resolve[requests[i].loc]
<1>3. PICK e : e = Plain("Failed") /\ e \in EventRecord /\ e.kind = "Failed"
  BY PlainFacts DEF EventKinds
<1>4. /\ svc[i] \in {"queued", "list"}
      /\ Post(i, e, "done") /\ UNCHANGED <<watch, notices, disk, missed>> /\ UNCHANGED unserved
  BY <1>3 DEF StaFails
<1>5. requests' = requests
  BY <1>4 DEF unserved
<1>6. /\ svc' \in Seq(Stages) /\ Len(svc') = Len(requests) /\ svc'[i] = "done"
      /\ mail' \in Seq(Seq(EventRecord)) /\ Len(mail') = Len(requests)
      /\ mail'[i] = Append(mail[i], e)
      /\ Only(i)
  <2>1. "done" \in Stages
    BY DEF Stages
  <2> QED
    BY <1>1, <1>3, <1>4, <1>5, <2>1, PostFacts
<1>7. PICK box : box = Append(mail[i], e)
  OBVIOUS
<1>8. box \in Seq(EventRecord)
  BY <1>1, <1>3, <1>7, Appended
<1>9. LoadBox(l, "done", box, disk)
  BY <1>1, <1>2, <1>3, <1>4, <1>7, FailsBox
<1>10. \A u \in TabIds :
          Attending(u) /\ tab[u].req = i =>
             Pace(u, tab[u], requests[i], "done", box, disk, missed, notices)
  <2>1. ~Has(mail[i], "DirectoryBatch")
    <3>1. PICK stage \in {"queued", "list"} : stage = svc[i]
      BY <1>4
    <3>2. LoadBox(l, stage, mail[i], disk)
      BY <1>1, <1>2, <3>1
    <3> HIDE DEF l
    <3> QED
      BY <3>2, ListBox
  <2> QED
    BY <1>1, <1>3, <1>7, <2>1, FailsPace
<1>11. Serves(i, "done", box)
  BY <1>1, <1>2, <1>4, <1>6, <1>7, <1>8, <1>9, <1>10 DEF Serves, Stages
<1> QED
  BY <1>11

LEMMA StaResolvesServes ==
    ASSUME TabInv, NEW i \in 1..Len(requests), StaResolves(i), UNCHANGED scenario
    PROVE  \E stage, box : Serves(i, stage, box)
<1>1. /\ Shapes /\ mail[i] \in Seq(EventRecord) /\ watch \in [TabIds -> WatchRecord]
      /\ requests[i].tab \in TabIds /\ Resolve[requests[i].loc] \in Locations
      /\ requests[i].kind = "load" => LoadBox(Resolve[requests[i].loc], svc[i], mail[i], disk)
      /\ \A u \in TabIds :
            Attending(u) /\ tab[u].req = i =>
               Pace(u, tab[u], requests[i], svc[i], mail[i], disk, missed, notices)
  BY ServiceFacts
<1>2. requests[i].kind = "load"
  BY DEF StaResolves, OnSta
<1> DEFINE l == Resolve[requests[i].loc]
<1>3. PICK e : /\ e = Event("LocationResolved", l, {}) /\ e \in EventRecord
              /\ e.kind = "LocationResolved" /\ e.loc = l
  <2>1. "LocationResolved" \in EventKinds /\ {} \in Rows
    BY DEF EventKinds, LoadEvents, Rows
  <2> QED
    BY <1>1, <2>1, EventFacts
<1>4. /\ svc[i] = "queued"
      /\ Post(i, e, "list") /\ UNCHANGED <<watch, notices, disk, missed>> /\ UNCHANGED unserved
  BY <1>3 DEF StaResolves
<1>5. requests' = requests
  BY <1>4 DEF unserved
<1>6. /\ svc' \in Seq(Stages) /\ Len(svc') = Len(requests) /\ svc'[i] = "list"
      /\ mail' \in Seq(Seq(EventRecord)) /\ Len(mail') = Len(requests)
      /\ mail'[i] = Append(mail[i], e)
      /\ Only(i)
  <2>1. "list" \in Stages
    BY DEF Stages
  <2> QED
    BY <1>1, <1>3, <1>4, <1>5, <2>1, PostFacts
<1>7. PICK box : box = Append(mail[i], e)
  OBVIOUS
<1>8. box \in Seq(EventRecord)
  BY <1>1, <1>3, <1>7, Appended
<1>9. LoadBox(l, "list", box, disk)
  BY <1>1, <1>2, <1>3, <1>4, <1>7, ResolvesBox
<1>10. \A u \in TabIds :
          Attending(u) /\ tab[u].req = i =>
             Pace(u, tab[u], requests[i], "list", box, disk, missed, notices)
  <2>1. LoadBox(l, "queued", mail[i], disk)
    BY <1>1, <1>2, <1>4
  <2>2. ASSUME NEW u \in TabIds, Attending(u), tab[u].req = i
        PROVE  Pace(u, tab[u], requests[i], "list", box, disk, missed, notices)
    <3>1. Pace(u, tab[u], requests[i], "queued", mail[i], disk, missed, notices)
      BY <1>1, <1>4, <2>2
    <3> HIDE DEF l
    <3> QED
      BY <1>1, <1>3, <1>7, <2>1, <3>1, ResolvesPace
  <2> QED
    BY <2>2
<1>11. Serves(i, "list", box)
  BY <1>1, <1>2, <1>4, <1>6, <1>7, <1>8, <1>9, <1>10 DEF Serves, Stages
<1> QED
  BY <1>11

LEMMA StaListsServes ==
    ASSUME TabInv, NEW i \in 1..Len(requests), StaLists(i), UNCHANGED scenario
    PROVE  \E stage, box : Serves(i, stage, box)
<1>1. /\ Shapes /\ mail[i] \in Seq(EventRecord) /\ watch \in [TabIds -> WatchRecord]
      /\ requests[i].tab \in TabIds /\ Resolve[requests[i].loc] \in Locations
      /\ requests[i].kind = "load" => LoadBox(Resolve[requests[i].loc], svc[i], mail[i], disk)
      /\ \A u \in TabIds :
            Attending(u) /\ tab[u].req = i =>
               Pace(u, tab[u], requests[i], svc[i], mail[i], disk, missed, notices)
  BY ServiceFacts
<1>2. requests[i].kind = "load"
  BY DEF StaLists, OnSta
<1> DEFINE l == Resolve[requests[i].loc]
<1>3. PICK e : /\ e = Event("DirectoryBatch", l, Listing(l)) /\ e \in EventRecord
              /\ e.kind = "DirectoryBatch" /\ e.rows = Listing(l)
  <2>1. "DirectoryBatch" \in EventKinds
    BY DEF EventKinds, LoadEvents
  <2>2. Listing(l) \in Rows
    <3>1. disk[l] \in Nat
      BY <1>1, TabsAssumption DEF Shapes, FolderShape
    <3> QED
      BY <1>1, <3>1 DEF Listing, Rows
  <2> QED
    BY <1>1, <2>1, <2>2, EventFacts
<1>4. /\ svc[i] = "list" /\ i \notin cancelled
      /\ Post(i, e, "finish") /\ UNCHANGED <<watch, notices, disk>> /\ UNCHANGED unserved
  BY <1>3 DEF StaLists
<1>5. requests' = requests
  BY <1>4 DEF unserved
<1>6. /\ svc' \in Seq(Stages) /\ Len(svc') = Len(requests) /\ svc'[i] = "finish"
      /\ mail' \in Seq(Seq(EventRecord)) /\ Len(mail') = Len(requests)
      /\ mail'[i] = Append(mail[i], e)
      /\ Only(i)
  <2>1. "finish" \in Stages
    BY DEF Stages
  <2> QED
    BY <1>1, <1>3, <1>4, <1>5, <2>1, PostFacts
<1>7. PICK box : box = Append(mail[i], e)
  OBVIOUS
<1>8. box \in Seq(EventRecord)
  BY <1>1, <1>3, <1>7, Appended
<1>9. LoadBox(l, "finish", box, disk)
  <2>1. LoadBox(l, "list", mail[i], disk)
    BY <1>1, <1>2, <1>4
  <2>2. ListingOf(e.rows, l, disk)
    <3>1. disk[l] \in 0..disk[l]
      BY <1>1, TabsAssumption DEF Shapes, FolderShape
    <3> QED
      BY <1>3, <3>1 DEF ListingOf, Listing
  <2> HIDE DEF l
  <2> QED
    BY <1>1, <1>3, <1>7, <2>1, <2>2, ListsBox
<1>10. \A u \in TabIds :
          Attending(u) /\ tab[u].req = i =>
             Pace(u, tab[u], requests[i], "finish", box, disk, missed', notices)
  <2>1. LoadBox(l, "list", mail[i], disk)
    BY <1>1, <1>2, <1>4
  <2>2. e.rows = {<<l, disk[l]>>}
    BY <1>3 DEF Listing
  <2>3. ASSUME NEW u \in TabIds, Attending(u), tab[u].req = i
        PROVE  Pace(u, tab[u], requests[i], "finish", box, disk, missed', notices)
    <3>1. Pace(u, tab[u], requests[i], "list", mail[i], disk, missed, notices)
      BY <1>1, <1>4, <2>3
    <3>2. l = Resolve[requests[i].loc]
      OBVIOUS
    <3> HIDE DEF l
    <3>3. \A ms2 : Pace(u, tab[u], requests[i], "finish", Append(mail[i], e), disk, ms2, notices)
      BY <1>1, <1>3, <2>1, <2>2, <3>1, <3>2, ListsPace
    <3> QED
      BY <1>7, <3>3
  <2> QED
    BY <2>3
<1>12. missed' \subseteq missed /\ \A u \in missed \ missed' : tab[u].dir = "Loading" /\ tab[u].req = i
  <2>1. missed' = missed \ {requests[i].tab}
    BY DEF StaLists
  <2>2. Awaited(i, requests[i], svc[i], tab[requests[i].tab], Open, cancelled)
    BY DEF TabInv, WorkAwaited
  <2>3. i \in LoadOf(tab[requests[i].tab])
    BY <1>2, <1>4, <2>2 DEF Awaited
  <2>4. tab[requests[i].tab].dir = "Loading" /\ tab[requests[i].tab].req = i
    BY <2>3 DEF LoadOf
  <2> QED
    BY <2>1, <2>4
<1>11. Serves(i, "finish", box)
  BY <1>1, <1>2, <1>4, <1>6, <1>7, <1>8, <1>9, <1>10, <1>12 DEF Serves, Stages
<1> QED
  BY <1>11

LEMMA StaFinishesServes ==
    ASSUME TabInv, NEW i \in 1..Len(requests), StaFinishes(i), UNCHANGED scenario
    PROVE  \E stage, box : Serves(i, stage, box)
<1>1. /\ Shapes /\ mail[i] \in Seq(EventRecord) /\ watch \in [TabIds -> WatchRecord]
      /\ requests[i].tab \in TabIds /\ Resolve[requests[i].loc] \in Locations
      /\ requests[i].kind = "load" => LoadBox(Resolve[requests[i].loc], svc[i], mail[i], disk)
      /\ \A u \in TabIds :
            Attending(u) /\ tab[u].req = i =>
               Pace(u, tab[u], requests[i], svc[i], mail[i], disk, missed, notices)
  BY ServiceFacts
<1>2. requests[i].kind = "load"
  BY DEF StaFinishes, OnSta
<1> DEFINE l == Resolve[requests[i].loc]
<1>3. PICK e : e = Plain("DirectoryFinished") /\ e \in EventRecord /\ e.kind = "DirectoryFinished"
  BY PlainFacts DEF EventKinds, LoadEvents
<1>4. /\ svc[i] = "finish"
      /\ Post(i, e, "watch") /\ UNCHANGED <<watch, notices, disk, missed>> /\ UNCHANGED unserved
  BY <1>3 DEF StaFinishes
<1>5. requests' = requests
  BY <1>4 DEF unserved
<1>6. /\ svc' \in Seq(Stages) /\ Len(svc') = Len(requests) /\ svc'[i] = "watch"
      /\ mail' \in Seq(Seq(EventRecord)) /\ Len(mail') = Len(requests)
      /\ mail'[i] = Append(mail[i], e)
      /\ Only(i)
  <2>1. "watch" \in Stages
    BY DEF Stages
  <2> QED
    BY <1>1, <1>3, <1>4, <1>5, <2>1, PostFacts
<1>7. PICK box : box = Append(mail[i], e)
  OBVIOUS
<1>8. box \in Seq(EventRecord)
  BY <1>1, <1>3, <1>7, Appended
<1>9. LoadBox(l, "watch", box, disk)
  BY <1>1, <1>2, <1>3, <1>4, <1>7, FinishesBox
<1>10. \A u \in TabIds :
          Attending(u) /\ tab[u].req = i =>
             Pace(u, tab[u], requests[i], "watch", box, disk, missed, notices)
  <2>1. ASSUME NEW u \in TabIds, Attending(u), tab[u].req = i
        PROVE  Pace(u, tab[u], requests[i], "watch", box, disk, missed, notices)
    <3>1. Pace(u, tab[u], requests[i], "finish", mail[i], disk, missed, notices)
      BY <1>1, <1>4, <2>1
    <3> QED
      BY <1>1, <1>3, <1>7, <3>1, FinishesPace
  <2> QED
    BY <2>1
<1>11. Serves(i, "watch", box)
  BY <1>1, <1>2, <1>4, <1>6, <1>7, <1>8, <1>9, <1>10 DEF Serves, Stages
<1> QED
  BY <1>11

LEMMA StaWatchesServes ==
    ASSUME TabInv, NEW i \in 1..Len(requests), StaWatches(i), UNCHANGED scenario
    PROVE  \E stage, box : Serves(i, stage, box)
<1>1. /\ Shapes /\ mail[i] \in Seq(EventRecord) /\ watch \in [TabIds -> WatchRecord]
      /\ requests[i].tab \in TabIds /\ Resolve[requests[i].loc] \in Locations
      /\ requests[i].kind = "load" => LoadBox(Resolve[requests[i].loc], svc[i], mail[i], disk)
      /\ \A u \in TabIds :
            Attending(u) /\ tab[u].req = i =>
               Pace(u, tab[u], requests[i], svc[i], mail[i], disk, missed, notices)
  BY ServiceFacts
<1>2. requests[i].kind = "load"
  BY DEF StaWatches, OnSta
<1> DEFINE l == Resolve[requests[i].loc]
<1>3. PICK w : w = [loc |-> l, gen |-> requests[i].gen]
  OBVIOUS
<1>4. w \in WatchRecord
  BY <1>1, <1>3, ServiceFacts, TabsAssumption DEF WatchRecord, NoWatch
<1>5. /\ svc[i] = "watch" /\ svc' = [svc EXCEPT ![i] = "done"]
      /\ watch' = [watch EXCEPT ![requests[i].tab] = w]
      /\ mail' = mail /\ UNCHANGED <<notices, disk, missed>> /\ UNCHANGED unserved
  BY <1>3 DEF StaWatches
<1>6. /\ svc' \in Seq(Stages) /\ Len(svc') = Len(requests) /\ svc'[i] = "done"
      /\ mail' \in Seq(Seq(EventRecord)) /\ Len(mail') = Len(requests) /\ Only(i)
  <2>1. /\ svc \in Seq(Stages) /\ Len(svc) = Len(requests) /\ "done" \in Stages
        /\ mail \in Seq(Seq(EventRecord)) /\ Len(mail) = Len(requests)
    BY <1>1, ShapeFacts DEF Stages
  <2>2. /\ svc' \in Seq(Stages) /\ Len(svc') = Len(requests) /\ svc'[i] = "done"
        /\ \A j \in 1..Len(requests) : j # i => svc'[j] = svc[j]
    BY <1>5, <2>1
  <2>3. requests' = requests
    BY <1>5 DEF unserved
  <2> QED
    BY <1>5, <2>1, <2>2, <2>3 DEF Only
<1>7. watch' \in [TabIds -> WatchRecord]
  BY <1>1, <1>4, <1>5
<1>8. PICK box : box = mail[i]
  OBVIOUS
<1>9. LoadBox(l, "done", box, disk)
  BY <1>1, <1>2, <1>5, <1>8, WatchesBox
<1>10. \A u \in TabIds :
          Attending(u) /\ tab[u].req = i =>
             Pace(u, tab[u], requests[i], "done", box, disk, missed, notices)
  <2>1. ASSUME NEW u \in TabIds, Attending(u), tab[u].req = i
        PROVE  Pace(u, tab[u], requests[i], "done", box, disk, missed, notices)
    <3>1. Pace(u, tab[u], requests[i], "watch", mail[i], disk, missed, notices)
      BY <1>1, <1>5, <2>1
    <3> QED
      BY <1>8, <3>1, WatchesPace
  <2> QED
    BY <2>1
<1>11. Serves(i, "done", box)
  BY <1>1, <1>2, <1>5, <1>6, <1>7, <1>8, <1>9, <1>10 DEF Serves, Stages
<1> QED
  BY <1>11

LEMMA StaWatchFailsServes ==
    ASSUME TabInv, NEW i \in 1..Len(requests), StaWatchFails(i), UNCHANGED scenario
    PROVE  \E stage, box : Serves(i, stage, box)
<1>1. /\ Shapes /\ mail[i] \in Seq(EventRecord) /\ watch \in [TabIds -> WatchRecord]
      /\ requests[i].tab \in TabIds /\ Resolve[requests[i].loc] \in Locations
      /\ requests[i].kind = "load" => LoadBox(Resolve[requests[i].loc], svc[i], mail[i], disk)
      /\ \A u \in TabIds :
            Attending(u) /\ tab[u].req = i =>
               Pace(u, tab[u], requests[i], svc[i], mail[i], disk, missed, notices)
  BY ServiceFacts
<1>2. requests[i].kind = "load"
  BY DEF StaWatchFails, OnSta
<1> DEFINE l == Resolve[requests[i].loc]
<1>3. PICK w : w = NoWatch
  OBVIOUS
<1>4. w \in WatchRecord
  BY <1>1, <1>3, ServiceFacts, TabsAssumption DEF WatchRecord, NoWatch
<1>5. /\ svc[i] = "watch" /\ svc' = [svc EXCEPT ![i] = "done"]
      /\ watch' = [watch EXCEPT ![requests[i].tab] = w]
      /\ mail' = mail /\ UNCHANGED <<notices, disk, missed>> /\ UNCHANGED unserved
  BY <1>3 DEF StaWatchFails
<1>6. /\ svc' \in Seq(Stages) /\ Len(svc') = Len(requests) /\ svc'[i] = "done"
      /\ mail' \in Seq(Seq(EventRecord)) /\ Len(mail') = Len(requests) /\ Only(i)
  <2>1. /\ svc \in Seq(Stages) /\ Len(svc) = Len(requests) /\ "done" \in Stages
        /\ mail \in Seq(Seq(EventRecord)) /\ Len(mail) = Len(requests)
    BY <1>1, ShapeFacts DEF Stages
  <2>2. /\ svc' \in Seq(Stages) /\ Len(svc') = Len(requests) /\ svc'[i] = "done"
        /\ \A j \in 1..Len(requests) : j # i => svc'[j] = svc[j]
    BY <1>5, <2>1
  <2>3. requests' = requests
    BY <1>5 DEF unserved
  <2> QED
    BY <1>5, <2>1, <2>2, <2>3 DEF Only
<1>7. watch' \in [TabIds -> WatchRecord]
  BY <1>1, <1>4, <1>5
<1>8. PICK box : box = mail[i]
  OBVIOUS
<1>9. LoadBox(l, "done", box, disk)
  BY <1>1, <1>2, <1>5, <1>8, WatchesBox
<1>10. \A u \in TabIds :
          Attending(u) /\ tab[u].req = i =>
             Pace(u, tab[u], requests[i], "done", box, disk, missed, notices)
  <2>1. ASSUME NEW u \in TabIds, Attending(u), tab[u].req = i
        PROVE  Pace(u, tab[u], requests[i], "done", box, disk, missed, notices)
    <3>1. Pace(u, tab[u], requests[i], "watch", mail[i], disk, missed, notices)
      BY <1>1, <1>5, <2>1
    <3> QED
      BY <1>8, <3>1, WatchesPace
  <2> QED
    BY <2>1
<1>11. Serves(i, "done", box)
  BY <1>1, <1>2, <1>5, <1>6, <1>7, <1>8, <1>9, <1>10 DEF Serves, Stages
<1> QED
  BY <1>11

\* A worker posts event e of search i.
LEMMA SearchServes ==
    ASSUME TabInv, NEW i \in 1..Len(requests), requests[i].kind = "search", UNCHANGED scenario,
           svc[i] # "done", NEW e \in EventRecord, NEW stage \in {"list", "done"},
           e.kind \notin LoadEvents, e.kind # "SearchBatch" => stage = "done",
           stage = "list" => svc[i] \in {"queued", "list"},
           Post(i, e, stage), UNCHANGED <<watch, notices, disk, missed>>, UNCHANGED unserved
    PROVE  \E box : Serves(i, stage, box)
<1>1. /\ Shapes /\ mail[i] \in Seq(EventRecord) /\ watch \in [TabIds -> WatchRecord]
      /\ SearchBox(svc[i], mail[i])
      /\ \A u \in TabIds : ~(Attending(u) /\ tab[u].req = i)
  BY ServiceFacts
<1>2. requests' = requests /\ stage \in Stages
  BY DEF unserved, Stages
<1>3. /\ svc' \in Seq(Stages) /\ Len(svc') = Len(requests) /\ svc'[i] = stage
      /\ mail' \in Seq(Seq(EventRecord)) /\ Len(mail') = Len(requests)
      /\ mail'[i] = Append(mail[i], e)
      /\ Only(i)
  BY <1>1, <1>2, PostFacts
<1>4. PICK box : box = Append(mail[i], e)
  OBVIOUS
<1>5. box \in Seq(EventRecord)
  BY <1>1, <1>4, Appended
<1>6. SearchBox(stage, box)
  BY <1>1, <1>4, SearchPosts
<1>7. Serves(i, stage, box)
  BY <1>1, <1>2, <1>3, <1>4, <1>5, <1>6 DEF Serves
<1> QED
  BY <1>7

LEMMA SearchHitsServes ==
    ASSUME TabInv, NEW i \in 1..Len(requests), SearchHits(i), UNCHANGED scenario
    PROVE  \E stage, box : Serves(i, stage, box)
<1>1. PICK e : e = Plain("SearchBatch") /\ e \in EventRecord /\ e.kind = "SearchBatch"
  BY PlainFacts DEF EventKinds
<1>2. e.kind \notin LoadEvents
  BY <1>1 DEF LoadEvents
<1>3. \E box : Serves(i, "list", box)
  BY <1>1, <1>2, SearchServes DEF SearchHits
<1> QED
  BY <1>3

LEMMA SearchEndsServes ==
    ASSUME TabInv, NEW i \in 1..Len(requests), SearchEnds(i), UNCHANGED scenario
    PROVE  \E stage, box : Serves(i, stage, box)
<1>1. PICK kind \in {"SearchCancelled", "SearchReady", "Failed"} : Post(i, Plain(kind), "done")
  BY DEF SearchEnds
<1>2. PICK e : e = Plain(kind) /\ e \in EventRecord /\ e.kind = kind
  BY PlainFacts DEF EventKinds
<1>3. e.kind \notin LoadEvents /\ e.kind # "SearchBatch"
  BY <1>2 DEF LoadEvents
<1>4. svc[i] # "done" /\ requests[i].kind = "search"
      /\ UNCHANGED <<watch, notices, disk, missed>> /\ UNCHANGED unserved
  BY DEF SearchEnds
<1>5. Post(i, e, "done")
  BY <1>1, <1>2
<1>6. \E box : Serves(i, "done", box)
  BY <1>2, <1>3, <1>4, <1>5, SearchServes
<1> QED
  BY <1>6

LEMMA ServiceInv ==
    ASSUME TabInv, NEW i \in 1..Len(requests), Service(i), UNCHANGED scenario
    PROVE  TabInv' /\ tab' = tab
<1>1. \E stage, box : Serves(i, stage, box)
  BY StaFailsServes, StaResolvesServes, StaListsServes, StaFinishesServes, StaWatchesServes,
     StaWatchFailsServes, SearchHitsServes, SearchEndsServes DEF Service
<1>2. tab' = tab
  BY <1>1 DEF Serves, unserved
<1> QED
  BY <1>1, <1>2, ServesInv

-----------------------------------------------------------------------------
(* A folder changes                                                        *)

\* The rows of a folder a tab shows or loads stay up to date, or its tab owes
\* a reading, or a report is on its way.
LEMMA CoveredGrows ==
    ASSUME TabInv, NEW l \in Locations, NEW deaf, FolderChanges(l, deaf),
           NEW u \in Open, NEW f \in FoldersOf(u), f \in Locations, NEW rows,
           Covered(u, tab[u].gen, f, rows, disk, missed, notices)
    PROVE  Covered(u, tab[u].gen, f, rows, disk', missed', notices')
<1>1. disk \in Disks /\ u \in TabIds
  BY ShapeFacts DEF TabInv
<1>2. disk' = [disk EXCEPT ![l] = @ + 1] /\ missed \subseteq missed' /\ notices \subseteq notices'
  BY DEF FolderChanges
<1>3. CASE f # l
  <2>1. disk'[f] = disk[f]
    BY <1>1, <1>2, <1>3 DEF Disks
  <2> QED
    BY <1>2, <2>1 DEF Covered
<1>4. CASE f = l
  <2>1. CASE u \in deaf \/ ~(Armed(u, l) /\ watch[u].gen = tab[u].gen)
    <3>1. u \in missed'
      BY <1>4, <2>1 DEF FolderChanges
    <3> QED
      BY <3>1 DEF Covered
  <2>2. CASE u \notin deaf /\ Armed(u, l) /\ watch[u].gen = tab[u].gen
    <3>1. [tab |-> u, gen |-> watch[u].gen] \in notices'
      BY <1>1, <2>2 DEF FolderChanges
    <3>2. [tab |-> u, gen |-> tab[u].gen] \in notices'
      BY <2>2, <3>1
    <3> QED
      BY <3>2 DEF Covered
  <2> QED
    BY <2>1, <2>2
<1> QED
  BY <1>3, <1>4

LEMMA FolderFacts ==
    ASSUME TabInv, NEW l \in Locations, NEW deaf, FolderChanges(l, deaf), UNCHANGED scenario
    PROVE  /\ order' = order /\ active' = active /\ tab' = tab /\ closed' = closed
           /\ used' = used /\ cache' = cache /\ requests' = requests
           /\ cancelled' = cancelled /\ svc' = svc /\ mail' = mail
           /\ WindowShape' /\ Open' = Open /\ disk' \in Disks /\ Later(disk, disk') /\ Shapes'
<1>1. Shapes
  BY DEF TabInv
<1>2. /\ order' = order /\ active' = active /\ tab' = tab /\ closed' = closed /\ used' = used
      /\ cache' = cache /\ requests' = requests /\ cancelled' = cancelled /\ svc' = svc
      /\ mail' = mail
  BY DEF FolderChanges, unserved
<1>3. WindowShape' /\ Open' = Open
  BY <1>1, <1>2, SameWindow DEF uiVars
<1>4. disk' \in Disks /\ Later(disk, disk')
  <2> DEFINE v == disk[l] + 1
  <2>1. disk \in Disks /\ disk[l] < MaxChanges /\ disk' = [disk EXCEPT ![l] = v]
    BY <1>1, ShapeFacts DEF FolderChanges
  <2>2. disk[l] \in Nat /\ v \in 0..MaxChanges /\ disk[l] <= v
    BY <2>1, TabsAssumption DEF Disks
  <2> HIDE DEF v
  <2>3. disk' \in Disks
    BY <2>1, <2>2 DEF Disks
  <2>4. ASSUME NEW f \in Locations PROVE disk[f] <= disk'[f]
    <3>1. CASE f = l
      BY <2>1, <2>2, <3>1 DEF Disks
    <3>2. CASE f # l
      <4>1. disk'[f] = disk[f] /\ disk[f] \in Nat
        BY <2>1, <3>2, TabsAssumption DEF Disks
      <4> QED
        BY <4>1
    <3> QED
      BY <3>1, <3>2
  <2> QED
    BY <2>3, <2>4 DEF Later
<1>5. FolderShape'
  <2>1. watch \in [TabIds -> WatchRecord] /\ NoWatch \in WatchRecord
    BY <1>1, TabsAssumption DEF Shapes, FolderShape, NoWatch, WatchRecord
  <2>2. watch' \in [TabIds -> WatchRecord]
    BY <2>1 DEF FolderChanges
  <2>3. ASSUME NEW t \in TabIds, Armed(t, l) PROVE watch[t].gen \in 1..MaxRequests
    <3>1. watch[t].gen \in 0..MaxRequests /\ watch[t].gen > 0
      BY <2>1, <2>3 DEF Armed, WatchRecord
    <3> QED
      BY <3>1, TabsAssumption
  <2>4. notices' \subseteq [tab : TabIds, gen : 1..MaxRequests]
    <3>1. notices \subseteq [tab : TabIds, gen : 1..MaxRequests]
      BY <1>1 DEF Shapes, FolderShape
    <3> QED
      BY <2>3, <3>1 DEF FolderChanges
  <2>5. missed' \subseteq TabIds
    BY <1>1, ShapeFacts DEF FolderChanges, Shapes, FolderShape
  <2> QED
    BY <1>4, <2>2, <2>4, <2>5 DEF FolderShape, Disks
<1>6. Shapes'
  <2>1. ServiceShape'
    BY <1>1, <1>2 DEF Shapes, ServiceShape
  <2> QED
    BY <1>1, <1>2, <1>3, <1>5, <2>1 DEF Shapes
<1> QED
  BY <1>2, <1>3, <1>4, <1>6

LEMMA FolderInv ==
    ASSUME TabInv, NEW l \in Locations, NEW deaf, FolderChanges(l, deaf), UNCHANGED scenario
    PROVE  TabInv' /\ tab' = tab
<1>1. /\ Shapes /\ TabsLinked /\ RequestsServed /\ WorkAwaited /\ LoadsProgress
      /\ CacheListed /\ ShownFresh /\ ComingFresh
  BY DEF TabInv
<1>2. /\ tab' = tab /\ used' = used /\ cache' = cache /\ requests' = requests
      /\ cancelled' = cancelled /\ svc' = svc /\ mail' = mail
      /\ Open' = Open /\ disk' \in Disks /\ Later(disk, disk') /\ Shapes'
  BY FolderFacts
<1>3. disk \in Disks /\ tab \in [TabIds -> TabRecord] /\ Open \subseteq TabIds
      /\ requests \in Seq(Request)
  BY <1>1, ShapeFacts
<1>4. PICK i : i = Len(requests) + 1
  OBVIOUS
<1>5. i \notin 1..Len(requests) /\ Only(i)
  BY <1>1, <1>2, <1>4, NoRequest DEF Only
<1>6. Monotone
  <2>1. Extends(requests, requests')
    BY <1>2, <1>3, ExtendsSame
  <2>2. ASSUME NEW u \in TabIds PROVE tab[u].gen <= tab[u].gen
    <3>1. tab[u].gen \in Nat
      BY <1>3, TabFacts, TabsAssumption
    <3> QED
      BY <3>1
  <2> QED
    BY <1>2, <2>1, <2>2 DEF Monotone
<1>7. TabsLinked'
  <2>1. PICK t : t \notin TabIds
    <3> DEFINE t == CHOOSE x : x \notin TabIds
    <3> QED
      BY NoSetContainsEverything
  <2> QED
    BY <1>1, <1>2, <1>6, <2>1, LinkedNext
<1>8. RequestsServed'
  BY <1>1, <1>2, <1>5, <1>6, ServedNext
<1>9. WorkAwaited'
  <2>1. KeepsWork(i)
    BY <1>2 DEF KeepsWork
  <2> QED
    BY <1>1, <1>2, <1>5, <1>6, <2>1, AwaitedNext
<1>10. CacheListed'
  <2>1. ASSUME NEW f \in Locations PROVE cache[f] = {} \/ ListingOf(cache[f], f, disk')
    BY <1>1, <1>2, <1>3, LaterListing DEF CacheListed
  <2> QED
    BY <1>2, <2>1 DEF CacheListed
<1>11. ShownFresh'
  <2>1. ASSUME NEW u \in Open, tab[u].dir = "Ready", tab[u].cur \notin Synthetic
        PROVE  Covered(u, tab[u].gen, tab[u].cur, tab[u].rows, disk', missed', notices')
    <3>1. Covered(u, tab[u].gen, tab[u].cur, tab[u].rows, disk, missed, notices)
      BY <1>1, <2>1 DEF ShownFresh, Shown
    <3>2. tab[u].cur \in FoldersOf(u) /\ tab[u].cur \in Locations
      BY <1>3, TabFacts DEF FoldersOf
    <3> QED
      BY <3>1, <3>2, CoveredGrows
  <2> QED
    BY <1>2, <2>1 DEF ShownFresh, Shown
<1>12. ASSUME NEW u \in TabIds, Attending(u)' PROVE InStep(u)'
  <2>1. Attending(u)
    BY <1>2, <1>12 DEF Attending
  <2>2. u \in Open /\ tab[u].dir = "Loading"
    BY <2>1 DEF Attending, Attends
  <2> DEFINE j == tab[u].req
             r == requests[j]
             f == Resolve[r.loc]
  <2>3. j \in 1..Len(requests)
    BY <1>1, <2>2, LoadFacts
  <2>4. f \in FoldersOf(u) /\ f \in Locations
    <3>1. j \in LoadOf(tab[u])
      BY <2>2 DEF LoadOf
    <3>2. f \in Locations
      BY <1>1, <2>3, RequestFacts DEF Canon
    <3> QED
      BY <3>1, <3>2 DEF FoldersOf
  <2>5. Progress(tab[u], r, svc[j], mail[j], disk) /\ Coming(u, tab[u], r, svc[j], mail[j], disk, missed, notices)
    BY <1>1, <2>1, InStepNow DEF InStep
  <2> HIDE DEF j
  <2>6. Progress(tab[u], r, svc[j], mail[j], disk')
    <3>1. ListingOf(tab[u].seen, f, disk) => ListingOf(tab[u].seen, f, disk')
      BY <1>2, <1>3, <2>4, LaterListing
    <3> QED
      BY <2>5, <3>1 DEF Progress
  <2>7. Coming(u, tab[u], r, svc[j], mail[j], disk', missed', notices')
    <3>1. \A rows : Covered(u, tab[u].gen, f, rows, disk, missed, notices)
                      => Covered(u, tab[u].gen, f, rows, disk', missed', notices')
      BY <2>2, <2>4, CoveredGrows
    <3> QED
      BY <2>5, <3>1 DEF Coming
  <2> QED
    BY <1>2, <2>6, <2>7 DEF InStep, j
<1>13. LoadsProgress' /\ ComingFresh'
  BY <1>12, InStepParts
<1> QED
  BY <1>2, <1>7, <1>8, <1>9, <1>10, <1>11, <1>13 DEF TabInv

-----------------------------------------------------------------------------
(* Draining an event                                                       *)

LEMMA TailFacts ==
    ASSUME NEW box \in Seq(EventRecord), box # <<>>
    PROVE  /\ Tail(box) \in Seq(EventRecord) /\ Len(box) \in Nat \ {0}
           /\ Len(Tail(box)) = Len(box) - 1
           /\ \A k \in 1..(Len(box) - 1) : Tail(box)[k] = box[k + 1]
           /\ Head(box) = box[1] /\ box[1] \in EventRecord
<1>1. Len(box) \in Nat \ {0}
  OBVIOUS
<1>2. box[1] \in EventRecord
  BY <1>1
<1> QED
  BY <1>1, <1>2

LEMMA HasTail ==
    ASSUME NEW box \in Seq(EventRecord), box # <<>>, NEW kind
    PROVE  Has(box, kind) <=> Head(box).kind = kind \/ Has(Tail(box), kind)
<1> DEFINE b == Tail(box)
           n == Len(box)
<1>1. /\ n \in Nat \ {0} /\ Len(b) = n - 1 /\ \A k \in 1..(n - 1) : b[k] = box[k + 1]
      /\ Head(box) = box[1]
  BY TailFacts
<1> HIDE DEF b
<1>2. ASSUME NEW k \in 1..n, box[k].kind = kind PROVE box[1].kind = kind \/ Has(b, kind)
  <2>1. CASE k = 1
    BY <1>2, <2>1
  <2>2. CASE k # 1
    <3>1. k - 1 \in 1..(n - 1) /\ (k - 1) + 1 = k
      BY <1>1, <2>2
    <3>2. b[k - 1] = box[k]
      BY <1>1, <3>1
    <3> QED
      BY <1>1, <1>2, <3>1, <3>2 DEF Has
  <2> QED
    BY <2>1, <2>2
<1>3. ASSUME NEW k \in 1..(n - 1), b[k].kind = kind PROVE Has(box, kind)
  <2>1. k + 1 \in 1..n /\ box[k + 1].kind = kind
    BY <1>1, <1>3
  <2> QED
    BY <2>1 DEF Has
<1>4. ASSUME box[1].kind = kind PROVE Has(box, kind)
  <2>1. 1 \in 1..n
    BY <1>1
  <2> QED
    BY <1>4, <2>1 DEF Has
<1>5. Has(box, kind) <=> box[1].kind = kind \/ Has(b, kind)
  BY <1>1, <1>2, <1>3, <1>4 DEF Has
<1> QED
  BY <1>1, <1>5 DEF b

LEMMA TailBox ==
    ASSUME NEW l, NEW stage, NEW box \in Seq(EventRecord), box # <<>>, NEW d,
           LoadBox(l, stage, box, d)
    PROVE  LoadBox(l, stage, Tail(box), d) /\ ~Has(Tail(box), "LocationResolved")
<1> DEFINE b == Tail(box)
           n == Len(box)
<1>1. /\ n \in Nat \ {0} /\ Len(b) = n - 1 /\ \A k \in 1..(n - 1) : b[k] = box[k + 1]
  BY TailFacts
<1>2. stage # "queued"
  BY DEF LoadBox
<1> HIDE DEF b
<1>3. ASSUME NEW k \in 1..(n - 1)
      PROVE  /\ b[k].kind \in LoadEvents \cup {"Failed"}
             /\ b[k].kind # "LocationResolved"
             /\ b[k].kind = "DirectoryBatch" =>
                   /\ ListingOf(b[k].rows, l, d) /\ stage \notin {"queued", "list"}
                   /\ \A m \in 1..(k - 1) : b[m].kind = "LocationResolved"
             /\ b[k].kind = "DirectoryFinished" =>
                   /\ stage \in {"watch", "done"} /\ k = Len(b)
                   /\ \A m \in 1..(k - 1) : b[m].kind \in {"LocationResolved", "DirectoryBatch"}
             /\ b[k].kind = "Failed" =>
                   /\ stage = "done" /\ k = Len(b)
                   /\ \A m \in 1..(k - 1) : b[m].kind = "LocationResolved"
  <2>1. k \in Nat /\ k + 1 \in 1..n /\ b[k] = box[k + 1] /\ k + 1 # 1
    BY <1>1
  <2>2. \A m \in 1..(k - 1) : m + 1 \in 1..((k + 1) - 1) /\ b[m] = box[m + 1]
    BY <1>1, <2>1
  <2>3. k + 1 = n => k = Len(b)
    BY <1>1, <2>1
  <2>4. PICK j \in 1..n : j = k + 1
    BY <2>1
  <2>5. b[k] = box[j] /\ j # 1 /\ (j = n => k = Len(b))
    BY <2>1, <2>3, <2>4
  <2>6. \A m \in 1..(k - 1) : m + 1 \in 1..(j - 1) /\ b[m] = box[m + 1]
    BY <2>2, <2>4
  <2>7. box[j].kind \in LoadEvents \cup {"Failed"} /\ box[j].kind # "LocationResolved"
    BY <2>5 DEF LoadBox, n
  <2>8. box[j].kind = "DirectoryBatch" =>
           /\ ListingOf(box[j].rows, l, d) /\ stage \notin {"queued", "list"}
           /\ \A m \in 1..(j - 1) : box[m].kind = "LocationResolved"
    BY <2>4 DEF LoadBox, n
  <2>9. box[j].kind = "DirectoryFinished" =>
           /\ stage \in {"watch", "done"} /\ j = n
           /\ \A m \in 1..(j - 1) : box[m].kind \in {"LocationResolved", "DirectoryBatch"}
    BY <2>4 DEF LoadBox, n
  <2>10. box[j].kind = "Failed" =>
            /\ stage = "done" /\ j = n
            /\ \A m \in 1..(j - 1) : box[m].kind = "LocationResolved"
    BY <2>4 DEF LoadBox, n
  <2> QED
    BY <2>5, <2>6, <2>7, <2>8, <2>9, <2>10
<1>4. \A k \in 1..Len(b) : b[k].kind # "LocationResolved"
  BY <1>1, <1>3
<1>5. ~Has(b, "LocationResolved")
  BY <1>4 DEF Has
<1>6. LoadBox(l, stage, b, d)
  BY <1>1, <1>2, <1>3 DEF LoadBox
<1> QED
  BY <1>5, <1>6 DEF b

LEMMA TailSearchBox ==
    ASSUME NEW stage, NEW box \in Seq(EventRecord), box # <<>>, SearchBox(stage, box)
    PROVE  SearchBox(stage, Tail(box))
<1> DEFINE b == Tail(box)
           n == Len(box)
<1>1. /\ n \in Nat \ {0} /\ Len(b) = n - 1 /\ \A k \in 1..(n - 1) : b[k] = box[k + 1]
  BY TailFacts
<1> HIDE DEF b
<1>2. ASSUME NEW k \in 1..(n - 1)
      PROVE  b[k].kind \notin LoadEvents /\ (b[k].kind # "SearchBatch" => stage = "done")
  <2>1. k + 1 \in 1..n /\ b[k] = box[k + 1]
    BY <1>1
  <2> QED
    BY <2>1 DEF SearchBox
<1>3. SearchBox(stage, b)
  BY <1>1, <1>2 DEF SearchBox
<1> QED
  BY <1>3 DEF b

\* The next event of request i leaves its mailbox, and nothing else of the
\* service changes.
Drains(i, e) ==
    /\ i \in 1..Len(requests) /\ mail[i] # <<>> /\ e = mail[i][1] /\ e = Head(mail[i])
    /\ e \in EventRecord
    /\ mail' \in Seq(Seq(EventRecord)) /\ Len(mail') = Len(requests)
    /\ mail'[i] = Tail(mail[i]) /\ Only(i)
    /\ UNCHANGED <<requests, cancelled, svc, watch, notices, disk, missed>>
    /\ UNCHANGED uiVars /\ UNCHANGED scenario

LEMMA DrainFacts ==
    ASSUME Shapes, NEW i \in 1..Len(requests), Drain(i), UNCHANGED scenario
    PROVE  /\ Drains(i, Head(mail[i]))
           /\ WindowShape' /\ Open' = Open /\ used' = used
           /\ ServiceShape' /\ FolderShape'
<1>1. /\ mail \in Seq(Seq(EventRecord)) /\ Len(mail) = Len(requests)
      /\ mail[i] \in Seq(EventRecord) /\ mail[i] # <<>>
  BY ShapeFacts, RequestFacts DEF Drain
<1> DEFINE b == Tail(mail[i])
<1>2. b \in Seq(EventRecord) /\ Head(mail[i]) = mail[i][1] /\ mail[i][1] \in EventRecord
  BY <1>1, TailFacts
<1>3. mail' = [mail EXCEPT ![i] = b]
  BY DEF Drain
<1> HIDE DEF b
<1>4. /\ mail' \in Seq(Seq(EventRecord)) /\ Len(mail') = Len(requests) /\ mail'[i] = b
      /\ \A j \in 1..Len(requests) : j # i => mail'[j] = mail[j]
  BY <1>1, <1>2, <1>3
<1>5. /\ UNCHANGED <<requests, cancelled, svc, watch, notices, disk, missed>>
      /\ UNCHANGED uiVars
  BY DEF Drain
<1>6. Only(i)
  BY <1>4, <1>5 DEF Only
<1>7. Drains(i, Head(mail[i]))
  BY <1>1, <1>2, <1>4, <1>5, <1>6 DEF Drains, b
<1>8. WindowShape' /\ Open' = Open /\ used' = used
  BY <1>5, SameWindow
<1>9. ServiceShape'
  BY <1>4, <1>5 DEF Shapes, ServiceShape
<1>10. FolderShape'
  BY <1>5 DEF Shapes, FolderShape
<1> QED
  BY <1>7, <1>8, <1>9, <1>10

\* Request i with its next event gone is still served.
LEMMA DrainedServed ==
    ASSUME TabInv, NEW i, NEW e, Drains(i, e)
    PROVE  Served(requests[i], svc'[i], mail'[i], tab[requests[i].tab], used, disk)
<1>1. i \in 1..Len(requests) /\ mail[i] # <<>> /\ svc' = svc /\ mail'[i] = Tail(mail[i])
  BY DEF Drains
<1>2. Served(requests[i], svc[i], mail[i], tab[requests[i].tab], used, disk)
      /\ mail[i] \in Seq(EventRecord)
  BY <1>1, RequestFacts DEF TabInv, RequestsServed
<1>3. requests[i].kind = "load" =>
         LoadBox(Resolve[requests[i].loc], svc[i], Tail(mail[i]), disk)
  BY <1>1, <1>2, TailBox DEF Served
<1>4. requests[i].kind = "search" => SearchBox(svc[i], Tail(mail[i]))
  BY <1>1, <1>2, TailSearchBox DEF Served
<1> QED
  BY <1>1, <1>2, <1>3, <1>4 DEF Served

\* The kinds of the events of a load and of a search.
LEMMA DrainedKind ==
    ASSUME TabInv, NEW i, NEW e, Drains(i, e)
    PROVE  /\ requests[i].kind = "load" => e.kind \in LoadEvents \cup {"Failed"}
           /\ requests[i].kind = "search" =>
                 e.kind \notin LoadEvents /\ (e.kind # "SearchBatch" => svc[i] = "done")
<1>1. i \in 1..Len(requests) /\ mail[i] # <<>> /\ e = mail[i][1]
  BY DEF Drains
<1>2. Served(requests[i], svc[i], mail[i], tab[requests[i].tab], used, disk)
      /\ mail[i] \in Seq(EventRecord)
  BY <1>1, RequestFacts DEF TabInv, RequestsServed
<1>3. 1 \in 1..Len(mail[i])
  BY <1>1, <1>2, TailFacts
<1> QED
  BY <1>1, <1>2, <1>3 DEF Served, LoadBox, SearchBox

\* No tab attends to a load whose event the gate refuses.
LEMMA AttendedPasses ==
    ASSUME TabInv, NEW i, NEW e, Drains(i, e), NEW u \in TabIds, Attending(u), tab[u].req = i
    PROVE  u = requests[i].tab /\ Gate(i, e.kind) /\ requests[i].kind = "load"
<1>1. /\ u \in Open /\ tab[u].dir = "Loading" /\ i \notin cancelled /\ tab[u].gen = requests[i].gen
  BY DEF Attending, Attends
<1>2. requests[i].tab = u /\ requests[i].kind = "load"
  BY <1>1, LoadFacts DEF TabInv
<1>3. e.kind \in LoadEvents \cup {"Failed"}
  BY <1>2, DrainedKind
<1> QED
  BY <1>1, <1>2, <1>3 DEF Gate, AcceptsLoad

LEMMA RefusedInv ==
    ASSUME TabInv, NEW i, NEW e, Drains(i, e), ~Gate(i, e.kind), tab' = tab, cache' = cache,
           WindowShape', Open' = Open, used' = used, ServiceShape', FolderShape'
    PROVE  TabInv'
<1>1. Shapes /\ TabsLinked /\ WorkAwaited
  BY DEF TabInv
<1>2. /\ i \in 1..Len(requests) /\ Only(i)
      /\ requests' = requests /\ cancelled' = cancelled /\ svc' = svc /\ watch' = watch
      /\ notices' = notices /\ disk' = disk /\ missed' = missed
  BY DEF Drains
<1>3. Shapes'
  BY <1>1 DEF Shapes
<1>4. PICK t : t \notin TabIds
  <2> DEFINE t == CHOOSE x : x \notin TabIds
  <2> QED
    BY NoSetContainsEverything
<1>5. Served(requests[i], svc'[i], mail'[i], tab[requests[i].tab], used, disk)
  BY DrainedServed
<1>6. Awaited(i, requests[i], svc'[i], tab'[requests[i].tab], Open', cancelled')
  BY <1>1, <1>2 DEF WorkAwaited
<1>7. ASSUME NEW u \in TabIds, Attending(u)', tab[u].req = i PROVE FALSE
  <2>1. Attending(u)
    BY <1>2, <1>7 DEF Attending
  <2> QED
    BY <1>7, <2>1, AttendedPasses
<1>8. KeepsWork(i)
  BY DEF KeepsWork
<1>9. \A u \in Open' : Reported(u) => [tab |-> u, gen |-> tab[u].gen] \in notices'
  BY <1>2 DEF Reported
<1>10. used' \subseteq TabIds
  BY <1>1, ShapeFacts
<1>11. Light(i, t)
  BY <1>2, <1>4, <1>5, <1>6, <1>7, <1>8, <1>9, <1>10 DEF Light
<1> QED
  BY <1>3, <1>11, LightInv

\* A search event that passes the gate changes the search alone.
LEMMA AppliedSearchFields ==
    ASSUME NEW o \in TabRecord, NEW e, NEW n, n = AppliedToSearch(o, e)
    PROVE  /\ Searched(n, o)
           /\ e.kind = "SearchBatch" => n.search = o.search
<1>1. CASE e.kind = "SearchBatch"
  <2>1. n = [o EXCEPT !.hits = TRUE]
    BY <1>1 DEF AppliedToSearch
  <2> QED
    BY <2>1, HitFields
<1>2. CASE e.kind # "SearchBatch"
  <2>1. PICK outcome \in {"Ready", "Cancelled", "Error"} : n = SearchEnded(o, outcome)
    BY <1>2 DEF AppliedToSearch
  <2> QED
    BY <1>2, <2>1, EndedFields
<1> QED
  BY <1>1, <1>2

\* What passing the gate says of the tab: the load or the search of the event.
LEMMA GateFacts ==
    ASSUME TabInv, NEW i, NEW e, Drains(i, e), Gate(i, e.kind), NEW t, t = requests[i].tab
    PROVE  /\ t \in Open /\ t \in TabIds /\ t \in used /\ tab[t] \in TabRecord
           /\ i \notin cancelled /\ tab[t].gen = requests[i].gen
           /\ \/ /\ requests[i].kind = "load" /\ e.kind \in LoadEvents \cup {"Failed"}
                 /\ AcceptsLoad(tab[t], i) /\ tab[t].search # "Loading"
                 /\ Applied(tab[t], i, e) = AppliedToLoad(tab[t], e)
              \/ /\ requests[i].kind = "search" /\ e.kind \notin LoadEvents
                 /\ AcceptsSearch(tab[t], i)
                 /\ Applied(tab[t], i, e) = AppliedToSearch(tab[t], e)
<1>1. Shapes /\ TabsLinked
  BY DEF TabInv
<1>2. t \in Open /\ i \notin cancelled /\ tab[t].gen = requests[i].gen
  BY DEF Gate
<1>3. t \in TabIds /\ t \in used /\ tab[t] \in TabRecord
  BY <1>1, <1>2, ShapeFacts
<1>4. CASE e.kind \in LoadEvents \cup {"Failed"} /\ AcceptsLoad(tab[t], i)
  <2>1. tab[t].dir = "Loading" /\ tab[t].req = i
    BY <1>4 DEF AcceptsLoad
  <2>2. requests[i].kind = "load"
    BY <1>1, <1>3, <2>1, LoadFacts
  <2>3. tab[t].search # "Loading"
    BY <1>1, <1>2, <1>3, <2>1 DEF TabsLinked, Linked
  <2>4. Applied(tab[t], i, e) = AppliedToLoad(tab[t], e)
    BY <1>4, <2>3 DEF Applied
  <2> QED
    BY <1>2, <1>3, <1>4, <2>2, <2>3, <2>4
<1>5. CASE e.kind \notin LoadEvents /\ AcceptsSearch(tab[t], i)
  <2>1. tab[t].search = "Loading" /\ tab[t].sreq = i
    BY <1>5 DEF AcceptsSearch
  <2>2. requests[i].kind = "search"
    BY <1>1, <1>3, <2>1, SearchFacts
  <2>3. Applied(tab[t], i, e) = AppliedToSearch(tab[t], e)
    BY <1>5, <2>1 DEF Applied
  <2> QED
    BY <1>2, <1>3, <1>5, <2>2, <2>3
<1> QED
  BY <1>4, <1>5 DEF Gate

LEMMA SearchEventInv ==
    ASSUME TabInv, NEW i, NEW e, Drains(i, e), NEW t, t = requests[i].tab,
           t \in Open, requests[i].kind = "search", AcceptsSearch(tab[t], i),
           NEW n, n = AppliedToSearch(tab[t], e),
           tab' = [tab EXCEPT ![t] = n], cache' = cache,
           WindowShape', Open' = Open, used' = used, ServiceShape', FolderShape'
    PROVE  TabInv' /\ Searched(n, tab[t])
<1>1. Shapes /\ TabsLinked /\ WorkAwaited
  BY DEF TabInv
<1>2. /\ i \in 1..Len(requests) /\ Only(i)
      /\ requests' = requests /\ cancelled' = cancelled /\ svc' = svc /\ watch' = watch
      /\ notices' = notices /\ disk' = disk /\ missed' = missed
  BY DEF Drains
<1>3. /\ t \in TabIds /\ t \in used /\ tab \in [TabIds -> TabRecord] /\ tab[t] \in TabRecord
      /\ tab[t].search = "Loading" /\ tab[t].sreq = i
  BY <1>1, ShapeFacts DEF AcceptsSearch
<1>4. Searched(n, tab[t]) /\ (e.kind = "SearchBatch" => n.search = "Loading")
  BY <1>3, AppliedSearchFields
<1>5. /\ tab'[t] = n /\ tab' \in [TabIds -> TabRecord]
      /\ \A u \in TabIds : u # t => tab'[u] = tab[u]
  BY <1>3, <1>4 DEF Searched
<1>6. Shapes'
  BY <1>1, <1>5 DEF Shapes
<1>7. Served(requests[i], svc'[i], mail'[i], tab[requests[i].tab], used, disk)
  BY DrainedServed
<1>8. Awaited(i, requests[i], svc'[i], tab'[requests[i].tab], Open', cancelled')
  <2>1. ASSUME svc[i] \in {"queued", "list"} PROVE i \in SearchOf(n)
    <3>1. e.kind = "SearchBatch"
      BY <2>1, DrainedKind
    <3> QED
      BY <1>3, <1>4, <3>1 DEF SearchOf, Searched
  <2> QED
    BY <1>2, <1>5, <2>1 DEF Awaited
<1>9. ASSUME NEW u \in TabIds, Attending(u)', tab[u].req = i PROVE FALSE
  <2>1. tab[u].dir = "Loading"
    <3>1. tab'[u].dir = "Loading"
      BY <1>9 DEF Attending, Attends
    <3> QED
      BY <1>4, <1>5, <3>1 DEF Searched, SameLoad
  <2> QED
    BY <1>1, <1>9, <2>1, LoadFacts
<1>10. KeepsWork(i)
  <2>1. ASSUME NEW u \in Open
        PROVE  /\ LoadOf(tab[u]) \subseteq LoadOf(tab'[u])
               /\ SearchOf(tab[u]) \subseteq SearchOf(tab'[u]) \cup {i}
    <3>1. u \in TabIds
      BY <1>1, ShapeFacts
    <3>2. CASE u = t
      <4>1. LoadOf(n) = LoadOf(tab[t])
        BY <1>4 DEF Searched, SameLoad, LoadOf
      <4>2. SearchOf(tab[t]) = {i}
        BY <1>3 DEF SearchOf
      <4> QED
        BY <1>5, <3>2, <4>1, <4>2
    <3>3. CASE u # t
      BY <1>5, <3>1, <3>3
    <3> QED
      BY <3>2, <3>3
  <2> QED
    BY <2>1 DEF KeepsWork
<1>11. \A u \in Open' : Reported(u) => [tab |-> u, gen |-> tab[u].gen] \in notices'
  BY <1>2 DEF Reported
<1>12. used' \subseteq TabIds
  BY <1>1, ShapeFacts
<1>13. Light(i, t)
  BY <1>2, <1>3, <1>4, <1>5, <1>7, <1>8, <1>9, <1>10, <1>11, <1>12 DEF Light
<1> QED
  BY <1>4, <1>6, <1>13, LightInv

\* An event of the load that tab t waits for makes n of its record.
Takes(i, e, t, n) ==
    /\ Drains(i, e) /\ t = requests[i].tab /\ t \in Open /\ AcceptsLoad(tab[t], i)
    /\ requests[i].kind = "load" /\ tab[t].search # "Loading"
    /\ tab' = [tab EXCEPT ![t] = n]
    /\ LoadStep(n, tab[t]) /\ LineStep(n, tab[t])
    /\ n.pending.direction # "none" => JumpsTo(n, requests[i].loc)
    /\ n.dir = "Ready" => ListingOf(n.rows, n.cur, disk)
    /\ n.dir = "Loading" \/ svc[i] \notin {"queued", "list"}
    /\ n.dir = "Loading" =>
          Pace(t, n, requests[i], svc[i], Tail(mail[i]), disk, missed, notices)
    /\ Shown(t, n, disk, missed, notices)
    /\ cache' \in [Locations -> Rows]
    /\ \A l \in Locations : cache'[l] = {} \/ ListingOf(cache'[l], l, disk)

LEMMA TakesFacts ==
    ASSUME TabInv, NEW i, NEW e, NEW t, NEW n, Takes(i, e, t, n)
    PROVE  /\ t \in TabIds /\ t \in used /\ tab[t] \in TabRecord /\ i \in 1..Len(requests)
           /\ tab[t].dir = "Loading" /\ tab[t].req = i
           /\ tab'[t] = n /\ tab' \in [TabIds -> TabRecord]
           /\ \A u \in TabIds : u # t => tab'[u] = tab[u]
           /\ requests' = requests /\ cancelled' = cancelled /\ svc' = svc
           /\ notices' = notices /\ disk' = disk /\ missed' = missed
           /\ Only(i) /\ mail'[i] = Tail(mail[i])
           /\ n \in TabRecord /\ n.gen = tab[t].gen /\ n.req = i /\ n.sreq = tab[t].sreq
           /\ n.search = tab[t].search
<1>1. /\ t \in TabIds /\ t \in used /\ tab \in [TabIds -> TabRecord] /\ tab[t] \in TabRecord
  BY ShapeFacts DEF TabInv, Takes
<1>2. tab[t].dir = "Loading" /\ tab[t].req = i
  BY DEF Takes, AcceptsLoad
<1>3. n \in TabRecord /\ n.gen = tab[t].gen /\ n.req = i /\ n.sreq = tab[t].sreq
      /\ n.search = tab[t].search
  BY <1>2 DEF Takes, LoadStep, SameSearch
<1>4. /\ tab'[t] = n /\ tab' \in [TabIds -> TabRecord]
      /\ \A u \in TabIds : u # t => tab'[u] = tab[u]
  BY <1>1, <1>3 DEF Takes
<1>5. /\ requests' = requests /\ cancelled' = cancelled /\ svc' = svc
      /\ notices' = notices /\ disk' = disk /\ missed' = missed
      /\ Only(i) /\ mail'[i] = Tail(mail[i]) /\ i \in 1..Len(requests)
  BY DEF Takes, Drains
<1> QED
  BY <1>1, <1>2, <1>3, <1>4, <1>5

LEMMA TakesMonotone ==
    ASSUME TabInv, NEW i, NEW e, NEW t, NEW n, Takes(i, e, t, n), used' = used
    PROVE  Monotone
<1>1. /\ tab'[t].gen = tab[t].gen /\ \A u \in TabIds : u # t => tab'[u] = tab[u]
      /\ requests' = requests /\ cancelled' = cancelled /\ disk' = disk
  BY TakesFacts
<1>2. requests \in Seq(Request) /\ disk \in Disks
  BY ShapeFacts DEF TabInv
<1>3. Extends(requests, requests') /\ Later(disk, disk')
  BY <1>1, <1>2, ExtendsSame, LaterSame
<1>4. ASSUME NEW u \in TabIds PROVE tab[u].gen <= tab'[u].gen
  <2>1. tab'[u].gen = tab[u].gen
    BY <1>1
  <2>2. tab[u].gen \in Nat
    BY ShapeFacts, TabFacts, TabsAssumption DEF TabInv
  <2> QED
    BY <2>1, <2>2
<1> QED
  BY <1>1, <1>3, <1>4 DEF Monotone

LEMMA TakesLinked ==
    ASSUME TabInv, Shapes', NEW i, NEW e, NEW t, NEW n, Takes(i, e, t, n), used' = used
    PROVE  TabsLinked'
<1>1. Shapes /\ TabsLinked
  BY DEF TabInv
<1>2. /\ t \in TabIds /\ t \in used /\ tab[t].dir = "Loading" /\ tab[t].req = i
      /\ tab'[t] = n /\ \A u \in TabIds : u # t => tab'[u] = tab[u]
      /\ requests' = requests /\ disk' = disk
      /\ n.gen = tab[t].gen /\ n.req = i /\ n.sreq = tab[t].sreq /\ n.search = tab[t].search
  BY TakesFacts
<1>3. Linked(t, tab[t], requests, used, disk)
  BY <1>1, <1>2 DEF TabsLinked
<1>4. /\ n.pending.direction # "none" => JumpsTo(n, requests[i].loc)
      /\ n.dir = "Ready" => ListingOf(n.rows, n.cur, disk)
      /\ n.search # "Loading"
  BY <1>2 DEF Takes
<1>5. Linked(t, n, requests, used, disk)
  BY <1>2, <1>3, <1>4 DEF Linked
<1> QED
  BY <1>1, <1>2, <1>5, TakesMonotone, LinkedNext

LEMMA TakesServed ==
    ASSUME TabInv, Shapes', NEW i, NEW e, NEW t, NEW n, Takes(i, e, t, n),
           used' = used, Open' = Open
    PROVE  RequestsServed' /\ WorkAwaited'
<1>1. Shapes /\ RequestsServed /\ WorkAwaited
  BY DEF TabInv
<1>2. /\ t \in TabIds /\ i \in 1..Len(requests) /\ tab[t].dir = "Loading" /\ tab[t].req = i
      /\ tab'[t] = n /\ \A u \in TabIds : u # t => tab'[u] = tab[u]
      /\ requests' = requests /\ disk' = disk /\ Only(i) /\ svc' = svc /\ cancelled' = cancelled
      /\ n.gen = tab[t].gen /\ n.req = i /\ n.sreq = tab[t].sreq /\ n.search = tab[t].search
  BY TakesFacts
<1>3. /\ Drains(i, e) /\ t = requests[i].tab /\ t \in Open /\ requests[i].kind = "load"
      /\ n.dir = "Loading" \/ svc[i] \notin {"queued", "list"}
  BY DEF Takes
<1>4. Served(requests[i], svc'[i], mail'[i], n, used, disk)
  <2>1. Served(requests[i], svc'[i], mail'[i], tab[t], used, disk)
    BY <1>3, DrainedServed
  <2> QED
    BY <1>2, <2>1 DEF Served
<1>5. RequestsServed'
  BY <1>1, <1>2, <1>3, <1>4, TakesMonotone, ServedNext
<1>6. Awaited(i, requests[i], svc[i], n, Open, cancelled)
  BY <1>2, <1>3 DEF Awaited, LoadOf
<1>7. KeepsWork(i)
  <2>1. ASSUME NEW u \in Open
        PROVE  /\ LoadOf(tab[u]) \subseteq LoadOf(tab'[u]) \cup {i}
               /\ SearchOf(tab[u]) \subseteq SearchOf(tab'[u])
    <3>1. u \in TabIds
      BY <1>1, ShapeFacts
    <3>2. CASE u = t
      <4>1. SearchOf(n) = SearchOf(tab[t]) /\ LoadOf(tab[t]) = {i}
        BY <1>2 DEF SearchOf, LoadOf
      <4> QED
        BY <1>2, <3>2, <4>1
    <3>3. CASE u # t
      BY <1>2, <3>1, <3>3
    <3> QED
      BY <3>2, <3>3
  <2> QED
    BY <2>1 DEF KeepsWork
<1>8. WorkAwaited'
  BY <1>1, <1>2, <1>3, <1>6, <1>7, TakesMonotone, AwaitedNext
<1> QED
  BY <1>5, <1>8

LEMMA TakesKeeps ==
    ASSUME TabInv, NEW i, NEW e, NEW t, NEW n, Takes(i, e, t, n), NEW u \in Open, u # t
    PROVE  Kept(u)
<1>1. u \in TabIds
  BY ShapeFacts DEF TabInv
<1>2. tab'[u] = tab[u] /\ notices' = notices /\ disk' = disk /\ missed' = missed
  BY <1>1, TakesFacts
<1> QED
  BY <1>2 DEF Kept, SameTab, SameLoad, Reported

LEMMA TakesInStep ==
    ASSUME TabInv, Shapes', NEW i, NEW e, NEW t, NEW n, Takes(i, e, t, n),
           used' = used, Open' = Open
    PROVE  LoadsProgress' /\ ComingFresh' /\ ShownFresh'
<1>1. Shapes /\ TabsLinked /\ LoadsProgress /\ ComingFresh /\ ShownFresh
  BY DEF TabInv
<1>2. /\ t \in TabIds /\ tab'[t] = n /\ \A u \in TabIds : u # t => tab'[u] = tab[u]
      /\ requests' = requests /\ svc' = svc /\ notices' = notices /\ disk' = disk
      /\ missed' = missed /\ Only(i) /\ mail'[i] = Tail(mail[i]) /\ n.req = i
      /\ cancelled' = cancelled
  BY TakesFacts
<1>3. /\ t = requests[i].tab
      /\ n.dir = "Loading" =>
            Pace(t, n, requests[i], svc[i], Tail(mail[i]), disk, missed, notices)
      /\ Shown(t, n, disk, missed, notices)
  BY DEF Takes
<1>4. ASSUME NEW u \in TabIds, Attending(u)' PROVE InStep(u)'
  <2>1. u \in Open /\ tab'[u].dir = "Loading"
    BY <1>4 DEF Attending, Attends
  <2>2. CASE u = t
    <3>1. Pace(t, n, requests[i], svc[i], Tail(mail[i]), disk, missed, notices)
      BY <1>2, <1>3, <2>1, <2>2
    <3> QED
      BY <1>2, <2>2, <3>1 DEF Pace, InStep
  <2>3. CASE u # t
    <3>1. tab'[u] = tab[u]
      BY <1>2, <2>3
    <3>2. requests[tab[u].req].tab = u
      BY <1>1, <2>1, <3>1, LoadFacts
    <3>3. tab[u].req # i
      BY <1>3, <2>3, <3>2
    <3>4. Kept(u)
      BY <2>1, <2>3, TakesKeeps
    <3> QED
      BY <1>1, <1>2, <1>4, <3>3, <3>4, TakesMonotone, LoadKept
  <2> QED
    BY <2>2, <2>3
<1>5. LoadsProgress' /\ ComingFresh'
  BY <1>4, InStepParts
<1>6. ASSUME NEW u \in Open PROVE Shown(u, tab'[u], disk', missed', notices')
  <2>1. CASE u = t
    BY <1>2, <1>3, <2>1
  <2>2. CASE u # t
    BY <1>1, <2>2, TakesKeeps, ShownKept
  <2> QED
    BY <2>1, <2>2
<1> QED
  BY <1>5, <1>6 DEF ShownFresh

LEMMA TakesInv ==
    ASSUME TabInv, NEW i, NEW e, NEW t, NEW n, Takes(i, e, t, n),
           WindowShape', Open' = Open, used' = used, ServiceShape', FolderShape'
    PROVE  TabInv'
<1>1. Shapes'
  BY TakesFacts DEF Shapes, Takes
<1>2. CacheListed'
  <2>1. disk' = disk
    BY TakesFacts
  <2>2. \A l \in Locations : cache'[l] = {} \/ ListingOf(cache'[l], l, disk)
    BY DEF Takes
  <2> QED
    BY <2>1, <2>2 DEF CacheListed
<1> QED
  BY <1>1, <1>2, TakesLinked, TakesServed, TakesInStep DEF TabInv

-----------------------------------------------------------------------------
(* The events of a load                                                    *)

\* The event that is drained belongs to the load that tab t waits for.
Delivers(i, e, t) ==
    /\ Drains(i, e) /\ t = requests[i].tab /\ t \in Open /\ AcceptsLoad(tab[t], i)
    /\ requests[i].kind = "load" /\ tab[t].search # "Loading"
    /\ tab[t].gen = requests[i].gen

\* What the mailbox says of the tab when its load is delivered.
LEMMA DeliverFacts ==
    ASSUME TabInv, NEW i, NEW e, NEW t, Delivers(i, e, t)
    PROVE  /\ i \in 1..Len(requests) /\ t \in TabIds /\ tab[t] \in TabRecord
           /\ tab[t].dir = "Loading" /\ tab[t].req = i
           /\ mail[i] \in Seq(EventRecord) /\ mail[i] # <<>> /\ Head(mail[i]) = e
           /\ mail[i][1] = e /\ Len(mail[i]) \in Nat \ {0}
           /\ e \in EventRecord /\ disk \in Disks
           /\ Resolve[requests[i].loc] \in Canon /\ requests[i].loc \in Locations
           /\ LoadBox(Resolve[requests[i].loc], svc[i], mail[i], disk)
           /\ Pace(t, tab[t], requests[i], svc[i], mail[i], disk, missed, notices)
           /\ tab[t].pending.direction # "none" => JumpsTo(tab[t], requests[i].loc)
<1>1. Shapes /\ TabsLinked
  BY DEF TabInv
<1>2. i \in 1..Len(requests) /\ mail[i] # <<>> /\ Head(mail[i]) = e /\ mail[i][1] = e
      /\ e \in EventRecord
  BY DEF Delivers, Drains
<1>3. t \in TabIds /\ tab[t] \in TabRecord /\ disk \in Disks
  BY <1>1, ShapeFacts DEF Delivers
<1>4. tab[t].dir = "Loading" /\ tab[t].req = i
  BY DEF Delivers, AcceptsLoad
<1>5. mail[i] \in Seq(EventRecord) /\ LoadBox(Resolve[requests[i].loc], svc[i], mail[i], disk)
  BY <1>2, ServiceFacts DEF Delivers
<1>6. Attending(t)
  BY <1>4 DEF Attending, Attends, Delivers, AcceptsLoad
<1>7. Pace(t, tab[t], requests[i], svc[i], mail[i], disk, missed, notices)
  BY <1>2, <1>3, <1>4, <1>6, ServiceFacts
<1>8. Resolve[requests[i].loc] \in Canon /\ requests[i].loc \in Locations
  BY <1>1, <1>2, RequestFacts
<1>9. tab[t].pending.direction # "none" => JumpsTo(tab[t], requests[i].loc)
  BY <1>1, <1>3, <1>4 DEF TabsLinked, Linked
<1>10. Len(mail[i]) \in Nat \ {0}
  BY <1>2, <1>5, TailFacts
<1> QED
  BY <1>2, <1>3, <1>4, <1>5, <1>7, <1>8, <1>9, <1>10

\* The destination of a jump is an entry of the history, and so canonical.
LEMMA JumpCanon ==
    ASSUME NEW tb \in TabRecord, NEW l, JumpsTo(tb, l), tb.pending.direction # "none"
    PROVE  l \in Canon
<1>1. tb.back \in Seq(Canon) /\ tb.fwd \in Seq(Canon) /\ tb.pending \in Jump
  BY HistoryTyped, TabFacts
<1>2. tb.pending.direction \in {"back", "forward"}
  BY <1>1 DEF Jump
<1>3. CASE tb.pending.direction = "back"
  <2>1. tb.pending.steps \in 1..Len(tb.back) /\ l = tb.back[Len(tb.back) - tb.pending.steps + 1]
    BY <1>3 DEF JumpsTo
  <2>2. Len(tb.back) - tb.pending.steps + 1 \in 1..Len(tb.back)
    BY <1>1, <2>1
  <2> QED
    BY <1>1, <2>1, <2>2
<1>4. CASE tb.pending.direction = "forward"
  <2>1. tb.pending.steps \in 1..Len(tb.fwd) /\ l = tb.fwd[Len(tb.fwd) - tb.pending.steps + 1]
    BY <1>4 DEF JumpsTo
  <2>2. Len(tb.fwd) - tb.pending.steps + 1 \in 1..Len(tb.fwd)
    BY <1>1, <2>1
  <2> QED
    BY <1>1, <2>1, <2>2
<1> QED
  BY <1>2, <1>3, <1>4

\* Events other than DirectoryFinished leave the cache alone.
LEMMA CacheKept ==
    ASSUME TabInv, NEW i, NEW e, NEW n, e.kind # "DirectoryFinished", cache' = Cached(i, e, n)
    PROVE  /\ cache' \in [Locations -> Rows]
           /\ \A l \in Locations : cache'[l] = {} \/ ListingOf(cache'[l], l, disk)
<1>1. cache' = cache
  BY DEF Cached
<1>2. cache \in [Locations -> Rows] /\ CacheListed
  BY DEF TabInv, Shapes
<1> QED
  BY <1>1, <1>2 DEF CacheListed

\* LocationResolved: the history moves; what is listed and what is still to be
\* listed stay.
LEMMA ResolvedTakes ==
    ASSUME TabInv, NEW i, NEW e, NEW t, Delivers(i, e, t), e.kind = "LocationResolved",
           NEW n, n = Resolved(tab[t], e.loc), tab' = [tab EXCEPT ![t] = n],
           cache' = Cached(i, e, n)
    PROVE  Takes(i, e, t, n)
<1> DEFINE o == tab[t]
           r == requests[i]
           l == Resolve[r.loc]
           box == mail[i]
           stage == svc[i]
<1>1. /\ t \in TabIds /\ o \in TabRecord /\ o.dir = "Loading" /\ o.req = i
      /\ box \in Seq(EventRecord) /\ box # <<>> /\ Head(box) = e /\ box[1] = e
      /\ Len(box) \in Nat \ {0} /\ l \in Canon /\ r.loc \in Locations
      /\ LoadBox(l, stage, box, disk)
      /\ Pace(t, o, r, stage, box, disk, missed, notices)
      /\ o.pending.direction # "none" => JumpsTo(o, r.loc)
  BY DeliverFacts
<1>2. e.loc = l /\ stage # "queued"
  <2>1. 1 \in 1..Len(box)
    BY <1>1
  <2> HIDE DEF box, l, stage
  <2>2. box[1].loc = l
    BY <1>1, <2>1 DEF LoadBox
  <2>3. stage # "queued"
    <3>1. SUFFICES ASSUME stage = "queued" PROVE FALSE
      OBVIOUS
    <3> QED
      BY <1>1, <3>1 DEF LoadBox
  <2> QED
    BY <1>1, <2>2, <2>3
<1>3. JumpsTo(o, l)
  <2>1. CASE o.pending.direction = "none"
    BY <2>1 DEF JumpsTo
  <2>2. CASE o.pending.direction # "none"
    <3>1. r.loc \in Canon
      BY <1>1, <2>2, JumpCanon
    <3>2. l = r.loc
      BY <3>1 DEF Canon
    <3> QED
      BY <1>1, <2>2, <3>2
  <2> QED
    BY <2>1, <2>2
<1>4. Arrived(n, o, l)
  BY <1>1, <1>2, <1>3, ResolvedArrives
<1>5. /\ LoadStep(n, o) /\ LineStep(n, o) /\ n.pending.direction = "none" /\ n.cur = l
      /\ n.dir = "Loading" /\ n.rows = o.rows /\ n.seen = o.seen /\ n.gen = o.gen
  BY <1>1, <1>4 DEF Arrived, LoadStep
<1>6. Pace(t, n, r, stage, Tail(box), disk, missed, notices)
  <2> HIDE DEF box, l, stage, o, r
  <2>1. Has(Tail(box), "Failed") => Has(box, "Failed")
    BY <1>1, HasTail
  <2>2. Has(Tail(box), "DirectoryBatch") <=> Has(box, "DirectoryBatch")
    BY <1>1, HasTail
  <2>2a. Has(box, "Failed") => Has(Tail(box), "Failed")
    BY <1>1, HasTail
  <2>3. ToList(stage, Tail(box)) <=> ToList(stage, box)
    BY <2>2 DEF ToList
  <2>4. Progress(n, r, stage, Tail(box), disk)
    <3>1. Progress(o, r, stage, box, disk)
      BY <1>1 DEF Pace
    <3>2. l = Resolve[r.loc]
      BY DEF l
    <3> QED
      BY <1>5, <2>1, <2>2a, <2>3, <3>1, <3>2 DEF Progress
  <2>5. Coming(t, n, r, stage, Tail(box), disk, missed, notices)
    <3>1. Coming(t, o, r, stage, box, disk, missed, notices)
      BY <1>1 DEF Pace
    <3>2. ASSUME NEW k \in 1..Len(Tail(box)), Tail(box)[k].kind = "DirectoryBatch"
          PROVE  Covered(t, n.gen, Resolve[r.loc], Tail(box)[k].rows, disk, missed, notices)
      <4>1. k + 1 \in 1..Len(box) /\ Tail(box)[k] = box[k + 1]
        BY <1>1, TailFacts
      <4> QED
        BY <1>5, <3>1, <3>2, <4>1 DEF Coming
    <3> QED
      BY <1>5, <2>1, <2>2a, <2>3, <3>1, <3>2 DEF Coming
  <2> QED
    BY <2>4, <2>5 DEF Pace
<1>7. Shown(t, n, disk, missed, notices)
  BY <1>5 DEF Shown
<1>8. /\ cache' \in [Locations -> Rows]
      /\ \A f \in Locations : cache'[f] = {} \/ ListingOf(cache'[f], f, disk)
  BY CacheKept
<1> QED
  BY <1>5, <1>6, <1>7, <1>8 DEF Takes, Delivers

\* DirectoryBatch: the rows of the folder are taken over, and nothing is left
\* to list.
LEMMA BatchTakes ==
    ASSUME TabInv, NEW i, NEW e, NEW t, Delivers(i, e, t), e.kind = "DirectoryBatch",
           NEW n, n = Merged(tab[t], e.rows), tab' = [tab EXCEPT ![t] = n],
           cache' = Cached(i, e, n)
    PROVE  Takes(i, e, t, n)
<1> DEFINE o == tab[t]
           r == requests[i]
           l == Resolve[r.loc]
           box == mail[i]
           stage == svc[i]
<1>1. /\ t \in TabIds /\ o \in TabRecord /\ o.dir = "Loading" /\ o.req = i
      /\ box \in Seq(EventRecord) /\ box # <<>> /\ Head(box) = e /\ box[1] = e
      /\ Len(box) \in Nat \ {0} /\ e \in EventRecord
      /\ LoadBox(l, stage, box, disk)
      /\ Pace(t, o, r, stage, box, disk, missed, notices)
      /\ o.pending.direction # "none" => JumpsTo(o, r.loc)
  BY DeliverFacts
<1>2. /\ ListingOf(e.rows, l, disk) /\ stage \notin {"queued", "list"}
      /\ e.rows \in Rows
  <2>1. 1 \in 1..Len(box)
    BY <1>1
  <2> HIDE DEF box, l, stage
  <2>2. ListingOf(box[1].rows, l, disk) /\ stage \notin {"queued", "list"}
    BY <1>1, <2>1 DEF LoadBox
  <2>3. e.rows \in Rows
    BY <1>1 DEF EventRecord
  <2> QED
    BY <1>1, <2>2, <2>3
<1>3. Has(box, "DirectoryBatch")
  BY <1>1, HasTail
<1>4. /\ LoadStep(n, o) /\ SameHistory(n, o) /\ n.pending = o.pending /\ n.dir = "Loading"
      /\ n.rows = o.rows \cup e.rows /\ n.seen = o.seen \cup e.rows /\ n.gen = o.gen
  BY <1>1, <1>2, MergedFields DEF LoadStep
<1>5. o.seen = {}
  BY <1>1, <1>3 DEF Pace, Progress, ToList
<1>6. ~Has(Tail(box), "DirectoryBatch") /\ ~Has(Tail(box), "LocationResolved")
  <2> HIDE DEF box, l, stage
  <2>1. ASSUME NEW k \in 1..Len(Tail(box)), Tail(box)[k].kind = "DirectoryBatch" PROVE FALSE
    <3>1. k + 1 \in 1..Len(box) /\ Tail(box)[k] = box[k + 1] /\ 1 \in 1..((k + 1) - 1)
      BY <1>1, TailFacts
    <3>2. box[1].kind = "LocationResolved"
      BY <1>1, <2>1, <3>1 DEF LoadBox
    <3> QED
      BY <1>1, <3>2
  <2>2. ~Has(Tail(box), "LocationResolved")
    BY <1>1, TailBox
  <2> QED
    BY <2>1, <2>2 DEF Has
<1>7. ~ToList(stage, Tail(box)) /\ ~Resolving(stage, Tail(box))
  BY <1>2, <1>6 DEF ToList, Resolving
<1>8. Has(box, "Failed") => Has(Tail(box), "Failed")
  BY <1>1, HasTail
<1>9. Has(box, "LocationResolved") => Has(Tail(box), "LocationResolved")
  BY <1>1, HasTail
<1>10. Pace(t, n, r, stage, Tail(box), disk, missed, notices)
  <2>1. ~Resolving(stage, box)
    BY <1>2, <1>6, <1>9 DEF Resolving
  <2>2. Progress(o, r, stage, box, disk) /\ Coming(t, o, r, stage, box, disk, missed, notices)
    BY <1>1 DEF Pace
  <2>3. Covered(t, o.gen, l, e.rows, disk, missed, notices)
    <3>1. 1 \in 1..Len(box)
      BY <1>1
    <3> QED
      BY <1>1, <2>2, <3>1 DEF Coming
  <2>4. n.seen = e.rows
    BY <1>4, <1>5
  <2> HIDE DEF box, stage
  <2>5. Progress(n, r, stage, Tail(box), disk)
    BY <1>2, <1>4, <1>7, <1>8, <2>1, <2>2, <2>4 DEF Progress, SameHistory
  <2>6. Coming(t, n, r, stage, Tail(box), disk, missed, notices)
    <3>1. \A k \in 1..Len(Tail(box)) : Tail(box)[k].kind # "DirectoryBatch"
      BY <1>6 DEF Has
    <3> QED
      BY <1>4, <2>3, <2>4, <3>1 DEF Coming
  <2> QED
    BY <2>5, <2>6 DEF Pace
<1>11. Shown(t, n, disk, missed, notices)
  BY <1>4 DEF Shown
<1>12. /\ cache' \in [Locations -> Rows]
       /\ \A f \in Locations : cache'[f] = {} \/ ListingOf(cache'[f], f, disk)
  BY CacheKept
<1>13. n.pending.direction # "none" => JumpsTo(n, r.loc)
  BY <1>1, <1>4 DEF SameHistory, JumpsTo
<1>14. LineStep(n, o)
  BY <1>4, SameTimeline DEF LineStep
<1> QED
  BY <1>4, <1>10, <1>11, <1>12, <1>13, <1>14 DEF Takes, Delivers

\* DirectoryFinished: what has been listed is shown and cached.
LEMMA FinishedTakes ==
    ASSUME TabInv, NEW i, NEW e, NEW t, Delivers(i, e, t), e.kind = "DirectoryFinished",
           NEW n, n = Finished(tab[t]), tab' = [tab EXCEPT ![t] = n],
           cache' = Cached(i, e, n)
    PROVE  Takes(i, e, t, n)
<1> DEFINE o == tab[t]
           r == requests[i]
           l == Resolve[r.loc]
           box == mail[i]
           stage == svc[i]
<1>1. /\ t \in TabIds /\ o \in TabRecord /\ o.dir = "Loading" /\ o.req = i
      /\ box \in Seq(EventRecord) /\ box # <<>> /\ Head(box) = e /\ box[1] = e
      /\ Len(box) \in Nat \ {0} /\ l \in Canon
      /\ LoadBox(l, stage, box, disk)
      /\ Pace(t, o, r, stage, box, disk, missed, notices)
  BY DeliverFacts
<1>2. /\ stage \notin {"queued", "list"} /\ Len(box) = 1
  <2>1. 1 \in 1..Len(box)
    BY <1>1
  <2> HIDE DEF box, l, stage
  <2> QED
    BY <1>1, <2>1 DEF LoadBox
<1>3. ~Has(box, "Failed") /\ ~Has(box, "DirectoryBatch") /\ ~Has(box, "LocationResolved")
  <2> HIDE DEF box, l, stage
  <2>1. \A k \in 1..Len(box) : k = 1
    BY <1>2
  <2> QED
    BY <1>1, <2>1 DEF Has
<1>4. ~ToList(stage, box) /\ ~Resolving(stage, box)
  BY <1>2, <1>3 DEF ToList, Resolving
<1>5. /\ LoadStep(n, o) /\ SameHistory(n, o) /\ n.pending = o.pending /\ n.dir = "Ready"
      /\ n.rows = o.rows \cap o.seen /\ n.gen = o.gen
  BY <1>1, FinishedFields DEF LoadStep
<1>6. /\ o.cur = l /\ o.pending.direction = "none" /\ ListingOf(o.seen, l, disk)
      /\ o.seen \subseteq o.rows /\ Covered(t, o.gen, l, o.seen, disk, missed, notices)
  BY <1>1, <1>3, <1>4 DEF Pace, Progress, Coming
<1>7. n.rows = o.seen /\ n.cur = l /\ n.pending.direction = "none"
  BY <1>5, <1>6 DEF SameHistory
<1>8. ListingOf(n.rows, l, disk) /\ Covered(t, n.gen, l, n.rows, disk, missed, notices)
  BY <1>5, <1>6, <1>7
<1>9. Shown(t, n, disk, missed, notices)
  BY <1>7, <1>8 DEF Shown
<1>10. /\ cache' \in [Locations -> Rows]
       /\ \A f \in Locations : cache'[f] = {} \/ ListingOf(cache'[f], f, disk)
  <2>1. cache \in [Locations -> Rows] /\ CacheListed
    BY DEF TabInv, Shapes
  <2>2. n.rows \in Rows /\ l \in Locations
    <3>1. n \in TabRecord
      BY <1>5 DEF LoadStep
    <3> QED
      BY <1>1, <3>1, TabFacts DEF Canon
  <2>3. cache' = [cache EXCEPT ![l] = n.rows]
    BY <1>6 DEF Cached, Delivers
  <2> HIDE DEF l
  <2> QED
    BY <1>8, <2>1, <2>2, <2>3 DEF CacheListed
<1>11. LineStep(n, o)
  BY <1>5, SameTimeline DEF LineStep
<1> QED
  BY <1>2, <1>5, <1>7, <1>8, <1>9, <1>10, <1>11 DEF Takes, Delivers

\* Failed: the tab shows the error, and nothing of the load is left.
LEMMA FailedTakes ==
    ASSUME TabInv, NEW i, NEW e, NEW t, Delivers(i, e, t), e.kind = "Failed",
           NEW n, n = Failed(tab[t]), tab' = [tab EXCEPT ![t] = n],
           cache' = Cached(i, e, n)
    PROVE  Takes(i, e, t, n)
<1> DEFINE o == tab[t]
           box == mail[i]
           l == Resolve[requests[i].loc]
<1>1. /\ o \in TabRecord /\ box \in Seq(EventRecord) /\ box[1] = e
      /\ Len(box) \in Nat \ {0} /\ LoadBox(l, svc[i], box, disk)
  BY DeliverFacts
<1>2. svc[i] \notin {"queued", "list"}
  <2>1. 1 \in 1..Len(box)
    BY <1>1
  <2> HIDE DEF box, l
  <2> QED
    BY <1>1, <2>1 DEF LoadBox
<1>3. /\ LoadStep(n, o) /\ SameHistory(n, o) /\ n.pending = NoPending /\ n.dir = "Error"
  BY <1>1, FailedFields
<1>4. n.pending.direction = "none"
  BY <1>3 DEF NoPending
<1>5. Shown(t, n, disk, missed, notices)
  BY <1>3 DEF Shown
<1>6. /\ cache' \in [Locations -> Rows]
      /\ \A f \in Locations : cache'[f] = {} \/ ListingOf(cache'[f], f, disk)
  BY CacheKept
<1>7. LineStep(n, o)
  BY <1>3, SameTimeline DEF LineStep
<1> QED
  BY <1>2, <1>3, <1>4, <1>5, <1>6, <1>7 DEF Takes, Delivers

\* No step but a cut changes the line of a tab.
Lines == \A u \in Open : LineStep(tab'[u], tab[u])

LEMMA LinesOf ==
    ASSUME Shapes, NEW t, NEW n, \A u \in TabIds : u # t => tab'[u] = tab[u],
           tab'[t] = n, t \in Open => LineStep(n, tab[t])
    PROVE  Lines
<1>1. ASSUME NEW u \in Open PROVE LineStep(tab'[u], tab[u])
  <2>1. u \in TabIds
    BY ShapeFacts
  <2>2. CASE u = t
    BY <2>2
  <2>3. CASE u # t
    BY <2>1, <2>3 DEF LineStep
  <2> QED
    BY <2>2, <2>3
<1> QED
  BY <1>1 DEF Lines

LEMMA SameLines ==
    ASSUME tab' = tab
    PROVE  Lines
BY DEF Lines, LineStep

LEMMA DeliveredTakes ==
    ASSUME TabInv, NEW i, NEW e, NEW t, Delivers(i, e, t), e.kind \in LoadEvents \cup {"Failed"},
           NEW n, n = AppliedToLoad(tab[t], e), tab' = [tab EXCEPT ![t] = n],
           cache' = Cached(i, e, n)
    PROVE  Takes(i, e, t, n)
<1>1. CASE e.kind = "LocationResolved"
  <2>1. n = Resolved(tab[t], e.loc)
    BY <1>1 DEF AppliedToLoad
  <2> QED
    BY <1>1, <2>1, ResolvedTakes
<1>2. CASE e.kind = "DirectoryBatch"
  <2>1. n = Merged(tab[t], e.rows)
    BY <1>2 DEF AppliedToLoad
  <2> QED
    BY <1>2, <2>1, BatchTakes
<1>3. CASE e.kind = "DirectoryFinished"
  <2>1. n = Finished(tab[t])
    BY <1>3 DEF AppliedToLoad
  <2> QED
    BY <1>3, <2>1, FinishedTakes
<1>4. CASE e.kind = "Failed"
  <2>1. n = Failed(tab[t])
    BY <1>4 DEF AppliedToLoad
  <2> QED
    BY <1>4, <2>1, FailedTakes
<1> QED
  BY <1>1, <1>2, <1>3, <1>4 DEF LoadEvents

LEMMA DrainInv ==
    ASSUME TabInv, NEW i \in 1..Len(requests), Drain(i), UNCHANGED scenario
    PROVE  TabInv' /\ Lines
<1> DEFINE e == Head(mail[i])
           t == requests[i].tab
           n == Applied(tab[t], i, e)
<1>1. Shapes
  BY DEF TabInv
<1>2. /\ Drains(i, e) /\ WindowShape' /\ Open' = Open /\ used' = used
      /\ ServiceShape' /\ FolderShape'
  BY <1>1, DrainFacts
<1>3. IF Gate(i, e.kind) THEN tab' = [tab EXCEPT ![t] = n] /\ cache' = Cached(i, e, n)
                         ELSE tab' = tab /\ cache' = cache
  BY DEF Drain
<1> HIDE DEF n, e
<1>4. CASE ~Gate(i, e.kind)
  BY <1>2, <1>3, <1>4, RefusedInv, SameLines
<1>5. CASE Gate(i, e.kind)
  <2>1. /\ t \in Open /\ t \in TabIds /\ tab[t] \in TabRecord
        /\ i \notin cancelled /\ tab[t].gen = requests[i].gen
        /\ \/ /\ requests[i].kind = "load" /\ e.kind \in LoadEvents \cup {"Failed"}
              /\ AcceptsLoad(tab[t], i) /\ tab[t].search # "Loading"
              /\ Applied(tab[t], i, e) = AppliedToLoad(tab[t], e)
           \/ /\ requests[i].kind = "search" /\ e.kind \notin LoadEvents
              /\ AcceptsSearch(tab[t], i)
              /\ Applied(tab[t], i, e) = AppliedToSearch(tab[t], e)
    BY <1>2, <1>5, GateFacts
  <2>2. tab' = [tab EXCEPT ![t] = n] /\ cache' = Cached(i, e, n)
    BY <1>3, <1>5
  <2>3. tab \in [TabIds -> TabRecord]
    BY <1>1, ShapeFacts
  <2>4. tab'[t] = n /\ \A u \in TabIds : u # t => tab'[u] = tab[u]
    BY <2>1, <2>2, <2>3
  <2>5. CASE requests[i].kind = "load"
    <3>1. /\ e.kind \in LoadEvents \cup {"Failed"} /\ AcceptsLoad(tab[t], i)
          /\ tab[t].search # "Loading" /\ n = AppliedToLoad(tab[t], e)
      BY <2>1, <2>5 DEF n
    <3>2. Delivers(i, e, t)
      BY <1>2, <2>1, <2>5, <3>1 DEF Delivers
    <3>3. Takes(i, e, t, n)
      BY <2>2, <3>1, <3>2, DeliveredTakes
    <3>4. LineStep(n, tab[t])
      BY <3>3 DEF Takes
    <3>5. TabInv'
      BY <1>2, <3>3, TakesInv
    <3> QED
      BY <1>1, <2>4, <3>4, <3>5, LinesOf
  <2>6. CASE requests[i].kind = "search"
    <3>1. /\ e.kind \notin LoadEvents /\ AcceptsSearch(tab[t], i)
          /\ n = AppliedToSearch(tab[t], e)
      BY <2>1, <2>6 DEF n
    <3>2. cache' = cache
      BY <2>2, <3>1 DEF Cached, LoadEvents
    <3>3. TabInv' /\ Searched(n, tab[t])
      BY <1>2, <2>1, <2>2, <2>6, <3>1, <3>2, SearchEventInv
    <3>4. LineStep(n, tab[t])
      BY <3>3, SameTimeline DEF Searched, LineStep
    <3> QED
      BY <1>1, <2>4, <3>3, <3>4, LinesOf
  <2> QED
    BY <2>1, <2>5, <2>6
<1> QED
  BY <1>4, <1>5

-----------------------------------------------------------------------------
(* Every step                                                              *)

\* A report of another generation, or of a tab that is closed, is dropped.
LEMMA DroppedInv ==
    ASSUME TabInv, NEW n \in notices, DrainNotice(n), ~(n.tab \in Open /\ tab[n.tab].gen = n.gen),
           UNCHANGED scenario
    PROVE  TabInv' /\ tab' = tab
<1>1. Shapes /\ TabsLinked
  BY DEF TabInv
<1>2. /\ UNCHANGED <<tab, requests, cancelled, svc, mail, watch, disk, missed, cache>>
      /\ UNCHANGED uiVars /\ notices' = notices \ {n}
  BY DEF DrainNotice
<1>3. WindowShape' /\ Open' = Open /\ used' = used
  BY <1>1, <1>2, SameWindow
<1>4. Shapes'
  <2>1. ServiceShape'
    BY <1>1, <1>2 DEF Shapes, ServiceShape
  <2>2. FolderShape'
    BY <1>1, <1>2 DEF Shapes, FolderShape
  <2> QED
    BY <1>1, <1>2, <1>3, <2>1, <2>2 DEF Shapes
<1> DEFINE i == Len(requests) + 1
<1>5. i \notin 1..Len(requests) /\ \A u \in TabIds : tab[u].req # i
  BY <1>1, NoRequest
<1> HIDE DEF i
<1>6. Only(i) /\ KeepsWork(i)
  BY <1>2, <1>3 DEF Only, KeepsWork
<1>7. PICK t : t \notin TabIds
  <2> DEFINE t == CHOOSE x : x \notin TabIds
  <2> QED
    BY NoSetContainsEverything
<1>8. ASSUME NEW u \in Open', Reported(u)
      PROVE  [tab |-> u, gen |-> tab[u].gen] \in notices'
  <2>1. [tab |-> u, gen |-> tab[u].gen] \in notices
    BY <1>8 DEF Reported
  <2>2. u \in Open
    BY <1>3
  <2>3. [tab |-> u, gen |-> tab[u].gen] # n
    BY <2>2
  <2> QED
    BY <1>2, <2>1, <2>3
<1>9. used' \subseteq TabIds
  BY <1>1, <1>3, ShapeFacts
<1>10. Light(i, t)
  BY <1>2, <1>3, <1>5, <1>6, <1>7, <1>8, <1>9 DEF Light
<1> QED
  BY <1>2, <1>4, <1>10, LightInv

\* A load that begins keeps the line of its tab.
LEMMA BeginsInv ==
    ASSUME TabInv, NEW t, NEW o, NEW m, NEW l, NEW stage, BeginsLoad(t, o, m, l, stage),
           WindowShape'
    PROVE  TabInv' /\ Lines
<1>1. Shapes /\ TabsLinked
  BY DEF TabInv
<1>2. tab'[t] = m /\ \A u \in TabIds : u # t => tab'[u] = tab[u]
  BY <1>1, BeginFacts
<1>3. t \in Open => LineStep(m, tab[t])
  <2>1. t \in Open => t \in used
    BY <1>1, ShapeFacts
  <2> QED
    BY <2>1 DEF BeginsLoad, Outcome
<1> QED
  BY <1>1, <1>2, <1>3, BeginInv, LinesOf

LEMMA NoticeInv ==
    ASSUME TabInv, NEW n \in notices, DrainNotice(n), UNCHANGED scenario
    PROVE  TabInv' /\ Lines
<1>1. CASE n.tab \in Open /\ tab[n.tab].gen = n.gen
  BY <1>1, NoticeBegins, BeginsInv
<1>2. CASE ~(n.tab \in Open /\ tab[n.tab].gen = n.gen)
  BY <1>2, DroppedInv, SameLines
<1> QED
  BY <1>1, <1>2

LEMMA EffectInv ==
    ASSUME TabInv, WindowEffect
    PROVE  TabInv' /\ Lines
<1>1. WindowShape'
  BY DEF WindowEffect
<1>2. CASE WindowStep
  <2>1. tab' = tab
    BY <1>2 DEF WindowStep
  <2> QED
    BY <1>1, <1>2, <2>1, WindowStepInv, SameLines
<1>3. CASE \E t \in Open : \E m, l, stage : BeginsLoad(t, tab[t], m, l, stage)
  BY <1>1, <1>3, BeginsInv
<1> QED
  BY <1>2, <1>3 DEF WindowEffect

\* A search changes no history.
LEMMA SearchLeftLines ==
    ASSUME TabInv, NEW t, NEW n, SearchLeft(t, n)
    PROVE  Lines
<1>1. Shapes /\ tab \in [TabIds -> TabRecord] /\ t \in TabIds
  BY ShapeFacts DEF TabInv, SearchLeft
<1>2. tab'[t] = n /\ \A u \in TabIds : u # t => tab'[u] = tab[u]
  BY <1>1 DEF SearchLeft
<1>3. LineStep(n, tab[t])
  BY SameTimeline DEF SearchLeft, Searched, LineStep
<1> QED
  BY <1>1, <1>2, <1>3, LinesOf

LEMMA SearchesLines ==
    ASSUME TabInv, NEW t, NEW n, NEW stage, Searches(t, n, stage)
    PROVE  Lines
<1>1. Shapes /\ tab \in [TabIds -> TabRecord] /\ t \in TabIds
  BY ShapeFacts DEF TabInv, Searches
<1>2. tab'[t] = n /\ \A u \in TabIds : u # t => tab'[u] = tab[u]
  BY <1>1 DEF Searches
<1>3. LineStep(n, tab[t])
  BY SameTimeline DEF Searches, LineStep
<1> QED
  BY <1>1, <1>2, <1>3, LinesOf

LEMMA UserInv ==
    ASSUME TabInv, User, UNCHANGED scenario
    PROVE  TabInv' /\ Lines
<1>1. scenario.tabs \subseteq TabIds /\ scenario.folders \subseteq Locations
  BY TabsAssumption DEF TabInv, Shapes, WindowShape
<1>2. CASE \E l \in scenario.folders : Navigate(l)
  BY <1>1, <1>2, NavigateBegins, BeginsInv
<1>3. CASE Refresh
  BY <1>3, RefreshBegins, BeginsInv
<1>4. CASE \E k \in 1..MaxRequests : Back(k) \/ Forward(k)
  BY <1>4, BackBegins, ForwardBegins, BeginsInv
<1>5. CASE StartSearch
  BY <1>5, StartSearches, SearchesInv, SearchesLines
<1>6. CASE LeaveSearch
  BY <1>6, LeaveLeft, SearchLeftInv, SearchLeftLines
<1>7. CASE EditSearch
  BY <1>7, EditLeft, SearchLeftInv, SearchLeftLines
<1>8. ASSUME NEW t \in scenario.tabs,
             \/ NewTab(t) \/ ActivateTab(t) \/ CloseTab(t) \/ ReopenTab(t)
             \/ \E j \in 1..Len(order) : ReorderTab(t, j)
      PROVE  TabInv' /\ Lines
  <2>1. t \in TabIds
    BY <1>1
  <2>2. CASE NewTab(t)
    BY <2>1, <2>2, NewTabBegins, BeginsInv
  <2>3. CASE ActivateTab(t)
    BY <2>3, ActivateEffect, EffectInv
  <2>4. CASE CloseTab(t)
    BY <2>4, CloseEffect, EffectInv
  <2>5. CASE ReopenTab(t)
    BY <2>1, <2>5, ReopenBegins, BeginsInv
  <2>6. CASE \E j \in 1..Len(order) : ReorderTab(t, j)
    BY <2>6, ReorderEffect, EffectInv
  <2> QED
    BY <1>8, <2>2, <2>3, <2>4, <2>5, <2>6
<1> QED
  BY <1>2, <1>3, <1>4, <1>5, <1>6, <1>7, <1>8 DEF User

LEMMA NextInv ==
    ASSUME TabInv, Next
    PROVE  TabInv' /\ Lines
<1>1. UNCHANGED scenario
  BY DEF Next
<1>2. scenario.changing \subseteq Locations
  BY TabsAssumption DEF TabInv, Shapes, WindowShape
<1>3. CASE User
  BY <1>1, <1>3, UserInv
<1>4. ASSUME NEW i \in 1..Len(requests), Service(i) PROVE TabInv' /\ Lines
  BY <1>1, <1>4, ServiceInv, SameLines
<1>5. ASSUME NEW i \in 1..Len(requests), Drain(i) PROVE TabInv' /\ Lines
  BY <1>1, <1>5, DrainInv
<1>6. ASSUME NEW l \in scenario.changing, NEW deaf, FolderChanges(l, deaf)
      PROVE  TabInv' /\ Lines
  BY <1>1, <1>2, <1>6, FolderInv, SameLines
<1>7. ASSUME NEW n \in notices, DrainNotice(n) PROVE TabInv' /\ Lines
  BY <1>1, <1>7, NoticeInv
<1> QED
  BY <1>3, <1>4, <1>5, <1>6, <1>7 DEF Next

LEMMA StutterInv ==
    ASSUME TabInv, UNCHANGED vars
    PROVE  TabInv'
<1>1. UNCHANGED <<tab, requests, svc, mail, watch, notices, disk, missed, cache, used>>
      /\ order' = order /\ active' = active /\ closed' = closed /\ cancelled' = cancelled
      /\ scenario' = scenario
  BY DEF vars
<1>2. Open' = Open
  BY <1>1 DEF Open
<1>3. Shapes
  BY DEF TabInv
<1>4. cancelled' \subseteq 1..Len(requests)
  BY <1>1, <1>3, ShapeFacts
<1>5. WindowStep
  BY <1>1, <1>2, <1>4 DEF WindowStep
<1>6. WindowShape'
  BY <1>1, <1>3, SameWindow DEF uiVars
<1> QED
  BY <1>5, <1>6, WindowStepInv

-----------------------------------------------------------------------------
(* The beginning, and the theorems                                         *)

LEMMA InitialRecord ==
    LET n == TabAt(<<>>, InitialLoc, <<>>)
    IN /\ n \in TabRecord /\ n.gen = 0 /\ n.req = 0 /\ n.sreq = 0
       /\ n.dir = "Idle" /\ n.search = "Idle" /\ n.pending = NoPending
<1>1. PICK e : e = <<>>
  OBVIOUS
<1>2. e \in Seq(Canon) /\ InitialLoc \in Canon
  BY <1>1, TabsAssumption DEF Canon
<1>3. LET n == TabAt(e, InitialLoc, e)
      IN /\ n \in TabRecord /\ n.gen = 0 /\ n.req = 0 /\ n.sreq = 0
         /\ n.dir = "Idle" /\ n.search = "Idle" /\ n.pending = NoPending
  BY <1>2, NewTabRecord
<1> QED
  BY <1>1, <1>3

LEMMA InitShapes ==
    ASSUME Init
    PROVE  Shapes /\ Open = {InitialTab}
<1>1. InitialTab \in TabIds /\ InitialLoc \in Canon /\ InitialLoc \in Locations
  BY TabsAssumption DEF Canon
<1>2. Open = {InitialTab}
  BY DEF Init, Open
<1>3. WindowShape
  <2>1. order \in Seq(TabIds) /\ order # <<>> /\ IsInjective(order)
    BY <1>1 DEF Init, IsInjective
  <2>2. closed \in Seq(ClosedRecord)
    BY DEF Init
  <2> QED
    BY <1>1, <1>2, <2>1, <2>2 DEF Init, WindowShape
<1>4. ServiceShape
  BY TabsAssumption DEF Init, ServiceShape
<1>5. FolderShape
  <2>1. NoWatch \in WatchRecord
    BY <1>1, TabsAssumption DEF NoWatch, WatchRecord
  <2>2. 0 \in 0..MaxChanges
    BY TabsAssumption
  <2> QED
    BY <2>1, <2>2 DEF Init, FolderShape
<1>6. tab \in [TabIds -> TabRecord]
  <2>1. TabAt(<<>>, InitialLoc, <<>>) \in TabRecord
    BY InitialRecord
  <2> QED
    BY <2>1 DEF Init
<1>7. cache \in [Locations -> Rows]
  BY DEF Init, Rows
<1> QED
  BY <1>2, <1>3, <1>4, <1>5, <1>6, <1>7 DEF Shapes

LEMMA InitInv ==
    ASSUME Init
    PROVE  TabInv
<1>1. Shapes
  BY InitShapes
<1>2. requests = <<>> /\ Len(requests) = 0
  BY DEF Init
<1>3. ASSUME NEW t \in TabIds
      PROVE  /\ tab[t].gen = 0 /\ tab[t].req = 0 /\ tab[t].sreq = 0
             /\ tab[t].dir = "Idle" /\ tab[t].search = "Idle"
             /\ tab[t].pending.direction = "none"
  <2>1. tab[t] = TabAt(<<>>, InitialLoc, <<>>)
    BY DEF Init
  <2>2. NoPending.direction = "none"
    BY DEF NoPending
  <2> QED
    BY <2>1, <2>2, InitialRecord
<1>4. TabsLinked
  BY <1>2, <1>3 DEF TabsLinked, Linked
<1>5. RequestsServed /\ WorkAwaited
  BY <1>2 DEF RequestsServed, WorkAwaited
<1>6. LoadsProgress /\ ComingFresh
  BY <1>3 DEF LoadsProgress, ComingFresh, Attends
<1>7. CacheListed
  BY DEF Init, CacheListed
<1>8. ShownFresh
  BY <1>1, <1>3, ShapeFacts DEF ShownFresh, Shown
<1> QED
  BY <1>1, <1>4, <1>5, <1>6, <1>7, <1>8 DEF TabInv

LEMMA Invariance ==
    Spec => []TabInv
<1>1. Init => TabInv
  BY InitInv
<1>2. TabInv /\ [Next]_vars => TabInv'
  BY NextInv, StutterInv
<1> QED
  BY <1>1, <1>2, PTL DEF Spec

LEMMA TypesFollow ==
    ASSUME TabInv
    PROVE  TypeOK
<1>1. Shapes
  BY DEF TabInv
<1>2. order # <<>> /\ IsInjective(order) /\ active \in Open /\ Open \subseteq used
  BY <1>1 DEF Shapes, WindowShape
<1>3. Len(svc) = Len(requests) /\ Len(mail) = Len(requests) /\ cancelled \subseteq 1..Len(requests)
  BY <1>1, ShapeFacts
<1>4. ASSUME NEW t \in TabIds
      PROVE  LET tb == tab[t]
             IN /\ tb.gen \in 0..MaxRequests
                /\ tb.dir \in DirStates /\ tb.search \in SearchStates
                /\ tb.cur \in Locations
                /\ \A i \in 1..Len(tb.back) : tb.back[i] \in Locations
                /\ \A i \in 1..Len(tb.fwd) : tb.fwd[i] \in Locations
                /\ {tb.req, tb.sreq} \subseteq 0..Len(requests)
  <2> DEFINE tb == tab[t]
  <2>1. tb \in TabRecord
    BY <1>1, ShapeFacts
  <2>2. tb.req <= Len(requests) /\ tb.sreq <= Len(requests)
    BY DEF TabInv, TabsLinked, Linked
  <2>3. Len(requests) \in Nat
    BY <1>1, ShapeFacts, TabsAssumption
  <2> HIDE DEF tb
  <2>4. tb.back \in Seq(Canon) /\ tb.fwd \in Seq(Canon)
    BY <2>1, HistoryTyped
  <2>5. /\ \A i \in 1..Len(tb.back) : tb.back[i] \in Locations
        /\ \A i \in 1..Len(tb.fwd) : tb.fwd[i] \in Locations
    BY <2>4 DEF Canon
  <2>6. /\ tb.gen \in 0..MaxRequests /\ tb.req \in 0..MaxRequests /\ tb.sreq \in 0..MaxRequests
        /\ tb.cur \in Locations /\ tb.dir \in DirStates /\ tb.search \in SearchStates
    BY <2>1, TabFacts
  <2>7. tb.req \in 0..Len(requests) /\ tb.sreq \in 0..Len(requests)
    BY <2>2, <2>3, <2>6, TabsAssumption
  <2> QED
    BY <2>5, <2>6, <2>7 DEF tb
<1> QED
  BY <1>2, <1>3, <1>4 DEF TypeOK

\* The window always has a tab, no tab twice, and its active tab among them;
\* every tab's history, generation and request numbers are of the window's
\* requests (validate).
THEOREM TypesHold ==
    Spec => []TypeOK
<1>1. TabInv => TypeOK
  BY TypesFollow
<1> QED
  BY <1>1, Invariance, PTL

\* A tab that shows a finished listing shows the one of the folder its history
\* says it is at: no event of another request, however late, gets past the
\* gate (accepts_presentation_event, apply_event).
THEOREM ReadyTabsShowTheirFolder ==
    Spec => []ReadyShowsLocation
<1>1. TabInv => ReadyShowsLocation
  <2>1. ASSUME TabInv, NEW t \in Open, tab[t].dir = "Ready"
        PROVE  \E v \in 0..MaxChanges : tab[t].rows = {<<tab[t].cur, v>>}
    <3>1. Shapes
      BY <2>1 DEF TabInv
    <3>2. t \in TabIds /\ tab[t] \in TabRecord /\ disk \in Disks
      BY <3>1, ShapeFacts
    <3>3. ListingOf(tab[t].rows, tab[t].cur, disk)
      BY <2>1, <3>2 DEF TabInv, TabsLinked, Linked
    <3>4. tab[t].cur \in Locations
      BY <3>2, TabFacts
    <3>5. disk[tab[t].cur] \in 0..MaxChanges
      BY <3>2, <3>4 DEF Disks
    <3> QED
      BY <3>3, <3>5, TabsAssumption DEF ListingOf
  <2> QED
    BY <2>1 DEF ReadyShowsLocation
<1> QED
  BY <1>1, Invariance, PTL

\* A cached snapshot is one complete listing of the folder it is cached for:
\* apply_service_event never caches rows of a failed, cancelled or superseded
\* load, nor rows that were only shown while loading.
THEOREM CachedListingsAreWhole ==
    Spec => []CacheHoldsOneListing
<1>1. TabInv => CacheHoldsOneListing
  BY DEF TabInv, CacheListed, ListingOf, CacheHoldsOneListing
<1> QED
  BY <1>1, Invariance, PTL

\* Work that was superseded, or whose tab was closed, is told to stop
\* (TabRequestScopes): of the work not started that nobody cancelled, each is
\* the load or the search of an open tab.
THEOREM SupersededWorkIsCancelled ==
    Spec => []AbandonedWorkCancelled
<1>1. TabInv => AbandonedWorkCancelled
  <2>1. ASSUME TabInv, NEW i \in 1..Len(requests), Unstarted(i), i \notin cancelled
        PROVE  /\ requests[i].tab \in Open
               /\ i \in {tab[requests[i].tab].req, tab[requests[i].tab].sreq}
    <3>1. requests[i].kind \in {"load", "search"}
      BY <2>1, RequestFacts DEF TabInv
    <3>2. Awaited(i, requests[i], svc[i], tab[requests[i].tab], Open, cancelled)
      BY <2>1 DEF TabInv, WorkAwaited
    <3> QED
      BY <2>1, <3>1, <3>2 DEF Awaited, Unstarted, LoadOf, SearchOf
  <2> QED
    BY <2>1 DEF AbandonedWorkCancelled
<1> QED
  BY <1>1, Invariance, PTL

\* A tab at rest shows its folder as it is on disk, unless a change went
\* unreported for want of an armed watcher, or its report was dropped for a
\* search (watch_location, watcher_recovery_command).
THEOREM RestingTabsAreFresh ==
    Spec => []StaleOnlyIfUnwatched
<1>1. TabInv => StaleOnlyIfUnwatched
  <2>1. ASSUME TabInv, NEW t \in Open, Quiet(t), tab[t].cur \notin Synthetic,
               tab[t].rows # Listing(tab[t].cur)
        PROVE  t \in missed
    <3>1. tab[t].dir = "Ready" /\ \A n \in notices : n.tab # t
      BY <2>1 DEF Quiet
    <3>2. Covered(t, tab[t].gen, tab[t].cur, tab[t].rows, disk, missed, notices)
      BY <2>1, <3>1 DEF TabInv, ShownFresh, Shown
    <3>3. tab[t].rows # {<<tab[t].cur, disk[tab[t].cur]>>}
      BY <2>1 DEF Listing
    <3>4. [tab |-> t, gen |-> tab[t].gen] \notin notices
      BY <3>1
    <3> QED
      BY <3>2, <3>3, <3>4 DEF Covered
  <2> QED
    BY <2>1 DEF StaleOnlyIfUnwatched
<1> QED
  BY <1>1, Invariance, PTL

\* The history of a tab stays a line with a cursor: a step keeps the line, or
\* cuts it behind the cursor and adds one location (commit_navigation,
\* commit_back_steps, commit_forward_steps).
THEOREM HistoriesStayLines ==
    Spec => HistoryIsALine
<1>1. TabInv /\ [Next]_vars =>
         [\A t \in Open :
            LET o == tab[t]
                n == tab'[t]
            IN \/ Timeline(n) = Timeline(o)
               \/ Timeline(n) = o.back \o <<o.cur, n.cur>>]_vars
  BY NextInv DEF Lines, LineStep
<1> QED
  BY <1>1, Invariance, PTL DEF Spec, HistoryIsALine
=============================================================================
