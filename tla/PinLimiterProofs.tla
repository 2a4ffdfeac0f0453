-------------------------- MODULE PinLimiterProofs --------------------------
(***************************************************************************)
(* A lock is earned and guesses are limited, for any number of requests,   *)
(* any window and any limit, however the KV calls interleave.              *)
(***************************************************************************)
EXTENDS PinLimiter, ListsProofs

-----------------------------------------------------------------------------
(* A list of ages, oldest first, seen from its newest end.                   *)

Ordered(l) == \A i, j \in 1..Len(l) : i <= j => l[j] <= l[i]
Aged       == {l \in Ages : Ordered(l)}
Age(l, k)  == IF k <= Len(l) THEN l[Len(l) + 1 - k] ELSE Window   \* of the k-th newest
Places     == Nat \ {0}

\* What is kept of the ages that count is the end of the list.
LEMMA RecentIsEnd ==
  ASSUME NEW l \in Aged
  PROVE  \E m \in 0..Len(l) : /\ \A i \in 1..Len(l) : l[i] < Window <=> i > m
                              /\ Recent(l) = [k \in 1..(Len(l) - m) |-> l[m + k]]
<1>0. Len(l) \in Nat /\ Window \in Nat /\ \A i \in 1..Len(l) : l[i] \in 0..Window
  BY LimitAssumption DEF Aged, Ages
<1>1. \E m \in 0..Len(l) : \A i \in 1..Len(l) : l[i] < Window <=> i > m
  <2> DEFINE fresh == {i \in 1..Len(l) : l[i] < Window}
  <2>1. CASE fresh = {}
    <3>1. \A i \in 1..Len(l) : ~(l[i] < Window) /\ ~(i > Len(l))  BY <1>0, <2>1
    <3>2. Len(l) \in 0..Len(l)  BY <1>0
    <3> QED BY <3>1, <3>2
  <2>2. CASE fresh # {}
    <3>1. fresh \in SUBSET Nat  OBVIOUS
    <3>2. PICK n \in fresh : \A i \in fresh : n <= i  BY <2>2, <3>1, LeastExists
    <3>3. n \in 1..Len(l) /\ n - 1 \in 0..Len(l)  BY <1>0, <3>2
    <3>4. ASSUME NEW i \in 1..Len(l), l[i] < Window PROVE i > n - 1
      <4>1. n <= i  BY <3>2, <3>4
      <4> QED BY <1>0, <3>3, <4>1
    <3>5. ASSUME NEW i \in 1..Len(l), i > n - 1 PROVE l[i] < Window
      <4>1. n <= i  BY <1>0, <3>3, <3>5
      <4>2. l[i] <= l[n]  BY <3>3, <4>1 DEF Aged, Ordered
      <4> QED BY <1>0, <3>2, <3>3, <4>2
    <3> QED BY <3>3, <3>4, <3>5
  <2> QED BY <2>1, <2>2
<1>2. PICK m \in 0..Len(l) : \A i \in 1..Len(l) : l[i] < Window <=> i > m  BY <1>1
<1>3. PICK f : /\ Recent(l) = f[Len(l)]
               /\ \A i \in 0..Len(l) : f[i] = Kept(f, l, 0..(Window - 1), i)
  BY KeepIs DEF Recent, Aged, Ages
<1> DEFINE End(i) == [k \in 1..(IF i <= m THEN 0 ELSE i - m) |-> l[m + k]]
           bad == {i \in Nat : i <= Len(l) /\ f[i] # End(i)}
<1>4. f[0] = End(0)
  <2>1. f[0] = <<>>  BY <1>0, <1>3 DEF Kept
  <2>2. End(0) = <<>>  BY <1>0
  <2> QED BY <2>1, <2>2
<1>5. ASSUME NEW i \in 1..Len(l), f[i - 1] = End(i - 1) PROVE f[i] = End(i)
  <2>1. i \in 0..Len(l) /\ i # 0 /\ i \in Int /\ m \in Int  BY <1>0
  <2>2. l[i] \in 0..(Window - 1) <=> i > m  BY <1>0, <1>2
  <2>3. CASE i <= m
    <3>1. f[i] = f[i - 1]  BY <1>3, <2>1, <2>2, <2>3 DEF Kept
    <3>2. End(i) = End(i - 1)  BY <2>1, <2>3
    <3> QED BY <1>5, <3>1, <3>2
  <2>4. CASE i > m
    <3>1. f[i] = Append(End(i - 1), l[i])  BY <1>3, <1>5, <2>1, <2>2, <2>4 DEF Kept
    <3>2. End(i - 1) = [k \in 1..(i - 1 - m) |-> l[m + k]] /\ i - 1 - m \in Nat
      <4>1. CASE i - 1 <= m
        <5>1. i - 1 - m = 0  BY <2>1, <2>4, <4>1
        <5> QED BY <4>1, <5>1
      <4>2. CASE ~(i - 1 <= m)  BY <2>1, <4>2
      <4> QED BY <4>1, <4>2
    <3>3. End(i) = [k \in 1..(i - m) |-> l[m + k]]  BY <2>1, <2>4
    <3>4. i - m = (i - 1 - m) + 1 /\ m + (i - m) = i  BY <2>1
    <3>5. Append([k \in 1..(i - 1 - m) |-> l[m + k]], l[i]) = [k \in 1..(i - m) |-> l[m + k]]
      <4> DEFINE e == [k \in 1..(i - 1 - m) |-> l[m + k]]
      <4>1. \A k \in 1..(i - 1 - m) : m + k \in 1..Len(l)  BY <1>0, <2>1
      <4>2. e \in Seq(0..Window) /\ Len(e) = i - 1 - m  BY <1>0, <3>2, <4>1
      <4>3. l[i] \in 0..Window  BY <1>0
      <4>4. Append(e, l[i]) = [k \in 1..(i - m) |-> IF k = i - m THEN l[i] ELSE e[k]]
        <5> HIDE DEF e
        <5> QED BY <3>4, <4>2, <4>3, AppendProperties
      <4>5. \A k \in 1..(i - m) : k # i - m => k \in 1..(i - 1 - m)  BY <2>1
      <4> QED BY <3>4, <4>4, <4>5
    <3> QED BY <3>1, <3>2, <3>3, <3>5
  <2> QED BY <2>1, <2>3, <2>4
<1>6. bad = {}
  <2> HIDE DEF End
  <2> SUFFICES ASSUME bad # {} PROVE FALSE  OBVIOUS
  <2>1. PICK i \in bad : \A j \in bad : i <= j  BY LeastExists
  <2>2. i # 0  BY <1>4, <2>1
  <2>3. i \in 1..Len(l) /\ i - 1 \in Nat /\ i - 1 <= Len(l)  BY <1>0, <2>1, <2>2
  <2>4. f[i - 1] = End(i - 1)  BY <2>1, <2>3
  <2> QED BY <1>5, <2>1, <2>3, <2>4
<1>7. Recent(l) = [k \in 1..(Len(l) - m) |-> l[m + k]]
  <2>1. f[Len(l)] = End(Len(l))
    <3> HIDE DEF End
    <3>1. Len(l) \in Nat /\ Len(l) <= Len(l) /\ Len(l) \notin bad  BY <1>0, <1>6
    <3> QED BY <3>1
  <2>2. End(Len(l)) = [k \in 1..(Len(l) - m) |-> l[m + k]]
    <3>1. CASE Len(l) <= m
      <4>1. Len(l) - m = 0  BY <1>0, <3>1
      <4> QED BY <3>1, <4>1
    <3>2. CASE ~(Len(l) <= m)  BY <3>2
    <3> QED BY <3>1, <3>2
  <2> QED BY <1>3, <2>1, <2>2
<1> QED BY <1>2, <1>7

\* The filter takes no age away that counts, and leaves none that does not.
LEMMA RecentIs ==
  ASSUME NEW l \in Aged
  PROVE  /\ Recent(l) \in Aged /\ Recent(l) \in Seq(0..(Window - 1))
         /\ \A k \in Places : /\ Age(Recent(l), k) = Age(l, k)
                              /\ k <= Len(Recent(l)) <=> Age(l, k) < Window
<1> DEFINE r == Recent(l)
<1>0. /\ Len(l) \in Nat /\ Window \in Nat /\ \A i \in 1..Len(l) : l[i] \in 0..Window
      /\ \A i, j \in 1..Len(l) : i <= j => l[j] <= l[i]
  BY LimitAssumption DEF Aged, Ages, Ordered
<1>1. PICK m \in 0..Len(l) : /\ \A i \in 1..Len(l) : l[i] < Window <=> i > m
                             /\ r = [k \in 1..(Len(l) - m) |-> l[m + k]]
  BY RecentIsEnd
<1> HIDE DEF r
<1>2. m \in Nat /\ Len(l) - m \in Nat  BY <1>0
<1>3. \A k \in 1..(Len(l) - m) : m + k \in 1..Len(l) /\ m + k > m  BY <1>0, <1>2
<1>4. Len(r) = Len(l) - m /\ DOMAIN r = 1..Len(r) /\ \A k \in 1..Len(r) : r[k] = l[m + k]
  BY <1>1, <1>2
<1>5. \A k \in 1..Len(r) : r[k] \in 0..(Window - 1)  BY <1>0, <1>1, <1>3, <1>4
<1>6. r \in Seq(0..(Window - 1)) /\ r \in Ages
  <2> DEFINE n == Len(l) - m
  <2>1. n \in Nat /\ \A k \in 1..n : l[m + k] \in 0..(Window - 1) /\ l[m + k] \in 0..Window
    BY <1>0, <1>1, <1>2, <1>3
  <2>2. r = [k \in 1..n |-> l[m + k]]  BY <1>1
  <2> HIDE DEF n
  <2>3. r \in [1..n -> 0..(Window - 1)] /\ r \in [1..n -> 0..Window]  BY <2>1, <2>2
  <2> QED BY <2>1, <2>3, SeqDef DEF Ages
<1>7. Ordered(r)
  <2> SUFFICES ASSUME NEW i \in 1..Len(r), NEW j \in 1..Len(r), i <= j PROVE r[j] <= r[i]  BY DEF Ordered
  <2>1. m + i <= m + j /\ m + i \in 1..Len(l) /\ m + j \in 1..Len(l)  BY <1>2, <1>3, <1>4
  <2> QED BY <1>0, <1>4, <2>1
<1>8. ASSUME NEW k \in Places
      PROVE  Age(r, k) = Age(l, k) /\ (k <= Len(r) <=> Age(l, k) < Window)
  <2>0. k \in Nat /\ k >= 1  BY DEF Places
  <2>1. CASE k <= Len(l) - m
    <3>1. k <= Len(l) /\ Len(r) + 1 - k \in 1..Len(r) /\ m + (Len(r) + 1 - k) = Len(l) + 1 - k
      BY <1>0, <1>2, <1>4, <2>0, <2>1
    <3>2. Age(r, k) = l[Len(l) + 1 - k]  BY <1>4, <2>1, <3>1 DEF Age
    <3>3. Age(l, k) = l[Len(l) + 1 - k]  BY <3>1 DEF Age
    <3>4. Age(l, k) < Window
      <4>1. Len(l) + 1 - k \in 1..Len(l) /\ Len(l) + 1 - k > m  BY <1>0, <1>2, <2>0, <2>1
      <4> QED BY <1>1, <3>3, <4>1
    <3> QED BY <1>4, <2>1, <3>2, <3>3, <3>4
  <2>2. CASE ~(k <= Len(l) - m)
    <3>1. Age(r, k) = Window  BY <1>4, <2>2 DEF Age
    <3>2. Age(l, k) = Window
      <4>1. CASE k <= Len(l)
        <5>1. Len(l) + 1 - k \in 1..Len(l) /\ ~(Len(l) + 1 - k > m)  BY <1>0, <1>2, <2>0, <2>2, <4>1
        <5>2. l[Len(l) + 1 - k] = Window  BY <1>0, <1>1, <5>1
        <5> QED BY <4>1, <5>2 DEF Age
      <4>2. CASE ~(k <= Len(l))  BY <4>2 DEF Age
      <4> QED BY <4>1, <4>2
    <3>3. ~(Window < Window)  BY <1>0
    <3> QED BY <1>4, <2>2, <3>1, <3>2, <3>3
  <2> QED BY <2>1, <2>2
<1> QED BY <1>6, <1>7, <1>8 DEF r, Aged

\* An age is one that the list may hold.
LEMMA AgeIs == ASSUME NEW l \in Aged, NEW k \in Places PROVE Age(l, k) \in 0..Window /\ Len(l) \in Nat
<1>1. Len(l) \in Nat /\ Window \in Nat /\ \A i \in 1..Len(l) : l[i] \in 0..Window
  BY LimitAssumption DEF Aged, Ages
<1>2. CASE k <= Len(l)
  <2>1. Len(l) + 1 - k \in 1..Len(l)  BY <1>1, <1>2 DEF Places
  <2> QED BY <1>1, <1>2, <2>1 DEF Age
<1>3. CASE ~(k <= Len(l))  BY <1>1, <1>3 DEF Age
<1> QED BY <1>1, <1>2, <1>3

\* The next place holds what is no newer.
LEMMA AgesGrow ==
  ASSUME NEW l \in Aged, NEW k \in Places, k - 1 \in Places
  PROVE  Age(l, k - 1) <= Age(l, k)
<1>1. /\ Len(l) \in Nat /\ Window \in Nat /\ \A i \in 1..Len(l) : l[i] \in 0..Window
      /\ \A i, j \in 1..Len(l) : i <= j => l[j] <= l[i]
  BY LimitAssumption DEF Aged, Ages, Ordered
<1>2. CASE k <= Len(l)
  <2>1. /\ Len(l) + 1 - k \in 1..Len(l) /\ Len(l) + 1 - (k - 1) \in 1..Len(l)
        /\ Len(l) + 1 - k <= Len(l) + 1 - (k - 1) /\ k - 1 <= Len(l)
    BY <1>1, <1>2 DEF Places
  <2>2. Age(l, k) = l[Len(l) + 1 - k] /\ Age(l, k - 1) = l[Len(l) + 1 - (k - 1)]  BY <1>2, <2>1 DEF Age
  <2> QED BY <1>1, <2>1, <2>2
<1>3. CASE ~(k <= Len(l))
  <2>1. Age(l, k) = Window /\ Age(l, k - 1) \in 0..Window  BY <1>3, AgeIs DEF Age
  <2> QED BY <1>1, <2>1
<1> QED BY <1>2, <1>3

\* The list with nothing on it.
LEMMA EmptyIs == <<>> \in Aged /\ <<>> \in Seq(0..(Window - 1)) /\ \A k \in Places : Age(<<>>, k) = Window
<1>1. <<>> \in Ages /\ <<>> \in Seq(0..(Window - 1)) /\ Len(<<>>) = 0  BY DEF Ages
<1>2. Ordered(<<>>)  BY <1>1 DEF Ordered
<1>3. \A k \in Places : ~(k <= 0)  BY DEF Places
<1> QED BY <1>1, <1>2, <1>3 DEF Aged, Age

\* A step of the clock makes every age one more, up to the window.
LEMMA OlderIs ==
  ASSUME NEW l \in Aged
  PROVE  /\ Older(l) \in Aged
         /\ \A k \in Places : Age(Older(l), k) = IF Age(l, k) < Window THEN Age(l, k) + 1 ELSE Window
<1> DEFINE o == Older(l)
<1>0. /\ Len(l) \in Nat /\ DOMAIN l = 1..Len(l) /\ Window \in Nat
      /\ \A i \in 1..Len(l) : l[i] \in 0..Window
      /\ \A i, j \in 1..Len(l) : i <= j => l[j] <= l[i]
  BY LimitAssumption DEF Aged, Ages, Ordered
<1>1. o = [i \in 1..Len(l) |-> IF l[i] < Window THEN l[i] + 1 ELSE Window]  BY <1>0 DEF Older
<1> HIDE DEF o
<1>2. Len(o) = Len(l) /\ \A i \in 1..Len(l) : o[i] = IF l[i] < Window THEN l[i] + 1 ELSE Window
  BY <1>0, <1>1
<1>3. \A i \in 1..Len(l) : o[i] \in 0..Window  BY <1>0, <1>2
<1>4. o \in Ages
  <2>1. o \in [1..Len(l) -> 0..Window]  BY <1>1, <1>2, <1>3
  <2> QED BY <1>0, <2>1, SeqDef DEF Ages
<1>5. Ordered(o)
  <2> SUFFICES ASSUME NEW i \in 1..Len(l), NEW j \in 1..Len(l), i <= j PROVE o[j] <= o[i]
    BY <1>2 DEF Ordered
  <2>1. l[j] <= l[i] /\ l[i] \in 0..Window /\ l[j] \in 0..Window  BY <1>0
  <2> QED BY <1>0, <1>2, <2>1
<1>6. ASSUME NEW k \in Places
      PROVE  Age(o, k) = IF Age(l, k) < Window THEN Age(l, k) + 1 ELSE Window
  <2>1. CASE k <= Len(l)
    <3>1. Len(l) + 1 - k \in 1..Len(l)  BY <1>0, <2>1 DEF Places
    <3> QED BY <1>2, <2>1, <3>1 DEF Age
  <2>2. CASE ~(k <= Len(l))
    <3>1. Age(o, k) = Window /\ Age(l, k) = Window  BY <1>2, <2>2 DEF Age
    <3> QED BY <1>0, <3>1
  <2> QED BY <2>1, <2>2
<1> QED BY <1>4, <1>5, <1>6 DEF o, Aged

\* A new failure is the newest, and puts every other one place further.
LEMMA AppendIs ==
  ASSUME NEW l \in Aged
  PROVE  /\ Append(l, 0) \in Aged /\ Len(Append(l, 0)) = Len(l) + 1
         /\ Age(Append(l, 0), 1) = 0
         /\ \A k \in Places : k + 1 \in Places /\ Age(Append(l, 0), k + 1) = Age(l, k)
         /\ l \in Seq(0..(Window - 1)) => Append(l, 0) \in Seq(0..(Window - 1))
<1> DEFINE a == Append(l, 0)
           n == Len(l)
<1>0. /\ n \in Nat /\ Window \in Nat /\ 0 \in 0..Window /\ 0 \in 0..(Window - 1)
      /\ l \in Seq(0..Window) /\ \A i \in 1..n : l[i] \in 0..Window
      /\ \A i, j \in 1..n : i <= j => l[j] <= l[i]
  BY LimitAssumption DEF Aged, Ages, Ordered
<1>1. /\ a \in Seq(0..Window) /\ Len(a) = n + 1 /\ a[n + 1] = 0 /\ \A i \in 1..n : a[i] = l[i]
      /\ l \in Seq(0..(Window - 1)) => a \in Seq(0..(Window - 1))
  BY <1>0, AppendProperties
<1> HIDE DEF a, n
<1>2. Ordered(a)
  <2> SUFFICES ASSUME NEW i \in 1..(n + 1), NEW j \in 1..(n + 1), i <= j PROVE a[j] <= a[i]
    BY <1>1 DEF Ordered
  <2>1. \A h \in 1..(n + 1) : h = n + 1 \/ h \in 1..n  BY <1>0
  <2>2. a[i] \in 0..Window  BY <1>0, <1>1, <2>1
  <2>3. CASE j = n + 1  BY <1>1, <2>2, <2>3
  <2>4. CASE j \in 1..n
    <3>1. i \in 1..n  BY <1>0, <2>4
    <3> QED BY <1>0, <1>1, <2>4, <3>1
  <2> QED BY <2>1, <2>3, <2>4
<1>3. Age(a, 1) = 0
  <2>1. 1 <= n + 1 /\ (n + 1) + 1 - 1 = n + 1  BY <1>0
  <2> QED BY <1>1, <2>1 DEF Age
<1>4. ASSUME NEW k \in Places PROVE k + 1 \in Places /\ Age(a, k + 1) = Age(l, k)
  <2>1. k + 1 \in Places /\ (k + 1 <= n + 1 <=> k <= n) /\ (n + 1) + 1 - (k + 1) = n + 1 - k
    BY <1>0 DEF Places
  <2>2. CASE k <= n
    <3>1. n + 1 - k \in 1..n  BY <1>0, <2>2 DEF Places
    <3> QED BY <1>1, <2>1, <2>2, <3>1 DEF Age, n
  <2>3. CASE ~(k <= n)  BY <1>1, <2>1, <2>3 DEF Age, n
  <2> QED BY <2>1, <2>2, <2>3
<1> QED BY <1>1, <1>2, <1>3, <1>4 DEF a, n, Aged, Ages

\* What the histories forget is too old for the limit.
LEMMA NewestIs ==
  ASSUME NEW l \in Aged
  PROVE  /\ Newest(l) \in Aged /\ (l \in Seq(0..(Window - 1)) => Newest(l) \in Seq(0..(Window - 1)))
         /\ \A k \in 1..Threshold : Age(Newest(l), k) = Age(l, k)
         /\ Len(l) <= Threshold => Newest(l) = l
<1> DEFINE n == Len(l)
           t == Tail(l)
<1>0. /\ n \in Nat /\ Threshold \in Nat \ {0} /\ l \in Seq(0..Window)
      /\ \A i, j \in 1..n : i <= j => l[j] <= l[i]
  BY LimitAssumption DEF Aged, Ages, Ordered
<1>1. CASE n <= Threshold + 1
  <2>1. Newest(l) = l  BY <1>1 DEF Newest
  <2> QED BY <2>1
<1>2. CASE ~(n <= Threshold + 1)
  <2>1. Newest(l) = t  BY <1>2 DEF Newest
  <2>2. l # <<>> /\ n - 1 \in Nat  BY <1>0, <1>2
  <2>3. /\ t \in Seq(0..Window) /\ Len(t) = n - 1 /\ \A i \in 1..(n - 1) : t[i] = l[i + 1]
        /\ l \in Seq(0..(Window - 1)) => t \in Seq(0..(Window - 1))
    BY <1>0, <2>2
  <2> HIDE DEF t
  <2>4. Ordered(t)
    <3> SUFFICES ASSUME NEW i \in 1..(n - 1), NEW j \in 1..(n - 1), i <= j PROVE t[j] <= t[i]
      BY <2>3 DEF Ordered
    <3>1. i + 1 \in 1..n /\ j + 1 \in 1..n /\ i + 1 <= j + 1  BY <1>0
    <3> QED BY <1>0, <2>3, <3>1
  <2>5. ASSUME NEW k \in 1..Threshold PROVE Age(t, k) = Age(l, k)
    <3>1. k <= n /\ k <= n - 1 /\ (n - 1) + 1 - k \in 1..(n - 1) /\ ((n - 1) + 1 - k) + 1 = n + 1 - k
      BY <1>0, <1>2
    <3> QED BY <2>3, <3>1 DEF Age
  <2>6. ~(n <= Threshold)  BY <1>0, <1>2
  <2> QED BY <2>1, <2>3, <2>4, <2>5, <2>6 DEF Aged, Ages
<1> QED BY <1>1, <1>2

-----------------------------------------------------------------------------
(* The inductive invariant                                                   *)

Fresh(l)     == l \in Aged /\ l \in Seq(0..(Window - 1))
Steps        == {"ready", "verify", "clear", "read", "write"}
ClientRecord == [at : Steps, list : Aged]

\* Every list is ordered, and the histories hold nothing that is too old.
AgesInv ==
  /\ fails \in Aged /\ crossed \in BOOLEAN /\ client \in [Client -> ClientRecord]
  /\ Fresh(wrong) /\ Fresh(guessed)

\* Each failure on l that still counts has one of its own on w, no older.
Covers(w, l) == \A k \in 1..Threshold : Age(w, k) <= Age(l, k)

\* What is stored, and what any request is about to store, was found wrong.
EarnedInv == Covers(wrong, fails) /\ \A c \in Client : Covers(wrong, client[c].list)

\* One request at a time: each wrong PIN is on the list, or the request that
\* found it wrong is about to put it there.
LimitInv ==
  ~crossed =>
    /\ Len(guessed) <= Threshold
    /\ \A c, d \in InFlight : c = d
    /\ InFlight = {} => Covers(fails, guessed)
    /\ \A c \in Client :
         /\ client[c].at = "verify" => Covers(fails, guessed) /\ Len(guessed) < Threshold
         /\ client[c].at = "read" => \A k \in 1..(Threshold - 1) : Age(fails, k) <= Age(guessed, k + 1)
         /\ client[c].at = "write" => Covers(client[c].list, guessed)
         /\ client[c].at = "clear" => guessed = <<>>

IInv == AgesInv /\ EarnedInv /\ LimitInv

\* The first places are places.
LEMMA FirstPlaces == \A k \in 1..Threshold : k \in Places
BY LimitAssumption DEF Places

\* A covered list stays covered when both grow older, whatever of either is dropped
\* that no longer counts.
LEMMA CoversOlder ==
  ASSUME NEW w \in Aged, NEW l \in Aged, Covers(w, l), NEW w2 \in Aged, NEW l2 \in Aged,
         \A k \in Places : Age(w2, k) = Age(Older(w), k),
         \A k \in Places : Age(l2, k) = Age(Older(l), k)
  PROVE  Covers(w2, l2)
<1> SUFFICES ASSUME NEW k \in 1..Threshold PROVE Age(w2, k) <= Age(l2, k)  BY DEF Covers
<1>1. k \in Places /\ Window \in Nat  BY FirstPlaces, LimitAssumption
<1>2. Age(w, k) \in 0..Window /\ Age(l, k) \in 0..Window  BY <1>1, AgeIs
<1>3. Age(w, k) <= Age(l, k)  BY DEF Covers
<1>4. /\ Age(w2, k) = IF Age(w, k) < Window THEN Age(w, k) + 1 ELSE Window
      /\ Age(l2, k) = IF Age(l, k) < Window THEN Age(l, k) + 1 ELSE Window
  BY <1>1, OlderIs
<1> QED BY <1>1, <1>2, <1>3, <1>4

\* It stays so when the other gets one more, that is new.
LEMMA CoversMore ==
  ASSUME NEW w \in Aged, NEW l \in Aged, Covers(w, l)
  PROVE  Covers(Newest(Append(w, 0)), l)
<1> SUFFICES ASSUME NEW k \in 1..Threshold PROVE Age(Newest(Append(w, 0)), k) <= Age(l, k)
  BY DEF Covers
<1> DEFINE a == Append(w, 0)
<1>1. k \in Places /\ Threshold \in Nat /\ Window \in Nat /\ a \in Aged
  BY FirstPlaces, LimitAssumption, AppendIs
<1>2. Age(Newest(a), k) = Age(a, k) /\ Age(l, k) \in 0..Window  BY <1>1, NewestIs, AgeIs
<1>3. CASE k = 1  BY <1>2, <1>3, AppendIs
<1>4. CASE k # 1
  <2>1. k - 1 \in Places /\ k - 1 \in 1..Threshold /\ (k - 1) + 1 = k  BY <1>1, <1>4 DEF Places
  <2>2. Age(a, k) = Age(w, k - 1)  BY <2>1, AppendIs
  <2>3. Age(w, k - 1) <= Age(l, k - 1)  BY <2>1 DEF Covers
  <2>4. Age(l, k - 1) <= Age(l, k)  BY <1>1, <2>1, AgesGrow
  <2>5. Age(w, k - 1) \in 0..Window /\ Age(l, k - 1) \in 0..Window  BY <2>1, AgeIs
  <2> QED BY <1>2, <2>2, <2>3, <2>4, <2>5
<1> QED BY <1>3, <1>4

\* Both get one more that is new.
LEMMA CoversBoth ==
  ASSUME NEW w \in Aged, NEW l \in Aged, Covers(w, l)
  PROVE  Covers(Newest(Append(w, 0)), Append(l, 0))
<1> SUFFICES ASSUME NEW k \in 1..Threshold PROVE Age(Newest(Append(w, 0)), k) <= Age(Append(l, 0), k)
  BY DEF Covers
<1>1. Threshold \in Nat /\ Append(w, 0) \in Aged  BY LimitAssumption, AppendIs
<1>2. Age(Newest(Append(w, 0)), k) = Age(Append(w, 0), k)  BY <1>1, NewestIs
<1>3. CASE k = 1  BY <1>2, <1>3, AppendIs
<1>4. CASE k # 1
  <2>1. k - 1 \in Places /\ k - 1 \in 1..Threshold /\ (k - 1) + 1 = k  BY <1>1, <1>4 DEF Places
  <2>2. Age(Append(w, 0), k) = Age(w, k - 1) /\ Age(Append(l, 0), k) = Age(l, k - 1)  BY <2>1, AppendIs
  <2> QED BY <1>2, <2>1, <2>2 DEF Covers
<1> QED BY <1>3, <1>4

\* The empty list covers itself, and asks for no cover.
LEMMA CoversNone == ASSUME NEW w \in Aged PROVE Covers(w, <<>>)
<1> SUFFICES ASSUME NEW k \in 1..Threshold PROVE Age(w, k) <= Age(<<>>, k)  BY DEF Covers
<1>1. k \in Places /\ Window \in Nat  BY FirstPlaces, LimitAssumption
<1> QED BY <1>1, AgeIs, EmptyIs

\* A lock is that the last place of the limit counts.
LEMMA LockedIs == ASSUME NEW l \in Aged PROVE LockedBy(l) <=> Age(l, Threshold) < Window
<1>1. Threshold \in Places /\ Recent(l) \in Aged  BY LimitAssumption, RecentIs DEF Places
<1>2. Threshold <= Len(Recent(l)) <=> Age(l, Threshold) < Window  BY <1>1, RecentIs
<1>3. Threshold \in Nat /\ Len(Recent(l)) \in Nat  BY <1>1, AgeIs DEF Places
<1> QED BY <1>2, <1>3 DEF LockedBy

\* The length of a list that holds only what counts.
LEMMA FreshIs == ASSUME NEW l, Fresh(l), NEW k \in Places PROVE k <= Len(l) <=> Age(l, k) < Window
<1>1. l \in Seq(0..(Window - 1)) /\ Len(l) \in Nat /\ Window \in Nat
  BY LimitAssumption DEF Fresh
<1>2. CASE k <= Len(l)
  <2>1. Len(l) + 1 - k \in 1..Len(l)  BY <1>1, <1>2 DEF Places
  <2>2. l[Len(l) + 1 - k] \in 0..(Window - 1)  BY <1>1, <2>1
  <2> QED BY <1>1, <1>2, <2>2 DEF Age
<1>3. CASE ~(k <= Len(l))  BY <1>1, <1>3 DEF Age
<1> QED BY <1>2, <1>3

-----------------------------------------------------------------------------
(* It holds at first, and every step keeps it.                               *)

LEMMA InitIInv == Init => IInv
<1> SUFFICES ASSUME Init PROVE IInv  OBVIOUS
<1>1. <<>> \in Aged /\ Fresh(<<>>) /\ Covers(<<>>, <<>>)  BY EmptyIs, CoversNone DEF Fresh
<1>2. AgesInv  BY <1>1 DEF Init, AgesInv, ClientRecord, Steps
<1>3. EarnedInv  BY <1>1 DEF Init, EarnedInv
<1>4. LimitInv
  <2>1. Len(<<>>) <= Threshold  BY LimitAssumption
  <2>2. \A c \in Client : client[c].at = "ready"  BY DEF Init
  <2>3. InFlight = {}  BY <2>2 DEF InFlight
  <2> QED BY <1>1, <2>1, <2>2, <2>3 DEF Init, LimitInv
<1> QED BY <1>2, <1>3, <1>4 DEF IInv

\* A request that moves leaves the others where they are.
LEMMA ToIs ==
  ASSUME AgesInv, NEW c \in Client, NEW pc, NEW list, To(c, pc, list)
  PROVE  /\ client'[c].at = pc /\ client'[c].list = list
         /\ \A d \in Client \ {c} : client'[d] = client[d]
         /\ pc \in Steps /\ list \in Aged => client' \in [Client -> ClientRecord]
BY DEF AgesInv, To, ClientRecord

\* What is read and is about to be written back is a list of the same kind.
LEMMA ReadIs ==
  ASSUME NEW l \in Aged
  PROVE  /\ Append(Recent(l), 0) \in Aged /\ Age(Append(Recent(l), 0), 1) = 0
         /\ \A k \in Places : Age(Append(Recent(l), 0), k + 1) = Age(l, k)
<1>1. Recent(l) \in Aged /\ \A k \in Places : Age(Recent(l), k) = Age(l, k)  BY RecentIs
<1> QED BY <1>1, AppendIs

\* A list grows older, and keeps its kind.
LEMMA RecentOlderIs ==
  ASSUME NEW l \in Aged
  PROVE  /\ Fresh(Recent(Older(l))) /\ \A k \in Places : Age(Recent(Older(l)), k) = Age(Older(l), k)
BY OlderIs, RecentIs DEF Fresh

\* What KV_TTL_S drops counts for nothing.
LEMMA FailsOlder ==
  ASSUME AgesInv, Tick
  PROVE  fails' \in Aged /\ \A k \in Places : Age(fails', k) = Age(Older(fails), k)
<1>1. Older(fails) \in Aged  BY OlderIs DEF AgesInv
<1>2. CASE Recent(Older(fails)) = <<>>
  <2>1. fails' = <<>>  BY <1>2 DEF Tick
  <2>2. \A k \in Places : Age(Recent(Older(fails)), k) = Age(Older(fails), k)
    BY RecentOlderIs DEF AgesInv
  <2> QED BY <1>2, <2>1, <2>2, EmptyIs
<1>3. CASE Recent(Older(fails)) # <<>>
  <2>1. fails' = Older(fails)  BY <1>3 DEF Tick
  <2> QED BY <1>1, <2>1
<1> QED BY <1>2, <1>3

\* The lists stay ordered.
LEMMA NextAges == ASSUME AgesInv, [Next]_vars PROVE AgesInv'
<1> USE EmptyIs DEF Steps
<1>0. fails \in Aged /\ crossed \in BOOLEAN /\ Fresh(wrong) /\ Fresh(guessed) /\ Fresh(<<>>)
  BY DEF AgesInv, Fresh
<1>1. ASSUME NEW c \in Client,
             \/ TestLock(c) \/ RightPin(c) \/ ClearFailures(c) \/ Throw(c)
      PROVE  AgesInv'
  <2>1. client' \in [Client -> ClientRecord] /\ fails' \in Aged
    BY <1>0, <1>1, ToIs DEF TestLock, RightPin, ClearFailures, Throw
  <2>2. crossed' \in BOOLEAN /\ wrong' = wrong /\ guessed' \in {guessed, <<>>}
    BY <1>0, <1>1 DEF TestLock, RightPin, ClearFailures, Throw
  <2> QED BY <1>0, <2>1, <2>2 DEF AgesInv
<1>2. ASSUME NEW l, Fresh(l) PROVE Fresh(Newest(Append(l, 0)))
  BY <1>2, AppendIs, NewestIs DEF Fresh
<1>3. ASSUME NEW c \in Client, WrongPin(c) PROVE AgesInv'
  <2>1. client' \in [Client -> ClientRecord]  BY <1>3, ToIs DEF WrongPin
  <2>2. Fresh(guessed')  BY <1>0, <1>2, <1>3 DEF WrongPin
  <2> QED BY <1>0, <1>3, <2>1, <2>2 DEF AgesInv, WrongPin
<1>4. ASSUME NEW c \in Client, RecordRead(c) PROVE AgesInv'
  <2>1. Append(Recent(fails), 0) \in Aged  BY <1>0, ReadIs
  <2>2. client' \in [Client -> ClientRecord]  BY <1>4, <2>1, ToIs DEF RecordRead
  <2>3. Fresh(wrong')  BY <1>0, <1>2, <1>4 DEF RecordRead
  <2> QED BY <1>0, <1>4, <2>2, <2>3 DEF AgesInv, RecordRead
<1>5. ASSUME NEW c \in Client, RecordWrite(c) PROVE AgesInv'
  <2>1. client[c].list \in Aged  BY DEF AgesInv, ClientRecord
  <2>2. client' \in [Client -> ClientRecord]  BY <1>5, ToIs DEF RecordWrite
  <2> QED BY <1>0, <1>5, <2>1, <2>2 DEF AgesInv, RecordWrite
<1>6. CASE Tick
  <2>1. \A c \in Client : client[c] \in ClientRecord /\ Older(client[c].list) \in Aged
    BY OlderIs DEF AgesInv, ClientRecord
  <2>2. \A c \in Client : [client[c] EXCEPT !.list = Older(@)] \in ClientRecord  BY <2>1 DEF ClientRecord
  <2>3. client' \in [Client -> ClientRecord]  BY <1>6, <2>2 DEF Tick
  <2>4. Fresh(wrong') /\ Fresh(guessed')  BY <1>0, <1>6, RecentOlderIs DEF Tick, Fresh
  <2>5. crossed' \in BOOLEAN  BY <1>0, <1>6 DEF Tick
  <2> QED BY <1>6, <2>3, <2>4, <2>5, FailsOlder DEF AgesInv
<1>7. CASE UNCHANGED vars  BY <1>7 DEF vars, AgesInv
<1> QED BY <1>1, <1>3, <1>4, <1>5, <1>6, <1>7 DEF Next

\* Nothing is stored, or about to be, that was not found wrong.
LEMMA NextEarned == ASSUME AgesInv, EarnedInv, [Next]_vars PROVE EarnedInv'
<1>0. /\ fails \in Aged /\ wrong \in Aged /\ \A c \in Client : client[c].list \in Aged
      /\ Covers(wrong, fails) /\ (\A c \in Client : Covers(wrong, client[c].list))
      /\ Covers(wrong, <<>>)
  BY CoversNone DEF AgesInv, EarnedInv, Fresh, ClientRecord
<1>1. ASSUME NEW c \in Client,
             TestLock(c) \/ RightPin(c) \/ WrongPin(c) \/ ClearFailures(c) \/ Throw(c)
      PROVE  EarnedInv'
  <2>1. client'[c].list = <<>> /\ \A d \in Client \ {c} : client'[d] = client[d]
    BY <1>1, ToIs DEF TestLock, RightPin, WrongPin, ClearFailures, Throw
  <2>2. wrong' = wrong /\ fails' \in {fails, <<>>}
    BY <1>1 DEF TestLock, RightPin, WrongPin, ClearFailures, Throw
  <2> QED BY <1>0, <2>1, <2>2 DEF EarnedInv, Covers
<1>2. ASSUME NEW c \in Client, RecordRead(c) PROVE EarnedInv'
  <2>1. /\ client'[c].list = Append(Recent(fails), 0) /\ fails' = fails
        /\ \A d \in Client \ {c} : client'[d] = client[d]
    BY <1>2, ToIs DEF RecordRead
  <2>2. wrong' = Newest(Append(wrong, 0))  BY <1>2 DEF RecordRead
  <2>3. Covers(wrong, Recent(fails)) /\ Recent(fails) \in Aged
    BY <1>0, RecentIs, FirstPlaces DEF Covers
  <2>4. Covers(wrong', fails) /\ Covers(wrong', client'[c].list)
    BY <1>0, <2>1, <2>2, <2>3, CoversMore, CoversBoth
  <2>5. \A d \in Client \ {c} : Covers(wrong', client'[d].list)  BY <1>0, <2>1, <2>2, CoversMore
  <2> QED BY <2>1, <2>4, <2>5 DEF EarnedInv, Covers
<1>3. ASSUME NEW c \in Client, RecordWrite(c) PROVE EarnedInv'
  <2>1. client'[c].list = <<>> /\ \A d \in Client \ {c} : client'[d] = client[d]
    BY <1>3, ToIs DEF RecordWrite
  <2>2. wrong' = wrong /\ fails' = client[c].list  BY <1>3 DEF RecordWrite
  <2> QED BY <1>0, <2>1, <2>2 DEF EarnedInv, Covers
<1>4. CASE Tick
  <2>1. wrong' = Recent(Older(wrong))  BY <1>4 DEF Tick
  <2>2. wrong' \in Aged /\ \A k \in Places : Age(wrong', k) = Age(Older(wrong), k)
    BY <1>0, <2>1, RecentOlderIs DEF Fresh
  <2>3. Covers(wrong', fails')  BY <1>0, <1>4, <2>2, FailsOlder, CoversOlder
  <2>4. ASSUME NEW c \in Client PROVE Covers(wrong', client'[c].list)
    <3>1. client'[c].list = Older(client[c].list)  BY <1>4 DEF Tick, AgesInv, ClientRecord
    <3>2. Older(client[c].list) \in Aged  BY <1>0, OlderIs
    <3> QED BY <1>0, <2>2, <3>1, <3>2, CoversOlder
  <2> QED BY <2>3, <2>4 DEF EarnedInv, Covers
<1>5. CASE UNCHANGED vars  BY <1>5 DEF vars, EarnedInv, Covers
<1> QED BY <1>1, <1>2, <1>3, <1>4, <1>5 DEF Next

\* What LimitInv says of one request.
Keeps(c) ==
  /\ client[c].at = "verify" => Covers(fails, guessed) /\ Len(guessed) < Threshold
  /\ client[c].at = "read" => \A k \in 1..(Threshold - 1) : Age(fails, k) <= Age(guessed, k + 1)
  /\ client[c].at = "write" => Covers(client[c].list, guessed)
  /\ client[c].at = "clear" => guessed = <<>>

\* A step of a request that is alone keeps the limit, when it keeps it for that request.
LEMMA AloneKeeps ==
  ASSUME AgesInv, LimitInv, ~crossed, NEW c \in Client,
         client[c].at # "ready" \/ InFlight = {},
         \A d \in Client \ {c} : client'[d] = client[d],
         Len(guessed') <= Threshold, Keeps(c)',
         client'[c].at = "ready" => Covers(fails', guessed')
  PROVE  LimitInv'
<1>1. \A d \in Client \ {c} : client[d].at = "ready" /\ client'[d].at = "ready"
  BY DEF LimitInv, InFlight
<1>2. \A d, e \in InFlight' : d = e  BY <1>1 DEF InFlight
<1>3. InFlight' = {} => Covers(fails', guessed')  BY DEF InFlight
<1>4. \A d \in Client : Keeps(d)'  BY <1>1 DEF Keeps
<1> QED BY <1>2, <1>3, <1>4 DEF LimitInv, Keeps, Covers

\* The last of a clear list or of a right PIN.
LEMMA NoGuesses == ASSUME NEW w \in Aged PROVE Len(<<>>) <= Threshold /\ Covers(w, <<>>)
BY CoversNone, LimitAssumption

\* Wrong PINs within an hour, one request at a time, never exceed the limit.
LEMMA NextLimit == ASSUME AgesInv, LimitInv, [Next]_vars PROVE LimitInv'
<1> SUFFICES ASSUME ~crossed' PROVE LimitInv'  BY DEF LimitInv
<1>0. /\ fails \in Aged /\ Fresh(guessed) /\ guessed \in Aged /\ Threshold \in Nat \ {0} /\ Window \in Nat
      /\ Len(guessed) \in Nat
  BY LimitAssumption DEF AgesInv, Fresh, Aged, Ages
<1>1. ASSUME NEW c \in Client, TestLock(c) PROVE LimitInv'
  <2>1. ~crossed /\ InFlight = {}  BY <1>1 DEF TestLock, AgesInv
  <2>2. UNCHANGED <<fails, guessed>>  BY <1>1 DEF TestLock
  <2>3. client'[c].at = "verify" /\ \A d \in Client \ {c} : client'[d] = client[d]
    BY <1>1, ToIs DEF TestLock
  <2>4. Covers(fails, guessed)  BY <2>1 DEF LimitInv
  <2>5. Len(guessed) < Threshold
    <3>1. Threshold \in Places /\ Threshold \in 1..Threshold  BY <1>0 DEF Places
    <3>2. ~(Age(fails, Threshold) < Window)  BY <1>0, <1>1, LockedIs DEF TestLock, Locked
    <3>3. Age(fails, Threshold) <= Age(guessed, Threshold)  BY <2>4, <3>1 DEF Covers
    <3>4. Age(fails, Threshold) \in 0..Window /\ Age(guessed, Threshold) \in 0..Window
      BY <1>0, <3>1, AgeIs
    <3>5. ~(Threshold <= Len(guessed))  BY <1>0, <3>1, <3>2, <3>3, <3>4, FreshIs
    <3> QED BY <1>0, <3>5
  <2>6. Keeps(c)'  BY <2>2, <2>3, <2>4, <2>5 DEF Keeps, Covers
  <2>7. Len(guessed') <= Threshold  BY <2>1, <2>2 DEF LimitInv
  <2> QED BY <2>1, <2>3, <2>6, <2>7, AloneKeeps
<1>2. ASSUME NEW c \in Client, RightPin(c) \/ ClearFailures(c) PROVE LimitInv'
  <2>1. ~crossed /\ client[c].at \in {"verify", "clear"}  BY <1>2 DEF RightPin, ClearFailures
  <2>2. client'[c].at \in {"clear", "ready"} /\ \A d \in Client \ {c} : client'[d] = client[d]
    BY <1>2, ToIs DEF RightPin, ClearFailures
  <2>3. guessed' = <<>>  BY <1>2, <2>1 DEF RightPin, ClearFailures, LimitInv
  <2>4. fails' \in Aged  BY <1>0, <1>2, EmptyIs DEF RightPin, ClearFailures
  <2>5. Len(guessed') <= Threshold /\ Covers(fails', guessed')  BY <2>3, <2>4, NoGuesses
  <2>6. Keeps(c)'  BY <2>2, <2>3 DEF Keeps
  <2> QED BY <2>1, <2>2, <2>5, <2>6, AloneKeeps
<1>3. ASSUME NEW c \in Client, WrongPin(c) PROVE LimitInv'
  <2>1. ~crossed /\ client[c].at = "verify" /\ fails' = fails  BY <1>3 DEF WrongPin
  <2>2. client'[c].at = "read" /\ \A d \in Client \ {c} : client'[d] = client[d]
    BY <1>3, ToIs DEF WrongPin
  <2>3. Covers(fails, guessed) /\ Len(guessed) < Threshold  BY <2>1 DEF LimitInv
  <2>4. Append(guessed, 0) \in Aged /\ Len(Append(guessed, 0)) = Len(guessed) + 1  BY <1>0, AppendIs
  <2>5. Len(Append(guessed, 0)) <= Threshold  BY <1>0, <2>3, <2>4
  <2>6. guessed' = Append(guessed, 0)  BY <1>3, <2>4, <2>5, NewestIs DEF WrongPin
  <2>7. ASSUME NEW k \in 1..(Threshold - 1) PROVE Age(fails, k) <= Age(guessed', k + 1)
    <3>1. k \in Places /\ k \in 1..Threshold  BY <1>0 DEF Places
    <3> QED BY <1>0, <2>3, <2>6, <3>1, AppendIs DEF Covers
  <2>8. Keeps(c)'  BY <2>1, <2>2, <2>7 DEF Keeps
  <2> QED BY <2>1, <2>2, <2>5, <2>6, <2>8, AloneKeeps
<1>4. ASSUME NEW c \in Client, RecordRead(c) PROVE LimitInv'
  <2>1. ~crossed /\ client[c].at = "read" /\ UNCHANGED <<fails, guessed>>  BY <1>4 DEF RecordRead
  <2>2. /\ client'[c].at = "write" /\ client'[c].list = Append(Recent(fails), 0)
        /\ \A d \in Client \ {c} : client'[d] = client[d]
    BY <1>4, ToIs DEF RecordRead
  <2>3. ASSUME NEW k \in 1..Threshold PROVE Age(client'[c].list, k) <= Age(guessed, k)
    <3>1. k \in Places /\ Age(guessed, k) \in 0..Window  BY <1>0, FirstPlaces, AgeIs
    <3>2. CASE k = 1  BY <1>0, <2>2, <3>1, <3>2, ReadIs
    <3>3. CASE k # 1
      <4>1. k - 1 \in Places /\ k - 1 \in 1..(Threshold - 1) /\ (k - 1) + 1 = k  BY <1>0, <3>3 DEF Places
      <4>2. Age(client'[c].list, k) = Age(fails, k - 1)  BY <1>0, <2>2, <4>1, ReadIs
      <4>3. Age(fails, k - 1) <= Age(guessed, k)
        <5>1. \A h \in 1..(Threshold - 1) : Age(fails, h) <= Age(guessed, h + 1)  BY <2>1 DEF LimitInv
        <5>2. Age(fails, k - 1) <= Age(guessed, (k - 1) + 1)  BY <4>1, <5>1
        <5> QED BY <4>1, <5>2
      <4> QED BY <4>2, <4>3
    <3> QED BY <3>2, <3>3
  <2>4. Keeps(c)'  BY <2>1, <2>2, <2>3 DEF Keeps, Covers
  <2>5. Len(guessed') <= Threshold  BY <2>1 DEF LimitInv
  <2> QED BY <2>1, <2>2, <2>4, <2>5, AloneKeeps
<1>5. ASSUME NEW c \in Client, RecordWrite(c) PROVE LimitInv'
  <2>1. ~crossed /\ client[c].at = "write" /\ guessed' = guessed /\ fails' = client[c].list
    BY <1>5 DEF RecordWrite
  <2>2. client'[c].at = "ready" /\ \A d \in Client \ {c} : client'[d] = client[d]
    BY <1>5, ToIs DEF RecordWrite
  <2>3. Covers(client[c].list, guessed) /\ Len(guessed) <= Threshold  BY <2>1 DEF LimitInv
  <2>4. Keeps(c)'  BY <2>2 DEF Keeps
  <2> QED BY <2>1, <2>2, <2>3, <2>4, AloneKeeps
<1>6. ASSUME NEW c \in Client, Throw(c) PROVE LimitInv'  BY <1>6 DEF Throw
<1>7. CASE Tick
  <2>1. /\ InFlight' = InFlight
        /\ \A c \in Client : client'[c].at = client[c].at /\ client'[c].list = Older(client[c].list)
              /\ client[c].list \in Aged
    BY <1>7 DEF Tick, AgesInv, ClientRecord, InFlight
  <2>2. Fresh(guessed') /\ \A k \in Places : Age(guessed', k) = Age(Older(guessed), k)
    BY <1>0, <1>7, RecentOlderIs DEF Tick
  <2>3. guessed' \in Aged  BY <2>2 DEF Fresh
  <2>4. fails' \in Aged /\ \A k \in Places : Age(fails', k) = Age(Older(fails), k)  BY <1>7, FailsOlder
  <2>5. ASSUME crossed PROVE LimitInv'
    <3>1. guessed' = <<>> /\ InFlight = {}  BY <1>7, <2>5 DEF Tick
    <3>2. \A c \in Client : client'[c].at = "ready"  BY <2>1, <3>1 DEF InFlight
    <3>3. Len(guessed') <= Threshold /\ Covers(fails', guessed')  BY <2>4, <3>1, NoGuesses
    <3> QED BY <2>1, <3>1, <3>2, <3>3 DEF LimitInv, Covers
  <2>6. ASSUME ~crossed PROVE LimitInv'
    <3>1. Len(guessed) <= Threshold /\ \A c, d \in InFlight : c = d  BY <2>6 DEF LimitInv
    <3>2. \A k \in Places : k <= Len(guessed') => k <= Len(guessed)
      <4> SUFFICES ASSUME NEW k \in Places, k <= Len(guessed') PROVE k <= Len(guessed)  OBVIOUS
      <4>1. Age(guessed', k) < Window  BY <2>2, FreshIs
      <4>2. Age(guessed, k) < Window  BY <1>0, <2>2, <4>1, OlderIs
      <4> QED BY <1>0, <4>2, FreshIs
    <3>3. Len(guessed') <= Len(guessed)
      <4>1. Len(guessed') \in Nat  BY <2>3, FirstPlaces, AgeIs, <1>0 DEF Places
      <4>2. CASE Len(guessed') = 0  BY <1>0, <4>2
      <4>3. CASE Len(guessed') # 0
        <5>1. Len(guessed') \in Places /\ Len(guessed') <= Len(guessed')  BY <4>1, <4>3 DEF Places
        <5> QED BY <3>2, <5>1
      <4> QED BY <4>2, <4>3
    <3>4. Len(guessed') \in Nat  BY <2>3, <1>0 DEF Aged, Ages
    <3>5. Covers(fails, guessed) => Covers(fails', guessed')
      BY <1>0, <2>2, <2>3, <2>4, CoversOlder
    <3>6. ASSUME NEW c \in Client PROVE Keeps(c)'
      <4>1. CASE client[c].at = "verify"
        <5>1. Covers(fails, guessed) /\ Len(guessed) < Threshold  BY <2>6, <4>1 DEF LimitInv
        <5>2. Covers(fails', guessed') /\ Len(guessed') < Threshold  BY <1>0, <3>3, <3>4, <3>5, <5>1
        <5> QED BY <2>1, <4>1, <5>2 DEF Keeps, Covers
      <4>2. CASE client[c].at = "read"
        <5>1. ASSUME NEW k \in 1..(Threshold - 1) PROVE Age(fails', k) <= Age(guessed', k + 1)
          <6>1. k \in Places /\ k + 1 \in Places  BY <1>0 DEF Places
          <6>2. Age(fails, k) <= Age(guessed, k + 1)  BY <2>6, <4>2 DEF LimitInv
          <6>3. Age(fails, k) \in 0..Window /\ Age(guessed, k + 1) \in 0..Window  BY <1>0, <6>1, AgeIs
          <6>4. /\ Age(fails', k) = IF Age(fails, k) < Window THEN Age(fails, k) + 1 ELSE Window
                /\ Age(guessed', k + 1) = IF Age(guessed, k + 1) < Window THEN Age(guessed, k + 1) + 1
                                                                          ELSE Window
            BY <1>0, <2>2, <2>4, <6>1, OlderIs
          <6> QED BY <1>0, <6>2, <6>3, <6>4
        <5> QED BY <2>1, <4>2, <5>1 DEF Keeps
      <4>3. CASE client[c].at = "write"
        <5>1. Covers(client[c].list, guessed)  BY <2>6, <4>3 DEF LimitInv
        <5>2. Older(client[c].list) \in Aged  BY <2>1, OlderIs
        <5>3. Covers(client'[c].list, guessed')  BY <1>0, <2>1, <2>2, <2>3, <5>1, <5>2, CoversOlder
        <5> QED BY <2>1, <4>3, <5>3 DEF Keeps, Covers
      <4>4. CASE client[c].at = "clear"
        <5>1. Len(guessed) = 0  BY <2>6, <4>4 DEF LimitInv
        <5>2. Len(guessed') = 0  BY <3>3, <3>4, <5>1
        <5>3. guessed' = <<>>  BY <2>3, <5>2 DEF Aged, Ages
        <5> QED BY <2>1, <4>4, <5>3 DEF Keeps
      <4>5. CASE client[c].at = "ready"  BY <2>1, <4>5 DEF Keeps
      <4> QED BY <4>1, <4>2, <4>3, <4>4, <4>5 DEF AgesInv, ClientRecord, Steps
    <3>7. InFlight' = {} => Covers(fails', guessed')  BY <2>1, <2>6, <3>5 DEF LimitInv
    <3>8. Len(guessed') <= Threshold  BY <1>0, <3>1, <3>3, <3>4
    <3> QED BY <2>1, <3>1, <3>6, <3>7, <3>8 DEF LimitInv, Keeps, Covers
  <2> QED BY <2>5, <2>6 DEF AgesInv
<1>8. CASE UNCHANGED vars  BY <1>8 DEF vars, LimitInv, InFlight, Covers
<1> QED BY <1>1, <1>2, <1>3, <1>4, <1>5, <1>6, <1>7, <1>8 DEF Next

LEMMA Invariance == Spec => []IInv
<1>1. IInv /\ [Next]_vars => IInv'  BY NextAges, NextEarned, NextLimit DEF IInv
<1> QED BY <1>1, InitIInv, PTL DEF Spec

\* The lists and the requests keep their types, whatever a request reads and writes back.
THEOREM TypesHold == Spec => []TypeOK
<1>1. IInv => TypeOK  BY DEF IInv, AgesInv, TypeOK, Fresh, Aged, ClientRecord, Steps
<1> QED BY <1>1, Invariance, PTL

\* Nobody is locked out of a switch who did not have so many PINs found wrong within the hour,
\* whatever lists overlapping requests read and write back (ratelimit.ts:14-29).
THEOREM LocksAreEarned == Spec => []LockIsEarned
<1>1. IInv => LockIsEarned
  <2> SUFFICES ASSUME IInv, Locked PROVE Len(wrong) >= Threshold  BY DEF LockIsEarned
  <2>1. /\ fails \in Aged /\ wrong \in Aged /\ Fresh(wrong) /\ Covers(wrong, fails)
        /\ Threshold \in Places /\ Threshold \in 1..Threshold /\ Window \in Nat
    BY LimitAssumption DEF IInv, AgesInv, EarnedInv, Fresh, Places
  <2>2. Age(fails, Threshold) < Window  BY <2>1, LockedIs DEF Locked
  <2>3. Age(wrong, Threshold) <= Age(fails, Threshold)  BY <2>1 DEF Covers
  <2>4. Age(wrong, Threshold) \in 0..Window /\ Age(fails, Threshold) \in 0..Window
        /\ Len(wrong) \in Nat /\ Threshold \in Nat
    BY <2>1, AgeIs DEF Places
  <2>5. Threshold <= Len(wrong)  BY <2>1, <2>2, <2>3, <2>4, FreshIs
  <2> QED BY <2>4, <2>5
<1> QED BY <1>1, Invariance, PTL

\* Requests that come one after the other have no more PINs found wrong than the limit, between
\* two right ones or within an hour (ratelimit.ts:1-2).
THEOREM GuessesAreLimited == Spec => []GuessesLimited
<1>1. IInv => GuessesLimited  BY DEF IInv, LimitInv, GuessesLimited
<1> QED BY <1>1, Invariance, PTL
=============================================================================
