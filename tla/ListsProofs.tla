---------------------------- MODULE ListsProofs ----------------------------
(***************************************************************************)
(* What Keep returns, for any list and any set, and what any recursion     *)
(* over a list rests on.  The provers cannot use the induction theorems of *)
(* the library, which take an operator for a parameter; the well-ordering  *)
(* of the numbers they can.                                                *)
(***************************************************************************)
EXTENDS Lists, SequenceTheorems, FiniteSetTheorems, TLAPS

-----------------------------------------------------------------------------
(* Induction over the numbers                                               *)

\* A set of numbers that is not empty has a least one.
LEMMA LeastExists == ASSUME NEW T \in SUBSET Nat, T # {} PROVE \E n \in T : \A m \in T : n <= m
<1> DEFINE less == {p \in Nat \X Nat : p[1] < p[2]}
<1>1. IsWellFoundedOn(less, Nat)  BY NatLessThanWellFounded DEF OpToRel
<1>2. PICK n \in T : \A m \in T : ~(<<m, n>> \in less)
  <2> HIDE DEF less
  <2> QED BY <1>1, WFMin
<1>3. \A m \in T : ~(m < n)  BY <1>2
<1> QED BY <1>3

\* A set that has 0, and the next number with each that it has, has them all.
LEMMA Induction ==
  ASSUME NEW T, 0 \in T, \A n \in Nat : n \in T => n + 1 \in T
  PROVE  Nat \subseteq T
<1> DEFINE bad == Nat \ T
<1> SUFFICES ASSUME bad # {} PROVE FALSE  OBVIOUS
<1>1. PICK n \in bad : \A m \in bad : n <= m  BY LeastExists
<1>2. n \in Nat /\ n # 0  BY <1>1
<1>3. n - 1 \in Nat /\ ~(n <= n - 1) /\ (n - 1) + 1 = n  BY <1>2
<1>4. n - 1 \in T  BY <1>1, <1>3
<1> QED BY <1>1, <1>3, <1>4

-----------------------------------------------------------------------------
(* The recursion of Keep                                                    *)

\* A value that is made anew with each number, up to n, is a function of the number.
Folded(V, base, n, step) ==
  \E f \in [0..n -> V] : f[0] = base /\ \A i \in 1..n : f[i] = step[<<i, f[i - 1]>>]

LEMMA FoldExists ==
  ASSUME NEW V, NEW base \in V, NEW n \in Nat, NEW step \in [(1..n) \X V -> V]
  PROVE  Folded(V, base, n, step)
<1> DEFINE Upto(m)  == \E f \in [0..m -> V] : f[0] = base /\ \A i \in 1..m : f[i] = step[<<i, f[i - 1]>>]
           solved   == {m \in Nat : m <= n => Upto(m)}
<1>1. 0 \in solved
  <2> DEFINE f == [i \in 0..0 |-> base]
  <2>1. f \in [0..0 -> V] /\ f[0] = base /\ \A i \in 1..0 : f[i] = step[<<i, f[i - 1]>>]  OBVIOUS
  <2> QED BY <2>1
<1>2. ASSUME NEW m \in Nat, m \in solved, m + 1 <= n PROVE Upto(m + 1)
  <2>1. PICK f \in [0..m -> V] : f[0] = base /\ \A i \in 1..m : f[i] = step[<<i, f[i - 1]>>]  BY <1>2
  <2> DEFINE g == [i \in 0..(m + 1) |-> IF i = m + 1 THEN step[<<m + 1, f[m]>>] ELSE f[i]]
  <2>2. step[<<m + 1, f[m]>>] \in V
    <3>1. <<m + 1, f[m]>> \in (1..n) \X V  BY <1>2
    <3> QED BY <3>1
  <2>3. \A i \in 0..(m + 1) : i = m + 1 \/ i \in 0..m  BY <1>2
  <2>4. g \in [0..(m + 1) -> V]  BY <2>2, <2>3
  <2>5. g[0] = base  BY <1>2, <2>1
  <2>6. ASSUME NEW i \in 1..(m + 1) PROVE g[i] = step[<<i, g[i - 1]>>]
    <3>1. i \in 0..(m + 1) /\ i - 1 \in 0..(m + 1) /\ i - 1 \in 0..m /\ i - 1 # m + 1  BY <1>2
    <3>2. g[i - 1] = f[i - 1]  BY <3>1
    <3>3. CASE i = m + 1
      <4>1. i - 1 = m /\ g[i] = step[<<m + 1, f[m]>>]  BY <1>2, <3>1, <3>3
      <4> QED BY <3>2, <3>3, <4>1
    <3>4. CASE i # m + 1
      <4>1. i \in 1..m /\ g[i] = f[i]  BY <1>2, <3>1, <3>4
      <4> QED BY <2>1, <3>2, <4>1
    <3> QED BY <3>3, <3>4
  <2> HIDE DEF g
  <2> QED BY <2>4, <2>5, <2>6
<1>3. Nat \subseteq solved
  <2>1. \A m \in Nat : m \in solved => m + 1 \in solved
    <3>1. ASSUME NEW m \in Nat, m \in solved PROVE m + 1 \in solved
      <4>1. m + 1 \in Nat /\ (m + 1 <= n => Upto(m + 1))  BY <1>2, <3>1
      <4> HIDE DEF Upto
      <4> QED BY <4>1
    <3> HIDE DEF solved
    <3> QED BY <3>1
  <2> HIDE DEF solved
  <2> QED BY <1>1, <2>1, Induction
<1>4. n <= n /\ n \in solved  BY <1>3
<1> HIDE DEF Upto
<1>5. Upto(n)  BY <1>4
<1> QED BY <1>5 DEF Upto, Folded

\* What f[i] is to be: what is kept of the first i elements.
Kept(f, list, S, i) ==
  IF i = 0 THEN <<>>
  ELSE IF list[i] \in S THEN Append(f[i - 1], list[i]) ELSE f[i - 1]

\* So that Keep is what its recursion says.
LEMMA KeepIs ==
  ASSUME NEW T, NEW list \in Seq(T), NEW S
  PROVE  \E f : Keep(list, S) = f[Len(list)] /\ \A i \in 0..Len(list) : f[i] = Kept(f, list, S, i)
<1> DEFINE n    == Len(list)
           step == [p \in (1..n) \X Seq(T) |-> IF list[p[1]] \in S THEN Append(p[2], list[p[1]]) ELSE p[2]]
<1>0. n \in Nat /\ \A i \in 1..n : list[i] \in T  OBVIOUS
<1>1. step \in [(1..n) \X Seq(T) -> Seq(T)]
  <2>1. ASSUME NEW p \in (1..n) \X Seq(T)
        PROVE  (IF list[p[1]] \in S THEN Append(p[2], list[p[1]]) ELSE p[2]) \in Seq(T)
    <3>1. p[1] \in 1..n /\ p[2] \in Seq(T)  OBVIOUS
    <3>2. list[p[1]] \in T  BY <1>0, <3>1
    <3> QED BY <3>1, <3>2, AppendProperties
  <2> QED BY <2>1
<1> HIDE DEF n
<1>2. PICK f \in [0..n -> Seq(T)] : f[0] = <<>> /\ \A i \in 1..n : f[i] = step[<<i, f[i - 1]>>]
  <2> HIDE DEF step
  <2>1. <<>> \in Seq(T)  OBVIOUS
  <2>2. Folded(Seq(T), <<>>, n, step)  BY <1>0, <1>1, <2>1, FoldExists
  <2> QED BY <2>2 DEF Folded
<1>3. f = [i \in 0..n |-> Kept(f, list, S, i)]
  <2>1. f = [i \in 0..n |-> f[i]]  OBVIOUS
  <2>2. ASSUME NEW i \in 0..n PROVE f[i] = Kept(f, list, S, i)
    <3>1. CASE i = 0  BY <1>2, <3>1 DEF Kept
    <3>2. CASE i # 0
      <4>1. i \in 1..n /\ i - 1 \in 0..n  BY <1>0, <3>2
      <4>2. <<i, f[i - 1]>> \in (1..n) \X Seq(T)  BY <4>1
      <4>3. f[i] = IF list[i] \in S THEN Append(f[i - 1], list[i]) ELSE f[i - 1]  BY <1>2, <4>1, <4>2
      <4> QED BY <3>2, <4>3 DEF Kept
    <3> QED BY <3>1, <3>2
  <2>3. \A i \in 0..n : f[i] = Kept(f, list, S, i)  BY <2>2
  <2> HIDE DEF step
  <2> QED BY <2>1, <2>3
<1> DEFINE k == CHOOSE g : g = [i \in 0..n |-> Kept(g, list, S, i)]
<1>4. k = [i \in 0..n |-> Kept(k, list, S, i)]  BY <1>3
<1>5. Keep(list, S) = k[n]  BY DEF Keep, Kept, n
<1> HIDE DEF k
<1> QED BY <1>4, <1>5 DEF n

-----------------------------------------------------------------------------
(* What is kept                                                             *)

\* The first i elements of a list.
Among(list, i) == {list[j] : j \in 1..i}

\* What Keep has built after i elements: their members of S, each once if the list has
\* each once.
Built(f, list, S, T, i) ==
  /\ f[i] \in Seq(T) /\ Range(f[i]) = Among(list, i) \cap S
  /\ IsInjective(list) => IsInjective(f[i])

\* Appending what a list does not have yet.
LEMMA AppendHas ==
  ASSUME NEW T, NEW list \in Seq(T), NEW x \in T
  PROVE  /\ Append(list, x) \in Seq(T) /\ Range(Append(list, x)) = Range(list) \cup {x}
         /\ IsInjective(list) /\ x \notin Range(list) => IsInjective(Append(list, x))
<1> DEFINE l == Append(list, x)
<1>1. /\ l \in Seq(T) /\ Len(l) = Len(list) + 1 /\ Len(list) \in Nat
      /\ (\A i \in 1..Len(list) : l[i] = list[i]) /\ l[Len(list) + 1] = x
  BY AppendProperties
<1>2. DOMAIN l = 1..(Len(list) + 1) /\ DOMAIN list = 1..Len(list)  BY <1>1
<1> HIDE DEF l
<1>3. \A i \in DOMAIN l : i = Len(list) + 1 \/ i \in DOMAIN list  BY <1>1, <1>2
<1>4. Len(list) + 1 \in DOMAIN l /\ \A i \in DOMAIN list : i \in DOMAIN l /\ l[i] = list[i]
  BY <1>1, <1>2
<1>5. Range(l) = Range(list) \cup {x}  BY <1>1, <1>3, <1>4 DEF Range
<1>6. ASSUME IsInjective(list), x \notin Range(list) PROVE IsInjective(l)
  BY <1>1, <1>3, <1>4, <1>6 DEF IsInjective, Range
<1> QED BY <1>1, <1>5, <1>6 DEF l

\* The members of S, in a sequence of the same type, each once if the list has each once.
LEMMA KeepHas ==
  ASSUME NEW T, NEW list \in Seq(T), NEW S
  PROVE  /\ Keep(list, S) \in Seq(T) /\ Range(Keep(list, S)) = Range(list) \cap S
         /\ IsInjective(list) => IsInjective(Keep(list, S))
<1>0. Len(list) \in Nat /\ DOMAIN list = 1..Len(list) /\ \A i \in 1..Len(list) : list[i] \in T
  OBVIOUS
<1>1. PICK f : Keep(list, S) = f[Len(list)] /\ \A i \in 0..Len(list) : f[i] = Kept(f, list, S, i)
  BY KeepIs
<1> DEFINE good == {n \in Nat : n <= Len(list) => Built(f, list, S, T, n)}
<1>2. 0 \in good
  <2>1. f[0] = <<>>  BY <1>0, <1>1 DEF Kept
  <2>2. <<>> \in Seq(T) /\ Range(<<>>) = {} /\ IsInjective(<<>>)  BY DEF Range, IsInjective
  <2>3. Among(list, 0) = {}  BY DEF Among
  <2> QED BY <2>1, <2>2, <2>3 DEF Built
<1>3. ASSUME NEW n \in Nat, n \in good, n + 1 <= Len(list) PROVE Built(f, list, S, T, n + 1)
  <2>0. n + 1 \in 1..Len(list) /\ n + 1 \in 0..Len(list) /\ n + 1 # 0 /\ (n + 1) - 1 = n /\ n <= Len(list)
    BY <1>0, <1>3
  <2>1. Built(f, list, S, T, n)  BY <1>3, <2>0
  <2>2. f[n + 1] = IF list[n + 1] \in S THEN Append(f[n], list[n + 1]) ELSE f[n]
    BY <1>1, <2>0 DEF Kept
  <2>3. Among(list, n + 1) = Among(list, n) \cup {list[n + 1]}
    <3>1. \A j \in 1..(n + 1) : j \in 1..n \/ j = n + 1  BY <1>3
    <3>2. n + 1 \in 1..(n + 1) /\ \A j \in 1..n : j \in 1..(n + 1)  BY <1>3
    <3> QED BY <3>1, <3>2 DEF Among
  <2>4. IsInjective(list) => list[n + 1] \notin Among(list, n)
    <3>1. \A j \in 1..n : j \in DOMAIN list /\ j # n + 1  BY <1>0, <1>3
    <3> QED BY <1>0, <2>0, <3>1 DEF IsInjective, Among
  <2>5. CASE list[n + 1] \in S
    <3>1. list[n + 1] \in T /\ f[n] \in Seq(T)  BY <1>0, <2>0, <2>1 DEF Built
    <3>2. /\ f[n + 1] \in Seq(T) /\ Range(f[n + 1]) = Range(f[n]) \cup {list[n + 1]}
          /\ IsInjective(f[n]) /\ list[n + 1] \notin Range(f[n]) => IsInjective(f[n + 1])
      BY <2>2, <2>5, <3>1, AppendHas
    <3> QED BY <2>1, <2>3, <2>4, <2>5, <3>2 DEF Built
  <2>6. CASE list[n + 1] \notin S
    BY <2>1, <2>2, <2>3, <2>6 DEF Built
  <2> QED BY <2>5, <2>6
<1>4. Nat \subseteq good
  <2>1. \A n \in Nat : n \in good => n + 1 \in good  BY <1>3
  <2> HIDE DEF good
  <2> QED BY <1>2, <2>1, Induction
<1>5. Built(f, list, S, T, Len(list))  BY <1>0, <1>4
<1>6. Among(list, Len(list)) = Range(list)  BY <1>0 DEF Among, Range
<1> QED BY <1>1, <1>5, <1>6 DEF Built

\* A list that has each element once is as long as the set of them.
LEMMA LengthIs ==
  ASSUME NEW T, NEW list \in Seq(T), IsInjective(list)
  PROVE  IsFiniteSet(Range(list)) /\ Cardinality(Range(list)) = Len(list)
<1>1. Len(list) \in Nat /\ DOMAIN list = 1..Len(list) /\ list = [i \in 1..Len(list) |-> list[i]]  OBVIOUS
<1>2. IsFiniteSet(1..Len(list)) /\ Cardinality(1..Len(list)) = Len(list)
  <2> DEFINE n == Len(list)
  <2>1. 1 \in Int /\ n \in Int  BY <1>1
  <2> HIDE DEF n
  <2>2. IsFiniteSet(1..n) /\ Cardinality(1..n) = IF 1 > n THEN 0 ELSE n - 1 + 1  BY <2>1, FS_Interval
  <2>3. (IF 1 > n THEN 0 ELSE n - 1 + 1) = n  BY <1>1 DEF n
  <2> QED BY <2>2, <2>3 DEF n
<1>3. list \in [1..Len(list) -> Range(list)]  BY <1>1 DEF Range
<1>4. \A y \in Range(list) : \E i \in 1..Len(list) : list[i] = y  BY <1>1 DEF Range
<1>5. list \in Bijection(1..Len(list), Range(list))  BY <1>3, <1>4 DEF Bijection, Injection, Surjection
<1> QED BY <1>2, <1>5, FS_Bijection DEF ExistsBijection

\* Without one of its elements such a list is shorter by one.
LEMMA KeepButOne ==
  ASSUME NEW T, NEW list \in Seq(T), IsInjective(list), NEW x \in Range(list)
  PROVE  Len(Keep(list, Range(list) \ {x})) = Len(list) - 1
<1> DEFINE kept == Keep(list, Range(list) \ {x})
<1>1. kept \in Seq(T) /\ IsInjective(kept) /\ Range(kept) = Range(list) \ {x}  BY KeepHas
<1> HIDE DEF kept
<1>2. Len(kept) = Cardinality(Range(list) \ {x})  BY <1>1, LengthIs
<1>3. IsFiniteSet(Range(list)) /\ Cardinality(Range(list)) = Len(list)  BY LengthIs
<1>4. Cardinality(Range(list) \ {x}) = Cardinality(Range(list)) - 1  BY <1>3, FS_RemoveElement
<1> QED BY <1>2, <1>3, <1>4 DEF kept
=============================================================================
