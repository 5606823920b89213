---------------------------- MODULE SequenceFacts ----------------------------
(***************************************************************************)
(* Facts about numbers, sequences and the operators of the community       *)
(* modules that the proofs of several components need.                     *)
(***************************************************************************)
EXTENDS Integers, Sequences, FiniteSets, SequencesExt, FiniteSetTheorems, WellFoundedInduction,
        TLAPS

\* A set of natural numbers has a least element, which is how induction is done here
LEMMA LeastNumber ==
  ASSUME NEW S, S \subseteq Nat, S # {}
  PROVE  \E n \in S : \A m \in S : n <= m
<1> DEFINE R == {ss \in Nat \X Nat : ss[1] < ss[2]}
<1>1. R = OpToRel(<, Nat)
  BY DEF OpToRel
<1>2. IsWellFoundedOn(R, Nat)
  BY <1>1, NatLessThanWellFounded
<1>3. PICK n \in S : \A m \in S : ~(<<m, n>> \in R)
  <2> HIDE DEF R
  <2> QED
    BY <1>2, WFMin
<1>4. \A m \in S : ~(m < n)
  BY <1>3
<1> QED
  BY <1>4

\* The function that FlattenSeq defines by recursion, up to n
Flattens(f, seqs, n) == f = [i \in 1..n |-> IF i = 1 THEN seqs[i] ELSE f[i - 1] \o seqs[i]]

\* It exists
LEMMA FlattenExists ==
  ASSUME NEW seqs, NEW len \in Nat \ {0}
  PROVE  \E f : Flattens(f, seqs, len)
<1> DEFINE Bad == {n \in Nat \ {0} : ~\E f : Flattens(f, seqs, n)}
<1> SUFFICES ASSUME Bad # {} PROVE FALSE
  OBVIOUS
<1>1. PICK n \in Bad : \A m \in Bad : n <= m
  BY LeastNumber
<1>2. CASE n = 1
  <2> DEFINE f == [i \in 1..1 |-> seqs[i]]
  <2>1. f = [i \in 1..1 |-> IF i = 1 THEN seqs[i] ELSE f[i - 1] \o seqs[i]]
    OBVIOUS
  <2> QED
    BY <1>2, <2>1 DEF Flattens
<1>3. CASE n # 1
  <2>1. n - 1 \in Nat \ {0} /\ n - 1 \notin Bad
    BY <1>1, <1>3
  <2>2. PICK f : Flattens(f, seqs, n - 1)
    BY <2>1
  <2> DEFINE g == [i \in 1..n |-> IF i = n THEN f[n - 1] \o seqs[n] ELSE f[i]]
  <2>3. f = [i \in 1..(n - 1) |-> IF i = 1 THEN seqs[i] ELSE f[i - 1] \o seqs[i]]
    BY <2>2 DEF Flattens
  <2>4. ASSUME NEW i \in 1..n
        PROVE  g[i] = IF i = 1 THEN seqs[i] ELSE g[i - 1] \o seqs[i]
    <3>1. CASE i = n
      <4>1. n - 1 \in 1..n /\ n - 1 # n /\ n \in 1..n
        BY <2>1
      <4>2. g[n - 1] = f[n - 1]
        BY <4>1
      <4>3. g[n] = f[n - 1] \o seqs[n]
        BY <4>1
      <4> QED
        BY <1>3, <3>1, <4>2, <4>3
    <3>2. CASE i # n
      <4>1. i \in 1..(n - 1) /\ g[i] = f[i] /\ (i # 1 => i - 1 \in 1..n /\ i - 1 # n)
        BY <2>1, <3>2
      <4>2. f[i] = IF i = 1 THEN seqs[i] ELSE f[i - 1] \o seqs[i]
        BY <2>3, <4>1
      <4> QED
        BY <4>1, <4>2
    <3> QED
      BY <3>1, <3>2
  <2>5. g = [i \in 1..n |-> IF i = 1 THEN seqs[i] ELSE g[i - 1] \o seqs[i]]
    <3> DEFINE h == [i \in 1..n |-> IF i = 1 THEN seqs[i] ELSE g[i - 1] \o seqs[i]]
    <3>1. \A i \in 1..n : g[i] = h[i]
      BY <2>4
    <3> QED
      BY <3>1
  <2>6. Flattens(g, seqs, n)
    BY <2>5 DEF Flattens
  <2> QED
    BY <2>6
<1> QED
  BY <1>2, <1>3

\* The elements of a concatenation
LEMMA ConcatSet ==
  ASSUME NEW T, NEW s \in Seq(T), NEW t \in Seq(T)
  PROVE  s \o t \in Seq(T) /\ ToSet(s \o t) = ToSet(s) \cup ToSet(t)
<1>1. /\ s \o t \in Seq(T) /\ Len(s \o t) = Len(s) + Len(t)
      /\ \A i \in 1..Len(s) : (s \o t)[i] = s[i]
      /\ \A i \in 1..Len(t) : (s \o t)[Len(s) + i] = t[i]
  OBVIOUS
<1>2. ToSet(s \o t) \subseteq ToSet(s) \cup ToSet(t)
  <2> SUFFICES ASSUME NEW i \in 1..(Len(s) + Len(t))
               PROVE  (s \o t)[i] \in ToSet(s) \cup ToSet(t)
    BY <1>1 DEF ToSet
  <2>1. CASE i <= Len(s)
    BY <1>1, <2>1 DEF ToSet
  <2>2. CASE i > Len(s)
    <3>1. i - Len(s) \in 1..Len(t) /\ i = Len(s) + (i - Len(s))
      BY <2>2
    <3>2. (s \o t)[i] = t[i - Len(s)]
      BY <1>1, <3>1
    <3> QED
      BY <3>1, <3>2 DEF ToSet
  <2> QED
    BY <2>1, <2>2
<1> DEFINE u == s \o t
<1>3. /\ DOMAIN u = 1..(Len(s) + Len(t))
      /\ \A i \in 1..Len(s) : u[i] = s[i]
      /\ \A i \in 1..Len(t) : u[Len(s) + i] = t[i]
  BY <1>1
<1>4. /\ DOMAIN s = 1..Len(s) /\ DOMAIN t = 1..Len(t)
      /\ Len(s) \in Nat /\ Len(t) \in Nat
  OBVIOUS
<1>5. ToSet(s) \cup ToSet(t) \subseteq ToSet(u)
  <2> HIDE DEF u
  <2>1. ASSUME NEW i \in 1..(Len(s) + Len(t)) PROVE u[i] \in ToSet(u)
    BY <1>3 DEF ToSet
  <2>2. ASSUME NEW i \in 1..Len(s) PROVE s[i] \in ToSet(u)
    <3>1. i \in 1..(Len(s) + Len(t)) /\ u[i] = s[i]
      BY <1>3, <1>4
    <3> QED
      BY <2>1, <3>1
  <2>3. ASSUME NEW i \in 1..Len(t) PROVE t[i] \in ToSet(u)
    <3>1. Len(s) + i \in 1..(Len(s) + Len(t)) /\ u[Len(s) + i] = t[i]
      BY <1>3, <1>4
    <3> QED
      BY <2>1, <3>1
  <2>4. ToSet(s) = {s[i] : i \in 1..Len(s)} /\ ToSet(t) = {t[i] : i \in 1..Len(t)}
    BY <1>4 DEF ToSet
  <2> QED
    BY <2>2, <2>3, <2>4
<1> QED
  BY <1>1, <1>2, <1>5

\* A sequence with the elements of the first n ones
Merges(prog, T, seqs, n) ==
  prog \in Seq(T) /\ ToSet(prog) = UNION {ToSet(seqs[i]) : i \in 1..n}

\* The values of that function are such
LEMMA FlattenPrefix ==
  ASSUME NEW T, NEW seqs \in Seq(Seq(T)), NEW f, Flattens(f, seqs, Len(seqs)),
         NEW len \in 1..Len(seqs)
  PROVE  Merges(f[len], T, seqs, len)
<1> DEFINE Part(n) == UNION {ToSet(seqs[i]) : i \in 1..n}
<1> DEFINE Bad == {n \in 1..Len(seqs) : ~(f[n] \in Seq(T) /\ ToSet(f[n]) = Part(n))}
<1>1. \A i \in 1..Len(seqs) : f[i] = IF i = 1 THEN seqs[i] ELSE f[i - 1] \o seqs[i]
  <2>1. f = [i \in 1..Len(seqs) |-> IF i = 1 THEN seqs[i] ELSE f[i - 1] \o seqs[i]]
    BY DEF Flattens
  <2> QED
    BY <2>1
<1>2. \A i \in 1..Len(seqs) : seqs[i] \in Seq(T)
  OBVIOUS
<1>3. ASSUME Bad # {} PROVE FALSE
  <2>1. PICK n \in Bad : \A m \in Bad : n <= m
    <3>1. Bad \subseteq Nat
      OBVIOUS
    <3> QED
      BY <1>3, <3>1, LeastNumber
  <2>2. CASE n = 1
    <3>1. f[1] = seqs[1] /\ seqs[1] \in Seq(T)
      BY <1>1, <1>2, <2>1, <2>2
    <3>2. Part(1) = ToSet(seqs[1])
      OBVIOUS
    <3> QED
      BY <2>1, <2>2, <3>1, <3>2
  <2>3. CASE n # 1
    <3>1. n - 1 \in 1..Len(seqs) /\ n - 1 \notin Bad /\ n \in 1..Len(seqs)
      <4>1. n \in 1..Len(seqs) /\ Len(seqs) \in Nat
        BY <2>1
      <4>2. n - 1 \in 1..Len(seqs)
        BY <2>3, <4>1
      <4>3. ~(n <= n - 1)
        BY <4>1
      <4> HIDE DEF Bad
      <4> QED
        BY <2>1, <4>1, <4>2, <4>3
    <3>2. f[n - 1] \in Seq(T) /\ ToSet(f[n - 1]) = Part(n - 1)
      BY <3>1
    <3>3. f[n] = f[n - 1] \o seqs[n] /\ seqs[n] \in Seq(T)
      BY <1>1, <1>2, <2>3, <3>1
    <3>4. f[n] \in Seq(T) /\ ToSet(f[n]) = Part(n - 1) \cup ToSet(seqs[n])
      BY <3>2, <3>3, ConcatSet
    <3>5. 1..n = 1..(n - 1) \cup {n}
      BY <3>1
    <3>6. Part(n) = Part(n - 1) \cup ToSet(seqs[n])
      BY <3>5
    <3> QED
      BY <2>1, <3>4, <3>6
  <2> QED
    BY <2>2, <2>3
<1> QED
  BY <1>3 DEF Merges

\* FlattenSeq is the last value of that function
LEMMA FlattenLast ==
  ASSUME NEW seqs, Len(seqs) \in Nat \ {0}
  PROVE  \E f : Flattens(f, seqs, Len(seqs)) /\ FlattenSeq(seqs) = f[Len(seqs)]
<1>1. FlattenSeq(seqs) = (CHOOSE f : Flattens(f, seqs, Len(seqs)))[Len(seqs)]
  BY DEF FlattenSeq, Flattens
<1> QED
  BY <1>1, FlattenExists

\* FlattenSeq has the elements of all its parts
LEMMA FlattenAll ==
  ASSUME NEW T, NEW seqs \in Seq(Seq(T))
  PROVE  /\ FlattenSeq(seqs) \in Seq(T)
         /\ ToSet(FlattenSeq(seqs)) = UNION {ToSet(seqs[i]) : i \in 1..Len(seqs)}
<1>1. CASE Len(seqs) = 0
  <2>1. FlattenSeq(seqs) = <<>> /\ 1..Len(seqs) = {}
    BY <1>1 DEF FlattenSeq
  <2>2. ToSet(<<>>) = {}
    BY DEF ToSet
  <2> QED
    BY <2>1, <2>2
<1>2. CASE Len(seqs) # 0
  <2>1. Len(seqs) \in Nat \ {0} /\ Len(seqs) \in 1..Len(seqs)
    BY <1>2
  <2>2. PICK f : Flattens(f, seqs, Len(seqs)) /\ FlattenSeq(seqs) = f[Len(seqs)]
    BY <2>1, FlattenLast
  <2>3. Merges(f[Len(seqs)], T, seqs, Len(seqs))
    BY <2>1, <2>2, FlattenPrefix
  <2> QED
    BY <2>2, <2>3 DEF Merges
<1> QED
  BY <1>1, <1>2

\* SetToSeq lists a finite set
LEMMA ListOf ==
  ASSUME NEW S, IsFiniteSet(S)
  PROVE  SetToSeq(S) \in Seq(S) /\ ToSet(SetToSeq(S)) = S
<1> DEFINE n == Cardinality(S)
<1>1. n \in Nat
  BY FS_CardinalityType
<1>2. \E f \in [1..n -> S] : IsInjective(f)
  <2>1. ExistsBijection(1..n, S)
    BY FS_CardinalityType
  <2> QED
    BY <2>1 DEF ExistsBijection, Bijection, Injection, IsInjective
<1>3. SetToSeq(S) \in [1..n -> S] /\ IsInjective(SetToSeq(S))
  BY <1>2 DEF SetToSeq
<1>4. SetToSeq(S) \in Seq(S) /\ DOMAIN SetToSeq(S) = 1..n
  BY <1>1, <1>3
<1>5. SetToSeq(S) \in Surjection(1..n, S)
  <2>1. Cardinality(1..n) = n
    BY <1>1, FS_Interval
  <2>2. SetToSeq(S) \in Injection(1..n, S)
    BY <1>3 DEF Injection
  <2> QED
    BY <2>1, <2>2, FS_Injection
<1> QED
  BY <1>4, <1>5 DEF ToSet, Surjection

\* The same for sequences that have nothing in common but to be sequences
LEMMA FlattenLists ==
  ASSUME NEW n \in Nat, NEW seqs, seqs = [i \in 1..n |-> seqs[i]],
         \A i \in 1..n : seqs[i] \in Seq(ToSet(seqs[i]))
  PROVE  /\ FlattenSeq(seqs) \in Seq(ToSet(FlattenSeq(seqs)))
         /\ ToSet(FlattenSeq(seqs)) = UNION {ToSet(seqs[i]) : i \in 1..n}
<1> DEFINE T == UNION {ToSet(seqs[i]) : i \in 1..n}
<1>1. ASSUME NEW i \in 1..n PROVE seqs[i] \in Seq(T)
  <2>1. ToSet(seqs[i]) \subseteq T
    OBVIOUS
  <2> HIDE DEF T
  <2>2. seqs[i] \in Seq(ToSet(seqs[i]))
    OBVIOUS
  <2>3. \A k \in 1..Len(seqs[i]) : seqs[i][k] \in T
    BY <2>1, <2>2
  <2>4. Len(seqs[i]) \in Nat /\ seqs[i] = [k \in 1..Len(seqs[i]) |-> seqs[i][k]]
    BY <2>2
  <2> QED
    BY <2>3, <2>4
<1> HIDE DEF T
<1>2. seqs \in Seq(Seq(T)) /\ Len(seqs) = n
  BY <1>1
<1>3. FlattenSeq(seqs) \in Seq(T) /\ ToSet(FlattenSeq(seqs)) = T
  BY <1>2, FlattenAll DEF T
<1> QED
  BY <1>3 DEF T

\* A sequence that has elements of all, from positions in K up to n, each at most once
Picks(prog, all, K, n) ==
  /\ prog \in Seq(ToSet(all))
  /\ \E p \in [1..Len(prog) -> K \cap (1..n)] :
       /\ \A k \in 1..Len(prog) : prog[k] = all[p[k]]
       /\ \A k, l \in 1..Len(prog) : p[k] = p[l] => k = l

\* One element more
LEMMA PicksOneMore ==
  ASSUME NEW all, NEW n \in Nat, NEW m \in Nat, n < m, m \in DOMAIN all,
         NEW K, m \in K, NEW prog, Picks(prog, all, K, n)
  PROVE  Picks(prog \o <<all[m]>>, all, K, m)
<1>1. PICK p \in [1..Len(prog) -> K \cap (1..n)] :
        /\ \A k \in 1..Len(prog) : prog[k] = all[p[k]]
        /\ \A k, l \in 1..Len(prog) : p[k] = p[l] => k = l
  BY DEF Picks
<1> DEFINE new == prog \o <<all[m]>>
           q == [k \in 1..(Len(prog) + 1) |-> IF k = Len(prog) + 1 THEN m ELSE p[k]]
<1>2. prog \in Seq(ToSet(all)) /\ Len(prog) \in Nat /\ all[m] \in ToSet(all)
  BY DEF Picks, ToSet
<1>3. /\ new \in Seq(ToSet(all)) /\ Len(new) = Len(prog) + 1 /\ new[Len(prog) + 1] = all[m]
      /\ \A k \in 1..Len(prog) : new[k] = prog[k]
  BY <1>2
<1>4. \A k \in 1..(Len(prog) + 1) : k = Len(prog) + 1 \/ k \in 1..Len(prog)
  BY <1>2
<1>5. \A k \in 1..Len(prog) : p[k] \in K \cap (1..n) /\ p[k] # m /\ p[k] \in K \cap (1..m)
  OBVIOUS
<1>6. q \in [1..(Len(prog) + 1) -> K \cap (1..m)]
  <2>1. m \in K \cap (1..m)
    OBVIOUS
  <2> QED
    BY <1>4, <1>5, <2>1
<1>7. /\ \A k \in 1..Len(prog) : q[k] = p[k]
      /\ q[Len(prog) + 1] = m
  BY <1>2
<1> HIDE DEF q, new
<1>8. \A k \in 1..(Len(prog) + 1) : new[k] = all[q[k]]
  BY <1>1, <1>3, <1>4, <1>7
<1>9. \A k, l \in 1..(Len(prog) + 1) : q[k] = q[l] => k = l
  <2>1. \A k \in 1..Len(prog) : q[k] = p[k] /\ q[k] # m
    BY <1>5, <1>7
  <2> QED
    BY <1>1, <1>4, <1>7, <2>1, Zenon
<1> QED
  BY <1>3, <1>6, <1>8, <1>9 DEF Picks, new

\* Picks of fewer are picks of more
LEMMA PicksMono ==
  ASSUME NEW all, NEW n \in Nat, NEW m \in Nat, n <= m, NEW K, NEW prog,
         Picks(prog, all, K, n)
  PROVE  Picks(prog, all, K, m)
<1>1. \A p \in [1..Len(prog) -> K \cap (1..n)] : p \in [1..Len(prog) -> K \cap (1..m)]
  BY SMT
<1> QED
  BY <1>1 DEF Picks

\* A list that is filtered by way of FlattenSeq keeps the chosen elements, each once
LEMMA FlattenFilter ==
  ASSUME NEW all, all \in Seq(ToSet(all)), NEW K, NEW seqs,
         seqs = [i \in DOMAIN all |-> IF i \in K THEN <<all[i]>> ELSE <<>>]
  PROVE  /\ Picks(FlattenSeq(seqs), all, K, Len(all))
         /\ ToSet(FlattenSeq(seqs)) = {all[i] : i \in K \cap DOMAIN all}
<1> DEFINE n == Len(all)
<1>1. n \in Nat /\ DOMAIN all = 1..n /\ seqs = [i \in 1..n |-> seqs[i]]
  OBVIOUS
<1>2. \A i \in 1..n : seqs[i] = IF i \in K THEN <<all[i]>> ELSE <<>>
  BY <1>1
<1> HIDE DEF n
<1>3. ASSUME NEW x PROVE <<x>> \in Seq({x}) /\ ToSet(<<x>>) = {x}
  BY DEF ToSet
<1>4. <<>> \in Seq({}) /\ ToSet(<<>>) = {}
  BY DEF ToSet
<1>5. \A i \in 1..n : /\ seqs[i] \in Seq(ToSet(seqs[i]))
                      /\ ToSet(seqs[i]) = IF i \in K THEN {all[i]} ELSE {}
  <2> TAKE i \in 1..n
  <2>1. CASE i \in K
    <3>1. seqs[i] = <<all[i]>>
      BY <1>2, <2>1
    <3> QED
      BY <1>3, <2>1, <3>1
  <2>2. CASE i \notin K
    <3>1. seqs[i] = <<>>
      BY <1>2, <2>2
    <3> QED
      BY <1>4, <2>2, <3>1
  <2> QED
    BY <2>1, <2>2
<1>6. ToSet(FlattenSeq(seqs)) = UNION {ToSet(seqs[i]) : i \in 1..n}
  <2>1. \A i \in 1..n : seqs[i] \in Seq(ToSet(seqs[i]))
    BY <1>5
  <2>2. n \in Nat /\ seqs = [i \in 1..n |-> seqs[i]]
    BY <1>1
  <2> QED
    BY ONLY <2>1, <2>2, FlattenLists
<1>7. ToSet(FlattenSeq(seqs)) = {all[i] : i \in K \cap DOMAIN all}
  <2>1. DOMAIN all = 1..n
    BY <1>1
  <2>2. ASSUME NEW x \in ToSet(FlattenSeq(seqs)) PROVE \E i \in K \cap DOMAIN all : x = all[i]
    <3>1. PICK i \in 1..n : x \in ToSet(seqs[i])
      BY <1>6, <2>2
    <3> QED
      BY <1>5, <2>1, <3>1
  <2>3. ASSUME NEW i \in K \cap DOMAIN all PROVE all[i] \in ToSet(FlattenSeq(seqs))
    <3>1. i \in 1..n /\ all[i] \in ToSet(seqs[i])
      BY <1>5, <2>1
    <3> QED
      BY <1>6, <3>1
  <2> QED
    BY <2>2, <2>3
<1>8. CASE n = 0
  <2>1. FlattenSeq(seqs) = <<>>
    <3>1. seqs = <<>>
      BY <1>1, <1>8
    <3> QED
      BY <3>1 DEF FlattenSeq
  <2>2. \E p : p \in [1..0 -> K \cap (1..0)]
    <3>1. [k \in 1..0 |-> k] \in [1..0 -> K \cap (1..0)]
      OBVIOUS
    <3> QED
      BY <3>1
  <2>3. <<>> \in Seq(ToSet(all)) /\ Len(<<>>) = 0 /\ 1..0 = {}
    OBVIOUS
  <2>4. Picks(<<>>, all, K, 0)
    BY <2>2, <2>3 DEF Picks
  <2> QED
    BY <1>7, <1>8, <2>1, <2>4 DEF n
<1>9. CASE n # 0
  <2>1. Len(seqs) = n /\ n \in Nat \ {0}
    BY <1>1, <1>9
  <2>2. PICK f : Flattens(f, seqs, n) /\ FlattenSeq(seqs) = f[n]
    BY <2>1, FlattenLast
  <2>3. \A i \in 1..n : f[i] = IF i = 1 THEN seqs[i] ELSE f[i - 1] \o seqs[i]
    <3>1. f = [i \in 1..n |-> IF i = 1 THEN seqs[i] ELSE f[i - 1] \o seqs[i]]
      BY <2>2 DEF Flattens
    <3> QED
      BY <3>1
  <2> DEFINE Bad == {i \in 1..n : ~Picks(f[i], all, K, i)}
  <2>4. ASSUME Bad # {} PROVE FALSE
    <3>1. PICK i \in Bad : \A k \in Bad : i <= k
      <4>1. Bad \subseteq Nat
        BY <1>1
      <4> QED
        BY <2>4, <4>1, LeastNumber
    <3>2. i \in 1..n /\ ~Picks(f[i], all, K, i) /\ i \in DOMAIN all /\ i \in Nat
      BY <1>1, <3>1
    <3>3. Picks(<<>>, all, K, 0)
      <4>1. [k \in 1..0 |-> k] \in [1..Len(<<>>) -> K \cap (1..0)]
        OBVIOUS
      <4>2. <<>> \in Seq(ToSet(all)) /\ 1..Len(<<>>) = {}
        OBVIOUS
      <4> QED
        BY <4>1, <4>2 DEF Picks
    <3>4. \E b : Picks(b, all, K, i - 1) /\ f[i] = b \o seqs[i]
      <4>1. CASE i = 1
        <5>1. f[i] = seqs[i] /\ seqs[i] \in Seq(ToSet(seqs[i]))
          BY <1>5, <2>3, <3>2, <4>1
        <5>2. <<>> \o seqs[i] = seqs[i]
          BY <5>1
        <5>3. i - 1 = 0
          BY <4>1
        <5> QED
          BY <3>3, <5>1, <5>2, <5>3
      <4>2. CASE i # 1
        <5>1. i - 1 \in 1..n /\ ~(i <= i - 1)
          BY <1>1, <3>2, <4>2
        <5>2. Picks(f[i - 1], all, K, i - 1)
          BY <3>1, <5>1
        <5> QED
          BY <2>3, <3>2, <4>2, <5>2
      <4> QED
        BY <4>1, <4>2
    <3>5. PICK b : Picks(b, all, K, i - 1) /\ f[i] = b \o seqs[i]
      BY <3>4
    <3>6. i - 1 \in Nat /\ i - 1 < i
      BY <3>2
    <3>7. CASE i \in K
      BY <1>2, <3>2, <3>5, <3>6, <3>7, PicksOneMore
    <3>8. CASE i \notin K
      <4>1. b \o <<>> = b
        BY <3>5 DEF Picks
      <4>2. Picks(b, all, K, i)
        BY <3>2, <3>5, <3>6, PicksMono
      <4> QED
        BY <1>2, <3>2, <3>5, <3>8, <4>1, <4>2
    <3> QED
      BY <3>7, <3>8
  <2>5. Picks(f[n], all, K, n)
    BY <2>1, <2>4
  <2> QED
    BY <1>7, <2>2, <2>5 DEF n
<1> QED
  BY <1>8, <1>9

\* A position found from the end is one where the test holds
LEMMA LastPosition ==
  ASSUME NEW n \in Nat, NEW P, P \subseteq 1..n, P # {}
  PROVE  Max(P) \in P
<1> DEFINE Q == {n - i : i \in P}
<1>1. Q \subseteq Nat /\ Q # {}
  <2>1. ASSUME NEW i \in P PROVE n - i \in Nat
    <3>1. i \in 1..n
      OBVIOUS
    <3> QED
      BY <3>1
  <2> QED
    BY <2>1
<1>2. PICK q \in Q : \A k \in Q : q <= k
  BY <1>1, LeastNumber
<1>3. PICK i \in P : q = n - i
  BY <1>2
<1>4. \A k \in P : n - k \in Q
  OBVIOUS
<1> HIDE DEF Q
<1>5. \A k \in P : i >= k
  BY <1>2, <1>3, <1>4
<1> QED
  BY <1>3, <1>5 DEF Max

\* A function on 1..n is a sequence of its values
LEMMA ListForm ==
  ASSUME NEW n \in Nat, NEW s, s = [i \in 1..n |-> s[i]]
  PROVE  s \in Seq(ToSet(s)) /\ Len(s) = n /\ DOMAIN s = 1..n
<1>1. DOMAIN s = 1..n
  OBVIOUS
<1>2. ToSet(s) = {s[i] : i \in 1..n}
  BY <1>1 DEF ToSet
<1>3. s \in [1..n -> ToSet(s)]
  BY <1>2
<1> QED
  BY <1>1, <1>3

\* What holds for the empty sequence, and for two sequences one after the other when it holds
\* for both, holds for FlattenSeq when it holds for all its parts
LEMMA FlattenClosed ==
  ASSUME NEW G, <<>> \in G, \A a, b \in G : a \o b \in G, NEW seqs \in Seq(G)
  PROVE  FlattenSeq(seqs) \in G
<1>1. CASE Len(seqs) = 0
  BY <1>1 DEF FlattenSeq
<1>2. CASE Len(seqs) # 0
  <2>1. Len(seqs) \in Nat \ {0} /\ Len(seqs) \in 1..Len(seqs)
    BY <1>2
  <2>2. PICK f : Flattens(f, seqs, Len(seqs)) /\ FlattenSeq(seqs) = f[Len(seqs)]
    BY <2>1, FlattenLast
  <2>3. \A i \in 1..Len(seqs) : f[i] = IF i = 1 THEN seqs[i] ELSE f[i - 1] \o seqs[i]
    <3>1. f = [i \in 1..Len(seqs) |-> IF i = 1 THEN seqs[i] ELSE f[i - 1] \o seqs[i]]
      BY <2>2 DEF Flattens
    <3> QED
      BY <3>1
  <2>4. \A i \in 1..Len(seqs) : seqs[i] \in G
    OBVIOUS
  <2> DEFINE Bad == {i \in 1..Len(seqs) : f[i] \notin G}
  <2>5. ASSUME Bad # {} PROVE FALSE
    <3>1. PICK i \in Bad : \A k \in Bad : i <= k
      <4>1. Bad \subseteq Nat
        OBVIOUS
      <4> QED
        BY <2>5, <4>1, LeastNumber
    <3>2. CASE i = 1
      BY <2>3, <2>4, <3>1, <3>2
    <3>3. CASE i # 1
      <4>1. i \in 1..Len(seqs) /\ i - 1 \in 1..Len(seqs) /\ ~(i <= i - 1)
        BY <3>1, <3>3
      <4>2. f[i - 1] \in G
        BY <3>1, <4>1
      <4>3. f[i] = f[i - 1] \o seqs[i] /\ seqs[i] \in G
        BY <2>3, <2>4, <3>3, <4>1
      <4> QED
        BY <3>1, <4>2, <4>3
    <3> QED
      BY <3>2, <3>3
  <2> QED
    BY <2>1, <2>2, <2>5
<1> QED
  BY <1>1, <1>2

\* No element twice
NoneTwice(s) == \A i, k \in 1..Len(s) : s[i] = s[k] => i = k

LEMMA ConcatNoneTwice ==
  ASSUME NEW T, NEW s \in Seq(T), NEW t \in Seq(T), NoneTwice(s), NoneTwice(t),
         ToSet(s) \cap ToSet(t) = {}
  PROVE  NoneTwice(s \o t)
<1> DEFINE u == s \o t
<1>1. /\ Len(s) \in Nat /\ Len(t) \in Nat /\ Len(u) = Len(s) + Len(t)
      /\ \A i \in 1..Len(s) : u[i] = s[i]
      /\ \A i \in 1..Len(u) : i \in 1..Len(s) \/ (i - Len(s) \in 1..Len(t) /\ u[i] = t[i - Len(s)])
  OBVIOUS
<1>2. /\ \A i \in 1..Len(s) : s[i] \in ToSet(s)
      /\ \A i \in 1..Len(t) : t[i] \in ToSet(t)
  <2>1. DOMAIN s = 1..Len(s) /\ DOMAIN t = 1..Len(t)
    OBVIOUS
  <2> QED
    BY <2>1 DEF ToSet
<1> HIDE DEF u
<1>3. ASSUME NEW i \in 1..Len(u), NEW k \in 1..Len(u), u[i] = u[k] PROVE i = k
  <2>1. CASE i \in 1..Len(s) /\ k \in 1..Len(s)
    BY <1>1, <1>3, <2>1 DEF NoneTwice
  <2>2. CASE i \in 1..Len(s) /\ k \notin 1..Len(s)
    BY <1>1, <1>2, <1>3, <2>2
  <2>3. CASE i \notin 1..Len(s) /\ k \in 1..Len(s)
    BY <1>1, <1>2, <1>3, <2>3
  <2>4. CASE i \notin 1..Len(s) /\ k \notin 1..Len(s)
    <3>1. /\ i - Len(s) \in 1..Len(t) /\ k - Len(s) \in 1..Len(t)
          /\ t[i - Len(s)] = t[k - Len(s)]
      BY <1>1, <1>3, <2>4
    <3>2. i - Len(s) = k - Len(s)
      BY <3>1 DEF NoneTwice
    <3> QED
      BY <1>1, <3>2
  <2> QED
    BY <2>1, <2>2, <2>3, <2>4
<1> QED
  BY <1>3 DEF NoneTwice, u

\* Parts that have no element twice and none in common have none twice together
LEMMA FlattenNoneTwice ==
  ASSUME NEW T, NEW seqs \in Seq(Seq(T)),
         \A i \in 1..Len(seqs) : NoneTwice(seqs[i]),
         \A i, k \in 1..Len(seqs) : i # k => ToSet(seqs[i]) \cap ToSet(seqs[k]) = {}
  PROVE  NoneTwice(FlattenSeq(seqs))
<1> DEFINE n == Len(seqs)
<1>1. n \in Nat
  OBVIOUS
<1>2. CASE n = 0
  <2>1. FlattenSeq(seqs) = <<>>
    BY <1>2 DEF FlattenSeq
  <2>2. 1..Len(<<>>) = {}
    OBVIOUS
  <2> QED
    BY <2>1, <2>2 DEF NoneTwice
<1>3. CASE n # 0
  <2>1. n \in Nat \ {0} /\ n \in 1..n
    BY <1>1, <1>3
  <2>2. PICK f : Flattens(f, seqs, n) /\ FlattenSeq(seqs) = f[n]
    BY <2>1, FlattenLast
  <2>3. \A i \in 1..n : f[i] = IF i = 1 THEN seqs[i] ELSE f[i - 1] \o seqs[i]
    <3>1. f = [i \in 1..n |-> IF i = 1 THEN seqs[i] ELSE f[i - 1] \o seqs[i]]
      BY <2>2 DEF Flattens
    <3> QED
      BY <3>1
  <2>4. \A i \in 1..n : f[i] \in Seq(T) /\ ToSet(f[i]) = UNION {ToSet(seqs[k]) : k \in 1..i}
    BY <2>2, FlattenPrefix DEF Merges
  <2>5. \A i \in 1..n : seqs[i] \in Seq(T)
    OBVIOUS
  <2> HIDE DEF n
  <2> DEFINE Bad == {i \in 1..n : ~NoneTwice(f[i])}
  <2>6. ASSUME Bad # {} PROVE FALSE
    <3>1. PICK i \in Bad : \A k \in Bad : i <= k
      <4>1. Bad \subseteq Nat
        OBVIOUS
      <4> QED
        BY <2>6, <4>1, LeastNumber
    <3>2. i \in 1..n /\ ~NoneTwice(f[i]) /\ NoneTwice(seqs[i])
      BY DEF n
    <3>3. CASE i = 1
      BY <2>3, <3>2, <3>3
    <3>4. CASE i # 1
      <4>1. i - 1 \in 1..n /\ ~(i <= i - 1) /\ \A k \in 1..(i - 1) : k \in 1..n /\ k # i
        BY <2>1, <3>2, <3>4
      <4>2. NoneTwice(f[i - 1])
        BY <3>1, <4>1
      <4>3. ToSet(f[i - 1]) \cap ToSet(seqs[i]) = {}
        <5>1. ASSUME NEW x \in ToSet(f[i - 1]), x \in ToSet(seqs[i]) PROVE FALSE
          <6>1. PICK k \in 1..(i - 1) : x \in ToSet(seqs[k])
            <7>1. ToSet(f[i - 1]) = UNION {ToSet(seqs[k]) : k \in 1..(i - 1)}
              BY <2>4, <4>1
            <7> QED
              BY <5>1, <7>1
          <6>2. k \in 1..n /\ k # i
            BY <4>1
          <6> QED
            BY <3>2, <5>1, <6>1, <6>2 DEF n
        <5> QED
          BY <5>1
      <4>4. f[i - 1] \in Seq(T) /\ seqs[i] \in Seq(T)
        BY <2>4, <2>5, <3>2, <4>1
      <4>5. NoneTwice(f[i - 1] \o seqs[i])
        BY <3>2, <4>2, <4>3, <4>4, ConcatNoneTwice
      <4> QED
        BY <2>3, <3>2, <3>4, <4>5
    <3> QED
      BY <3>3, <3>4
  <2> QED
    BY <2>1, <2>2, <2>6
<1> QED
  BY <1>2, <1>3
=============================================================================
