---------------------------- MODULE Answers_proofs ----------------------------
(***************************************************************************)
(* Proofs about Answers, for every set of documents, of texts a model may  *)
(* generate, of reference lists, and for every number of labels.           *)
(***************************************************************************)
EXTENDS Answers, FiniteSetTheorems, FunctionTheorems, SequenceTheorems,
        WellFoundedInduction, TLAPS

-----------------------------------------------------------------------------
(* Loops.  A definition by recursion over 0 .. N is only what its equation *)
(* says when a function satisfies that equation, so every loop below first *)
(* gets one; an induction takes the least counterexample.                  *)

(* A set of naturals that is not empty has a least element.                *)
LEMMA Least ==
  ASSUME NEW T, T \subseteq Nat, T # {}
  PROVE  \E x \in T : \A y \in T : x <= y
<1> DEFINE R == OpToRel(<, Nat)
<1>1. IsWellFoundedOn(R, Nat)
  BY NatLessThanWellFounded
<1>2. \A x, y \in Nat : y < x => <<y, x>> \in R
  BY DEF OpToRel
<1> HIDE DEF R
<1>3. PICK x \in T : \A y \in T : ~(<<y, x>> \in R)
  BY <1>1, WFMin
<1>4. ASSUME NEW y \in T
      PROVE  x <= y
  <2>1. x \in Nat /\ y \in Nat
    OBVIOUS
  <2>2. ~(y < x)
    BY <1>2, <1>3, <2>1
  <2> QED
    BY <2>1, <2>2
<1> QED
  BY <1>4

(* What holds at 0 and is passed on from each n - 1 to n holds up to N.    *)
LEMMA UpTo ==
  ASSUME NEW N \in Nat, NEW S, 0 \in S, \A n \in 1 .. N : n - 1 \in S => n \in S
  PROVE  \A n \in 0 .. N : n \in S
<1> DEFINE T == {n \in 0 .. N : n \notin S}
<1>1. SUFFICES ASSUME T # {}
               PROVE  FALSE
  OBVIOUS
<1>2. T \subseteq Nat
  OBVIOUS
<1>3. \A n : n \in T <=> n \in 0 .. N /\ n \notin S
  OBVIOUS
<1> HIDE DEF T
<1>4. PICK x \in T : \A y \in T : x <= y
  BY <1>1, <1>2, Least
<1>5. x \in 1 .. N
  BY <1>3
<1>6. x - 1 \in 0 .. N /\ ~(x <= x - 1)
  BY <1>5
<1>7. x - 1 \in S
  BY <1>3, <1>4, <1>6
<1> QED
  BY <1>3, <1>5, <1>7

(* A loop of N steps over a state in A has a course.                       *)
LEMMA Course ==
  ASSUME NEW A, NEW start \in A, NEW N \in Nat, NEW step \in [1 .. N -> [A -> A]]
  PROVE  \E g : /\ g \in [0 .. N -> A]
                /\ g[0] = start
                /\ \A n \in 1 .. N : g[n] = step[n][g[n - 1]]
<1> DEFINE Runs(m, g) == /\ g \in [0 .. m -> A]
                         /\ g[0] = start
                         /\ \A n \in 1 .. m : g[n] = step[n][g[n - 1]]
           S == {m \in 0 .. N : \E g : Runs(m, g)}
<1>1. 0 \in S
  <2> DEFINE g == [n \in 0 .. 0 |-> start]
  <2>1. Runs(0, g)
    OBVIOUS
  <2> HIDE DEF g
  <2>2. 0 \in 0 .. N
    OBVIOUS
  <2> QED
    BY <2>1, <2>2
<1>2. ASSUME NEW n \in 1 .. N, n - 1 \in S
      PROVE  n \in S
  <2>1. PICK g : Runs(n - 1, g)
    BY <1>2
  <2> DEFINE h == [k \in 0 .. n |-> IF k = n THEN step[n][g[n - 1]] ELSE g[k]]
  <2>2. g[n - 1] \in A
    BY <2>1
  <2>3. step[n][g[n - 1]] \in A
    BY <2>2
  <2>4. h \in [0 .. n -> A]
    BY <2>1, <2>3
  <2>5. h[0] = start
    BY <2>1
  <2>6. ASSUME NEW k \in 1 .. n
        PROVE  h[k] = step[k][h[k - 1]]
    <3>1. k \in 0 .. n /\ k - 1 \in 0 .. n /\ k - 1 # n
      OBVIOUS
    <3>2. h[k - 1] = g[k - 1]
      BY <3>1
    <3>3. CASE k = n
      BY <3>1, <3>2, <3>3
    <3>4. CASE k # n
      <4>1. k \in 1 .. n - 1 /\ h[k] = g[k]
        BY <3>1, <3>4
      <4> HIDE DEF h
      <4> QED
        BY <2>1, <3>2, <4>1
    <3> QED
      BY <3>3, <3>4
  <2> HIDE DEF h
  <2> QED
    BY <2>4, <2>5, <2>6
<1>3. \A n \in 1 .. N : n - 1 \in S => n \in S
  BY <1>2
<1> HIDE DEF S
<1>4. \A n \in 0 .. N : n \in S
  BY <1>1, <1>3, UpTo
<1>5. N \in S
  BY <1>4
<1>6. PICK g : Runs(N, g)
  BY <1>5 DEF S
<1> QED
  BY <1>6

-----------------------------------------------------------------------------
(* Texts: what is taken from a block holds its lines.                      *)
(* Texts of tokens, put one after another.                                 *)
Tokens == Words \union {Blank}
Strings == Seq(Tokens)

LEMMA Concatenation ==
  ASSUME NEW s \in Strings, NEW t \in Strings
  PROVE  /\ Len(s) \in Nat /\ Len(t) \in Nat
         /\ <<>> \in Strings /\ <<>> \o t = t
         /\ s \o t \in Strings /\ Len(s \o t) = Len(s) + Len(t)
         /\ \A i \in 1 .. Len(s) : (s \o t)[i] = s[i]
         /\ \A i \in 1 .. Len(t) : (s \o t)[Len(s) + i] = t[i]
<1> s \in Seq(Tokens) /\ t \in Seq(Tokens)
  BY DEF Strings
<1>1. Len(s) \in Nat /\ Len(t) \in Nat
  OBVIOUS
<1>2. ASSUME NEW i \in 1 .. Len(t)
      PROVE  (s \o t)[Len(s) + i] = t[i]
  <2>1. Len(s) + i \in 1 .. Len(s) + Len(t) /\ Len(s) + i > Len(s) /\ (Len(s) + i) - Len(s) = i
    BY <1>1
  <2> QED
    BY <2>1, ConcatProperties
<1>3. ASSUME NEW i \in 1 .. Len(s)
      PROVE  (s \o t)[i] = s[i]
  BY <1>1, ConcatProperties
<1>4. s \o t \in Strings /\ Len(s \o t) = Len(s) + Len(t)
  BY ConcatProperties DEF Strings
<1>5. <<>> \in Strings /\ <<>> \o t = t
  BY DEF Strings
<1> QED
  BY <1>1, <1>2, <1>3, <1>4, <1>5

(* flat is the sequences of ss one after another, the n-th from e[n - 1]   *)
(* up to e[n].                                                             *)
Joined(ss, flat, e) ==
  /\ e \in [0 .. Len(ss) -> Nat]
  /\ e[0] = 0 /\ e[Len(ss)] = Len(flat)
  /\ \A n \in 1 .. Len(ss) :
       /\ e[n] = e[n - 1] + Len(ss[n])
       /\ \A i \in 1 .. Len(ss[n]) : flat[e[n - 1] + i] = ss[n][i]

(* One sequence after another, by a loop.                                  *)
Appended(N, s, g) ==
  /\ g[0] = <<>>
  /\ \A n \in 1 .. N : g[n] = g[n - 1] \o s[n]

LEMMA CourseOfAppends ==
  ASSUME NEW N \in Nat, NEW s \in [1 .. N -> Strings]
  PROVE  \E g \in [0 .. N -> Strings] : Appended(N, s, g)
<1> DEFINE start == <<>>
           step == [n \in 1 .. N |-> [acc \in Strings |-> acc \o s[n]]]
<1>0. start \in Strings
  BY DEF Strings
<1>1. start = <<>>
  OBVIOUS
<1>2. \A n \in 1 .. N : \A acc \in Strings : acc \o s[n] \in Strings
  BY Concatenation
<1> HIDE DEF start
<1>3. step \in [1 .. N -> [Strings -> Strings]]
  BY <1>2
<1>4. \A n \in 1 .. N : \A acc \in Strings : step[n][acc] = acc \o s[n]
  OBVIOUS
<1> HIDE DEF step
<1>5. PICK g : /\ g \in [0 .. N -> Strings]
               /\ g[0] = start
               /\ \A n \in 1 .. N : g[n] = step[n][g[n - 1]]
  BY <1>0, <1>3, Course
<1>6. \A n \in 1 .. N : n - 1 \in 0 .. N
  OBVIOUS
<1>7. \A n \in 1 .. N : g[n] = g[n - 1] \o s[n]
  BY <1>4, <1>5, <1>6
<1> QED
  BY <1>1, <1>5, <1>7 DEF Appended

LEMMA AppendsJoin ==
  ASSUME NEW N \in Nat, NEW s \in [1 .. N -> Strings],
         NEW g \in [0 .. N -> Strings], Appended(N, s, g)
  PROVE  \E e \in [0 .. N -> Nat] :
           /\ e[0] = 0 /\ e[N] = Len(g[N])
           /\ \A n \in 1 .. N :
                /\ e[n] = e[n - 1] + Len(s[n])
                /\ \A i \in 1 .. Len(s[n]) : g[N][e[n - 1] + i] = s[n][i]
<1> DEFINE e == [n \in 0 .. N |-> Len(g[n])]
           Kept(n) == \A k \in 1 .. n : /\ e[k] <= e[n]
                                        /\ \A i \in 1 .. Len(s[k]) : g[n][e[k - 1] + i] = s[k][i]
           T == {n \in 0 .. N : Kept(n)}
<1>1. \A n \in 1 .. N : /\ n \in 0 .. N /\ n - 1 \in 0 .. N
                        /\ s[n] \in Strings /\ g[n] \in Strings /\ g[n - 1] \in Strings
                        /\ g[n] = g[n - 1] \o s[n]
  <2>1. \A n \in 1 .. N : n \in 0 .. N /\ n - 1 \in 0 .. N
    OBVIOUS
  <2>2. \A n \in 1 .. N : g[n] = g[n - 1] \o s[n]
    BY Zenon DEF Appended
  <2>3. \A n \in 1 .. N : s[n] \in Strings
    OBVIOUS
  <2>4. \A n \in 0 .. N : g[n] \in Strings
    OBVIOUS
  <2> QED
    BY <2>1, <2>2, <2>3, <2>4, Zenon
<1>2. e \in [0 .. N -> Nat] /\ e[0] = 0 /\ e[N] = Len(g[N])
  BY DEF Appended
<1>3. \A n \in 0 .. N : g[n] \in Strings /\ e[n] = Len(g[n]) /\ e[n] \in Nat
  OBVIOUS
<1> HIDE DEF e
<1>4. ASSUME NEW n \in 1 .. N
      PROVE  Len(s[n]) \in Nat /\ e[n] = e[n - 1] + Len(s[n])
  <2>1. s[n] \in Strings /\ g[n - 1] \in Strings /\ g[n] = g[n - 1] \o s[n]
    BY <1>1
  <2>2. e[n] = Len(g[n]) /\ e[n - 1] = Len(g[n - 1])
    BY <1>1, <1>3
  <2>3. Len(g[n - 1] \o s[n]) = Len(g[n - 1]) + Len(s[n])
    BY <2>1, Concatenation
  <2>4. Len(s[n]) \in Nat
    BY <2>1, Concatenation
  <2> QED
    BY <2>1, <2>2, <2>3, <2>4
<1>5. 0 \in T
  OBVIOUS
<1>6. ASSUME NEW n \in 1 .. N, n - 1 \in T, NEW k \in 1 .. n
      PROVE  /\ e[k] <= e[n]
             /\ \A i \in 1 .. Len(s[k]) : g[n][e[k - 1] + i] = s[k][i]
  <2>1. /\ g[n] = g[n - 1] \o s[n] /\ g[n - 1] \in Strings /\ s[n] \in Strings
        /\ e[n - 1] = Len(g[n - 1]) /\ e[n - 1] \in Nat /\ e[n] \in Nat
        /\ e[n] = e[n - 1] + Len(s[n]) /\ Len(s[n]) \in Nat
    BY <1>1, <1>3, <1>4
  <2>2. CASE k = n
    <3>1. \A i \in 1 .. Len(s[n]) : g[n][e[n - 1] + i] = s[n][i]
      <4>1. \A i \in 1 .. Len(s[n]) : (g[n - 1] \o s[n])[Len(g[n - 1]) + i] = s[n][i]
        BY <2>1, Concatenation
      <4> QED
        BY <2>1, <4>1, Zenon
    <3>2. e[n] <= e[n]
      BY <2>1
    <3> QED
      BY <2>2, <3>1, <3>2, Zenon
  <2>3. CASE k # n
    <3>1. k \in 1 .. n - 1 /\ k \in 1 .. N
      BY <2>3
    <3>2. e[k] <= e[n - 1] /\ \A i \in 1 .. Len(s[k]) : g[n - 1][e[k - 1] + i] = s[k][i]
      BY <1>6, <3>1
    <3>3. /\ e[k] = e[k - 1] + Len(s[k]) /\ Len(s[k]) \in Nat
          /\ e[k - 1] \in Nat /\ e[k] \in Nat
      BY <1>1, <1>3, <1>4, <3>1
    <3>4. ASSUME NEW i \in 1 .. Len(s[k])
          PROVE  g[n][e[k - 1] + i] = s[k][i]
      <4>1. e[k - 1] + i \in 1 .. Len(g[n - 1])
        <5>1. e[k - 1] + i <= e[k] /\ 1 <= e[k - 1] + i /\ i \in Nat
          BY <3>3
        <5>2. e[k - 1] + i <= e[n - 1] /\ e[k - 1] + i \in Nat
          BY <2>1, <3>2, <3>3, <5>1
        <5> QED
          BY <2>1, <5>1, <5>2
      <4>2. g[n][e[k - 1] + i] = g[n - 1][e[k - 1] + i]
        BY <2>1, <4>1, Concatenation
      <4> QED
        BY <3>2, <4>2
    <3>5. e[k] <= e[n]
      BY <2>1, <3>2, <3>3
    <3> QED
      BY <3>4, <3>5
  <2> QED
    BY <2>2, <2>3
<1>7. \A n \in 1 .. N : n - 1 \in T => n \in T
  BY <1>1, <1>6
<1>8. \A n \in 0 .. N : n \in T
  <2> HIDE DEF T
  <2> QED
    BY <1>5, <1>7, UpTo
<1>9. Kept(N)
  BY <1>8
<1> QED
  BY <1>2, <1>4, <1>9

LEMMA FlattenIsCourse ==
  ASSUME NEW N \in Nat, N # 0, NEW s \in [1 .. N -> Strings],
         NEW g \in [0 .. N -> Strings], Appended(N, s, g)
  PROVE  (CHOOSE f : f = [i \in 1 .. N |-> IF i = 1 THEN s[i] ELSE f[i - 1] \o s[i]])[N] = g[N]
<1> DEFINE f == CHOOSE f : f = [i \in 1 .. N |-> IF i = 1 THEN s[i] ELSE f[i - 1] \o s[i]]
           h == [i \in 1 .. N |-> g[i]]
           S == {n \in 0 .. N : n # 0 => f[n] = g[n]}
<1>1. \A n \in 1 .. N : /\ n \in 0 .. N /\ n - 1 \in 0 .. N
                        /\ n # 1 => n - 1 \in 1 .. N /\ n - 1 # 0
                        /\ g[n] = g[n - 1] \o s[n]
  <2>1. \A n \in 1 .. N : g[n] = g[n - 1] \o s[n]
    BY Zenon DEF Appended
  <2> QED
    BY <2>1
<1>2. g[1] = s[1]
  <2>1. 1 \in 1 .. N /\ 1 - 1 = 0
    OBVIOUS
  <2>2. g[1] = g[0] \o s[1] /\ g[0] = <<>>
    BY <1>1, <2>1 DEF Appended
  <2>3. s[1] \in Strings
    BY <2>1
  <2> QED
    BY <2>2, <2>3, Concatenation
<1>3. h = [i \in 1 .. N |-> IF i = 1 THEN s[i] ELSE h[i - 1] \o s[i]]
  <2>1. \A i \in 1 .. N : g[i] = IF i = 1 THEN s[i] ELSE h[i - 1] \o s[i]
    BY <1>1, <1>2
  <2> QED
    BY <2>1
<1> HIDE DEF h
<1>4. f = [i \in 1 .. N |-> IF i = 1 THEN s[i] ELSE f[i - 1] \o s[i]]
  BY Zenon, <1>3
<1> HIDE DEF f
<1>5. \A n \in 1 .. N : f[n] = IF n = 1 THEN s[n] ELSE f[n - 1] \o s[n]
  BY <1>4
<1>6. \A n \in 1 .. N : n - 1 \in S => n \in S
  <2> SUFFICES ASSUME NEW n \in 1 .. N, n - 1 \in S
               PROVE  f[n] = g[n]
    BY <1>1
  <2>1. CASE n = 1
    BY <1>2, <1>5, <2>1, Zenon
  <2>2. CASE n # 1
    <3>1. f[n - 1] = g[n - 1]
      BY <1>1, <2>2
    <3>2. f[n] = f[n - 1] \o s[n]
      BY <1>5, <2>2
    <3>3. g[n] = g[n - 1] \o s[n]
      BY <1>1
    <3> QED
      BY <3>1, <3>2, <3>3
  <2> QED
    BY <2>1, <2>2
<1>7. 0 \in S
  OBVIOUS
<1>8. \A n \in 0 .. N : n \in S
  <2> HIDE DEF S
  <2> QED
    BY <1>6, <1>7, UpTo
<1>9. f[N] = g[N]
  BY <1>8
<1> QED
  BY <1>9 DEF f

LEMMA FlattenJoins ==
  ASSUME NEW ss \in Seq(Strings)
  PROVE  FlattenSeq(ss) \in Strings /\ \E e : Joined(ss, FlattenSeq(ss), e)
<1> DEFINE N == Len(ss)
           f == CHOOSE f : f = [i \in 1 .. N |-> IF i = 1 THEN ss[i] ELSE f[i - 1] \o ss[i]]
<1>1. N \in Nat /\ ss \in [1 .. N -> Strings] /\ (N = 0 => ss = <<>>)
  OBVIOUS
<1>2. N = 0 => FlattenSeq(ss) = ss
  BY DEF FlattenSeq
<1>3. N # 0 => FlattenSeq(ss) = f[N]
  BY Zenon DEF FlattenSeq
<1> HIDE DEF N
<1>4. PICK g \in [0 .. N -> Strings] : Appended(N, ss, g)
  BY <1>1, CourseOfAppends
<1>5. FlattenSeq(ss) = g[N]
  <2>1. CASE N = 0
    <3>1. g[0] = <<>>
      BY <1>4, Zenon DEF Appended
    <3> QED
      BY <1>1, <1>2, <2>1, <3>1
  <2>2. CASE N # 0
    <3>1. f[N] = g[N]
      BY <1>1, <1>4, <2>2, FlattenIsCourse, Zenon
    <3> QED
      BY <1>3, <2>2, <3>1
  <2> QED
    BY <2>1, <2>2
<1>6. g[N] \in Strings
  BY <1>1, <1>4
<1>7. PICK e \in [0 .. N -> Nat] :
           /\ e[0] = 0 /\ e[N] = Len(g[N])
           /\ \A n \in 1 .. N :
                /\ e[n] = e[n - 1] + Len(ss[n])
                /\ \A i \in 1 .. Len(ss[n]) : g[N][e[n - 1] + i] = ss[n][i]
  BY <1>1, <1>4, AppendsJoin
<1>8. Joined(ss, g[N], e)
  BY <1>7 DEF Joined, N
<1> QED
  BY <1>5, <1>6, <1>8

(* The sequences stand in their order, and there is nothing else.          *)
LEMMA JoinedInOrder ==
  ASSUME NEW ss \in Seq(Strings), NEW flat \in Strings, NEW e, Joined(ss, flat, e)
  PROVE  /\ \A m, n \in 0 .. Len(ss) : m <= n => e[m] <= e[n]
         /\ \A p \in 1 .. Len(flat) :
              \E n \in 1 .. Len(ss) : \E i \in 1 .. Len(ss[n]) : flat[p] = ss[n][i]
<1> DEFINE N == Len(ss)
           S == {n \in 0 .. N : \A m \in 0 .. n : e[m] <= e[n]}
<1>1. N \in Nat /\ \A n \in 1 .. N : ss[n] \in Strings /\ n - 1 \in 0 .. N /\ n \in 0 .. N
  OBVIOUS
<1>2. \A n \in 0 .. N : e[n] \in Nat
  BY DEF Joined
<1>3. \A n \in 1 .. N : e[n] = e[n - 1] + Len(ss[n]) /\ e[n - 1] <= e[n]
  BY <1>1, <1>2 DEF Joined
<1>4. 0 \in S
  BY <1>1, <1>2
<1>5. \A n \in 1 .. N : n - 1 \in S => n \in S
  <2> SUFFICES ASSUME NEW n \in 1 .. N, n - 1 \in S
               PROVE  n \in S
    OBVIOUS
  <2>1. ASSUME NEW m \in 0 .. n
        PROVE  e[m] <= e[n]
    <3>1. CASE m = n
      BY <1>1, <1>2, <3>1
    <3>2. CASE m # n
      <4>1. m \in 0 .. n - 1 /\ m \in 0 .. N
        BY <3>2
      <4>2. e[m] <= e[n - 1]
        BY <4>1
      <4> QED
        BY <1>1, <1>2, <1>3, <4>1, <4>2
    <3> QED
      BY <3>1, <3>2
  <2> QED
    BY <1>1, <2>1
<1>6. \A n \in 0 .. N : n \in S
  <2> HIDE DEF S, N
  <2> QED
    BY <1>1, <1>4, <1>5, UpTo
<1>7. \A m, n \in 0 .. N : m <= n => e[m] <= e[n]
  BY <1>6
<1>8. ASSUME NEW p \in 1 .. Len(flat)
      PROVE  \E n \in 1 .. N : \E i \in 1 .. Len(ss[n]) : flat[p] = ss[n][i]
  <2> DEFINE T == {n \in 0 .. N : p <= e[n]}
  <2>1. N \in T
    BY <1>1 DEF Joined
  <2>2. T \subseteq Nat /\ \A n : n \in T <=> n \in 0 .. N /\ p <= e[n]
    OBVIOUS
  <2> HIDE DEF T
  <2>3. PICK n \in T : \A y \in T : n <= y
    BY <2>1, <2>2, Least
  <2>4. n # 0
    BY <2>2 DEF Joined
  <2>5. n \in 1 .. N /\ n - 1 \in 0 .. N /\ ~(n <= n - 1)
    BY <2>2, <2>4
  <2>6. e[n - 1] < p /\ p <= e[n]
    <3>1. n - 1 \notin T
      BY <2>3, <2>5
    <3>2. ~(p <= e[n - 1]) /\ p <= e[n] /\ e[n - 1] \in Nat
      BY <1>2, <2>2, <2>5, <3>1
    <3>3. p \in Int
      OBVIOUS
    <3> QED
      BY <3>2, <3>3
  <2>7. p - e[n - 1] \in 1 .. Len(ss[n]) /\ e[n - 1] + (p - e[n - 1]) = p
    <3>1. e[n] = e[n - 1] + Len(ss[n]) /\ e[n - 1] \in Nat /\ Len(ss[n]) \in Nat /\ p \in Nat
      BY <1>1, <1>2, <1>3, <2>5
    <3> QED
      BY <2>6, <3>1
  <2>8. flat[p] = ss[n][p - e[n - 1]]
    BY <2>5, <2>7 DEF Joined
  <2> QED
    BY <2>5, <2>7, <2>8
<1> QED
  BY <1>7, <1>8

LEMMA BlankIsNoWord == Blank \in Tokens /\ Words \subseteq Tokens /\ Blank \notin Words
BY Zenon DEF Tokens, Words, WhiteSpace

(* extractText: line l is at 2l - 1, the blank after it at 2l.             *)
Spaced(text, lines) ==
  /\ \A l \in 1 .. Len(lines) :
       /\ 2 * l - 1 \in 1 .. Len(text)
       /\ text[2 * l - 1] = lines[l]
       /\ l < Len(lines) => 2 * l \in 1 .. Len(text) /\ text[2 * l] = Blank
  /\ \A p \in 1 .. Len(text) : text[p] = Blank \/ \E l \in 1 .. Len(lines) : text[p] = lines[l]

LEMMA ExtractTextLines ==
  ASSUME NEW lines \in Seq(Words)
  PROVE  ExtractText(lines) \in Strings /\ Spaced(ExtractText(lines), lines)
<1> DEFINE size == IF lines = <<>> THEN 0 ELSE 2 * Len(lines) - 1
           text == [i \in 1 .. size |-> IF i % 2 = 1 THEN lines[(i + 1) \div 2] ELSE Blank]
<1>1. Len(lines) \in Nat /\ size \in Nat /\ (Len(lines) > 0 => size = 2 * Len(lines) - 1)
      /\ (Len(lines) = 0 => size = 0)
  OBVIOUS
<1>2. \A l \in 1 .. Len(lines) : lines[l] \in Words
  OBVIOUS
<1>3. ExtractText(lines) = text
  BY DEF ExtractText
<1> DEFINE N == Len(lines)
<1> HIDE DEF size, N
<1>4. \A i \in 1 .. size : i % 2 = 1 => (i + 1) \div 2 \in 1 .. N
  BY <1>1 DEF N
<1>5. \A i \in 1 .. size : text[i] \in Tokens
  BY <1>2, <1>4, BlankIsNoWord DEF N
<1>6. text \in [1 .. size -> Tokens]
  BY <1>5
<1> HIDE DEF text
<1>7. text \in Strings /\ Len(text) = size
  BY <1>1, <1>6 DEF Strings
<1>8. ASSUME NEW l \in 1 .. N
      PROVE  /\ 2 * l - 1 \in 1 .. size /\ text[2 * l - 1] = lines[l]
             /\ l < N => 2 * l \in 1 .. size /\ text[2 * l] = Blank
  <2>1. l \in Nat /\ N \in Nat /\ size = 2 * N - 1
    BY <1>1 DEF N
  <2>2. 2 * l - 1 \in 1 .. size /\ (2 * l - 1) % 2 = 1 /\ ((2 * l - 1) + 1) \div 2 = l
    BY <2>1
  <2>3. l < N => 2 * l \in 1 .. size /\ (2 * l) % 2 = 0
    BY <2>1
  <2>4. text[2 * l - 1] = lines[l]
    BY <2>2 DEF text
  <2>5. l < N => text[2 * l] = Blank
    <3> SUFFICES ASSUME l < N
                 PROVE  text[2 * l] = Blank
      OBVIOUS
    <3>1. 2 * l \in 1 .. size /\ ~((2 * l) % 2 = 1)
      BY <2>3
    <3> QED
      BY <3>1 DEF text
  <2> QED
    BY <2>2, <2>3, <2>4, <2>5
<1>9. ASSUME NEW p \in 1 .. size
      PROVE  text[p] = Blank \/ \E l \in 1 .. N : text[p] = lines[l]
  BY <1>4 DEF text
<1> QED
  BY <1>3, <1>7, <1>8, <1>9 DEF N, Spaced

(* An item: line l of child c is at a[c] + 2l - 1 of its text.             *)
Spots(item, text, a) ==
  /\ \A c \in 1 .. Len(item) : \A l \in 1 .. Len(OwnLines(item[c])) :
       /\ a[c] \in Nat
       /\ a[c] + 2 * l - 1 \in 1 .. Len(text)
       /\ text[a[c] + 2 * l - 1] = OwnLines(item[c])[l]
       /\ l < Len(OwnLines(item[c])) => text[a[c] + 2 * l] = Blank
  /\ \A c, d \in 1 .. Len(item) :
       c < d => \A l \in 1 .. Len(OwnLines(item[c])) : a[c] + 2 * l - 1 <= a[d]
  /\ \A p \in 1 .. Len(text) :
       \/ text[p] = Blank
       \/ \E c \in 1 .. Len(item) : \E l \in 1 .. Len(OwnLines(item[c])) :
            text[p] = OwnLines(item[c])[l]

LEMMA OwnLinesType ==
  ASSUME NEW node \in Nodes
  PROVE  OwnLines(node) \in Seq(Words)
BY DEF OwnLines, Nodes

LEMMA ItemTextLines ==
  ASSUME NEW item \in Seq(Nodes)
  PROVE  ItemText(item) \in Strings /\ \E a : Spots(item, ItemText(item), a)
<1> DEFINE N == Len(item)
           ss == [c \in DOMAIN item |-> ExtractText(OwnLines(item[c]))]
           text == FlattenSeq(ss)
           Own(c) == OwnLines(item[c])
<1>1. N \in Nat /\ \A c \in 1 .. N : Own(c) \in Seq(Words) /\ Len(Own(c)) \in Nat
  BY OwnLinesType
<1>2. \A c \in 1 .. N : ss[c] \in Strings /\ Len(ss[c]) \in Nat /\ Spaced(ss[c], Own(c))
  <2> SUFFICES ASSUME NEW c \in 1 .. N
               PROVE  ss[c] \in Strings /\ Len(ss[c]) \in Nat /\ Spaced(ss[c], Own(c))
    OBVIOUS
  <2>1. ss[c] = ExtractText(Own(c)) /\ Own(c) \in Seq(Words)
    BY <1>1
  <2> HIDE DEF ss, Own
  <2>2. ss[c] \in Strings /\ Spaced(ss[c], Own(c))
    BY <2>1, ExtractTextLines
  <2> QED
    BY <2>2, Concatenation
<1>3. ss \in Seq(Strings) /\ Len(ss) = N
  <2>1. ss \in [1 .. N -> Strings]
    <3>1. DOMAIN item = 1 .. N
      OBVIOUS
    <3>2. \A c \in 1 .. N : ExtractText(OwnLines(item[c])) \in Strings
      BY <1>1, ExtractTextLines
    <3> QED
      BY <3>1, <3>2
  <2> HIDE DEF ss
  <2> QED
    BY <1>1, <2>1, SeqDef
<1>4. ItemText(item) = text
  BY DEF ItemText
<1> HIDE DEF ss, text
<1>5. text \in Strings /\ \E e : Joined(ss, text, e)
  BY <1>3, FlattenJoins DEF text
<1>6. PICK e : Joined(ss, text, e)
  BY <1>5
<1>7. /\ \A m, n \in 0 .. N : m <= n => e[m] <= e[n]
      /\ \A p \in 1 .. Len(text) :
           \E n \in 1 .. N : \E i \in 1 .. Len(ss[n]) : text[p] = ss[n][i]
  BY <1>3, <1>5, <1>6, JoinedInOrder
<1>8. /\ \A n \in 0 .. N : e[n] \in Nat
      /\ e[N] = Len(text)
      /\ \A n \in 1 .. N : /\ e[n] = e[n - 1] + Len(ss[n])
                           /\ \A i \in 1 .. Len(ss[n]) : text[e[n - 1] + i] = ss[n][i]
  BY <1>3, <1>6 DEF Joined
<1> DEFINE a == [c \in 1 .. N |-> e[c - 1]]
<1>9. \A c \in 1 .. N : a[c] = e[c - 1] /\ c - 1 \in 0 .. N /\ c \in 0 .. N
  BY <1>1
<1> HIDE DEF a, N, Own
<1>10. ASSUME NEW c \in 1 .. N, NEW l \in 1 .. Len(Own(c))
       PROVE  /\ a[c] \in Nat
              /\ a[c] + 2 * l - 1 \in 1 .. Len(text) /\ a[c] + 2 * l - 1 <= e[c]
              /\ text[a[c] + 2 * l - 1] = Own(c)[l]
              /\ l < Len(Own(c)) => text[a[c] + 2 * l] = Blank
  <2>1. /\ a[c] = e[c - 1] /\ e[c - 1] \in Nat /\ e[c] \in Nat /\ Len(text) \in Nat
        /\ e[c] <= Len(text) /\ e[c] = e[c - 1] + Len(ss[c]) /\ Len(ss[c]) \in Nat
    <3>1. c <= N /\ N \in 0 .. N
      BY <1>1
    <3> QED
      BY <1>2, <1>7, <1>8, <1>9, <3>1
  <2>2. /\ 2 * l - 1 \in 1 .. Len(ss[c]) /\ ss[c][2 * l - 1] = Own(c)[l]
        /\ l < Len(Own(c)) => 2 * l \in 1 .. Len(ss[c]) /\ ss[c][2 * l] = Blank
    BY <1>2 DEF Spaced
  <2>3. \A i \in 1 .. Len(ss[c]) : text[e[c - 1] + i] = ss[c][i]
    BY <1>8
  <2>4. l \in Nat /\ e[c - 1] + 2 * l - 1 = e[c - 1] + (2 * l - 1)
    BY <1>1, <2>1
  <2>5. text[e[c - 1] + (2 * l - 1)] = Own(c)[l]
    BY <2>2, <2>3
  <2>6. l < Len(Own(c)) => text[e[c - 1] + 2 * l] = Blank
    BY <2>2, <2>3
  <2>7. a[c] + 2 * l - 1 \in 1 .. Len(text) /\ a[c] + 2 * l - 1 <= e[c]
    <3> DEFINE x == 2 * l - 1
               n == Len(ss[c])
    <3>1. x \in 1 .. n
      BY <2>2
    <3>2. /\ a[c] = e[c - 1] /\ e[c - 1] \in Nat /\ e[c] \in Nat /\ Len(text) \in Nat
          /\ e[c] <= Len(text) /\ e[c] = e[c - 1] + n /\ n \in Nat
      BY <2>1
    <3>3. a[c] + 2 * l - 1 = e[c - 1] + x
      BY <2>1, <2>4
    <3> HIDE DEF x, n
    <3>4. 1 <= x /\ x <= n /\ x \in Nat
      BY <3>1, <3>2
    <3>5. e[c - 1] + x \in 1 .. Len(text) /\ e[c - 1] + x <= e[c]
      BY <3>2, <3>4
    <3> QED
      BY <3>3, <3>5
  <2> QED
    BY <2>1, <2>4, <2>5, <2>6, <2>7
<1>11. ASSUME NEW c \in 1 .. N, NEW d \in 1 .. N, c < d, NEW l \in 1 .. Len(Own(c))
       PROVE  a[c] + 2 * l - 1 <= a[d]
  <2>1. a[d] = e[d - 1] /\ c <= d - 1 /\ c \in 0 .. N /\ d - 1 \in 0 .. N
    <3>1. d \in 0 .. N /\ c \in 0 .. N /\ d - 1 \in 0 .. N /\ a[d] = e[d - 1]
      BY <1>9
    <3>2. c <= d - 1
      BY <1>11, <3>1
    <3> QED
      BY <3>1, <3>2
  <2>2. e[c] <= e[d - 1] /\ e[c] \in Nat /\ e[d - 1] \in Nat
    BY <1>7, <1>8, <2>1
  <2>3. a[c] + 2 * l - 1 <= e[c] /\ a[c] \in Nat /\ l \in Nat
    <3>1. l \in Nat
      BY <1>1
    <3> QED
      BY <1>10, <3>1
  <2> QED
    BY <2>1, <2>2, <2>3
<1>12. ASSUME NEW p \in 1 .. Len(text)
       PROVE  \/ text[p] = Blank
              \/ \E c \in 1 .. N : \E l \in 1 .. Len(Own(c)) : text[p] = Own(c)[l]
  <2>1. PICK c \in 1 .. N : \E i \in 1 .. Len(ss[c]) : text[p] = ss[c][i]
    BY <1>7
  <2>2. \A i \in 1 .. Len(ss[c]) :
          ss[c][i] = Blank \/ \E l \in 1 .. Len(Own(c)) : ss[c][i] = Own(c)[l]
    BY <1>2 DEF Spaced
  <2> QED
    BY <2>1, <2>2
<1>13. Spots(item, text, a)
  BY <1>10, <1>11, <1>12 DEF Spots, N, Own
<1> QED
  BY <1>4, <1>5, <1>13

LEMMA PlacesAre ==
  ASSUME NEW items \in Seq(Seq(Nodes))
  PROVE  /\ \A p \in Places(items) :
              /\ p.item \in 1 .. Len(items)
              /\ p.child \in 1 .. Len(items[p.item])
              /\ p.line \in 1 .. Len(OwnLines(items[p.item][p.child]))
         /\ \A n \in 1 .. Len(items) : \A c \in 1 .. Len(items[n]) :
              \A l \in 1 .. Len(OwnLines(items[n][c])) :
                [item |-> n, child |-> c, line |-> l] \in Places(items)
         /\ \A p \in Places(items) : LineAt(items, p) \in Words
<1>1. \A n \in 1 .. Len(items) : \A c \in 1 .. Len(items[n]) :
        /\ DOMAIN OwnLines(items[n][c]) = 1 .. Len(OwnLines(items[n][c]))
        /\ \A l \in 1 .. Len(OwnLines(items[n][c])) : OwnLines(items[n][c])[l] \in Words
  <2> SUFFICES ASSUME NEW n \in 1 .. Len(items), NEW c \in 1 .. Len(items[n])
               PROVE  /\ DOMAIN OwnLines(items[n][c]) = 1 .. Len(OwnLines(items[n][c]))
                      /\ \A l \in 1 .. Len(OwnLines(items[n][c])) : OwnLines(items[n][c])[l] \in Words
    OBVIOUS
  <2>1. items[n][c] \in Nodes
    OBVIOUS
  <2>2. OwnLines(items[n][c]) \in Seq(Words)
    BY <2>1, OwnLinesType
  <2> QED
    BY <2>2
<1>2. DOMAIN items = 1 .. Len(items) /\ \A n \in 1 .. Len(items) : DOMAIN items[n] = 1 .. Len(items[n])
  OBVIOUS
<1>3. \A p : p \in Places(items) <=>
        \E n \in DOMAIN items : \E c \in DOMAIN items[n] : \E l \in DOMAIN OwnLines(items[n][c]) :
          p = [item |-> n, child |-> c, line |-> l]
  <2> DEFINE InChild(n, c) ==
               {[item |-> n, child |-> c, line |-> l] : l \in DOMAIN OwnLines(items[n][c])}
             InItem(n) == UNION {InChild(n, c) : c \in DOMAIN items[n]}
  <2>1. Places(items) = UNION {InItem(n) : n \in DOMAIN items}
    BY Zenon DEF Places
  <2>2. \A n, c, p : p \in InChild(n, c) <=> \E l \in DOMAIN OwnLines(items[n][c]) :
                                             p = [item |-> n, child |-> c, line |-> l]
    BY Zenon
  <2> HIDE DEF InChild
  <2>3. \A n, p : p \in InItem(n) <=> \E c \in DOMAIN items[n] : p \in InChild(n, c)
    BY Zenon
  <2> HIDE DEF InItem
  <2>4. \A p : p \in Places(items) <=> \E n \in DOMAIN items : p \in InItem(n)
    BY <2>1, Zenon
  <2>5. \A n, p : p \in InItem(n) <=>
          \E c \in DOMAIN items[n] : \E l \in DOMAIN OwnLines(items[n][c]) :
            p = [item |-> n, child |-> c, line |-> l]
    BY <2>2, <2>3
  <2> QED
    BY <2>4, <2>5
<1>4. \A p \in Places(items) :
        \E n \in 1 .. Len(items) : \E c \in 1 .. Len(items[n]) :
          \E l \in 1 .. Len(OwnLines(items[n][c])) :
            p.item = n /\ p.child = c /\ p.line = l
  <2>1. \A n, c, l : /\ [item |-> n, child |-> c, line |-> l].item = n
                     /\ [item |-> n, child |-> c, line |-> l].child = c
                     /\ [item |-> n, child |-> c, line |-> l].line = l
    OBVIOUS
  <2> SUFFICES ASSUME NEW p \in Places(items)
               PROVE  \E n \in 1 .. Len(items) : \E c \in 1 .. Len(items[n]) :
                        \E l \in 1 .. Len(OwnLines(items[n][c])) :
                          p.item = n /\ p.child = c /\ p.line = l
    OBVIOUS
  <2>2. PICK n \in DOMAIN items : \E c \in DOMAIN items[n] : \E l \in DOMAIN OwnLines(items[n][c]) :
          p = [item |-> n, child |-> c, line |-> l]
    BY <1>3
  <2>3. PICK c \in DOMAIN items[n] : \E l \in DOMAIN OwnLines(items[n][c]) :
          p = [item |-> n, child |-> c, line |-> l]
    BY <2>2
  <2>4. PICK l \in DOMAIN OwnLines(items[n][c]) : p = [item |-> n, child |-> c, line |-> l]
    BY <2>3
  <2>5. p.item = n /\ p.child = c /\ p.line = l
    BY <2>1, <2>4
  <2>6. n \in 1 .. Len(items)
    BY <1>2, Zenon
  <2>7. c \in 1 .. Len(items[n])
    BY <1>2, <2>6, Zenon
  <2>8. l \in 1 .. Len(OwnLines(items[n][c]))
    BY <1>1, <2>6, <2>7, Zenon
  <2> QED
    BY <2>5, <2>6, <2>7, <2>8, Zenon
<1>5. \A p \in Places(items) :
        /\ p.item \in 1 .. Len(items)
        /\ p.child \in 1 .. Len(items[p.item])
        /\ p.line \in 1 .. Len(OwnLines(items[p.item][p.child]))
  BY <1>4, Zenon
<1>6. \A p \in Places(items) : LineAt(items, p) \in Words
  BY <1>1, <1>5, Zenon DEF LineAt
<1>7. \A n \in 1 .. Len(items) : \A c \in 1 .. Len(items[n]) :
        \A l \in 1 .. Len(OwnLines(items[n][c])) :
          [item |-> n, child |-> c, line |-> l] \in Places(items)
  BY <1>1, <1>2, <1>3, Zenon
<1> QED
  BY <1>5, <1>6, <1>7

(* A text whose tokens are blanks and the lines, each line at the spot     *)
(* at[p], in order and with the blanks between them, holds the lines.      *)
Placed(text, items, at) ==
  /\ \A p \in Places(items) : at[p] \in 1 .. Len(text) /\ text[at[p]] = LineAt(items, p)
  /\ \A k \in 1 .. Len(text) :
       text[k] = Blank \/ \E p \in Places(items) : text[k] = LineAt(items, p)
  /\ \A p, q \in Places(items) :
       Before(p, q) => /\ at[p] < at[q]
                       /\ BlankBetween(p, q) => \E k \in at[p] + 1 .. at[q] - 1 : text[k] = Blank

LEMMA HoldsByPlaces ==
  ASSUME NEW items \in Seq(Seq(Nodes)), NEW text \in Strings, NEW at, Placed(text, items, at)
  PROVE  HoldsLines(text, items)
<1>1. DOMAIN text = 1 .. Len(text)
  <2>1. text \in Seq(Tokens)
    BY DEF Strings
  <2> QED
    BY <2>1
<1>2. \A p \in Places(items) : LineAt(items, p) # Blank
  BY PlacesAre, BlankIsNoWord
<1>3. \A x : x \in Range(text) <=> \E k \in 1 .. Len(text) : x = text[k]
  BY <1>1, Zenon DEF Range
<1>4. Range(text) \ {Blank} = {LineAt(items, p) : p \in Places(items)}
  <2>1. \A x : x \in Range(text) \ {Blank} => x \in {LineAt(items, p) : p \in Places(items)}
    <3> SUFFICES ASSUME NEW x \in Range(text), x # Blank
                 PROVE  \E p \in Places(items) : x = LineAt(items, p)
      OBVIOUS
    <3>1. PICK k \in 1 .. Len(text) : x = text[k]
      BY <1>3
    <3>2. text[k] = Blank \/ \E p \in Places(items) : text[k] = LineAt(items, p)
      BY Zenon DEF Placed
    <3> QED
      BY <3>1, <3>2
  <2>2. \A p \in Places(items) : LineAt(items, p) \in Range(text) \ {Blank}
    BY <1>2, <1>3, Zenon DEF Placed
  <2> QED
    BY <2>1, <2>2, Zenon
<1>5. ASSUME NEW p \in Places(items), NEW q \in Places(items), Before(p, q)
      PROVE  \E i, j \in DOMAIN text :
               /\ i < j
               /\ text[i] = LineAt(items, p) /\ text[j] = LineAt(items, q)
               /\ BlankBetween(p, q) => \E k \in i + 1 .. j - 1 : text[k] = Blank
  <2>1. /\ at[p] \in DOMAIN text /\ at[q] \in DOMAIN text
        /\ text[at[p]] = LineAt(items, p) /\ text[at[q]] = LineAt(items, q)
    BY <1>1, Zenon DEF Placed
  <2>2. /\ at[p] < at[q]
        /\ BlankBetween(p, q) => \E k \in at[p] + 1 .. at[q] - 1 : text[k] = Blank
    BY <1>5, Zenon DEF Placed
  <2> QED
    BY <2>1, <2>2, Zenon
<1> QED
  BY <1>4, <1>5 DEF HoldsLines

LEMMA ParagraphHolds ==
  ASSUME NEW lines \in Seq(Words)
  PROVE  HoldsLines(ExtractText(lines), << <<[kind |-> "text", lines |-> lines]>> >>)
<1> DEFINE node == [kind |-> "text", lines |-> lines]
           items == << <<node>> >>
           text == ExtractText(lines)
           at == [p \in Places(items) |-> 2 * p.line - 1]
<1>1. node \in Nodes /\ OwnLines(node) = lines
  BY DEF Nodes, OwnLines
<1> HIDE DEF node
<1>2. items \in Seq(Seq(Nodes)) /\ Len(items) = 1 /\ Len(items[1]) = 1 /\ items[1][1] = node
  BY <1>1
<1>3. text \in Strings /\ Spaced(text, lines) /\ Len(text) \in Nat /\ Len(lines) \in Nat
  BY ExtractTextLines, Concatenation
<1> HIDE DEF items, text
<1>4. \A p \in Places(items) : p.item = 1 /\ p.child = 1 /\ p.line \in 1 .. Len(lines)
  <2> SUFFICES ASSUME NEW p \in Places(items)
               PROVE  p.item = 1 /\ p.child = 1 /\ p.line \in 1 .. Len(lines)
    OBVIOUS
  <2>1. /\ p.item \in 1 .. Len(items)
        /\ p.child \in 1 .. Len(items[p.item])
        /\ p.line \in 1 .. Len(OwnLines(items[p.item][p.child]))
    BY <1>2, PlacesAre
  <2>2. p.item = 1
    BY <1>2, <2>1
  <2>3. p.child = 1
    BY <1>2, <2>1, <2>2
  <2> QED
    BY <1>1, <1>2, <2>1, <2>2, <2>3
<1>5. \A l \in 1 .. Len(lines) : [item |-> 1, child |-> 1, line |-> l] \in Places(items)
  BY <1>1, <1>2, PlacesAre
<1>6. \A p \in Places(items) : LineAt(items, p) = lines[p.line] /\ at[p] = 2 * p.line - 1
  BY <1>1, <1>2, <1>4 DEF LineAt
<1> HIDE DEF at
<1>7. \A p \in Places(items) : at[p] \in 1 .. Len(text) /\ text[at[p]] = LineAt(items, p)
  BY <1>3, <1>4, <1>6 DEF Spaced
<1>8. ASSUME NEW k \in 1 .. Len(text)
      PROVE  text[k] = Blank \/ \E p \in Places(items) : text[k] = LineAt(items, p)
  <2>1. CASE text[k] # Blank
    <3>1. PICK l \in 1 .. Len(lines) : text[k] = lines[l]
      BY <1>3, <2>1 DEF Spaced
    <3> DEFINE p == [item |-> 1, child |-> 1, line |-> l]
    <3>2. p \in Places(items) /\ p.line = l
      BY <1>5
    <3> HIDE DEF p
    <3> QED
      BY <1>6, <3>1, <3>2
  <2> QED
    BY <2>1
<1>9. ASSUME NEW p \in Places(items), NEW q \in Places(items), Before(p, q)
      PROVE  /\ at[p] < at[q]
             /\ \E k \in at[p] + 1 .. at[q] - 1 : text[k] = Blank
  <2> DEFINE l == p.line
             m == q.line
  <2>1. l \in 1 .. Len(lines) /\ m \in 1 .. Len(lines) /\ l < m
    BY <1>4, <1>9 DEF Before
  <2>2. at[p] = 2 * l - 1 /\ at[q] = 2 * m - 1
    BY <1>6
  <2> HIDE DEF l, m
  <2>3. text[2 * l] = Blank
    <3>1. l < Len(lines)
      BY <1>3, <2>1
    <3> QED
      BY <1>3, <2>1, <3>1 DEF Spaced
  <2>4. at[p] < at[q] /\ 2 * l \in at[p] + 1 .. at[q] - 1
    BY <1>3, <2>1, <2>2
  <2> QED
    BY <2>3, <2>4
<1>10. Placed(text, items, at)
  BY <1>7, <1>8, <1>9 DEF Placed
<1>11. HoldsLines(text, items)
  BY <1>2, <1>3, <1>10, HoldsByPlaces
<1> QED
  BY <1>11 DEF text, items, node

LEMMA BlankIsString == <<Blank>> \in Strings /\ <<>> \in Strings /\ Len(<<Blank>>) = 1
BY BlankIsNoWord DEF Strings

LEMMA BlankAppended ==
  ASSUME NEW s \in Strings
  PROVE  LET t == s \o <<Blank>>
         IN /\ s \o <<>> = s
            /\ Len(s) \in Nat
            /\ t \in Strings /\ Len(t) \in Nat /\ Len(t) = Len(s) + 1 /\ Len(s) <= Len(t)
            /\ \A i \in 1 .. Len(s) : t[i] = s[i]
            /\ \A i \in 1 .. Len(t) : i <= Len(s) \/ t[i] = Blank
            /\ t[Len(t)] = Blank
<1> DEFINE blank == <<Blank>>
           t == s \o blank
<1>1. blank \in Strings /\ Len(blank) = 1 /\ blank[1] = Blank
  BY BlankIsString
<1>2. s \o <<>> = s
  BY ConcatEmptySeq DEF Strings
<1> HIDE DEF blank
<1>3. /\ Len(s) \in Nat /\ t \in Strings /\ Len(t) = Len(s) + Len(blank)
      /\ \A i \in 1 .. Len(s) : t[i] = s[i]
      /\ \A i \in 1 .. Len(blank) : t[Len(s) + i] = blank[i]
  BY <1>1, Concatenation
<1> HIDE DEF t
<1>4. t[Len(s) + 1] = Blank /\ Len(t) = Len(s) + 1
  <2>1. 1 \in 1 .. Len(blank)
    BY <1>1
  <2> QED
    BY <1>1, <1>3, <2>1
<1>5. \A i \in 1 .. Len(t) : i <= Len(s) \/ i = Len(s) + 1
  BY <1>3, <1>4
<1>6. Len(t) \in Nat /\ Len(s) <= Len(t)
  BY <1>3, <1>4
<1> QED
  BY <1>2, <1>3, <1>4, <1>5, <1>6 DEF t, blank

LEMMA InRange ==
  ASSUME NEW y \in Nat, NEW len \in Nat, NEW more \in Nat, len <= more, NEW x \in 1 .. len,
         NEW last \in Nat, y + more <= last
  PROVE  y + x \in 1 .. last /\ y + x <= y + len /\ y + x > y /\ y + x \in Nat
OBVIOUS

LEMMA ListHolds ==
  ASSUME NEW items \in Seq(Seq(Nodes))
  PROVE  ExtractListText(items) \in Strings /\ HoldsLines(ExtractListText(items), items)
<1> DEFINE N == Len(items)
           Item(n) == ItemText(items[n])
           Gap(n) == IF n < N THEN <<Blank>> ELSE <<>>
           ss == [n \in DOMAIN items |-> Item(n) \o Gap(n)]
           text == FlattenSeq(ss)
<1>1. N \in Nat /\ DOMAIN items = 1 .. N /\ \A n \in 1 .. N : items[n] \in Seq(Nodes)
  OBVIOUS
<1> DEFINE Own(n, c) == OwnLines(items[n][c])
<1>0. \A n \in 1 .. N : \A c \in 1 .. Len(items[n]) : Own(n, c) \in Seq(Words) /\ Len(Own(n, c)) \in Nat
  <2> SUFFICES ASSUME NEW n \in 1 .. N, NEW c \in 1 .. Len(items[n])
               PROVE  Own(n, c) \in Seq(Words) /\ Len(Own(n, c)) \in Nat
    OBVIOUS
  <2>1. items[n][c] \in Nodes
    BY <1>1
  <2>2. Own(n, c) \in Seq(Words)
    BY <2>1, OwnLinesType
  <2> QED
    BY <2>2
<1>2. \A n \in 1 .. N : Item(n) \in Strings /\ \E a : Spots(items[n], Item(n), a)
  BY <1>1, ItemTextLines
<1>3. \A n \in 1 .. N : Gap(n) \in Strings
  BY BlankIsString, Zenon
<1>4. text = ExtractListText(items)
  BY DEF ExtractListText
<1> HIDE DEF N, Item
<1>5. \A n \in 1 .. N : ss[n] = Item(n) \o Gap(n)
  BY <1>1
<1> HIDE DEF ss, text, Gap
<1>6. \A n \in 1 .. N :
        /\ ss[n] \in Strings /\ Len(ss[n]) \in Nat /\ Len(Item(n)) \in Nat
        /\ Len(Item(n)) <= Len(ss[n])
        /\ \A i \in 1 .. Len(Item(n)) : ss[n][i] = Item(n)[i]
        /\ \A i \in 1 .. Len(ss[n]) : i <= Len(Item(n)) \/ ss[n][i] = Blank
        /\ n < N => ss[n][Len(ss[n])] = Blank /\ Len(ss[n]) = Len(Item(n)) + 1
  <2> SUFFICES ASSUME NEW n \in 1 .. N
               PROVE  /\ ss[n] \in Strings /\ Len(ss[n]) \in Nat /\ Len(Item(n)) \in Nat
                      /\ Len(Item(n)) <= Len(ss[n])
                      /\ \A i \in 1 .. Len(Item(n)) : ss[n][i] = Item(n)[i]
                      /\ \A i \in 1 .. Len(ss[n]) : i <= Len(Item(n)) \/ ss[n][i] = Blank
                      /\ n < N => ss[n][Len(ss[n])] = Blank /\ Len(ss[n]) = Len(Item(n)) + 1
    OBVIOUS
  <2>1. Item(n) \in Strings /\ ss[n] = Item(n) \o Gap(n)
    BY <1>2, <1>5
  <2>2. CASE n < N
    <3>1. Gap(n) = <<Blank>>
      BY <2>2, Zenon DEF Gap
    <3> QED
      BY <2>1, <3>1, BlankAppended
  <2>3. CASE ~(n < N)
    <3>1. Gap(n) = <<>>
      BY <2>3, Zenon DEF Gap
    <3>2. ss[n] = Item(n) /\ Len(Item(n)) \in Nat
      BY <2>1, <3>1, BlankAppended
    <3>3. \A i \in 1 .. Len(Item(n)) : i <= Len(Item(n))
      BY <3>2
    <3> QED
      BY <2>1, <2>3, <3>2, <3>3
  <2> QED
    BY <2>2, <2>3
<1>7. ss \in Seq(Strings) /\ Len(ss) = N
  <2>1. ss \in [1 .. N -> Strings]
    BY <1>1, <1>6 DEF ss
  <2> QED
    BY <1>1, <2>1, SeqDef
<1>8. text \in Strings /\ \E e : Joined(ss, text, e)
  BY <1>7, FlattenJoins DEF text
<1>9. PICK e : Joined(ss, text, e)
  BY <1>8
<1>10. /\ \A m, n \in 0 .. N : m <= n => e[m] <= e[n]
       /\ \A p \in 1 .. Len(text) :
            \E n \in 1 .. N : \E i \in 1 .. Len(ss[n]) : text[p] = ss[n][i]
  BY <1>7, <1>8, <1>9, JoinedInOrder
<1>11. /\ \A n \in 0 .. N : e[n] \in Nat
       /\ e[N] = Len(text)
       /\ \A n \in 1 .. N : /\ e[n] = e[n - 1] + Len(ss[n])
                            /\ \A i \in 1 .. Len(ss[n]) : text[e[n - 1] + i] = ss[n][i]
  BY <1>7, <1>9 DEF Joined
<1> DEFINE spot == [n \in 1 .. N |-> CHOOSE a : Spots(items[n], Item(n), a)]
<1>12. \A n \in 1 .. N : Spots(items[n], Item(n), spot[n])
  <2> SUFFICES ASSUME NEW n \in 1 .. N
               PROVE  Spots(items[n], Item(n), spot[n])
    OBVIOUS
  <2>1. \E a : Spots(items[n], Item(n), a)
    BY <1>2
  <2>2. spot[n] = CHOOSE a : Spots(items[n], Item(n), a)
    OBVIOUS
  <2> QED
    BY <2>1, <2>2, Zenon
<1> HIDE DEF spot
<1> DEFINE inItem(p) == spot[p.item][p.child] + 2 * p.line - 1
           at == [p \in Places(items) |-> e[p.item - 1] + inItem(p)]
<1>13. \A p \in Places(items) : at[p] = e[p.item - 1] + inItem(p)
  OBVIOUS
<1> HIDE DEF at
<1>14. ASSUME NEW p \in Places(items)
       PROVE  /\ p.item \in 1 .. N /\ p.item - 1 \in 0 .. N /\ p.item \in 0 .. N
              /\ p.child \in 1 .. Len(items[p.item])
              /\ p.line \in 1 .. Len(OwnLines(items[p.item][p.child])) /\ p.line \in Nat
              /\ spot[p.item][p.child] \in Nat
              /\ inItem(p) \in 1 .. Len(Item(p.item)) /\ inItem(p) \in Nat
              /\ Item(p.item)[inItem(p)] = LineAt(items, p)
  <2>1. /\ p.item \in 1 .. N
        /\ p.child \in 1 .. Len(items[p.item])
        /\ p.line \in 1 .. Len(OwnLines(items[p.item][p.child]))
    BY PlacesAre DEF N
  <2>2. /\ spot[p.item][p.child] \in Nat
        /\ inItem(p) \in 1 .. Len(Item(p.item))
        /\ Item(p.item)[inItem(p)] = OwnLines(items[p.item][p.child])[p.line]
    BY <1>12, <2>1 DEF Spots
  <2>3. p.item - 1 \in 0 .. N /\ p.item \in 0 .. N
    BY <1>1, <2>1
  <2>4. p.line \in Nat /\ inItem(p) \in Nat
    <3>1. Len(Item(p.item)) \in Nat
      BY <1>6, <2>1
    <3>2. Len(OwnLines(items[p.item][p.child])) \in Nat
      BY <1>0, <2>1
    <3>3. p.line \in Nat
      BY <2>1, <3>2
    <3>4. inItem(p) \in Nat
      <4> HIDE DEF inItem
      <4> QED
        BY <2>2, <3>1
    <3> QED
      BY <3>3, <3>4
  <2> QED
    BY <2>1, <2>2, <2>3, <2>4 DEF LineAt
<1> HIDE DEF inItem
<1>15. ASSUME NEW p \in Places(items)
       PROVE  /\ at[p] \in 1 .. Len(text) /\ text[at[p]] = LineAt(items, p)
              /\ at[p] <= e[p.item - 1] + Len(Item(p.item)) /\ at[p] > e[p.item - 1]
              /\ e[p.item - 1] \in Nat /\ e[p.item] \in Nat /\ at[p] \in Nat
  <2> DEFINE n == p.item
             x == inItem(p)
  <2>1. n \in 1 .. N /\ x \in 1 .. Len(Item(n)) /\ x \in Nat /\ Item(n)[x] = LineAt(items, p)
    BY <1>14
  <2>2. /\ e[n - 1] \in Nat /\ e[n] \in Nat /\ Len(text) \in Nat
        /\ e[n] <= Len(text) /\ e[n] = e[n - 1] + Len(ss[n])
    <3>1. n <= N /\ N \in 0 .. N /\ n \in 0 .. N /\ n - 1 \in 0 .. N
      BY <1>1, <2>1
    <3> QED
      BY <1>10, <1>11, <2>1, <3>1
  <2>3. /\ Len(Item(n)) \in Nat /\ Len(ss[n]) \in Nat /\ Len(Item(n)) <= Len(ss[n])
        /\ ss[n][x] = Item(n)[x]
    BY <1>6, <2>1
  <2>4. at[p] = e[n - 1] + x
    BY <1>13
  <2> HIDE DEF n, x
  <2>5. x \in 1 .. Len(ss[n])
    BY <2>1, <2>3
  <2>6. text[e[n - 1] + x] = ss[n][x]
    BY <1>11, <2>1, <2>5
  <2>7. /\ at[p] \in 1 .. Len(text) /\ at[p] <= e[n - 1] + Len(Item(n)) /\ at[p] > e[n - 1]
        /\ at[p] \in Nat
    <3> DEFINE y == e[n - 1]
               len == Len(Item(n))
               more == Len(ss[n])
               last == Len(text)
    <3>1. /\ y \in Nat /\ len \in Nat /\ more \in Nat /\ len <= more /\ x \in 1 .. len
          /\ last \in Nat /\ y + more <= last /\ at[p] = y + x
      BY <2>1, <2>2, <2>3, <2>4
    <3> HIDE DEF y, len, more, last
    <3>2. y + x \in 1 .. last /\ y + x <= y + len /\ y + x > y /\ y + x \in Nat
      BY <3>1, InRange
    <3> QED
      BY <3>1, <3>2 DEF y, len, last
  <2> QED
    BY <2>1, <2>2, <2>3, <2>4, <2>6, <2>7 DEF n
<1>16. ASSUME NEW k \in 1 .. Len(text)
       PROVE  text[k] = Blank \/ \E p \in Places(items) : text[k] = LineAt(items, p)
  <2>1. PICK n \in 1 .. N : \E i \in 1 .. Len(ss[n]) : text[k] = ss[n][i]
    BY <1>10
  <2>2. PICK i \in 1 .. Len(ss[n]) : text[k] = ss[n][i]
    BY <2>1
  <2>3. CASE text[k] # Blank
    <3>1. i \in 1 .. Len(Item(n)) /\ text[k] = Item(n)[i] /\ Item(n)[i] # Blank
      <4>1. i <= Len(Item(n)) /\ Len(Item(n)) \in Nat /\ Len(ss[n]) \in Nat
        BY <1>6, <2>2, <2>3
      <4>2. i \in 1 .. Len(Item(n))
        BY <4>1
      <4> QED
        BY <1>6, <2>2, <2>3, <4>2
    <3>2. PICK c \in 1 .. Len(items[n]) : \E l \in 1 .. Len(OwnLines(items[n][c])) :
            Item(n)[i] = OwnLines(items[n][c])[l]
      BY <1>12, <3>1 DEF Spots
    <3>3. PICK l \in 1 .. Len(OwnLines(items[n][c])) : Item(n)[i] = OwnLines(items[n][c])[l]
      BY <3>2
    <3> DEFINE p == [item |-> n, child |-> c, line |-> l]
    <3>4. p \in Places(items) /\ p.item = n /\ p.child = c /\ p.line = l
      BY PlacesAre DEF N
    <3> HIDE DEF p
    <3>5. LineAt(items, p) = OwnLines(items[n][c])[l]
      BY <3>4 DEF LineAt
    <3> QED
      BY <3>1, <3>3, <3>4, <3>5
  <2> QED
    BY <2>3
<1>17. ASSUME NEW p \in Places(items), NEW q \in Places(items), Before(p, q)
       PROVE  /\ at[p] < at[q]
              /\ BlankBetween(p, q) => \E k \in at[p] + 1 .. at[q] - 1 : text[k] = Blank
  <2>1. /\ p.item \in 1 .. N /\ q.item \in 1 .. N
        /\ at[p] \in Nat /\ at[q] \in Nat
    BY <1>14, <1>15
  <2>2. CASE p.item < q.item
    <3> DEFINE n == p.item
    <3>1. n < N /\ n \in 0 .. N /\ q.item - 1 \in 0 .. N /\ n <= q.item - 1 /\ n - 1 \in 0 .. N
      <4> DEFINE m == q.item
      <4>1. n \in 1 .. N /\ m \in 1 .. N /\ n < m
        BY <2>1, <2>2
      <4> HIDE DEF n, m
      <4>2. n < N /\ n \in 0 .. N /\ m - 1 \in 0 .. N /\ n <= m - 1 /\ n - 1 \in 0 .. N
        BY <1>1, <4>1
      <4> QED
        BY <4>2 DEF m
    <3>2. Len(ss[n]) = Len(Item(n)) + 1 /\ Len(Item(n)) \in Nat /\ ss[n][Len(ss[n])] = Blank
      BY <1>6, <2>1, <3>1
    <3>3. e[n] <= e[q.item - 1] /\ e[n] \in Nat /\ e[n - 1] \in Nat /\ e[q.item - 1] \in Nat
      BY <1>10, <1>11, <3>1
    <3>4. e[n] = e[n - 1] + Len(ss[n])
      BY <1>11, <2>1
    <3>5. text[e[n - 1] + Len(ss[n])] = Blank
      <4>1. Len(ss[n]) \in 1 .. Len(ss[n])
        <5> DEFINE size == Len(ss[n])
                   len == Len(Item(n))
        <5>1. size = len + 1 /\ len \in Nat
          BY <3>2
        <5> HIDE DEF size, len
        <5>2. size \in 1 .. size
          BY <5>1
        <5> QED
          BY <5>2 DEF size
      <4> QED
        BY <1>11, <2>1, <3>2, <4>1
    <3>6. at[p] <= e[n - 1] + Len(Item(n)) /\ at[q] > e[q.item - 1]
      BY <1>15
    <3> HIDE DEF n
    <3>7. at[p] < at[q] /\ e[n] \in at[p] + 1 .. at[q] - 1
      <4> DEFINE i == at[p]
                 j == at[q]
                 k == e[n]
                 x == e[n - 1]
                 y == e[q.item - 1]
                 len == Len(Item(n))
      <4>1. /\ i \in Nat /\ j \in Nat /\ k \in Nat /\ x \in Nat /\ y \in Nat /\ len \in Nat
            /\ k = x + (len + 1) /\ k <= y /\ i <= x + len /\ j > y
        BY <2>1, <3>2, <3>3, <3>4, <3>6
      <4> HIDE DEF i, j, k, x, y, len
      <4>2. i < j /\ k \in i + 1 .. j - 1
        BY <4>1
      <4> QED
        BY <4>2 DEF i, j, k
    <3> QED
      BY <3>4, <3>5, <3>7
  <2>3. CASE p.item = q.item
    <3> DEFINE n == p.item
               c == p.child
               d == q.child
               b == spot[n]
    <3>1. /\ at[p] = e[n - 1] + (b[c] + 2 * p.line - 1) /\ at[q] = e[n - 1] + (b[d] + 2 * q.line - 1)
          /\ p.line \in Nat /\ q.line \in Nat /\ q.line >= 1 /\ e[n - 1] \in Nat
          /\ b[c] \in Nat /\ b[d] \in Nat
          /\ c \in 1 .. Len(items[n]) /\ d \in 1 .. Len(items[n]) /\ n \in 1 .. N
          /\ p.line \in 1 .. Len(OwnLines(items[n][c]))
          /\ q.line \in 1 .. Len(OwnLines(items[n][d]))
      <4>1. /\ p.line \in Nat /\ q.line \in Nat /\ e[n - 1] \in Nat
            /\ b[c] \in Nat /\ b[d] \in Nat
            /\ c \in 1 .. Len(items[n]) /\ d \in 1 .. Len(items[n]) /\ n \in 1 .. N
            /\ p.line \in 1 .. Len(OwnLines(items[n][c]))
            /\ q.line \in 1 .. Len(OwnLines(items[n][d]))
        BY <1>14, <1>15, <2>3
      <4>2. /\ at[p] = e[n - 1] + (b[c] + 2 * p.line - 1)
            /\ at[q] = e[n - 1] + (b[d] + 2 * q.line - 1)
        BY <1>13, <2>3, Zenon DEF inItem
      <4>3. q.line >= 1
        BY <4>1, <1>0
      <4> QED
        BY <4>1, <4>2, <4>3
    <3>2. CASE c < d
      <4>1. b[c] + 2 * p.line - 1 <= b[d]
        BY <1>12, <3>1, <3>2 DEF Spots
      <4>2. ~BlankBetween(p, q)
        <5>1. c # d
          BY <1>1, <3>1, <3>2
        <5> QED
          BY <2>3, <5>1 DEF BlankBetween
      <4>3. at[p] < at[q]
        <5> DEFINE i == at[p]
                   j == at[q]
                   l == p.line
                   m == q.line
                   x == b[c]
                   y == b[d]
                   z == e[n - 1]
        <5>1. /\ i = z + (x + 2 * l - 1) /\ j = z + (y + 2 * m - 1) /\ x + 2 * l - 1 <= y /\ m >= 1
              /\ l \in Nat /\ m \in Nat /\ x \in Nat /\ y \in Nat /\ z \in Nat
          BY <3>1, <4>1
        <5> HIDE DEF i, j, l, m, x, y, z
        <5>2. i < j
          BY <5>1
        <5> QED
          BY <5>2 DEF i, j
      <4> QED
        BY <4>2, <4>3
    <3>3. CASE c = d /\ p.line < q.line
      <4> DEFINE l == p.line
                 m == q.line
                 x == b[c]
                 y == e[n - 1]
                 own == OwnLines(items[n][c])
      <4>1. /\ at[p] = y + (x + 2 * l - 1) /\ at[q] = y + (x + 2 * m - 1) /\ l < m
            /\ l \in Nat /\ m \in Nat /\ x \in Nat /\ y \in Nat
        BY <3>1, <3>3
      <4>2. l < Len(own)
        <5>2. m \in 1 .. Len(own) /\ Len(own) \in Nat
          BY <1>0, <3>1, <3>3
        <5> HIDE DEF l, m, own
        <5> QED
          BY <4>1, <5>2
      <4>3. Item(n)[x + 2 * l] = Blank
        BY <1>12, <3>1, <4>2 DEF Spots
      <4>4. x + 2 * m - 1 \in 1 .. Len(Item(n))
        BY <1>12, <3>1, <3>3 DEF Spots
      <4>5. Len(Item(n)) \in Nat /\ Len(ss[n]) \in Nat /\ Len(Item(n)) <= Len(ss[n])
        BY <1>6, <3>1
      <4>6. x + 2 * l \in 1 .. Len(Item(n)) /\ x + 2 * l \in 1 .. Len(ss[n])
        <5> DEFINE len == Len(Item(n))
                   size == Len(ss[n])
        <5>1. /\ l < m /\ l \in Nat /\ m \in Nat /\ x \in Nat /\ l >= 1
              /\ x + 2 * m - 1 \in 1 .. len /\ len \in Nat /\ size \in Nat /\ len <= size
          BY <1>0, <3>1, <4>1, <4>4, <4>5
        <5> HIDE DEF l, m, x, y, len, size
        <5>2. x + 2 * l \in 1 .. len /\ x + 2 * l \in 1 .. size
          BY <5>1
        <5> QED
          BY <5>2 DEF len, size
      <4>7. text[y + (x + 2 * l)] = Blank
        <5> DEFINE z == x + 2 * l
        <5>1. z \in 1 .. Len(Item(n)) /\ z \in 1 .. Len(ss[n]) /\ Item(n)[z] = Blank
          BY <4>3, <4>6
        <5> HIDE DEF z
        <5>2. ss[n][z] = Blank
          BY <1>6, <3>1, <5>1
        <5>3. text[y + z] = ss[n][z]
          BY <1>11, <3>1, <5>1
        <5> QED
          BY <5>2, <5>3 DEF z
      <4>8. at[p] < at[q] /\ y + (x + 2 * l) \in at[p] + 1 .. at[q] - 1
        <5> HIDE DEF l, m, x, y
        <5> QED
          BY <4>1
      <4> QED
        BY <4>7, <4>8
    <3> QED
      <4>1. c < d \/ (c = d /\ p.line < q.line)
        <5>1. ~(p.item < q.item)
          BY <1>1, <2>1, <2>3
        <5> QED
          BY <1>17, <2>3, <5>1 DEF Before
      <4> QED
        BY <3>2, <3>3, <4>1
  <2>4. CASE ~(p.item < q.item) /\ ~(p.item = q.item)
    BY <1>17, <2>4 DEF Before
  <2> QED
    BY <2>2, <2>3, <2>4
<1>18. Placed(text, items, at)
  BY <1>15, <1>16, <1>17 DEF Placed
<1>19. HoldsLines(text, items)
  BY <1>8, <1>18, HoldsByPlaces
<1> QED
  BY <1>4, <1>8, <1>19

-----------------------------------------------------------------------------
(* Parse.                                                                  *)
Lines == Seq(Words)
Sections == [subheading : Lines, text : Strings]
Standings == [heading : Lines, sections : Seq(Sections)]
NoStanding == [heading |-> <<>>, sections |-> <<>>]

IsSection(block) == block.kind \in {"paragraph", "list"}

(* What Parse takes from a paragraph or a list.                            *)
LEMMA ExtractHolds ==
  ASSUME NEW block \in Blocks, IsSection(block)
  PROVE  Extract(block) \in Strings /\ HoldsLines(Extract(block), Items(block))
<1>1. block.lines \in Seq(Words) /\ block.items \in Seq(Seq(Nodes))
  BY DEF Blocks
<1>2. CASE block.kind = "list"
  BY <1>1, <1>2, ListHolds DEF Extract, Items
<1>3. CASE block.kind # "list"
  <2>1. Extract(block) = ExtractText(block.lines)
        /\ Items(block) = << <<[kind |-> "text", lines |-> block.lines]>> >>
    BY <1>3 DEF Extract, Items
  <2> QED
    BY <1>1, <2>1, ExtractTextLines, ParagraphHolds
<1> QED
  BY <1>2, <1>3

LEMMA ParseBlockType ==
  ASSUME NEW acc \in Standings, NEW block \in Blocks
  PROVE  ParseBlock(acc, block) \in Standings
<1>1. CASE block.kind = "heading"
  BY <1>1 DEF ParseBlock, Standings, Blocks, Lines
<1>2. CASE IsSection(block)
  <2> DEFINE new == [subheading |-> acc.heading, text |-> Extract(block)]
  <2>1. new \in Sections
    BY <1>2, ExtractHolds DEF Sections, Standings
  <2>2. Append(acc.sections, new) \in Seq(Sections)
    BY <2>1 DEF Standings
  <2>3. ParseBlock(acc, block) = [acc EXCEPT !.sections = Append(acc.sections, new)]
    BY <1>2 DEF ParseBlock, Standings, IsSection
  <2> HIDE DEF new
  <2> QED
    BY <2>2, <2>3 DEF Standings
<1>3. CASE ~(block.kind = "heading") /\ ~IsSection(block)
  BY <1>3 DEF ParseBlock, IsSection
<1> QED
  BY <1>1, <1>2, <1>3

(* The loop of Parse goes over the blocks one by one.                      *)
LEMMA ParsedLoop ==
  ASSUME NEW blocks \in Seq(Blocks)
  PROVE  /\ Parsed(blocks) \in [0 .. Len(blocks) -> Standings]
         /\ Parsed(blocks)[0] = NoStanding
         /\ \A n \in 1 .. Len(blocks) :
              Parsed(blocks)[n] = ParseBlock(Parsed(blocks)[n - 1], blocks[n])
<1> DEFINE N == Len(blocks)
           step == [n \in 1 .. N |-> [acc \in Standings |-> ParseBlock(acc, blocks[n])]]
<1>1. \A n \in 1 .. N : blocks[n] \in Blocks
  OBVIOUS
<1>2. NoStanding \in Standings
  BY DEF NoStanding, Standings, Lines
<1>3. ASSUME NEW acc \in Standings, NEW n \in 1 .. N
      PROVE  /\ step[n][acc] = ParseBlock(acc, blocks[n])
             /\ step[n][acc] \in Standings
  BY <1>1, ParseBlockType
<1>4. step \in [1 .. N -> [Standings -> Standings]]
  BY <1>1, ParseBlockType
<1>5. N \in Nat
  OBVIOUS
<1> HIDE DEF step, N
<1>6. PICK g : /\ g \in [0 .. N -> Standings]
               /\ g[0] = NoStanding
               /\ \A n \in 1 .. N : g[n] = step[n][g[n - 1]]
  BY <1>2, <1>4, <1>5, Course
<1>7. \A n \in 1 .. N : n \in 0 .. N /\ n - 1 \in 0 .. N /\ n # 0
  BY <1>5
<1>8. \A n \in 0 .. N : n # 0 => n \in 1 .. N
  BY <1>5
<1>9. \A n \in 0 .. N : n # 0 => step[n][g[n - 1]] = ParseBlock(g[n - 1], blocks[n])
  BY <1>3, <1>6, <1>7, <1>8
<1>10. g = [n \in 0 .. N |-> IF n = 0 THEN NoStanding ELSE ParseBlock(g[n - 1], blocks[n])]
  BY <1>6, <1>9
<1>11. Parsed(blocks)
         = [n \in 0 .. N |->
              IF n = 0 THEN NoStanding ELSE ParseBlock(Parsed(blocks)[n - 1], blocks[n])]
  <2> DEFINE P == CHOOSE f : f = [n \in 0 .. N |->
              IF n = 0 THEN NoStanding ELSE ParseBlock(f[n - 1], blocks[n])]
  <2>1. Parsed(blocks) = P
    BY Zenon DEF Parsed, NoStanding, N
  <2>2. P = [n \in 0 .. N |-> IF n = 0 THEN NoStanding ELSE ParseBlock(P[n - 1], blocks[n])]
    BY Zenon, <1>10
  <2> QED
    BY Zenon, <2>1, <2>2
<1>12. Parsed(blocks)[0] = NoStanding
  BY <1>11, <1>5
<1>13. \A n \in 1 .. N : Parsed(blocks)[n] = ParseBlock(Parsed(blocks)[n - 1], blocks[n])
  BY <1>11, <1>7
<1> DEFINE S == {n \in 0 .. N : Parsed(blocks)[n] \in Standings}
<1>14. 0 \in S
  BY <1>2, <1>12, <1>5
<1>15. \A n \in 1 .. N : n - 1 \in S => n \in S
  BY <1>1, <1>7, <1>13, ParseBlockType
<1>16. \A n \in 0 .. N : n \in S
  <2> HIDE DEF S
  <2> QED
    BY <1>14, <1>15, <1>5, UpTo
<1>17. Parsed(blocks) \in [0 .. N -> Standings]
  BY <1>11, <1>16
<1> QED
  BY <1>12, <1>13, <1>17 DEF N

LEMMA MaxIs ==
  ASSUME NEW T, T \subseteq Int, NEW m \in T, \A y \in T : y <= m
  PROVE  Max(T) = m
<1>1. \A x \in T : (\A y \in T : x >= y) => x = m
  OBVIOUS
<1>2. \A y \in T : m >= y
  OBVIOUS
<1> QED
  BY <1>1, <1>2, Zenon DEF Max

(* The blocks of sections and the headings among the first b blocks.       *)
SectionsUpTo(blocks, b) == {k \in 1 .. b : IsSection(blocks[k])}
HeadsUpTo(blocks, b) == {h \in 1 .. b : blocks[h].kind = "heading"}
HeadingBefore(blocks, b) ==
  IF HeadsUpTo(blocks, b) = {} THEN <<>> ELSE blocks[Max(HeadsUpTo(blocks, b))].lines

(* The section at index i is block b, under the last heading before it.    *)
QuotedFrom(blocks, section, i, b) ==
  /\ IsSection(blocks[b])
  /\ section.text = Extract(blocks[b])
  /\ i = Cardinality(SectionsUpTo(blocks, b))
  /\ section.subheading = HeadingBefore(blocks, b)

ParsedSoFar(blocks, n) ==
  /\ Parsed(blocks)[n].heading = HeadingBefore(blocks, n)
  /\ Len(Parsed(blocks)[n].sections) = Cardinality(SectionsUpTo(blocks, n))
  /\ \A i \in 1 .. Len(Parsed(blocks)[n].sections) :
       \E b \in 1 .. n : QuotedFrom(blocks, Parsed(blocks)[n].sections[i], i, b)

LEMMA SectionsCount ==
  ASSUME NEW blocks \in Seq(Blocks), NEW n \in 1 .. Len(blocks)
  PROVE  /\ Cardinality(SectionsUpTo(blocks, 0)) = 0
         /\ Cardinality(SectionsUpTo(blocks, n))
              = Cardinality(SectionsUpTo(blocks, n - 1)) + IF IsSection(blocks[n]) THEN 1 ELSE 0
<1>1. Cardinality(SectionsUpTo(blocks, 0)) = 0
  <2>1. SectionsUpTo(blocks, 0) = {}
    BY DEF SectionsUpTo
  <2> QED
    BY <2>1, FS_EmptySet
<1>2. IsFiniteSet(SectionsUpTo(blocks, n - 1))
  <2>1. IsFiniteSet(1 .. n - 1)
    BY FS_Interval
  <2>2. SectionsUpTo(blocks, n - 1) \in SUBSET (1 .. n - 1)
    BY DEF SectionsUpTo
  <2> QED
    BY <2>1, <2>2, FS_Subset
<1>3. n \notin SectionsUpTo(blocks, n - 1)
  BY DEF SectionsUpTo
<1>4. CASE IsSection(blocks[n])
  <2>1. SectionsUpTo(blocks, n) = SectionsUpTo(blocks, n - 1) \union {n}
    BY <1>4 DEF SectionsUpTo
  <2>2. Cardinality(SectionsUpTo(blocks, n - 1) \union {n})
          = Cardinality(SectionsUpTo(blocks, n - 1)) + 1
    BY <1>2, <1>3, FS_AddElement
  <2> QED
    BY <1>1, <1>4, <2>1, <2>2
<1>5. CASE ~IsSection(blocks[n])
  <2>1. SectionsUpTo(blocks, n) = SectionsUpTo(blocks, n - 1)
    BY <1>5 DEF SectionsUpTo
  <2>2. Cardinality(SectionsUpTo(blocks, n - 1)) \in Nat
    BY <1>2, FS_CardinalityType
  <2> QED
    BY <1>1, <1>5, <2>1, <2>2
<1> QED
  BY <1>4, <1>5

LEMMA HeadingCarried ==
  ASSUME NEW blocks \in Seq(Blocks), NEW n \in 1 .. Len(blocks)
  PROVE  /\ HeadingBefore(blocks, 0) = <<>>
         /\ HeadingBefore(blocks, n)
              = IF blocks[n].kind = "heading" THEN blocks[n].lines
                                              ELSE HeadingBefore(blocks, n - 1)
<1>1. HeadsUpTo(blocks, 0) = {}
  BY DEF HeadsUpTo
<1>2. HeadingBefore(blocks, 0) = <<>>
  BY <1>1 DEF HeadingBefore
<1>3. CASE blocks[n].kind = "heading"
  <2>1. n \in HeadsUpTo(blocks, n) /\ HeadsUpTo(blocks, n) \subseteq Int
    BY <1>3 DEF HeadsUpTo
  <2>2. \A y \in HeadsUpTo(blocks, n) : y <= n
    BY DEF HeadsUpTo
  <2>3. Max(HeadsUpTo(blocks, n)) = n
    BY <2>1, <2>2, MaxIs
  <2> QED
    BY <1>2, <1>3, <2>1, <2>3 DEF HeadingBefore
<1>4. CASE blocks[n].kind # "heading"
  <2>1. HeadsUpTo(blocks, n) = HeadsUpTo(blocks, n - 1)
    BY <1>4 DEF HeadsUpTo
  <2> QED
    BY <1>2, <1>4, <2>1 DEF HeadingBefore
<1> QED
  BY <1>3, <1>4

LEMMA ParseQuotes ==
  ASSUME NEW blocks \in Seq(Blocks)
  PROVE  \A n \in 0 .. Len(blocks) : ParsedSoFar(blocks, n)
<1> DEFINE N == Len(blocks)
           S == {n \in 0 .. N : ParsedSoFar(blocks, n)}
<1>1. N \in Nat
  OBVIOUS
<1>2. 0 \in S
  <2>1. SectionsUpTo(blocks, 0) = {} /\ HeadsUpTo(blocks, 0) = {}
    BY DEF SectionsUpTo, HeadsUpTo
  <2>2. Cardinality(SectionsUpTo(blocks, 0)) = 0 /\ HeadingBefore(blocks, 0) = <<>>
    BY <2>1, FS_EmptySet DEF HeadingBefore
  <2>3. Parsed(blocks)[0].heading = <<>> /\ Parsed(blocks)[0].sections = <<>>
    BY ParsedLoop DEF NoStanding
  <2> QED
    BY <1>1, <2>2, <2>3 DEF ParsedSoFar
<1>3. ASSUME NEW n \in 1 .. N, n - 1 \in S
      PROVE  n \in S
  <2> DEFINE old == Parsed(blocks)[n - 1]
             new == Parsed(blocks)[n]
  <2>1. n - 1 \in 0 .. N /\ n \in 0 .. N
    BY <1>1
  <2>2. old \in Standings /\ new \in Standings /\ new = ParseBlock(old, blocks[n])
    BY <2>1, ParsedLoop
  <2>3. blocks[n] \in Blocks
    OBVIOUS
  <2>4. ParsedSoFar(blocks, n - 1)
    BY <1>3
  <2>5. \A i \in 1 .. Len(old.sections) :
          \E b \in 1 .. n : QuotedFrom(blocks, old.sections[i], i, b)
    BY <2>1, <2>4 DEF ParsedSoFar
  <2> SUFFICES ParsedSoFar(blocks, n)
    BY <2>1
  <2>6. CASE IsSection(blocks[n])
    <3> DEFINE section == [subheading |-> old.heading, text |-> Extract(blocks[n])]
    <3>1. new.heading = old.heading /\ new.sections = Append(old.sections, section)
      BY <2>2, <2>6 DEF ParseBlock, IsSection, Standings
    <3>2. old.sections \in Seq(Sections) /\ section \in Sections
      BY <2>2, <2>3, <2>6, ExtractHolds DEF Standings, Sections
    <3>3. Len(new.sections) = Cardinality(SectionsUpTo(blocks, n))
      BY <2>4, <2>6, <3>1, <3>2, SectionsCount DEF ParsedSoFar
    <3>4. new.heading = HeadingBefore(blocks, n) /\ section.subheading = HeadingBefore(blocks, n)
      BY <2>4, <2>6, <3>1, HeadingCarried DEF ParsedSoFar, IsSection
    <3>5. ASSUME NEW i \in 1 .. Len(new.sections)
          PROVE  \E b \in 1 .. n : QuotedFrom(blocks, new.sections[i], i, b)
      <4>1. CASE i = Len(new.sections)
        <5>1. new.sections[i] = section
          BY <3>1, <3>2, <4>1
        <5>2. QuotedFrom(blocks, section, i, n)
          BY <2>6, <3>3, <3>4, <4>1 DEF QuotedFrom
        <5> QED
          BY <5>1, <5>2
      <4>2. CASE i # Len(new.sections)
        <5>1. i \in 1 .. Len(old.sections) /\ new.sections[i] = old.sections[i]
          BY <3>1, <3>2, <4>2
        <5> QED
          BY <2>5, <5>1
      <4> QED
        BY <4>1, <4>2
    <3> QED
      BY <3>3, <3>4, <3>5 DEF ParsedSoFar
  <2>7. CASE ~IsSection(blocks[n])
    <3>1. new.sections = old.sections
      BY <2>2, <2>7 DEF ParseBlock, IsSection, Standings
    <3>2. new.heading = IF blocks[n].kind = "heading" THEN blocks[n].lines ELSE old.heading
      BY <2>2, <2>7 DEF ParseBlock, IsSection, Standings
    <3>3. Len(new.sections) = Cardinality(SectionsUpTo(blocks, n))
      <4>1. Len(old.sections) = Cardinality(SectionsUpTo(blocks, n - 1)) /\ Len(old.sections) \in Nat
        BY <2>2, <2>4 DEF ParsedSoFar, Standings
      <4> QED
        BY <2>7, <3>1, <4>1, SectionsCount
    <3>4. new.heading = HeadingBefore(blocks, n)
      BY <2>4, <3>2, HeadingCarried DEF ParsedSoFar
    <3> QED
      BY <2>5, <3>1, <3>3, <3>4 DEF ParsedSoFar
  <2> QED
    BY <2>6, <2>7
<1>4. \A n \in 1 .. N : n - 1 \in S => n \in S
  BY <1>3
<1> HIDE DEF S
<1>5. \A n \in 0 .. N : n \in S
  BY <1>1, <1>2, <1>4, UpTo
<1> QED
  BY <1>5 DEF S

-----------------------------------------------------------------------------
(* Search.                                                                 *)
Rows == [index : Nat, section : Sections]
Sources == [reference : STRING, index : Nat, subheading : Lines, text : Strings]

(* The sections found are stored ones, each once, no more than labels.     *)
FoundOK ==
  /\ found \in Seq(Rows)
  /\ Len(found) <= MaxSources
  /\ \A i \in DOMAIN found :
       found[i].index \in stored /\ found[i].section = Parse(document)[found[i].index]
  /\ \A i, j \in DOMAIN found : found[i].index = found[j].index => i = j

LEMMA SourceType ==
  ASSUME FoundOK, NEW k \in 1 .. Len(found)
  PROVE  /\ k \in DOMAIN found /\ k \in DOMAIN Labels
         /\ Source(k) \in Sources
         /\ Source(k).reference = Labels[k] /\ Source(k).index = found[k].index
         /\ Source(k).subheading = found[k].section.subheading
         /\ Source(k).text = found[k].section.text
<1>1. found[k] \in Rows /\ k \in DOMAIN found
  BY DEF FoundOK
<1>2. Labels[k] \in STRING /\ k \in DOMAIN Labels
  BY AnswersAssumption DEF FoundOK, MaxSources
<1> QED
  BY <1>1, <1>2 DEF Source, Rows, Sources, Sections

(* The loop that collects the sources goes over the sections found.        *)
LEMMA ResolvingLoop ==
  ASSUME FoundOK, NEW answer
  PROVE  /\ Resolving(answer) \in [0 .. Len(found) -> Seq(Sources)]
         /\ Resolving(answer)[0] = <<>>
         /\ \A n \in 1 .. Len(found) :
              Resolving(answer)[n] = IF Labels[n] \in Range(answer.references)
                                     THEN Append(Resolving(answer)[n - 1], Source(n))
                                     ELSE Resolving(answer)[n - 1]
<1> DEFINE N == Len(found)
           Cited(n) == Labels[n] \in Range(answer.references)
           Body(acc, n) == IF Cited(n) THEN Append(acc, Source(n)) ELSE acc
           step == [n \in 1 .. N |-> [acc \in Seq(Sources) |-> Body(acc, n)]]
<1>1. N \in Nat
  BY DEF FoundOK
<1>2. <<>> \in Seq(Sources)
  OBVIOUS
<1>3. ASSUME NEW acc \in Seq(Sources), NEW n \in 1 .. N
      PROVE  Body(acc, n) \in Seq(Sources)
  <2>1. Source(n) \in Sources
    BY SourceType
  <2> HIDE DEF Cited
  <2> QED
    BY <2>1
<1>4. Resolving(answer) = CHOOSE f :
        f = [n \in 0 .. N |-> IF n = 0 THEN <<>> ELSE Body(f[n - 1], n)]
  BY Zenon DEF Resolving
<1> HIDE DEF Body
<1>5. ASSUME NEW acc \in Seq(Sources), NEW n \in 1 .. N
      PROVE  step[n][acc] = Body(acc, n)
  OBVIOUS
<1>6. step \in [1 .. N -> [Seq(Sources) -> Seq(Sources)]]
  BY <1>3
<1> DEFINE A == Seq(Sources)
           None == <<>>
<1>7. None \in A
  BY <1>2
<1>8. step \in [1 .. N -> [A -> A]]
  BY <1>6
<1> HIDE DEF step, N, A, None
<1>9. PICK g : /\ g \in [0 .. N -> A]
               /\ g[0] = None
               /\ \A n \in 1 .. N : g[n] = step[n][g[n - 1]]
  BY <1>1, <1>7, <1>8, Course
<1>10. \A n \in 1 .. N : n \in 0 .. N /\ n - 1 \in 0 .. N /\ n # 0
  BY <1>1
<1>11. \A n \in 0 .. N : n # 0 => n \in 1 .. N
  BY <1>1
<1>12. \A n \in 0 .. N : n # 0 => g[n] = Body(g[n - 1], n)
  BY <1>5, <1>9, <1>10, <1>11 DEF A
<1>13. g = [n \in 0 .. N |-> IF n = 0 THEN None ELSE Body(g[n - 1], n)]
  BY <1>9, <1>12
<1>14. Resolving(answer)
         = [n \in 0 .. N |-> IF n = 0 THEN None ELSE Body(Resolving(answer)[n - 1], n)]
  BY Zenon, <1>4, <1>13 DEF None
<1>15. Resolving(answer)[0] = None
  BY <1>1, <1>14
<1>16. \A n \in 1 .. N : Resolving(answer)[n] = Body(Resolving(answer)[n - 1], n)
  BY <1>10, <1>14
<1> DEFINE S == {n \in 0 .. N : Resolving(answer)[n] \in A}
<1>17. 0 \in S
  BY <1>1, <1>7, <1>15
<1>18. \A n \in 1 .. N : n - 1 \in S => n \in S
  BY <1>3, <1>10, <1>16 DEF A
<1>19. \A n \in 0 .. N : n \in S
  <2> HIDE DEF S
  <2> QED
    BY <1>1, <1>17, <1>18, UpTo
<1>20. Resolving(answer) \in [0 .. N -> A]
  BY <1>14, <1>19
<1> QED
  BY <1>15, <1>16, <1>20 DEF N, Body, A, None

(* The sources collected so far: just the cited ones, each once.           *)
ResolvedSoFar(answer, n) ==
  LET sources == Resolving(answer)[n]
      Cited(k) == Labels[k] \in Range(answer.references)
  IN /\ \A j \in 1 .. Len(sources) : \E k \in 1 .. n : Cited(k) /\ sources[j] = Source(k)
     /\ \A k \in 1 .. n : Cited(k) => \E j \in 1 .. Len(sources) : sources[j] = Source(k)
     /\ \A i, j \in 1 .. Len(sources) : sources[i].index = sources[j].index => i = j

LEMMA ResolvedSources ==
  ASSUME FoundOK, NEW answer
  PROVE  /\ Resolved(answer) \in Seq(Sources)
         /\ ResolvedSoFar(answer, Len(found))
<1> DEFINE N == Len(found)
           S == {n \in 0 .. N : ResolvedSoFar(answer, n)}
           Cited(k) == Labels[k] \in Range(answer.references)
<1>1. N \in Nat
  BY DEF FoundOK
<1>2. 0 \in S
  BY <1>1, ResolvingLoop DEF ResolvedSoFar
<1>3. ASSUME NEW n \in 1 .. N, n - 1 \in S
      PROVE  n \in S
  <2> DEFINE old == Resolving(answer)[n - 1]
             new == Resolving(answer)[n]
  <2>1. n - 1 \in 0 .. N /\ n \in 0 .. N
    BY <1>1
  <2>2. old \in Seq(Sources) /\ new = IF Cited(n) THEN Append(old, Source(n)) ELSE old
    BY <2>1, ResolvingLoop
  <2>3. /\ \A j \in 1 .. Len(old) : \E k \in 1 .. n - 1 : Cited(k) /\ old[j] = Source(k)
        /\ \A k \in 1 .. n - 1 : Cited(k) => \E j \in 1 .. Len(old) : old[j] = Source(k)
        /\ \A i, j \in 1 .. Len(old) : old[i].index = old[j].index => i = j
    BY <1>3 DEF ResolvedSoFar
  <2> SUFFICES ResolvedSoFar(answer, n)
    BY <2>1
  <2>4. CASE ~Cited(n)
    <3>1. new = old
      BY <2>2, <2>4
    <3>2. \A k \in 1 .. n : Cited(k) => k \in 1 .. n - 1
      BY <2>4
    <3>3. \A k \in 1 .. n - 1 : k \in 1 .. n
      OBVIOUS
    <3> HIDE DEF Cited
    <3>4. /\ \A j \in 1 .. Len(new) : \E k \in 1 .. n : Cited(k) /\ new[j] = Source(k)
          /\ \A k \in 1 .. n : Cited(k) => \E j \in 1 .. Len(new) : new[j] = Source(k)
          /\ \A i, j \in 1 .. Len(new) : new[i].index = new[j].index => i = j
      BY <2>3, <3>1, <3>2, <3>3
    <3> QED
      BY <3>4 DEF ResolvedSoFar, Cited
  <2>5. CASE Cited(n)
    <3> DEFINE L == Len(old)
    <3>1. /\ L \in Nat /\ Len(new) = L + 1
          /\ new[L + 1] = Source(n)
          /\ \A j \in 1 .. L : new[j] = old[j]
      <4> HIDE DEF Cited
      <4> QED
        BY <2>2, <2>5, SourceType
    <3>2. ASSUME NEW j \in 1 .. L
          PROVE  old[j].index # Source(n).index
      <4>1. PICK k \in 1 .. n - 1 : old[j] = Source(k)
        BY <2>3
      <4>2. k \in 1 .. N /\ k # n
        BY <1>1
      <4>3. old[j].index = found[k].index /\ Source(n).index = found[n].index
        BY <4>1, <4>2, SourceType
      <4>4. k \in DOMAIN found /\ n \in DOMAIN found
        BY <4>2, SourceType
      <4> QED
        BY <4>2, <4>3, <4>4 DEF FoundOK
    <3> HIDE DEF Cited
    <3>3. ASSUME NEW j \in 1 .. L + 1
          PROVE  \E k \in 1 .. n : Cited(k) /\ new[j] = Source(k)
      <4>1. CASE j = L + 1
        BY <2>5, <3>1, <4>1
      <4>2. CASE j \in 1 .. L
        <5>1. PICK k \in 1 .. n - 1 : Cited(k) /\ old[j] = Source(k)
          BY <2>3, <4>2
        <5>2. k \in 1 .. n /\ new[j] = old[j]
          BY <3>1, <4>2
        <5> QED
          BY <5>1, <5>2
      <4> QED
        BY <3>1, <4>1, <4>2
    <3>4. ASSUME NEW k \in 1 .. n, Cited(k)
          PROVE  \E j \in 1 .. L + 1 : new[j] = Source(k)
      <4>1. CASE k = n
        BY <3>1, <4>1
      <4>2. CASE k # n
        <5>1. k \in 1 .. n - 1
          BY <4>2
        <5>2. PICK j \in 1 .. L : old[j] = Source(k)
          BY <2>3, <3>4, <5>1
        <5>3. j \in 1 .. L + 1 /\ new[j] = old[j]
          BY <3>1
        <5> QED
          BY <5>2, <5>3
      <4> QED
        BY <4>1, <4>2
    <3>5. \A i, j \in 1 .. L + 1 : new[i].index = new[j].index => i = j
      <4>1. \A i \in 1 .. L + 1 : i = L + 1 \/ i \in 1 .. L
        BY <3>1
      <4> HIDE DEF L
      <4> QED
        BY <2>3, <3>1, <3>2, <4>1 DEF L
    <3> QED
      BY <3>1, <3>3, <3>4, <3>5 DEF ResolvedSoFar, Cited
  <2> QED
    BY <2>4, <2>5
<1>4. \A n \in 1 .. N : n - 1 \in S => n \in S
  BY <1>3
<1> HIDE DEF S
<1>5. \A n \in 0 .. N : n \in S
  BY <1>1, <1>2, <1>4, UpTo
<1>6. N \in 0 .. N
  BY <1>1
<1>7. ResolvedSoFar(answer, N)
  BY <1>5, <1>6 DEF S
<1> QED
  BY <1>6, <1>7, ResolvingLoop DEF Resolved

-----------------------------------------------------------------------------
(* Reading a text token by token.                                          *)
Readers == [ok : BOOLEAN, open : BOOLEAN, inside : Seq(STRING), cited : SUBSET Seq(STRING)]
NothingRead == [ok |-> TRUE, open |-> FALSE, inside |-> <<>>, cited |-> {}]

(* What one token does to the reader.                                      *)
LEMMA ReadingToken ==
  ASSUME NEW acc \in Readers, NEW token \in STRING
  PROVE  LET new == ReadToken(acc, token)
         IN /\ new \in Readers
            /\ token = "[" => /\ new.ok <=> (acc.ok /\ ~acc.open)
                              /\ new.open
                              /\ new.inside = <<>>
                              /\ new.cited = acc.cited
            /\ token = "]" => /\ new.ok <=> (acc.ok /\ acc.open)
                              /\ ~new.open
                              /\ new.inside = acc.inside
                              /\ new.cited = acc.cited \union {acc.inside}
            /\ token \notin {"[", "]"} /\ acc.open =>
                 /\ new.ok <=> (acc.ok /\ token # "\n")
                 /\ new.open
                 /\ new.inside = Append(acc.inside, token)
                 /\ new.cited = acc.cited
            /\ token \notin {"[", "]"} /\ ~acc.open => new = acc
<1> DEFINE new == ReadToken(acc, token)
<1>1. CASE token = "["
  <2> DEFINE ok == acc.ok /\ ~acc.open
  <2>1. new = [acc EXCEPT !.ok = ok, !.open = TRUE, !.inside = <<>>]
    BY <1>1 DEF ReadToken
  <2>2. ok \in BOOLEAN /\ <<>> \in Seq(STRING)
    OBVIOUS
  <2> HIDE DEF new, ok
  <2>3. new \in Readers /\ new.ok = ok /\ new.open = TRUE /\ new.inside = <<>>
        /\ new.cited = acc.cited
    BY <2>1, <2>2 DEF Readers
  <2>4. new.ok <=> (acc.ok /\ ~acc.open)
    BY <2>3, Zenon DEF ok
  <2>5. token # "]"
    BY <1>1
  <2> QED
    BY <1>1, <2>3, <2>4, <2>5 DEF new
<1>2. CASE token = "]"
  BY <1>2 DEF ReadToken, Readers
<1>3. CASE token \notin {"[", "]"} /\ acc.open
  <2> DEFINE ok == acc.ok /\ token # "\n"
             inside == Append(acc.inside, token)
  <2>1. new = [acc EXCEPT !.ok = ok, !.inside = inside]
    BY <1>3 DEF ReadToken
  <2>2. ok \in BOOLEAN /\ inside \in Seq(STRING)
    BY DEF Readers
  <2> HIDE DEF new, ok, inside
  <2>3. new \in Readers /\ new.ok = ok /\ new.open = acc.open /\ new.inside = inside
        /\ new.cited = acc.cited
    BY <2>1, <2>2 DEF Readers
  <2>4. new.ok <=> (acc.ok /\ token # "\n")
    BY <2>3, Zenon DEF ok
  <2> QED
    BY <1>3, <2>3, <2>4 DEF new, inside
<1>4. CASE token \notin {"[", "]"} /\ ~acc.open
  BY <1>4 DEF ReadToken, Readers
<1> QED
  BY <1>1, <1>2, <1>3, <1>4

(* The reader goes over the tokens one by one.                             *)
LEMMA ReadingLoop ==
  ASSUME NEW text \in Seq(STRING)
  PROVE  /\ Reading(text) \in [0 .. Len(text) -> Readers]
         /\ Reading(text)[0] = NothingRead
         /\ \A n \in 1 .. Len(text) :
              Reading(text)[n] = ReadToken(Reading(text)[n - 1], text[n])
<1> DEFINE N == Len(text)
           step == [n \in 1 .. N |-> [acc \in Readers |-> ReadToken(acc, text[n])]]
<1>1. \A n \in 1 .. N : text[n] \in STRING
  OBVIOUS
<1>2. NothingRead \in Readers
  BY DEF NothingRead, Readers
<1>3. ASSUME NEW acc \in Readers, NEW n \in 1 .. N
      PROVE  /\ step[n][acc] = ReadToken(acc, text[n])
             /\ ReadToken(acc, text[n]) \in Readers
  BY <1>1, ReadingToken
<1>4. step \in [1 .. N -> [Readers -> Readers]]
  BY <1>1, ReadingToken
<1>5. N \in Nat
  OBVIOUS
<1> HIDE DEF step, N
<1>6. PICK g : /\ g \in [0 .. N -> Readers]
               /\ g[0] = NothingRead
               /\ \A n \in 1 .. N : g[n] = step[n][g[n - 1]]
  BY <1>2, <1>4, <1>5, Course
<1>7. \A n \in 1 .. N : n \in 0 .. N /\ n - 1 \in 0 .. N /\ n # 0
  BY <1>5
<1>8. \A n \in 0 .. N : n # 0 => n \in 1 .. N
  BY <1>5
<1>9. \A n \in 0 .. N : n # 0 => step[n][g[n - 1]] = ReadToken(g[n - 1], text[n])
  BY <1>3, <1>6, <1>7, <1>8
<1>10. g = [n \in 0 .. N |-> IF n = 0 THEN NothingRead ELSE ReadToken(g[n - 1], text[n])]
  BY <1>6, <1>9
<1>11. Reading(text)
         = [n \in 0 .. N |->
              IF n = 0 THEN NothingRead ELSE ReadToken(Reading(text)[n - 1], text[n])]
  <2> DEFINE P == CHOOSE f : f = [n \in 0 .. N |->
              IF n = 0 THEN NothingRead ELSE ReadToken(f[n - 1], text[n])]
  <2>1. Reading(text) = P
    BY Zenon DEF Reading, NothingRead, N
  <2>2. P = [n \in 0 .. N |-> IF n = 0 THEN NothingRead ELSE ReadToken(P[n - 1], text[n])]
    BY Zenon, <1>10
  <2> QED
    BY Zenon, <2>1, <2>2
<1>12. Reading(text)[0] = NothingRead
  BY <1>11, <1>5
<1>13. \A n \in 1 .. N : Reading(text)[n] = ReadToken(Reading(text)[n - 1], text[n])
  BY <1>11, <1>7
<1> DEFINE S == {n \in 0 .. N : Reading(text)[n] \in Readers}
<1>14. 0 \in S
  BY <1>2, <1>12, <1>5
<1>15. \A n \in 1 .. N : n - 1 \in S => n \in S
  BY <1>3, <1>7, <1>13
<1>16. \A n \in 0 .. N : n \in S
  <2> HIDE DEF S
  <2> QED
    BY <1>14, <1>15, <1>5, UpTo
<1>17. Reading(text) \in [0 .. N -> Readers]
  BY <1>11, <1>16
<1> QED
  BY <1>12, <1>13, <1>17 DEF N

(* What the regular expression matches, by its two ends.                   *)
Plain(text, i, n) == \A k \in i + 1 .. n : text[k] \notin {"[", "]", "\n"}
Bracketed(text, i, j) ==
  /\ text[i] = "[" /\ text[j] = "]"
  /\ i < j
  /\ Plain(text, i, j - 1)

(* A bracket at p that no match covers.                                    *)
LeftAt(text, p) ==
  /\ text[p] \in {"[", "]"}
  /\ \A i, j \in 1 .. Len(text) : Bracketed(text, i, j) => p \notin i .. j

LEMMA MatchEnds ==
  ASSUME NEW text \in Seq(STRING)
  PROVE  /\ \A match \in Matches(text) :
              /\ match[1] \in 1 .. Len(text) /\ match[2] \in 1 .. Len(text)
              /\ Bracketed(text, match[1], match[2])
         /\ \A i, j \in 1 .. Len(text) : Bracketed(text, i, j) => <<i, j>> \in Matches(text)
<1>1. ASSUME NEW match \in Matches(text)
      PROVE  /\ match[1] \in 1 .. Len(text) /\ match[2] \in 1 .. Len(text)
             /\ Bracketed(text, match[1], match[2])
  BY DEF Matches, Positions, Bracketed, Plain
<1>2. ASSUME NEW i \in 1 .. Len(text), NEW j \in 1 .. Len(text), Bracketed(text, i, j)
      PROVE  <<i, j>> \in Matches(text)
  <2>1. <<i, j>>[1] = i /\ <<i, j>>[2] = j
    OBVIOUS
  <2>2. i \in Positions(text, "[") /\ j \in Positions(text, "]")
    BY <1>2 DEF Positions, Bracketed
  <2>3. <<i, j>> \in Positions(text, "[") \X Positions(text, "]")
    BY <2>2
  <2>4. \A k \in <<i, j>>[1] + 1 .. <<i, j>>[2] - 1 : text[k] \notin {"[", "]", "\n"}
    BY <1>2, <2>1 DEF Bracketed, Plain
  <2>5. <<i, j>>[1] < <<i, j>>[2]
    BY <1>2, <2>1 DEF Bracketed
  <2> QED
    BY <2>3, <2>4, <2>5, Zenon DEF Matches
<1> QED
  BY <1>1, <1>2

LEMMA LeftOver ==
  ASSUME NEW text \in Seq(STRING)
  PROVE  BracketLeftOver(text) <=> \E p \in 1 .. Len(text) : LeftAt(text, p)
<1>1. DOMAIN text = 1 .. Len(text)
  OBVIOUS
<1>2. ASSUME NEW p \in 1 .. Len(text)
      PROVE  (\A match \in Matches(text) : p \notin match[1] .. match[2])
               <=> \A i, j \in 1 .. Len(text) : Bracketed(text, i, j) => p \notin i .. j
  <2>1. ASSUME \A match \in Matches(text) : p \notin match[1] .. match[2],
               NEW i \in 1 .. Len(text), NEW j \in 1 .. Len(text), Bracketed(text, i, j)
        PROVE  p \notin i .. j
    <3>1. <<i, j>> \in Matches(text) /\ <<i, j>>[1] = i /\ <<i, j>>[2] = j
      BY <2>1, MatchEnds
    <3>2. p \notin <<i, j>>[1] .. <<i, j>>[2]
      BY <2>1, <3>1
    <3> QED
      BY <3>1, <3>2
  <2>2. ASSUME \A i, j \in 1 .. Len(text) : Bracketed(text, i, j) => p \notin i .. j,
               NEW match \in Matches(text)
        PROVE  p \notin match[1] .. match[2]
    BY <2>2, MatchEnds
  <2> QED
    BY <2>1, <2>2
<1> QED
  BY <1>1, <1>2 DEF BracketLeftOver, LeftAt

(* A bracket that opens is left over when the next token that is not plain *)
(* is no bracket that closes, or when there is none.                       *)
LEMMA LeftOpen ==
  ASSUME NEW text \in Seq(STRING), NEW i \in 1 .. Len(text), text[i] = "[",
         NEW n \in Nat, i < n, Plain(text, i, n - 1),
         n \in 1 .. Len(text) => text[n] \in {"[", "\n"},
         n \in 1 .. Len(text) \/ n = Len(text) + 1
  PROVE  LeftAt(text, i)
<1>1. ASSUME NEW a \in 1 .. Len(text), NEW b \in 1 .. Len(text), Bracketed(text, a, b),
             i \in a .. b
      PROVE  FALSE
  <2>1. a = i
    BY <1>1 DEF Bracketed, Plain
  <2>2. b \notin i + 1 .. n - 1
    BY <1>1 DEF Bracketed, Plain
  <2>3. b # n
    BY <1>1 DEF Bracketed
  <2>4. ~(b > n)
    <3>1. SUFFICES ASSUME b > n
                   PROVE  FALSE
      OBVIOUS
    <3>2. n \in 1 .. Len(text) /\ n \in i + 1 .. b - 1
      BY <3>1
    <3> QED
      BY <1>1, <2>1, <3>2 DEF Bracketed, Plain
  <2>5. b > i
    BY <1>1, <2>1 DEF Bracketed
  <2> QED
    BY <2>2, <2>3, <2>4, <2>5
<1> QED
  BY <1>1 DEF LeftAt

(* A bracket that closes is left over when no match ends with it.          *)
LEMMA LeftClosing ==
  ASSUME NEW text \in Seq(STRING), NEW n \in 1 .. Len(text), text[n] = "]",
         \A i \in 1 .. n - 1 : ~Bracketed(text, i, n)
  PROVE  LeftAt(text, n)
<1>1. ASSUME NEW a \in 1 .. Len(text), NEW b \in 1 .. Len(text), Bracketed(text, a, b),
             n \in a .. b
      PROVE  FALSE
  <2>1. n # a
    BY <1>1 DEF Bracketed
  <2>2. n = b
    BY <1>1, <2>1 DEF Bracketed, Plain
  <2>3. a \in 1 .. n - 1
    BY <1>1, <2>1
  <2> QED
    BY <1>1, <2>2, <2>3
<1> QED
  BY <1>1 DEF LeftAt

(* What the reader knows after n tokens.  While the text is in order:      *)
(* every bracket read is half of a match, but for one that is open, and    *)
(* the citations are what the matches hold.                                *)
Closed(text, n) ==
  \A j \in 1 .. n : text[j] = "]" => \E i \in 1 .. j - 1 : Bracketed(text, i, j)

Opened(text, n, open) ==
  \A i \in 1 .. n :
    text[i] = "[" => \/ \E j \in i + 1 .. n : Bracketed(text, i, j)
                     \/ open /\ Plain(text, i, n)

OpenAt(text, n, i, inside) ==
  /\ text[i] = "["
  /\ Plain(text, i, n)
  /\ inside = SubSeq(text, i + 1, n)

Collected(text, n, cited) ==
  \A x : x \in cited <=>
           \E i, j \in 1 .. n : Bracketed(text, i, j) /\ x = SubSeq(text, i + 1, j - 1)

InOrder(text, n, acc) ==
  /\ Closed(text, n)
  /\ Opened(text, n, acc.open)
  /\ acc.open => \E i \in 1 .. n : OpenAt(text, n, i, acc.inside)
  /\ Collected(text, n, acc.cited)

ReadSoFar(text, n, acc) ==
  /\ acc.ok => InOrder(text, n, acc)
  /\ ~acc.ok => \E p \in 1 .. Len(text) : LeftAt(text, p)

(* A token that is no closing bracket collects nothing.                    *)
LEMMA CollectsNothing ==
  ASSUME NEW text \in Seq(STRING), NEW n \in 1 .. Len(text), text[n] # "]",
         NEW cited, Collected(text, n - 1, cited)
  PROVE  Collected(text, n, cited)
<1>1. ASSUME NEW i \in 1 .. n, NEW j \in 1 .. n, Bracketed(text, i, j)
      PROVE  i \in 1 .. n - 1 /\ j \in 1 .. n - 1
  BY <1>1 DEF Bracketed
<1>2. \A i \in 1 .. n - 1 : i \in 1 .. n
  OBVIOUS
<1>3. ASSUME NEW x
      PROVE  (\E i, j \in 1 .. n : Bracketed(text, i, j) /\ x = SubSeq(text, i + 1, j - 1))
         <=> \E i, j \in 1 .. n - 1 : Bracketed(text, i, j) /\ x = SubSeq(text, i + 1, j - 1)
  BY <1>1, <1>2
<1> QED
  BY <1>3 DEF Collected

LEMMA ReadOpening ==
  ASSUME NEW text \in Seq(STRING), NEW n \in 1 .. Len(text), text[n] = "[",
         NEW old \in Readers, NEW new \in Readers,
         new.ok <=> (old.ok /\ ~old.open), new.open, new.inside = <<>>,
         new.cited = old.cited, ReadSoFar(text, n - 1, old)
  PROVE  ReadSoFar(text, n, new)
<1>1. CASE ~old.ok
  BY <1>1 DEF ReadSoFar
<1>2. CASE old.ok /\ old.open
  <2>1. PICK i \in 1 .. n - 1 : OpenAt(text, n - 1, i, old.inside)
    BY <1>2 DEF ReadSoFar, InOrder
  <2>2. LeftAt(text, i)
    <3>1. i \in 1 .. Len(text) /\ n \in Nat /\ i < n
      OBVIOUS
    <3>2. text[i] = "[" /\ Plain(text, i, n - 1)
      BY <2>1 DEF OpenAt
    <3> QED
      BY <3>1, <3>2, LeftOpen
  <2>3. ~new.ok /\ i \in 1 .. Len(text)
    BY <1>2
  <2> QED
    BY <2>2, <2>3 DEF ReadSoFar
<1>3. CASE old.ok /\ ~old.open
  <2>1. InOrder(text, n - 1, old)
    BY <1>3 DEF ReadSoFar
  <2>2. Closed(text, n)
    BY <2>1 DEF InOrder, Closed
  <2>3. Plain(text, n, n)
    BY DEF Plain
  <2>4. Opened(text, n, new.open)
    <3>1. SUFFICES ASSUME NEW i \in 1 .. n - 1, text[i] = "["
                   PROVE  \E j \in i + 1 .. n : Bracketed(text, i, j)
      BY <2>3 DEF Opened
    <3>2. PICK j \in i + 1 .. n - 1 : Bracketed(text, i, j)
      BY <1>3, <2>1, <3>1 DEF InOrder, Opened
    <3>3. j \in i + 1 .. n
      OBVIOUS
    <3> QED
      BY <3>2, <3>3
  <2>5. SubSeq(text, n + 1, n) = <<>>
    OBVIOUS
  <2>6. OpenAt(text, n, n, new.inside)
    BY <2>3, <2>5 DEF OpenAt
  <2>7. Collected(text, n, new.cited)
    BY <2>1, CollectsNothing DEF InOrder
  <2>8. n \in 1 .. n
    OBVIOUS
  <2>9. InOrder(text, n, new)
    BY <2>2, <2>4, <2>6, <2>7, <2>8 DEF InOrder
  <2> QED
    BY <1>3, <2>9 DEF ReadSoFar
<1> QED
  BY <1>1, <1>2, <1>3

LEMMA ReadClosing ==
  ASSUME NEW text \in Seq(STRING), NEW n \in 1 .. Len(text), text[n] = "]",
         NEW old \in Readers, NEW new \in Readers,
         new.ok <=> (old.ok /\ old.open), ~new.open,
         new.cited = old.cited \union {old.inside}, ReadSoFar(text, n - 1, old)
  PROVE  ReadSoFar(text, n, new)
<1>1. CASE ~old.ok
  BY <1>1 DEF ReadSoFar
<1>2. CASE old.ok /\ ~old.open
  <2>1. Opened(text, n - 1, old.open)
    BY <1>2 DEF ReadSoFar, InOrder
  <2>2. ASSUME NEW i \in 1 .. n - 1, Bracketed(text, i, n)
        PROVE  FALSE
    <3>1. PICK j \in i + 1 .. n - 1 : Bracketed(text, i, j)
      BY <1>2, <2>1, <2>2 DEF Opened, Bracketed
    <3> QED
      BY <2>2, <3>1 DEF Bracketed, Plain
  <2>3. LeftAt(text, n)
    BY <2>2, LeftClosing
  <2> QED
    BY <1>2, <2>3 DEF ReadSoFar
<1>3. CASE old.ok /\ old.open
  <2>1. InOrder(text, n - 1, old)
    BY <1>3 DEF ReadSoFar
  <2>2. PICK o \in 1 .. n - 1 : OpenAt(text, n - 1, o, old.inside)
    BY <1>3, <2>1 DEF InOrder
  <2>3. Bracketed(text, o, n)
    BY <2>2 DEF OpenAt, Bracketed
  <2>4. Closed(text, n)
    BY <2>1, <2>3 DEF InOrder, Closed
  <2>5. Opened(text, n, new.open)
    <3>1. SUFFICES ASSUME NEW i \in 1 .. n, text[i] = "["
                   PROVE  \E j \in i + 1 .. n : Bracketed(text, i, j)
      BY DEF Opened
    <3>2. i \in 1 .. n - 1
      BY <3>1
    <3>3. CASE \E j \in i + 1 .. n - 1 : Bracketed(text, i, j)
      <4>1. PICK j \in i + 1 .. n - 1 : Bracketed(text, i, j)
        BY <3>3
      <4>2. j \in i + 1 .. n
        OBVIOUS
      <4> QED
        BY <4>1, <4>2
    <3>4. CASE Plain(text, i, n - 1)
      <4>1. Bracketed(text, i, n) /\ n \in i + 1 .. n
        BY <3>1, <3>2, <3>4 DEF Bracketed
      <4> QED
        BY <4>1
    <3> QED
      BY <2>1, <3>1, <3>2, <3>3, <3>4 DEF InOrder, Opened
  <2>6. ASSUME NEW i \in 1 .. n, Bracketed(text, i, n)
        PROVE  i = o
    BY <2>2, <2>3, <2>6 DEF Bracketed, Plain
  <2>7. Collected(text, n, new.cited)
    <3>1. ASSUME NEW x, x \in new.cited
          PROVE  \E i, j \in 1 .. n : Bracketed(text, i, j) /\ x = SubSeq(text, i + 1, j - 1)
      <4>1. CASE x = old.inside
        <5>1. o \in 1 .. n /\ n \in 1 .. n
          OBVIOUS
        <5> QED
          BY <2>2, <2>3, <4>1, <5>1 DEF OpenAt
      <4>2. CASE x \in old.cited
        <5>1. PICK i, j \in 1 .. n - 1 :
                Bracketed(text, i, j) /\ x = SubSeq(text, i + 1, j - 1)
          BY <2>1, <4>2 DEF InOrder, Collected
        <5>2. i \in 1 .. n /\ j \in 1 .. n
          OBVIOUS
        <5> QED
          BY <5>1, <5>2
      <4> QED
        BY <3>1, <4>1, <4>2
    <3>2. ASSUME NEW x, NEW i \in 1 .. n, NEW j \in 1 .. n,
                 Bracketed(text, i, j), x = SubSeq(text, i + 1, j - 1)
          PROVE  x \in new.cited
      <4>1. CASE j = n
        <5>1. i = o
          BY <2>6, <3>2, <4>1
        <5>2. x = old.inside
          BY <2>2, <3>2, <4>1, <5>1 DEF OpenAt
        <5> QED
          BY <5>2
      <4>2. CASE j # n
        <5>1. i \in 1 .. n - 1 /\ j \in 1 .. n - 1
          BY <3>2, <4>2 DEF Bracketed
        <5>2. x \in old.cited
          BY <2>1, <3>2, <5>1 DEF InOrder, Collected
        <5> QED
          BY <5>2
      <4> QED
        BY <4>1, <4>2
    <3> QED
      BY <3>1, <3>2 DEF Collected
  <2>8. InOrder(text, n, new)
    BY <2>4, <2>5, <2>7 DEF InOrder
  <2> QED
    BY <1>3, <2>8 DEF ReadSoFar
<1> QED
  BY <1>1, <1>2, <1>3

LEMMA ReadInside ==
  ASSUME NEW text \in Seq(STRING), NEW n \in 1 .. Len(text), text[n] \notin {"[", "]"},
         NEW old \in Readers, NEW new \in Readers, old.open,
         new.ok <=> (old.ok /\ text[n] # "\n"), new.open,
         new.inside = Append(old.inside, text[n]), new.cited = old.cited,
         ReadSoFar(text, n - 1, old)
  PROVE  ReadSoFar(text, n, new)
<1>1. CASE ~old.ok
  BY <1>1 DEF ReadSoFar
<1>2. CASE old.ok
  <2>1. InOrder(text, n - 1, old)
    BY <1>2 DEF ReadSoFar
  <2>2. PICK o \in 1 .. n - 1 : OpenAt(text, n - 1, o, old.inside)
    BY <2>1 DEF InOrder
  <2>3. CASE text[n] = "\n"
    <3>1. LeftAt(text, o)
      <4>1. o \in 1 .. Len(text) /\ n \in Nat /\ o < n
        OBVIOUS
      <4>2. text[o] = "[" /\ Plain(text, o, n - 1)
        BY <2>2 DEF OpenAt
      <4> QED
        BY <2>3, <4>1, <4>2, LeftOpen
    <3>2. ~new.ok /\ o \in 1 .. Len(text)
      BY <2>3
    <3> QED
      BY <3>1, <3>2 DEF ReadSoFar
  <2>4. CASE text[n] # "\n"
    <3>1. Closed(text, n)
      BY <2>1 DEF InOrder, Closed
    <3>2. \A i \in 1 .. n - 1 : Plain(text, i, n - 1) => Plain(text, i, n)
      BY <2>4 DEF Plain
    <3>3. Opened(text, n, new.open)
      <4>1. SUFFICES ASSUME NEW i \in 1 .. n, text[i] = "["
                     PROVE  \/ \E j \in i + 1 .. n : Bracketed(text, i, j)
                            \/ Plain(text, i, n)
        BY DEF Opened
      <4>2. i \in 1 .. n - 1
        BY <4>1
      <4>3. CASE \E j \in i + 1 .. n - 1 : Bracketed(text, i, j)
        <5>1. PICK j \in i + 1 .. n - 1 : Bracketed(text, i, j)
          BY <4>3
        <5>2. j \in i + 1 .. n
          OBVIOUS
        <5> QED
          BY <5>1, <5>2
      <4>4. CASE Plain(text, i, n - 1)
        BY <3>2, <4>2, <4>4
      <4> QED
        BY <2>1, <4>1, <4>2, <4>3, <4>4 DEF InOrder, Opened
    <3>4. Append(SubSeq(text, o + 1, n - 1), text[n]) = SubSeq(text, o + 1, n)
      OBVIOUS
    <3>5. OpenAt(text, n, o, new.inside) /\ o \in 1 .. n
      BY <2>2, <3>2, <3>4 DEF OpenAt
    <3>6. Collected(text, n, new.cited)
      BY <2>1, CollectsNothing DEF InOrder
    <3>7. InOrder(text, n, new)
      BY <3>1, <3>3, <3>5, <3>6 DEF InOrder
    <3> QED
      BY <1>2, <2>4, <3>7 DEF ReadSoFar
  <2> QED
    BY <2>3, <2>4
<1> QED
  BY <1>1, <1>2

LEMMA ReadOutside ==
  ASSUME NEW text \in Seq(STRING), NEW n \in 1 .. Len(text), text[n] \notin {"[", "]"},
         NEW old \in Readers, ~old.open, ReadSoFar(text, n - 1, old)
  PROVE  ReadSoFar(text, n, old)
<1>1. CASE ~old.ok
  BY <1>1 DEF ReadSoFar
<1>2. CASE old.ok
  <2>1. InOrder(text, n - 1, old)
    BY <1>2 DEF ReadSoFar
  <2>2. Closed(text, n)
    BY <2>1 DEF InOrder, Closed
  <2>3. Opened(text, n, old.open)
    <3>1. SUFFICES ASSUME NEW i \in 1 .. n, text[i] = "["
                   PROVE  \E j \in i + 1 .. n : Bracketed(text, i, j)
      BY DEF Opened
    <3>2. i \in 1 .. n - 1
      BY <3>1
    <3>3. PICK j \in i + 1 .. n - 1 : Bracketed(text, i, j)
      BY <2>1, <3>1, <3>2 DEF InOrder, Opened
    <3>4. j \in i + 1 .. n
      OBVIOUS
    <3> QED
      BY <3>3, <3>4
  <2>4. Collected(text, n, old.cited)
    BY <2>1, CollectsNothing DEF InOrder
  <2>5. InOrder(text, n, old)
    BY <2>2, <2>3, <2>4 DEF InOrder
  <2> QED
    BY <1>2, <2>5 DEF ReadSoFar
<1> QED
  BY <1>1, <1>2

LEMMA ReadingSoFar ==
  ASSUME NEW text \in Seq(STRING)
  PROVE  \A n \in 0 .. Len(text) : ReadSoFar(text, n, Reading(text)[n])
<1> DEFINE N == Len(text)
           S == {n \in 0 .. N : ReadSoFar(text, n, Reading(text)[n])}
<1>1. N \in Nat
  OBVIOUS
<1>2. 0 \in S
  <2>1. Reading(text)[0] = NothingRead
    BY ReadingLoop
  <2>2. InOrder(text, 0, NothingRead)
    BY DEF InOrder, NothingRead, Closed, Opened, Collected
  <2>3. ReadSoFar(text, 0, NothingRead)
    BY <2>2 DEF ReadSoFar, NothingRead
  <2> QED
    BY <1>1, <2>1, <2>3
<1>3. ASSUME NEW n \in 1 .. N, n - 1 \in S
      PROVE  n \in S
  <2> DEFINE old == Reading(text)[n - 1]
             new == Reading(text)[n]
  <2>1. n - 1 \in 0 .. N /\ n \in 0 .. N /\ text[n] \in STRING
    BY <1>1
  <2>2. old \in Readers /\ new \in Readers /\ new = ReadToken(old, text[n])
    BY <2>1, ReadingLoop
  <2>3. ReadSoFar(text, n - 1, old)
    BY <1>3
  <2> SUFFICES ReadSoFar(text, n, new)
    BY <2>1
  <2> HIDE DEF old, new
  <2>4. CASE text[n] = "["
    <3>1. /\ new.ok <=> (old.ok /\ ~old.open)
          /\ new.open /\ new.inside = <<>> /\ new.cited = old.cited
      BY <2>1, <2>2, <2>4, ReadingToken
    <3> QED
      BY <2>2, <2>3, <2>4, <3>1, ReadOpening
  <2>5. CASE text[n] = "]"
    <3>1. /\ new.ok <=> (old.ok /\ old.open)
          /\ ~new.open /\ new.cited = old.cited \union {old.inside}
      BY <2>1, <2>2, <2>5, ReadingToken
    <3> QED
      BY <2>2, <2>3, <2>5, <3>1, ReadClosing
  <2>6. CASE text[n] \notin {"[", "]"} /\ old.open
    <3>1. /\ new.ok <=> (old.ok /\ text[n] # "\n")
          /\ new.open /\ new.inside = Append(old.inside, text[n]) /\ new.cited = old.cited
      BY <2>1, <2>2, <2>6, ReadingToken
    <3> QED
      BY <2>2, <2>3, <2>6, <3>1, ReadInside
  <2>7. CASE text[n] \notin {"[", "]"} /\ ~old.open
    <3>1. new = old
      BY <2>1, <2>2, <2>7, ReadingToken
    <3> QED
      BY <2>2, <2>3, <2>7, <3>1, ReadOutside
  <2> QED
    BY <2>4, <2>5, <2>6, <2>7
<1>4. \A n \in 1 .. N : n - 1 \in S => n \in S
  BY <1>3
<1> HIDE DEF S
<1>5. \A n \in 0 .. N : n \in S
  BY <1>1, <1>2, <1>4, UpTo
<1> QED
  BY <1>5 DEF S

(* Reading a text token by token and matching it with the regular          *)
(* expression agree: on which brackets are in order, and on what they hold.*)
LEMMA ReadingIsMatching ==
  ASSUME NEW text \in Seq(STRING)
  PROVE  /\ Read(text) \in Readers
         /\ (Read(text).ok /\ ~Read(text).open) <=> ~BracketLeftOver(text)
         /\ ~BracketLeftOver(text) => Read(text).cited = Inline(text)
<1> DEFINE N == Len(text)
           read == Read(text)
<1>1. N \in Nat /\ N \in 0 .. N
  OBVIOUS
<1>2. read \in Readers
  BY <1>1, ReadingLoop DEF Read
<1>3. ReadSoFar(text, N, read)
  BY <1>1, ReadingSoFar DEF Read
<1> HIDE DEF read
<1>4. ASSUME read.ok, ~read.open, BracketLeftOver(text)
      PROVE  FALSE
  <2>1. PICK p \in 1 .. N : LeftAt(text, p)
    BY <1>4, LeftOver
  <2>2. Closed(text, N) /\ Opened(text, N, read.open)
    BY <1>3, <1>4 DEF ReadSoFar, InOrder
  <2>3. CASE text[p] = "["
    <3>1. PICK j \in p + 1 .. N : Bracketed(text, p, j)
      BY <1>4, <2>2, <2>3 DEF Opened
    <3>2. j \in 1 .. N /\ p \in p .. j
      OBVIOUS
    <3> QED
      BY <2>1, <3>1, <3>2 DEF LeftAt
  <2>4. CASE text[p] = "]"
    <3>1. PICK i \in 1 .. p - 1 : Bracketed(text, i, p)
      BY <2>2, <2>4 DEF Closed
    <3>2. i \in 1 .. N /\ p \in i .. p
      OBVIOUS
    <3> QED
      BY <2>1, <3>1, <3>2 DEF LeftAt
  <2> QED
    BY <2>1, <2>3, <2>4 DEF LeftAt
<1>5. ASSUME ~read.ok
      PROVE  BracketLeftOver(text)
  BY <1>3, <1>5, LeftOver DEF ReadSoFar
<1>6. ASSUME read.ok, read.open
      PROVE  BracketLeftOver(text)
  <2>1. PICK i \in 1 .. N : OpenAt(text, N, i, read.inside)
    BY <1>3, <1>6 DEF ReadSoFar, InOrder
  <2>2. LeftAt(text, i)
    <3>1. N + 1 \in Nat /\ i < N + 1 /\ N + 1 \notin 1 .. Len(text) /\ N + 1 - 1 = N
      OBVIOUS
    <3>2. text[i] = "[" /\ Plain(text, i, N + 1 - 1)
      BY <2>1, <3>1 DEF OpenAt
    <3> QED
      BY <3>1, <3>2, LeftOpen
  <2> QED
    BY <2>2, LeftOver
<1>7. ASSUME ~BracketLeftOver(text)
      PROVE  read.cited = Inline(text)
  <2>1. Collected(text, N, read.cited)
    BY <1>3, <1>5, <1>7 DEF ReadSoFar, InOrder
  <2>2. ASSUME NEW x, x \in read.cited
        PROVE  x \in Inline(text)
    <3>1. PICK i, j \in 1 .. N : Bracketed(text, i, j) /\ x = SubSeq(text, i + 1, j - 1)
      BY <2>1, <2>2 DEF Collected
    <3>2. <<i, j>> \in Matches(text) /\ <<i, j>>[1] = i /\ <<i, j>>[2] = j
      BY <3>1, MatchEnds
    <3>3. x = Inside(text, <<i, j>>)
      BY <3>1, <3>2 DEF Inside
    <3> QED
      BY <3>2, <3>3 DEF Inline
  <2>3. ASSUME NEW match \in Matches(text)
        PROVE  Inside(text, match) \in read.cited
    <3>1. /\ match[1] \in 1 .. N /\ match[2] \in 1 .. N
          /\ Bracketed(text, match[1], match[2])
      BY MatchEnds
    <3> QED
      BY <2>1, <3>1 DEF Collected, Inside
  <2> QED
    BY <2>2, <2>3 DEF Inline
<1> QED
  BY <1>2, <1>4, <1>5, <1>6, <1>7 DEF read

(* Retrieval: what Search finds among the stored sections.                 *)
LEMMA NearestRows ==
  ASSUME NEW sections \in Seq(Sections), NEW S, S \subseteq DOMAIN sections,
         NEW limit \in 1 .. MaxSources,
         NEW s \in Nearest({[index |-> i, section |-> sections[i]] : i \in S}, limit)
  PROVE  /\ s \in Seq(Rows)
         /\ Len(s) <= MaxSources
         /\ \A i \in DOMAIN s : s[i].index \in S /\ s[i].section = sections[s[i].index]
         /\ \A i, j \in DOMAIN s : s[i].index = s[j].index => i = j
         /\ s = <<>> => S = {}
<1> DEFINE rows == {[index |-> i, section |-> sections[i]] : i \in S}
           c == Cardinality(rows)
<1>1. MaxSources \in Nat
  BY AnswersAssumption DEF MaxSources
<1>2. rows \subseteq Rows
  BY DEF Rows
<1>3. \A r \in rows : r.index \in S /\ r.section = sections[r.index]
  OBVIOUS
<1>4. \A q, r \in rows : q.index = r.index => q = r
  OBVIOUS
<1>5. IsFiniteSet(rows)
  <2>1. IsFiniteSet(S)
    <3>1. IsFiniteSet(1 .. Len(sections)) /\ S \in SUBSET (1 .. Len(sections))
      BY FS_Interval
    <3> QED
      BY <3>1, FS_Subset
  <2> DEFINE f == [i \in S |-> [index |-> i, section |-> sections[i]]]
  <2>2. f \in [S -> rows]
    OBVIOUS
  <2>3. \A r \in rows : \E i \in S : f[i] = r
    OBVIOUS
  <2>4. f \in Surjection(S, rows)
    <3> HIDE DEF f, rows
    <3> QED
      BY <2>2, <2>3 DEF Surjection
  <2> HIDE DEF f, rows
  <2> QED
    BY <2>1, <2>4, FS_Surjection
<1>6. c \in Nat /\ (c = 0 => rows = {})
  <2> HIDE DEF rows
  <2> QED
    BY <1>5, FS_CardinalityType, FS_EmptySet
<1>7. rows = {} => S = {}
  OBVIOUS
<1>8. PICK t \in [1 .. c -> rows] :
        /\ \A i, j \in 1 .. c : i # j => t[i] # t[j]
        /\ s = SubSeq(t, 1, IF limit < Len(t) THEN limit ELSE Len(t))
  BY Zenon DEF Nearest, SetToSeqs
<1> HIDE DEF rows, c
<1>9. t \in Seq(rows) /\ Len(t) = c
  BY <1>6, <1>8, SeqDef
<1> DEFINE n == IF limit < c THEN limit ELSE c
<1>10. n \in Nat /\ n <= c /\ n <= MaxSources /\ (n = 0 => c = 0)
  BY <1>1, <1>6
<1>11. s = SubSeq(t, 1, n)
  BY <1>8, <1>9
<1> HIDE DEF n
<1>12. /\ s \in Seq(rows) /\ Len(s) = n
       /\ \A i \in 1 .. n : s[i] = t[i]
  BY <1>6, <1>9, <1>10, <1>11
<1>13. DOMAIN s = 1 .. n /\ \A i \in 1 .. n : s[i] \in rows /\ i \in 1 .. c
  BY <1>6, <1>10, <1>12
<1>14. s \in Seq(Rows)
  BY <1>2, <1>12
<1>15. \A i, j \in 1 .. n : s[i].index = s[j].index => i = j
  BY <1>4, <1>8, <1>12, <1>13
<1>16. s = <<>> => S = {}
  BY <1>6, <1>7, <1>10, <1>12
<1> QED
  BY <1>3, <1>10, <1>12, <1>13, <1>14, <1>15, <1>16

LEMMA ParseType ==
  ASSUME NEW blocks \in Documents
  PROVE  blocks \in Seq(Blocks) /\ Parse(blocks) \in Seq(Sections)
<1>1. blocks \in Seq(Blocks)
  BY AnswersAssumption
<1>2. Len(blocks) \in 0 .. Len(blocks)
  BY <1>1
<1> QED
  BY <1>1, <1>2, ParsedLoop DEF Parse, Standings

(* resolveAnswer's checks and the reading of a cited text agree.           *)
LEMMA GroundedIsWellCited ==
  ASSUME NEW answer \in GeneratedAnswers
  PROVE  Grounded(answer) <=> answer.status = "answered" /\ WellCited(answer, Known)
<1> DEFINE text == answer.answer
           references == answer.references
           cited == {<<label>> : label \in Range(references)}
           known == {<<label>> : label \in Known}
           read == Read(text)
<1>1. text \in Seq(STRING) /\ references \in Seq(STRING)
  BY AnswersAssumption DEF GeneratedAnswers
<1>2. /\ (read.ok /\ ~read.open) <=> ~BracketLeftOver(text)
      /\ ~BracketLeftOver(text) => read.cited = Inline(text)
  BY <1>1, ReadingIsMatching
<1>3. \A label : label \in Range(references)
                    <=> \E i \in 1 .. Len(references) : label = references[i]
  BY <1>1 DEF Range
<1>4. \A x : x \in cited <=> \E i \in 1 .. Len(references) : x = <<references[i]>>
  <2> HIDE DEF references
  <2> QED
    BY <1>3, Zenon
<1>5. IsFiniteSet(cited)
  <2> DEFINE f == [i \in 1 .. Len(references) |-> <<references[i]>>]
  <2>1. f \in [1 .. Len(references) -> cited]
    BY <1>1 DEF Range
  <2>2. \A x \in cited : \E i \in 1 .. Len(references) : f[i] = x
    <3> HIDE DEF references, cited
    <3> QED
      BY <1>4
  <2>3. f \in Surjection(1 .. Len(references), cited)
    <3> HIDE DEF f, cited
    <3> QED
      BY <2>1, <2>2 DEF Surjection
  <2>4. IsFiniteSet(1 .. Len(references))
    BY <1>1, FS_Interval
  <2> HIDE DEF f, cited
  <2> QED
    BY <2>3, <2>4, FS_Surjection
<1>6. references # <<>> <=> cited # {}
  <2> HIDE DEF references, cited
  <2>1. references # <<>> <=> \E i \in 1 .. Len(references) : TRUE
    BY <1>1
  <2> QED
    BY <1>4, <2>1
<1>7. ASSUME Inline(text) # {}
      PROVE  ~BlankText(text)
  <2>1. PICK match \in Matches(text) : TRUE
    BY <1>7 DEF Inline
  <2>2. match[1] \in DOMAIN text /\ text[match[1]] = "["
    BY <1>1, <2>1, MatchEnds DEF Bracketed
  <2> QED
    BY <2>2 DEF BlankText, WhiteSpace, Blank
<1>8. ASSUME Inline(text) \subseteq cited, Cardinality(Inline(text)) = Cardinality(cited)
      PROVE  Inline(text) = cited
  <2> HIDE DEF cited
  <2> QED
    BY <1>5, <1>8, FS_Subset
<1>9. Grounded(answer) <=> /\ answer.status = "answered"
                           /\ read.ok /\ ~read.open
                           /\ read.cited = cited
                           /\ read.cited # {}
                           /\ read.cited \subseteq known
  BY Zenon DEF Grounded
<1>10. WellCited(answer, Known) <=> /\ ~BlankText(text)
                                   /\ references # <<>>
                                   /\ cited \subseteq known
                                   /\ Inline(text) \subseteq cited
                                   /\ ~BracketLeftOver(text)
                                   /\ Cardinality(Inline(text)) = Cardinality(cited)
  BY Zenon DEF WellCited
<1> HIDE DEF text, references, cited, known, read
<1>11. ASSUME Grounded(answer)
      PROVE  answer.status = "answered" /\ WellCited(answer, Known)
  BY <1>2, <1>6, <1>7, <1>9, <1>10, <1>11
<1>12. ASSUME answer.status = "answered", WellCited(answer, Known)
       PROVE  Grounded(answer)
  BY <1>2, <1>6, <1>8, <1>9, <1>10, <1>12
<1> QED
  BY <1>11, <1>12

-----------------------------------------------------------------------------
(* The invariant.                                                          *)
Stages ==
  {"asked", "refused", "prompted", "unusable", "failed", "generated", "rejected",
   "returned", "shown"}

AnswerOK ==
  /\ generated \in GeneratedAnswers \union {NoAnswer}
  /\ stage \in {"asked", "refused", "prompted", "unusable"} => generated = NoAnswer
  /\ stage \in {"generated", "rejected"} => generated \in GeneratedAnswers
  /\ stage = "rejected" => ~(generated.status = "answered" /\ WellCited(generated, Known))

(* The two results Search returns without an error.                        *)
IsInsufficient ==
  /\ result = [status |-> "insufficient_evidence", response |-> <<>>, sources |-> <<>>]
  /\ \/ stored = {}
     \/ generated.status = "insufficient_evidence" /\ BlankText(generated.answer)

IsAnswered ==
  /\ generated \in GeneratedAnswers
  /\ generated.status = "answered"
  /\ WellCited(generated, Known)
  /\ result = [status |-> "answered", response |-> generated.answer,
               sources |-> Resolved(generated)]

ResultOK ==
  IF stage \in {"returned", "shown"} THEN IsInsufficient \/ IsAnswered ELSE result = NoResult

ButtonsOK ==
  buttons = IF stage = "shown"
            THEN {[at |-> i, opens |-> SourceOpened(result.response[i + 1])] :
                    i \in {j \in DOMAIN result.response :
                             /\ PartAt(result.response, j)
                             /\ Entries(result.response[j + 1]) # {}}}
            ELSE {}

IInv ==
  /\ document \in Documents
  /\ stored \subseteq DOMAIN Parse(document)
  /\ stage \in Stages
  /\ FoundOK
  /\ AnswerOK
  /\ ResultOK
  /\ ButtonsOK

LEMMA InitSafe == Init => IInv
<1> SUFFICES ASSUME Init
             PROVE  IInv
  OBVIOUS
<1>1. FoundOK
  <2>1. MaxSources \in Nat
    BY AnswersAssumption DEF MaxSources
  <2> QED
    BY <2>1 DEF Init, FoundOK
<1>2. AnswerOK /\ ResultOK /\ ButtonsOK
  BY DEF Init, AnswerOK, ResultOK, ButtonsOK
<1> QED
  BY <1>1, <1>2 DEF Init, IInv, Stages

(* What depends on the sections found, and on the result, stays with them. *)
LEMMA FoundStays ==
  ASSUME UNCHANGED found
  PROVE  /\ Known' = Known
         /\ \A answer : Resolved(answer)' = Resolved(answer)
<1>1. Known' = Known
  BY Zenon DEF Known
<1>2. ASSUME NEW answer
      PROVE  Resolved(answer)' = Resolved(answer)
  BY Zenon DEF Resolved, Resolving, Source
<1> QED
  BY <1>1, <1>2

LEMMA NextSafe ==
  ASSUME IInv, [Next]_vars
  PROVE  IInv'
<1> USE DEF IInv
<1>1. ASSUME NEW question \in {"empty", "blank", "text"},
             NEW limit \in {0, 1, MaxSources, MaxSources + 1}, RefuseQuery(question, limit)
      PROVE  IInv'
  BY <1>1 DEF RefuseQuery, Stages, FoundOK, AnswerOK, ResultOK, ButtonsOK
<1>2. ASSUME NEW limit \in 1 .. MaxSources, Retrieve(limit)
      PROVE  IInv'
  <2> DEFINE rows == {[index |-> i, section |-> Parse(document)[i]] : i \in stored}
  <2>1. Parse(document) \in Seq(Sections)
    BY ParseType
  <2>2. found' \in Nearest(rows, limit)
    BY <1>2 DEF Retrieve
  <2>3. /\ found' \in Seq(Rows) /\ Len(found') <= MaxSources
        /\ \A i \in DOMAIN found' :
             found'[i].index \in stored /\ found'[i].section = Parse(document)[found'[i].index]
        /\ \A i, j \in DOMAIN found' : found'[i].index = found'[j].index => i = j
        /\ found' = <<>> => stored = {}
    BY <2>1, <2>2, NearestRows
  <2>4. UNCHANGED <<document, stored>> /\ Parse(document)' = Parse(document)
    BY <1>2 DEF Retrieve
  <2>5. FoundOK'
    BY <2>3, <2>4 DEF FoundOK
  <2>6. AnswerOK'
    BY <1>2 DEF Retrieve, AnswerOK
  <2>7. ResultOK'
    BY <1>2, <2>3, <2>4
    DEF Retrieve, ResultOK, ReturnInsufficient, Return, IsInsufficient
  <2>8. ButtonsOK'
    BY <1>2 DEF Retrieve, ButtonsOK
  <2>9. stage' \in Stages
    BY <1>2 DEF Retrieve, Stages
  <2> QED
    BY <2>4, <2>5, <2>6, <2>7, <2>8, <2>9
<1>3. CASE ProviderFails
  BY <1>3 DEF ProviderFails, Stages, FoundOK, AnswerOK, ResultOK, ButtonsOK
<1>4. ASSUME NEW answer \in GeneratedAnswers, Generate(answer)
      PROVE  IInv'
  BY <1>4 DEF Generate, Stages, FoundOK, AnswerOK, ResultOK, ButtonsOK
<1>5. CASE Resolve
  <2>1. FoundOK' /\ AnswerOK' /\ ButtonsOK' /\ stage' = "returned"
    BY <1>5 DEF Resolve, FoundOK, AnswerOK, ButtonsOK
  <2>2. Known' = Known /\ Resolved(generated)' = Resolved(generated)
    BY <1>5, FoundStays DEF Resolve
  <2>3. ASSUME generated.status = "insufficient_evidence", WellAbstained(generated),
               ReturnInsufficient
        PROVE  ResultOK'
    <3>1. IsInsufficient'
      BY <1>5, <2>3 DEF Resolve, IsInsufficient, ReturnInsufficient, Return, WellAbstained
    <3> QED
      BY <2>1, <3>1 DEF ResultOK
  <2>4. ASSUME generated.status = "answered", WellCited(generated, Known),
               Return("answered", generated.answer, Resolved(generated))
        PROVE  ResultOK'
    <3>1. generated' = generated /\ generated \in GeneratedAnswers
      BY <1>5 DEF Resolve, AnswerOK
    <3>2. WellCited(generated, Known)'
      BY <2>2, <2>4, <3>1 DEF WellCited
    <3>3. IsAnswered'
      BY <2>2, <2>4, <3>1, <3>2 DEF IsAnswered, Return
    <3> QED
      BY <2>1, <3>3 DEF ResultOK
  <2>5. UNCHANGED <<document, stored>>
    BY <1>5 DEF Resolve
  <2>6. ResultOK'
    BY <1>5, <2>3, <2>4 DEF Resolve
  <2> QED
    BY <2>1, <2>5, <2>6 DEF Stages
<1>6. CASE Reject
  <2>1. Known' = Known
    BY <1>6, FoundStays DEF Reject
  <2>2. AnswerOK'
    BY <1>6, <2>1 DEF Reject, AnswerOK, WellCited
  <2> QED
    BY <1>6, <2>2 DEF Reject, Stages, FoundOK, ResultOK, ButtonsOK
<1>7. CASE Show
  <2>1. FoundOK' /\ AnswerOK' /\ stage' = "shown" /\ UNCHANGED <<document, stored>>
    BY <1>7 DEF Show, FoundOK, AnswerOK
  <2>2. Known' = Known /\ Resolved(generated)' = Resolved(generated)
    BY <1>7, FoundStays DEF Show
  <2>3. ResultOK'
    <3>1. IsInsufficient => IsInsufficient'
      BY <1>7 DEF Show, IsInsufficient
    <3>2. IsAnswered => IsAnswered'
      BY <1>7, <2>2 DEF Show, IsAnswered, WellCited
    <3>3. IsInsufficient \/ IsAnswered
      BY <1>7 DEF Show, ResultOK
    <3> QED
      BY <2>1, <3>1, <3>2, <3>3 DEF ResultOK
  <2>4. ButtonsOK'
    BY <1>7 DEF Show, ButtonsOK, Entries, SourceOpened
  <2> QED
    BY <2>1, <2>3, <2>4 DEF Stages
<1>8. CASE UNCHANGED vars
  <2>1. UNCHANGED <<document, stored, stage, found, generated, result, buttons>>
    BY <1>8 DEF vars
  <2>2. Known' = Known /\ Resolved(generated)' = Resolved(generated)
    BY <2>1, FoundStays
  <2>3. FoundOK' /\ AnswerOK'
    BY <2>1, <2>2 DEF FoundOK, AnswerOK, WellCited
  <2>4. ResultOK'
    BY <2>1, <2>2 DEF ResultOK, IsInsufficient, IsAnswered, WellCited
  <2>5. ButtonsOK'
    BY <2>1 DEF ButtonsOK, Entries, SourceOpened
  <2> QED
    BY <2>1, <2>3, <2>4, <2>5
<1> QED
  BY <1>1, <1>2, <1>3, <1>4, <1>5, <1>6, <1>7, <1>8 DEF Next

(* The invariant holds in every state.                                     *)
THEOREM Invariance == Spec => []IInv
<1>1. IInv /\ [Next]_vars => IInv'
  BY NextSafe
<1> QED
  BY InitSafe, <1>1, PTL DEF Spec

-----------------------------------------------------------------------------
(* What the invariant implies.                                             *)
LEMMA AnsweredSources ==
  ASSUME IInv, IsAnswered
  PROVE  /\ result.sources \in Seq(Sources)
         /\ result.sources # <<>>
         /\ \A j \in DOMAIN result.sources : \E k \in 1 .. Len(found) : result.sources[j] = Source(k)
         /\ \A k \in 1 .. Len(found) :
              Labels[k] \in Range(generated.references) =>
                \E j \in DOMAIN result.sources : result.sources[j] = Source(k)
         /\ \A i, j \in DOMAIN result.sources :
              result.sources[i].index = result.sources[j].index => i = j
<1> DEFINE sources == Resolved(generated)
<1>1. result.sources = sources
  BY DEF IsAnswered
<1>2. /\ sources \in Seq(Sources)
      /\ ResolvedSoFar(generated, Len(found))
  BY ResolvedSources DEF IInv
<1>3. /\ \A j \in 1 .. Len(sources) : \E k \in 1 .. Len(found) : sources[j] = Source(k)
      /\ \A k \in 1 .. Len(found) :
           Labels[k] \in Range(generated.references) =>
             \E j \in 1 .. Len(sources) : sources[j] = Source(k)
      /\ \A i, j \in 1 .. Len(sources) : sources[i].index = sources[j].index => i = j
  BY <1>2 DEF ResolvedSoFar, Resolved
<1> HIDE DEF sources
<1>4. DOMAIN sources = 1 .. Len(sources)
  BY <1>2
<1>5. sources # <<>>
  <2>1. generated.references \in Seq(STRING) /\ generated.references # <<>>
    BY AnswersAssumption DEF IsAnswered, GeneratedAnswers, WellCited
  <2> DEFINE label == generated.references[1]
  <2>2. label \in Range(generated.references)
    BY <2>1 DEF Range
  <2>3. <<label>> \in {<<l>> : l \in Known}
    BY <2>2, Zenon DEF IsAnswered, WellCited
  <2>4. PICK l \in Known : <<label>> = <<l>>
    BY <2>3
  <2>5. label \in Known
    BY <2>4
  <2>6. PICK k \in DOMAIN found : label = Labels[k]
    BY <2>5 DEF Known
  <2>7. k \in 1 .. Len(found)
    BY DEF IInv, FoundOK
  <2>8. \E j \in 1 .. Len(sources) : sources[j] = Source(k)
    BY <1>3, <2>2, <2>6, <2>7
  <2> QED
    BY <1>2, <2>8
<1> QED
  BY <1>1, <1>2, <1>3, <1>4, <1>5

LEMMA TypesFollow == ASSUME IInv PROVE TypeOK
<1>1. generated = NoAnswer \/ generated.references \in References
  BY DEF IInv, AnswerOK, GeneratedAnswers
<1>2. /\ result.status \in {"none", "insufficient_evidence", "answered"}
      /\ (result.status = "answered") = (result.sources # <<>>)
  <2>1. CASE stage \notin {"returned", "shown"}
    BY <2>1 DEF IInv, ResultOK, NoResult
  <2>2. CASE IsInsufficient
    BY <2>2 DEF IsInsufficient
  <2>3. CASE IsAnswered
    <3>1. result.status = "answered" /\ result.sources # <<>>
      BY <2>3, AnsweredSources DEF IsAnswered
    <3> QED
      BY <3>1
  <2> QED
    BY <2>1, <2>2, <2>3 DEF IInv, ResultOK
<1>3. \A button \in buttons : button.at \in DOMAIN result.response
  BY DEF IInv, ButtonsOK
<1> QED
  BY <1>1, <1>2, <1>3 DEF IInv, TypeOK, FoundOK, Stages

LEMMA HonestyFollows == ASSUME IInv PROVE InsufficientIsHonest
<1> SUFFICES ASSUME result.status = "insufficient_evidence"
             PROVE  \/ stored = {}
                    \/ generated.status = "insufficient_evidence" /\ BlankText(generated.answer)
  BY DEF InsufficientIsHonest
<1>1. result # NoResult /\ ~IsAnswered
  BY DEF NoResult, IsAnswered
<1>2. IsInsufficient
  BY <1>1 DEF IInv, ResultOK
<1> QED
  BY <1>2 DEF IsInsufficient

LEMMA GroundingFollows == ASSUME IInv PROVE AcceptsExactlyGroundedAnswers
<1>1. ASSUME result.status = "answered"
      PROVE  Grounded(generated)
  <2>1. result # NoResult /\ ~IsInsufficient
    BY <1>1 DEF NoResult, IsInsufficient
  <2>2. IsAnswered
    BY <2>1 DEF IInv, ResultOK
  <2> QED
    BY <2>2, GroundedIsWellCited DEF IsAnswered
<1>2. ASSUME stage = "rejected"
      PROVE  ~Grounded(generated)
  BY <1>2, GroundedIsWellCited DEF IInv, AnswerOK
<1> QED
  BY <1>1, <1>2 DEF AcceptsExactlyGroundedAnswers

LEMMA QuotesFollow == ASSUME IInv PROVE SourcesQuoteTheDocument
<1>1. CASE ~IsAnswered
  <2>1. result.sources = <<>>
    BY <1>1 DEF IInv, ResultOK, IsInsufficient, NoResult
  <2> QED
    BY <2>1 DEF SourcesQuoteTheDocument
<1>2. CASE IsAnswered
  <2>1. /\ \A j \in DOMAIN result.sources :
             \E k \in 1 .. Len(found) : result.sources[j] = Source(k)
        /\ \A i, j \in DOMAIN result.sources :
             result.sources[i].index = result.sources[j].index => i = j
    BY <1>2, AnsweredSources
  <2>2. ASSUME NEW i \in DOMAIN result.sources
        PROVE  \E b \in SectionBlocks : Quotes(result.sources[i], b)
    <3> DEFINE source == result.sources[i]
               sections == Parse(document)
    <3>1. document \in Seq(Blocks) /\ sections \in Seq(Sections)
      BY ParseType DEF IInv
    <3>2. PICK k \in 1 .. Len(found) : source = Source(k)
      BY <2>1
    <3>3. /\ source.index = found[k].index
          /\ source.subheading = found[k].section.subheading
          /\ source.text = found[k].section.text
          /\ k \in DOMAIN found
      BY <3>2, SourceType DEF IInv
    <3>4. source.index \in 1 .. Len(sections) /\ found[k].section = sections[source.index]
      BY <3>1, <3>3 DEF IInv, FoundOK
    <3>5. ParsedSoFar(document, Len(document))
      BY <3>1, ParseQuotes
    <3>6. PICK b \in 1 .. Len(document) :
            QuotedFrom(document, sections[source.index], source.index, b)
      BY <3>4, <3>5 DEF ParsedSoFar, Parse
    <3>7. b \in SectionBlocks
      BY <3>1, <3>6 DEF QuotedFrom, IsSection, SectionBlocks
    <3>8. SectionsUpTo(document, b) = SectionBlocks \intersect 1 .. b
      BY <3>1 DEF SectionsUpTo, SectionBlocks, IsSection
    <3>9. HeadsUpTo(document, b) = HeadingsBefore(b)
      BY DEF HeadsUpTo, HeadingsBefore
    <3>10. HoldsLines(source.text, Items(document[b]))
      <4>1. document[b] \in Blocks /\ IsSection(document[b])
        BY <3>1, <3>6 DEF QuotedFrom
      <4>2. source.text = Extract(document[b])
        BY <3>3, <3>4, <3>6 DEF QuotedFrom
      <4> QED
        BY <4>1, <4>2, ExtractHolds
    <3> HIDE DEF source, sections
    <3>11. Quotes(source, b)
      BY <3>3, <3>4, <3>6, <3>8, <3>9, <3>10 DEF Quotes, QuotedFrom, HeadingBefore
    <3> QED
      BY <3>7, <3>11 DEF source
  <2> QED
    BY <2>1, <2>2 DEF SourcesQuoteTheDocument
<1> QED
  BY <1>1, <1>2

LEMMA CitationsFollow == ASSUME IInv PROVE CitationsOpenTheirSource
<1> SUFFICES ASSUME stage = "shown", NEW i \in DOMAIN result.response, result.response[i] = "["
             PROVE  \E button \in buttons, k \in DOMAIN found :
                      /\ button.at = i
                      /\ result.response[i + 1] = Labels[k]
                      /\ button.opens = Source(k)
  BY DEF CitationsOpenTheirSource
<1> DEFINE text == generated.answer
<1>1. IsAnswered
  BY DEF IInv, ResultOK, IsInsufficient
<1>2. result.response = text /\ text \in Seq(STRING) /\ i \in 1 .. Len(text) /\ text[i] = "["
  <2>1. result.response = text /\ text \in Seq(STRING)
    BY <1>1, AnswersAssumption DEF IsAnswered, GeneratedAnswers
  <2> QED
    BY <2>1
<1>3. PICK match \in Matches(text) : i \in match[1] .. match[2]
  BY <1>1, <1>2 DEF IsAnswered, WellCited, BracketLeftOver
<1>4. /\ match[1] \in 1 .. Len(text) /\ match[2] \in 1 .. Len(text)
      /\ Bracketed(text, match[1], match[2])
  BY <1>2, MatchEnds
<1>5. match[1] = i
  BY <1>2, <1>3, <1>4 DEF Bracketed, Plain
<1>6. PICK label \in Range(generated.references) : Inside(text, match) = <<label>>
  <2>1. Inside(text, match) \in Inline(text)
    BY DEF Inline
  <2>2. Inside(text, match) \in {<<label>> : label \in Range(generated.references)}
    BY <1>1, <2>1, Zenon DEF IsAnswered, WellCited
  <2> QED
    BY <2>2
<1>7. match[2] = i + 2 /\ text[i + 1] = label
  <2>1. SubSeq(text, i + 1, match[2] - 1) = <<label>>
    BY <1>5, <1>6 DEF Inside
  <2> DEFINE e == match[2] - 1
             inside == SubSeq(text, i + 1, e)
  <2>2. e \in Int /\ i <= e /\ e <= Len(text) /\ i \in Int
    BY <1>2, <1>4, <1>5 DEF Bracketed
  <2>3. Len(<<label>>) = 1 /\ <<label>>[1] = label
    OBVIOUS
  <2> HIDE DEF e, text
  <2>4. /\ Len(inside) = e - i
        /\ e > i => inside[1] = text[i + 1]
    BY <1>2, <2>2
  <2> HIDE DEF inside
  <2>5. Len(inside) = 1 /\ inside[1] = label
    BY <2>1, <2>3 DEF inside, e
  <2>6. e = i + 1
    <3>1. e - i = 1
      BY <2>4, <2>5
    <3> QED
      BY <2>2, <3>1
  <2>7. match[2] = i + 2
    BY <1>2, <1>4, <2>6 DEF e
  <2> QED
    BY <2>2, <2>4, <2>5, <2>6, <2>7
<1>8. label \in Known
  <2>1. <<label>> \in {<<l>> : l \in Known}
    BY <1>1, <1>6, Zenon DEF IsAnswered, WellCited
  <2>2. PICK l \in Known : <<label>> = <<l>>
    BY <2>1
  <2> QED
    BY <2>2
<1>9. PICK k \in DOMAIN found : label = Labels[k]
  BY <1>8 DEF Known
<1>10. k \in 1 .. Len(found) /\ FoundOK
  BY DEF IInv, FoundOK
<1>11. /\ Labels[k] \in LabelSet /\ "[" \notin LabelSet /\ "]" \notin LabelSet
  BY <1>10, SourceType, AnswersAssumption DEF LabelSet, Range
<1>12. text[i + 2] = "]" /\ i + 2 <= Len(text)
  BY <1>4, <1>7 DEF Bracketed
<1>13. PartAt(text, i)
  BY <1>2, <1>7, <1>9, <1>11, <1>12 DEF PartAt, CitationAt
<1>14. PICK j \in DOMAIN result.sources : result.sources[j] = Source(k)
  BY <1>1, <1>6, <1>9, <1>10, AnsweredSources
<1>15. Entries(label) = {j}
  <2>1. Source(k).reference = label
    BY <1>9, <1>10, SourceType
  <2>2. ASSUME NEW e \in DOMAIN result.sources, result.sources[e].reference = label
        PROVE  e = j
    <3>1. PICK c \in 1 .. Len(found) : result.sources[e] = Source(c)
      BY <1>1, AnsweredSources
    <3>2. c \in DOMAIN Labels /\ k \in DOMAIN Labels /\ Labels[c] = Labels[k]
      BY <1>9, <1>10, <2>2, <3>1, SourceType
    <3>3. c = k
      BY <3>2, AnswersAssumption
    <3>4. result.sources[e].index = result.sources[j].index
      BY <1>14, <3>1, <3>3
    <3> QED
      BY <1>1, <3>4, AnsweredSources
  <2> QED
    BY <1>14, <2>1, <2>2 DEF Entries
<1>16. SourceOpened(label) = Source(k)
  <2>1. j \in Int
    BY <1>1, AnsweredSources
  <2>2. Max({j}) = j
    BY <2>1, MaxIs
  <2> QED
    BY <1>14, <1>15, <2>2 DEF SourceOpened
<1>17. [at |-> i, opens |-> Source(k)] \in buttons
  <2>1. result.response[i + 1] = label /\ PartAt(result.response, i) /\ Entries(label) # {}
    BY <1>2, <1>7, <1>13, <1>15
  <2> QED
    BY <1>16, <2>1 DEF IInv, ButtonsOK
<1>18. result.response[i + 1] = Labels[k]
  BY <1>2, <1>7, <1>9
<1> QED
  BY <1>17, <1>18

-----------------------------------------------------------------------------
(* Each variable holds what its comment says, and an answered question has *)
(* at least one source.                                                    *)
THEOREM TypeInvariance == Spec => []TypeOK
<1>1. IInv => TypeOK
  BY TypesFollow
<1> QED
  BY Invariance, <1>1, PTL

(* resolveAnswer accepts an answer just when all its brackets hold a label *)
(* of the context and it lists just the labels it uses.                    *)
THEOREM ChecksAreExact == Spec => []AcceptsExactlyGroundedAnswers
<1>1. IInv => AcceptsExactlyGroundedAnswers
  BY GroundingFollows
<1> QED
  BY Invariance, <1>1, PTL

(* No failure and no broken answer is reported as missing evidence.        *)
THEOREM MissingEvidenceIsReal == Spec => []InsufficientIsHonest
<1>1. IInv => InsufficientIsHonest
  BY HonestyFollows
<1> QED
  BY Invariance, <1>1, PTL

(* Each source holds the lines of a paragraph or list of the document, all *)
(* and in order, with the last heading before it and its position, and     *)
(* none is quoted twice.                                                   *)
THEOREM QuotesAreGenuine == Spec => []SourcesQuoteTheDocument
<1>1. IInv => SourcesQuoteTheDocument
  BY QuotesFollow
<1> QED
  BY Invariance, <1>1, PTL

(* Each citation shown opens the section its label stood for in the prompt.*)
THEOREM CitationsAreRight == Spec => []CitationsOpenTheirSource
<1>1. IInv => CitationsOpenTheirSource
  BY CitationsFollow
<1> QED
  BY Invariance, <1>1, PTL
===============================================================================
