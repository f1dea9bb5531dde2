---------------------------- MODULE RouterProofs ----------------------------
(***************************************************************************)
(* Proofs about Router for any routes, routers and paths.                  *)
(*                                                                         *)
(* matchPath looks for ways to cut the path into pieces that its tokens    *)
(* match; RouteFound says what a pattern means without matching: the paths *)
(* that come of writing something into its parameters.  Both are compared  *)
(* by the ends of the pieces (PieceEnds): the recursive functions of Ways  *)
(* and of FlattenSeq are the ones that Recursion gives, and what holds of  *)
(* each of their values follows by Climb, from the least number for which  *)
(* it would not.                                                           *)
(***************************************************************************)
EXTENDS Router, FiniteSetTheorems, TLAPS

-----------------------------------------------------------------------------
(* Sequences and numbers.                                                  *)

(* What Append, Front, concatenation, SubSeq and RemoveAt return.          *)
LEMMA AppendFacts ==
    ASSUME NEW D, NEW s \in Seq(D), NEW x \in D
    PROVE  /\ Append(s, x) \in Seq(D)
           /\ Append(s, x) # <<>>
           /\ Len(Append(s, x)) = Len(s) + 1
           /\ DOMAIN Append(s, x) = 1 .. Len(s) + 1
           /\ Append(s, x)[Len(s) + 1] = x
           /\ \A i \in 1 .. Len(s) : Append(s, x)[i] = s[i]
           /\ \A i \in 1 .. Len(Append(s, x)) : i \in 1 .. Len(s) \/ i = Len(s) + 1
OBVIOUS

(* What is in a sequence that one more was appended to.                    *)
LEMMA AppendRange ==
    ASSUME NEW D, NEW s \in Seq(D), NEW x \in D
    PROVE  Range(Append(s, x)) = Range(s) \cup {x}
BY AppendFacts DEF Range

(* It has no element twice when the new one was not there.                 *)
LEMMA AppendOnce ==
    ASSUME NEW D, NEW s \in Seq(D), NEW x \in D, IsInjective(s), x \notin Range(s)
    PROVE  IsInjective(Append(s, x))
BY AppendFacts DEF IsInjective, Range

(* A sequence without its last element.                                    *)
LEMMA FrontFacts ==
    ASSUME NEW D, NEW s \in Seq(D), s # <<>>
    PROVE  /\ Len(s) \in Nat \ {0}
           /\ Front(s) \in Seq(D)
           /\ Len(Front(s)) = Len(s) - 1
           /\ DOMAIN Front(s) = 1 .. Len(s) - 1
           /\ \A i \in 1 .. Len(s) - 1 : Front(s)[i] = s[i]
           /\ Last(s) = s[Len(s)] /\ Last(s) \in D /\ Last(s) \in Range(s)
<1>1. Len(s) \in Nat \ {0} /\ DOMAIN s = 1 .. Len(s)
  OBVIOUS
<1>2. /\ Front(s) \in Seq(D)
      /\ Len(Front(s)) = Len(s) - 1
      /\ \A i \in 1 .. Len(s) - 1 : Front(s)[i] = s[i]
  BY <1>1 DEF Front
<1>3. Last(s) = s[Len(s)] /\ Last(s) \in D /\ Last(s) \in Range(s)
  BY <1>1 DEF Last, Range
<1> QED
  BY <1>1, <1>2, <1>3

(* Without its last element, that one is no longer in it.                  *)
LEMMA FrontRange ==
    ASSUME NEW D, NEW s \in Seq(D), s # <<>>, IsInjective(s)
    PROVE  /\ IsInjective(Front(s))
           /\ Range(Front(s)) = Range(s) \ {Last(s)}
<1>1. IsInjective(Front(s))
  BY FrontFacts DEF IsInjective
<1>2. ASSUME NEW y \in Range(Front(s)) PROVE y \in Range(s) \ {Last(s)}
  BY FrontFacts DEF IsInjective, Range
<1>3. ASSUME NEW y \in Range(s) \ {Last(s)} PROVE y \in Range(Front(s))
  <2>1. PICK i \in 1 .. Len(s) : y = s[i]
    BY DEF Range
  <2>2. i # Len(s)
    BY <2>1, <1>3, FrontFacts
  <2>3. i \in 1 .. Len(s) - 1
    BY <2>2, FrontFacts
  <2> QED
    BY <2>1, <2>3, FrontFacts DEF Range
<1> QED
  BY <1>1, <1>2, <1>3

(* A concatenation.                                                        *)
LEMMA ConcatFacts ==
    ASSUME NEW D, NEW s \in Seq(D), NEW t \in Seq(D)
    PROVE  /\ s \o t \in Seq(D)
           /\ Len(s \o t) = Len(s) + Len(t)
           /\ \A i \in 1 .. Len(s) : (s \o t)[i] = s[i]
           /\ \A i \in 1 .. Len(t) : (s \o t)[Len(s) + i] = t[i]
OBVIOUS

(* A part of a sequence.                                                   *)
LEMMA SubSeqFacts ==
    ASSUME NEW D, NEW s \in Seq(D), NEW m \in 1 .. Len(s) + 1, NEW n \in m - 1 .. Len(s)
    PROVE  /\ SubSeq(s, m, n) \in Seq(D)
           /\ Len(SubSeq(s, m, n)) = n - m + 1
           /\ \A i \in 1 .. n - m + 1 : SubSeq(s, m, n)[i] = s[m + i - 1]
OBVIOUS

(* A sequence without its k-th element.                                    *)
LEMMA RemoveAtFacts ==
    ASSUME NEW D, NEW s \in Seq(D), NEW k \in 1 .. Len(s)
    PROVE  /\ RemoveAt(s, k) \in Seq(D)
           /\ Len(RemoveAt(s, k)) = Len(s) - 1
           /\ \A i \in 1 .. Len(s) - 1 :
                 RemoveAt(s, k)[i] = IF i < k THEN s[i] ELSE s[i + 1]
<1> DEFINE u == SubSeq(s, 1, k - 1)
           v == SubSeq(s, k + 1, Len(s))
           t == u \o v
<1>0. Len(s) \in Nat
  OBVIOUS
<1>1. u \in Seq(D) /\ Len(u) = k - 1 /\ \A i \in 1 .. k - 1 : u[i] = s[i]
  BY <1>0, SubSeqFacts
<1>2. /\ v \in Seq(D) /\ Len(v) = Len(s) - k
      /\ \A i \in 1 .. Len(s) - k : v[i] = s[k + i]
  BY <1>0, SubSeqFacts
<1> HIDE DEF u, v
<1>3. /\ t \in Seq(D) /\ Len(t) = Len(u) + Len(v)
      /\ \A i \in 1 .. Len(u) : t[i] = u[i]
      /\ \A i \in 1 .. Len(v) : t[Len(u) + i] = v[i]
  <2>1. u \in Seq(D) /\ v \in Seq(D)
    BY <1>1, <1>2
  <2> QED
    BY <2>1, ConcatFacts
<1>5. RemoveAt(s, k) = t
  BY DEF RemoveAt, t, u, v
<1> HIDE DEF t
<1>4. ASSUME NEW i \in 1 .. Len(s) - 1
      PROVE  t[i] = IF i < k THEN s[i] ELSE s[i + 1]
  <2>1. CASE i < k
    BY <2>1, <1>1, <1>3
  <2>2. CASE ~(i < k)
    <3>1. i - Len(u) \in 1 .. Len(v) /\ Len(u) + (i - Len(u)) = i
          /\ k + (i - Len(u)) = i + 1
      BY <2>2, <1>0, <1>1, <1>2
    <3>2. t[i] = v[i - Len(u)] /\ v[i - Len(u)] = s[i + 1]
      BY <3>1, <1>2, <1>3
    <3> QED
      BY <2>2, <3>2
  <2> QED
    BY <2>1, <2>2
<1> QED
  BY <1>0, <1>1, <1>2, <1>3, <1>4, <1>5

(* Sequences of the same length and elements.                              *)
LEMMA SameSequence ==
    ASSUME NEW D, NEW s \in Seq(D), NEW t \in Seq(D), Len(s) = Len(t),
           \A i \in 1 .. Len(s) : s[i] = t[i]
    PROVE  s = t
OBVIOUS

(* The parts of a concatenation of three.                                  *)
LEMMA ThreeParts ==
    ASSUME NEW D, NEW a \in Seq(D), NEW k \in Seq(D), NEW b \in Seq(D)
    PROVE  /\ a \o k \o b \in Seq(D)
           /\ Len(a \o k \o b) = Len(a) + Len(k) + Len(b)
           /\ \A i \in 1 .. Len(a) : (a \o k \o b)[i] = a[i]
           /\ \A i \in 1 .. Len(k) : (a \o k \o b)[Len(a) + i] = k[i]
           /\ \A i \in 1 .. Len(b) : (a \o k \o b)[Len(a) + Len(k) + i] = b[i]
<1> DEFINE u == a \o k
<1>1. /\ u \in Seq(D) /\ Len(u) = Len(a) + Len(k)
      /\ \A i \in 1 .. Len(a) : u[i] = a[i]
      /\ \A i \in 1 .. Len(k) : u[Len(a) + i] = k[i]
  BY ConcatFacts
<1> HIDE DEF u
<1> DEFINE s == u \o b
<1>2. /\ s \in Seq(D) /\ Len(s) = Len(u) + Len(b)
      /\ \A i \in 1 .. Len(u) : s[i] = u[i]
      /\ \A i \in 1 .. Len(b) : s[Len(u) + i] = b[i]
  <2>1. u \in Seq(D)
    BY <1>1
  <2> QED
    BY <2>1, ConcatFacts
<1>3. s = a \o k \o b
  BY DEF u
<1> HIDE DEF s
<1>4. \A i \in 1 .. Len(a) : i \in 1 .. Len(u) /\ s[i] = a[i]
  BY <1>1, <1>2
<1>5. \A i \in 1 .. Len(k) : Len(a) + i \in 1 .. Len(u) /\ s[Len(a) + i] = k[i]
  BY <1>1, <1>2
<1>6. s \in Seq(D) /\ Len(s) = Len(a) + Len(k) + Len(b)
      /\ \A i \in 1 .. Len(b) : s[Len(a) + Len(k) + i] = b[i]
  BY <1>1, <1>2
<1> QED
  BY <1>3, <1>4, <1>5, <1>6

(* A set of numbers that is not empty has a least one.                     *)
LEMMA Least ==
    ASSUME NEW T, T \subseteq Nat, T # {}
    PROVE  \E x \in T : \A y \in T : x <= y
<1> DEFINE R == StrictSubsetOrdering(Nat)
           F == FiniteSubsetsOf(Nat)
           U == {0 .. x : x \in T}
<1>1. IsWellFoundedOn(R, F)
  BY FS_StrictSubsetOrderingWellFounded
<1>2. U \subseteq F
  <2> SUFFICES ASSUME NEW x \in T PROVE 0 .. x \in F
    OBVIOUS
  <2>1. x \in Nat /\ 0 .. x \subseteq Nat
    OBVIOUS
  <2>2. IsFiniteSet(0 .. x)
    BY <2>1, FS_Interval
  <2> QED
    BY <2>1, <2>2 DEF FiniteSubsetsOf
<1>3. U # {}
  OBVIOUS
<1>4. PICK u \in U : \A v \in U : ~(<<v, u>> \in R)
  <2> HIDE DEF R, F, U
  <2> QED
    BY <1>1, <1>2, <1>3, WFMin
<1>5. PICK x \in T : u = 0 .. x
  OBVIOUS
<1>6. ASSUME NEW y \in T, y < x PROVE FALSE
  <2>1. 0 .. y \in U /\ 0 .. y \subseteq u /\ x \in u /\ x \notin 0 .. y
    BY <1>5, <1>6
  <2>2. <<0 .. y, u>> \in R
    BY <2>1, <1>5 DEF StrictSubsetOrdering
  <2> QED
    BY <1>4, <2>1, <2>2
<1> QED
  BY <1>6

-----------------------------------------------------------------------------
(* Recursion.                                                              *)

(* Induction up to N, for a set of numbers.                                *)
LEMMA Climb ==
    ASSUME NEW N \in Nat, NEW P, 0 \in P, \A n \in 1 .. N : n - 1 \in P => n \in P
    PROVE  0 .. N \subseteq P
<1> DEFINE T == {n \in 0 .. N : n \notin P}
<1> SUFFICES ASSUME T # {} PROVE FALSE
  OBVIOUS
<1>1. PICK n \in T : \A m \in T : n <= m
  <2>1. T \subseteq Nat
    OBVIOUS
  <2> HIDE DEF T
  <2> QED
    BY <2>1, Least
<1>2. n \in 1 .. N
  OBVIOUS
<1>3. n - 1 \in P
  BY <1>1, <1>2
<1> QED
  BY <1>2, <1>3

(* A set of numbers up to N that is not empty has a greatest one.          *)
LEMMA Greatest ==
    ASSUME NEW N \in Nat, NEW T, T \subseteq 0 .. N, T # {}
    PROVE  \E x \in T : \A y \in T : y <= x
<1> DEFINE U == {N - x : x \in T}
<1>1. U \subseteq Nat /\ U # {}
  <2>1. \A x \in T : N - x \in Nat
    OBVIOUS
  <2> QED
    BY <2>1
<1>2. PICK u \in U : \A v \in U : u <= v
  <2> HIDE DEF U
  <2> QED
    BY <1>1, Least
<1>3. PICK x \in T : u = N - x
  OBVIOUS
<1>4. ASSUME NEW y \in T PROVE y <= x
  <2>1. N - x <= N - y
    BY <1>2, <1>3
  <2>2. x \in 0 .. N /\ y \in 0 .. N
    OBVIOUS
  <2> HIDE DEF U
  <2> QED
    BY <2>1, <2>2
<1> QED
  BY <1>4

(* A function on 0 .. N is defined by its first value and its steps.       *)
LEMMA Recursion ==
    ASSUME NEW T, NEW b \in T, NEW N \in Nat, NEW G \in [1 .. N -> [T -> T]]
    PROVE  \E f \in [0 .. N -> T] :
              f[0] = b /\ \A n \in 1 .. N : f[n] = G[n][f[n - 1]]
<1> DEFINE Upto(k, f) == f[0] = b /\ \A n \in 1 .. k : f[n] = G[n][f[n - 1]]
           P == {k \in 0 .. N : \E f \in [0 .. k -> T] : Upto(k, f)}
<1>1. 0 \in P
  <2> DEFINE f == [i \in 0 .. 0 |-> b]
  <2>1. f \in [0 .. 0 -> T] /\ Upto(0, f)
    OBVIOUS
  <2> HIDE DEF f, Upto
  <2> QED
    BY <2>1
<1>2. ASSUME NEW k \in 1 .. N, k - 1 \in P PROVE k \in P
  <2>1. PICK f \in [0 .. k - 1 -> T] : Upto(k - 1, f)
    BY <1>2
  <2> DEFINE g == [i \in 0 .. k |-> IF i = k THEN G[k][f[k - 1]] ELSE f[i]]
  <2>2. f[k - 1] \in T
    OBVIOUS
  <2>3. g \in [0 .. k -> T]
    BY <2>2
  <2>4. \A i \in 0 .. k - 1 : g[i] = f[i]
    OBVIOUS
  <2>5. g[k] = G[k][f[k - 1]]
    OBVIOUS
  <2> HIDE DEF g
  <2>6. ASSUME NEW n \in 1 .. k PROVE g[n] = G[n][g[n - 1]]
    <3>1. CASE n = k
      <4>1. k - 1 \in 0 .. k - 1
        OBVIOUS
      <4>2. g[k - 1] = f[k - 1]
        BY <4>1, <2>4
      <4> QED
        BY <3>1, <4>2, <2>5
    <3>2. CASE n # k
      BY <3>2, <2>1, <2>4
    <3> QED
      BY <3>1, <3>2
  <2>7. Upto(k, g)
    BY <2>1, <2>4, <2>6
  <2> HIDE DEF Upto
  <2> QED
    BY <2>3, <2>7
<1>3. 0 .. N \subseteq P
  <2> HIDE DEF P
  <2> QED
    BY <1>1, <1>2, Climb
<1> QED
  BY <1>3

-----------------------------------------------------------------------------
(* What Only keeps.                                                        *)

(* x with e at its end, when e is in S.                                    *)
AppendIf(x, e, S) == IF e \in S THEN Append(x, e) ELSE x

(* f[n] is what Only keeps of the first n elements of s.                   *)
Filters(f, D, s, S) ==
    /\ f \in [0 .. Len(s) -> Seq(D \cap S)]
    /\ f[0] = <<>>
    /\ \A n \in 1 .. Len(s) : f[n] = AppendIf(f[n - 1], s[n], S)
    /\ Only(s, S) = f[Len(s)]

(* There are such steps: the recursive function of Only is the one that    *)
(* Recursion gives.                                                        *)
LEMMA OnlySteps ==
    ASSUME NEW D, NEW s \in Seq(D), NEW S
    PROVE  \E f : Filters(f, D, s, S)
<1> DEFINE T == Seq(D \cap S)
           N == Len(s)
           b == <<>>
           Step(n, x) == AppendIf(x, s[n], S)
           G == [n \in 1 .. N |-> [x \in T |-> Step(n, x)]]
           Steps(f) == [n \in 0 .. N |-> IF n = 0 THEN b ELSE Step(n, f[n - 1])]
           only == CHOOSE f : f = Steps(f)
<1>1. N \in Nat /\ b \in T
  OBVIOUS
<1>2. \A n \in 1 .. N, x \in T : Step(n, x) \in T
  BY DEF AppendIf
<1>3. Only(s, S) = only[N]
  BY DEF Only, AppendIf
<1> HIDE DEF T, N, b, Step
<1>4. G \in [1 .. N -> [T -> T]]
  BY <1>2
<1>5. PICK f \in [0 .. N -> T] :
         f[0] = b /\ \A n \in 1 .. N : f[n] = G[n][f[n - 1]]
  <2> HIDE DEF G
  <2> QED
    BY <1>1, <1>4, Recursion
<1>6. ASSUME NEW n \in 1 .. N PROVE f[n] = Step(n, f[n - 1])
  <2>1. f[n - 1] \in T
    BY <1>1
  <2> QED
    BY <2>1, <1>5
<1>7. f = Steps(f)
  BY <1>1, <1>5, <1>6
<1>8. only = Steps(only)
  <2> HIDE DEF Steps
  <2> QED
    BY <1>7
<1> HIDE DEF only
<1>9. only[0] = b /\ \A n \in 1 .. N : only[n] = Step(n, only[n - 1])
  BY <1>1, <1>8
<1>10. 0 .. N \subseteq {n \in 0 .. N : only[n] \in T}
  <2> DEFINE P == {n \in 0 .. N : only[n] \in T}
  <2>1. 0 \in P /\ \A n \in 1 .. N : n - 1 \in P => n \in P
    BY <1>1, <1>2, <1>9
  <2> HIDE DEF P
  <2> QED
    BY <1>1, <2>1, Climb DEF P
<1>11. only \in [0 .. N -> T]
  BY <1>8, <1>10
<1> QED
  BY <1>3, <1>9, <1>11 DEF Filters, T, N, b, Step

(* Concatenation, unexpanded.                                              *)
Joined(a, b) == a \o b

(* Appending at the end of a concatenation is appending to its second      *)
(* part.                                                                   *)
LEMMA AppendIfJoined ==
    ASSUME NEW D, NEW S, NEW a \in Seq(D \cap S), NEW x \in Seq(D \cap S), NEW e \in D
    PROVE  AppendIf(Joined(a, x), e, S) = Joined(a, AppendIf(x, e, S))
<1>1. CASE e \in S
  <2>1. Append(a \o x, e) = a \o Append(x, e)
    BY <1>1
  <2> QED
    BY <1>1, <2>1 DEF AppendIf, Joined
<1>2. CASE e \notin S
  BY <1>2 DEF AppendIf
<1> QED
  BY <1>1, <1>2

(* The empty sequence joins to nothing.                                    *)
LEMMA JoinedEmpty ==
    ASSUME NEW D, NEW s \in Seq(D)
    PROVE  Joined(s, <<>>) = s /\ Joined(<<>>, s) = s
BY DEF Joined

(* Only keeps nothing but elements of s that are in S.                     *)
LEMMA OnlyType ==
    ASSUME NEW D, NEW s \in Seq(D), NEW S
    PROVE  Only(s, S) \in Seq(D \cap S) /\ Only(s, S) \in Seq(D)
<1>1. PICK f : Filters(f, D, s, S)
  BY OnlySteps
<1>2. Only(s, S) \in Seq(D \cap S)
  <2>1. Len(s) \in 0 .. Len(s)
    OBVIOUS
  <2> QED
    BY <1>1, <2>1 DEF Filters
<1> QED
  BY <1>2

(* Nothing is kept of the empty sequence.                                  *)
LEMMA OnlyEmpty ==
    ASSUME NEW S
    PROVE  Only(<<>>, S) = <<>>
<1>1. <<>> \in Seq({}) /\ Len(<<>>) = 0
  OBVIOUS
<1>2. PICK f : Filters(f, {}, <<>>, S)
  BY <1>1, OnlySteps
<1> QED
  BY <1>1, <1>2 DEF Filters

(* The last element is kept when it is in S.                               *)
LEMMA OnlyAppend ==
    ASSUME NEW D, NEW s \in Seq(D), NEW x \in D, NEW S
    PROVE  Only(Append(s, x), S) = AppendIf(Only(s, S), x, S)
<1> DEFINE t == Append(s, x)
           N == Len(s)
<1>1. /\ t \in Seq(D) /\ Len(t) = N + 1 /\ N \in Nat
      /\ t[N + 1] = x /\ \A n \in 1 .. N : t[n] = s[n]
  BY AppendFacts
<1> HIDE DEF t
<1>2. PICK f : Filters(f, D, s, S)
  BY OnlySteps
<1>3. PICK g : Filters(g, D, t, S)
  BY <1>1, OnlySteps
<1>4. /\ f[0] = <<>> /\ Only(s, S) = f[N]
      /\ \A n \in 1 .. N : f[n] = AppendIf(f[n - 1], s[n], S)
  BY <1>2 DEF Filters
<1>5. /\ g[0] = <<>> /\ Only(t, S) = g[N + 1]
      /\ \A n \in 1 .. N + 1 : g[n] = AppendIf(g[n - 1], t[n], S)
  BY <1>1, <1>3 DEF Filters
<1> DEFINE P == {n \in 0 .. N : g[n] = f[n]}
<1>6. 0 .. N \subseteq P
  <2> HIDE DEF N
  <2>1. 0 \in P
    BY <1>1, <1>4, <1>5
  <2>2. ASSUME NEW n \in 1 .. N, n - 1 \in P PROVE n \in P
    <3>1. n \in 1 .. N + 1 /\ t[n] = s[n] /\ g[n - 1] = f[n - 1]
      BY <1>1, <2>2
    <3>2. g[n] = AppendIf(g[n - 1], t[n], S) /\ f[n] = AppendIf(f[n - 1], s[n], S)
      BY <3>1, <1>4, <1>5
    <3> QED
      BY <3>1, <3>2
  <2> HIDE DEF P
  <2> QED
    BY <1>1, <2>1, <2>2, Climb
<1>7. g[N] = f[N]
  BY <1>1, <1>6
<1> HIDE DEF N, P
<1>8. N + 1 \in 1 .. N + 1 /\ (N + 1) - 1 = N
  BY <1>1
<1>9. g[N + 1] = AppendIf(g[(N + 1) - 1], t[N + 1], S)
  BY <1>5, <1>8
<1> QED
  BY <1>1, <1>4, <1>5, <1>7, <1>8, <1>9 DEF t

(* Keeping twice is keeping what is in both sets.                          *)
LEMMA OnlyOnly ==
    ASSUME NEW D, NEW s \in Seq(D), NEW A, NEW B
    PROVE  Only(Only(s, A), B) = Only(s, A \cap B)
<1> DEFINE N == Len(s)
<1>1. PICK f : Filters(f, D, s, A)
  BY OnlySteps
<1>2. PICK g : Filters(g, D, s, A \cap B)
  BY OnlySteps
<1>3. /\ N \in Nat /\ f[0] = <<>> /\ Only(s, A) = f[N]
      /\ \A n \in 1 .. N : f[n] = AppendIf(f[n - 1], s[n], A)
      /\ \A n \in 0 .. N : f[n] \in Seq(D \cap A)
  <2>1. N \in Nat
    OBVIOUS
  <2> QED
    BY <1>1, <2>1 DEF Filters
<1>4. /\ g[0] = <<>> /\ Only(s, A \cap B) = g[N]
      /\ \A n \in 1 .. N : g[n] = AppendIf(g[n - 1], s[n], A \cap B)
  BY <1>2 DEF Filters
<1>5. \A n \in 1 .. N : s[n] \in D
  OBVIOUS
<1> HIDE DEF N
<1> DEFINE P == {n \in 0 .. N : Only(f[n], B) = g[n]}
<1>6. 0 .. N \subseteq P
  <2>1. 0 \in P
    BY <1>3, <1>4, OnlyEmpty
  <2>2. ASSUME NEW n \in 1 .. N, n - 1 \in P PROVE n \in P
    <3>1. PICK h : h = f[n - 1]
      OBVIOUS
    <3>2. PICK e : e = s[n]
      OBVIOUS
    <3>3. Only(h, B) = g[n - 1]
      BY <2>2, <3>1
    <3>4. f[n] = AppendIf(h, e, A) /\ g[n] = AppendIf(g[n - 1], e, A \cap B)
      BY <1>3, <1>4, <3>1, <3>2
    <3>5. h \in Seq(D \cap A) /\ e \in D
      <4>1. n - 1 \in 0 .. N
        BY <1>3
      <4> QED
        BY <1>3, <1>5, <3>1, <3>2, <4>1
    <3>6. CASE e \in A
      <4>1. e \in D \cap A /\ f[n] = Append(h, e)
        BY <3>4, <3>5, <3>6 DEF AppendIf
      <4>2. Only(Append(h, e), B) = AppendIf(Only(h, B), e, B)
        BY <3>5, <4>1, OnlyAppend
      <4>3. AppendIf(Only(h, B), e, B) = AppendIf(g[n - 1], e, A \cap B)
        BY <3>3, <3>6 DEF AppendIf
      <4>4. Only(f[n], B) = g[n]
        BY <3>4, <4>1, <4>2, <4>3
      <4> QED
        BY <4>4
    <3>7. CASE e \notin A
      BY <3>1, <3>3, <3>4, <3>7 DEF AppendIf
    <3> QED
      BY <3>6, <3>7
  <2> HIDE DEF P
  <2> QED
    BY <1>3, <2>1, <2>2, Climb
<1>7. Only(f[N], B) = g[N]
  BY <1>3, <1>6
<1> QED
  BY <1>3, <1>4, <1>7

(* A sequence without its first element.                                   *)
LEMMA TailFacts ==
    ASSUME NEW D, NEW s \in Seq(D), s # <<>>
    PROVE  /\ Tail(s) \in Seq(D) /\ Len(Tail(s)) \in Nat /\ Len(s) = Len(Tail(s)) + 1
           /\ Head(s) = s[1] /\ s[1] \in D
           /\ \A n \in 1 .. Len(Tail(s)) : Tail(s)[n] = s[n + 1]
OBVIOUS

(* The first element is kept when it is in S, in front of the rest.        *)
LEMMA OnlyTail ==
    ASSUME NEW D, NEW s \in Seq(D), s # <<>>, NEW S
    PROVE  Only(s, S) = Joined(AppendIf(<<>>, Head(s), S), Only(Tail(s), S))
<1> DEFINE t == Tail(s)
           N == Len(t)
           first == AppendIf(<<>>, s[1], S)
<1>1. /\ t \in Seq(D) /\ N \in Nat /\ Len(s) = N + 1 /\ Head(s) = s[1] /\ s[1] \in D
      /\ \A n \in 1 .. N : t[n] = s[n + 1]
  BY TailFacts
<1> HIDE DEF t
<1>2. PICK f : Filters(f, D, t, S)
  BY <1>1, OnlySteps
<1>3. PICK g : Filters(g, D, s, S)
  BY OnlySteps
<1>4. /\ f[0] = <<>> /\ Only(t, S) = f[N]
      /\ \A n \in 1 .. N : f[n] = AppendIf(f[n - 1], t[n], S)
      /\ \A n \in 0 .. N : f[n] \in Seq(D \cap S)
  BY <1>2 DEF Filters
<1>5. /\ g[0] = <<>> /\ Only(s, S) = g[N + 1]
      /\ \A n \in 1 .. N + 1 : g[n] = AppendIf(g[n - 1], s[n], S)
  BY <1>1, <1>3 DEF Filters
<1>6. first \in Seq(D \cap S)
  <2>1. CASE s[1] \in S
    BY <1>1, <2>1 DEF AppendIf
  <2>2. CASE s[1] \notin S
    BY <1>1, <2>2 DEF AppendIf
  <2> QED
    BY <2>1, <2>2
<1>7. Joined(first, <<>>) = first
  BY <1>6, JoinedEmpty
<1>8. \A x \in Seq(D \cap S), e \in D :
         AppendIf(Joined(first, x), e, S) = Joined(first, AppendIf(x, e, S))
  <2> HIDE DEF first
  <2> QED
    BY <1>6, AppendIfJoined
<1>9. g[1] = first
  <2>1. 1 \in 1 .. N + 1 /\ 1 - 1 = 0
    BY <1>1
  <2>2. g[1] = AppendIf(g[1 - 1], s[1], S)
    BY <2>1, <1>5
  <2> QED
    BY <2>1, <2>2, <1>5
<1> HIDE DEF first, N
<1> DEFINE P == {n \in 0 .. N : g[n + 1] = Joined(first, f[n])}
<1>10. 0 .. N \subseteq P
  <2>1. 0 \in P
    <3>1. 0 \in 0 .. N /\ 0 + 1 = 1
      BY <1>1
    <3>2. g[1] = Joined(first, f[0])
      BY <1>4, <1>7, <1>9
    <3> QED
      BY <3>1, <3>2
  <2>2. ASSUME NEW n \in 1 .. N, n - 1 \in P PROVE n \in P
    <3>1. n \in Nat /\ (n - 1) + 1 = n /\ (n + 1) - 1 = n /\ n + 1 \in 1 .. N + 1
          /\ n - 1 \in 0 .. N /\ n \in 0 .. N
      BY <1>1
    <3>2. f[n] = AppendIf(f[n - 1], t[n], S) /\ f[n - 1] \in Seq(D \cap S) /\ t[n] \in D
      BY <1>1, <1>4, <3>1
    <3>3. g[n + 1] = AppendIf(g[(n + 1) - 1], s[n + 1], S)
      BY <3>1, <1>5
    <3>4. g[n] = Joined(first, f[n - 1]) /\ t[n] = s[n + 1]
      BY <3>1, <1>1, <2>2
    <3>5. AppendIf(Joined(first, f[n - 1]), t[n], S) = Joined(first, AppendIf(f[n - 1], t[n], S))
      BY <3>2, <1>8
    <3>6. g[n + 1] = Joined(first, f[n])
      BY <3>1, <3>2, <3>3, <3>4, <3>5
    <3> QED
      BY <3>1, <3>6
  <2> HIDE DEF P
  <2> QED
    BY <1>1, <2>1, <2>2, Climb
<1>11. g[N + 1] = Joined(first, f[N])
  BY <1>1, <1>10
<1> QED
  BY <1>1, <1>4, <1>5, <1>11 DEF first, t

-----------------------------------------------------------------------------
(* Parts of sequences.                                                     *)

(* A stripped sequence has elements of the sequence only.                  *)
LEMMA StrippedType ==
    ASSUME NEW D, NEW s \in Seq(D)
    PROVE  Stripped(s) \in Seq(D)
<1> DEFINE I == {i \in 1 .. Len(s) : s[i] # "/"}
           k == IF I # {} THEN Max(I) ELSE 0
<1>1. Stripped(s) = SubSeq(s, 1, k)
  BY DEF Stripped, SelectLastInSeq
<1>2. k \in 0 .. Len(s)
  <2>1. CASE I = {}
    BY <2>1
  <2>2. CASE I # {}
    <3>1. I \subseteq 0 .. Len(s) /\ Len(s) \in Nat
      OBVIOUS
    <3> HIDE DEF I
    <3>2. PICK x \in I : \A y \in I : y <= x
      BY <2>2, <3>1, Greatest
    <3>3. x \in I /\ \A y \in I : x >= y
      BY <3>1, <3>2
    <3>4. Max(I) \in I
      BY <3>3 DEF Max
    <3> QED
      BY <2>2, <3>1, <3>4
  <2> QED
    BY <2>1, <2>2
<1> HIDE DEF k
<1> QED
  BY <1>1, <1>2

(* Beginnings of a sequence and the pieces they are made of.               *)
LEMMA SplitSub ==
    ASSUME NEW D, NEW s \in Seq(D), NEW m \in 0 .. Len(s), NEW n \in m .. Len(s)
    PROVE  Joined(SubSeq(s, 1, m), SubSeq(s, m + 1, n)) = SubSeq(s, 1, n)
<1> DEFINE a == SubSeq(s, 1, m)
           b == SubSeq(s, m + 1, n)
           c == SubSeq(s, 1, n)
           u == a \o b
<1>0. Len(s) \in Nat /\ m \in Nat /\ n \in Nat
  OBVIOUS
<1>1. a \in Seq(D) /\ Len(a) = m /\ \A i \in 1 .. m : a[i] = s[i]
  BY <1>0
<1>2. b \in Seq(D) /\ Len(b) = n - m /\ \A i \in 1 .. n - m : b[i] = s[m + i]
  BY <1>0
<1>3. c \in Seq(D) /\ Len(c) = n /\ \A i \in 1 .. n : c[i] = s[i]
  BY <1>0
<1>4. Joined(a, b) = u
  BY DEF Joined
<1> HIDE DEF a, b, c
<1>5. /\ u \in Seq(D) /\ Len(u) = Len(a) + Len(b)
      /\ \A i \in 1 .. Len(a) : u[i] = a[i]
      /\ \A i \in 1 .. Len(b) : u[Len(a) + i] = b[i]
  <2>1. a \in Seq(D) /\ b \in Seq(D)
    BY <1>1, <1>2
  <2> QED
    BY <2>1, ConcatFacts
<1> HIDE DEF u
<1>6. ASSUME NEW i \in 1 .. n PROVE u[i] = c[i]
  <2>1. CASE i <= m
    BY <2>1, <1>0, <1>1, <1>3, <1>5
  <2>2. CASE i > m
    <3>1. i - m \in 1 .. Len(b) /\ m + (i - m) = i
      BY <2>2, <1>0, <1>2
    <3>2. u[m + (i - m)] = b[i - m] /\ b[i - m] = s[m + (i - m)]
      BY <3>1, <1>1, <1>2, <1>5
    <3> QED
      BY <3>1, <3>2, <1>3
  <2> QED
    BY <2>1, <2>2, <1>0
<1>7. Len(u) = Len(c)
  BY <1>0, <1>1, <1>2, <1>3, <1>5
<1>8. u = c
  BY <1>3, <1>5, <1>6, <1>7, SameSequence
<1> QED
  BY <1>4, <1>8 DEF a, b, c

(* Two sequences that make up a beginning of s are parts of s.             *)
LEMMA JoinedSub ==
    ASSUME NEW D, NEW s \in Seq(D), NEW m \in 0 .. Len(s), NEW a \in Seq(D), NEW b \in Seq(D),
           Joined(a, b) = SubSeq(s, 1, m)
    PROVE  /\ Len(a) \in 0 .. m /\ Len(a) + Len(b) = m
           /\ a = SubSeq(s, 1, Len(a))
           /\ b = SubSeq(s, Len(a) + 1, m)
<1> DEFINE u == a \o b
           v == SubSeq(s, 1, m)
           c == SubSeq(s, 1, Len(a))
           d == SubSeq(s, Len(a) + 1, m)
<1>0. Len(s) \in Nat /\ m \in Nat /\ Len(a) \in Nat /\ Len(b) \in Nat
  OBVIOUS
<1>1. /\ u \in Seq(D) /\ Len(u) = Len(a) + Len(b)
      /\ \A i \in 1 .. Len(a) : u[i] = a[i]
      /\ \A i \in 1 .. Len(b) : u[Len(a) + i] = b[i]
  BY ConcatFacts
<1>2. v \in Seq(D) /\ Len(v) = m /\ \A i \in 1 .. m : v[i] = s[i]
  BY <1>0
<1>3. u = v
  BY DEF Joined
<1> HIDE DEF u, v
<1>4. Len(a) \in 0 .. m /\ Len(a) + Len(b) = m
  BY <1>0, <1>1, <1>2, <1>3
<1>5. c \in Seq(D) /\ Len(c) = Len(a) /\ \A i \in 1 .. Len(a) : c[i] = s[i]
  BY <1>0, <1>4
<1>6. d \in Seq(D) /\ Len(d) = Len(b) /\ \A i \in 1 .. Len(b) : d[i] = s[Len(a) + i]
  BY <1>0, <1>4
<1> HIDE DEF c, d
<1>7. a = c
  <2>1. \A i \in 1 .. Len(a) : a[i] = c[i]
    BY <1>0, <1>1, <1>2, <1>3, <1>4, <1>5
  <2> QED
    BY <2>1, <1>5, SameSequence
<1>8. b = d
  <2>1. ASSUME NEW i \in 1 .. Len(b) PROVE b[i] = d[i]
    <3>1. Len(a) + i \in 1 .. m
      BY <1>0, <1>4
    <3> QED
      BY <3>1, <1>1, <1>2, <1>3, <1>6
  <2> QED
    BY <2>1, <1>6, SameSequence
<1> QED
  BY <1>4, <1>7, <1>8 DEF c, d

(* A part of a beginning of s is that part of s.                           *)
LEMMA SubOfSub ==
    ASSUME NEW D, NEW s \in Seq(D), NEW n \in 0 .. Len(s), NEW m \in 1 .. n, NEW k \in m .. n
    PROVE  SubSeq(SubSeq(s, 1, n), m, k) = SubSeq(s, m, k)
<1> DEFINE x == SubSeq(s, 1, n)
           a == SubSeq(x, m, k)
           b == SubSeq(s, m, k)
<1>0. Len(s) \in Nat /\ n \in Nat /\ m \in Nat /\ k \in Nat
  OBVIOUS
<1>1. x \in Seq(D) /\ Len(x) = n /\ \A i \in 1 .. n : x[i] = s[i]
  BY <1>0
<1>2. b \in Seq(D) /\ Len(b) = k - m + 1 /\ \A i \in 1 .. k - m + 1 : b[i] = s[m + i - 1]
  BY <1>0
<1> HIDE DEF x
<1>3. a \in Seq(D) /\ Len(a) = k - m + 1 /\ \A i \in 1 .. k - m + 1 : a[i] = x[m + i - 1]
  BY <1>0, <1>1
<1> HIDE DEF a, b
<1>4. \A i \in 1 .. k - m + 1 : m + i - 1 \in 1 .. n
  BY <1>0
<1>5. \A i \in 1 .. Len(a) : a[i] = b[i]
  BY <1>1, <1>2, <1>3, <1>4
<1>6. a = b
  BY <1>2, <1>3, <1>5, SameSequence
<1> QED
  BY <1>6 DEF a, b, x

(* The whole of s, and nothing of it.                                      *)
LEMMA WholeSub ==
    ASSUME NEW D, NEW s \in Seq(D)
    PROVE  SubSeq(s, 1, Len(s)) = s /\ SubSeq(s, 1, 0) = <<>>
<1> DEFINE w == SubSeq(s, 1, Len(s))
           e == SubSeq(s, 1, 0)
<1>1. w \in Seq(D) /\ Len(w) = Len(s) /\ \A i \in 1 .. Len(s) : w[i] = s[i]
  OBVIOUS
<1>2. e \in Seq(D) /\ Len(e) = 0
  OBVIOUS
<1> HIDE DEF w, e
<1>3. w = s
  BY <1>1, SameSequence
<1>4. e = <<>>
  BY <1>2
<1> QED
  BY <1>3, <1>4 DEF w, e

-----------------------------------------------------------------------------
(* The ends of pieces.                                                     *)

(* f begins with b, and G[n] is its n-th step.                             *)
Recurses(f, T, b, N, G) ==
    /\ f \in [0 .. N -> T]
    /\ f[0] = b
    /\ \A n \in 1 .. N : f[n] = G[n][f[n - 1]]

(* Recursion, with its conclusion under a name.                            *)
LEMMA RecursionSteps ==
    ASSUME NEW T, NEW b \in T, NEW N \in Nat, NEW G \in [1 .. N -> [T -> T]]
    PROVE  \E f : Recurses(f, T, b, N, G)
BY Recursion DEF Recurses

(* a and b are what the first m elements of s are made of.                 *)
IsSplit(s, m, a, b) ==
    /\ Len(a) \in 0 .. m /\ Len(a) + Len(b) = m
    /\ a = SubSeq(s, 1, Len(a))
    /\ b = SubSeq(s, Len(a) + 1, m)
(* The first m elements of s.                                              *)
Beginning(s, m) == SubSeq(s, 1, m)

(* JoinedSub, with its conclusion under a name.                            *)
LEMMA Splits ==
    ASSUME NEW D, NEW s \in Seq(D), NEW m \in 0 .. Len(s), NEW a \in Seq(D), NEW b \in Seq(D),
           Joined(a, b) = Beginning(s, m)
    PROVE  IsSplit(s, m, a, b)
BY JoinedSub DEF IsSplit, Beginning

(* f[n] is the concatenation of the first n of seqs.                       *)
Concatenates(f, D, N, seqs) ==
    /\ f \in [0 .. N -> Seq(D)]
    /\ f[0] = <<>>
    /\ \A n \in 1 .. N : f[n] = Joined(f[n - 1], seqs[n])
    /\ FlattenSeq(seqs) = f[N]

(* There are such steps: the recursive function of FlattenSeq gives them.  *)
LEMMA FlattenSteps ==
    ASSUME NEW D, NEW N \in Nat, NEW seqs \in [1 .. N -> Seq(D)]
    PROVE  \E f : Concatenates(f, D, N, seqs)
<1> DEFINE T == Seq(D)
           Step(n, x) == Joined(x, seqs[n])
           G == [n \in 1 .. N |-> [x \in T |-> Step(n, x)]]
           Steps(f) == [i \in 1 .. N |-> IF i = 1 THEN seqs[i] ELSE Joined(f[i - 1], seqs[i])]
           flatten == CHOOSE f : f = Steps(f)
<1>1. <<>> \in T /\ \A n \in 1 .. N : seqs[n] \in T
  OBVIOUS
<1>2. \A n \in 1 .. N, x \in T : Step(n, x) \in T
  BY DEF Joined
<1>3. \A n \in 1 .. N : Step(n, <<>>) = seqs[n]
  <2> SUFFICES ASSUME NEW n \in 1 .. N PROVE Joined(<<>>, seqs[n]) = seqs[n]
    OBVIOUS
  <2> QED
    BY <1>1, JoinedEmpty
<1>4. Len(seqs) = N /\ (N = 0 => seqs = <<>>)
  OBVIOUS
<1>5. FlattenSeq(seqs) = IF N = 0 THEN <<>> ELSE flatten[N]
  BY <1>4 DEF FlattenSeq, Joined
<1> HIDE DEF T
<1>6. G \in [1 .. N -> [T -> T]]
  <2> HIDE DEF Step
  <2> QED
    BY <1>2
<1> DEFINE b == <<>>
<1> HIDE DEF b, G, Step, Steps, flatten
<1>7. PICK h : Recurses(h, T, b, N, G)
  BY <1>1, <1>6, RecursionSteps DEF b
<1>7a. /\ h \in [0 .. N -> T] /\ h[0] = <<>>
       /\ \A n \in 1 .. N : h[n] = G[n][h[n - 1]]
  BY <1>7 DEF Recurses, b
<1> USE DEF G, Step, Steps, flatten
<1>8. ASSUME NEW n \in 1 .. N PROVE h[n] = Step(n, h[n - 1])
  <2>1. h[n - 1] \in T
    BY <1>7a
  <2> HIDE DEF Step
  <2> QED
    BY <2>1, <1>7a
<1> HIDE DEF G
<1>9. ASSUME NEW n \in 1 .. N, n # 1 PROVE n - 1 \in 1 .. N
  BY <1>9
<1>10. N # 0 => h[1] = seqs[1]
  <2> SUFFICES ASSUME N # 0 PROVE h[1] = seqs[1]
    OBVIOUS
  <2>1. 1 \in 1 .. N /\ 1 - 1 = 0
    OBVIOUS
  <2>2. h[1] = Step(1, h[1 - 1])
    BY <2>1, <1>8
  <2> HIDE DEF Step
  <2> QED
    BY <2>1, <2>2, <1>3, <1>7a
<1> DEFINE g == [n \in 1 .. N |-> h[n]]
<1>11. g = Steps(g)
  <2>1. ASSUME NEW n \in 1 .. N
        PROVE  h[n] = IF n = 1 THEN seqs[n] ELSE Joined(g[n - 1], seqs[n])
    <3>1. CASE n = 1
      BY <3>1, <1>10
    <3>2. CASE n # 1
      <4>1. g[n - 1] = h[n - 1]
        BY <3>2, <1>9
      <4>2. h[n] = Joined(h[n - 1], seqs[n])
        BY <1>8
      <4> HIDE DEF g
      <4> QED
        BY <3>2, <4>1, <4>2
    <3> QED
      BY <3>1, <3>2
  <2> QED
    BY <2>1
<1>12. flatten = Steps(flatten)
  <2> HIDE DEF Steps, g
  <2> QED
    BY <1>11
<1> HIDE DEF flatten, g
<1>13. \A n \in 1 .. N :
          flatten[n] = IF n = 1 THEN seqs[n] ELSE Joined(flatten[n - 1], seqs[n])
  BY <1>12
<1> DEFINE f == [n \in 0 .. N |-> IF n = 0 THEN <<>> ELSE flatten[n]]
<1>14. f[0] = <<>> /\ f[N] = (IF N = 0 THEN <<>> ELSE flatten[N])
  OBVIOUS
<1>15. ASSUME NEW n \in 1 .. N PROVE f[n] = Step(n, f[n - 1])
  <2>1. CASE n = 1
    <3>1. f[n] = seqs[n] /\ f[n - 1] = <<>>
      BY <2>1, <1>13
    <3> HIDE DEF f, Step
    <3> QED
      BY <3>1, <1>3
  <2>2. CASE n # 1
    <3>1. f[n] = flatten[n] /\ f[n - 1] = flatten[n - 1]
      BY <2>2
    <3>2. flatten[n] = Joined(flatten[n - 1], seqs[n])
      BY <2>2, <1>13
    <3> HIDE DEF f
    <3> QED
      BY <3>1, <3>2
  <2> QED
    BY <2>1, <2>2
<1>16. 0 .. N \subseteq {n \in 0 .. N : f[n] \in T}
  <2> DEFINE P == {n \in 0 .. N : f[n] \in T}
  <2> HIDE DEF Step
  <2>1. 0 \in P
    BY <1>1, <1>14
  <2>2. ASSUME NEW n \in 1 .. N, n - 1 \in P PROVE n \in P
    <3>1. f[n - 1] \in T
      BY <2>2
    <3>2. f[n] = Step(n, f[n - 1])
      BY <1>15
    <3> HIDE DEF f
    <3> QED
      BY <3>1, <3>2, <1>2
  <2> HIDE DEF P
  <2> QED
    BY <2>1, <2>2, Climb DEF P
<1>17. f \in [0 .. N -> T]
  BY <1>16
<1>18. \A n \in 1 .. N : f[n] = Joined(f[n - 1], seqs[n])
  BY <1>15
<1> HIDE DEF f
<1> QED
  BY <1>5, <1>14, <1>17, <1>18 DEF Concatenates, T

(* w holds the ends of the pieces seqs of the first n elements of s.       *)
PieceEnds(w, s, N, n, seqs) ==
    /\ w \in Seq(0 .. Len(s)) /\ Len(w) = N + 1
    /\ w[1] = 0 /\ w[N + 1] = n
    /\ \A i \in 1 .. N : w[i] <= w[i + 1] /\ seqs[i] = SubSeq(s, w[i] + 1, w[i + 1])

(* Pieces that make up a beginning of s have ends in s.                    *)
LEMMA EndsOfPieces ==
    ASSUME NEW D, NEW s \in Seq(D), NEW N \in Nat, NEW n \in 0 .. Len(s),
           NEW seqs \in [1 .. N -> Seq(D)], FlattenSeq(seqs) = SubSeq(s, 1, n)
    PROVE  \E w : PieceEnds(w, s, N, n, seqs)
<1>1. PICK f : Concatenates(f, D, N, seqs)
  BY FlattenSteps
<1>2. /\ f[0] = <<>> /\ f[N] = SubSeq(s, 1, n)
      /\ \A k \in 1 .. N : f[k] = Joined(f[k - 1], seqs[k])
      /\ \A k \in 0 .. N : f[k] \in Seq(D)
  BY <1>1 DEF Concatenates
<1>3. Len(s) \in Nat /\ n \in Nat /\ \A k \in 1 .. N : seqs[k] \in Seq(D)
  OBVIOUS
<1> DEFINE IsBeginning(k) == f[k] = SubSeq(s, 1, Len(f[k])) /\ Len(f[k]) \in 0 .. Len(s)
<1>4. IsBeginning(N)
  <2>1. Len(SubSeq(s, 1, n)) = n
    BY <1>3
  <2> QED
    BY <1>2, <2>1
<1>5. ASSUME NEW k \in 1 .. N, IsBeginning(k)
      PROVE  /\ IsBeginning(k - 1) /\ Len(f[k - 1]) <= Len(f[k])
             /\ seqs[k] = SubSeq(s, Len(f[k - 1]) + 1, Len(f[k]))
  <2> PICK m : m = Len(f[k])
    OBVIOUS
  <2> PICK a : a = f[k - 1]
    OBVIOUS
  <2> PICK b : b = seqs[k]
    OBVIOUS
  <2>1. m \in 0 .. Len(s) /\ f[k] = SubSeq(s, 1, m) /\ k - 1 \in 0 .. N
    BY <1>5
  <2>2. a \in Seq(D) /\ b \in Seq(D) /\ Joined(a, b) = SubSeq(s, 1, m)
    BY <1>2, <1>3, <2>1
  <2>3. /\ Len(a) \in 0 .. m /\ Len(a) + Len(b) = m
        /\ a = SubSeq(s, 1, Len(a))
        /\ b = SubSeq(s, Len(a) + 1, m)
    <3>1. Joined(a, b) = Beginning(s, m)
      BY <2>2 DEF Beginning
    <3>2. IsSplit(s, m, a, b)
      BY <2>1, <2>2, <3>1, Splits
    <3> QED
      BY <3>2 DEF IsSplit
  <2>4. Len(a) \in 0 .. Len(s) /\ Len(a) <= m
    BY <2>1, <2>3, <1>3
  <2> QED
    BY <2>3, <2>4
<1>6. 0 .. N \subseteq {k \in 0 .. N : IsBeginning(N - k)}
  <2> DEFINE P == {k \in 0 .. N : IsBeginning(N - k)}
  <2>1. 0 \in P
    BY <1>4
  <2>2. ASSUME NEW k \in 1 .. N, k - 1 \in P PROVE k \in P
    <3>1. N - (k - 1) \in 1 .. N /\ (N - (k - 1)) - 1 = N - k
      OBVIOUS
    <3>2. IsBeginning(N - (k - 1))
      BY <2>2
    <3>3. IsBeginning((N - (k - 1)) - 1)
      <4> HIDE DEF IsBeginning
      <4> QED
        BY <3>1, <3>2, <1>5
    <3> HIDE DEF IsBeginning
    <3>4. IsBeginning(N - k)
      BY <3>1, <3>3
    <3> QED
      BY <3>4
  <2> HIDE DEF P
  <2> QED
    BY <2>1, <2>2, Climb DEF P
<1>7. ASSUME NEW k \in 0 .. N PROVE IsBeginning(k)
  <2>1. N - k \in 0 .. N /\ N - (N - k) = k
    OBVIOUS
  <2>2. IsBeginning(N - (N - k))
    <3> HIDE DEF IsBeginning
    <3> QED
      BY <2>1, <1>6
  <2> QED
    BY <2>1, <2>2
<1> DEFINE w == [i \in 1 .. N + 1 |-> Len(f[i - 1])]
<1>8. \A i \in 1 .. N + 1 : w[i] = Len(f[i - 1]) /\ w[i] \in 0 .. Len(s)
  BY <1>7
<1>9. w \in Seq(0 .. Len(s)) /\ Len(w) = N + 1
  BY <1>8
<1>10. w[1] = 0 /\ w[N + 1] = n
  <2>1. Len(<<>>) = 0 /\ Len(SubSeq(s, 1, n)) = n
    BY <1>3
  <2> QED
    BY <1>2, <2>1
<1>11. ASSUME NEW i \in 1 .. N
       PROVE  w[i] <= w[i + 1] /\ seqs[i] = SubSeq(s, w[i] + 1, w[i + 1])
  <2>1. w[i] = Len(f[i - 1]) /\ w[i + 1] = Len(f[i])
    OBVIOUS
  <2>2. IsBeginning(i)
    BY <1>7
  <2> HIDE DEF w, IsBeginning
  <2> QED
    BY <2>1, <2>2, <1>5
<1> HIDE DEF w
<1> QED
  BY <1>9, <1>10, <1>11 DEF PieceEnds

(* Pieces between ends in s make up a beginning of s.                      *)
LEMMA PiecesOfEnds ==
    ASSUME NEW D, NEW s \in Seq(D), NEW N \in Nat, NEW n \in 0 .. Len(s),
           NEW seqs \in [1 .. N -> Seq(D)], NEW w, PieceEnds(w, s, N, n, seqs)
    PROVE  FlattenSeq(seqs) = SubSeq(s, 1, n)
<1>1. PICK f : Concatenates(f, D, N, seqs)
  BY FlattenSteps
<1>2. /\ f[0] = <<>> /\ FlattenSeq(seqs) = f[N]
      /\ \A k \in 1 .. N : f[k] = Joined(f[k - 1], seqs[k])
  BY <1>1 DEF Concatenates
<1>3. /\ w[1] = 0 /\ w[N + 1] = n /\ \A i \in 1 .. N + 1 : w[i] \in 0 .. Len(s)
      /\ \A i \in 1 .. N : w[i] <= w[i + 1] /\ seqs[i] = SubSeq(s, w[i] + 1, w[i + 1])
  <2>1. w \in Seq(0 .. Len(s)) /\ Len(w) = N + 1
    BY DEF PieceEnds
  <2>2. \A i \in 1 .. Len(w) : w[i] \in 0 .. Len(s)
    <3>1. PICK E : E = 0 .. Len(s)
      OBVIOUS
    <3>2. w \in Seq(E)
      BY <2>1, <3>1
    <3>3. \A i \in 1 .. Len(w) : w[i] \in E
      BY <3>2
    <3> QED
      BY <3>1, <3>3
  <2> QED
    BY <2>1, <2>2 DEF PieceEnds
<1> DEFINE P == {k \in 0 .. N : f[k] = SubSeq(s, 1, w[k + 1])}
<1>4. 0 \in P
  <2>1. SubSeq(s, 1, 0) = <<>>
    BY WholeSub
  <2>2. w[0 + 1] = 0 /\ 0 \in 0 .. N
    BY <1>3
  <2>3. f[0] = SubSeq(s, 1, w[0 + 1])
    BY <2>1, <2>2, <1>2
  <2> QED
    BY <2>2, <2>3
<1>5. ASSUME NEW k \in 1 .. N, k - 1 \in P PROVE k \in P
  <2>1. /\ (k - 1) + 1 = k /\ w[k] \in 0 .. Len(s) /\ w[k + 1] \in 0 .. Len(s)
        /\ w[k] <= w[k + 1] /\ w[k + 1] \in w[k] .. Len(s)
    BY <1>3
  <2>2. Joined(SubSeq(s, 1, w[k]), SubSeq(s, w[k] + 1, w[k + 1])) = SubSeq(s, 1, w[k + 1])
    BY <2>1, SplitSub
  <2>3. f[k] = Joined(f[k - 1], seqs[k]) /\ f[k - 1] = SubSeq(s, 1, w[k])
        /\ seqs[k] = SubSeq(s, w[k] + 1, w[k + 1])
    BY <2>1, <1>2, <1>3, <1>5
  <2>4. f[k] = SubSeq(s, 1, w[k + 1])
    BY <2>2, <2>3
  <2> QED
    BY <2>4
<1>6. N \in P
  <2> HIDE DEF P
  <2>1. 0 .. N \subseteq P
    BY <1>4, <1>5, Climb
  <2> QED
    BY <2>1
<1> QED
  BY <1>2, <1>3, <1>6

(* No end is after the last.                                               *)
LEMMA EndsAscend ==
    ASSUME NEW s, NEW N \in Nat, NEW n, NEW seqs, NEW w, PieceEnds(w, s, N, n, seqs)
    PROVE  \A i \in 1 .. N + 1 : w[i] <= n
<1>1. /\ w[N + 1] = n /\ \A i \in 1 .. N + 1 : w[i] \in Nat
      /\ \A i \in 1 .. N : w[i] <= w[i + 1]
  BY DEF PieceEnds
<1> DEFINE P == {k \in 0 .. N : w[N + 1 - k] <= n}
<1>2. 0 \in P
  BY <1>1
<1>3. ASSUME NEW k \in 1 .. N, k - 1 \in P PROVE k \in P
  <2>1. N + 1 - k \in 1 .. N /\ (N + 1 - k) + 1 = N + 1 - (k - 1) /\ N + 1 - (k - 1) \in 1 .. N + 1
        /\ N + 1 \in 1 .. N + 1
    OBVIOUS
  <2>2. w[N + 1 - k] <= w[N + 1 - (k - 1)] /\ w[N + 1 - (k - 1)] <= n
        /\ w[N + 1 - k] \in Nat /\ w[N + 1 - (k - 1)] \in Nat /\ n \in Nat
    BY <2>1, <1>1, <1>3
  <2>3. w[N + 1 - k] <= n
    BY <2>2
  <2> QED
    BY <2>3
<1>4. 0 .. N \subseteq P
  <2> HIDE DEF P
  <2> QED
    BY <1>2, <1>3, Climb
<1>5. ASSUME NEW i \in 1 .. N + 1 PROVE w[i] <= n
  <2>1. N + 1 - i \in 0 .. N /\ N + 1 - (N + 1 - i) = i
    OBVIOUS
  <2>2. N + 1 - i \in P
    <3> HIDE DEF P
    <3> QED
      BY <2>1, <1>4
  <2> QED
    BY <2>1, <2>2
<1> QED
  BY <1>5

-----------------------------------------------------------------------------
(* The ways to match.                                                      *)

(* The ways to match one more token.                                       *)
Longer(W, t, s) ==
    UNION {{Append(w, e) : e \in {m \in Last(w) .. Len(s) :
               TokenMatches(t, SubSeq(s, Last(w) + 1, m))}} : w \in W}

(* What the ways to match are among: ends in s, at least one.              *)
Begun(s) == {w \in Seq(0 .. Len(s)) : w # <<>>}

(* One more token keeps them so.                                           *)
LEMMA BegunLonger ==
    ASSUME NEW D, NEW s \in Seq(D), NEW W \in SUBSET Begun(s), NEW t
    PROVE  Longer(W, t, s) \in SUBSET Begun(s)
<1> SUFFICES ASSUME NEW x \in Longer(W, t, s)
             PROVE  x \in Begun(s)
  OBVIOUS
<1>0. PICK w \in W : \E e \in Last(w) .. Len(s) : x = Append(w, e)
  BY DEF Longer
<1> PICK e \in Last(w) .. Len(s) : x = Append(w, e)
  BY <1>0
<1>1. PICK E : E = 0 .. Len(s)
  OBVIOUS
<1>2. w \in Seq(E) /\ w # <<>> /\ Len(s) \in Nat
  BY <1>1 DEF Begun
<1>3. Last(w) \in E
  BY <1>2, FrontFacts
<1>4. e \in E
  BY <1>1, <1>2, <1>3
<1>5. Append(w, e) \in Seq(E) /\ Append(w, e) # <<>>
  BY <1>2, <1>4, AppendFacts
<1> QED
  BY <1>1, <1>5 DEF Begun

(* The recursive function of Ways takes a step of Longer per token.        *)
LEMMA WaysSteps ==
    ASSUME NEW D, NEW s \in Seq(D), NEW C, NEW tokens \in Seq(C)
    PROVE  \E f : /\ f[0] = {<<0>>}
                  /\ \A n \in 1 .. Len(tokens) : f[n] = Longer(f[n - 1], tokens[n], s)
                  /\ Ways(tokens, s) = f[Len(tokens)]
<1> DEFINE T == SUBSET Begun(s)
           N == Len(tokens)
           b == {<<0>>}
           Step(n, W) == Longer(W, tokens[n], s)
           G == [n \in 1 .. N |-> [W \in T |-> Step(n, W)]]
           Steps(f) == [n \in 0 .. N |-> IF n = 0 THEN b ELSE Step(n, f[n - 1])]
           ways == CHOOSE f : f = Steps(f)
<1>1. N \in Nat /\ b \in T
  <2>1. <<0>> \in Seq(0 .. Len(s)) /\ <<0>> # <<>>
    <3>1. 0 \in 0 .. Len(s)
      OBVIOUS
    <3> QED
      BY <3>1
  <2> QED
    BY <2>1 DEF Begun
<1>2. ASSUME NEW n \in 1 .. N, NEW W \in T PROVE Step(n, W) \in T
  BY BegunLonger
<1>3. Ways(tokens, s) = ways[N]
  BY DEF Ways, Longer
<1> HIDE DEF T, N, b, Step
<1>4. G \in [1 .. N -> [T -> T]]
  BY <1>2
<1> HIDE DEF G
<1>5. PICK f : Recurses(f, T, b, N, G)
  BY <1>1, <1>4, RecursionSteps
<1>6. /\ f \in [0 .. N -> T] /\ f[0] = b
      /\ \A n \in 1 .. N : f[n] = G[n][f[n - 1]]
  BY <1>5 DEF Recurses
<1>7. ASSUME NEW n \in 1 .. N PROVE f[n] = Step(n, f[n - 1])
  <2>1. f[n - 1] \in T
    BY <1>1, <1>6
  <2> QED
    BY <2>1, <1>6 DEF G
<1>8. f = Steps(f)
  BY <1>1, <1>6, <1>7
<1>9. ways = Steps(ways)
  <2> HIDE DEF Steps
  <2> QED
    BY <1>8
<1> HIDE DEF ways
<1>10. ways[0] = b /\ \A n \in 1 .. N : ways[n] = Step(n, ways[n - 1])
  BY <1>1, <1>9
<1> QED
  BY <1>3, <1>10 DEF N, b, Step

(* w holds the ends of pieces that match the first n tokens.               *)
Walk(w, tokens, s, n) ==
    /\ w \in Seq(0 .. Len(s)) /\ Len(w) = n + 1 /\ w[1] = 0
    /\ \A i \in 1 .. n : /\ w[i] <= w[i + 1]
                         /\ TokenMatches(tokens[i], SubSeq(s, w[i] + 1, w[i + 1]))

(* A walk over one token more.                                             *)
LEMMA WalkOn ==
    ASSUME NEW D, NEW s \in Seq(D), NEW tokens, NEW n \in Nat \ {0},
           NEW w, Walk(w, tokens, s, n - 1),
           NEW e \in Last(w) .. Len(s), TokenMatches(tokens[n], SubSeq(s, Last(w) + 1, e))
    PROVE  Walk(Append(w, e), tokens, s, n)
<1>1. PICK E : E = 0 .. Len(s)
  OBVIOUS
<1>2. /\ w \in Seq(E) /\ Len(w) = n /\ w[1] = 0 /\ n \in Nat \ {0} /\ Len(s) \in Nat
      /\ \A i \in 1 .. n - 1 : /\ w[i] <= w[i + 1]
                               /\ TokenMatches(tokens[i], SubSeq(s, w[i] + 1, w[i + 1]))
  BY <1>1 DEF Walk
<1>3. Last(w) = w[n] /\ w[n] \in E
  BY <1>2 DEF Last
<1>4. e \in E
  BY <1>1, <1>2, <1>3
<1> DEFINE v == Append(w, e)
<1>5. v \in Seq(E) /\ Len(v) = n + 1 /\ v[n + 1] = e /\ \A i \in 1 .. n : v[i] = w[i]
  BY <1>2, <1>4, AppendFacts
<1> HIDE DEF v
<1>6. ASSUME NEW i \in 1 .. n
      PROVE  v[i] <= v[i + 1] /\ TokenMatches(tokens[i], SubSeq(s, v[i] + 1, v[i + 1]))
  <2>1. CASE i = n
    <3>1. v[i] = Last(w) /\ v[i + 1] = e
      BY <2>1, <1>3, <1>5
    <3> QED
      BY <2>1, <3>1
  <2>2. CASE i # n
    <3>1. i \in 1 .. n - 1 /\ i + 1 \in 1 .. n
      BY <2>2
    <3>2. v[i] = w[i] /\ v[i + 1] = w[i + 1]
      BY <3>1, <1>5
    <3> QED
      BY <3>1, <3>2, <1>2
  <2> QED
    BY <2>1, <2>2
<1>7. v[1] = 0
  BY <1>2, <1>5
<1> QED
  BY <1>1, <1>5, <1>6, <1>7 DEF Walk, v

(* A walk over one token less.                                             *)
LEMMA WalkBack ==
    ASSUME NEW D, NEW s \in Seq(D), NEW tokens, NEW n \in Nat \ {0},
           NEW w, Walk(w, tokens, s, n)
    PROVE  \E v, e : /\ Walk(v, tokens, s, n - 1) /\ w = Append(v, e)
                     /\ e \in Last(v) .. Len(s)
                     /\ TokenMatches(tokens[n], SubSeq(s, Last(v) + 1, e))
<1>1. PICK E : E = 0 .. Len(s)
  OBVIOUS
<1>2. /\ w \in Seq(E) /\ Len(w) = n + 1 /\ w[1] = 0 /\ n \in Nat \ {0} /\ Len(s) \in Nat
      /\ \A i \in 1 .. n : /\ w[i] <= w[i + 1]
                           /\ TokenMatches(tokens[i], SubSeq(s, w[i] + 1, w[i + 1]))
  BY <1>1 DEF Walk
<1> DEFINE v == Front(w)
           e == w[n + 1]
<1>3. w # <<>>
  BY <1>2
<1>4. v \in Seq(E) /\ Len(v) = n /\ \A i \in 1 .. n : v[i] = w[i]
  <2>1. /\ v \in Seq(E) /\ Len(v) = Len(w) - 1
        /\ \A i \in 1 .. Len(w) - 1 : v[i] = w[i]
    BY <1>2, <1>3, FrontFacts
  <2> QED
    BY <2>1, <1>2
<1>5. e \in E
  BY <1>2
<1> HIDE DEF v
<1>6. Last(v) = w[n]
  BY <1>2, <1>4 DEF Last
<1>7. w[n] \in E /\ w[n] <= e /\ TokenMatches(tokens[n], SubSeq(s, w[n] + 1, e))
  BY <1>2
<1>8. e \in Last(v) .. Len(s)
  BY <1>1, <1>2, <1>5, <1>6, <1>7
<1>9. w = Append(v, e)
  <2> DEFINE a == Append(v, e)
  <2>1. a \in Seq(E) /\ Len(a) = n + 1 /\ a[n + 1] = e /\ \A i \in 1 .. n : a[i] = v[i]
    BY <1>4, <1>5, AppendFacts
  <2> HIDE DEF a, e
  <2>2. \A i \in 1 .. n + 1 : i \in 1 .. n \/ i = n + 1
    OBVIOUS
  <2>3. \A i \in 1 .. n + 1 : a[i] = w[i]
    BY <2>1, <2>2, <1>4 DEF e
  <2>4. a = w
    BY <2>1, <2>3, <1>2, SameSequence
  <2> QED
    BY <2>4 DEF a
<1>10. Walk(v, tokens, s, n - 1)
  <2>1. \A i \in 1 .. n - 1 : i \in 1 .. n /\ i + 1 \in 1 .. n
    BY <1>2
  <2>2. 1 \in 1 .. n /\ v[1] = 0 /\ (n - 1) + 1 = n
    BY <1>2, <1>4
  <2>3. \A i \in 1 .. n - 1 : v[i] = w[i] /\ v[i + 1] = w[i + 1]
    BY <2>1, <1>4
  <2> QED
    BY <2>1, <2>2, <2>3, <1>1, <1>2, <1>4 DEF Walk
<1> QED
  BY <1>6, <1>7, <1>8, <1>9, <1>10

(* The ways to match the tokens are the walks over all of them.            *)
LEMMA WaysWalk ==
    ASSUME NEW D, NEW s \in Seq(D), NEW C, NEW tokens \in Seq(C)
    PROVE  \A w : w \in Ways(tokens, s) <=> Walk(w, tokens, s, Len(tokens))
<1>1. PICK f : /\ f[0] = {<<0>>}
               /\ \A n \in 1 .. Len(tokens) : f[n] = Longer(f[n - 1], tokens[n], s)
               /\ Ways(tokens, s) = f[Len(tokens)]
  BY WaysSteps
<1> DEFINE P == {n \in 0 .. Len(tokens) : \A w : w \in f[n] <=> Walk(w, tokens, s, n)}
<1>2. 0 \in P
  <2>1. Len(s) \in Nat /\ 0 \in 0 .. Len(s)
    OBVIOUS
  <2>2. Walk(<<0>>, tokens, s, 0)
    <3>1. PICK E : E = 0 .. Len(s)
      OBVIOUS
    <3>2. <<0>> \in Seq(E)
      BY <2>1, <3>1
    <3> QED
      BY <3>1, <3>2 DEF Walk
  <2>3. ASSUME NEW w, Walk(w, tokens, s, 0) PROVE w = <<0>>
    <3>1. PICK E : E = 0 .. Len(s)
      OBVIOUS
    <3>2. w \in Seq(E) /\ Len(w) = 1 /\ w[1] = 0
      BY <2>3, <3>1 DEF Walk
    <3> QED
      BY <3>2
  <2> QED
    BY <1>1, <2>2, <2>3
<1>3. ASSUME NEW n \in 1 .. Len(tokens), n - 1 \in P PROVE n \in P
  <2>0. n \in Nat \ {0} /\ f[n] = Longer(f[n - 1], tokens[n], s)
        /\ \A w : w \in f[n - 1] <=> Walk(w, tokens, s, n - 1)
    BY <1>1, <1>3
  <2>1. ASSUME NEW w, w \in f[n] PROVE Walk(w, tokens, s, n)
    <3>0. PICK v \in f[n - 1] : \E e \in Last(v) .. Len(s) :
             w = Append(v, e) /\ TokenMatches(tokens[n], SubSeq(s, Last(v) + 1, e))
      BY <2>0, <2>1 DEF Longer
    <3>1. PICK e \in Last(v) .. Len(s) :
             w = Append(v, e) /\ TokenMatches(tokens[n], SubSeq(s, Last(v) + 1, e))
      BY <3>0
    <3>2. Walk(v, tokens, s, n - 1)
      BY <2>0
    <3>3. Walk(Append(v, e), tokens, s, n)
      BY <2>0, <3>1, <3>2, WalkOn
    <3> QED
      BY <3>1, <3>3
  <2>2. ASSUME NEW w, Walk(w, tokens, s, n) PROVE w \in f[n]
    <3>1. PICK v, e : /\ Walk(v, tokens, s, n - 1) /\ w = Append(v, e)
                      /\ e \in Last(v) .. Len(s)
                      /\ TokenMatches(tokens[n], SubSeq(s, Last(v) + 1, e))
      BY <2>0, <2>2, WalkBack
    <3>2. v \in f[n - 1]
      BY <2>0, <3>1
    <3> QED
      BY <2>0, <3>1, <3>2 DEF Longer
  <2> QED
    BY <2>1, <2>2
<1>4. 0 .. Len(tokens) \subseteq P
  <2> HIDE DEF P
  <2>1. Len(tokens) \in Nat
    OBVIOUS
  <2> QED
    BY <2>1, <1>2, <1>3, Climb
<1> QED
  BY <1>1, <1>4

(* The pieces that w cuts a text into.                                     *)
Cut(w, s, N) == [i \in 1 .. N |-> SubSeq(s, w[i] + 1, w[i + 1])]

(* The ends that a walk goes through are those of its pieces.              *)
LEMMA WalkEnds ==
    ASSUME NEW D, NEW s \in Seq(D), NEW tokens, NEW N \in Nat, NEW w, Walk(w, tokens, s, N)
    PROVE  /\ PieceEnds(w, s, N, Last(w), Cut(w, s, N))
           /\ Cut(w, s, N) \in [1 .. N -> Seq(D)]
           /\ Last(w) \in 0 .. Len(s) /\ \A i \in 1 .. N + 1 : w[i] \in 0 .. Len(s)
<1>1. PICK E : E = 0 .. Len(s)
  OBVIOUS
<1>2. /\ w \in Seq(E) /\ Len(w) = N + 1 /\ w[1] = 0 /\ Len(s) \in Nat
      /\ \A i \in 1 .. N : w[i] <= w[i + 1]
  BY <1>1 DEF Walk
<1>3. \A i \in 1 .. N + 1 : w[i] \in E
  BY <1>2
<1>4. Last(w) = w[N + 1]
  BY <1>2 DEF Last
<1>5. ASSUME NEW i \in 1 .. N PROVE SubSeq(s, w[i] + 1, w[i + 1]) \in Seq(D)
  <2>1. w[i] \in 0 .. Len(s) /\ w[i + 1] \in 0 .. Len(s)
    BY <1>1, <1>3
  <2> QED
    BY <2>1
<1>6. Cut(w, s, N) \in [1 .. N -> Seq(D)]
  BY <1>5 DEF Cut
<1>7. PieceEnds(w, s, N, Last(w), Cut(w, s, N))
  BY <1>1, <1>2, <1>4 DEF PieceEnds, Cut
<1> QED
  BY <1>1, <1>2, <1>3, <1>4, <1>6, <1>7

-----------------------------------------------------------------------------
(* Matching and filling in: the ways to match a pattern, and the values    *)
(* that make the path out of it.                                           *)

(* What patterns and paths are made of.                                    *)
PathToken == Character \cup Single \cup Wild

(* A piece of a text is a text, and not empty.                             *)
LEMMA PiecesType ==
    ASSUME NEW D, NEW x \in Seq(D), NEW p \in Pieces(x)
    PROVE  p \in Seq(D) /\ p # <<>>
<1>1. PICK i \in 1 .. Len(x), j \in 1 .. Len(x) : p = SubSeq(x, i, j)
  BY DEF Pieces
<1>2. Len(x) \in Nat /\ i \in Nat /\ j \in Nat
  OBVIOUS
<1>3. SubSeq(x, i, j) \in Seq(D)
  BY <1>2
<1>4. p # <<>>
  BY DEF Pieces
<1> QED
  BY <1>1, <1>3, <1>4

(* Values that make the first n characters of a path out of the tokens     *)
(* give a way to match them that ends there.                               *)
LEMMA WayOfValues ==
    ASSUME NEW tokens \in Seq(PathToken), NEW s \in Seq(PathToken), NEW n \in 0 .. Len(s),
           NEW v \in Values(tokens, SubSeq(s, 1, n))
    PROVE  \E w \in Ways(tokens, s) : Last(w) = n
<1> DEFINE x == SubSeq(s, 1, n)
           N == Len(tokens)
           seqs == [i \in 1 .. N |-> IF tokens[i] \in Param THEN v[i] ELSE <<tokens[i]>>]
<1>0. N \in Nat /\ Len(s) \in Nat /\ DOMAIN tokens = 1 .. N /\ \A i \in 1 .. N : tokens[i] \in PathToken
  OBVIOUS
<1>1. x \in Seq(PathToken)
  BY <1>0
<1> HIDE DEF N
<1>2. /\ \A i \in Places(tokens) : v[i] \in Pieces(x)
      /\ \A i \in Places(tokens) : tokens[i] \in Single => "/" \notin Range(v[i])
      /\ FlattenSeq(seqs) = x
  BY <1>0 DEF Values, Filled
<1> HIDE DEF x
<1>3. ASSUME NEW i \in 1 .. N
      PROVE  seqs[i] \in Seq(PathToken) /\ TokenMatches(tokens[i], seqs[i])
  <2>1. CASE tokens[i] \in Param
    <3>1. i \in Places(tokens)
      BY <2>1, <1>0 DEF Places
    <3>2. v[i] \in Seq(PathToken) /\ v[i] # <<>>
      BY <3>1, <1>1, <1>2, PiecesType
    <3> QED
      BY <2>1, <3>1, <3>2, <1>2 DEF TokenMatches
  <2>2. CASE tokens[i] \notin Param
    <3>1. seqs[i] = <<tokens[i]>> /\ tokens[i] \in PathToken
      BY <2>2, <1>0
    <3>2. <<tokens[i]>> \in Seq(PathToken)
      BY <3>1
    <3> HIDE DEF seqs
    <3> QED
      BY <2>2, <3>1, <3>2 DEF TokenMatches
  <2> QED
    BY <2>1, <2>2
<1>4. seqs \in [1 .. N -> Seq(PathToken)]
  BY <1>3
<1> HIDE DEF seqs
<1>5. FlattenSeq(seqs) = SubSeq(s, 1, n)
  BY <1>2 DEF x
<1>6. PICK w : PieceEnds(w, s, N, n, seqs)
  BY <1>0, <1>4, <1>5, EndsOfPieces
<1>7. Walk(w, tokens, s, N)
  BY <1>3, <1>6 DEF PieceEnds, Walk
<1>8. w \in Ways(tokens, s)
  BY <1>7, WaysWalk DEF N
<1>9. Last(w) = n
  BY <1>0, <1>6 DEF PieceEnds, Last
<1> QED
  BY <1>8, <1>9

(* The values that a way to match gives the parameters.                    *)
ValuesOf(w, tokens, s) == [i \in Places(tokens) |-> SubSeq(s, w[i] + 1, w[i + 1])]

(* A way to match gives values that make the text up to its end out of the *)
(* tokens.                                                                 *)
LEMMA ValuesOfWay ==
    ASSUME NEW tokens \in Seq(PathToken), NEW s \in Seq(PathToken), NEW w \in Ways(tokens, s)
    PROVE  /\ Last(w) \in 0 .. Len(s)
           /\ ValuesOf(w, tokens, s) \in Values(tokens, SubSeq(s, 1, Last(w)))
<1> DEFINE N == Len(tokens)
           n == Last(w)
           x == SubSeq(s, 1, n)
           v == ValuesOf(w, tokens, s)
           seqs == [i \in DOMAIN tokens |-> IF tokens[i] \in Param THEN v[i] ELSE <<tokens[i]>>]
<1>0. N \in Nat /\ Len(s) \in Nat /\ DOMAIN tokens = 1 .. N
  OBVIOUS
<1>1. Walk(w, tokens, s, N)
  BY WaysWalk
<1> HIDE DEF N
<1>2. /\ PieceEnds(w, s, N, n, Cut(w, s, N)) /\ Cut(w, s, N) \in [1 .. N -> Seq(PathToken)]
      /\ n \in 0 .. Len(s) /\ \A i \in 1 .. N + 1 : w[i] \in 0 .. Len(s)
  BY <1>0, <1>1, WalkEnds
<1> HIDE DEF n
<1>3. \A i \in 1 .. N + 1 : w[i] <= n
  BY <1>0, <1>2, EndsAscend
<1>4. FlattenSeq(Cut(w, s, N)) = x
  BY <1>0, <1>2, PiecesOfEnds
<1>5. \A i \in 1 .. N : TokenMatches(tokens[i], SubSeq(s, w[i] + 1, w[i + 1])) /\ w[i] <= w[i + 1]
  BY <1>1 DEF Walk
<1>6. \A i \in Places(tokens) : i \in 1 .. N /\ tokens[i] \in Param
  BY <1>0 DEF Places
<1>7. ASSUME NEW i \in Places(tokens)
      PROVE  /\ v[i] \in Pieces(x)
             /\ tokens[i] \in Single => "/" \notin Range(v[i])
  <2> DEFINE p == SubSeq(s, w[i] + 1, w[i + 1])
  <2>1. v[i] = p
    BY DEF ValuesOf
  <2>2. p # <<>> /\ (tokens[i] \in Single => "/" \notin Range(p))
    BY <1>5, <1>6 DEF TokenMatches
  <2>3. /\ i \in 1 .. N /\ i \in 1 .. N + 1 /\ i + 1 \in 1 .. N + 1 /\ n \in Nat
        /\ w[i] \in Nat /\ w[i + 1] \in Nat /\ w[i] <= w[i + 1] /\ w[i + 1] <= n
    <3>1. i \in 1 .. N /\ i \in 1 .. N + 1 /\ i + 1 \in 1 .. N + 1
      BY <1>0, <1>6
    <3>2. w[i] \in 0 .. Len(s) /\ w[i + 1] \in 0 .. Len(s)
      BY <3>1, <1>2
    <3>3. n \in Nat
      BY <1>0, <1>2
    <3>4. w[i] <= w[i + 1] /\ w[i + 1] <= n
      BY <3>1, <1>3, <1>5
    <3> QED
      BY <3>1, <3>2, <3>3, <3>4, <1>0
  <2>4. w[i] # w[i + 1]
    <3>1. SubSeq(s, w[i] + 1, w[i]) = <<>>
      <4>1. w[i] \in 0 .. Len(s)
        BY <1>2, <2>3
      <4>2. SubSeq(s, w[i] + 1, w[i]) \in Seq(PathToken) /\ Len(SubSeq(s, w[i] + 1, w[i])) = 0
        BY <4>1, <1>0
      <4> QED
        BY <4>2
    <3> QED
      BY <3>1, <2>2
  <2>5. PICK a : a = w[i] + 1
    OBVIOUS
  <2>6. PICK b : b = w[i + 1]
    OBVIOUS
  <2>7. a \in 1 .. n /\ b \in a .. n /\ n \in 0 .. Len(s) /\ b \in 1 .. n
    BY <1>2, <2>3, <2>4, <2>5, <2>6
  <2>8. SubSeq(SubSeq(s, 1, n), a, b) = SubSeq(s, a, b)
    BY <2>7, SubOfSub
  <2>9. SubSeq(x, a, b) = p
    BY <2>5, <2>6, <2>8
  <2>9a. Len(x) = n
    BY <2>7, <1>0
  <2> HIDE DEF x, p, v
  <2>9b. a \in 1 .. Len(x) /\ b \in 1 .. Len(x)
    BY <2>7, <2>9a, <1>0, <2>3
  <2>10. p \in Pieces(x)
    <3>1. SubSeq(x, a, b) \in {SubSeq(x, k, m) : k, m \in 1 .. Len(x)}
      BY <2>9b
    <3> QED
      BY <2>2, <2>9, <3>1 DEF Pieces
  <2> QED
    BY <2>1, <2>2, <2>10
<1>8. v \in [Places(tokens) -> Pieces(x)]
  BY <1>7 DEF ValuesOf
<1>9. ASSUME NEW i \in 1 .. N PROVE seqs[i] = Cut(w, s, N)[i]
  <2>1. Cut(w, s, N)[i] = SubSeq(s, w[i] + 1, w[i + 1])
    BY DEF Cut
  <2>2. CASE tokens[i] \in Param
    <3>1. i \in Places(tokens)
      BY <2>2, <1>0 DEF Places
    <3> QED
      BY <2>1, <2>2, <3>1, <1>0 DEF ValuesOf
  <2>3. CASE tokens[i] \notin Param
    BY <2>1, <2>3, <1>0, <1>5 DEF TokenMatches
  <2> QED
    BY <2>2, <2>3
<1>10. seqs = Cut(w, s, N)
  <2>1. Cut(w, s, N) = [i \in 1 .. N |-> Cut(w, s, N)[i]]
    BY DEF Cut
  <2>2. seqs = [i \in 1 .. N |-> seqs[i]]
    BY <1>0
  <2> HIDE DEF seqs
  <2> QED
    BY <2>1, <2>2, <1>9
<1>11. Filled(tokens, v) = FlattenSeq(seqs)
  BY DEF Filled
<1> HIDE DEF seqs, v, x
<1>12. v \in Values(tokens, x)
  BY <1>4, <1>7, <1>8, <1>10, <1>11 DEF Values
<1> QED
  BY <1>2, <1>12 DEF v, x, n

(* The tokens mean the first n characters of a path exactly when there is  *)
(* a way to match that ends there.                                         *)
LEMMA MeansWay ==
    ASSUME NEW tokens \in Seq(PathToken), NEW s \in Seq(PathToken), NEW n \in 0 .. Len(s)
    PROVE  Means(tokens, SubSeq(s, 1, n)) <=> \E w \in Ways(tokens, s) : Last(w) = n
<1>1. ASSUME Means(tokens, SubSeq(s, 1, n)) PROVE \E w \in Ways(tokens, s) : Last(w) = n
  <2>1. PICK v : v \in Values(tokens, SubSeq(s, 1, n))
    BY <1>1 DEF Means
  <2> QED
    BY <2>1, WayOfValues
<1>2. ASSUME NEW w \in Ways(tokens, s), Last(w) = n PROVE Means(tokens, SubSeq(s, 1, n))
  <2>1. ValuesOf(w, tokens, s) \in Values(tokens, SubSeq(s, 1, Last(w)))
    BY ValuesOfWay
  <2> QED
    BY <2>1, <1>2 DEF Means
<1> QED
  BY <1>1, <1>2

-----------------------------------------------------------------------------
(* The way that the quantifiers take.                                      *)

(* On the first k ends, w is where v is, or was ahead first.               *)
Leads(w, v, k) ==
    \/ \E i \in 1 .. k : w[i] > v[i] /\ \A j \in 1 .. i - 1 : w[j] = v[j]
    \/ \A i \in 1 .. k : w[i] = v[i]

(* Of sequences of equal length, bounded and at least one, Greediest picks *)
(* one: end by end, the greatest that those before leave.                  *)
LEMMA GreediestIn ==
    ASSUME NEW L \in Nat, NEW K \in Nat, NEW W, W \subseteq [1 .. K -> 0 .. L], W # {}
    PROVE  Greediest(W) \in W
<1> DEFINE P == {k \in 0 .. K : \E w \in W : \A v \in W : Leads(w, v, k)}
<1>1. 0 \in P
  BY DEF Leads
<1>2. ASSUME NEW k \in 1 .. K, k - 1 \in P PROVE k \in P
  <2>1. PICK w \in W : \A v \in W : Leads(w, v, k - 1)
    BY <1>2
  <2> DEFINE A == {v \in W : \A i \in 1 .. k - 1 : v[i] = w[i]}
             T == {v[k] : v \in A}
  <2>2. T \subseteq 0 .. L /\ T # {}
    OBVIOUS
  <2>3. PICK m \in T : \A y \in T : y <= m
    <3> HIDE DEF T
    <3> QED
      BY <2>2, Greatest
  <2>4. PICK u \in A : m = u[k]
    OBVIOUS
  <2>5. /\ u \in W /\ \A i \in 1 .. k - 1 : u[i] = w[i]
        /\ \A v \in W : (\A i \in 1 .. k - 1 : v[i] = w[i]) => v[k] <= u[k]
    BY <2>3, <2>4
  <2> HIDE DEF A, T
  <2>6. ASSUME NEW v \in W PROVE Leads(u, v, k)
    <3>0. /\ k \in Nat \ {0} /\ u[k] \in Nat /\ v[k] \in Nat
          /\ \A i \in 1 .. k : i \in 1 .. k - 1 \/ i = k
          /\ \A i \in 1 .. k - 1 : i \in 1 .. k /\ \A j \in 1 .. i - 1 : j \in 1 .. k - 1
      BY <2>5
    <3>1. CASE \E i \in 1 .. k - 1 : w[i] > v[i] /\ \A j \in 1 .. i - 1 : w[j] = v[j]
      <4>1. PICK i \in 1 .. k - 1 : w[i] > v[i] /\ \A j \in 1 .. i - 1 : w[j] = v[j]
        BY <3>1
      <4>2. i \in 1 .. k /\ u[i] = w[i] /\ \A j \in 1 .. i - 1 : u[j] = w[j]
        BY <3>0, <2>5
      <4>3. u[i] > v[i] /\ \A j \in 1 .. i - 1 : u[j] = v[j]
        BY <4>1, <4>2
      <4> QED
        BY <4>2, <4>3 DEF Leads
    <3>2. CASE \A i \in 1 .. k - 1 : w[i] = v[i]
      <4>1. v[k] <= u[k] /\ \A i \in 1 .. k - 1 : u[i] = v[i]
        BY <3>2, <2>5
      <4>2. CASE u[k] = v[k]
        BY <4>1, <4>2, <3>0 DEF Leads
      <4>3. CASE u[k] # v[k]
        <5>1. u[k] > v[k] /\ k \in 1 .. k
          BY <4>1, <4>3, <3>0
        <5> QED
          BY <4>1, <5>1 DEF Leads
      <4> QED
        BY <4>2, <4>3
    <3> QED
      BY <2>1, <3>1, <3>2 DEF Leads
  <2> QED
    BY <2>5, <2>6
<1>3. PICK w \in W : \A v \in W : Leads(w, v, K)
  <2> HIDE DEF P
  <2>1. 0 .. K \subseteq P
    BY <1>1, <1>2, Climb
  <2>2. K \in P
    BY <2>1
  <2> QED
    BY <2>2 DEF P
<1>4. ASSUME NEW v \in W, v # w
      PROVE  \E i \in DOMAIN w : w[i] > v[i] /\ \A j \in 1 .. i - 1 : w[j] = v[j]
  <2>1. w \in [1 .. K -> 0 .. L] /\ v \in [1 .. K -> 0 .. L]
    OBVIOUS
  <2>2. ~(\A i \in 1 .. K : w[i] = v[i])
    BY <2>1, <1>4
  <2> QED
    BY <2>1, <2>2, <1>3 DEF Leads
<1> QED
  BY <1>4 DEF Greediest

(* Greediest picks one of the ways to match.                               *)
LEMMA BoundaryWays ==
    ASSUME NEW tokens \in Seq(PathToken), NEW s \in Seq(PathToken), NEW W, W \subseteq Ways(tokens, s),
           W # {}
    PROVE  Greediest(W) \in W
<1> DEFINE L == Len(s)
           K == Len(tokens) + 1
<1>1. L \in Nat /\ K \in Nat
  OBVIOUS
<1>2. ASSUME NEW w \in W PROVE w \in [1 .. K -> 0 .. L]
  <2>1. Walk(w, tokens, s, Len(tokens))
    BY WaysWalk
  <2>2. PICK E : E = 0 .. L
    OBVIOUS
  <2>3. w \in Seq(E) /\ Len(w) = K
    BY <2>1, <2>2 DEF Walk
  <2> HIDE DEF K
  <2>4. w \in [1 .. K -> E]
    BY <2>3
  <2> QED
    BY <2>2, <2>4
<1> HIDE DEF L, K
<1> QED
  BY <1>1, <1>2, GreediestIn

(* matchPath matches, or throws, when there is a way to match that ends    *)
(* where it may; its parameters are the values of such a way, the last of  *)
(* a name.                                                                 *)
LEMMA MatchPath ==
    ASSUME NEW pattern \in Seq(PathToken), NEW path \in Seq(PathToken), NEW prefix
    PROVE  LET match == matchPath(pattern, path, prefix)
               tokens == Stripped(pattern)
               s == Stripped(path)
           IN  /\ match.is \in {"none", "throws", "match"}
               /\ match.is # "none" <=>
                     \E w \in Ways(tokens, s) : AtBoundary(s, Last(w), prefix)
               /\ match.is = "match" =>
                     \E w \in Ways(tokens, s) :
                        /\ AtBoundary(s, Last(w), prefix)
                        /\ \A i \in Places(tokens) : IsLast(tokens, i) =>
                              /\ tokens[i] \in DOMAIN match.params
                              /\ match.params[tokens[i]] = SubSeq(s, w[i] + 1, w[i + 1])
<1> DEFINE match == matchPath(pattern, path, prefix)
           tokens == Stripped(pattern)
           s == Stripped(path)
           W == {w \in Ways(tokens, s) : AtBoundary(s, Last(w), prefix)}
           way == Greediest(W)
           Piece(i) == SubSeq(s, way[i] + 1, way[i + 1])
           names == Places(tokens)
           Place(p) == CHOOSE i \in names : tokens[i] = p /\ IsLast(tokens, i)
           ps == [p \in {tokens[i] : i \in names} |-> Piece(Place(p))]
<1>1. match = IF W = {} THEN [is |-> "none"]
              ELSE IF \E i \in names : "%" \in Range(Piece(i)) THEN [is |-> "throws"]
              ELSE [is |-> "match", params |-> ps]
  BY DEF matchPath
<1>2. tokens \in Seq(PathToken) /\ s \in Seq(PathToken)
  BY StrippedType
<1> HIDE DEF match, tokens, s
<1>3. W # {} => way \in W
  <2>1. W \subseteq Ways(tokens, s)
    OBVIOUS
  <2> HIDE DEF W
  <2> QED
    BY <2>1, <1>2, BoundaryWays
<1>4. ASSUME NEW i \in names, IsLast(tokens, i)
      PROVE  tokens[i] \in DOMAIN ps /\ ps[tokens[i]] = Piece(i)
  <2>0. names \subseteq Nat
    BY <1>2 DEF Places
  <2>1. \A j \in names : tokens[j] = tokens[i] /\ IsLast(tokens, j) => j = i
    <3> SUFFICES ASSUME NEW j \in names, tokens[j] = tokens[i], IsLast(tokens, j) PROVE j = i
      OBVIOUS
    <3>1. i <= j /\ j <= i
      BY <1>4 DEF IsLast
    <3> QED
      BY <2>0, <3>1
  <2>2. Place(tokens[i]) = i
    <3> HIDE DEF names
    <3> QED
      BY <1>4, <2>1
  <2> HIDE DEF Piece, Place, names
  <2> QED
    BY <2>2
<1>5. CASE W = {}
  <2>1. match.is = "none"
    BY <1>1, <1>5
  <2>2. ~ \E w \in Ways(tokens, s) : AtBoundary(s, Last(w), prefix)
    BY <1>5
  <2> HIDE DEF W, ps, Piece, way, names
  <2> QED
    BY <2>1, <2>2 DEF match, tokens, s
<1>6. CASE W # {}
  <2>1. way \in Ways(tokens, s) /\ AtBoundary(s, Last(way), prefix)
    BY <1>3, <1>6
  <2>2. match.is = "throws" \/ (match.is = "match" /\ match.params = ps)
    <3> HIDE DEF W, ps, Piece, names
    <3> QED
      BY <1>1, <1>6
  <2> HIDE DEF W, ps, way
  <2>3. CASE match.is = "throws"
    <3> HIDE DEF Piece, names
    <3> QED
      BY <2>1, <2>3 DEF match, tokens, s
  <2>4. CASE match.is = "match" /\ match.params = ps
    <3>1. \A i \in Places(tokens) : IsLast(tokens, i) =>
             /\ tokens[i] \in DOMAIN match.params
             /\ match.params[tokens[i]] = SubSeq(s, way[i] + 1, way[i + 1])
      BY <1>4, <2>4
    <3> HIDE DEF Piece, names
    <3> QED
      BY <2>1, <2>4, <3>1 DEF match, tokens, s
  <2> QED
    BY <2>2, <2>3, <2>4
<1> QED
  BY <1>5, <1>6

-----------------------------------------------------------------------------
(* The routes that serve a request.                                        *)

(* Tokens begin a path when a way to match ends before a slash.            *)
LEMMA BeginsWay ==
    ASSUME NEW tokens \in Seq(PathToken), NEW s \in Seq(PathToken)
    PROVE  Begins(tokens, s) <=> \E w \in Ways(tokens, s) : AtBoundary(s, Last(w), TRUE)
<1>1. ASSUME NEW n \in 0 .. Len(s)
      PROVE  Means(tokens, SubSeq(s, 1, n)) <=> \E w \in Ways(tokens, s) : Last(w) = n
  BY MeansWay
<1>2. \A w \in Ways(tokens, s) : Last(w) \in 0 .. Len(s)
  BY ValuesOfWay
<1> QED
  BY <1>1, <1>2 DEF Begins, AtBoundary

(* Tokens mean a path when a way to match ends at its end.                 *)
LEMMA MeansWhole ==
    ASSUME NEW tokens \in Seq(PathToken), NEW s \in Seq(PathToken)
    PROVE  Means(tokens, s) <=> \E w \in Ways(tokens, s) : AtBoundary(s, Last(w), FALSE)
<1>1. Len(s) \in 0 .. Len(s) /\ SubSeq(s, 1, Len(s)) = s
  BY WholeSub
<1>2. Means(tokens, SubSeq(s, 1, Len(s))) <=> \E w \in Ways(tokens, s) : Last(w) = Len(s)
  BY <1>1, MeansWay
<1> QED
  BY <1>1, <1>2 DEF AtBoundary

(* The routes that serve the request.                                      *)
Serving == {r \in Route : Serves(r)}

(* The patterns and the path are texts, stripped or not.                   *)
LEMMA RouteTypes ==
    ASSUME NEW r \in Route, request.path \in Seq(Character)
    PROVE  /\ r.pattern \in Seq(PathToken) /\ request.path \in Seq(PathToken)
           /\ Stripped(r.pattern) \in Seq(PathToken) /\ Stripped(request.path) \in Seq(PathToken)
           /\ r.role \in {"endpoint", "middleware"}
<1>1. r.pattern \in Seq(PathToken) /\ r.role \in {"endpoint", "middleware"}
  BY RouterAssumption DEF PathToken
<1>2. request.path \in Seq(PathToken)
  BY DEF PathToken
<1> QED
  BY <1>1, <1>2, StrippedType

(* A route serves the request exactly when matching it does not come to    *)
(* nothing, with its method and its path.                                  *)
LEMMA Matching ==
    ASSUME NEW r \in Route, request.path \in Seq(Character)
    PROVE  /\ matchRoute(r).is \in {"none", "throws", "match"}
           /\ matchRoute(r).is # "none" <=> Serves(r)
<1> DEFINE match == matchPath(r.pattern, request.path, r.role = "middleware")
           tokens == Stripped(r.pattern)
           s == Stripped(request.path)
<1>1. /\ tokens \in Seq(PathToken) /\ s \in Seq(PathToken) /\ r.role \in {"endpoint", "middleware"}
      /\ r.pattern \in Seq(PathToken) /\ request.path \in Seq(PathToken)
  BY RouteTypes
<1>2. /\ match.is \in {"none", "throws", "match"}
      /\ match.is # "none" <=>
            \E w \in Ways(tokens, s) : AtBoundary(s, Last(w), r.role = "middleware")
  BY <1>1, MatchPath
<1>3. CASE r.method \in {"*", request.method}
  <2>1. matchRoute(r) = match
    BY <1>3 DEF matchRoute
  <2> HIDE DEF match, tokens, s
  <2>2. CASE r.role = "endpoint"
    <3>1. (r.role = "middleware") = FALSE
      BY <2>2
    <3>2. Serves(r) <=> Means(tokens, s)
      BY <1>3, <2>2 DEF Serves, tokens, s
    <3>3. Means(tokens, s) <=> \E w \in Ways(tokens, s) : AtBoundary(s, Last(w), FALSE)
      BY <1>1, MeansWhole
    <3> QED
      BY <1>2, <2>1, <3>1, <3>2, <3>3
  <2>3. CASE r.role = "middleware"
    <3>1. (r.role = "middleware") = TRUE
      BY <2>3
    <3>2. Serves(r) <=> Begins(tokens, s)
      BY <1>3, <2>3 DEF Serves, tokens, s
    <3>3. Begins(tokens, s) <=> \E w \in Ways(tokens, s) : AtBoundary(s, Last(w), TRUE)
      BY <1>1, BeginsWay
    <3> QED
      BY <1>2, <2>1, <3>1, <3>2, <3>3
  <2> QED
    BY <1>1, <2>2, <2>3
<1>4. CASE r.method \notin {"*", request.method}
  BY <1>4 DEF matchRoute, Serves
<1> QED
  BY <1>3, <1>4

(* The values of some way to make the path out of the pattern are in ps.   *)
ParamsOf(r, ps) ==
    LET tokens == Stripped(r.pattern)
    IN  \E v \in Values(tokens, Stripped(request.path)) :
            \A i \in Places(tokens) : IsLast(tokens, i) => ps[tokens[i]] = v[i]

(* An endpoint that matches leaves such parameters, whatever was there     *)
(* before.                                                                 *)
LEMMA MatchedParams ==
    ASSUME NEW r \in Endpoints, request.path \in Seq(Character),
           matchRoute(r).is = "match", NEW old
    PROVE  ParamsOf(r, Assigned(old, matchRoute(r).params))
<1> DEFINE match == matchPath(r.pattern, request.path, r.role = "middleware")
           tokens == Stripped(r.pattern)
           s == Stripped(request.path)
           ps == Assigned(old, match.params)
<1>1. /\ r \in Route /\ r.role = "endpoint"
      /\ tokens \in Seq(PathToken) /\ s \in Seq(PathToken)
      /\ r.pattern \in Seq(PathToken) /\ request.path \in Seq(PathToken)
  BY RouteTypes DEF Endpoints
<1>2. matchRoute(r) = match /\ match.is = "match"
  BY DEF matchRoute
<1>3. PICK w \in Ways(tokens, s) :
         /\ AtBoundary(s, Last(w), r.role = "middleware")
         /\ \A i \in Places(tokens) : IsLast(tokens, i) =>
               /\ tokens[i] \in DOMAIN match.params
               /\ match.params[tokens[i]] = SubSeq(s, w[i] + 1, w[i + 1])
  <2>1. match.is = "match" =>
           \E w \in Ways(tokens, s) :
              /\ AtBoundary(s, Last(w), r.role = "middleware")
              /\ \A i \in Places(tokens) : IsLast(tokens, i) =>
                    /\ tokens[i] \in DOMAIN match.params
                    /\ match.params[tokens[i]] = SubSeq(s, w[i] + 1, w[i + 1])
    BY <1>1, MatchPath
  <2> HIDE DEF match, tokens, s
  <2> QED
    BY <2>1, <1>2
<1> HIDE DEF match, tokens, s
<1>4. Last(w) = Len(s)
  BY <1>1, <1>3 DEF AtBoundary
<1>5. ValuesOf(w, tokens, s) \in Values(tokens, SubSeq(s, 1, Last(w)))
  BY <1>1, <1>3, ValuesOfWay
<1>6. SubSeq(s, 1, Last(w)) = s
  BY <1>1, <1>4, WholeSub
<1>7. ASSUME NEW i \in Places(tokens), IsLast(tokens, i)
      PROVE  ps[tokens[i]] = ValuesOf(w, tokens, s)[i]
  BY <1>3, <1>7 DEF Assigned, ValuesOf
<1>8. ValuesOf(w, tokens, s) \in Values(tokens, s)
  BY <1>5, <1>6
<1> QED
  BY <1>2, <1>7, <1>8 DEF ParamsOf, tokens, s

-----------------------------------------------------------------------------
(* A request on its way.                                                   *)

(* The texts and the routes of a state.                                    *)
RouterTypes ==
    /\ request.path \in Seq(Character)
    /\ routers \in Seq(Seq(Route))
    /\ todo \in Seq(Route) /\ executedRoutes \in Seq(Route)

(* What is still to run of the routes that serve the request follows what  *)
(* has run: together they are what is to be served.  The last of todo is   *)
(* the endpoint, and it matched.                                           *)
Progress ==
    /\ routing \in {"none", "routing"} => executedRoutes = <<>>
    /\ routing \in {"running", "done"} =>
          Joined(executedRoutes, Only(todo, Serving)) = Served
    /\ routing = "running" /\ todo # <<>> =>
          Last(todo) \in Endpoints /\ matchRoute(Last(todo)).is = "match"
    /\ routing \in {"running", "done"} /\ todo = <<>> =>
          ParamsOf(Last(executedRoutes), params)
    /\ routing = "done" => todo = <<>>
    /\ routing = "next" => Served = <<>>
    /\ routing = "thrown" => IsPrefix(executedRoutes, Served)

(* A sequence is a beginning of what it is joined with.                    *)
LEMMA JoinedPrefix ==
    ASSUME NEW D, NEW s \in Seq(D), NEW t \in Seq(D)
    PROVE  IsPrefix(s, Joined(s, t))
<1>1. Len(s \o t) = Len(s) + Len(t) /\ Len(s) \in Nat /\ Len(t) \in Nat
  OBVIOUS
<1>2. SubSeq(s, 1, Len(s)) = SubSeq(s \o t, 1, Len(s))
  <2> DEFINE u == s \o t
             v == SubSeq(u, 1, Len(s))
  <2>1. u \in Seq(D) /\ Len(u) = Len(s) + Len(t) /\ \A i \in 1 .. Len(s) : u[i] = s[i]
    BY ConcatFacts
  <2> HIDE DEF u
  <2>2. v \in Seq(D) /\ Len(v) = Len(s) /\ \A i \in 1 .. Len(s) : v[i] = u[i]
    BY <1>1, <2>1
  <2>3. SubSeq(s, 1, Len(s)) = s
    <3> DEFINE w == SubSeq(s, 1, Len(s))
    <3>1. w \in Seq(D) /\ Len(w) = Len(s) /\ \A i \in 1 .. Len(s) : w[i] = s[i]
      BY <1>1
    <3> HIDE DEF w
    <3>2. w = s
      BY <3>1, SameSequence
    <3> QED
      BY <3>2 DEF w
  <2> HIDE DEF v
  <2>4. v = s
    BY <2>1, <2>2, SameSequence
  <2> QED
    BY <2>3, <2>4 DEF u, v
<1> QED
  BY <1>1, <1>2 DEF IsPrefix, Joined

(* The first element of a part moves to the end of the part before.        *)
LEMMA JoinedAppend ==
    ASSUME NEW D, NEW s \in Seq(D), NEW t \in Seq(D), NEW e \in D
    PROVE  Joined(s, Joined(<<e>>, t)) = Joined(Append(s, e), t)
<1> DEFINE a == <<e>> \o t
           b == Append(s, e)
           u == s \o a
           v == b \o t
<1>1. /\ a \in Seq(D) /\ Len(a) = 1 + Len(t) /\ a[1] = e
      /\ \A i \in 1 .. Len(t) : a[1 + i] = t[i]
  OBVIOUS
<1>2. b \in Seq(D) /\ Len(b) = Len(s) + 1 /\ b[Len(s) + 1] = e
      /\ \A i \in 1 .. Len(s) : b[i] = s[i]
  BY AppendFacts
<1>3. Joined(s, Joined(<<e>>, t)) = u /\ Joined(b, t) = v
  BY DEF Joined
<1> HIDE DEF a, b
<1>4. /\ u \in Seq(D) /\ Len(u) = Len(s) + Len(a)
      /\ \A i \in 1 .. Len(s) : u[i] = s[i]
      /\ \A i \in 1 .. Len(a) : u[Len(s) + i] = a[i]
  <2>1. s \in Seq(D) /\ a \in Seq(D)
    BY <1>1
  <2> QED
    BY <2>1, ConcatFacts
<1>5. /\ v \in Seq(D) /\ Len(v) = Len(b) + Len(t)
      /\ \A i \in 1 .. Len(b) : v[i] = b[i]
      /\ \A i \in 1 .. Len(t) : v[Len(b) + i] = t[i]
  <2>1. b \in Seq(D) /\ t \in Seq(D)
    BY <1>2
  <2> QED
    BY <2>1, ConcatFacts
<1> HIDE DEF u, v
<1>6. Len(s) \in Nat /\ Len(t) \in Nat
  OBVIOUS
<1>7. ASSUME NEW i \in 1 .. Len(u) PROVE u[i] = v[i]
  <2>1. CASE i \in 1 .. Len(s)
    BY <2>1, <1>2, <1>4, <1>5, <1>6
  <2>2. CASE i = Len(s) + 1
    BY <2>2, <1>1, <1>2, <1>4, <1>5, <1>6
  <2>3. CASE i \notin 1 .. Len(s) + 1
    <3>1. PICK k \in 1 .. Len(t) : i = Len(s) + 1 + k
      <4>1. i - (Len(s) + 1) \in 1 .. Len(t)
        BY <2>3, <1>1, <1>4, <1>6
      <4>2. i = Len(s) + 1 + (i - (Len(s) + 1))
        BY <1>6
      <4> QED
        BY <4>1, <4>2
    <3>2. u[i] = a[1 + k]
      <4>1. 1 + k \in 1 .. Len(a) /\ i = Len(s) + (1 + k)
        BY <3>1, <1>1, <1>6
      <4> QED
        BY <4>1, <1>4
    <3>3. v[i] = t[k]
      BY <3>1, <1>2, <1>5
    <3> QED
      BY <3>2, <3>3, <1>1
  <2> QED
    BY <2>1, <2>2, <2>3, <1>6
<1>8. u = v
  BY <1>1, <1>2, <1>4, <1>5, <1>6, <1>7, SameSequence
<1> QED
  BY <1>3, <1>8 DEF b

(* The last element after an Append.                                       *)
LEMMA AppendLast ==
    ASSUME NEW D, NEW s \in Seq(D), NEW e \in D
    PROVE  Append(s, e) \in Seq(D) /\ Append(s, e) # <<>> /\ Last(Append(s, e)) = e
BY DEF Last

(* The last element stays the last without the first one.                  *)
LEMMA TailLast ==
    ASSUME NEW D, NEW s \in Seq(D), s # <<>>
    PROVE  /\ Head(s) \in D /\ Tail(s) \in Seq(D)
           /\ Tail(s) # <<>> => Last(Tail(s)) = Last(s)
           /\ Tail(s) = <<>> => Head(s) = Last(s)
<1> DEFINE t == Tail(s)
<1>1. /\ Len(s) \in Nat \ {0} /\ Head(s) = s[1] /\ s[1] \in D
      /\ t \in Seq(D) /\ Len(t) = Len(s) - 1
      /\ \A i \in 1 .. Len(s) - 1 : t[i] = s[i + 1]
  OBVIOUS
<1> HIDE DEF t
<1>2. t = <<>> => Len(t) = 0
  OBVIOUS
<1>3. t # <<>> => Len(t) # 0
  BY <1>1
<1>4. t # <<>> => Last(t) = Last(s)
  <2> SUFFICES ASSUME t # <<>> PROVE Last(t) = Last(s)
    OBVIOUS
  <2>1. Len(s) - 1 \in 1 .. Len(s) - 1 /\ (Len(s) - 1) + 1 = Len(s)
    BY <1>1, <1>3
  <2> QED
    BY <1>1, <2>1 DEF Last
<1>5. t = <<>> => Head(s) = Last(s)
  BY <1>1, <1>2 DEF Last
<1> QED
  BY <1>1, <1>4, <1>5 DEF t

(* The first of a sequence that is in S, when there is one.                *)
LEMMA FirstOfIn ==
    ASSUME NEW D, NEW s \in Seq(D), NEW S, Range(s) \cap S # {}
    PROVE  FirstOf(s, S) \in D \cap S
<1> DEFINE T == {i \in DOMAIN s : s[i] \in S}
           First(i) == s[i] \in S /\ \A j \in 1 .. i - 1 : s[j] \notin S
<1>1. T \subseteq Nat /\ T # {}
  BY DEF Range
<1>2. PICK i \in T : \A j \in T : i <= j
  <2> HIDE DEF T
  <2> QED
    BY <1>1, Least
<1>3. i \in DOMAIN s /\ First(i)
  BY <1>2
<1>4. (CHOOSE k \in DOMAIN s : First(k)) \in DOMAIN s /\ First(CHOOSE k \in DOMAIN s : First(k))
  <2> HIDE DEF First
  <2> QED
    BY <1>3
<1> QED
  BY <1>4 DEF FirstOf

(* Before there is a request.                                              *)
LEMMA RouterInitHolds == RouterInit => RouterTypes /\ Progress
<1>1. RouterInit => RouterTypes
  <2> SUFFICES ASSUME RouterInit PROVE RouterTypes
    OBVIOUS
  <2>1. request.path = <<>> /\ routers = <<>> /\ todo = <<>> /\ executedRoutes = <<>>
    BY DEF RouterInit, NoRequest
  <2>2. <<>> \in Seq(Character) /\ <<>> \in Seq(Seq(Route)) /\ <<>> \in Seq(Route)
    OBVIOUS
  <2> QED
    BY <2>1, <2>2 DEF RouterTypes
<1>2. RouterInit => Progress
  BY DEF RouterInit, Progress
<1> QED
  BY <1>1, <1>2

(* What does not change while the routers and the request stay.            *)
LEMMA SameRequest ==
    ASSUME UNCHANGED <<routers, request>>
    PROVE  /\ Served' = Served /\ Serving' = Serving
           /\ \A r : matchRoute(r)' = matchRoute(r)
           /\ \A r, ps : ParamsOf(r, ps)' = ParamsOf(r, ps)
BY DEF Served, Serving, Serves, matchRoute, ParamsOf

(* A request comes.                                                        *)
LEMMA RequestedStep ==
    ASSUME RouterTypes, Progress, Requested
    PROVE  (RouterTypes /\ Progress)'
<1>1. PICK rs \in SeqOf(Route, MaxRoutes), n \in 0 .. MaxRoutes :
         n <= Len(rs) /\ routers' = <<SubSeq(rs, 1, n), SubSeq(rs, n + 1, Len(rs))>>
  BY DEF Requested
<1>2. rs \in Seq(Route)
  BY RouterAssumption DEF SeqOf
<1>3. SubSeq(rs, 1, n) \in Seq(Route) /\ SubSeq(rs, n + 1, Len(rs)) \in Seq(Route)
  BY <1>1, <1>2, RouterAssumption
<1>4. routers' \in Seq(Seq(Route))
  BY <1>1, <1>3
<1>5. PICK s \in SeqOf(Character, MaxPath - 1) : request'.path = <<"/">> \o s
  BY DEF Requested
<1>6. s \in Seq(Character)
  BY RouterAssumption DEF SeqOf
<1>7. request'.path \in Seq(Character)
  BY <1>5, <1>6, RouterAssumption
<1> QED
  BY <1>4, <1>7 DEF Requested, RouterTypes, Progress

(* The first router with an endpoint is the one that Served names, its     *)
(* middlewares and endpoint are to run.                                    *)
LEMMA HandleRouterStep ==
    ASSUME RouterTypes, Progress, handleRouter
    PROVE  (RouterTypes /\ Progress)'
<1> DEFINE able == {n \in DOMAIN routers : Range(routers[n]) \cap Candidates # {}}
<1>1. /\ routing = "routing" /\ executedRoutes = <<>>
      /\ UNCHANGED <<routers, request, params, executedRoutes>>
  BY DEF handleRouter, Progress
<1>2. Candidates = Endpoints \cap Serving
  BY Matching DEF Candidates, Endpoints, Serving, RouterTypes
<1>3. Served = IF able = {} THEN <<>>
               ELSE LET router == routers[CHOOSE n \in able : \A m \in able : n <= m]
                    IN  Append(Only(router, Middlewares \cap Serving), FirstOf(router, Candidates))
  BY <1>2 DEF Served, Serving
<1>4. CASE able = {}
  <2>1. routing' = "next" /\ UNCHANGED todo
    BY <1>4 DEF handleRouter
  <2> QED
    BY <1>1, <1>3, <1>4, <2>1, SameRequest DEF RouterTypes, Progress
<1>5. CASE able # {}
  <2>1. PICK n \in able :
           /\ \A m \in able : n <= m
           /\ IF matchRoute(matchEndpoint(routers[n])).is = "throws"
              THEN routing' = "thrown" /\ UNCHANGED todo
              ELSE /\ routing' = "running"
                   /\ todo' = Append(Only(routers[n], Middlewares), matchEndpoint(routers[n]))
    BY <1>5 DEF handleRouter
  <2>2. able \subseteq Nat /\ n \in DOMAIN routers /\ routers[n] \in Seq(Route)
    BY DEF RouterTypes
  <2>3. n = CHOOSE k \in able : \A m \in able : k <= m
    <3> HIDE DEF able
    <3>1. \A k \in able : (\A m \in able : k <= m) => k = n
      BY <2>1, <2>2
    <3> QED
      BY <2>1, <3>1
  <2> DEFINE router == routers[n]
             endpoint == FirstOf(router, Candidates)
  <2>4. Served = Append(Only(router, Middlewares \cap Serving), endpoint)
    <3> HIDE DEF able
    <3> QED
      BY <1>3, <1>5, <2>3
  <2>5. Range(router) \cap Candidates # {}
    OBVIOUS
  <2>6. endpoint \in Route \cap Candidates
    BY <2>2, <2>5, FirstOfIn
  <2>7. endpoint \in Endpoints /\ endpoint \in Serving /\ matchRoute(endpoint).is \in {"throws", "match"}
    <3> HIDE DEF endpoint
    <3>1. endpoint \in Route /\ endpoint \in Endpoints /\ endpoint \in Serving
      BY <2>6, <1>2
    <3>2. matchRoute(endpoint).is \in {"none", "throws", "match"} /\ matchRoute(endpoint).is # "none"
      BY <3>1, Matching DEF RouterTypes, Serving
    <3> QED
      BY <3>1, <3>2
  <2>8. Only(router, Middlewares) \in Seq(Route) /\ Only(router, Middlewares \cap Serving) \in Seq(Route)
    BY <2>2, OnlyType
  <2> HIDE DEF able, router, endpoint
  <2>9. CASE matchRoute(endpoint).is = "throws"
    <3>1. routing' = "thrown" /\ UNCHANGED todo
      BY <2>1, <2>9 DEF matchEndpoint, router, endpoint
    <3>2. Served \in Seq(Route)
      BY <2>4, <2>6, <2>8
    <3>3. IsPrefix(<<>>, Served)
      BY <3>2 DEF IsPrefix
    <3> QED
      BY <1>1, <3>1, <3>3, SameRequest DEF RouterTypes, Progress
  <2>10. CASE matchRoute(endpoint).is # "throws"
    <3>1. routing' = "running" /\ todo' = Append(Only(router, Middlewares), endpoint)
      BY <2>1, <2>10 DEF matchEndpoint, router, endpoint
    <3>2. todo' \in Seq(Route) /\ todo' # <<>> /\ Last(todo') = endpoint
      BY <3>1, <2>6, <2>8, AppendLast
    <3>3. Only(todo', Serving) = AppendIf(Only(Only(router, Middlewares), Serving), endpoint, Serving)
      BY <3>1, <2>6, <2>8, OnlyAppend
    <3>4. Only(Only(router, Middlewares), Serving) = Only(router, Middlewares \cap Serving)
      BY <2>2, OnlyOnly DEF router
    <3>5. Only(todo', Serving) = Served
      BY <3>3, <3>4, <2>4, <2>7 DEF AppendIf
    <3>6. Served \in Seq(Route)
      BY <2>4, <2>6, <2>8
    <3>7. Joined(<<>>, Served) = Served
      BY <3>6, JoinedEmpty
    <3> QED
      BY <1>1, <2>7, <2>10, <3>1, <3>2, <3>5, <3>7, SameRequest DEF RouterTypes, Progress
  <2> QED
    BY <2>9, <2>10
<1> QED
  BY <1>4, <1>5

(* The next route of a running request.                                    *)
LEMMA NextRoute ==
    ASSUME RouterTypes, Progress, routing = "running", todo # <<>>
    PROVE  /\ Head(todo) \in Route /\ Tail(todo) \in Seq(Route)
           /\ Only(Tail(todo), Serving) \in Seq(Route)
           /\ matchRoute(Head(todo)).is \in {"none", "throws", "match"}
           /\ matchRoute(Head(todo)).is = "none" =>
                 Joined(executedRoutes, Only(Tail(todo), Serving)) = Served
           /\ matchRoute(Head(todo)).is # "none" =>
                 Joined(Append(executedRoutes, Head(todo)), Only(Tail(todo), Serving)) = Served
           /\ IsPrefix(executedRoutes, Served)
<1>1. /\ Head(todo) \in Route /\ Tail(todo) \in Seq(Route) /\ executedRoutes \in Seq(Route)
      /\ todo \in Seq(Route)
  BY TailLast DEF RouterTypes
<1> DEFINE head == Head(todo)
           rest == Only(Tail(todo), Serving)
<1>2. rest \in Seq(Route)
  BY <1>1, OnlyType
<1>3. Only(todo, Serving) = Joined(AppendIf(<<>>, head, Serving), rest)
  BY <1>1, OnlyTail
<1>4. /\ matchRoute(head).is \in {"none", "throws", "match"}
      /\ matchRoute(head).is # "none" <=> head \in Serving
  BY <1>1, Matching DEF RouterTypes, Serving
<1>5. Joined(executedRoutes, Only(todo, Serving)) = Served
  BY DEF Progress
<1> HIDE DEF head, rest
<1>6. CASE head \in Serving
  <2>1. AppendIf(<<>>, head, Serving) = <<head>>
    BY <1>6 DEF AppendIf
  <2>2. head \in Route
    BY <1>1 DEF head
  <2>3. Joined(executedRoutes, Joined(<<head>>, rest)) = Joined(Append(executedRoutes, head), rest)
    BY <1>1, <1>2, <2>2, JoinedAppend
  <2>4. Joined(Append(executedRoutes, head), rest) = Served
    BY <1>3, <1>5, <2>1, <2>3
  <2>5. Only(todo, Serving) \in Seq(Route)
    BY <1>1, OnlyType
  <2>6. IsPrefix(executedRoutes, Served)
    BY <1>1, <1>5, <2>5, JoinedPrefix
  <2> QED
    BY <1>1, <1>2, <1>4, <1>6, <2>4, <2>6 DEF head, rest
<1>7. CASE head \notin Serving
  <2>1. AppendIf(<<>>, head, Serving) = <<>>
    BY <1>7 DEF AppendIf
  <2>2. Joined(<<>>, rest) = rest
    BY <1>2, JoinedEmpty
  <2>3. Joined(executedRoutes, rest) = Served
    BY <1>3, <1>5, <2>1, <2>2
  <2>4. IsPrefix(executedRoutes, Served)
    BY <1>1, <1>2, <2>3, JoinedPrefix
  <2> QED
    BY <1>1, <1>2, <1>4, <1>7, <2>3, <2>4 DEF head, rest
<1> QED
  BY <1>6, <1>7

(* One route is done with: it ran, or did not serve the request.           *)
LEMMA HandleSingleRouteStep ==
    ASSUME RouterTypes, Progress, handleSingleRoute
    PROVE  (RouterTypes /\ Progress)'
<1>1. /\ routing = "running" /\ todo # <<>> /\ todo' = Tail(todo)
      /\ UNCHANGED <<routers, request>>
  BY DEF handleSingleRoute
<1> DEFINE head == Head(todo)
           match == matchRoute(head)
<1>2. /\ head \in Route /\ Tail(todo) \in Seq(Route)
      /\ match.is \in {"none", "throws", "match"}
      /\ match.is = "none" => Joined(executedRoutes, Only(Tail(todo), Serving)) = Served
      /\ match.is # "none" =>
             Joined(Append(executedRoutes, head), Only(Tail(todo), Serving)) = Served
      /\ IsPrefix(executedRoutes, Served)
  BY <1>1, NextRoute
<1>3. /\ Last(todo) \in Endpoints /\ matchRoute(Last(todo)).is = "match"
      /\ executedRoutes \in Seq(Route) /\ todo \in Seq(Route)
  BY <1>1 DEF Progress, RouterTypes
<1>4. /\ Tail(todo) # <<>> => Last(Tail(todo)) = Last(todo)
      /\ Tail(todo) = <<>> => head = Last(todo)
  BY <1>1, <1>3, TailLast
<1>5. CASE match.is = "match"
  <2>1. /\ params' = Assigned(params, match.params)
        /\ executedRoutes' = Append(executedRoutes, head) /\ routing' = routing
    BY <1>5 DEF handleSingleRoute
  <2>2. executedRoutes' \in Seq(Route) /\ Last(executedRoutes') = head
    BY <1>2, <1>3, <2>1, AppendLast
  <2>3. ASSUME Tail(todo) = <<>> PROVE ParamsOf(Last(executedRoutes'), params')
    <3>1. head \in Endpoints
      BY <1>3, <1>4, <2>3
    <3>2. ParamsOf(head, Assigned(params, match.params))
      BY <3>1, <1>5, MatchedParams DEF RouterTypes
    <3> QED
      BY <3>2, <2>1, <2>2
  <2> HIDE DEF head, match
  <2>4. RouterTypes'
    BY <1>1, <1>2, <2>2 DEF RouterTypes
  <2>5. Joined(executedRoutes', Only(todo', Serving)) = Served
    BY <1>1, <1>2, <1>5, <2>1
  <2>6. Progress'
    BY <1>1, <1>3, <1>4, <2>1, <2>3, <2>5, SameRequest DEF Progress
  <2> QED
    BY <2>4, <2>6
<1>6. CASE match.is = "none"
  <2>1. UNCHANGED <<params, executedRoutes, routing>>
    BY <1>6 DEF handleSingleRoute
  <2>2. Tail(todo) # <<>>
    BY <1>3, <1>4, <1>6
  <2> HIDE DEF head, match
  <2>3. RouterTypes'
    BY <1>1, <1>2, <2>1 DEF RouterTypes
  <2>4. Joined(executedRoutes', Only(todo', Serving)) = Served
    BY <1>1, <1>2, <1>6, <2>1
  <2>5. Progress'
    BY <1>1, <1>3, <1>4, <2>1, <2>2, <2>4, SameRequest DEF Progress
  <2> QED
    BY <2>3, <2>5
<1>7. CASE match.is = "throws"
  <2>1. routing' = "thrown" /\ UNCHANGED <<params, executedRoutes>>
    BY <1>7 DEF handleSingleRoute
  <2> HIDE DEF head, match
  <2>2. RouterTypes'
    BY <1>1, <1>2, <2>1 DEF RouterTypes
  <2>3. Progress'
    BY <1>1, <1>2, <2>1, SameRequest DEF Progress
  <2> QED
    BY <2>2, <2>3
<1> QED
  BY <1>2, <1>5, <1>6, <1>7

(* One throws: what ran is still a beginning of what is to be served.      *)
LEMMA RouteThrowsStep ==
    ASSUME RouterTypes, Progress, RouteThrows
    PROVE  (RouterTypes /\ Progress)'
<1>1. /\ routing = "running" /\ todo # <<>> /\ matchRoute(Head(todo)).is = "match"
      /\ executedRoutes' \in {executedRoutes, Append(executedRoutes, Head(todo))}
      /\ routing' = "thrown"
      /\ UNCHANGED <<routers, request, todo>>
  BY DEF RouteThrows
<1>2. /\ Head(todo) \in Route /\ Only(Tail(todo), Serving) \in Seq(Route)
      /\ Joined(Append(executedRoutes, Head(todo)), Only(Tail(todo), Serving)) = Served
      /\ IsPrefix(executedRoutes, Served)
  BY <1>1, NextRoute
<1>3. executedRoutes \in Seq(Route)
  BY DEF RouterTypes
<1>4. Append(executedRoutes, Head(todo)) \in Seq(Route)
  BY <1>2, <1>3, AppendLast
<1>5. IsPrefix(Append(executedRoutes, Head(todo)), Served)
  BY <1>2, <1>4, JoinedPrefix
<1>6. executedRoutes' \in Seq(Route) /\ IsPrefix(executedRoutes', Served)
  BY <1>1, <1>2, <1>3, <1>4, <1>5
<1> QED
  BY <1>1, <1>6, SameRequest DEF RouterTypes, Progress

(* The two together are an inductive invariant of the routing.             *)
THEOREM RouterInvariance == RouterSpec => [](RouterTypes /\ Progress)
<1>1. ASSUME RouterTypes, Progress, [RouterNext]_routerVars
      PROVE  (RouterTypes /\ Progress)'
  <2>1. CASE Handled
    BY <1>1, <2>1, SameRequest DEF Handled, RouterTypes, Progress
  <2>2. CASE UNCHANGED routerVars
    BY <1>1, <2>2, SameRequest DEF routerVars, RouterTypes, Progress
  <2> QED
    BY <1>1, <2>1, <2>2, RequestedStep, HandleRouterStep, HandleSingleRouteStep,
       RouteThrowsStep DEF RouterNext
<1> QED
  BY RouterInitHolds, <1>1, PTL DEF RouterSpec

(* For any routes, routers and paths, no route runs but those that serve   *)
(* the request, in their order and none left out; the parameters of the    *)
(* endpoint, written into its pattern, give the path; and next() runs only *)
(* when nothing serves it.                                                 *)
THEOREM RoutesFound == RouterSpec => []RouteFound
<1>1. RouterTypes /\ Progress => RouteFound
  <2> SUFFICES ASSUME RouterTypes, Progress PROVE RouteFound
    OBVIOUS
  <2>1. Only(todo, Serving) \in Seq(Route) /\ executedRoutes \in Seq(Route)
    BY OnlyType DEF RouterTypes
  <2>2. routing \in {"running", "done"} => IsPrefix(executedRoutes, Served)
    BY <2>1, JoinedPrefix DEF Progress
  <2>3. routing = "done" => executedRoutes = Served
    BY <2>1, OnlyEmpty, JoinedEmpty DEF Progress
  <2> QED
    BY <2>2, <2>3 DEF Progress, RouteFound, ParamsOf
<1> QED
  BY <1>1, RouterInvariance, PTL
=============================================================================
