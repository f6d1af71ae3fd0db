---------------------------- MODULE DataTheorems ----------------------------
(***************************************************************************)
(* Facts about sets, functions and sequences that the proofs share: the    *)
(* maximum of a finite set of naturals, induction, recursively defined     *)
(* functions, appending.  The library states induction and recursion for   *)
(* operators; here the property is a set and the step a function, so that  *)
(* a proof can cite them.                                                  *)
(***************************************************************************)
EXTENDS Integers, Sequences, FiniteSets, FiniteSetsExt, FiniteSetTheorems, TLAPS

(* A set that has 0, and n + 1 with every n, has every natural: the least  *)
(* one it lacked would have a predecessor that it has.                     *)
LEMMA Induction ==
    ASSUME NEW S, 0 \in S, \A n \in Nat : n \in S => n + 1 \in S
    PROVE  \A n \in Nat : n \in S
<1> DEFINE T == Nat \ S
<1>1. SUFFICES ASSUME T # {} PROVE FALSE
  OBVIOUS
<1>2. T \subseteq Nat
  OBVIOUS
<1>3. PICK m \in T : \A n \in T : ~(<<n, m>> \in OpToRel(<, Nat))
  <2> HIDE DEF T
  <2> QED  BY <1>1, <1>2, NatLessThanWellFounded, WFMin
<1>4. m \in Nat \ {0}
  OBVIOUS
<1>5. m - 1 \in Nat /\ m - 1 < m
  BY <1>4
<1>6. m - 1 \in S
  BY <1>3, <1>4, <1>5 DEF OpToRel
<1> QED  BY <1>4, <1>5, <1>6

(* A function on the naturals that each step computes from its number and  *)
(* the value before it exists: every finite part of it does, and the parts *)
(* agree.                                                                  *)
Recursive(T, a, F) ==
    {f \in [Nat -> T] : f[0] = a /\ \A n \in Nat : f[n + 1] = F[n + 1][f[n]]}

LEMMA Recursion ==
    ASSUME NEW T, NEW a \in T, NEW F \in [Nat -> [T -> T]]
    PROVE  Recursive(T, a, F) # {}
<1> DEFINE Part(n) == {g \in [0 .. n -> T] : g[0] = a /\ \A i \in 1 .. n : g[i] = F[i][g[i - 1]]}
<1>1. \A n \in Nat : Part(n) # {}
  <2> DEFINE S == {n \in Nat : Part(n) # {}}
  <2>1. 0 \in S
    <3>1. [i \in 0 .. 0 |-> a] \in Part(0)
      OBVIOUS
    <3> QED  BY <3>1
  <2>2. ASSUME NEW n \in Nat, n \in S PROVE n + 1 \in S
    <3>1. PICK g \in Part(n) : TRUE
      BY <2>2
    <3> DEFINE h == [i \in 0 .. n + 1 |-> IF i = n + 1 THEN F[n + 1][g[n]] ELSE g[i]]
    <3>2. h \in [0 .. n + 1 -> T]
      BY <3>1
    <3>3. h[0] = a /\ \A i \in 1 .. n + 1 : h[i] = F[i][h[i - 1]]
      BY <3>1
    <3>4. h \in Part(n + 1)
      BY <3>2, <3>3
    <3> HIDE DEF h, Part
    <3> QED  BY <3>4
  <2> HIDE DEF S
  <2>3. \A n \in Nat : n \in S
    BY <2>1, <2>2, Induction
  <2> QED  BY <2>3 DEF S
<1>2. ASSUME NEW n \in Nat, NEW m \in Nat, NEW g \in Part(n), NEW h \in Part(m)
      PROVE  \A i \in Nat : i <= n /\ i <= m => g[i] = h[i]
  <2> DEFINE S == {i \in Nat : i <= n /\ i <= m => g[i] = h[i]}
  <2>1. 0 \in S
    OBVIOUS
  <2>2. ASSUME NEW i \in Nat, i \in S PROVE i + 1 \in S
    <3> SUFFICES ASSUME i + 1 <= n, i + 1 <= m PROVE g[i + 1] = h[i + 1]
      OBVIOUS
    <3>1. g[i] = h[i] /\ i + 1 \in 1 .. n /\ i + 1 \in 1 .. m /\ (i + 1) - 1 = i
      BY <2>2
    <3>2. g[i + 1] = F[i + 1][g[i]] /\ h[i + 1] = F[i + 1][h[i]]
      BY <3>1
    <3> QED  BY <3>1, <3>2
  <2> HIDE DEF S
  <2>3. \A i \in Nat : i \in S
    BY <2>1, <2>2, Induction
  <2> QED  BY <2>3 DEF S
<1> DEFINE part(n) == CHOOSE g \in Part(n) : TRUE
           f == [n \in Nat |-> part(n)[n]]
<1>3. \A n \in Nat : part(n) \in Part(n)
  BY <1>1
<1>4. \A n \in Nat : part(n)[n] \in T
  <2> HIDE DEF part
  <2>1. \A n \in Nat : part(n) \in [0 .. n -> T] /\ n \in 0 .. n
    BY <1>3
  <2> QED  BY <2>1
<1>5. \A n \in Nat : part(n)[n] = IF n = 0 THEN a ELSE F[n][part(n - 1)[n - 1]]
  <2> SUFFICES ASSUME NEW n \in Nat
               PROVE  part(n)[n] = IF n = 0 THEN a ELSE F[n][part(n - 1)[n - 1]]
    OBVIOUS
  <2>1. CASE n = 0
    BY <1>3, <2>1
  <2>2. CASE n # 0
    <3> HIDE DEF part
    <3>1. n - 1 \in Nat /\ n \in 1 .. n /\ n - 1 <= n
      BY <2>2
    <3>2. part(n) \in Part(n) /\ part(n - 1) \in Part(n - 1)
      BY <1>3, <3>1
    <3>3. part(n)[n] = F[n][part(n)[n - 1]]
      BY <3>1, <3>2
    <3>4. part(n)[n - 1] = part(n - 1)[n - 1]
      <4> HIDE DEF Part
      <4> QED  BY <3>1, <3>2, <1>2
    <3> QED  BY <2>2, <3>3, <3>4
  <2> QED  BY <2>1, <2>2
<1> HIDE DEF part
<1>6. f \in [Nat -> T] /\ \A n \in Nat : f[n] = part(n)[n]
  BY <1>4
<1> HIDE DEF f, Part
<1>7. \A n \in Nat : f[n] = IF n = 0 THEN a ELSE F[n][f[n - 1]]
  <2> SUFFICES ASSUME NEW n \in Nat PROVE f[n] = IF n = 0 THEN a ELSE F[n][f[n - 1]]
    OBVIOUS
  <2>1. n # 0 => n - 1 \in Nat
    OBVIOUS
  <2> QED  BY <1>5, <1>6, <2>1
<1>8. f[0] = a
  BY <1>7
<1>9. ASSUME NEW n \in Nat PROVE f[n + 1] = F[n + 1][f[n]]
  <2>1. n + 1 \in Nat /\ n + 1 # 0 /\ (n + 1) - 1 = n
    OBVIOUS
  <2> QED  BY <1>7, <2>1
<1> QED  BY <1>6, <1>8, <1>9 DEF Recursive

(* A finite, nonempty set of naturals has a greatest element: a least set  *)
(* without one would lose it by removing any element.                      *)
LEMMA GreatestExists ==
    ASSUME NEW S \in SUBSET Nat, IsFiniteSet(S), S # {}
    PROVE  \E x \in S : \A y \in S : x >= y
<1> DEFINE Top(U) == \E x \in U : \A y \in U : x >= y
           Bad == {U \in FiniteSubsetsOf(Nat) : U # {} /\ ~Top(U)}
<1>1. SUFFICES ASSUME Bad # {} PROVE FALSE
  BY DEF FiniteSubsetsOf
<1>2. PICK U \in Bad : \A V \in Bad : ~(<<V, U>> \in StrictSubsetOrdering(Nat))
  <2>1. Bad \subseteq FiniteSubsetsOf(Nat)
    OBVIOUS
  <2> QED  BY <1>1, <2>1, FS_StrictSubsetOrderingWellFounded, WFMin
<1>3. PICK x \in U : TRUE
  OBVIOUS
<1>4. U \in SUBSET Nat /\ IsFiniteSet(U)
  BY DEF FiniteSubsetsOf
<1>5. U \ {x} \in FiniteSubsetsOf(Nat)
  BY <1>4, FS_RemoveElement DEF FiniteSubsetsOf
<1>6. <<U \ {x}, U>> \in StrictSubsetOrdering(Nat)
  BY <1>4, <1>3 DEF StrictSubsetOrdering
<1>7. U \ {x} = {} \/ Top(U \ {x})
  BY <1>2, <1>5, <1>6
<1>8. Top(U)
  <2>1. CASE U \ {x} = {}
    BY <2>1, <1>4, <1>3
  <2>2. CASE Top(U \ {x})
    <3>1. PICK m \in U \ {x} : \A y \in U \ {x} : m >= y
      BY <2>2
    <3>2. CASE m >= x
      BY <3>1, <3>2, <1>4
    <3>3. CASE ~(m >= x)
      BY <3>1, <3>3, <1>4
    <3> QED  BY <3>2, <3>3
  <2> QED  BY <2>1, <2>2, <1>7
<1> QED  BY <1>8

LEMMA MaxOfNaturals ==
    ASSUME NEW S \in SUBSET Nat, IsFiniteSet(S), S # {}
    PROVE  /\ Max(S) \in S
           /\ \A y \in S : Max(S) >= y
BY GreatestExists DEF Max

LEMMA MinOfNaturals ==
    ASSUME NEW S \in SUBSET Nat, S # {}
    PROVE  Min(S) \in S /\ \A y \in S : Min(S) <= y
<1>1. PICK m \in S : \A n \in S : ~(<<n, m>> \in OpToRel(<, Nat))
  BY NatLessThanWellFounded, WFMin
<1>2. ASSUME NEW n \in S PROVE m <= n
  <2>1. n \in Nat /\ m \in Nat /\ ~(n < m)
    BY <1>1 DEF OpToRel
  <2> QED  BY <2>1
<1> QED  BY <1>2 DEF Min

(* The values a function takes on a finite set are finitely many.          *)
LEMMA FiniteRange ==
    ASSUME NEW S, IsFiniteSet(S), NEW f
    PROVE  IsFiniteSet({f[x] : x \in S})
<1> DEFINE g == [x \in S |-> f[x]]
           T == {f[x] : x \in S}
<1>1. g \in Surjection(S, T)
  BY DEF Surjection
<1> QED  BY <1>1, FS_Surjection

-----------------------------------------------------------------------------
(* Sequences.  A fact about one is stated for whatever its elements are.   *)

IsSeq(s) == \E X : s \in Seq(X)
NoRepeat(s) == \A i, j \in DOMAIN s : s[i] = s[j] => i = j

LEMMA SeqFacts ==
    ASSUME NEW s, IsSeq(s)
    PROVE  /\ Len(s) \in Nat /\ DOMAIN s = 1 .. Len(s)
           /\ s \in Seq(Range(s))
           /\ s = <<>> <=> Len(s) = 0
           /\ s = <<>> <=> Range(s) = {}
<1>1. PICK X : s \in Seq(X)
  BY DEF IsSeq
<1>2. Len(s) \in Nat /\ DOMAIN s = 1 .. Len(s) /\ (s = <<>> <=> Len(s) = 0)
  BY <1>1
<1>3. s \in Seq(Range(s))
  BY <1>1, <1>2 DEF Range
<1>4. s = <<>> <=> Range(s) = {}
  <2>1. Len(s) # 0 => 1 \in DOMAIN s
    BY <1>2
  <2>2. Len(s) = 0 => DOMAIN s = {}
    BY <1>2
  <2> QED  BY <1>2, <2>1, <2>2 DEF Range
<1> QED  BY <1>2, <1>3, <1>4

LEMMA AppendFacts ==
    ASSUME NEW s, IsSeq(s), NEW e, NEW t, t = Append(s, e)
    PROVE  /\ IsSeq(t) /\ t # <<>>
           /\ Len(t) = Len(s) + 1 /\ t[Len(s) + 1] = e /\ \A i \in DOMAIN s : t[i] = s[i]
           /\ DOMAIN t = DOMAIN s \cup {Len(s) + 1}
           /\ Range(t) = Range(s) \cup {e}
           /\ NoRepeat(s) /\ e \notin Range(s) => NoRepeat(t)
<1>1. PICK X : s \in Seq(X) /\ e \in X
  <2>1. PICK Y : s \in Seq(Y)
    BY DEF IsSeq
  <2>2. s \in Seq(Y \cup {e})
    BY <2>1
  <2> QED  BY <2>2
<1>2. t \in Seq(X) /\ Len(s) \in Nat /\ DOMAIN s = 1 .. Len(s)
  BY <1>1
<1>3. /\ Len(t) = Len(s) + 1 /\ t[Len(s) + 1] = e /\ \A i \in DOMAIN s : t[i] = s[i]
      /\ t # <<>> /\ DOMAIN t = 1 .. Len(s) + 1
  BY <1>1, <1>2
<1>4. DOMAIN t = DOMAIN s \cup {Len(s) + 1}
  BY <1>2, <1>3
<1>5. Range(t) = Range(s) \cup {e}
  BY <1>3, <1>4, SMTT(60) DEF Range
<1>6. NoRepeat(s) /\ e \notin Range(s) => NoRepeat(t)
  BY <1>3, <1>4 DEF NoRepeat, Range
<1> QED  BY <1>2, <1>3, <1>4, <1>5, <1>6 DEF IsSeq

LEMMA ConcatFacts ==
    ASSUME NEW s, IsSeq(s), NEW t, IsSeq(t)
    PROVE  IsSeq(s \o t) /\ Range(s \o t) = Range(s) \cup Range(t)
<1>1. PICK X : s \in Seq(X) /\ t \in Seq(X)
  <2>1. PICK Y, Z : s \in Seq(Y) /\ t \in Seq(Z)
    BY DEF IsSeq
  <2>2. s \in Seq(Y \cup Z) /\ t \in Seq(Y \cup Z)
    BY <2>1
  <2> QED  BY <2>2
<1>2. s \o t \in Seq(X) /\ Len(s) \in Nat /\ Len(t) \in Nat /\ DOMAIN s = 1 .. Len(s)
      /\ DOMAIN t = 1 .. Len(t) /\ DOMAIN (s \o t) = 1 .. Len(s) + Len(t)
  BY <1>1
<1>3. \A i \in DOMAIN (s \o t) : (s \o t)[i] = IF i <= Len(s) THEN s[i] ELSE t[i - Len(s)]
  BY <1>1
<1>4. Range(s \o t) \subseteq Range(s) \cup Range(t)
  BY <1>2, <1>3 DEF Range
<1>5. Range(s) \subseteq Range(s \o t)
  BY <1>2, <1>3 DEF Range
<1>6. ASSUME NEW j \in DOMAIN t PROVE t[j] \in Range(s \o t)
  <2>1. PICK i \in DOMAIN (s \o t) : i = j + Len(s) /\ i - Len(s) = j /\ ~(i <= Len(s))
    BY <1>2
  <2>2. (s \o t)[i] = t[j]
    BY <1>3, <2>1
  <2> QED  BY <2>2 DEF Range
<1>7. Range(t) \subseteq Range(s \o t)
  BY <1>6 DEF Range
<1> QED  BY <1>2, <1>4, <1>5, <1>7 DEF IsSeq

LEMMA SingleFacts ==
    ASSUME NEW e
    PROVE  IsSeq(<<e>>) /\ Range(<<e>>) = {e} /\ IsSeq(<<>>) /\ Range(<<>>) = {}
<1>1. <<e>> \in Seq({e}) /\ <<>> \in Seq({e})
  OBVIOUS
<1>2. IsSeq(<<e>>) /\ IsSeq(<<>>)
  BY <1>1 DEF IsSeq
<1>3. DOMAIN <<e>> = {1} /\ <<e>>[1] = e /\ DOMAIN <<>> = {}
  OBVIOUS
<1>4. Range(<<e>>) = {e}
  BY <1>3 DEF Range
<1>5. Range(<<>>) = {}
  BY <1>3 DEF Range
<1> QED  BY <1>2, <1>4, <1>5

LEMMA PairFacts ==
    ASSUME NEW s, IsSeq(s), NEW g, NEW h, NEW t, t = s \o <<g, h>>
    PROVE  /\ IsSeq(t) /\ Len(t) = Len(s) + 2 /\ t[Len(s) + 1] = g /\ t[Len(s) + 2] = h
           /\ \A i \in 1 .. Len(s) : t[i] = s[i]
<1>1. PICK X : s \in Seq(X) /\ <<g, h>> \in Seq(X)
  <2>1. PICK Y : s \in Seq(Y)
    BY DEF IsSeq
  <2>2. s \in Seq(Y \cup {g, h}) /\ <<g, h>> \in Seq(Y \cup {g, h})
    BY <2>1
  <2> QED  BY <2>2
<1>2. PICK p : p = <<g, h>>
  OBVIOUS
<1>3. p \in Seq(X) /\ Len(p) = 2 /\ p[1] = g /\ p[2] = h
  BY <1>1, <1>2
<1>4. t \in Seq(X) /\ Len(s) \in Nat /\ DOMAIN t = 1 .. Len(s) + Len(p) /\ Len(t) = Len(s) + Len(p)
  BY <1>1, <1>2, <1>3
<1>5. \A i \in 1 .. Len(s) + Len(p) : t[i] = IF i <= Len(s) THEN s[i] ELSE p[i - Len(s)]
  BY <1>1, <1>2, <1>3
<1>6. t[Len(s) + 1] = g /\ t[Len(s) + 2] = h
  <2>1. /\ Len(s) + 1 \in 1 .. Len(s) + Len(p) /\ ~(Len(s) + 1 <= Len(s)) /\ (Len(s) + 1) - Len(s) = 1
        /\ Len(s) + 2 \in 1 .. Len(s) + Len(p) /\ ~(Len(s) + 2 <= Len(s)) /\ (Len(s) + 2) - Len(s) = 2
    BY <1>3, <1>4
  <2> QED  BY <1>3, <1>5, <2>1
<1>7. \A i \in 1 .. Len(s) : t[i] = s[i]
  BY <1>3, <1>4, <1>5
<1> QED  BY <1>3, <1>4, <1>6, <1>7 DEF IsSeq

LEMMA EmptyFacts == IsSeq(<<>>) /\ Range(<<>>) = {} /\ DOMAIN <<>> = {}
<1>1. IsSeq(<<>>)
  <2>1. <<>> \in Seq({})
    OBVIOUS
  <2> QED  BY <2>1 DEF IsSeq
<1>2. DOMAIN <<>> = {}
  OBVIOUS
<1>3. Range(<<>>) = {}
  BY <1>2 DEF Range
<1> QED  BY <1>1, <1>2, <1>3
=============================================================================
