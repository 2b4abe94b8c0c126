------------------------ MODULE LoginThrottle_proofs ------------------------
(***************************************************************************)
(* The login throttle for any clients, threads, limits and clock: the      *)
(* table keeps its shape, a lockout engages exactly when it is deserved,   *)
(* and what slips through it is bounded by the thread pool.                *)
(*                                                                         *)
(* Since is a recursive function, so its laws need induction over          *)
(* sequences; they are proved here from the well-foundedness of the finite *)
(* subsets of Nat, a first-order fact of the library.                      *)
(***************************************************************************)
EXTENDS LoginThrottle, SequenceTheorems, FiniteSetTheorems, WellFoundedInduction, TLAPS

-----------------------------------------------------------------------------
(* Induction *)

\* A set of naturals with 0 and every successor of a member is all of Nat.
LEMMA Induction ==
  ASSUME NEW T \in SUBSET Nat, 0 \in T, \A n \in T : n + 1 \in T
  PROVE  T = Nat
<1> SUFFICES ASSUME T # Nat PROVE FALSE
  OBVIOUS
<1> DEFINE Missing == {0..n : n \in Nat \ T}
<1>1. Missing \subseteq FiniteSubsetsOf(Nat)
  <2>1. \A n \in Nat : IsFiniteSet(0..n)
    BY FS_Interval
  <2> QED BY <2>1 DEF FiniteSubsetsOf
<1>2. Missing # {}
  OBVIOUS
<1>3. PICK X \in Missing : \A Y \in Missing : <<Y, X>> \notin StrictSubsetOrdering(Nat)
  <2>1. IsWellFoundedOn(StrictSubsetOrdering(Nat), FiniteSubsetsOf(Nat))
    BY FS_StrictSubsetOrderingWellFounded
  <2> HIDE DEF Missing
  <2> QED BY <1>1, <1>2, <2>1, WFMin
<1>4. PICK n \in Nat \ T : X = 0..n
  OBVIOUS
<1>5. n # 0 /\ n - 1 \in Nat \ T
  OBVIOUS
<1>6. 0..(n - 1) \in Missing
  BY <1>5
<1>7. <<0..(n - 1), X>> \in StrictSubsetOrdering(Nat)
  <2>1. 0..(n - 1) \subseteq X /\ n \in X /\ n \notin 0..(n - 1)
    BY <1>4, <1>5
  <2>2. <<0..(n - 1), X>> \in (SUBSET Nat) \X (SUBSET Nat)
    BY <1>4, <1>5
  <2> QED BY <2>1, <2>2 DEF StrictSubsetOrdering
<1> QED BY <1>3, <1>6, <1>7

\* A set of sequences with the empty one, and with every member all its
\* extensions by one element, is all of Seq(S).
LEMMA SeqInduction ==
  ASSUME NEW S, NEW Q \in SUBSET Seq(S), <<>> \in Q,
         \A s \in Q : \A x \in S : Append(s, x) \in Q
  PROVE  Q = Seq(S)
<1> DEFINE T == {n \in Nat : \A s \in Seq(S) : Len(s) = n => s \in Q}
<1>1. 0 \in T
  BY EmptySeq
<1>2. ASSUME NEW n \in T
      PROVE  n + 1 \in T
  <2>1. SUFFICES ASSUME NEW s \in Seq(S), Len(s) = n + 1
                 PROVE  s \in Q
    OBVIOUS
  <2>2. PICK r \in Seq(S), x \in S : s = Append(r, x)
    <3>1. s # <<>>
      BY <2>1, EmptySeq
    <3> QED BY <3>1, SequenceEmptyOrAppend
  <2>3. Len(r) = n
    BY <2>1, <2>2
  <2> QED BY <2>2, <2>3
<1> HIDE DEF T
<1>3. T = Nat
  BY <1>1, <1>2, Induction DEF T
<1>4. \A s \in Seq(S) : Len(s) \in T
  BY <1>3, LenProperties
<1> QED BY <1>4 DEF T

-----------------------------------------------------------------------------
(* Since *)

\* What the recursion of Since tabulates for the first n elements.
Fits(f, failures, t, n) ==
    f = [i \in 0..n |->
           IF i = 0 THEN <<>>
           ELSE IF failures[i] >= t THEN Append(f[i - 1], failures[i])
           ELSE f[i - 1]]

LEMMA SinceDef ==
  ASSUME NEW s, NEW t
  PROVE  Since(s, t) = (CHOOSE f : Fits(f, s, t, Len(s)))[Len(s)]
BY DEF Since, Fits

\* The recursion has a solution for every sequence.
LEMMA FitExists ==
  ASSUME NEW s \in Seq(Int), NEW t \in Int
  PROVE  \E f : Fits(f, s, t, Len(s))
<1> DEFINE T == {n \in Nat : \E f : Fits(f, s, t, n)}
<1>1. 0 \in T
  <2>1. Fits([i \in 0..0 |-> <<>>], s, t, 0)
    BY DEF Fits
  <2> QED BY <2>1
<1>2. ASSUME NEW n \in T
      PROVE  n + 1 \in T
  <2>1. PICK f : Fits(f, s, t, n)
    OBVIOUS
  <2> DEFINE last == IF s[n + 1] >= t THEN Append(f[n], s[n + 1]) ELSE f[n]
             g == [i \in 0..(n + 1) |-> IF i = n + 1 THEN last ELSE f[i]]
  <2>2. \A i \in 0..(n + 1) :
          g[i] = IF i = 0 THEN <<>>
                 ELSE IF s[i] >= t THEN Append(g[i - 1], s[i])
                 ELSE g[i - 1]
    <3> TAKE i \in 0..(n + 1)
    <3>1. CASE i = n + 1
      BY <3>1
    <3>2. CASE i # n + 1
      <4>1. i \in 0..n /\ g[i] = f[i] /\ (i # 0 => g[i - 1] = f[i - 1])
        BY <3>2
      <4>2. f[i] = IF i = 0 THEN <<>>
                   ELSE IF s[i] >= t THEN Append(f[i - 1], s[i])
                   ELSE f[i - 1]
        BY <2>1, <4>1 DEF Fits
      <4> HIDE DEF g
      <4> QED BY <4>1, <4>2
    <3> QED BY <3>1, <3>2
  <2>3. Fits(g, s, t, n + 1)
    <3>1. g = [i \in 0..(n + 1) |-> g[i]]
      OBVIOUS
    <3> HIDE DEF g
    <3> QED BY <2>2, <3>1 DEF Fits
  <2> QED BY <2>3
<1> HIDE DEF T
<1>3. Len(s) \in T
  BY <1>1, <1>2, Induction, LenProperties DEF T
<1> QED BY <1>3 DEF T

\* Solutions for sequences that agree on their first n elements agree there.
LEMMA FitsAgree ==
  ASSUME NEW s \in Seq(Int), NEW r \in Seq(Int), NEW t \in Int, NEW n \in Nat,
         NEW f, NEW g, Fits(f, s, t, n), NEW m \in Nat, n <= m, Fits(g, r, t, m),
         \A i \in 1..n : s[i] = r[i]
  PROVE  \A i \in 0..n : f[i] = g[i]
<1> DEFINE T == {i \in Nat : i <= n => f[i] = g[i]}
<1>1. 0 \in T
  BY DEF Fits
<1>2. ASSUME NEW i \in T
      PROVE  i + 1 \in T
  <2>1. CASE i + 1 <= n
    <3>1. f[i + 1] = IF s[i + 1] >= t THEN Append(f[i], s[i + 1]) ELSE f[i]
      <4>1. i + 1 \in 0..n /\ i + 1 # 0 /\ (i + 1) - 1 = i
        BY <2>1
      <4> QED BY <4>1 DEF Fits
    <3>2. g[i + 1] = IF r[i + 1] >= t THEN Append(g[i], r[i + 1]) ELSE g[i]
      <4>1. i + 1 \in 0..m /\ i + 1 # 0 /\ (i + 1) - 1 = i
        BY <2>1
      <4> QED BY <4>1 DEF Fits
    <3> QED BY <2>1, <3>1, <3>2
  <2> QED BY <2>1
<1> HIDE DEF T
<1>3. T = Nat
  BY <1>1, <1>2, Induction DEF T
<1> QED BY <1>3 DEF T

\* Nothing of an empty sequence is left.
LEMMA SinceEmpty ==
  ASSUME NEW t \in Int
  PROVE  Since(<<>>, t) = <<>>
<1>1. \E f : Fits(f, <<>>, t, 0)
  <2>1. <<>> \in Seq(Int) /\ Len(<<>>) = 0
    BY EmptySeq
  <2> QED BY <2>1, FitExists
<1>2. Since(<<>>, t) = (CHOOSE f : Fits(f, <<>>, t, 0))[0]
  BY SinceDef, EmptySeq
<1>3. \A f : Fits(f, <<>>, t, 0) => f[0] = <<>>
  BY DEF Fits
<1> QED BY <1>1, <1>2, <1>3

\* An element appended to a sequence is kept when it is not too old.
LEMMA SinceAppend ==
  ASSUME NEW s \in Seq(Int), NEW x \in Int, NEW t \in Int
  PROVE  Since(Append(s, x), t) =
           IF x >= t THEN Append(Since(s, t), x) ELSE Since(s, t)
<1> DEFINE r == Append(s, x)
           n == Len(s)
<1>1. /\ r \in Seq(Int) /\ n \in Nat /\ Len(r) = n + 1
      /\ r[n + 1] = x /\ \A i \in 1..n : s[i] = r[i]
  BY AppendProperties, LenProperties
<1> HIDE DEF r
<1>2. PICK f : /\ Fits(f, s, t, n) /\ Since(s, t) = f[n]
  <2>1. \E f : Fits(f, s, t, n)
    BY FitExists
  <2> QED BY <2>1, SinceDef
<1>3. PICK g : Fits(g, r, t, n + 1) /\ Since(r, t) = g[n + 1]
  <2>1. \E g : Fits(g, r, t, n + 1)
    BY <1>1, FitExists
  <2> QED BY <1>1, <2>1, SinceDef
<1>4. f[n] = g[n]
  <2>1. n + 1 \in Nat /\ n <= n + 1 /\ n \in 0..n
    BY <1>1
  <2> HIDE DEF n
  <2>2. \A i \in 0..n : f[i] = g[i]
    BY <1>1, <1>2, <1>3, <2>1, FitsAgree
  <2> QED BY <2>1, <2>2
<1>5. g[n + 1] = IF x >= t THEN Append(g[n], x) ELSE g[n]
  <2>1. n + 1 \in 0..(n + 1) /\ n + 1 # 0 /\ (n + 1) - 1 = n
    BY <1>1
  <2> QED BY <1>1, <1>3, <2>1 DEF Fits
<1> QED BY <1>2, <1>3, <1>4, <1>5 DEF r

\* What is left is a sequence over the same elements.
LEMMA SinceType ==
  ASSUME NEW S, S \subseteq Int, NEW s \in Seq(S), NEW t \in Int
  PROVE  Since(s, t) \in Seq(S)
<1> DEFINE Q == {r \in Seq(S) : Since(r, t) \in Seq(S)}
<1>1. <<>> \in Q
  BY SinceEmpty, EmptySeq
<1>2. ASSUME NEW r \in Q, NEW x \in S
      PROVE  Append(r, x) \in Q
  <2>1. Since(Append(r, x), t) = IF x >= t THEN Append(Since(r, t), x) ELSE Since(r, t)
    <3>1. r \in Seq(Int) /\ x \in Int
      BY SeqMonotonic
    <3> QED BY <3>1, SinceAppend
  <2>2. Append(r, x) \in Seq(S) /\ Append(Since(r, t), x) \in Seq(S)
    BY AppendProperties
  <2> QED BY <2>1, <2>2
<1> HIDE DEF Q
<1>3. Q = Seq(S)
  <2>1. Q \in SUBSET Seq(S)
    BY DEF Q
  <2> QED BY <1>1, <1>2, <2>1, SeqInduction
<1> QED BY <1>3 DEF Q

\* A later bound looks through an earlier one.
LEMMA SinceSince ==
  ASSUME NEW s \in Seq(Int), NEW t \in Int, NEW u \in Int, t <= u
  PROVE  Since(Since(s, t), u) = Since(s, u)
<1> DEFINE Q == {r \in Seq(Int) : Since(Since(r, t), u) = Since(r, u)}
<1>1. <<>> \in Q
  BY SinceEmpty, EmptySeq
<1>2. ASSUME NEW r \in Q, NEW x \in Int
      PROVE  Append(r, x) \in Q
  <2>1. /\ Since(Append(r, x), t) = IF x >= t THEN Append(Since(r, t), x) ELSE Since(r, t)
        /\ Since(Append(r, x), u) = IF x >= u THEN Append(Since(r, u), x) ELSE Since(r, u)
    BY SinceAppend
  <2>2. Since(Append(Since(r, t), x), u) =
          IF x >= u THEN Append(Since(Since(r, t), u), x) ELSE Since(Since(r, t), u)
    BY SinceType, SinceAppend
  <2>3. x >= u => x >= t
    OBVIOUS
  <2>4. Since(Since(r, t), u) = Since(r, u)
    OBVIOUS
  <2>5. Append(r, x) \in Seq(Int)
    BY AppendProperties
  <2> QED BY <2>1, <2>2, <2>3, <2>4, <2>5
<1> HIDE DEF Q
<1>3. Q = Seq(Int)
  <2>1. Q \in SUBSET Seq(Int)
    BY DEF Q
  <2> QED BY <1>1, <1>2, <2>1, SeqInduction
<1> QED BY <1>3 DEF Q

\* When every element is older, nothing is left.
LEMMA SinceOld ==
  ASSUME NEW s \in Seq(Int), NEW t \in Int,
         \A i \in 1..Len(s) : s[i] < t
  PROVE  Since(s, t) = <<>>
<1> DEFINE Q == {r \in Seq(Int) :
                   (\A i \in 1..Len(r) : r[i] < t) => Since(r, t) = <<>>}
<1>1. <<>> \in Q
  BY SinceEmpty, EmptySeq
<1>2. ASSUME NEW r \in Q, NEW x \in Int
      PROVE  Append(r, x) \in Q
  <2>1. Append(r, x) \in Seq(Int)
    BY AppendProperties
  <2>2. SUFFICES ASSUME \A i \in 1..Len(Append(r, x)) : Append(r, x)[i] < t
                 PROVE  Since(Append(r, x), t) = <<>>
    BY <2>1
  <2>3. /\ Len(r) \in Nat /\ Len(Append(r, x)) = Len(r) + 1 /\ Append(r, x)[Len(r) + 1] = x
        /\ \A i \in 1..Len(r) : Append(r, x)[i] = r[i]
    BY AppendProperties, LenProperties
  <2>4. x < t
    <3>1. Len(r) + 1 \in 1..Len(Append(r, x))
      BY <2>3
    <3> QED BY <2>2, <2>3, <3>1
  <2>5. \A i \in 1..Len(r) : r[i] < t
    <3> TAKE i \in 1..Len(r)
    <3>1. i \in 1..Len(Append(r, x))
      BY <2>3
    <3> QED BY <2>2, <2>3, <3>1
  <2>6. Since(r, t) = <<>>
    BY <2>5
  <2>7. ~(x >= t)
    BY <2>4
  <2> QED BY <2>6, <2>7, SinceAppend
<1> HIDE DEF Q
<1>3. Q = Seq(Int)
  <2>1. Q \in SUBSET Seq(Int)
    BY DEF Q
  <2> QED BY <1>1, <1>2, <2>1, SeqInduction
<1> QED BY <1>3 DEF Q

\* Nothing is longer for being looked at from some time on ...
LEMMA SinceShorter ==
  ASSUME NEW s \in Seq(Int), NEW t \in Int
  PROVE  Since(s, t) \in Seq(Int) /\ Len(Since(s, t)) \in Nat /\ Len(Since(s, t)) <= Len(s)
<1> DEFINE Q == {r \in Seq(Int) : Len(Since(r, t)) <= Len(r)}
<1>1. <<>> \in Q
  BY SinceEmpty, EmptySeq
<1>2. ASSUME NEW r \in Q, NEW x \in Int
      PROVE  Append(r, x) \in Q
  <2>1. Since(Append(r, x), t) = IF x >= t THEN Append(Since(r, t), x) ELSE Since(r, t)
    BY SinceAppend
  <2>2. /\ Append(r, x) \in Seq(Int) /\ Len(Append(r, x)) = Len(r) + 1 /\ Len(r) \in Nat
        /\ Since(r, t) \in Seq(Int) /\ Len(Since(r, t)) \in Nat
        /\ Len(Append(Since(r, t), x)) = Len(Since(r, t)) + 1
    BY SinceType, AppendProperties, LenProperties
  <2>3. Len(Since(r, t)) <= Len(r)
    OBVIOUS
  <2> QED BY <2>1, <2>2, <2>3
<1> HIDE DEF Q
<1>3. Q = Seq(Int)
  <2>1. Q \in SUBSET Seq(Int)
    BY DEF Q
  <2> QED BY <1>1, <1>2, <2>1, SeqInduction
<1> QED BY <1>3, SinceType, LenProperties DEF Q

\* ... not even for being looked at from two times on.
LEMMA SinceTwice ==
  ASSUME NEW s \in Seq(Int), NEW t \in Int, NEW u \in Int
  PROVE  Len(Since(Since(s, t), u)) <= Len(Since(s, u))
<1> DEFINE Q == {r \in Seq(Int) : Len(Since(Since(r, t), u)) <= Len(Since(r, u))}
<1>1. <<>> \in Q
  BY SinceEmpty, EmptySeq
<1>2. ASSUME NEW r \in Q, NEW x \in Int
      PROVE  Append(r, x) \in Q
  <2>1. /\ Since(Append(r, x), t) = IF x >= t THEN Append(Since(r, t), x) ELSE Since(r, t)
        /\ Since(Append(r, x), u) = IF x >= u THEN Append(Since(r, u), x) ELSE Since(r, u)
    BY SinceAppend
  <2>2. /\ Since(r, t) \in Seq(Int) /\ Since(r, u) \in Seq(Int)
        /\ Since(Since(r, t), u) \in Seq(Int)
    BY SinceType
  <2>3. Since(Append(Since(r, t), x), u) =
          IF x >= u THEN Append(Since(Since(r, t), u), x) ELSE Since(Since(r, t), u)
    BY <2>2, SinceAppend
  <2>4. /\ Len(Since(r, u)) \in Nat /\ Len(Since(Since(r, t), u)) \in Nat
        /\ Len(Append(Since(r, u), x)) = Len(Since(r, u)) + 1
        /\ Len(Append(Since(Since(r, t), u), x)) = Len(Since(Since(r, t), u)) + 1
    BY <2>2, AppendProperties, LenProperties
  <2>5. Len(Since(Since(r, t), u)) <= Len(Since(r, u)) /\ Append(r, x) \in Seq(Int)
    BY AppendProperties
  <2>6. Len(Since(Since(Append(r, x), t), u)) <= Len(Since(Append(r, x), u))
    <3>1. CASE x >= t
      <4>1. Since(Since(Append(r, x), t), u) = Since(Append(Since(r, t), x), u)
        BY <2>1, <3>1
      <4>2. CASE x >= u
        <5>1. /\ Since(Since(Append(r, x), t), u) = Append(Since(Since(r, t), u), x)
              /\ Since(Append(r, x), u) = Append(Since(r, u), x)
          BY <2>1, <2>3, <4>1, <4>2
        <5> QED BY <2>4, <2>5, <5>1
      <4>3. CASE ~(x >= u)
        BY <2>1, <2>3, <2>5, <4>1, <4>3
      <4> QED BY <4>2, <4>3
    <3>2. CASE ~(x >= t)
      <4>1. Since(Since(Append(r, x), t), u) = Since(Since(r, t), u)
        BY <2>1, <3>2
      <4>2. CASE x >= u
        <5>1. Since(Append(r, x), u) = Append(Since(r, u), x)
          BY <2>1, <4>2
        <5> QED BY <2>4, <2>5, <4>1, <5>1
      <4>3. CASE ~(x >= u)
        BY <2>1, <2>5, <4>1, <4>3
      <4> QED BY <4>2, <4>3
    <3> QED BY <3>1, <3>2
  <2> QED BY <2>5, <2>6
<1> HIDE DEF Q
<1>3. Q = Seq(Int)
  <2>1. Q \in SUBSET Seq(Int)
    BY DEF Q
  <2> QED BY <1>1, <1>2, <2>1, SeqInduction
<1> QED BY <1>3 DEF Q

-----------------------------------------------------------------------------
(* Whole seconds *)

LEMMA DivOrder ==
  ASSUME NEW a \in Int, NEW b \in Int, a <= b
  PROVE  a \div Second <= b \div Second
BY QuotaAssumption

LEMMA DivLess ==
  ASSUME NEW a \in Int, NEW b \in Int, a \div Second < b \div Second
  PROVE  a < b
BY QuotaAssumption

LEMMA DivPositive ==
  ASSUME NEW a \in Int
  PROVE  a \div Second \in Int /\ (a \div Second > 0 <=> a >= Second)
BY QuotaAssumption

LEMMA DivNat ==
  ASSUME NEW a \in Nat
  PROVE  a \div Second \in 0..a
BY QuotaAssumption

-----------------------------------------------------------------------------
(* Types, and the row a failure writes *)

\* The failures of a row lie in the past; the youngest was stored no later
\* than Delay after the time the row was updated at.
Dates ==
    \A k \in Clients : row[k] # NoRow =>
      /\ row[k].failures \in Seq(Window..now)
      /\ \A i \in 1..Len(row[k].failures) :
           (row[k].failures[i] - Delay) \div Second <= row[k].updatedAt

TypeInv == TypeOK /\ Dates

\* What register_failure stores for a client.
NewFailures(k, at) == Append(Kept(k, at), at)
Until(k, at) ==
    LET before == IF LockedUntil(k) <= at THEN 0 ELSE LockedUntil(k)
    IN IF Len(NewFailures(k, at)) >= MaxAttempts THEN Max2(before, at + Lockout) ELSE before
NewRow(k, at) == Row(NewFailures(k, at), Until(k, at), at \div Second)

\* The purge takes this row away.
Stale(k, at) ==
    row[k] # NoRow /\ row[k].lockedUntil <= at /\ row[k].updatedAt < (at - Window) \div Second

\* The date of the failure that is stored, and the client that failed.
LEMMA FailureDate ==
  ASSUME TypeInv, NEW t \in Threads, register_failure(t)
  PROVE  /\ clock[t] \in Window..now /\ clock[t] \in Times /\ clock[t] \in Nat
         /\ now \in Nat /\ now <= clock[t] + Delay /\ clock[t] <= now
         /\ now' = now /\ attempt[t] \in Clients
         /\ Window..now \subseteq Times /\ Times \subseteq Int
         /\ Window \in Nat /\ Delay \in Nat /\ Horizon \in Nat /\ Lockout \in Nat \ {0}
<1>1. now \in Times /\ clock[t] \in Times /\ clock[t] <= now /\ now <= clock[t] + Delay
  BY DEF register_failure, TypeInv, TypeOK
<1>2. now' = now /\ attempt[t] \in Clients
  BY DEF register_failure, TypeInv, TypeOK
<1> QED BY <1>1, <1>2, TimesAssumption DEF Times

LEMMA KeptType ==
  ASSUME TypeInv, NEW k \in Clients, NEW at \in Int
  PROVE  Kept(k, at) \in Seq(Window..now)
<1>1. Window..now \subseteq Int /\ at - Window \in Int
  BY TimesAssumption DEF TypeInv, TypeOK, Times
<1>2. CASE row[k] = NoRow \/ LockedUntil(k) \in 1..at
  BY <1>2, EmptySeq DEF Kept
<1>3. CASE ~(row[k] = NoRow \/ LockedUntil(k) \in 1..at)
  <2>1. row[k].failures \in Seq(Window..now)
    BY <1>3 DEF TypeInv, Dates
  <2>2. Since(row[k].failures, at - Window) \in Seq(Window..now)
    BY <1>1, <2>1, SinceType
  <2> QED BY <1>3, <2>2 DEF Kept
<1> QED BY <1>2, <1>3

LEMMA NewFailuresType ==
  ASSUME TypeInv, NEW k \in Clients, NEW at \in Window..now
  PROVE  /\ NewFailures(k, at) \in Seq(Window..now) /\ NewFailures(k, at) \in Seq(Times)
         /\ NewFailures(k, at) # <<>> /\ Len(NewFailures(k, at)) \in Nat
<1>1. Window..now \subseteq Times /\ at \in Int
  BY TimesAssumption DEF TypeInv, TypeOK, Times
<1>2. Kept(k, at) \in Seq(Window..now)
  BY <1>1, KeptType
<1>3. NewFailures(k, at) \in Seq(Window..now) /\ NewFailures(k, at) # <<>>
  BY <1>2, AppendProperties DEF NewFailures
<1> QED BY <1>1, <1>3, SeqMonotonic, LenProperties

LEMMA UntilType ==
  ASSUME TypeInv, NEW k \in Clients, NEW at \in Window..now
  PROVE  /\ Until(k, at) \in {0} \cup (Window + Lockout)..(Horizon + Lockout)
         /\ LockedUntil(k) > at => Until(k, at) >= LockedUntil(k)
         /\ Len(NewFailures(k, at)) >= MaxAttempts => Until(k, at) >= at + Lockout
         /\ Until(k, at) > 0 =>
              \/ Until(k, at) = LockedUntil(k) /\ LockedUntil(k) > at
              \/ Until(k, at) = at + Lockout /\ Len(NewFailures(k, at)) >= MaxAttempts
<1>1. /\ at \in Window..Horizon /\ at \in Nat
      /\ Window \in Nat /\ Horizon \in Nat /\ Lockout \in Nat \ {0}
  BY TimesAssumption DEF TypeInv, TypeOK, Times
<1>2. LockedUntil(k) \in {0} \cup (Window + Lockout)..(Horizon + Lockout)
  BY DEF TypeInv, TypeOK, Rows, LockedUntil
<1>3. Len(NewFailures(k, at)) \in Nat /\ MaxAttempts \in Nat
  BY NewFailuresType, QuotaAssumption
<1> DEFINE before == IF LockedUntil(k) <= at THEN 0 ELSE LockedUntil(k)
<1>4. /\ before = 0 \/ (before = LockedUntil(k) /\ before > at /\ before \in Int)
      /\ LockedUntil(k) > at => before = LockedUntil(k)
  BY <1>1, <1>2
<1>5. Until(k, at) = IF Len(NewFailures(k, at)) >= MaxAttempts
                       THEN IF before > at + Lockout THEN before ELSE at + Lockout
                       ELSE before
  BY DEF Until, Max2
<1> HIDE DEF before
<1>6. CASE Len(NewFailures(k, at)) >= MaxAttempts
  BY <1>1, <1>2, <1>4, <1>5, <1>6
<1>7. CASE ~(Len(NewFailures(k, at)) >= MaxAttempts)
  BY <1>1, <1>2, <1>4, <1>5, <1>7
<1> QED BY <1>6, <1>7

LEMMA NewRowType ==
  ASSUME TypeInv, NEW k \in Clients, NEW at \in Window..now
  PROVE  NewRow(k, at) \in Rows /\ NewRow(k, at) # NoRow
<1>1. at \div Second \in 0..Horizon
  <2>1. at \in Nat /\ at <= Horizon /\ Horizon \in Nat
    BY TimesAssumption DEF TypeInv, TypeOK, Times
  <2> QED BY <2>1, DivNat
<1>2. NewRow(k, at) \in Rows
  BY <1>1, NewFailuresType, UntilType DEF NewRow, Row, Rows
<1> QED BY <1>2, NullAssumption

\* The row of the client that failed is the new one, which is too young to be
\* purged; any other row stays, unless it is stale.
LEMMA FailureRows ==
  ASSUME TypeInv, NEW t \in Threads, register_failure(t)
  PROVE  row' = [j \in Clients |-> IF j = attempt[t] THEN NewRow(j, clock[t])
                                   ELSE IF Stale(j, clock[t]) THEN NoRow ELSE row[j]]
<1> DEFINE k == attempt[t]
           at == clock[t]
           rows == [row EXCEPT ![k] = NewRow(k, at)]
<1>1. k \in Clients /\ at \in Int /\ at - Window \in Int /\ at - Window <= at
  BY FailureDate
<1>2. row' = Purged(rows, at)
  BY DEF register_failure, NewRow, NewFailures, Until
<1>3. \A j \in Clients : rows[j] = IF j = k THEN NewRow(k, at) ELSE row[j]
  BY DEF TypeInv, TypeOK
<1>4. NewRow(k, at).updatedAt = at \div Second
  BY DEF NewRow, Row
<1> HIDE DEF rows, k, at
<1>5. ~(at \div Second < (at - Window) \div Second)
  <2>1. at \div Second \in Int /\ (at - Window) \div Second \in Int
    BY <1>1, DivPositive
  <2> QED BY <1>1, <2>1, DivOrder
<1>6. Purged(rows, at) = [j \in Clients |-> IF j = k THEN NewRow(j, at)
                                           ELSE IF Stale(j, at) THEN NoRow ELSE row[j]]
  BY <1>1, <1>3, <1>4, <1>5 DEF Purged, Stale
<1> QED BY <1>1, <1>2, <1>6 DEF k, at

\* The history of a client after a failure: what counted before, unless a
\* lockout that is over closes it, and the failure itself if it is his.
LEMMA FailureHistory ==
  ASSUME TypeInv, NEW t \in Threads, register_failure(t), NEW j \in Clients
  PROVE  LET at == clock[t]
             closed == LockedUntil(j) \in 1..at /\ (j = attempt[t] \/ row'[j] = NoRow)
             before == IF closed THEN <<>> ELSE failed[j]
         IN failed'[j] = IF j = attempt[t] THEN Append(before, at) ELSE before
BY DEF register_failure, FailedAfter

LEMMA TypeInit == Init => TypeInv
<1> SUFFICES ASSUME Init PROVE TypeInv
  OBVIOUS
<1> USE DEF Init
<1>1. TypeOK
  BY TimesAssumption, EmptySeq DEF TypeOK, Times
<1>2. Dates
  BY DEF Dates
<1> QED BY <1>1, <1>2 DEF TypeInv

LEMMA TypeFailure ==
  ASSUME TypeInv, NEW t \in Threads, register_failure(t)
  PROVE  TypeInv'
<1> DEFINE k == attempt[t]
           at == clock[t]
<1>1. /\ k \in Clients /\ at \in Window..now /\ at \in Times /\ at \in Int /\ now \in Int
      /\ now' = now /\ now <= at + Delay /\ Delay \in Int
      /\ Window..now \subseteq Int
  BY FailureDate
<1>2. \A j \in Clients :
        row'[j] = NoRow \/ (j = k /\ row'[j] = NewRow(k, at)) \/ row'[j] = row[j]
  BY <1>1, FailureRows
<1>3. row' \in [Clients -> Rows \cup {NoRow}]
  <2>1. \A j \in Clients : row'[j] \in Rows \cup {NoRow}
    BY <1>1, <1>2, NewRowType DEF TypeInv, TypeOK
  <2> QED BY <2>1, FailureRows
<1>4. \A j \in Clients : row'[j] # NoRow => row'[j].failures # <<>>
  <2>1. NewRow(k, at).failures # <<>>
    BY <1>1, NewFailuresType DEF NewRow, Row
  <2> QED BY <1>2, <2>1 DEF TypeInv, TypeOK
<1>5. /\ attempt' \in [Threads -> Clients \cup {NoClient}]
      /\ clock' \in [Threads -> Times \cup {NoTime}]
      /\ \A u \in Threads : clock'[u] # NoTime =>
           attempt'[u] # NoClient /\ clock'[u] <= now /\ now <= clock'[u] + Delay
  BY DEF register_failure, TypeInv, TypeOK
<1>6. failed' \in [Clients -> Seq(Times)]
  <2>1. ASSUME NEW j \in Clients
        PROVE  failed'[j] \in Seq(Times)
    <3> DEFINE before == IF LockedUntil(j) \in 1..at /\ (j = k \/ row'[j] = NoRow)
                           THEN <<>> ELSE failed[j]
    <3>1. failed'[j] = IF j = k THEN Append(before, at) ELSE before
      BY FailureHistory
    <3>2. before \in Seq(Times)
      BY EmptySeq DEF TypeInv, TypeOK
    <3> HIDE DEF before
    <3>3. Append(before, at) \in Seq(Times)
      BY <1>1, <3>2, AppendProperties
    <3> QED BY <3>1, <3>2, <3>3
  <2>2. failed' = [j \in Clients |-> failed'[j]]
    BY DEF register_failure, FailedAfter
  <2> QED BY <2>1, <2>2
<1>7. slipped' \in [Clients -> Nat]
  BY <1>1 DEF register_failure, TypeInv, TypeOK
<1>8. Dates'
  <2>1. SUFFICES ASSUME NEW j \in Clients, row'[j] # NoRow
                 PROVE  /\ row'[j].failures \in Seq(Window..now)
                        /\ \A i \in 1..Len(row'[j].failures) :
                             (row'[j].failures[i] - Delay) \div Second <= row'[j].updatedAt
    BY <1>1 DEF Dates
  <2>2. CASE row'[j] = row[j]
    BY <2>1, <2>2 DEF TypeInv, Dates
  <2>3. CASE j = k /\ row'[j] = NewRow(k, at)
    <3>1. row'[j].failures = NewFailures(k, at) /\ row'[j].updatedAt = at \div Second
      BY <2>3 DEF NewRow, Row
    <3>2. NewFailures(k, at) \in Seq(Window..now)
      BY <1>1, NewFailuresType
    <3>3. \A i \in 1..Len(NewFailures(k, at)) :
            (NewFailures(k, at)[i] - Delay) \div Second <= at \div Second
      <4> TAKE i \in 1..Len(NewFailures(k, at))
      <4> HIDE DEF k, at
      <4>1. NewFailures(k, at)[i] \in Window..now
        BY <3>2, ElementOfSeq
      <4>2. NewFailures(k, at)[i] - Delay \in Int /\ NewFailures(k, at)[i] - Delay <= at
        BY <1>1, <4>1
      <4> QED BY <1>1, <4>2, DivOrder
    <3> QED BY <3>1, <3>2, <3>3
  <2> QED BY <1>2, <2>1, <2>2, <2>3
<1>9. now' \in Times
  BY <1>1 DEF TypeInv, TypeOK
<1> QED BY <1>1, <1>3, <1>4, <1>5, <1>6, <1>7, <1>8, <1>9 DEF TypeInv, TypeOK

LEMMA TypeTick ==
  ASSUME TypeInv, tick
  PROVE  TypeInv'
<1>1. now' = now + 1 /\ now \in Times /\ now' \in Times /\ now' \in Int /\ now \in Int
  BY TimesAssumption DEF tick, TypeInv, TypeOK, Times
<1>2. \A t \in Threads : clock[t] # NoTime =>
        /\ clock[t] \in Times /\ attempt[t] # NoClient
        /\ clock[t] <= now' /\ now' <= clock[t] + Delay
  <2> SUFFICES ASSUME NEW t \in Threads, clock[t] # NoTime
               PROVE  /\ clock[t] \in Times /\ attempt[t] # NoClient
                      /\ clock[t] <= now' /\ now' <= clock[t] + Delay
    OBVIOUS
  <2>1. clock[t] \in Times /\ attempt[t] # NoClient /\ clock[t] <= now /\ now < clock[t] + Delay
    BY DEF tick, TypeInv, TypeOK
  <2>2. clock[t] \in Int /\ Delay \in Int
    BY <2>1, TimesAssumption DEF Times
  <2> QED BY <1>1, <2>1, <2>2
<1>3. slipped' \in [Clients -> Nat]
  BY DEF tick, TypeInv, TypeOK
<1>4. TypeOK'
  BY <1>1, <1>2, <1>3 DEF tick, TypeInv, TypeOK
<1>5. Dates'
  <2>1. Window..now \subseteq Window..now'
    BY <1>1
  <2>2. \A k \in Clients : row[k] # NoRow => row[k].failures \in Seq(Window..now')
    BY <2>1, SeqMonotonic DEF TypeInv, Dates
  <2> QED BY <2>2 DEF tick, TypeInv, Dates
<1> QED BY <1>4, <1>5 DEF TypeInv

LEMMA TypeNext ==
  ASSUME TypeInv, [Next]_vars
  PROVE  TypeInv'
<1>1. ASSUME NEW t \in Threads, NEW k \in Clients, lockout_remaining(t, k)
      PROVE  TypeInv'
  BY <1>1, NullAssumption DEF lockout_remaining, TypeInv, TypeOK, Dates
<1>2. ASSUME NEW t \in Threads, read_clock(t)
      PROVE  TypeInv'
  <2>1. now \in Times /\ now \in Int /\ now <= now + Delay
    BY TimesAssumption DEF TypeInv, TypeOK, Times
  <2> QED BY <1>2, <2>1 DEF read_clock, TypeInv, TypeOK, Dates
<1>3. ASSUME NEW t \in Threads, register_failure(t)
      PROVE  TypeInv'
  BY <1>3, TypeFailure
<1>4. ASSUME NEW t \in Threads, register_success(t)
      PROVE  TypeInv'
  <2>1. attempt[t] \in Clients
    BY <1>4 DEF register_success, TypeInv, TypeOK
  <2>2. failed' \in [Clients -> Seq(Times)]
    BY <1>4, <2>1, EmptySeq DEF register_success, TypeInv, TypeOK
  <2> QED BY <1>4, <2>1, <2>2 DEF register_success, TypeInv, TypeOK, Dates
<1>5. ASSUME NEW t \in Threads, give_up(t)
      PROVE  TypeInv'
  BY <1>5 DEF give_up, TypeInv, TypeOK, Dates
<1>6. CASE tick
  BY <1>6, TypeTick
<1>7. CASE restart
  BY <1>7 DEF restart, TypeInv, TypeOK, Dates
<1>8. CASE UNCHANGED vars
  BY <1>8 DEF vars, TypeInv, TypeOK, Dates
<1> QED BY <1>1, <1>2, <1>3, <1>4, <1>5, <1>6, <1>7, <1>8 DEF Next

LEMMA TypeAlways == Spec => []TypeInv
<1>1. TypeInv /\ [Next]_vars => TypeInv'
  BY TypeNext
<1> QED BY <1>1, TypeInit, PTL DEF Spec

\* The table of login failures, and the requests in progress, keep their
\* shape, whatever the clock, the limits and the clients are.
THEOREM TypeCorrect == Spec => []TypeOK
<1>1. TypeInv => TypeOK
  BY DEF TypeInv
<1> QED BY <1>1, TypeAlways, PTL

-----------------------------------------------------------------------------
(* A lockout engages, and only when it is deserved *)

\* The failures the table shows for a client.
Listed(k) == IF row[k] = NoRow THEN <<>> ELSE row[k].failures

\* From a window before now on, less what a transaction may be late, the table
\* and the history show the same failures: what the code drops is older.
Accounted ==
    \A k \in Clients : \A c \in Int :
      c >= now - Window + Delay => Since(Listed(k), c) = Since(failed[k], c)

\* From any time on, the table shows no more failures than the history.
Included ==
    \A k \in Clients : \A c \in Int : Len(Since(Listed(k), c)) <= Len(Since(failed[k], c))

LockInv == TypeInv /\ Accounted /\ Included /\ LockoutEngages /\ LockoutDeserved

LEMMA ListedType ==
  ASSUME TypeInv, NEW k \in Clients
  PROVE  Listed(k) \in Seq(Int) /\ failed[k] \in Seq(Int)
<1>1. Window..now \subseteq Int /\ Times \subseteq Int
  BY TimesAssumption DEF TypeInv, TypeOK, Times
<1>2. row[k] # NoRow => row[k].failures \in Seq(Int)
  BY <1>1, SeqMonotonic DEF TypeInv, Dates
<1>3. failed[k] \in Seq(Int)
  BY <1>1, SeqMonotonic DEF TypeInv, TypeOK
<1> QED BY <1>2, <1>3, EmptySeq DEF Listed

LEMMA LockedUntilType ==
  ASSUME TypeInv, NEW k \in Clients
  PROVE  LockedUntil(k) \in Nat
BY TimesAssumption DEF LockedUntil, TypeInv, TypeOK, Rows

LEMMA KeptListed ==
  ASSUME TypeInv, NEW k \in Clients, NEW at \in Int
  PROVE  Kept(k, at) = IF LockedUntil(k) \in 1..at THEN <<>> ELSE Since(Listed(k), at - Window)
<1>1. at - Window \in Int
  BY TimesAssumption
<1> QED BY <1>1, SinceEmpty DEF Kept, Listed

\* A stale row shows nothing that is young enough to be accounted for.
LEMMA StaleIsOld ==
  ASSUME TypeInv, NEW k \in Clients, NEW at \in Nat, at <= now, Stale(k, at),
         NEW c \in Int, c >= now - Window + Delay
  PROVE  Since(Listed(k), c) = <<>>
<1>1. now \in Int /\ Window \in Int /\ Delay \in Int
  BY TimesAssumption DEF TypeInv, TypeOK, Times
<1>2. Listed(k) \in Seq(Int) /\ Len(Listed(k)) \in Nat
  BY ListedType, LenProperties
<1>3. ASSUME NEW i \in 1..Len(Listed(k))
      PROVE  Listed(k)[i] < c
  <2>1. Listed(k)[i] \in Int
    BY <1>2, ElementOfSeq
  <2>2. (Listed(k)[i] - Delay) \div Second <= row[k].updatedAt
    BY <1>3 DEF TypeInv, Dates, Stale, Listed
  <2>3. row[k].updatedAt < (at - Window) \div Second /\ row[k].updatedAt \in Int
    <3>1. row[k] \in Rows
      BY DEF Stale, TypeInv, TypeOK
    <3> QED BY <3>1, TimesAssumption DEF Stale, Rows
  <2>4. Listed(k)[i] - Delay \in Int /\ at - Window \in Int
    BY <1>1, <2>1
  <2>5. (Listed(k)[i] - Delay) \div Second \in Int /\ (at - Window) \div Second \in Int
    BY <2>4, DivPositive
  <2>6. (Listed(k)[i] - Delay) \div Second < (at - Window) \div Second
    BY <2>2, <2>3, <2>5
  <2>7. Listed(k)[i] - Delay < at - Window
    BY <2>4, <2>6, DivLess
  <2> QED BY <1>1, <2>1, <2>7
<1> QED BY <1>2, <1>3, SinceOld

\* The lockouts, the lists and the histories after a failure: a stale row
\* takes its history along only when its lockout is over.
LEMMA FailureEffect ==
  ASSUME TypeInv, NEW t \in Threads, register_failure(t), NEW j \in Clients
  PROVE  LET at == clock[t]
             served == LockedUntil(j) \in 1..at
         IN \/ /\ j = attempt[t]
               /\ LockedUntil(j)' = Until(j, at)
               /\ Listed(j)' = NewFailures(j, at)
               /\ failed'[j] = Append(IF served THEN <<>> ELSE failed[j], at)
            \/ /\ j # attempt[t] /\ Stale(j, at)
               /\ LockedUntil(j)' = 0 /\ Listed(j)' = <<>>
               /\ LockedUntil(j) <= at
               /\ failed'[j] = IF served THEN <<>> ELSE failed[j]
            \/ /\ j # attempt[t] /\ ~Stale(j, at)
               /\ LockedUntil(j)' = LockedUntil(j) /\ Listed(j)' = Listed(j)
               /\ failed'[j] = failed[j]
<1> DEFINE at == clock[t]
<1>1. at \in Window..now
  BY FailureDate
<1>2. CASE j = attempt[t]
  <2>1. row'[j] = NewRow(j, at) /\ NewRow(j, at) # NoRow
        /\ NewRow(j, at).lockedUntil = Until(j, at) /\ NewRow(j, at).failures = NewFailures(j, at)
    BY <1>1, <1>2, FailureRows, NewRowType DEF NewRow, Row
  <2>2. failed'[j] = Append(IF LockedUntil(j) \in 1..at THEN <<>> ELSE failed[j], at)
    BY <1>2, FailureHistory
  <2> QED BY <1>2, <2>1, <2>2 DEF LockedUntil, Listed
<1>3. CASE j # attempt[t] /\ Stale(j, at)
  <2>1. row'[j] = NoRow
    BY <1>3, FailureRows
  <2>2. failed'[j] = IF LockedUntil(j) \in 1..at THEN <<>> ELSE failed[j]
    BY <1>3, <2>1, FailureHistory
  <2>3. LockedUntil(j) <= at
    BY <1>3 DEF Stale, LockedUntil
  <2> QED BY <1>3, <2>1, <2>2, <2>3 DEF LockedUntil, Listed
<1>4. CASE j # attempt[t] /\ ~Stale(j, at)
  <2>1. row'[j] = row[j]
    BY <1>4, FailureRows
  <2>2. LockedUntil(j)' = LockedUntil(j) /\ Listed(j)' = Listed(j)
    BY <2>1 DEF LockedUntil, Listed
  <2>3. failed'[j] = failed[j]
    <3>1. row[j] = NoRow => LockedUntil(j) = 0
      BY DEF LockedUntil
    <3> QED BY <1>4, <2>1, <3>1, FailureHistory
  <2> QED BY <1>4, <2>2, <2>3
<1> QED BY <1>2, <1>3, <1>4

\* What the table shows of a client that failed, and what the history does.
LEMMA FailureSince ==
  ASSUME TypeInv, NEW t \in Threads, register_failure(t), NEW c \in Int, NEW k, k = attempt[t],
         LockedUntil(k) \notin 1..clock[t]
  PROVE  /\ NewFailures(k, clock[t]) = Append(Since(Listed(k), clock[t] - Window), clock[t])
         /\ Since(NewFailures(k, clock[t]), c) =
              IF clock[t] >= c
                THEN Append(Since(Since(Listed(k), clock[t] - Window), c), clock[t])
                ELSE Since(Since(Listed(k), clock[t] - Window), c)
         /\ Since(failed'[k], c) =
              IF clock[t] >= c THEN Append(Since(failed[k], c), clock[t]) ELSE Since(failed[k], c)
         /\ Since(Since(Listed(k), clock[t] - Window), c) \in Seq(Int)
         /\ Since(failed[k], c) \in Seq(Int) /\ Since(Listed(k), c) \in Seq(Int)
<1> DEFINE at == clock[t]
<1>1. k \in Clients /\ at \in Int /\ at - Window \in Int
  BY FailureDate
<1>2. Listed(k) \in Seq(Int) /\ failed[k] \in Seq(Int)
  BY <1>1, ListedType
<1>3. NewFailures(k, at) = Append(Since(Listed(k), at - Window), at)
  BY <1>1, KeptListed DEF NewFailures
<1>4. failed'[k] = Append(failed[k], at)
  BY <1>1, FailureEffect
<1> HIDE DEF at
<1>5. Since(Listed(k), at - Window) \in Seq(Int)
  BY <1>1, <1>2, SinceType
<1>6. /\ Since(NewFailures(k, at), c) =
           IF at >= c THEN Append(Since(Since(Listed(k), at - Window), c), at)
                      ELSE Since(Since(Listed(k), at - Window), c)
      /\ Since(failed'[k], c) =
           IF at >= c THEN Append(Since(failed[k], c), at) ELSE Since(failed[k], c)
  <2>1. Since(Append(Since(Listed(k), at - Window), at), c) =
          IF at >= c THEN Append(Since(Since(Listed(k), at - Window), c), at)
                     ELSE Since(Since(Listed(k), at - Window), c)
    BY <1>1, <1>5, SinceAppend
  <2>2. Since(Append(failed[k], at), c) =
          IF at >= c THEN Append(Since(failed[k], c), at) ELSE Since(failed[k], c)
    BY <1>1, <1>2, SinceAppend
  <2> QED BY <1>3, <1>4, <2>1, <2>2
<1>7. /\ Since(Since(Listed(k), at - Window), c) \in Seq(Int)
      /\ Since(failed[k], c) \in Seq(Int) /\ Since(Listed(k), c) \in Seq(Int)
  BY <1>2, <1>5, SinceType
<1> QED BY <1>3, <1>6, <1>7 DEF at

\* After a lockout that is over, table and history begin anew together.
LEMMA FailureAnew ==
  ASSUME TypeInv, NEW t \in Threads, register_failure(t), NEW k, k = attempt[t],
         LockedUntil(k) \in 1..clock[t]
  PROVE  NewFailures(k, clock[t]) = failed'[k]
<1>1. k \in Clients /\ clock[t] \in Int
  BY FailureDate
<1>2. failed'[k] = Append(<<>>, clock[t])
  BY <1>1, FailureEffect
<1> QED BY <1>1, <1>2, KeptListed DEF NewFailures

LEMMA AccountedFailure ==
  ASSUME LockInv, NEW t \in Threads, register_failure(t)
  PROVE  Accounted' /\ Included'
<1> DEFINE at == clock[t]
<1>1. /\ TypeInv /\ at \in Nat /\ at <= now /\ now \in Nat /\ Window \in Nat /\ Delay \in Nat
      /\ now' = now
  BY FailureDate DEF LockInv
<1> SUFFICES ASSUME NEW j \in Clients, NEW c \in Int
             PROVE  /\ c >= now - Window + Delay =>
                         Since(Listed(j)', c) = Since(failed'[j], c)
                    /\ Len(Since(Listed(j)', c)) <= Len(Since(failed'[j], c))
  BY <1>1 DEF Accounted, Included
<1>2. /\ c >= now - Window + Delay => Since(Listed(j), c) = Since(failed[j], c)
      /\ Len(Since(Listed(j), c)) <= Len(Since(failed[j], c))
  BY DEF LockInv, Accounted, Included
<1>3. Listed(j) \in Seq(Int) /\ failed[j] \in Seq(Int)
  BY <1>1, ListedType
<1>4. CASE j = attempt[t] /\ LockedUntil(j) \in 1..at
  <2>1. Listed(j)' = failed'[j] /\ failed'[j] \in Seq(Int)
    <3>1. TypeInv'
      BY <1>1, TypeFailure
    <3>2. Times \subseteq Int
      BY <1>1, FailureDate
    <3>3. failed'[j] \in Seq(Times)
      BY <3>1 DEF TypeInv, TypeOK
    <3> QED BY <1>1, <1>4, <3>2, <3>3, FailureEffect, FailureAnew, SeqMonotonic
  <2>2. Len(Since(failed'[j], c)) \in Nat
    BY <2>1, SinceShorter
  <2> QED BY <2>1, <2>2
<1>5. CASE j = attempt[t] /\ LockedUntil(j) \notin 1..at
  <2>1. Listed(j)' = NewFailures(j, at)
    BY <1>1, <1>5, FailureEffect
  <2> DEFINE A == Since(Since(Listed(j), at - Window), c)
             B == Since(failed[j], c)
  <2>2. /\ Since(Listed(j)', c) = IF at >= c THEN Append(A, at) ELSE A
        /\ Since(failed'[j], c) = IF at >= c THEN Append(B, at) ELSE B
        /\ A \in Seq(Int) /\ B \in Seq(Int) /\ Since(Listed(j), c) \in Seq(Int)
    BY <1>1, <1>5, <2>1, FailureSince
  <2>3. c >= now - Window + Delay => A = B
    <3> SUFFICES ASSUME c >= now - Window + Delay PROVE A = B
      OBVIOUS
    <3>1. at - Window \in Int /\ at - Window <= c
      BY <1>1
    <3> QED BY <1>2, <1>3, <3>1, SinceSince
  <2>4. Len(A) <= Len(Since(Listed(j), c))
    <3>1. at - Window \in Int
      BY <1>1
    <3> QED BY <1>3, <3>1, SinceTwice
  <2> HIDE DEF A, B, at
  <2>5. /\ Len(A) \in Nat /\ Len(B) \in Nat /\ Len(Since(Listed(j), c)) \in Nat
        /\ Len(Append(A, at)) = Len(A) + 1 /\ Len(Append(B, at)) = Len(B) + 1
    BY <1>1, <2>2, AppendProperties, LenProperties
  <2>6. Len(A) <= Len(B)
    BY <1>2, <2>4, <2>5 DEF B
  <2> QED BY <2>2, <2>3, <2>5, <2>6
<1>6. CASE j # attempt[t] /\ Stale(j, at)
  <2>1. Listed(j)' = <<>> /\ (failed'[j] = <<>> \/ failed'[j] = failed[j])
    BY <1>1, <1>6, FailureEffect
  <2>2. c >= now - Window + Delay => Since(Listed(j), c) = <<>>
    BY <1>1, <1>6, StaleIsOld
  <2>3. Since(<<>>, c) = <<>> /\ Len(<<>>) = 0
    BY SinceEmpty, EmptySeq
  <2>4. Len(Since(failed[j], c)) \in Nat
    BY <1>3, SinceShorter
  <2> QED BY <1>2, <2>1, <2>2, <2>3, <2>4
<1>7. CASE j # attempt[t] /\ ~Stale(j, at)
  <2>1. Listed(j)' = Listed(j) /\ failed'[j] = failed[j]
    BY <1>1, <1>7, FailureEffect
  <2> QED BY <1>2, <2>1
<1> QED BY <1>4, <1>5, <1>6, <1>7

LEMMA EngagesFailure ==
  ASSUME LockInv, NEW t \in Threads, register_failure(t)
  PROVE  LockoutEngages'
<1> DEFINE at == clock[t]
<1>1. /\ TypeInv /\ TypeInv' /\ at \in Nat /\ at <= now /\ now <= at + Delay /\ now \in Nat
      /\ now' = now /\ Window \in Nat /\ Delay \in Nat /\ at \in Window..now
      /\ Times \subseteq Int
  BY FailureDate, TypeFailure DEF LockInv
<1> SUFFICES ASSUME NEW j \in Clients, failed'[j] # <<>>,
                    Len(Since(failed'[j], failed'[j][Len(failed'[j])] - (Window - 2 * Delay)))
                      >= MaxAttempts,
                    now < failed'[j][Len(failed'[j])] + Lockout
             PROVE  LockedUntil(j)' >= failed'[j][Len(failed'[j])] + Lockout
  BY <1>1 DEF LockoutEngages
<1>2. CASE j = attempt[t]
  <2>1. PICK s \in Seq(Times) : failed'[j] = Append(s, at)
    BY <1>1, <1>2, EmptySeq, FailureEffect DEF TypeInv, TypeOK
  <2>2. failed'[j][Len(failed'[j])] = at
    BY <1>1, <2>1, AppendProperties, FailureDate
  <2> DEFINE c == at - (Window - 2 * Delay)
  <2>3. c \in Int /\ c >= now - Window + Delay
    BY <1>1
  <2>4. Since(failed'[j], c) = Since(NewFailures(j, at), c)
    <3>1. Listed(j)' = NewFailures(j, at)
      BY <1>1, <1>2, FailureEffect
    <3>2. Since(Listed(j)', c) = Since(failed'[j], c)
      BY <1>1, <2>3, AccountedFailure DEF Accounted
    <3> QED BY <3>1, <3>2
  <2>5. NewFailures(j, at) \in Seq(Int) /\ Len(NewFailures(j, at)) \in Nat
    BY <1>1, NewFailuresType, SeqMonotonic
  <2>6. Len(Since(failed'[j], c)) >= MaxAttempts
    BY <2>2
  <2> HIDE DEF c
  <2>7. /\ Len(Since(NewFailures(j, at), c)) <= Len(NewFailures(j, at))
        /\ Len(Since(NewFailures(j, at), c)) \in Nat
    BY <2>3, <2>5, SinceShorter
  <2>8. Len(NewFailures(j, at)) >= MaxAttempts
    BY <2>4, <2>5, <2>6, <2>7, QuotaAssumption
  <2>9. LockedUntil(j)' = Until(j, at)
    BY <1>1, <1>2, FailureEffect
  <2> QED BY <1>1, <2>2, <2>8, <2>9, UntilType
<1>3. CASE j # attempt[t]
  <2>1. failed'[j] = failed[j]
    BY <1>1, <1>3, FailureEffect
  <2> DEFINE last == failed[j][Len(failed[j])]
  <2>2. LockedUntil(j) >= last + Lockout
    BY <2>1 DEF LockInv, LockoutEngages
  <2>3. last \in Int
    <3>1. failed[j] \in Seq(Times) /\ Len(failed[j]) \in 1..Len(failed[j])
      BY <2>1, EmptySeq DEF LockInv, TypeInv, TypeOK
    <3> QED BY <1>1, <3>1, ElementOfSeq
  <2>4. now < last + Lockout
    BY <2>1
  <2> HIDE DEF last
  <2>5. ~(LockedUntil(j) <= at)
    <3>1. LockedUntil(j) \in Nat
      BY <1>1, LockedUntilType
    <3> QED BY <1>1, <2>2, <2>3, <2>4, <3>1, TimesAssumption
  <2>6. LockedUntil(j)' = LockedUntil(j)
    BY <1>1, <1>3, <2>5, FailureEffect
  <2> QED BY <2>1, <2>2, <2>6 DEF last
<1> QED BY <1>2, <1>3

LEMMA DeservedFailure ==
  ASSUME LockInv, NEW t \in Threads, register_failure(t)
  PROVE  LockoutDeserved'
<1> DEFINE at == clock[t]
           Deserves(f, until) ==
             \E i \in 1..Len(f) :
               /\ until = f[i] + Lockout
               /\ Len(Since(SubSeq(f, 1, i), f[i] - Window)) >= MaxAttempts
<1>1. /\ TypeInv /\ TypeInv' /\ at \in Nat /\ at <= now /\ now \in Nat /\ now' = now
      /\ at \in Window..now /\ at \in Times /\ Window \in Nat /\ Times \subseteq Int
  BY FailureDate, TypeFailure DEF LockInv
<1> SUFFICES ASSUME NEW j \in Clients, LockedUntil(j)' > now
             PROVE  Deserves(failed'[j], LockedUntil(j)')
  BY <1>1 DEF LockoutDeserved
<1>2. failed[j] \in Seq(Times) /\ Len(failed[j]) \in Nat /\ LockedUntil(j) \in Nat
  BY <1>1, LenProperties, LockedUntilType DEF TypeInv, TypeOK
<1>3. ASSUME LockedUntil(j) > now, LockedUntil(j)' = LockedUntil(j)
      PROVE  Deserves(failed'[j], LockedUntil(j)')
  <2>1. PICK i \in 1..Len(failed[j]) :
          /\ LockedUntil(j) = failed[j][i] + Lockout
          /\ Len(Since(SubSeq(failed[j], 1, i), failed[j][i] - Window)) >= MaxAttempts
    BY <1>3 DEF LockInv, LockoutDeserved
  <2>2. CASE failed'[j] = failed[j]
    BY <1>3, <2>1, <2>2
  <2>3. CASE failed'[j] = Append(failed[j], at)
    <3>1. /\ i \in 1..Len(failed'[j]) /\ failed'[j][i] = failed[j][i]
          /\ Append(failed[j], at) \in Seq(Times)
          /\ \A m \in 1..Len(failed[j]) : Append(failed[j], at)[m] = failed[j][m]
      BY <1>1, <1>2, <2>3, AppendProperties
    <3>2. SubSeq(Append(failed[j], at), 1, i) = SubSeq(failed[j], 1, i)
      BY <1>2, <3>1
    <3> QED BY <1>3, <2>1, <2>3, <3>1, <3>2
  <2>4. failed'[j] = failed[j] \/ failed'[j] = Append(failed[j], at)
    <3>1. LockedUntil(j) \notin 1..at
      BY <1>1, <1>2, <1>3
    <3> QED BY <1>1, <3>1, FailureEffect
  <2> QED BY <2>2, <2>3, <2>4
<1>4. CASE j = attempt[t]
  <2>1. LockedUntil(j)' = Until(j, at)
    BY <1>1, <1>4, FailureEffect
  <2>2. CASE Until(j, at) = LockedUntil(j)
    BY <1>1, <1>3, <2>1, <2>2
  <2>3. CASE Until(j, at) = at + Lockout /\ Len(NewFailures(j, at)) >= MaxAttempts
    <3>1. PICK s \in Seq(Times) : failed'[j] = Append(s, at)
      BY <1>1, <1>4, EmptySeq, FailureEffect DEF TypeInv, TypeOK
    <3> DEFINE n == Len(failed'[j])
    <3>2. /\ n \in 1..n /\ failed'[j][n] = at /\ failed'[j] \in Seq(Times)
          /\ failed'[j] # <<>>
      BY <1>1, <3>1, AppendProperties, LenProperties
    <3>3. SubSeq(failed'[j], 1, n) = failed'[j]
      BY <3>2, SubSeqFull
    <3>4. Len(Since(failed'[j], at - Window)) >= MaxAttempts
      <4>1. Since(NewFailures(j, at), at - Window) = NewFailures(j, at)
        <5>1. Kept(j, at) \in Seq(Window..now) /\ Window..now \subseteq Int
          BY <1>1, KeptType
        <5>2. Kept(j, at) \in Seq(Int) /\ at - Window \in Int /\ at \in Int /\ at >= at - Window
          BY <1>1, <5>1, SeqMonotonic
        <5>3. Since(Kept(j, at), at - Window) = Kept(j, at)
          <6>1. CASE LockedUntil(j) \in 1..at
            BY <1>1, <5>2, <6>1, KeptListed, SinceEmpty
          <6>2. CASE LockedUntil(j) \notin 1..at
            <7>1. Listed(j) \in Seq(Int)
              BY <1>1, ListedType
            <7>2. Since(Since(Listed(j), at - Window), at - Window) = Since(Listed(j), at - Window)
              BY <5>2, <7>1, SinceSince
            <7> QED BY <1>1, <5>2, <6>2, <7>2, KeptListed
          <6> QED BY <6>1, <6>2
        <5> HIDE DEF at
        <5> QED BY <5>2, <5>3, SinceAppend DEF NewFailures
      <4>2. Listed(j)' = NewFailures(j, at)
        BY <1>1, <1>4, FailureEffect
      <4>3. at - Window \in Int
        BY <1>1
      <4>4. Len(Since(Listed(j)', at - Window)) <= Len(Since(failed'[j], at - Window))
        BY <4>3, AccountedFailure DEF Included
      <4>5. Len(NewFailures(j, at)) <= Len(Since(failed'[j], at - Window))
        BY <4>1, <4>2, <4>4
      <4>6. Len(NewFailures(j, at)) \in Nat /\ Len(Since(failed'[j], at - Window)) \in Nat
        <5>1. failed'[j] \in Seq(Int)
          BY <1>1, <3>2, SeqMonotonic
        <5> QED BY <1>1, <4>3, <5>1, NewFailuresType, SinceShorter
      <4> QED BY <2>3, <4>5, <4>6, QuotaAssumption
    <3>5. /\ LockedUntil(j)' = failed'[j][n] + Lockout
          /\ Len(Since(SubSeq(failed'[j], 1, n), failed'[j][n] - Window)) >= MaxAttempts
      BY <2>1, <2>3, <3>2, <3>3, <3>4
    <3> QED BY <3>2, <3>5
  <2>4. Until(j, at) > 0
    <3>1. Until(j, at) \in Int
      BY <1>1, TimesAssumption, UntilType
    <3> QED BY <1>1, <2>1, <3>1
  <2> QED BY <1>1, <2>2, <2>3, <2>4, UntilType
<1>5. CASE j # attempt[t]
  <2>1. LockedUntil(j)' = LockedUntil(j) \/ LockedUntil(j)' = 0
    BY <1>1, <1>5, FailureEffect
  <2> QED BY <1>1, <1>3, <2>1
<1> QED BY <1>4, <1>5

LEMMA LockTick ==
  ASSUME LockInv, tick
  PROVE  Accounted' /\ Included' /\ LockoutEngages' /\ LockoutDeserved'
<1>1. /\ now' = now + 1 /\ now \in Int /\ row' = row /\ failed' = failed
      /\ Window \in Int /\ Delay \in Int /\ Times \subseteq Int /\ Lockout \in Int
  BY TimesAssumption DEF tick, LockInv, TypeInv, TypeOK, Times
<1>2. \A k \in Clients :
        /\ LockedUntil(k)' = LockedUntil(k) /\ LockedUntil(k) \in Int
        /\ Listed(k)' = Listed(k)
  BY <1>1, LockedUntilType DEF LockInv, LockedUntil, Listed
<1>3. Accounted' /\ Included'
  <2>1. \A c \in Int : c >= now' - Window + Delay => c >= now - Window + Delay
    BY <1>1
  <2> QED BY <1>1, <1>2, <2>1 DEF LockInv, Accounted, Included
<1>4. LockoutEngages'
  <2> SUFFICES ASSUME NEW k \in Clients, failed[k] # <<>>,
                      Len(Since(failed[k], failed[k][Len(failed[k])] - (Window - 2 * Delay)))
                        >= MaxAttempts,
                      now' < failed[k][Len(failed[k])] + Lockout
               PROVE  LockedUntil(k)' >= failed[k][Len(failed[k])] + Lockout
    BY <1>1 DEF LockoutEngages
  <2>1. failed[k][Len(failed[k])] \in Int
    <3>1. failed[k] \in Seq(Times) /\ Len(failed[k]) \in 1..Len(failed[k])
      BY EmptySeq DEF LockInv, TypeInv, TypeOK
    <3> QED BY <1>1, <3>1, ElementOfSeq
  <2>2. now < failed[k][Len(failed[k])] + Lockout
    BY <1>1, <2>1
  <2> QED BY <1>2, <2>2 DEF LockInv, LockoutEngages
<1>5. LockoutDeserved'
  <2> SUFFICES ASSUME NEW k \in Clients, LockedUntil(k)' > now'
               PROVE  \E i \in 1..Len(failed[k]) :
                        /\ LockedUntil(k)' = failed[k][i] + Lockout
                        /\ Len(Since(SubSeq(failed[k], 1, i), failed[k][i] - Window)) >= MaxAttempts
    BY <1>1 DEF LockoutDeserved
  <2>1. LockedUntil(k) > now
    BY <1>1, <1>2
  <2> QED BY <1>2, <2>1 DEF LockInv, LockoutDeserved
<1> QED BY <1>3, <1>4, <1>5

LEMMA LockSuccess ==
  ASSUME LockInv, NEW t \in Threads, register_success(t)
  PROVE  Accounted' /\ Included' /\ LockoutEngages' /\ LockoutDeserved'
<1> DEFINE k == attempt[t]
<1>1. k \in Clients /\ now' = now /\ now \in Nat
  BY TimesAssumption DEF register_success, LockInv, TypeInv, TypeOK, Times
<1>2. \A j \in Clients :
        /\ LockedUntil(j)' = IF j = k THEN 0 ELSE LockedUntil(j)
        /\ Listed(j)' = IF j = k THEN <<>> ELSE Listed(j)
        /\ failed'[j] = IF j = k THEN <<>> ELSE failed[j]
  BY <1>1 DEF register_success, LockedUntil, Listed, LockInv, TypeInv, TypeOK
<1> HIDE DEF k
<1>3. Accounted'
  BY <1>1, <1>2 DEF LockInv, Accounted
<1>4. Included'
  <2>1. \A c \in Int : Len(Since(<<>>, c)) <= Len(Since(<<>>, c))
    BY SinceEmpty, EmptySeq
  <2> QED BY <1>1, <1>2, <2>1 DEF LockInv, Included
<1>5. LockoutEngages'
  BY <1>1, <1>2 DEF LockInv, LockoutEngages
<1>6. LockoutDeserved'
  <2> SUFFICES ASSUME NEW j \in Clients, LockedUntil(j)' > now'
               PROVE  \E i \in 1..Len(failed'[j]) :
                        /\ LockedUntil(j)' = failed'[j][i] + Lockout
                        /\ Len(Since(SubSeq(failed'[j], 1, i), failed'[j][i] - Window)) >= MaxAttempts
    BY DEF LockoutDeserved
  <2>1. j # k
    BY <1>1, <1>2
  <2> QED BY <1>1, <1>2, <2>1 DEF LockInv, LockoutDeserved
<1> QED BY <1>3, <1>4, <1>5, <1>6

LEMMA LockInit == Init => LockInv
<1> SUFFICES ASSUME Init PROVE LockInv
  OBVIOUS
<1>1. TypeInv
  BY TypeInit
<1>2. \A k \in Clients : LockedUntil(k) = 0 /\ Listed(k) = <<>> /\ failed[k] = <<>>
  BY DEF Init, LockedUntil, Listed
<1>3. now \in Nat
  BY TimesAssumption DEF Init
<1>4. \A c \in Int : Len(Since(<<>>, c)) <= Len(Since(<<>>, c))
  BY SinceEmpty, EmptySeq
<1> QED BY <1>1, <1>2, <1>3, <1>4 DEF LockInv, Accounted, Included, LockoutEngages, LockoutDeserved

LEMMA LockNext ==
  ASSUME LockInv, [Next]_vars
  PROVE  LockInv'
<1>0. TypeInv'
  BY TypeNext DEF LockInv
<1>1. ASSUME UNCHANGED <<now, row, failed>>
      PROVE  LockInv'
  BY <1>0, <1>1 DEF LockInv, Accounted, Included, Listed, LockedUntil, LockoutEngages,
                    LockoutDeserved
<1>2. ASSUME NEW t \in Threads, NEW k \in Clients, lockout_remaining(t, k)
      PROVE  LockInv'
  BY <1>1, <1>2 DEF lockout_remaining
<1>3. ASSUME NEW t \in Threads, register_failure(t)
      PROVE  LockInv'
  BY <1>0, <1>3, AccountedFailure, EngagesFailure, DeservedFailure DEF LockInv
<1>4. ASSUME NEW t \in Threads, register_success(t)
      PROVE  LockInv'
  BY <1>0, <1>4, LockSuccess DEF LockInv
<1>5. ASSUME NEW t \in Threads, read_clock(t) \/ give_up(t)
      PROVE  LockInv'
  BY <1>1, <1>5 DEF read_clock, give_up
<1>6. CASE tick
  BY <1>0, <1>6, LockTick DEF LockInv
<1>7. CASE restart
  BY <1>1, <1>7 DEF restart
<1>8. CASE UNCHANGED vars
  BY <1>1, <1>8 DEF vars
<1> QED BY <1>2, <1>3, <1>4, <1>5, <1>6, <1>7, <1>8 DEF Next

LEMMA LockAlways == Spec => []LockInv
<1>1. LockInv /\ [Next]_vars => LockInv'
  BY LockNext
<1> QED BY <1>1, LockInit, PTL DEF Spec

\* Enough failures within a window less twice the delay lock a client out for
\* a whole lockout after the last of them, in whatever order the requests that
\* overlap store them, and whatever the purge of register_failure and restarts
\* do to the table in between.
THEOREM LockoutsEngage == Spec => []LockoutEngages
<1>1. LockInv => LockoutEngages
  BY DEF LockInv
<1> QED BY <1>1, LockAlways, PTL

\* Nobody is locked out but for that many failures of which none lies more
\* than a window before one of them, all after his last login and after the
\* last lockout that was over by the time of a failure.
THEOREM LockoutsAreDeserved == Spec => []LockoutDeserved
<1>1. LockInv => LockoutDeserved
  BY DEF LockInv
<1> QED BY <1>1, LockAlways, PTL

-----------------------------------------------------------------------------
(* What slips through a lockout *)

\* The requests that check a password of this client.
InFlight(k) == {t \in Threads : attempt[t] = k}

\* While a lockout turns requests away, every failure that slips through was
\* in flight when it began: each uses up a thread, and the thread whose
\* failure began the lockout is not among them.
SlipInv ==
    /\ TypeInv
    /\ \A k \in Clients : Remaining(k) = 0 => slipped[k] = 0
    /\ \A k \in Clients :
         Remaining(k) > 0 => slipped[k] + Cardinality(InFlight(k)) < Cardinality(Threads)

LEMMA RemainingIs ==
  ASSUME NEW until \in Int, NEW at \in Int
  PROVE  /\ Max2(0, (until - at) \div Second) \in Nat
         /\ Max2(0, (until - at) \div Second) > 0 <=> until - at >= Second
<1>1. until - at \in Int
  OBVIOUS
<1>2. (until - at) \div Second \in Int /\ ((until - at) \div Second > 0 <=> until - at >= Second)
  BY <1>1, DivPositive
<1> QED BY <1>2 DEF Max2

LEMMA NothingRemains ==
  ASSUME NEW at \in Nat
  PROVE  Max2(0, (0 - at) \div Second) = 0
<1>1. ~(0 - at >= Second)
  BY QuotaAssumption
<1> QED BY <1>1, RemainingIs

LEMMA RemainingType ==
  ASSUME TypeInv, NEW k \in Clients
  PROVE  /\ LockedUntil(k) \in Int /\ Remaining(k) \in Nat
         /\ Remaining(k) > 0 <=> LockedUntil(k) - now >= Second
<1>1. LockedUntil(k) \in Int /\ now \in Int
  BY TimesAssumption DEF LockedUntil, TypeInv, TypeOK, Times, Rows
<1> QED BY <1>1, RemainingIs DEF Remaining

\* One thread's attempt at most is in flight beside what the others have.
LEMMA InFlightCount ==
  ASSUME NEW k
  PROVE  /\ IsFiniteSet(InFlight(k)) /\ Cardinality(InFlight(k)) \in Nat
         /\ Cardinality(Threads) \in Nat
         /\ \A t \in InFlight(k) :
              Cardinality(InFlight(k) \ {t}) = Cardinality(InFlight(k)) - 1
         /\ Cardinality(InFlight(k)) <= Cardinality(Threads)
<1>1. InFlight(k) \subseteq Threads
  BY DEF InFlight
<1>2. IsFiniteSet(InFlight(k)) /\ Cardinality(InFlight(k)) <= Cardinality(Threads)
  BY <1>1, PoolAssumption, FS_Subset
<1> QED BY <1>2, PoolAssumption, FS_CardinalityType, FS_RemoveElement

LEMMA SlipFailure ==
  ASSUME SlipInv, NEW t \in Threads, register_failure(t)
  PROVE  SlipInv'
<1>0. TypeInv
  BY DEF SlipInv
<1> PICK k \in Clients : k = attempt[t]
  BY <1>0, FailureDate
<1>1. TypeInv' /\ now' = now /\ now \in Int /\ Second \in Nat \ {0}
  <2>1. TypeInv'
    BY <1>0, TypeFailure
  <2>2. now' = now /\ now \in Int
    BY <1>0, FailureDate
  <2> QED BY <2>1, <2>2, QuotaAssumption
<1>2. \A j \in Clients :
        slipped'[j] = IF j = k /\ Remaining(k) > 0 THEN slipped[j] + 1 ELSE slipped[j]
  BY <1>0, <1>1 DEF register_failure, TypeInv, TypeOK
<1>3. \A j \in Clients : InFlight(j)' = IF j = k THEN InFlight(j) \ {t} ELSE InFlight(j)
  BY <1>0, NullAssumption DEF register_failure, InFlight, TypeInv, TypeOK
<1>4. t \in InFlight(k)
  BY DEF InFlight
<1>5. \A j \in Clients :
        /\ LockedUntil(j) \in Int /\ Remaining(j) \in Nat /\ slipped[j] \in Nat
        /\ Remaining(j) > 0 <=> LockedUntil(j) - now >= Second
  BY <1>0, <1>1, RemainingType DEF TypeInv, TypeOK
<1>6. \A j \in Clients :
        /\ LockedUntil(j)' \in Int /\ Remaining(j)' \in Nat
        /\ Remaining(j)' > 0 <=> LockedUntil(j)' - now >= Second
  <2>1. \A j \in Clients : LockedUntil(j)' \in Int
    BY <1>0, <1>1, TimesAssumption DEF LockedUntil, TypeInv, TypeOK, Rows
  <2> QED BY <1>0, <1>1, <2>1, RemainingIs DEF Remaining
<1>7. ASSUME NEW j \in Clients, j # k
      PROVE  (Remaining(j)' > 0 <=> Remaining(j) > 0) /\ slipped'[j] = slipped[j]
             /\ InFlight(j)' = InFlight(j)
  <2>1. (LockedUntil(j)' = 0 /\ LockedUntil(j) <= clock[t]) \/ LockedUntil(j)' = LockedUntil(j)
    BY <1>0, <1>1, <1>7, FailureEffect
  <2>2. clock[t] \in Int /\ clock[t] <= now
    BY <1>0, FailureDate
  <2>3. now >= 0
    BY <1>0, FailureDate
  <2> QED BY <1>0, <1>1, <1>2, <1>3, <1>5, <1>6, <1>7, <2>1, <2>2, <2>3
<1>8. LockedUntil(k) - now >= Second => LockedUntil(k)' >= LockedUntil(k)
  <2>1. LockedUntil(k)' = Until(k, clock[t])
    BY <1>0, <1>1, FailureEffect
  <2>2. clock[t] \in Window..now /\ clock[t] \in Int /\ clock[t] <= now
    BY <1>0, FailureDate
  <2>3. LockedUntil(k) - now >= Second => LockedUntil(k) > clock[t]
    BY <1>0, <1>1, <1>5, <2>2
  <2> QED BY <1>0, <1>1, <2>1, <2>2, <2>3, UntilType
<1>9. ASSUME NEW j \in Clients, Remaining(j)' = 0
      PROVE  slipped'[j] = 0
  <2>1. CASE j = k
    <3>1. ~(Remaining(k) > 0)
      BY <1>0, <1>1, <1>5, <1>6, <1>8, <1>9, <2>1
    <3> QED BY <1>0, <1>1, <1>2, <1>5, <2>1, <3>1 DEF SlipInv
  <2>2. CASE j # k
    BY <1>5, <1>6, <1>7, <1>9, <2>2 DEF SlipInv
  <2> QED BY <2>1, <2>2
<1>10. ASSUME NEW j \in Clients, Remaining(j)' > 0
       PROVE  slipped'[j] + Cardinality(InFlight(j)') < Cardinality(Threads)
  <2>1. CASE j # k
    BY <1>5, <1>7, <1>10, <2>1 DEF SlipInv
  <2>2. CASE j = k
    <3>1. Cardinality(InFlight(k)') = Cardinality(InFlight(k)) - 1
      BY <1>0, <1>1, <1>3, <1>4, InFlightCount
    <3>2. Cardinality(InFlight(k)) \in Nat /\ Cardinality(Threads) \in Nat
          /\ Cardinality(InFlight(k)) <= Cardinality(Threads)
      BY InFlightCount
    <3>3. CASE Remaining(k) > 0
      <4>1. slipped'[k] = slipped[k] + 1
        BY <1>0, <1>1, <1>2, <3>3
      <4>2. slipped[k] + Cardinality(InFlight(k)) < Cardinality(Threads)
        BY <1>0, <1>1, <3>3 DEF SlipInv
      <4>3. slipped[k] \in Nat
        BY <1>0, <1>1, <1>5
      <4> QED BY <2>2, <3>1, <3>2, <4>1, <4>2, <4>3
    <3>4. CASE ~(Remaining(k) > 0)
      <4>1. Remaining(k) = 0
        BY <1>0, <1>1, <1>5, <3>4
      <4>2. slipped'[k] = 0
        BY <1>0, <1>1, <1>2, <3>4, <4>1 DEF SlipInv
      <4> QED BY <2>2, <3>1, <3>2, <4>2
    <3> QED BY <3>3, <3>4
  <2> QED BY <2>1, <2>2
<1> QED BY <1>0, <1>1, <1>9, <1>10 DEF SlipInv

LEMMA SlipStart ==
  ASSUME SlipInv, NEW t \in Threads, NEW c \in Clients, lockout_remaining(t, c)
  PROVE  SlipInv'
<1>1. TypeInv /\ TypeInv'
  BY TypeNext DEF Next, SlipInv
<1>2. \A j \in Clients : Remaining(j)' = Remaining(j) /\ slipped'[j] = slipped[j]
  BY DEF lockout_remaining, Remaining, LockedUntil
<1>3. \A j \in Clients : Remaining(j) > 0 => InFlight(j)' = InFlight(j)
  <2>1. Remaining(c) = 0 /\ attempt[t] \notin Clients
    BY NullAssumption DEF lockout_remaining
  <2>2. \A j \in Clients : j # c => InFlight(j)' = InFlight(j)
    BY <1>1, <2>1 DEF lockout_remaining, InFlight, TypeInv, TypeOK
  <2> QED BY <2>1, <2>2
<1> QED BY <1>1, <1>2, <1>3 DEF SlipInv

LEMMA SlipSuccess ==
  ASSUME SlipInv, NEW t \in Threads, register_success(t)
  PROVE  SlipInv'
<1>1. TypeInv /\ TypeInv'
  BY TypeNext DEF Next, SlipInv
<1> PICK k \in Clients : k = attempt[t]
  BY <1>1 DEF register_success, TypeInv, TypeOK
<1>2. now' = now /\ now \in Nat
  BY <1>1, TimesAssumption DEF register_success, TypeInv, TypeOK, Times
<1>3. Remaining(k)' = 0 /\ slipped'[k] = 0
  <2>1. LockedUntil(k)' = 0 /\ slipped'[k] = 0
    BY <1>1 DEF register_success, LockedUntil, TypeInv, TypeOK
  <2> QED BY <1>2, <2>1, NothingRemains DEF Remaining
<1>4. \A j \in Clients : j # k =>
        Remaining(j)' = Remaining(j) /\ slipped'[j] = slipped[j] /\ InFlight(j)' = InFlight(j)
  BY <1>1, <1>2, NullAssumption
     DEF register_success, Remaining, LockedUntil, InFlight, TypeInv, TypeOK
<1> QED BY <1>1, <1>3, <1>4 DEF SlipInv

LEMMA SlipTick ==
  ASSUME SlipInv, tick
  PROVE  SlipInv'
<1>1. TypeInv /\ TypeInv'
  BY TypeNext DEF Next, SlipInv
<1>2. now \in Int /\ now' = now + 1 /\ Second \in Nat \ {0}
  BY <1>1, TimesAssumption, QuotaAssumption DEF tick, TypeInv, TypeOK, Times
<1>3. \A k \in Clients :
        /\ LockedUntil(k)' = LockedUntil(k) /\ InFlight(k)' = InFlight(k)
        /\ slipped'[k] = IF LockedUntil(k) - now' < Second THEN 0 ELSE slipped[k]
  BY DEF tick, LockedUntil, InFlight
<1>4. \A k \in Clients :
        /\ LockedUntil(k) \in Int /\ Remaining(k) \in Nat
        /\ Remaining(k) > 0 <=> LockedUntil(k) - now >= Second
  BY <1>1, RemainingType
<1>5. \A k \in Clients :
        /\ Remaining(k)' \in Nat
        /\ Remaining(k)' > 0 <=> LockedUntil(k) - now' >= Second
  <2>1. now' \in Int
    BY <1>2
  <2> QED BY <1>3, <1>4, <2>1, RemainingIs DEF Remaining
<1>6. ASSUME NEW k \in Clients, Remaining(k)' = 0
      PROVE  slipped'[k] = 0
  <2>1. LockedUntil(k) - now' < Second
    BY <1>2, <1>4, <1>5, <1>6
  <2> QED BY <1>3, <2>1
<1>7. ASSUME NEW k \in Clients, Remaining(k)' > 0
      PROVE  slipped'[k] + Cardinality(InFlight(k)') < Cardinality(Threads)
  <2>1. LockedUntil(k) - now' >= Second /\ Remaining(k) > 0
    BY <1>2, <1>4, <1>5, <1>7
  <2>2. slipped'[k] = slipped[k]
    BY <1>2, <1>3, <1>4, <2>1
  <2> QED BY <1>3, <2>1, <2>2 DEF SlipInv
<1> QED BY <1>1, <1>6, <1>7 DEF SlipInv

LEMMA SlipRestart ==
  ASSUME SlipInv, restart
  PROVE  SlipInv'
<1>1. TypeInv /\ TypeInv'
  BY TypeNext DEF Next, SlipInv
<1>2. \A k \in Clients : Remaining(k)' = Remaining(k) /\ slipped'[k] = slipped[k]
  BY DEF restart, Remaining, LockedUntil
<1>3. \A k \in Clients : InFlight(k)' = {}
  BY NullAssumption DEF restart, InFlight
<1>4. ASSUME NEW k \in Clients, Remaining(k) > 0
      PROVE  slipped[k] + Cardinality({}) < Cardinality(Threads)
  <2>1. slipped[k] + Cardinality(InFlight(k)) < Cardinality(Threads) /\ slipped[k] \in Nat
    BY <1>1, <1>4 DEF SlipInv, TypeInv, TypeOK
  <2>2. Cardinality({}) = 0
    BY FS_EmptySet
  <2> QED BY <2>1, <2>2, InFlightCount
<1> QED BY <1>1, <1>2, <1>3, <1>4 DEF SlipInv

\* A failure that is dated, or an attempt that is given up, adds nothing.
LEMMA SlipOther ==
  ASSUME SlipInv, NEW t \in Threads, read_clock(t) \/ give_up(t)
  PROVE  SlipInv'
<1>1. TypeInv /\ TypeInv'
  BY TypeNext DEF Next, SlipInv
<1>2. \A k \in Clients : Remaining(k)' = Remaining(k) /\ slipped'[k] = slipped[k]
  BY DEF read_clock, give_up, Remaining, LockedUntil
<1>3. ASSUME NEW k \in Clients
      PROVE  /\ Cardinality(InFlight(k)') <= Cardinality(InFlight(k))
             /\ Cardinality(InFlight(k)') \in Nat /\ Cardinality(InFlight(k)) \in Nat
  <2>1. InFlight(k)' \subseteq InFlight(k)
    BY <1>1, NullAssumption DEF read_clock, give_up, InFlight, TypeInv, TypeOK
  <2>2. IsFiniteSet(InFlight(k)) /\ Cardinality(InFlight(k)) \in Nat
    BY InFlightCount
  <2> QED BY <2>1, <2>2, FS_Subset, FS_CardinalityType
<1>4. ASSUME NEW k \in Clients, Remaining(k) > 0
      PROVE  slipped[k] + Cardinality(InFlight(k)') < Cardinality(Threads)
  <2>1. /\ slipped[k] + Cardinality(InFlight(k)) < Cardinality(Threads)
        /\ slipped[k] \in Nat
    BY <1>1, <1>4 DEF SlipInv, TypeInv, TypeOK
  <2> QED BY <1>3, <2>1, InFlightCount
<1> QED BY <1>1, <1>2, <1>4 DEF SlipInv

LEMMA SlipInit == Init => SlipInv
<1> SUFFICES ASSUME Init PROVE SlipInv
  OBVIOUS
<1>1. now \in Nat /\ TypeInv
  BY TypeInit, TimesAssumption DEF Init
<1>2. \A k \in Clients : Remaining(k) = 0
  BY <1>1, NothingRemains DEF Init, Remaining, LockedUntil
<1> QED BY <1>1, <1>2 DEF Init, SlipInv

LEMMA SlipNext ==
  ASSUME SlipInv, [Next]_vars
  PROVE  SlipInv'
<1>1. CASE UNCHANGED vars
  BY <1>1 DEF vars, SlipInv, TypeInv, TypeOK, Dates, Remaining, LockedUntil, InFlight
<1>2. CASE Next
  BY <1>2, SlipStart, SlipFailure, SlipSuccess, SlipOther, SlipTick, SlipRestart DEF Next
<1> QED BY <1>1, <1>2

\* During a lockout no more failures are registered than requests that were
\* already past the check when it began: fewer than the pool has threads.
THEOREM SlipsAreBounded == Spec => []SlipBounded
<1>1. SlipInv => SlipBounded
  <2> SUFFICES ASSUME SlipInv, NEW k \in Clients
               PROVE  slipped[k] < Cardinality(Threads)
    BY DEF SlipBounded
  <2>1. slipped[k] \in Nat /\ Remaining(k) \in Nat
    BY RemainingType DEF SlipInv, TypeInv, TypeOK
  <2>2. Cardinality(InFlight(k)) \in Nat /\ Cardinality(Threads) \in Nat
    BY InFlightCount
  <2>3. Cardinality(Threads) # 0
    BY PoolAssumption, FS_EmptySet
  <2>4. CASE Remaining(k) = 0
    BY <2>2, <2>3, <2>4 DEF SlipInv
  <2>5. CASE Remaining(k) > 0
    BY <2>1, <2>2, <2>5 DEF SlipInv
  <2> QED BY <2>1, <2>4, <2>5
<1>2. SlipInv /\ [Next]_vars => SlipInv'
  BY SlipNext
<1> QED BY <1>1, <1>2, SlipInit, PTL DEF Spec
=============================================================================
