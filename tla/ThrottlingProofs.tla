-------------------------- MODULE ThrottlingProofs --------------------------
(***************************************************************************)
(* Proofs about Throttling, for any limits, any window, any number of      *)
(* concurrent logins and of faults.                                        *)
(*                                                                         *)
(* A window is bounded because what a limiter remembers of it is: every    *)
(* request of the history is one a limiter still remembers as long as it   *)
(* is in the window, whatever trims the limiter meanwhile, and no limiter  *)
(* takes a request beyond its limit.  This is stated of every age up to    *)
(* the window at once, so that it survives a tick of the clock.            *)
(*                                                                         *)
(* Wrong passwords are counted in two phases: while the account is short   *)
(* of its limit every guess is counted or about to be; after that every    *)
(* login that guesses goes on to lock the account.                         *)
(***************************************************************************)
EXTENDS Throttling, Integers, FiniteSetTheorems, SequenceTheorems, WellFoundedInduction, TLAPS

----------------------------------------------------------------------------
(* What a window keeps. *)

\* A set of natural numbers that is not empty has a smallest member.
LEMMA Smallest ==
    ASSUME NEW T \in SUBSET Nat, T # {}
    PROVE  \E m \in T : \A k \in T : m <= k
<1>. DEFINE R == OpToRel(<, Nat)
<1>1. IsWellFoundedOn(R, Nat)
  BY NatLessThanWellFounded
<1>2. \A x, y \in Nat : x < y => <<x, y>> \in R
  BY DEF OpToRel
<1>. HIDE DEF R
<1>3. PICK x \in T : \A y \in T : ~(<<y, x>> \in R)
  BY <1>1, WFMin, Zenon
<1>4. \A y \in T : y \in Nat /\ x \in Nat /\ ~(y < x)
  BY <1>2, <1>3, Zenon
<1>5. \A y \in T : x <= y
  BY <1>4
<1>. QED
  BY <1>5, Zenon

\* Ages are natural numbers.
LEMMA AgesAre == Window \in Nat \ {0} /\ 0 \in Ages /\ \A a \in Ages : a \in Nat /\ a \in Int
BY PositiveAssumption DEF Ages

\* trim's loop ends: there is a first entry that is young enough, or the end.
LEMMA FirstIs ==
    ASSUME NEW s \in Seq(Ages), NEW n \in Int
    PROVE  /\ First(s, n) \in 1 .. Len(s) + 1
           /\ First(s, n) <= Len(s) => s[First(s, n)] <= n
           /\ \A j \in 1 .. First(s, n) - 1 : s[j] > n
<1>. DEFINE P(i) == /\ i <= Len(s) => s[i] <= n
                    /\ \A j \in 1 .. i - 1 : s[j] > n
            T == {i \in 1 .. Len(s) + 1 : i <= Len(s) => s[i] <= n}
<1>0. Len(s) \in Nat /\ (\A i \in 1 .. Len(s) : s[i] \in Int)
  <2>1. Len(s) \in Nat /\ (\A i \in 1 .. Len(s) : s[i] \in Ages)
    OBVIOUS
  <2>. QED
    BY <2>1, AgesAre, Zenon
<1>1. T \in SUBSET Nat /\ Len(s) + 1 \in T
  BY <1>0
<1>2. PICK m \in T : \A k \in T : m <= k
  BY <1>1, Smallest, Zenon
<1>3. m \in 1 .. Len(s) + 1 /\ (m <= Len(s) => s[m] <= n)
  BY <1>2
<1>4. ASSUME NEW j \in 1 .. m - 1 PROVE s[j] > n
  <2>1. j \in 1 .. Len(s) /\ j \notin T
    BY <1>0, <1>2, <1>3
  <2>. QED
    BY <1>0, <2>1
<1>5. \E i \in 1 .. Len(s) + 1 : P(i)
  BY <1>3, <1>4
<1>6. First(s, n) = CHOOSE i \in 1 .. Len(s) + 1 : P(i)
  BY Zenon DEF First
<1>. HIDE DEF P
<1>7. First(s, n) \in 1 .. Len(s) + 1 /\ P(First(s, n))
  BY <1>5, <1>6, Zenon
<1>. QED
  BY <1>7, Zenon DEF P

\* Since keeps the entries from the first one on.
LEMMA SinceIs ==
    ASSUME NEW s \in Seq(Ages), NEW n \in Int
    PROVE  /\ Since(s, n) \in Seq(Ages)
           /\ Len(Since(s, n)) = Len(s) + 1 - First(s, n)
           /\ \A i \in 1 .. Len(s) + 1 - First(s, n) : Since(s, n)[i] = s[First(s, n) + i - 1]
<1>. DEFINE f == First(s, n)
<1>1. f \in 1 .. Len(s) + 1 /\ Len(s) \in Nat
  BY FirstIs
<1>2. \A i \in f .. Len(s) : s[i] \in Ages
  BY <1>1
<1>. HIDE DEF f
<1>3. /\ SubSeq(s, f, Len(s)) \in Seq(Ages)
      /\ Len(SubSeq(s, f, Len(s))) = IF f <= Len(s) THEN Len(s) - f + 1 ELSE 0
      /\ \A i \in 1 .. Len(s) - f + 1 : SubSeq(s, f, Len(s))[i] = s[f + i - 1]
  <2>1. f \in Int /\ Len(s) \in Int
    BY <1>1
  <2>. QED
    BY <1>2, <2>1, SubSeqProperties
<1>4. Len(SubSeq(s, f, Len(s))) = Len(s) + 1 - f /\ Len(s) - f + 1 = Len(s) + 1 - f
  BY <1>1, <1>3
<1>. QED
  BY <1>3, <1>4, Zenon DEF Since, f

----------------------------------------------------------------------------
(* How many entries are young. *)

Young(s, k) == {i \in DOMAIN s : s[i] <= k}

\* A member is an entry, and young.
LEMMA YoungIs ==
    ASSUME NEW s \in Seq(Ages), NEW k
    PROVE  /\ Len(s) \in Nat
           /\ \A i : i \in Young(s, k) <=> i \in 1 .. Len(s) /\ s[i] <= k
           /\ \A i \in 1 .. Len(s) : s[i] \in Nat
<1>1. DOMAIN s = 1 .. Len(s) /\ Len(s) \in Nat /\ (\A i \in 1 .. Len(s) : s[i] \in Ages)
  OBVIOUS
<1>. QED
  BY <1>1, AgesAre, Zenon DEF Young

\* They are finitely many, at most the entries there are, and at most the ones that are
\* young for a larger age.
LEMMA WithinIs ==
    ASSUME NEW s \in Seq(Ages), NEW k \in Int
    PROVE  /\ Within(s, k) = Cardinality(Young(s, k)) /\ IsFiniteSet(Young(s, k))
           /\ Within(s, k) \in Nat /\ Within(s, k) <= Len(s)
<1>1. DOMAIN s = 1 .. Len(s) /\ Len(s) \in Nat
  OBVIOUS
<1>2. IsFiniteSet(1 .. Len(s)) /\ Cardinality(1 .. Len(s)) = Len(s)
  <2>1. 1 \in Int /\ Len(s) \in Int /\ (1 > Len(s) => Len(s) = 0) /\ Len(s) - 1 + 1 = Len(s)
    BY <1>1
  <2>2. /\ IsFiniteSet(1 .. Len(s))
        /\ Cardinality(1 .. Len(s)) = IF 1 > Len(s) THEN 0 ELSE Len(s) - 1 + 1
    BY <2>1, FS_Interval, Zenon
  <2>. QED
    BY <2>1, <2>2, Zenon
<1>3. Young(s, k) \in SUBSET (1 .. Len(s))
  BY <1>1, Zenon DEF Young
<1>4. IsFiniteSet(Young(s, k)) /\ Cardinality(Young(s, k)) <= Len(s)
  BY <1>2, <1>3, FS_Subset
<1>5. Within(s, k) = Cardinality(Young(s, k))
  BY Zenon DEF Within, Young
<1>. QED
  BY <1>4, <1>5, FS_CardinalityType

\* A larger age counts more.
LEMMA WithinGrows ==
    ASSUME NEW s \in Seq(Ages), NEW k \in Int, NEW m \in Int, k <= m
    PROVE  Within(s, k) <= Within(s, m)
<1>1. Young(s, k) \in SUBSET Young(s, m)
  BY YoungIs
<1>2. /\ Within(s, k) = Cardinality(Young(s, k))
      /\ Within(s, m) = Cardinality(Young(s, m)) /\ IsFiniteSet(Young(s, m))
  BY WithinIs, Zenon
<1>. QED
  BY <1>1, <1>2, FS_Subset, Zenon

\* A request that is let through counts at once.
LEMMA WithinAppend ==
    ASSUME NEW s \in Seq(Ages), NEW k \in Nat
    PROVE  Append(s, 0) \in Seq(Ages) /\ Within(Append(s, 0), k) = Within(s, k) + 1
<1>. DEFINE t == Append(s, 0)
<1>1. 0 \in Ages /\ Len(s) \in Nat /\ DOMAIN s = 1 .. Len(s)
  BY PositiveAssumption DEF Ages
<1>2. /\ t \in Seq(Ages) /\ Len(t) = Len(s) + 1
      /\ \A i \in 1 .. Len(s) : t[i] = s[i]
      /\ t[Len(s) + 1] = 0
  BY <1>1, AppendProperties
<1>. HIDE DEF t
<1>4. Young(t, k) = Young(s, k) \cup {Len(s) + 1}
  <2>1. \A i : i \in Young(t, k) <=> i \in 1 .. Len(s) + 1 /\ t[i] <= k
    BY <1>2, YoungIs, Zenon
  <2>2. \A i : i \in Young(s, k) <=> i \in 1 .. Len(s) /\ s[i] <= k
    BY YoungIs, Zenon
  <2>. QED
    BY <1>1, <1>2, <2>1, <2>2
<1>5. Len(s) + 1 \notin Young(s, k)
  BY <1>1, YoungIs
<1>6. /\ IsFiniteSet(Young(s, k)) /\ Within(s, k) = Cardinality(Young(s, k))
      /\ Within(t, k) = Cardinality(Young(t, k))
  <2>1. k \in Int
    OBVIOUS
  <2>. QED
    BY <1>2, <2>1, WithinIs, Zenon
<1>7. Cardinality(Young(t, k)) = Cardinality(Young(s, k)) + 1
  BY <1>4, <1>5, <1>6, FS_AddElement, Zenon
<1>. QED
  BY <1>2, <1>6, <1>7, Zenon DEF t

\* What is dropped because it is older than n was not young for n.
LEMMA WithinSince ==
    ASSUME NEW s \in Seq(Ages), NEW n \in Int, NEW k \in Int, k <= n
    PROVE  Since(s, n) \in Seq(Ages) /\ Within(Since(s, n), k) = Within(s, k)
<1>. DEFINE t == Since(s, n)
            f == First(s, n)
            g == [i \in Young(t, k) |-> f + i - 1]
<1>0. Len(s) \in Nat /\ \A j \in 1 .. Len(s) : s[j] \in Nat
  BY YoungIs, Zenon
<1>1. f \in 1 .. Len(s) + 1 /\ \A j \in 1 .. f - 1 : s[j] > n
  BY FirstIs, Zenon
<1>2. /\ t \in Seq(Ages) /\ Len(t) = Len(s) + 1 - f
      /\ \A i \in 1 .. Len(s) + 1 - f : t[i] = s[f + i - 1]
  BY SinceIs, Zenon
<1>. HIDE DEF t, f
<1>3. /\ \A i : i \in Young(t, k) <=> i \in 1 .. Len(s) + 1 - f /\ t[i] <= k
      /\ \A i : i \in Young(s, k) <=> i \in 1 .. Len(s) /\ s[i] <= k
  BY <1>2, YoungIs, Zenon
<1>4. ASSUME NEW i \in Young(t, k) PROVE g[i] \in Young(s, k)
  <2>1. i \in 1 .. Len(s) + 1 - f /\ t[i] <= k
    BY <1>3
  <2>2. f + i - 1 \in 1 .. Len(s) /\ t[i] = s[f + i - 1]
    BY <1>0, <1>1, <1>2, <2>1
  <2>3. f + i - 1 \in Young(s, k)
    BY <1>3, <2>1, <2>2
  <2>. QED
    BY <2>3
<1>5. ASSUME NEW i \in Young(t, k), NEW j \in Young(t, k), g[i] = g[j] PROVE i = j
  BY <1>0, <1>1, <1>3, <1>5
<1>6. ASSUME NEW j \in Young(s, k) PROVE \E i \in Young(t, k) : g[i] = j
  <2>1. j \in 1 .. Len(s) /\ s[j] <= k /\ j >= f
    BY <1>0, <1>1, <1>3
  <2>2. j - f + 1 \in 1 .. Len(s) + 1 - f /\ f + (j - f + 1) - 1 = j
    BY <1>0, <1>1, <2>1
  <2>3. j - f + 1 \in Young(t, k)
    BY <1>2, <1>3, <2>1, <2>2
  <2>. QED
    BY <2>2, <2>3
<1>7. g \in Bijection(Young(t, k), Young(s, k))
  <2>1. g \in [Young(t, k) -> Young(s, k)]
    BY <1>4
  <2>. HIDE DEF g
  <2>. QED
    BY <1>5, <1>6, <2>1, Zenon DEF Bijection, Injection, Surjection, IsInjective
<1>8. Cardinality(Young(s, k)) = Cardinality(Young(t, k))
  BY <1>2, <1>7, WithinIs, FS_Bijection, Zenon DEF ExistsBijection
<1>. QED
  BY <1>2, <1>8, WithinIs, Zenon DEF t

\* A tick takes every age one further, so what is young then was younger before.
LEMMA WithinOlder ==
    ASSUME NEW s \in Seq(Ages)
    PROVE  /\ Older(s) \in Seq(Ages)
           /\ Within(Older(s), 0) = 0
           /\ \A k \in 1 .. Window : Within(Older(s), k) = Within(s, k - 1)
<1>. DEFINE t == Older(s)
<1>0. Window \in Nat
  BY PositiveAssumption
<1>1. Len(s) \in Nat /\ DOMAIN s = 1 .. Len(s) /\ \A i \in 1 .. Len(s) : s[i] \in Ages
  OBVIOUS
<1>2. t = [i \in 1 .. Len(s) |-> IF s[i] > Window THEN s[i] ELSE s[i] + 1]
  BY <1>1, Zenon DEF Older
<1>3. \A i \in 1 .. Len(s) : t[i] \in Ages /\ t[i] = IF s[i] > Window THEN s[i] ELSE s[i] + 1
  BY <1>0, <1>1, <1>2 DEF Ages
<1>4. t \in [1 .. Len(s) -> Ages]
  BY <1>2, <1>3, Zenon
<1>. HIDE DEF t
<1>5. t \in Seq(Ages) /\ Len(t) = Len(s)
  BY <1>1, <1>4
<1>6. /\ \A i, k : i \in Young(t, k) <=> i \in 1 .. Len(s) /\ t[i] <= k
      /\ \A i, k : i \in Young(s, k) <=> i \in 1 .. Len(s) /\ s[i] <= k
  BY <1>5, YoungIs, Zenon
<1>7. Within(t, 0) = 0
  <2>1. Young(t, 0) = {}
    BY <1>0, <1>1, <1>3, <1>6 DEF Ages
  <2>2. Within(t, 0) = Cardinality(Young(t, 0))
    BY <1>5, WithinIs
  <2>. QED
    BY <2>1, <2>2, FS_EmptySet, Zenon
<1>8. ASSUME NEW k \in 1 .. Window PROVE Within(t, k) = Within(s, k - 1)
  <2>0. \A i \in 1 .. Len(s) : t[i] <= k <=> s[i] <= k - 1
    BY <1>0, <1>1, <1>3 DEF Ages
  <2>1. Young(t, k) = Young(s, k - 1)
    <3>1. \A i : i \in Young(t, k) <=> i \in Young(s, k - 1)
      BY <1>6, <2>0, Zenon
    <3>. QED
      BY <3>1
  <2>2. k \in Int /\ k - 1 \in Int
    BY <1>0
  <2>. QED
    BY <1>5, <2>1, <2>2, WithinIs, Zenon
<1>. QED
  BY <1>5, <1>7, <1>8, Zenon DEF t

\* Of the entries no more than the ones Since keeps are young.
LEMMA WithinKept ==
    ASSUME NEW s \in Seq(Ages), NEW n \in Int
    PROVE  Within(s, n) <= Len(Since(s, n))
BY WithinSince, WithinIs

----------------------------------------------------------------------------
(* MemoryLimiter and the script. *)

\* Every login of the history is one the limiter remembers as long as it is in the
\* window, and the limiter remembers no more than its limit.
LInv == /\ logins \in Seq(Ages) /\ admitted \in Seq(Ages)
        /\ \A k \in 0 .. Window : Within(admitted, k) <= Within(logins, k)
        /\ Within(logins, Window) <= LoginRPM

\* A limiter with the window n after a request, whether it lets it through or not.
Passes(s, n, limit) == Len(Since(s, n)) < limit
After(s, n, limit) == IF Passes(s, n, limit) THEN Append(Since(s, n), 0) ELSE Since(s, n)

\* It remembers the request it lets through and no more than its limit.
LEMMA AfterIs ==
    ASSUME NEW s \in Seq(Ages), NEW n \in Nat, NEW limit \in Nat, Within(s, n) <= limit
    PROVE  /\ After(s, n, limit) \in Seq(Ages) /\ Within(After(s, n, limit), n) <= limit
           /\ \A k \in 0 .. n : Within(After(s, n, limit), k) =
                IF Passes(s, n, limit) THEN Within(s, k) + 1 ELSE Within(s, k)
<1>1. Since(s, n) \in Seq(Ages) /\ \A k \in 0 .. n : Within(Since(s, n), k) = Within(s, k)
  BY WithinSince
<1>2. Within(s, n) <= Len(Since(s, n))
  BY WithinKept
<1>3. n \in 0 .. n /\ \A k \in 0 .. n : Within(s, k) \in Nat
  <2>1. n \in 0 .. n /\ \A k \in 0 .. n : k \in Int
    OBVIOUS
  <2>. QED
    BY <2>1, WithinIs, Zenon
<1>4. CASE Passes(s, n, limit)
  <2>. DEFINE t == Append(Since(s, n), 0)
  <2>0. After(s, n, limit) = t
    BY <1>4, Zenon DEF After
  <2>1. t \in Seq(Ages) /\ \A k \in 0 .. n : Within(t, k) = Within(Since(s, n), k) + 1
    BY <1>1, WithinAppend
  <2>2. \A k \in 0 .. n : Within(t, k) = Within(s, k) + 1
    BY <1>1, <2>1, Zenon
  <2>3. Within(s, n) + 1 <= limit
    BY <1>1, <1>2, <1>3, <1>4 DEF Passes
  <2>. HIDE DEF t
  <2>. QED
    BY <1>3, <1>4, <2>0, <2>1, <2>2, <2>3, Zenon
<1>5. CASE ~Passes(s, n, limit)
  <2>1. After(s, n, limit) = Since(s, n)
    BY <1>5, Zenon DEF After
  <2>. QED
    BY <1>1, <1>3, <1>5, <2>1, Zenon
<1>. QED
  BY <1>4, <1>5, Zenon

\* Time passes for what a limiter remembers and for a history alike.
LEMMA TickIs ==
    ASSUME NEW s \in Seq(Ages)
    PROVE  /\ Older(s) \in Seq(Ages) /\ Since(Older(s), Window) \in Seq(Ages)
           /\ \A k \in 0 .. Window : Within(Since(Older(s), Window), k) = Within(Older(s), k)
           /\ \A k \in 0 .. Window : Within(Older(s), k) <= Within(s, k)
<1>0. Window \in Nat /\ \A k \in 0 .. Window : k \in Int /\ k <= Window
  BY PositiveAssumption
<1>1. Older(s) \in Seq(Ages)
  BY WithinOlder
<1>2. /\ Since(Older(s), Window) \in Seq(Ages)
      /\ \A k \in 0 .. Window : Within(Since(Older(s), Window), k) = Within(Older(s), k)
  BY <1>0, <1>1, WithinSince
<1>3. ASSUME NEW k \in 0 .. Window PROVE Within(Older(s), k) <= Within(s, k)
  <2>1. CASE k = 0
    <3>1. Within(s, k) \in Nat /\ Within(Older(s), k) = 0
      BY <2>1, WithinOlder, WithinIs
    <3>. QED
      BY <3>1
  <2>2. CASE k # 0
    <3>1. k \in 1 .. Window /\ k - 1 \in Int /\ k \in Int /\ k - 1 <= k
      BY <1>0, <2>2
    <3>2. Within(Older(s), k) = Within(s, k - 1)
      BY <3>1, WithinOlder, Zenon
    <3>3. Within(s, k - 1) <= Within(s, k)
      BY <3>1, WithinGrows, Zenon
    <3>. QED
      BY <3>2, <3>3, Zenon
  <2>. QED
    BY <2>1, <2>2
<1>. QED
  BY <1>1, <1>2, <1>3, Zenon

\* An empty history or limiter.
LEMMA WithinEmpty == <<>> \in Seq(Ages) /\ \A k \in Int : Within(<<>>, k) = 0
<1>1. <<>> \in Seq(Ages) /\ Len(<<>>) = 0
  OBVIOUS
<1>2. \A k \in Int : Within(<<>>, k) \in Nat /\ Within(<<>>, k) <= 0
  BY <1>1, WithinIs
<1>. QED
  BY <1>1, <1>2

\* The login limiter's invariant is inductive.
LEMMA LoginStep == LInv /\ [Next]_vars => LInv'
<1>. SUFFICES ASSUME LInv, [Next]_vars PROVE LInv'
  OBVIOUS
<1>0. /\ Window \in Nat /\ LoginRPM \in Nat /\ Window \in Int /\ Window \in 0 .. Window
      /\ \A k \in 0 .. Window : k \in Int /\ k \in Nat
  BY PositiveAssumption
<1>1. /\ logins \in Seq(Ages) /\ admitted \in Seq(Ages)
      /\ \A k \in 0 .. Window : Within(admitted, k) <= Within(logins, k)
      /\ Within(logins, Window) <= LoginRPM
      /\ \A k \in 0 .. Window : Within(admitted, k) \in Nat /\ Within(logins, k) \in Nat
  BY <1>0, WithinIs, Zenon DEF LInv
<1>2. CASE UNCHANGED <<logins, admitted>>
  BY <1>2, Zenon DEF LInv
<1>3. CASE Tick
  <2>1. logins' = Older(logins) /\ admitted' = Since(Older(admitted), Window)
    BY <1>3, Zenon DEF Tick
  <2>2. logins' \in Seq(Ages) /\ admitted' \in Seq(Ages)
    BY <1>1, <2>1, TickIs, Zenon
  <2>3. ASSUME NEW k \in 0 .. Window PROVE Within(admitted', k) <= Within(logins', k)
    <3>1. Within(admitted', k) = Within(Older(admitted), k)
      BY <1>1, <2>1, TickIs, Zenon
    <3>2. CASE k = 0
      <4>1. Within(Older(admitted), k) = 0 /\ Within(Older(logins), k) = 0
        BY <1>1, <3>2, WithinOlder, Zenon
      <4>. QED
        BY <2>1, <3>1, <4>1
    <3>3. CASE k # 0
      <4>1. k \in 1 .. Window /\ k - 1 \in 0 .. Window
        BY <1>0, <3>3
      <4>2. /\ Within(Older(admitted), k) = Within(admitted, k - 1)
            /\ Within(Older(logins), k) = Within(logins, k - 1)
        BY <1>1, <4>1, WithinOlder, Zenon
      <4>. QED
        BY <1>1, <2>1, <3>1, <4>1, <4>2, Zenon
    <3>. QED
      BY <3>2, <3>3
  <2>4. Within(logins', Window) <= LoginRPM
    <3>1. Within(logins', Window) <= Within(logins, Window)
      BY <1>0, <1>1, <2>1, TickIs, Zenon
    <3>2. Within(logins', Window) \in Nat
      BY <1>0, <2>2, WithinIs, Zenon
    <3>. QED
      BY <1>0, <1>1, <3>1, <3>2
  <2>. QED
    BY <2>2, <2>3, <2>4, Zenon DEF LInv
<1>4. ASSUME NEW r \in Requests, Arrive(r) PROVE LInv'
  <2>. DEFINE c == Passes(logins, Window, LoginRPM)
  <2>1. /\ logins' = After(logins, Window, LoginRPM)
        /\ admitted' = IF c THEN Append(admitted, 0) ELSE admitted
    BY <1>4, Zenon DEF Arrive, Consume, Room, Trim, After, Passes
  <2>2. /\ logins' \in Seq(Ages) /\ Within(logins', Window) <= LoginRPM
        /\ \A k \in 0 .. Window :
             Within(logins', k) = IF c THEN Within(logins, k) + 1 ELSE Within(logins, k)
    <3>1. Window \in Nat /\ LoginRPM \in Nat
      BY <1>0, Zenon
    <3>2. logins \in Seq(Ages) /\ Within(logins, Window) <= LoginRPM
      BY <1>1, Zenon
    <3>. QED
      BY <2>1, <3>1, <3>2, AfterIs, Zenon
  <2>3. /\ admitted' \in Seq(Ages)
        /\ \A k \in 0 .. Window :
             Within(admitted', k) = IF c THEN Within(admitted, k) + 1 ELSE Within(admitted, k)
    BY <1>0, <1>1, <2>1, WithinAppend, Zenon
  <2>. HIDE DEF c
  <2>4. \A k \in 0 .. Window : Within(admitted', k) <= Within(logins', k)
    BY <1>1, <2>2, <2>3
  <2>. QED
    BY <2>2, <2>3, <2>4, Zenon DEF LInv
<1>5. CASE Cleanup
  <2>1. logins' = Since(logins, Window) /\ admitted' = admitted
    BY <1>5, Zenon DEF Cleanup, Trim
  <2>2. \A k \in 0 .. Window : k <= Window
    BY <1>0
  <2>3. logins' \in Seq(Ages) /\ \A k \in 0 .. Window : Within(logins', k) = Within(logins, k)
    BY <1>0, <1>1, <2>1, <2>2, WithinSince, Zenon
  <2>. QED
    BY <1>0, <1>1, <2>1, <2>3, Zenon DEF LInv
<1>6. CASE Restart
  <2>1. logins' = <<>> /\ admitted' = <<>>
    BY <1>6, Zenon DEF Restart
  <2>2. /\ <<>> \in Seq(Ages) /\ 0 <= LoginRPM /\ 0 <= 0
        /\ \A k \in 0 .. Window : Within(<<>>, k) = 0
    BY <1>0, WithinEmpty
  <2>. QED
    BY <1>0, <2>1, <2>2, Zenon DEF LInv
<1>. QED
  BY <1>2, <1>3, <1>4, <1>5, <1>6, Zenon
     DEF Next, vars, Login, CheckFailures, Find, IncrementAdminLoginFailure, RecordFailure,
         LockAdminUser, Reset, UpdateAdminLoginSuccess, ResetPasswordTx, RedisAnswers,
         RedisFails, Admin

\* In no window does the limiter of the login route let through more than its limit,
\* however requests, the cleanup goroutine and restarts interleave.
THEOREM LoginsLimited == Spec => []LoginsBounded
<1>0. Window \in Nat /\ LoginRPM \in Nat /\ Window \in 0 .. Window
  BY PositiveAssumption
<1>1. Init => LInv
  <2>1. /\ <<>> \in Seq(Ages) /\ 0 <= LoginRPM /\ 0 <= 0
        /\ \A k \in 0 .. Window : Within(<<>>, k) = 0
    BY <1>0, WithinEmpty
  <2>. QED
    BY <1>0, <2>1, Zenon DEF Init, LInv
<1>2. LInv => LoginsBounded
  <2>. SUFFICES ASSUME LInv PROVE LoginsBounded
    OBVIOUS
  <2>1. Within(admitted, Window) \in Nat /\ Within(logins, Window) \in Nat
    BY <1>0, WithinIs DEF LInv
  <2>2. /\ Within(admitted, Window) <= Within(logins, Window)
        /\ Within(logins, Window) <= LoginRPM
    BY <1>0, Zenon DEF LInv
  <2>. QED
    BY <1>0, <2>1, <2>2 DEF LoginsBounded
<1>. QED
  BY <1>1, <1>2, LoginStep, PTL DEF Spec

----------------------------------------------------------------------------
(* RedisLimiter and its fallback. *)

\* Every request of the history is in the sorted set or in the fallback as long as it is
\* in the window; each keeps to the limit; the fallback is empty until an answer is missing.
GInv == /\ redis \in Seq(Ages) /\ fallback \in Seq(Ages) /\ served \in Seq(Ages)
        /\ \A k \in 0 .. Window - 1 :
             Within(served, k) <= Within(redis, k) + Within(fallback, k)
        /\ Within(redis, Window - 1) <= GatewayLimit
        /\ Within(fallback, Window) <= GatewayLimit
        /\ faults \in Nat /\ (faults = 0 => fallback = <<>>)

\* One step of the gateway: what is let through is remembered by the set or by the
\* fallback, and neither forgets what is in the window.
LEMMA ServedStep ==
    ASSUME GInv, redis' \in Seq(Ages), fallback' \in Seq(Ages), served' \in Seq(Ages),
           Within(redis', Window - 1) <= GatewayLimit, Within(fallback', Window) <= GatewayLimit,
           faults' \in Nat, faults' = 0 => fallback' = <<>>,
           \A k \in 0 .. Window - 1 :
             Within(served', k) + Within(redis, k) + Within(fallback, k)
               <= Within(served, k) + Within(redis', k) + Within(fallback', k)
    PROVE  GInv'
<1>1. ASSUME NEW k \in 0 .. Window - 1
      PROVE  Within(served', k) <= Within(redis', k) + Within(fallback', k)
  <2>1. k \in Int
    OBVIOUS
  <2>2. /\ Within(served, k) \in Nat /\ Within(redis, k) \in Nat /\ Within(fallback, k) \in Nat
        /\ Within(served', k) \in Nat /\ Within(redis', k) \in Nat /\ Within(fallback', k) \in Nat
    BY <2>1, WithinIs, Zenon DEF GInv
  <2>3. Within(served, k) <= Within(redis, k) + Within(fallback, k)
    BY Zenon DEF GInv
  <2>4. Within(served', k) + Within(redis, k) + Within(fallback, k)
          <= Within(served, k) + Within(redis', k) + Within(fallback', k)
    BY Zenon
  <2>5. PICK a, b, c, d, e, f :
          /\ a = Within(served, k) /\ b = Within(redis, k) /\ c = Within(fallback, k)
          /\ d = Within(served', k) /\ e = Within(redis', k) /\ f = Within(fallback', k)
    BY Zenon
  <2>6. /\ a \in Nat /\ b \in Nat /\ c \in Nat /\ d \in Nat /\ e \in Nat /\ f \in Nat
        /\ a <= b + c /\ d + b + c <= a + e + f
    BY <2>2, <2>3, <2>4, <2>5, Zenon
  <2>7. d <= e + f
    BY <2>6
  <2>. QED
    BY <2>5, <2>7, Zenon
<1>. QED
  BY <1>1, Zenon DEF GInv

\* The gateway's invariant is inductive.
LEMMA GatewayStep == GInv /\ [Next]_vars => GInv'
<1>. SUFFICES ASSUME GInv, [Next]_vars PROVE GInv'
  OBVIOUS
<1>. DEFINE W == Window - 1
            L == GatewayLimit
<1>0. /\ Window \in Nat /\ W \in Nat /\ L \in Nat /\ MaxFaults \in Nat \ {0}
      /\ \A k \in 0 .. W : k \in Int /\ k \in Nat /\ k \in 0 .. Window
      /\ W \in 0 .. W /\ W \in 0 .. Window /\ Window \in 0 .. Window /\ W \in Int
  BY PositiveAssumption, MaxFaultsAssumption
<1>1. /\ redis \in Seq(Ages) /\ fallback \in Seq(Ages) /\ served \in Seq(Ages)
      /\ \A k \in 0 .. W : Within(served, k) <= Within(redis, k) + Within(fallback, k)
      /\ Within(redis, W) <= L /\ Within(fallback, Window) <= L
      /\ faults \in Nat /\ (faults = 0 => fallback = <<>>)
  BY Zenon DEF GInv
<1>. HIDE DEF W, L
<1>a. Window \in Nat /\ W \in Nat /\ L \in Nat
  BY <1>0, Zenon
<1>b. redis \in Seq(Ages) /\ fallback \in Seq(Ages) /\ served \in Seq(Ages)
  BY <1>1, Zenon
<1>c. /\ After(redis, W, L) \in Seq(Ages) /\ Within(After(redis, W, L), W) <= L
      /\ \A k \in 0 .. W : Within(After(redis, W, L), k) =
           IF Passes(redis, W, L) THEN Within(redis, k) + 1 ELSE Within(redis, k)
  <2>1. Within(redis, W) <= L
    BY <1>1, Zenon
  <2>. QED
    BY <1>a, <1>b, <2>1, AfterIs, Zenon
<1>2. /\ \A k \in 0 .. Window : Within(redis, k) \in Nat /\ Within(fallback, k) \in Nat
      /\ \A k \in 0 .. W : Within(served, k) \in Nat
  <2>1. \A k \in 0 .. Window : k \in Int
    OBVIOUS
  <2>. QED
    BY <1>0, <1>1, <2>1, WithinIs, Zenon
<1>3. CASE UNCHANGED <<redis, fallback, served>> /\ (Fault \/ UNCHANGED faults)
  <2>1. faults' \in Nat /\ (faults' = 0 => faults = 0)
    BY <1>1, <1>3 DEF Fault
  <2>. QED
    BY <1>3, <2>1, Zenon DEF GInv
<1>4. CASE Tick
  <2>1. /\ redis' = Older(redis) /\ fallback' = Older(fallback)
        /\ served' = Since(Older(served), Window) /\ faults' = faults
    BY <1>4, Zenon DEF Tick
  <2>2. redis' \in Seq(Ages) /\ fallback' \in Seq(Ages) /\ served' \in Seq(Ages)
    BY <1>1, <2>1, TickIs, Zenon
  <2>3. ASSUME NEW k \in 0 .. W
        PROVE  Within(served', k) <= Within(redis', k) + Within(fallback', k)
    <3>1. Within(served', k) = Within(Older(served), k)
      BY <1>0, <1>1, <2>1, TickIs, Zenon
    <3>2. CASE k = 0
      <4>1. /\ Within(Older(served), k) = 0 /\ Within(Older(redis), k) = 0
            /\ Within(Older(fallback), k) = 0
        BY <1>1, <3>2, WithinOlder, Zenon
      <4>. QED
        BY <2>1, <3>1, <4>1
    <3>3. CASE k # 0
      <4>1. k \in 1 .. Window /\ k - 1 \in 0 .. W
        BY <1>0, <3>3 DEF W
      <4>2. /\ Within(Older(served), k) = Within(served, k - 1)
            /\ Within(Older(redis), k) = Within(redis, k - 1)
            /\ Within(Older(fallback), k) = Within(fallback, k - 1)
        BY <1>1, <4>1, WithinOlder, Zenon
      <4>. QED
        BY <1>1, <2>1, <3>1, <4>1, <4>2, Zenon
    <3>. QED
      BY <3>2, <3>3
  <2>4. Within(redis', W) <= L /\ Within(fallback', Window) <= L
    <3>1. /\ Within(redis', W) <= Within(redis, W)
          /\ Within(fallback', Window) <= Within(fallback, Window)
      BY <1>0, <1>1, <2>1, TickIs, Zenon
    <3>2. Within(redis', W) \in Nat /\ Within(fallback', Window) \in Nat
      <4>1. W \in Int /\ Window \in Int
        BY <1>a
      <4>. QED
        BY <2>2, <4>1, WithinIs, Zenon
    <3>3. /\ Within(redis, W) \in Nat /\ Within(fallback, Window) \in Nat
          /\ Within(redis, W) <= L /\ Within(fallback, Window) <= L
      BY <1>0, <1>1, <1>2, Zenon
    <3>. QED
      BY <1>a, <3>1, <3>2, <3>3
  <2>5. faults' \in Nat /\ (faults' = 0 => fallback' = <<>>)
    <3>1. Older(<<>>) = <<>>
      BY DEF Older
    <3>. QED
      BY <1>1, <2>1, <3>1, Zenon
  <2>. QED
    BY <2>2, <2>3, <2>4, <2>5, Zenon DEF GInv, W, L
<1>5. CASE RedisAnswers
  <2>. DEFINE c == Passes(redis, W, L)
  <2>1. /\ redis' = After(redis, W, L)
        /\ served' = IF c THEN Append(served, 0) ELSE served
        /\ fallback' = fallback /\ faults' = faults
    BY <1>5, Zenon DEF RedisAnswers, Script, ScriptRoom, ScriptTrim, After, Passes, W, L
  <2>2. /\ redis' \in Seq(Ages) /\ Within(redis', W) <= L
        /\ \A k \in 0 .. W :
             Within(redis', k) = IF c THEN Within(redis, k) + 1 ELSE Within(redis, k)
    BY <1>c, <2>1, Zenon
  <2>3. /\ served' \in Seq(Ages)
        /\ \A k \in 0 .. W :
             Within(served', k) = IF c THEN Within(served, k) + 1 ELSE Within(served, k)
    BY <1>0, <1>b, <2>1, WithinAppend, Zenon
  <2>. HIDE DEF c
  <2>4. ASSUME NEW k \in 0 .. W
        PROVE  Within(served', k) + Within(redis, k) + Within(fallback, k)
                 <= Within(served, k) + Within(redis', k) + Within(fallback', k)
    <3>1. k \in 0 .. Window /\ Within(fallback', k) = Within(fallback, k)
      BY <1>0, <2>1, Zenon
    <3>2. Within(served, k) \in Nat /\ Within(redis, k) \in Nat /\ Within(fallback, k) \in Nat
      BY <1>2, <3>1, Zenon
    <3>3. \/ Within(redis', k) = Within(redis, k) + 1 /\ Within(served', k) = Within(served, k) + 1
          \/ Within(redis', k) = Within(redis, k) /\ Within(served', k) = Within(served, k)
      BY <2>2, <2>3, Zenon
    <3>. QED
      BY <3>1, <3>2, <3>3
  <2>. QED
    BY <1>1, <2>1, <2>2, <2>3, <2>4, ServedStep, Zenon DEF W, L
<1>6. CASE RedisFails
  <2>. DEFINE c == Passes(fallback, Window, L)
  <2>1. /\ fallback' = After(fallback, Window, L)
        /\ served' = IF c THEN Append(served, 0) ELSE served
        /\ (redis' = redis \/ redis' = After(redis, W, L))
    BY <1>6, Zenon
       DEF RedisFails, FallbackRoom, Consume, Room, Trim, Script, ScriptRoom, ScriptTrim, After,
           Passes, W, L
  <2>2. /\ fallback' \in Seq(Ages) /\ Within(fallback', Window) <= L
        /\ \A k \in 0 .. Window :
             Within(fallback', k) = IF c THEN Within(fallback, k) + 1 ELSE Within(fallback, k)
    <3>1. Within(fallback, Window) <= L
      BY <1>1, Zenon
    <3>. QED
      BY <1>a, <1>b, <2>1, <3>1, AfterIs, Zenon
  <2>3. /\ served' \in Seq(Ages)
        /\ \A k \in 0 .. W :
             Within(served', k) = IF c THEN Within(served, k) + 1 ELSE Within(served, k)
    BY <1>0, <1>b, <2>1, WithinAppend, Zenon
  <2>. HIDE DEF c
  <2>4. redis' \in Seq(Ages) /\ Within(redis', W) <= L
    BY <1>1, <1>c, <2>1, Zenon
  <2>5. ASSUME NEW k \in 0 .. W
        PROVE  Within(served', k) + Within(redis, k) + Within(fallback, k)
                 <= Within(served, k) + Within(redis', k) + Within(fallback', k)
    <3>1. k \in 0 .. Window
      BY <1>0, Zenon
    <3>2. Within(served, k) \in Nat /\ Within(redis, k) \in Nat /\ Within(fallback, k) \in Nat
      BY <1>2, <3>1, Zenon
    <3>3. \/ /\ Within(fallback', k) = Within(fallback, k) + 1
             /\ Within(served', k) = Within(served, k) + 1
          \/ Within(fallback', k) = Within(fallback, k) /\ Within(served', k) = Within(served, k)
      BY <2>2, <2>3, <3>1, Zenon
    <3>4. Within(redis', k) = Within(redis, k) \/ Within(redis', k) = Within(redis, k) + 1
      BY <1>c, <2>1, Zenon
    <3>. QED
      BY <3>2, <3>3, <3>4
  <2>6. faults' \in Nat /\ faults' # 0
    BY <1>0, <1>1, <1>6 DEF RedisFails
  <2>. QED
    BY <2>2, <2>3, <2>4, <2>5, <2>6, ServedStep, Zenon DEF W, L
<1>. QED
  BY <1>3, <1>4, <1>5, <1>6, Zenon
     DEF Next, vars, Login, Arrive, CheckFailures, Find, IncrementAdminLoginFailure,
         RecordFailure, LockAdminUser, Reset, UpdateAdminLoginSuccess, ResetPasswordTx,
         Cleanup, Restart, Gateway

\* In a window the gateway lets through no more than the limit while Redis answers, and
\* no more than twice the limit whatever answers are missing, whether or not the script
\* has run.
THEOREM ServedLimited == Spec => []ServedBounded
<1>0. /\ Window \in Nat \ {0} /\ GatewayLimit \in Nat /\ Window - 1 \in 0 .. Window - 1
      /\ Window - 1 \in Int /\ Window - 1 <= Window /\ Window \in Int
  BY PositiveAssumption
<1>1. Init => GInv
  <2>1. /\ <<>> \in Seq(Ages) /\ 0 <= GatewayLimit /\ 0 <= 0 + 0 /\ 0 \in Nat
        /\ \A k \in 0 .. Window - 1 : Within(<<>>, k) = 0
        /\ Within(<<>>, Window) = 0
    BY <1>0, WithinEmpty
  <2>. QED
    BY <1>0, <2>1, Zenon DEF Init, GInv
<1>2. GInv => ServedBounded
  <2>. SUFFICES ASSUME GInv PROVE ServedBounded
    OBVIOUS
  <2>1. /\ Within(served, Window - 1) \in Nat /\ Within(redis, Window - 1) \in Nat
        /\ Within(fallback, Window - 1) \in Nat /\ Within(fallback, Window) \in Nat
    BY <1>0, WithinIs, Zenon DEF GInv
  <2>2. /\ Within(served, Window - 1) <= Within(redis, Window - 1) + Within(fallback, Window - 1)
        /\ Within(redis, Window - 1) <= GatewayLimit /\ Within(fallback, Window) <= GatewayLimit
    BY <1>0, Zenon DEF GInv
  <2>3. Within(fallback, Window - 1) <= Within(fallback, Window)
    BY <1>0, WithinGrows, Zenon DEF GInv
  <2>4. faults = 0 => Within(fallback, Window - 1) = 0
    BY <1>0, WithinEmpty, Zenon DEF GInv
  <2>. QED
    BY <1>0, <2>1, <2>2, <2>3, <2>4 DEF ServedBounded
<1>. QED
  BY <1>1, <1>2, GatewayStep, PTL DEF Spec

----------------------------------------------------------------------------
(* Wrong passwords. *)

K == Cardinality(Requests)

\* The logins that have guessed and are not counted yet, and the ones that will lock the
\* account.
Guessing == {r \in Requests : req[r].pc = "wrong"}
Locking == {r \in Requests : req[r].pc \in {"wrong", "record", "lock"} /\ MustLock(req[r].failed)}

\* While the account is short of its limit by more than one, every guess is counted or
\* still to be counted.  From then on every login that guesses goes on to lock it, after
\* the ones that were under way.  lost bounds what faults have lost.
Counted(failed, n, guessing, locking, lost) ==
    IF MustLock(failed) THEN n <= MaxLoginFailures - 1 + (K - 1) + locking + lost
                        ELSE n <= failed + guessing + lost

Logins == [pc : {"idle", "check", "find", "unknown", "wrong", "record", "lock", "right",
                 "success"},
           failed : 0 .. MaxLoginFailures]

BInv == /\ account \in [failed : 0 .. MaxLoginFailures, lock : Nat]
        /\ req \in [Requests -> Logins] /\ guesses \in Nat /\ faults \in Nat
        /\ Counted(account.failed, guesses, Cardinality(Guessing), Cardinality(Locking),
                   K * faults)

\* How many requests there are, and what a fault adds.
LEMMA KIs ==
    /\ K \in Nat \ {0} /\ MaxLoginFailures \in Nat \ {0}
    /\ \A f \in Nat : K * f \in Nat /\ K * (f + 1) = K * f + K
<1>1. K \in Nat /\ K # 0
  BY RequestsAssumption, FS_CardinalityType, FS_EmptySet, Zenon DEF K
<1>. QED
  BY <1>1, PositiveAssumption

\* Sets of requests are no larger than the set of all.
LEMMA CountsAre ==
    /\ IsFiniteSet(Guessing) /\ Cardinality(Guessing) \in Nat /\ Cardinality(Guessing) <= K
    /\ IsFiniteSet(Locking) /\ Cardinality(Locking) \in Nat /\ Cardinality(Locking) <= K
<1>1. \A S \in SUBSET Requests : IsFiniteSet(S) /\ Cardinality(S) <= K
  BY RequestsAssumption, FS_Subset, Zenon DEF K
<1>2. Guessing \in SUBSET Requests /\ Locking \in SUBSET Requests
  BY Zenon DEF Guessing, Locking
<1>. QED
  BY <1>1, <1>2, FS_CardinalityType, Zenon

\* The same after a step.
LEMMA CountsAreNext ==
    /\ IsFiniteSet(Guessing') /\ Cardinality(Guessing') \in Nat /\ Cardinality(Guessing') <= K
    /\ IsFiniteSet(Locking') /\ Cardinality(Locking') \in Nat /\ Cardinality(Locking') <= K
<1>1. \A S \in SUBSET Requests : IsFiniteSet(S) /\ Cardinality(S) <= K
  BY RequestsAssumption, FS_Subset, Zenon DEF K
<1>2. Guessing' \in SUBSET Requests /\ Locking' \in SUBSET Requests
  BY Zenon DEF Guessing, Locking
<1>. QED
  BY <1>1, <1>2, FS_CardinalityType, Zenon

\* Sets that differ in one member at most.
LEMMA OneChanged ==
    ASSUME NEW S, NEW T, NEW r, IsFiniteSet(S), IsFiniteSet(T),
           \A p : p # r => (p \in S <=> p \in T)
    PROVE  /\ (r \in S <=> r \in T) => Cardinality(T) = Cardinality(S)
           /\ r \notin S /\ r \in T => Cardinality(T) = Cardinality(S) + 1
           /\ r \in S /\ r \notin T => Cardinality(S) = Cardinality(T) + 1
<1>1. CASE r \in S <=> r \in T
  <2>1. S = T
    BY <1>1
  <2>. QED
    BY <1>1, <2>1, Zenon
<1>2. CASE r \notin S /\ r \in T
  <2>1. T = S \cup {r}
    BY <1>2
  <2>. QED
    BY <1>2, <2>1, FS_AddElement, Zenon
<1>3. CASE r \in S /\ r \notin T
  <2>1. S = T \cup {r}
    BY <1>3
  <2>. QED
    BY <1>3, <2>1, FS_AddElement, Zenon
<1>. QED
  BY <1>1, <1>2, <1>3, Zenon

\* One login moves on: the sets change by that login at most.
LEMMA MoveIs ==
    ASSUME BInv, NEW r \in Requests, NEW x \in Logins, req' = [req EXCEPT ![r] = x]
    PROVE  /\ req' \in [Requests -> Logins]
           /\ r \in Guessing' <=> x.pc = "wrong"
           /\ r \in Locking' <=> x.pc \in {"wrong", "record", "lock"} /\ MustLock(x.failed)
           /\ \A p : p # r => (p \in Guessing <=> p \in Guessing')
           /\ \A p : p # r => (p \in Locking <=> p \in Locking')
<1>1. /\ req' \in [Requests -> Logins] /\ req'[r] = x
      /\ \A p \in Requests : p # r => req'[p] = req[p]
  BY Zenon DEF BInv
<1>. QED
  BY <1>1, Zenon DEF Guessing, Locking

\* Nothing is guessed, and no login that will lock the account goes.
LEMMA QuietStep ==
    ASSUME BInv, account' \in [failed : 0 .. MaxLoginFailures, lock : Nat],
           account'.failed = account.failed, req' \in [Requests -> Logins],
           guesses' = guesses, faults' = faults \/ faults' = faults + 1,
           Cardinality(Guessing') >= Cardinality(Guessing),
           Cardinality(Locking') >= Cardinality(Locking)
    PROVE  BInv'
<1>. DEFINE F == account.failed
            a == Cardinality(Guessing)
            b == Cardinality(Locking)
            m == K * faults
<1>1. /\ F \in 0 .. MaxLoginFailures /\ guesses \in Nat /\ faults \in Nat
      /\ Counted(F, guesses, a, b, m)
  BY DEF BInv
<1>2. /\ a \in Nat /\ b \in Nat /\ Cardinality(Guessing') \in Nat
      /\ Cardinality(Locking') \in Nat
  BY CountsAre, CountsAreNext, Zenon
<1>3. K \in Nat \ {0} /\ MaxLoginFailures \in Nat \ {0} /\ m \in Nat /\ faults' \in Nat
  BY <1>1, KIs
<1>4. K * faults' = m \/ K * faults' = m + K
  BY <1>1, KIs, Zenon
<1>. HIDE DEF F, a, b, m
<1>5. Counted(F, guesses, Cardinality(Guessing'), Cardinality(Locking'), K * faults')
  <2>1. PICK c, d, e : c = Cardinality(Guessing') /\ d = Cardinality(Locking') /\ e = K * faults'
    OBVIOUS
  <2>2. c \in Nat /\ d \in Nat /\ c >= a /\ d >= b /\ (e = m \/ e = m + K)
    BY <1>2, <1>4, <2>1 DEF a, b
  <2>3. Counted(F, guesses, c, d, e)
    BY <1>1, <1>2, <1>3, <2>2 DEF Counted, MustLock
  <2>. QED
    BY <2>1, <2>3, Zenon
<1>. QED
  BY <1>1, <1>3, <1>5, Zenon DEF BInv, F

\* A fault: what is under way is lost at most.
LEMMA LosingStep ==
    ASSUME BInv, UNCHANGED <<account, guesses>>, req' \in [Requests -> Logins],
           faults' = faults + 1
    PROVE  BInv'
<1>. DEFINE F == account.failed
            a == Cardinality(Guessing)
            b == Cardinality(Locking)
            m == K * faults
<1>1. /\ F \in 0 .. MaxLoginFailures /\ guesses \in Nat /\ faults \in Nat
      /\ Counted(F, guesses, a, b, m)
  BY DEF BInv
<1>2. /\ a \in Nat /\ a <= K /\ b \in Nat /\ b <= K /\ Cardinality(Guessing') \in Nat
      /\ Cardinality(Locking') \in Nat
  BY CountsAre, CountsAreNext, Zenon
<1>3. K \in Nat \ {0} /\ MaxLoginFailures \in Nat \ {0} /\ m \in Nat /\ faults' \in Nat
  BY <1>1, KIs
<1>4. K * faults' = m + K
  BY <1>1, KIs, Zenon
<1>. HIDE DEF F, a, b, m
<1>5. Counted(F, guesses, Cardinality(Guessing'), Cardinality(Locking'), K * faults')
  <2>1. PICK c, d : c = Cardinality(Guessing') /\ d = Cardinality(Locking')
    OBVIOUS
  <2>2. c \in Nat /\ d \in Nat
    BY <1>2, <2>1, Zenon
  <2>3. Counted(F, guesses, c, d, m + K)
    BY <1>1, <1>2, <1>3, <2>2 DEF Counted, MustLock
  <2>. QED
    BY <1>4, <2>1, <2>3, Zenon
<1>. QED
  BY <1>1, <1>3, <1>5, Zenon DEF BInv, F

\* The account is locked or reset: counting starts again.
LEMMA FreshStep ==
    ASSUME BInv, account' \in [failed : 0 .. MaxLoginFailures, lock : Nat], guesses' = 0,
           req' \in [Requests -> Logins], faults' = faults
    PROVE  BInv'
<1>1. PICK F, c, d, m : /\ F = account'.failed /\ c = Cardinality(Guessing')
                        /\ d = Cardinality(Locking') /\ m = K * faults'
  OBVIOUS
<1>2. F \in 0 .. MaxLoginFailures
  BY <1>1
<1>3. /\ c \in Nat /\ d \in Nat /\ m \in Nat /\ faults' \in Nat
      /\ K \in Nat \ {0} /\ MaxLoginFailures \in Nat \ {0}
  BY <1>1, CountsAreNext, KIs, Zenon DEF BInv
<1>4. Counted(F, 0, c, d, m)
  BY <1>2, <1>3 DEF Counted, MustLock
<1>5. 0 \in Nat
  OBVIOUS
<1>. QED
  BY <1>1, <1>3, <1>4, <1>5, Zenon DEF BInv

\* A wrong password.
LEMMA GuessStep ==
    ASSUME BInv, NEW r \in Requests, req[r].pc = "find",
           req' = [req EXCEPT ![r] = [pc |-> "wrong", failed |-> account.failed]],
           guesses' = guesses + 1, UNCHANGED <<account, faults>>
    PROVE  BInv'
<1>. DEFINE x == [pc |-> "wrong", failed |-> account.failed]
            F == account.failed
            a == Cardinality(Guessing)
            b == Cardinality(Locking)
            m == K * faults
<1>1. x \in Logins /\ x.pc = "wrong" /\ x.failed = F /\ F \in 0 .. MaxLoginFailures
  BY DEF BInv, Logins
<1>2. r \notin Guessing /\ r \notin Locking
  BY DEF Guessing, Locking
<1>3. /\ req' \in [Requests -> Logins] /\ r \in Guessing' /\ (MustLock(F) => r \in Locking')
      /\ \A p : p # r => (p \in Guessing <=> p \in Guessing')
      /\ \A p : p # r => (p \in Locking <=> p \in Locking')
  <2>1. x.pc \in {"wrong", "record", "lock"}
    BY <1>1
  <2>. HIDE DEF x
  <2>2. req' = [req EXCEPT ![r] = x]
    BY DEF x
  <2>. QED
    BY <1>1, <2>1, <2>2, MoveIs, Zenon
<1>4. Cardinality(Guessing') = a + 1 /\ (MustLock(F) => Cardinality(Locking') = b + 1)
  BY <1>2, <1>3, OneChanged, CountsAre, CountsAreNext, Zenon
<1>5. /\ a \in Nat /\ b \in Nat /\ Cardinality(Locking') \in Nat /\ guesses \in Nat
      /\ faults \in Nat /\ m \in Nat /\ K \in Nat \ {0} /\ MaxLoginFailures \in Nat \ {0}
      /\ Counted(F, guesses, a, b, m)
  BY CountsAre, CountsAreNext, KIs, Zenon DEF BInv
<1>. HIDE DEF F, a, b, m
<1>6. PICK d : d = Cardinality(Locking')
  OBVIOUS
<1>7. Counted(F, guesses + 1, a + 1, d, m)
  BY <1>1, <1>4, <1>5, <1>6 DEF Counted, MustLock
<1>8. guesses' \in Nat
  BY <1>5
<1>. QED
  BY <1>3, <1>4, <1>5, <1>6, <1>7, <1>8, Zenon DEF BInv, F, m

\* A guess is counted on the row.
LEMMA CountStep ==
    ASSUME BInv, NEW r \in Requests, req[r].pc = "wrong", Go(r, "record"),
           account' = [account EXCEPT !.failed = IF @ < MaxLoginFailures THEN @ + 1 ELSE @],
           UNCHANGED <<guesses, faults>>
    PROVE  BInv'
<1>. DEFINE x == [req[r] EXCEPT !.pc = "record"]
            F == account.failed
            G == account'.failed
            a == Cardinality(Guessing)
            b == Cardinality(Locking)
            m == K * faults
<1>0. req[r] \in Logins
  BY Zenon DEF BInv
<1>1. x \in Logins /\ x.pc = "record" /\ x.failed = req[r].failed
  BY <1>0 DEF Logins
<1>2. /\ account' \in [failed : 0 .. MaxLoginFailures, lock : Nat]
      /\ F \in 0 .. MaxLoginFailures /\ G = IF F < MaxLoginFailures THEN F + 1 ELSE F
  BY KIs DEF BInv
<1>3. /\ r \in Guessing
      /\ r \in Locking <=> MustLock(x.failed)
  BY <1>1 DEF Guessing, Locking
<1>4. /\ req' \in [Requests -> Logins] /\ r \notin Guessing'
      /\ (r \in Locking' <=> MustLock(x.failed))
      /\ \A p : p # r => (p \in Guessing <=> p \in Guessing')
      /\ \A p : p # r => (p \in Locking <=> p \in Locking')
  <2>1. x.pc \in {"wrong", "record", "lock"} /\ x.pc # "wrong"
    BY <1>1
  <2>2. req' = [req EXCEPT ![r] = x]
    BY Zenon DEF Go
  <2>. HIDE DEF x
  <2>. QED
    BY <1>1, <2>1, <2>2, MoveIs, Zenon
<1>5. a = Cardinality(Guessing') + 1 /\ Cardinality(Locking') = b
  BY <1>3, <1>4, OneChanged, CountsAre, CountsAreNext, Zenon
<1>6. /\ a \in Nat /\ a <= K /\ b \in Nat /\ Cardinality(Guessing') \in Nat /\ guesses \in Nat
      /\ faults \in Nat /\ m \in Nat /\ K \in Nat \ {0} /\ MaxLoginFailures \in Nat \ {0}
      /\ Counted(F, guesses, a, b, m)
  BY CountsAre, CountsAreNext, KIs, Zenon DEF BInv
<1>. HIDE DEF F, G, a, b, m
<1>7. PICK c : c = Cardinality(Guessing')
  OBVIOUS
<1>8. Counted(G, guesses, c, b, m)
  BY <1>2, <1>5, <1>6, <1>7 DEF Counted, MustLock
<1>. QED
  BY <1>2, <1>4, <1>5, <1>6, <1>7, <1>8, Zenon DEF BInv, G, m

\* Any other step of a login.
LEMMA PassStep ==
    ASSUME BInv, NEW r \in Requests, NEW x \in Logins, req' = [req EXCEPT ![r] = x],
           req[r].pc # "wrong", x.pc # "wrong", r \in Locking => r \in Locking',
           UNCHANGED <<account, guesses, faults>>
    PROVE  BInv'
<1>1. /\ req' \in [Requests -> Logins] /\ r \notin Guessing /\ r \notin Guessing'
      /\ \A p : p # r => (p \in Guessing <=> p \in Guessing')
      /\ \A p : p # r => (p \in Locking <=> p \in Locking')
  BY MoveIs, Zenon DEF Guessing
<1>2. Cardinality(Guessing') = Cardinality(Guessing)
  BY <1>1, OneChanged, CountsAre, CountsAreNext, Zenon
<1>3. \/ Cardinality(Locking') = Cardinality(Locking)
      \/ Cardinality(Locking') = Cardinality(Locking) + 1
  BY <1>1, OneChanged, CountsAre, CountsAreNext, Zenon
<1>4. /\ Cardinality(Guessing') >= Cardinality(Guessing)
      /\ Cardinality(Locking') >= Cardinality(Locking)
  BY <1>2, <1>3, CountsAre
<1>5. account' \in [failed : 0 .. MaxLoginFailures, lock : Nat]
  BY Zenon DEF BInv
<1>. QED
  BY <1>1, <1>4, <1>5, QuietStep, Zenon

\* The moves of a login are within its type.
LEMMA MovesTyped ==
    ASSUME BInv
    PROVE  /\ Idle \in Logins /\ Idle.pc = "idle"
           /\ \A r \in Requests, pc \in {"idle", "check", "find", "unknown", "record", "lock",
                                         "right", "success"} :
                LET x == [req[r] EXCEPT !.pc = pc]
                IN  x \in Logins /\ x.pc = pc /\ x.failed = req[r].failed
<1>1. \A r \in Requests : req[r] \in Logins
  BY Zenon DEF BInv
<1>. QED
  BY <1>1, KIs DEF Logins, Idle

\* A login that has not guessed goes anywhere but to a guess.
LEMMA GoStep ==
    ASSUME BInv, NEW r \in Requests, req[r].pc \in {"idle", "check", "find", "right"},
           NEW pc \in {"idle", "check", "find", "unknown", "right", "success"}, Go(r, pc),
           UNCHANGED <<account, guesses, faults>>
    PROVE  BInv'
<1>. DEFINE x == [req[r] EXCEPT !.pc = pc]
<1>0. pc \in {"idle", "check", "find", "unknown", "record", "lock", "right", "success"}
  OBVIOUS
<1>1. x \in Logins /\ x.pc = pc
  BY <1>0, MovesTyped, Zenon
<1>2. req' = [req EXCEPT ![r] = x]
  BY Zenon DEF Go
<1>3. r \notin Locking /\ req[r].pc # "wrong" /\ x.pc # "wrong"
  BY <1>1 DEF Locking
<1>. HIDE DEF x
<1>. QED
  BY <1>1, <1>2, <1>3, PassStep, Zenon

\* RecordFailure sends a login on to lock the account, or ends it.
LEMMA RecordStep ==
    ASSUME BInv, NEW r \in Requests, RecordFailure(r)
    PROVE  BInv'
<1>0. UNCHANGED <<account, guesses, faults>> /\ req[r].pc \in {"unknown", "record"}
  BY Zenon DEF RecordFailure
<1>1. CASE req[r].pc = "record" /\ MustLock(req[r].failed) /\ Go(r, "lock")
  <2>. DEFINE x == [req[r] EXCEPT !.pc = "lock"]
  <2>1. x \in Logins /\ x.pc = "lock" /\ x.failed = req[r].failed
    BY MovesTyped, Zenon
  <2>2. req' = [req EXCEPT ![r] = x]
    BY <1>1, Zenon DEF Go
  <2>3. x.pc \in {"wrong", "record", "lock"} /\ x.pc # "wrong" /\ req[r].pc # "wrong"
    BY <1>1, <2>1
  <2>. HIDE DEF x
  <2>4. r \in Locking'
    BY <1>1, <2>1, <2>2, <2>3, MoveIs, Zenon
  <2>. QED
    BY <1>0, <2>1, <2>2, <2>3, <2>4, PassStep, Zenon
<1>2. CASE ~(req[r].pc = "record" /\ MustLock(req[r].failed)) /\ req' = [req EXCEPT ![r] = Idle]
  <2>1. r \notin Locking /\ req[r].pc # "wrong"
    BY <1>0, <1>2 DEF Locking
  <2>2. Idle \in Logins /\ Idle.pc # "wrong"
    BY MovesTyped
  <2>. QED
    BY <1>0, <1>2, <2>1, <2>2, PassStep, Zenon
<1>. QED
  BY <1>1, <1>2, Zenon DEF RecordFailure

\* A login's steps.
LEMMA LoginCounted ==
    ASSUME BInv, NEW r \in Requests, Login(r)
    PROVE  BInv'
<1>0. /\ req \in [Requests -> Logins] /\ Idle \in Logins
      /\ account \in [failed : 0 .. MaxLoginFailures, lock : Nat]
  BY MovesTyped, Zenon DEF BInv
<1>1. req' = [req EXCEPT ![r] = Idle] => req' \in [Requests -> Logins]
  BY <1>0, Zenon
<1>2. ASSUME NEW pc \in {"idle", "check", "find", "unknown", "record", "lock", "right", "success"},
             Go(r, pc)
      PROVE  req' \in [Requests -> Logins]
  <2>1. [req[r] EXCEPT !.pc = pc] \in Logins
    BY MovesTyped, Zenon
  <2>. QED
    BY <1>0, <1>2, <2>1, Zenon DEF Go
<1>3. CASE Arrive(r)
  <2>1. CASE Go(r, "check")
    BY <1>3, <2>1, GoStep, Zenon DEF Arrive
  <2>2. CASE UNCHANGED req
    BY <1>3, <2>2, Zenon DEF Arrive, BInv, Guessing, Locking
  <2>. QED
    BY <1>3, <2>1, <2>2, Zenon DEF Arrive
<1>4. CASE CheckFailures(r)
  BY <1>4, GoStep, Zenon DEF CheckFailures
<1>5. CASE Find(r)
  BY <1>5, GoStep, GuessStep, Zenon DEF Find
<1>6. CASE IncrementAdminLoginFailure(r)
  <2>1. req' \in [Requests -> Logins]
    BY <1>2, <1>6, Zenon DEF IncrementAdminLoginFailure
  <2>. QED
    BY <1>6, <2>1, CountStep, LosingStep, Zenon DEF IncrementAdminLoginFailure, Fault
<1>7. CASE RecordFailure(r)
  BY <1>7, RecordStep
<1>8. CASE LockAdminUser(r)
  <2>1. LockedFor \in Nat
    BY PositiveAssumption DEF LockedFor
  <2>2. [account EXCEPT !.lock = LockedFor] \in [failed : 0 .. MaxLoginFailures, lock : Nat]
    BY <1>0, <2>1
  <2>. QED
    BY <1>1, <1>8, <2>2, FreshStep, LosingStep, Zenon DEF LockAdminUser, Fault
<1>9. CASE Reset(r)
  BY <1>9, GoStep, Zenon DEF Reset
<1>10. CASE UpdateAdminLoginSuccess(r)
  <2>1. [failed |-> 0, lock |-> 0] \in [failed : 0 .. MaxLoginFailures, lock : Nat]
    BY KIs
  <2>. QED
    BY <1>1, <1>10, <2>1, FreshStep, LosingStep, Zenon DEF UpdateAdminLoginSuccess, Fault
<1>. QED
  BY <1>3, <1>4, <1>5, <1>6, <1>7, <1>8, <1>9, <1>10, Zenon DEF Login

\* The invariant of guesses is inductive.
LEMMA GuessesCounted == BInv /\ [Next]_vars => BInv'
<1>. SUFFICES ASSUME BInv, [Next]_vars PROVE BInv'
  OBVIOUS
<1>0. /\ req \in [Requests -> Logins] /\ Idle \in Logins /\ faults \in Nat
      /\ account \in [failed : 0 .. MaxLoginFailures, lock : Nat]
  BY MovesTyped, Zenon DEF BInv
<1>1. ASSUME \/ account' = [account EXCEPT !.lock = IF @ = 0 THEN 0 ELSE @ - 1]
             \/ account' = account,
             UNCHANGED <<req, guesses>>, faults' = faults \/ faults' = faults + 1
      PROVE  BInv'
  <2>1. /\ account' \in [failed : 0 .. MaxLoginFailures, lock : Nat]
        /\ account'.failed = account.failed
    BY <1>0, <1>1
  <2>2. Guessing' = Guessing /\ Locking' = Locking
    BY <1>1, Zenon DEF Guessing, Locking
  <2>3. /\ Cardinality(Guessing') >= Cardinality(Guessing)
        /\ Cardinality(Locking') >= Cardinality(Locking)
    BY <2>2, CountsAre
  <2>. QED
    BY <1>0, <1>1, <2>1, <2>3, QuietStep, Zenon
<1>2. CASE Tick \/ Cleanup \/ RedisAnswers \/ RedisFails \/ UNCHANGED vars
  BY <1>1, <1>2, Zenon DEF Tick, Cleanup, RedisAnswers, RedisFails, Admin, vars
<1>3. CASE ResetPasswordTx
  <2>1. [failed |-> 0, lock |-> 0] \in [failed : 0 .. MaxLoginFailures, lock : Nat]
    BY KIs
  <2>. QED
    BY <1>0, <1>3, <2>1, FreshStep, Zenon DEF ResetPasswordTx
<1>4. CASE Restart
  <2>1. req' \in [Requests -> Logins]
    BY <1>0, <1>4, Zenon DEF Restart
  <2>. QED
    BY <1>4, <2>1, LosingStep, Zenon DEF Restart, Fault
<1>. QED
  BY <1>2, <1>3, <1>4, LoginCounted, Zenon DEF Next

\* However logins overlap, and whatever statements fail or restarts happen, the wrong
\* passwords an account takes between two locks are bounded: Login compares a count it
\* read earlier, but every login that reads a full count goes on to lock the account.
THEOREM GuessesLimited == Spec => []GuessesBounded
<1>1. Init => BInv
  <2>. SUFFICES ASSUME Init PROVE BInv
    OBVIOUS
  <2>1. /\ account \in [failed : 0 .. MaxLoginFailures, lock : Nat] /\ account.failed = 0
        /\ Idle \in Logins
    BY KIs DEF Init, Idle, Logins
  <2>2. req \in [Requests -> Logins]
    BY <2>1, Zenon DEF Init
  <2>3. PICK c, d, m : c = Cardinality(Guessing) /\ d = Cardinality(Locking) /\ m = K * faults
    OBVIOUS
  <2>4. guesses \in Nat /\ guesses = 0 /\ faults \in Nat
    BY DEF Init
  <2>5. c \in Nat /\ d \in Nat /\ m \in Nat /\ K \in Nat \ {0} /\ MaxLoginFailures \in Nat \ {0}
    BY <2>3, <2>4, CountsAre, KIs, Zenon
  <2>6. Counted(0, 0, c, d, m)
    BY <2>5 DEF Counted, MustLock
  <2>. QED
    BY <2>1, <2>2, <2>3, <2>4, <2>6, Zenon DEF BInv
<1>2. BInv => GuessesBounded
  <2>. SUFFICES ASSUME BInv PROVE GuessesBounded
    OBVIOUS
  <2>1. PICK F, a, b, m : /\ F = account.failed /\ a = Cardinality(Guessing)
                          /\ b = Cardinality(Locking) /\ m = K * faults
    OBVIOUS
  <2>2. F \in 0 .. MaxLoginFailures
    BY <2>1 DEF BInv
  <2>3. /\ a \in Nat /\ a <= K /\ b \in Nat /\ b <= K /\ m \in Nat /\ guesses \in Nat
        /\ K \in Nat \ {0} /\ MaxLoginFailures \in Nat \ {0} /\ Counted(F, guesses, a, b, m)
    BY <2>1, CountsAre, KIs, Zenon DEF BInv
  <2>4. guesses <= MaxLoginFailures + 2 * (K - 1) + m
    BY <2>2, <2>3 DEF Counted, MustLock
  <2>. QED
    BY <2>1, <2>4, Zenon DEF GuessesBounded, K
<1>. QED
  BY <1>1, <1>2, GuessesCounted, PTL DEF Spec
============================================================================
