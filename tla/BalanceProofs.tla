---------------------------- MODULE BalanceProofs ----------------------------
(***************************************************************************)
(* What appending an entry does to derived balances.  The sums are         *)
(* recursive, so the lemmas need induction over the naturals; it is        *)
(* recovered from the well-foundedness of strict inclusion on finite sets, *)
(* applied to the sets of counterexamples.                                 *)
(***************************************************************************)
EXTENDS Balance, FiniteSetTheorems, WellFoundedInduction, TLAPS

\* Every nonempty set of naturals has a least element.
LEMMA LeastNatural ==
  ASSUME NEW T, T \subseteq Nat, T # {}
  PROVE  \E m \in T : \A k \in T : m <= k
<1> DEFINE Initial(n) == 1 .. n
           U == {Initial(n) : n \in T}
<1>1. U \subseteq FiniteSubsetsOf(Nat)
  <2> SUFFICES ASSUME NEW n \in T PROVE Initial(n) \in FiniteSubsetsOf(Nat)
    OBVIOUS
  <2>1. IsFiniteSet(1 .. n) /\ 1 .. n \in SUBSET Nat
    BY FS_Interval
  <2> QED
    BY <2>1 DEF FiniteSubsetsOf
<1>2. \E x \in U : \A y \in U : <<y, x>> \notin StrictSubsetOrdering(Nat)
  <2>1. U # {}
    OBVIOUS
  <2> HIDE DEF U
  <2> QED
    BY <1>1, <2>1, WFMin, FS_StrictSubsetOrderingWellFounded
<1>3. PICK m \in T : \A y \in U : <<y, Initial(m)>> \notin StrictSubsetOrdering(Nat)
  BY <1>2
<1>4. ASSUME NEW k \in T, k < m
      PROVE  FALSE
  <2>1. /\ Initial(k) \subseteq Initial(m)
        /\ m \in Initial(m) /\ m \notin Initial(k)
        /\ Initial(k) \in SUBSET Nat /\ Initial(m) \in SUBSET Nat
    BY <1>4
  <2>2. <<Initial(k), Initial(m)>> \in StrictSubsetOrdering(Nat)
    BY <2>1 DEF StrictSubsetOrdering
  <2> QED
    BY <1>3, <2>2
<1> QED
  BY <1>4

\* Finitely many numbers have a greatest one.
LEMMA Greatest ==
  ASSUME NEW N \in Nat \ {0}, NEW q, \A i \in 1 .. N : q[i] \in Nat
  PROVE  \E i \in 1 .. N : \A j \in 1 .. N : q[j] <= q[i]
<1> DEFINE Top(n) == \E i \in 1 .. n : \A j \in 1 .. n : q[j] <= q[i]
           Bad == {n \in 1 .. N : ~ Top(n)}
<1>1. ASSUME NEW m \in Bad, \A k \in Bad : m <= k
      PROVE  FALSE
  <2>1. m \in 1 .. N /\ ~ Top(m)
    OBVIOUS
  <2>2. m # 1
    <3>1. ASSUME m = 1 PROVE Top(m)
      BY <3>1, 1 \in 1 .. N, \A j \in 1 .. 1 : j = 1
    <3> QED
      BY <2>1, <3>1
  <2>3. m - 1 \in 1 .. N /\ m \in 1 .. m
    BY <2>1, <2>2
  <2>4. Top(m - 1)
    <3>1. m - 1 \notin Bad
      <4> HIDE DEF Bad
      <4> QED
        BY <1>1, <2>1
    <3> HIDE DEF Top
    <3> QED
      BY <2>3, <3>1
  <2>5. PICK i \in 1 .. m - 1 : \A j \in 1 .. m - 1 : q[j] <= q[i]
    BY <2>4
  <2>6. \A j \in 1 .. m : j \in 1 .. N /\ (j \in 1 .. m - 1 \/ j = m)
    BY <2>1
  <2>7. i \in 1 .. m /\ i \in 1 .. N
    BY <2>1, <2>3
  <2>8. CASE q[m] <= q[i]
    <3>1. \A j \in 1 .. m : q[j] <= q[i]
      BY <2>5, <2>6, <2>8
    <3> QED
      BY <2>1, <2>7, <3>1
  <2>9. CASE q[i] <= q[m]
    <3>1. \A j \in 1 .. m : q[j] <= q[m]
      BY <2>1, <2>5, <2>6, <2>7, <2>9
    <3> QED
      BY <2>1, <2>3, <3>1
  <2> QED
    BY <2>1, <2>7, <2>8, <2>9
<1>2. Bad = {}
  <2> Bad \subseteq Nat
    OBVIOUS
  <2> HIDE DEF Bad
  <2> QED
    BY <1>1, LeastNatural
<1>3. Top(N)
  <2> N \in 1 .. N
    OBVIOUS
  <2> HIDE DEF Top
  <2> QED
    BY <1>2
<1> QED
  BY <1>3

-----------------------------------------------------------------------------
\* f holds the partial sums of account a over the first N entries.
PartialSums(f, entries, a, N) ==
  f = [n \in 0 .. N |-> IF n = 0 THEN 0 ELSE f[n - 1] + share(entries[n], a)]

\* The recursion of running_total has a solution.
LEMMA SumsExist ==
  ASSUME NEW entries, NEW a, NEW N \in Nat
  PROVE  \E f : PartialSums(f, entries, a, N)
<1> DEFINE Bad == {n \in Nat : ~ \E f : PartialSums(f, entries, a, n)}
<1> SUFFICES ASSUME Bad # {} PROVE FALSE
  OBVIOUS
<1>1. PICK m \in Bad : \A k \in Bad : m <= k
  <2> Bad \subseteq Nat
    OBVIOUS
  <2> HIDE DEF Bad
  <2> QED
    BY LeastNatural
<1>2. CASE m = 0
  <2>1. PartialSums([n \in 0 .. 0 |-> 0], entries, a, 0)
    BY DEF PartialSums
  <2> QED
    BY <1>2, <2>1
<1>3. CASE m # 0
  <2>1. m \in Nat /\ m - 1 \in Nat /\ m - 1 \notin Bad
    BY <1>1, <1>3
  <2>2. PICK f : PartialSums(f, entries, a, m - 1)
    BY <2>1
  <2> DEFINE g == [n \in 0 .. m |-> IF n = m THEN f[m - 1] + share(entries[m], a)
                                            ELSE f[n]]
  <2>3. ASSUME NEW n \in 0 .. m
        PROVE  g[n] = IF n = 0 THEN 0 ELSE g[n - 1] + share(entries[n], a)
    <3>1. CASE n = m
      BY <1>3, <2>1, <3>1
    <3>2. CASE n # m
      <4>1. n \in 0 .. (m - 1)
        BY <3>2, <2>1
      <4>2. f[n] = IF n = 0 THEN 0 ELSE f[n - 1] + share(entries[n], a)
        BY <2>2, <4>1 DEF PartialSums
      <4>3. n # 0 => n - 1 \in 0 .. m /\ n - 1 # m
        BY <4>1, <2>1
      <4> QED
        BY <3>2, <4>2, <4>3
    <3> QED
      BY <3>1, <3>2
  <2>4. PartialSums(g, entries, a, m)
    <3> g = [n \in 0 .. m |-> g[n]]
      OBVIOUS
    <3> HIDE DEF g
    <3> QED
      BY <2>3 DEF PartialSums
  <2> QED
    BY <2>4
<1> QED
  BY <1>2, <1>3

\* So running_total satisfies its own recursion.
LEMMA RunningTotalDef ==
  ASSUME NEW entries, NEW a, Len(entries) \in Nat
  PROVE  \A n \in 0 .. Len(entries) :
           running_total(entries, a)[n] =
             IF n = 0 THEN 0
             ELSE running_total(entries, a)[n - 1] + share(entries[n], a)
<1>1. \E f : PartialSums(f, entries, a, Len(entries))
  BY SumsExist
<1>2. PartialSums(running_total(entries, a), entries, a, Len(entries))
  BY <1>1 DEF running_total, PartialSums
<1> QED
  BY <1>2 DEF PartialSums

\* Entry amounts are integers.
IntegerAmounts(E) == \A e \in E : e.amount \in Int

\* Partial sums are numbers.
LEMMA RunningTotalType ==
  ASSUME NEW E, IntegerAmounts(E), NEW entries \in Seq(E), NEW a
  PROVE  \A n \in 0 .. Len(entries) : running_total(entries, a)[n] \in Int
<1> DEFINE f == running_total(entries, a)
           Bad == {n \in 0 .. Len(entries) : f[n] \notin Int}
<1>1. Len(entries) \in Nat
  OBVIOUS
<1>2. \A n \in 0 .. Len(entries) :
        f[n] = IF n = 0 THEN 0 ELSE f[n - 1] + share(entries[n], a)
  BY <1>1, RunningTotalDef
<1>3. \A n \in 1 .. Len(entries) : share(entries[n], a) \in Int
  BY DEF share, IntegerAmounts
<1> SUFFICES ASSUME Bad # {} PROVE FALSE
  OBVIOUS
<1>4. PICK m \in Bad : \A k \in Bad : m <= k
  <2> Bad \subseteq Nat
    BY <1>1
  <2> HIDE DEF Bad
  <2> QED
    BY LeastNatural
<1> HIDE DEF f
<1>5. m # 0 => m - 1 \in 0 .. Len(entries) /\ m - 1 \notin Bad /\ m \in 1 .. Len(entries)
  BY <1>1, <1>4
<1> QED
  BY <1>1, <1>2, <1>3, <1>4, <1>5

\* Later entries do not change earlier partial sums.
LEMMA RunningTotalPrefix ==
  ASSUME NEW E, NEW entries \in Seq(E), NEW e \in E, NEW a
  PROVE  \A n \in 0 .. Len(entries) :
           running_total(Append(entries, e), a)[n] = running_total(entries, a)[n]
<1> DEFINE longer == Append(entries, e)
           f == running_total(entries, a)
           g == running_total(longer, a)
           Bad == {n \in 0 .. Len(entries) : f[n] # g[n]}
<1>1. /\ Len(entries) \in Nat /\ Len(longer) = Len(entries) + 1
      /\ \A n \in 1 .. Len(entries) : longer[n] = entries[n]
  OBVIOUS
<1>2. \A n \in 0 .. Len(entries) :
        f[n] = IF n = 0 THEN 0 ELSE f[n - 1] + share(entries[n], a)
  BY <1>1, RunningTotalDef
<1>3. \A n \in 0 .. Len(longer) :
        g[n] = IF n = 0 THEN 0 ELSE g[n - 1] + share(longer[n], a)
  <2> Len(longer) \in Nat
    BY <1>1
  <2> HIDE DEF longer
  <2> QED
    BY RunningTotalDef
<1> SUFFICES ASSUME Bad # {} PROVE FALSE
  OBVIOUS
<1>4. PICK m \in Bad : \A k \in Bad : m <= k
  <2> Bad \subseteq Nat
    BY <1>1
  <2> HIDE DEF Bad
  <2> QED
    BY LeastNatural
<1> HIDE DEF f, g, longer
<1>5. m # 0 => m - 1 \in 0 .. Len(entries) /\ m - 1 \notin Bad /\ m \in 1 .. Len(entries)
  BY <1>1, <1>4
<1> QED
  BY <1>1, <1>2, <1>3, <1>4, <1>5

-----------------------------------------------------------------------------
\* compute_balance (service.py:45-51) of an account without entries is zero.
THEOREM BalanceOfNone ==
  ASSUME NEW a
  PROVE  compute_balance(<< >>, a) = 0
BY RunningTotalDef, Len(<< >>) = 0 DEF compute_balance

\* Only entries of an account contribute to its balance.
LEMMA BalanceOfAbsent ==
  ASSUME NEW entries, Len(entries) \in Nat, NEW a,
         \A i \in 1 .. Len(entries) : entries[i].account_id # a
  PROVE  compute_balance(entries, a) = 0
<1> DEFINE f == running_total(entries, a)
           Bad == {n \in 0 .. Len(entries) : f[n] # 0}
<1>1. \A n \in 0 .. Len(entries) :
        f[n] = IF n = 0 THEN 0 ELSE f[n - 1] + share(entries[n], a)
  BY RunningTotalDef
<1>2. \A n \in 1 .. Len(entries) : share(entries[n], a) = 0
  BY DEF share
<1>3. Bad = {}
  <2> SUFFICES ASSUME Bad # {} PROVE FALSE
    OBVIOUS
  <2>1. PICK m \in Bad : \A k \in Bad : m <= k
    <3> Bad \subseteq Nat
      OBVIOUS
    <3> HIDE DEF Bad
    <3> QED
      BY LeastNatural
  <2> HIDE DEF f
  <2>2. m # 0 => m - 1 \in 0 .. Len(entries) /\ m - 1 \notin Bad /\ m \in 1 .. Len(entries)
    BY <2>1
  <2> QED
    BY <1>1, <1>2, <2>1, <2>2
<1>4. Len(entries) \in 0 .. Len(entries)
  OBVIOUS
<1> QED
  BY <1>3, <1>4 DEF compute_balance

\* A balance is a number.
LEMMA BalanceType ==
  ASSUME NEW E, IntegerAmounts(E), NEW entries \in Seq(E), NEW a
  PROVE  compute_balance(entries, a) \in Int
<1> Len(entries) \in 0 .. Len(entries)
  OBVIOUS
<1> QED
  BY RunningTotalType DEF compute_balance

\* An appended entry moves the balance of its own account by its amount and no
\* other balance (service.py:45-51).
THEOREM BalanceOfAppend ==
  ASSUME NEW E, IntegerAmounts(E), NEW entries \in Seq(E), NEW e \in E, NEW a
  PROVE  compute_balance(Append(entries, e), a)
           = compute_balance(entries, a) + share(e, a)
<1> DEFINE longer == Append(entries, e)
           N == Len(entries)
<1>1. N \in Nat /\ Len(longer) = N + 1 /\ longer[N + 1] = e
  OBVIOUS
<1>2. running_total(longer, a)[N + 1] = running_total(longer, a)[N] + share(e, a)
  <2> HIDE DEF longer, N
  <2> QED
    BY <1>1, RunningTotalDef
<1>3. running_total(longer, a)[N] = running_total(entries, a)[N]
  BY <1>1, RunningTotalPrefix
<1> QED
  BY <1>1, <1>2, <1>3 DEF compute_balance
=============================================================================
