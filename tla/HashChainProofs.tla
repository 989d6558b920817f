--------------------------- MODULE HashChainProofs ---------------------------
(***************************************************************************)
(* Theorems about HashChain for any number of rows, edits and digests: the *)
(* chain verifies as long as nobody edits a row, an edit of a covered      *)
(* column is found at the row it says, and nothing the service does later  *)
(* makes it go away.                                                       *)
(*                                                                         *)
(* The chain is what SELECT ... ORDER BY chain_seq returns.  in_order      *)
(* models ORDER BY by counting, so the proofs find a row at the place      *)
(* given by the number of rows sorted before it.                           *)
(***************************************************************************)
EXTENDS HashChain, BalanceProofs

-----------------------------------------------------------------------------
\* ORDER BY

StrictOrder(S, before) ==
  /\ \A i \in S : <<i, i>> \notin before
  /\ \A i, j, k \in S : <<i, j>> \in before /\ <<j, k>> \in before => <<i, k>> \in before
  /\ \A i, j \in S : i = j \/ <<i, j>> \in before \/ <<j, i>> \in before

\* The members of S that are sorted before i.
ahead(S, before, i) == {j \in S : <<j, i>> \in before}

\* The later of two members has more of them before it.
LEMMA Ranks ==
  ASSUME NEW S, IsFiniteSet(S), NEW before, StrictOrder(S, before)
  PROVE  /\ Cardinality(S) \in Nat
         /\ \A i \in S : Cardinality(ahead(S, before, i)) \in 0 .. Cardinality(S) - 1
         /\ \A i, j \in S :
              <<i, j>> \in before
                => Cardinality(ahead(S, before, i)) < Cardinality(ahead(S, before, j))
<1>1. ASSUME NEW T, NEW U, IsFiniteSet(U), T \subseteq U, T # U
      PROVE  Cardinality(T) \in Nat /\ Cardinality(U) \in Nat /\ Cardinality(T) < Cardinality(U)
  <2>1. IsFiniteSet(T) /\ Cardinality(T) <= Cardinality(U) /\ Cardinality(T) # Cardinality(U)
    BY <1>1, FS_Subset
  <2>2. Cardinality(T) \in Nat /\ Cardinality(U) \in Nat
    BY <1>1, <2>1, FS_CardinalityType
  <2> QED
    BY <2>1, <2>2
<1>2. \A i \in S : ahead(S, before, i) \subseteq S /\ ahead(S, before, i) # S
  BY DEF ahead, StrictOrder
<1>3. Cardinality(S) \in Nat
  BY FS_CardinalityType
<1>4. ASSUME NEW i \in S
      PROVE  Cardinality(ahead(S, before, i)) \in 0 .. Cardinality(S) - 1
  <2>1. Cardinality(ahead(S, before, i)) \in Nat
        /\ Cardinality(ahead(S, before, i)) < Cardinality(S)
    BY <1>1, <1>2
  <2> QED
    BY <1>3, <2>1
<1>5. ASSUME NEW i \in S, NEW j \in S, <<i, j>> \in before
      PROVE  Cardinality(ahead(S, before, i)) < Cardinality(ahead(S, before, j))
  <2>1. ahead(S, before, i) \subseteq ahead(S, before, j)
    BY <1>5 DEF ahead, StrictOrder
  <2>2. i \in ahead(S, before, j) /\ i \notin ahead(S, before, i)
    BY <1>5 DEF ahead, StrictOrder
  <2>3. IsFiniteSet(ahead(S, before, j))
    BY <1>2, FS_Subset
  <2> QED
    BY <1>1, <2>1, <2>2, <2>3
<1> QED
  BY <1>3, <1>4, <1>5

\* in_order lists every member once, in the order asked for.
LEMMA InOrder ==
  ASSUME NEW S, IsFiniteSet(S), NEW before, StrictOrder(S, before)
  PROVE  /\ Cardinality(S) \in Nat
         /\ in_order(S, before) \in [1 .. Cardinality(S) -> S]
         /\ \A i \in S :
              /\ Cardinality(ahead(S, before, i)) + 1 \in 1 .. Cardinality(S)
              /\ in_order(S, before)[Cardinality(ahead(S, before, i)) + 1] = i
         /\ \A n \in 1 .. Cardinality(S) :
              Cardinality(ahead(S, before, in_order(S, before)[n])) = n - 1
         /\ \A m, n \in 1 .. Cardinality(S) :
              m < n <=> <<in_order(S, before)[m], in_order(S, before)[n]>> \in before
<1> DEFINE N == Cardinality(S)
           rank(i) == Cardinality(ahead(S, before, i))
           s == in_order(S, before)
           f == [i \in S |-> rank(i) + 1]
<1>1. /\ N \in Nat
      /\ \A i \in S : rank(i) \in 0 .. N - 1
      /\ \A i, j \in S : <<i, j>> \in before => rank(i) < rank(j)
  BY Ranks
<1>2. ASSUME NEW i \in S, NEW j \in S, rank(i) = rank(j), i # j
      PROVE  FALSE
  <2>1. <<i, j>> \in before \/ <<j, i>> \in before
    BY <1>2 DEF StrictOrder
  <2>2. rank(i) < rank(j) \/ rank(j) < rank(i)
    BY <1>1, <2>1
  <2>3. rank(i) \in Int
    BY <1>1
  <2> HIDE DEF rank
  <2> QED
    BY <1>2, <2>2, <2>3
<1>3. \A n \in 1 .. N : \E i \in S : rank(i) = n - 1
  <2>1. f \in [S -> 1 .. N]
    <3> HIDE DEF rank, N
    <3> QED
      BY <1>1
  <2>2. f \in Injection(S, 1 .. N)
    <3>1. \A a, b \in S : f[a] = f[b] => a = b
      <4> HIDE DEF rank, N
      <4> QED
        BY <1>1, <1>2
    <3>2. DOMAIN f = S
      OBVIOUS
    <3> HIDE DEF f
    <3> QED
      BY <2>1, <3>1, <3>2 DEF Injection, IsInjective
  <2>3. IsFiniteSet(1 .. N) /\ Cardinality(1 .. N) = N
    <3> HIDE DEF N
    <3> QED
      BY <1>1, FS_Interval
  <2>4. f \in Surjection(S, 1 .. N)
    <3> HIDE DEF f
    <3> QED
      BY <2>2, <2>3, FS_Injection
  <2>5. \A n \in 1 .. N : \E i \in S : f[i] = n
    <3> HIDE DEF f, N
    <3> QED
      BY <2>4 DEF Surjection
  <2>6. ASSUME NEW n \in 1 .. N, NEW i \in S, f[i] = n
        PROVE  rank(i) = n - 1
    <3>1. rank(i) + 1 = n /\ rank(i) \in Int /\ n \in Int
      BY <1>1, <2>6
    <3> HIDE DEF rank
    <3> QED
      BY <3>1
  <2> HIDE DEF f, N, rank
  <2> QED
    BY <2>5, <2>6
<1>4. s = [n \in 1 .. N |-> CHOOSE i \in S : rank(i) = n - 1]
  BY DEF in_order, ahead
<1>5. \A n \in 1 .. N : s[n] \in S /\ rank(s[n]) = n - 1
  <2> HIDE DEF rank, N, s
  <2> QED
    BY <1>3, <1>4
<1>6. s \in [1 .. N -> S]
  <2> HIDE DEF rank, N, s
  <2> QED
    BY <1>4, <1>5
<1>7. \A i \in S : rank(i) + 1 \in 1 .. N /\ s[rank(i) + 1] = i
  <2> HIDE DEF rank, N, s
  <2> QED
    BY <1>1, <1>2, <1>5
<1>8. ASSUME NEW m \in 1 .. N, NEW n \in 1 .. N
      PROVE  m < n <=> <<s[m], s[n]>> \in before
  <2>1. /\ s[m] \in S /\ s[n] \in S
        /\ rank(s[m]) = m - 1 /\ rank(s[n]) = n - 1
    BY <1>5
  <2>2. <<s[m], s[n]>> \in before => rank(s[m]) < rank(s[n])
    BY <1>1, <2>1
  <2>3. \/ s[m] = s[n]
        \/ <<s[m], s[n]>> \in before
        \/ <<s[n], s[m]>> \in before
    BY <2>1 DEF StrictOrder
  <2>4. <<s[n], s[m]>> \in before => rank(s[n]) < rank(s[m])
    BY <1>1, <2>1
  <2>5. s[m] = s[n] => rank(s[m]) = rank(s[n])
    OBVIOUS
  <2> HIDE DEF rank, N, s
  <2>6. m \in Int /\ n \in Int
    BY <1>1
  <2> QED
    BY <2>1, <2>2, <2>3, <2>4, <2>5, <2>6
<1> QED
  BY <1>1, <1>5, <1>6, <1>7, <1>8

\* And there is only one such list.
LEMMA OneOrder ==
  ASSUME NEW S, NEW before, StrictOrder(S, before), NEW N \in Nat, NEW s \in [1 .. N -> S],
         \A i \in S : \E n \in 1 .. N : s[n] = i,
         \A m, n \in 1 .. N : m < n => <<s[m], s[n]>> \in before
  PROVE  IsFiniteSet(S) /\ Cardinality(S) = N /\ in_order(S, before) = s
<1>1. \A m, n \in 1 .. N : s[m] = s[n] => m = n
  <2> SUFFICES ASSUME NEW m \in 1 .. N, NEW n \in 1 .. N, m < n, s[m] = s[n]
               PROVE  FALSE
    OBVIOUS
  <2> QED
    BY DEF StrictOrder
<1>2. s \in Bijection(1 .. N, S)
  BY <1>1 DEF Bijection, Injection, Surjection, IsInjective
<1>3. IsFiniteSet(S) /\ Cardinality(S) = N
  <2>1. IsFiniteSet(1 .. N) /\ Cardinality(1 .. N) = N
    BY FS_Interval
  <2> QED
    BY <1>2, <2>1, FS_Bijection DEF ExistsBijection
<1>4. ASSUME NEW n \in 1 .. N
      PROVE  Cardinality(ahead(S, before, s[n])) = n - 1
  <2> DEFINE g == [m \in 1 .. (n - 1) |-> s[m]]
  <2>1. \A m \in 1 .. (n - 1) : m \in 1 .. N /\ m < n
    OBVIOUS
  <2>2. \A m \in 1 .. (n - 1) : g[m] \in ahead(S, before, s[n])
    BY <2>1 DEF ahead
  <2>3. ASSUME NEW i \in ahead(S, before, s[n])
        PROVE  \E m \in 1 .. (n - 1) : g[m] = i
    <3>1. PICK m \in 1 .. N : s[m] = i
      BY <2>3 DEF ahead
    <3>2. <<s[m], s[n]>> \in before
      BY <2>3, <3>1 DEF ahead
    <3>3. m # n
      BY <3>2 DEF StrictOrder
    <3>4. ~ n < m
      BY <3>2 DEF StrictOrder
    <3>5. m \in 1 .. (n - 1)
      BY <3>3, <3>4
    <3> QED
      BY <3>1, <3>5
  <2>4. \A m, k \in 1 .. (n - 1) : g[m] = g[k] => m = k
    BY <1>1, <2>1
  <2>5. g \in [1 .. (n - 1) -> ahead(S, before, s[n])]
    BY <2>2
  <2>6. g \in Bijection(1 .. (n - 1), ahead(S, before, s[n]))
    <3> HIDE DEF g
    <3> QED
      BY <2>3, <2>4, <2>5 DEF Bijection, Injection, Surjection, IsInjective
  <2>7. n - 1 \in Nat
    OBVIOUS
  <2> HIDE DEF g
  <2> QED
    BY <2>6, <2>7, FS_CountingElements DEF ExistsBijection
<1>5. ASSUME NEW n \in 1 .. N
      PROVE  in_order(S, before)[n] = s[n]
  <2>1. Cardinality(ahead(S, before, s[n])) + 1 = n
    BY <1>4
  <2>2. in_order(S, before)[Cardinality(ahead(S, before, s[n])) + 1] = s[n]
    BY <1>3, InOrder
  <2> QED
    BY <2>1, <2>2
<1>6. in_order(S, before) \in [1 .. N -> S]
  BY <1>3, InOrder
<1> QED
  BY <1>3, <1>5, <1>6

-----------------------------------------------------------------------------
\* The chain of a table

\* Finitely many rows, of which no two have the same place in the chain.
Sound(table) ==
  /\ IsFiniteSet(DOMAIN table)
  /\ \A i \in DOMAIN table : table[i].chain_seq \in Nat
  /\ \A i, j \in linked(table) : table[i].chain_seq = table[j].chain_seq => i = j

\* Distinct sequence numbers order the linked rows.
LEMMA SeqOrder ==
  ASSUME NEW table, Sound(table)
  PROVE  IsFiniteSet(linked(table)) /\ StrictOrder(linked(table), by_seq(table))
<1>1. IsFiniteSet(linked(table))
  BY FS_Subset DEF Sound, linked
<1>2. \A i \in linked(table) : table[i].chain_seq \in Int
  BY DEF Sound, linked
<1>3. \A i, j \in linked(table) :
        <<i, j>> \in by_seq(table) <=> table[i].chain_seq < table[j].chain_seq
  BY DEF by_seq
<1> QED
  BY <1>1, <1>2, <1>3 DEF StrictOrder, Sound

\* The chain holds every linked row once, by chain_seq.
LEMMA ChainOrder ==
  ASSUME NEW table, Sound(table)
  PROVE  /\ Len(chain(table)) \in Nat
         /\ Len(chain(table)) = Cardinality(linked(table))
         /\ chain(table) \in [1 .. Len(chain(table)) -> linked(table)]
         /\ \A i \in linked(table) : \E n \in 1 .. Len(chain(table)) : chain(table)[n] = i
         /\ \A m, n \in 1 .. Len(chain(table)) :
              m < n <=> table[chain(table)[m]].chain_seq < table[chain(table)[n]].chain_seq
<1> DEFINE N == Cardinality(linked(table))
<1>1. /\ N \in Nat
      /\ chain(table) \in [1 .. N -> linked(table)]
      /\ \A i \in linked(table) : \E n \in 1 .. N : chain(table)[n] = i
      /\ \A m, n \in 1 .. N :
           m < n <=> <<chain(table)[m], chain(table)[n]>> \in by_seq(table)
  BY SeqOrder, InOrder DEF chain
<1>2. Len(chain(table)) = N
  <2> HIDE DEF N
  <2> QED
    BY <1>1
<1>3. ASSUME NEW m \in 1 .. N, NEW n \in 1 .. N
      PROVE  m < n <=> table[chain(table)[m]].chain_seq < table[chain(table)[n]].chain_seq
  <2>1. chain(table)[m] \in linked(table) /\ chain(table)[n] \in linked(table)
    BY <1>1
  <2>2. <<chain(table)[m], chain(table)[n]>> \in by_seq(table)
          <=> table[chain(table)[m]].chain_seq < table[chain(table)[n]].chain_seq
    BY <2>1 DEF by_seq
  <2> QED
    BY <1>1, <2>2
<1>4. N = Cardinality(linked(table))
  OBVIOUS
<1> HIDE DEF N
<1> QED
  BY <1>1, <1>2, <1>3, <1>4

\* s lists the linked rows by chain_seq.
ListsChain(table, N, s) ==
  /\ N \in Nat
  /\ s \in [1 .. N -> linked(table)]
  /\ \A i \in linked(table) : \E n \in 1 .. N : s[n] = i
  /\ \A m, n \in 1 .. N : m < n => table[s[m]].chain_seq < table[s[n]].chain_seq

\* Such a list is the chain.
LEMMA ChainIs ==
  ASSUME NEW table, Sound(table), NEW N, NEW s, ListsChain(table, N, s)
  PROVE  chain(table) = s
<1>1. \A m, n \in 1 .. N : m < n => <<s[m], s[n]>> \in by_seq(table)
  BY DEF by_seq, ListsChain
<1>2. StrictOrder(linked(table), by_seq(table))
  BY SeqOrder
<1> QED
  BY <1>1, <1>2, OneOrder DEF chain, ListsChain

\* The tip has the greatest chain_seq.
LEMMA TipIsLast ==
  ASSUME NEW table, Sound(table), linked(table) # {}
  PROVE  /\ Len(chain(table)) \in 1 .. Len(chain(table))
         /\ tip(table) \in linked(table)
         /\ \A i \in linked(table) : table[i].chain_seq <= table[tip(table)].chain_seq
<1> DEFINE N == Len(chain(table))
           s == chain(table)
<1>1. /\ N \in Nat
      /\ s \in [1 .. N -> linked(table)]
      /\ \A i \in linked(table) : \E n \in 1 .. N : s[n] = i
      /\ \A m, n \in 1 .. N : m < n <=> table[s[m]].chain_seq < table[s[n]].chain_seq
  BY ChainOrder
<1>2. \A i \in linked(table) : table[i].chain_seq \in Int
  BY DEF Sound, linked
<1>3. tip(table) = s[N]
  BY DEF tip
<1> HIDE DEF N, s
<1>4. N \in 1 .. N
  BY <1>1
<1>5. ASSUME NEW i \in linked(table)
      PROVE  table[i].chain_seq <= table[s[N]].chain_seq
  <2>1. PICK n \in 1 .. N : s[n] = i
    BY <1>1
  <2>2. n < N \/ n = N
    BY <1>1
  <2>3. s[N] \in linked(table)
    BY <1>1, <1>4
  <2> QED
    BY <1>1, <1>2, <1>4, <2>1, <2>2, <2>3
<1>6. s[N] \in linked(table)
  BY <1>1, <1>4
<1> QED
  BY <1>3, <1>4, <1>5, <1>6 DEF N

-----------------------------------------------------------------------------
\* Inserted rows

\* t is the table with one row more.
Inserted(table, id, row, t) ==
  /\ id \notin DOMAIN table
  /\ DOMAIN t = DOMAIN table \cup {id}
  /\ t[id] = row
  /\ \A i \in DOMAIN table : t[i] = table[i]

\* A row that is inserted has no place in the chain, or the next one.
GoesBehind(table, row) ==
  /\ row.chain_seq \in Nat
  /\ row.chain_seq # Null => \A i \in linked(table) : table[i].chain_seq < row.chain_seq

\* A new row at the end of the chain keeps its numbers distinct and positive.
LEMMA InsertIsSound ==
  ASSUME NEW table, Sound(table), NEW id, NEW row, GoesBehind(table, row),
         NEW t, Inserted(table, id, row, t)
  PROVE  /\ Sound(t)
         /\ row.chain_seq = Null => linked(t) = linked(table)
         /\ row.chain_seq # Null => linked(t) = linked(table) \cup {id}
<1>1. /\ id \notin DOMAIN table
      /\ DOMAIN t = DOMAIN table \cup {id}
      /\ t[id] = row
      /\ \A i \in DOMAIN table : t[i] = table[i]
  BY DEF Inserted
<1>2. IsFiniteSet(DOMAIN t)
  BY <1>1, FS_AddElement DEF Sound
<1>3. /\ row.chain_seq = Null => linked(t) = linked(table)
      /\ row.chain_seq # Null => linked(t) = linked(table) \cup {id}
  BY <1>1 DEF linked
<1>4. \A i \in DOMAIN t : t[i].chain_seq \in Nat
  BY <1>1 DEF Sound, GoesBehind
<1>5. ASSUME NEW i \in linked(t), NEW j \in linked(t), t[i].chain_seq = t[j].chain_seq
      PROVE  i = j
  <2>1. \A k \in linked(table) : k # id /\ t[k] = table[k] /\ table[k].chain_seq \in Nat
    BY <1>1 DEF linked, Sound
  <2>2. CASE i \in linked(table) /\ j \in linked(table)
    BY <1>5, <2>1, <2>2 DEF Sound
  <2>3. CASE i = id /\ j \in linked(table) /\ row.chain_seq # Null
    <3>1. table[j].chain_seq < row.chain_seq
      BY <2>3 DEF GoesBehind
    <3> QED
      BY <1>1, <1>5, <2>1, <2>3, <3>1 DEF GoesBehind
  <2>4. CASE j = id /\ i \in linked(table) /\ row.chain_seq # Null
    <3>1. table[i].chain_seq < row.chain_seq
      BY <2>4 DEF GoesBehind
    <3> QED
      BY <1>1, <1>5, <2>1, <2>4, <3>1 DEF GoesBehind
  <2> QED
    BY <1>3, <1>5, <2>2, <2>3, <2>4
<1>6. Sound(t)
  BY <1>2, <1>4, <1>5 DEF Sound
<1> QED
  BY <1>3, <1>6

\* So the chain stays as it is, but for the new row behind its last one.
LEMMA InsertAppends ==
  ASSUME NEW table, Sound(table), NEW id, NEW row, GoesBehind(table, row),
         NEW t, Inserted(table, id, row, t)
  PROVE  /\ \A n \in 1 .. Len(chain(table)) : chain(t)[n] = chain(table)[n]
         /\ row.chain_seq = Null => Len(chain(t)) = Len(chain(table))
         /\ row.chain_seq # Null =>
              /\ Len(chain(t)) = Len(chain(table)) + 1
              /\ chain(t)[Len(chain(table)) + 1] = id
<1> DEFINE N == Len(chain(table))
           s == chain(table)
<1>1. /\ Sound(t)
      /\ id \notin DOMAIN table
      /\ t[id] = row
      /\ \A i \in DOMAIN table : t[i] = table[i]
      /\ row.chain_seq = Null => linked(t) = linked(table)
      /\ row.chain_seq # Null => linked(t) = linked(table) \cup {id}
  BY InsertIsSound DEF Inserted
<1>2. /\ N \in Nat
      /\ s \in [1 .. N -> linked(table)]
      /\ \A i \in linked(table) : \E n \in 1 .. N : s[n] = i
      /\ \A m, n \in 1 .. N : m < n <=> table[s[m]].chain_seq < table[s[n]].chain_seq
  BY ChainOrder
<1>3. \A n \in 1 .. N : s[n] \in DOMAIN table /\ t[s[n]] = table[s[n]]
  <2> HIDE DEF s, N
  <2> QED
    BY <1>1, <1>2 DEF linked
<1>4. CASE row.chain_seq = Null
  <2>1. chain(t) = s
    <3>1. linked(t) = linked(table)
      BY <1>1, <1>4
    <3>2. \A m, n \in 1 .. N : m < n => t[s[m]].chain_seq < t[s[n]].chain_seq
      BY <1>2, <1>3
    <3> HIDE DEF s, N
    <3>3. ListsChain(t, N, s)
      BY <1>2, <3>1, <3>2 DEF ListsChain
    <3> QED
      BY <1>1, <3>3, ChainIs
  <2> QED
    BY <1>4, <2>1
<1>5. CASE row.chain_seq # Null
  <2> DEFINE longer == [n \in 1 .. (N + 1) |-> IF n = N + 1 THEN id ELSE s[n]]
  <2>1. /\ \A n \in 1 .. N : longer[n] = s[n]
        /\ longer[N + 1] = id
    <3> HIDE DEF s, N
    <3> QED
      BY <1>2
  <2>2. linked(t) = linked(table) \cup {id}
    BY <1>1, <1>5
  <2>3. \A n \in 1 .. (N + 1) : n \in 1 .. N \/ n = N + 1
    <3> HIDE DEF s, N
    <3> QED
      BY <1>2
  <2>4. longer \in [1 .. (N + 1) -> linked(t)]
    <3> HIDE DEF s, N
    <3> QED
      BY <1>2, <2>2, <2>3
  <2>5. N \in Nat /\ N + 1 \in Nat /\ N + 1 \in 1 .. (N + 1)
    <3> HIDE DEF s, N
    <3> QED
      BY <1>2
  <2>6. \A n \in 1 .. N : n \in 1 .. (N + 1)
    <3> HIDE DEF s, N
    <3> QED
      BY <1>2
  <2> HIDE DEF longer
  <2>7. \A i \in linked(t) : \E n \in 1 .. (N + 1) : longer[n] = i
    <3> HIDE DEF s, N
    <3> QED
      BY <1>2, <2>1, <2>2, <2>5, <2>6
  <2>8. ASSUME NEW m \in 1 .. (N + 1), NEW n \in 1 .. (N + 1), m < n
        PROVE  t[longer[m]].chain_seq < t[longer[n]].chain_seq
    <3> HIDE DEF s, N
    <3>1. m \in 1 .. N
      BY <1>2, <2>8
    <3>2. CASE n \in 1 .. N
      BY <1>2, <1>3, <2>1, <2>8, <3>1, <3>2
    <3>3. CASE n = N + 1
      <4>1. table[s[m]].chain_seq < row.chain_seq
        BY <1>2, <1>5, <3>1 DEF GoesBehind
      <4>2. longer[m] = s[m] /\ t[longer[m]] = table[s[m]]
        BY <1>3, <2>1, <3>1
      <4>3. longer[n] = id /\ t[longer[n]] = row
        BY <1>1, <2>1, <3>3
      <4> QED
        BY <4>1, <4>2, <4>3
    <3> QED
      BY <2>3, <3>2, <3>3
  <2>9. chain(t) = longer
    <3> HIDE DEF s, N
    <3>1. ListsChain(t, N + 1, longer)
      BY <2>4, <2>5, <2>7, <2>8 DEF ListsChain
    <3> QED
      BY <1>1, <3>1, ChainIs
  <2>10. Len(chain(t)) = N + 1
    <3> HIDE DEF s, N
    <3> QED
      BY <2>4, <2>5, <2>9
  <2> QED
    BY <1>5, <2>1, <2>9, <2>10
<1> QED
  BY <1>4, <1>5

\* The chain grows by one row.
LEMMA LinkedIsLonger ==
  ASSUME NEW table, Sound(table), NEW id, NEW row, GoesBehind(table, row), row.chain_seq # Null,
         NEW t, Inserted(table, id, row, t)
  PROVE  Len(chain(t)) = Len(chain(table)) + 1
<1>1. Sound(t) /\ linked(t) = linked(table) \cup {id}
  BY InsertIsSound
<1>2. id \notin linked(table)
  BY DEF Inserted, linked
<1>3. IsFiniteSet(linked(table))
  BY SeqOrder
<1>4. Cardinality(linked(t)) = Cardinality(linked(table)) + 1
  BY <1>1, <1>2, <1>3, FS_AddElement
<1> QED
  BY <1>1, <1>4, ChainOrder

-----------------------------------------------------------------------------
\* What verify_hash_chain reports of it

\* The chain verifies when each row names the hash of the row before it and its own
\* hash matches its columns (chain.py:70-87).
LEMMA Verdict ==
  ASSUME NEW table, Sound(table)
  PROVE  \A n : n \in broken_links(table) <=>
           /\ n \in 1 .. Len(chain(table))
           /\ \/ table[chain(table)[n]].prev_hash # expected_prev(table, n)
              \/ recomputed(table, n) # table[chain(table)[n]].chain_hash
<1>1. DOMAIN chain(table) = 1 .. Len(chain(table))
  BY ChainOrder
<1> QED
  BY <1>1 DEF broken_links

\* The verdict on a row does not depend on rows inserted later.
LEMMA InsertKeepsVerdicts ==
  ASSUME NEW table, Sound(table), NEW id, NEW row, GoesBehind(table, row),
         NEW t, Inserted(table, id, row, t), NEW n \in 1 .. Len(chain(table))
  PROVE  /\ chain(t)[n] \in DOMAIN table
         /\ t[chain(t)[n]] = table[chain(table)[n]]
         /\ n \in broken_links(t) <=> n \in broken_links(table)
<1> DEFINE N == Len(chain(table))
           s == chain(table)
<1>1. N \in Nat /\ \A k \in 1 .. N : s[k] \in linked(table)
  BY ChainOrder
<1>2. Sound(t)
  BY InsertIsSound
<1>3. \A k \in 1 .. N : chain(t)[k] = s[k]
  BY InsertAppends
<1>4. Len(chain(t)) = N \/ Len(chain(t)) = N + 1
  BY InsertAppends
<1>5. \A k \in 1 .. N : s[k] \in DOMAIN table /\ t[s[k]] = table[s[k]]
  BY <1>1 DEF Inserted, linked
<1>6. n \in 1 .. Len(chain(t))
  BY <1>1, <1>4
<1>7. n # 1 => n - 1 \in 1 .. N
  BY <1>1
<1>8. expected_prev(t, n) = expected_prev(table, n)
  BY <1>3, <1>5, <1>7 DEF expected_prev
<1>9. recomputed(t, n) = recomputed(table, n)
  BY <1>3, <1>5 DEF recomputed
<1>10. chain(t)[n] = s[n] /\ t[s[n]] = table[s[n]] /\ s[n] \in DOMAIN table
  BY <1>3, <1>5
<1> QED
  BY <1>2, <1>6, <1>8, <1>9, <1>10, Verdict

\* link_transaction puts a row behind the tip, with hashes that verify.
LEMMA LinkedRowFits ==
  ASSUME NEW table, Sound(table), NEW id, NEW content, NEW time
  PROVE  /\ GoesBehind(table, linked_row(table, id, content, time))
         /\ linked_row(table, id, content, time).chain_seq # Null
<1> DEFINE row == linked_row(table, id, content, time)
<1>1. CASE linked(table) = {}
  BY <1>1 DEF linked_row, GoesBehind, Null
<1>2. CASE linked(table) # {}
  <2>1. /\ tip(table) \in linked(table)
        /\ \A i \in linked(table) : table[i].chain_seq <= table[tip(table)].chain_seq
    BY <1>2, TipIsLast
  <2>2. \A i \in linked(table) : table[i].chain_seq \in Nat
    BY DEF Sound, linked
  <2>3. row.chain_seq = table[tip(table)].chain_seq + 1
    BY <1>2 DEF linked_row
  <2>4. GoesBehind(table, row) /\ row.chain_seq # Null
    <3> HIDE DEF row
    <3> QED
      BY <2>1, <2>2, <2>3 DEF GoesBehind, Null
  <2> QED
    BY <2>4
<1> QED
  BY <1>1, <1>2

\* A posting extends a chain that verifies to one that verifies (chain.py:45-48).
LEMMA LinkVerifies ==
  ASSUME NEW table, Sound(table), NEW id, NEW content, NEW time,
         NEW t, Inserted(table, id, linked_row(table, id, content, time), t)
  PROVE  Len(chain(table)) + 1 \notin broken_links(t)
<1> DEFINE N == Len(chain(table))
           s == chain(table)
           row == linked_row(table, id, content, time)
<1>1. GoesBehind(table, row) /\ row.chain_seq # Null
  BY LinkedRowFits
<1>2. N \in Nat /\ N = Cardinality(linked(table)) /\ \A k \in 1 .. N : s[k] \in linked(table)
  BY ChainOrder
<1>3. /\ Sound(t)
      /\ chain(t)[N + 1] = id
      /\ \A k \in 1 .. N : chain(t)[k] = s[k]
  <2>1. Inserted(table, id, row, t)
    OBVIOUS
  <2> HIDE DEF row
  <2> QED
    BY <1>1, <2>1, InsertIsSound, InsertAppends
<1>4. t[id] = row
  BY DEF Inserted
<1>5. recomputed(t, N + 1) = row.chain_hash
  BY <1>3, <1>4 DEF recomputed, linked_row, compute_chain_hash
<1>6. row.prev_hash = expected_prev(t, N + 1)
  <2>1. CASE linked(table) = {}
    <3>1. N = 0
      BY <1>2, <2>1, FS_EmptySet
    <3>2. row.prev_hash = GENESIS_HASH
      BY <2>1 DEF linked_row
    <3> QED
      BY <3>1, <3>2 DEF expected_prev
  <2>2. CASE linked(table) # {}
    <3>1. N \in 1 .. N
      BY <2>2, TipIsLast
    <3>2. row.prev_hash = table[s[N]].chain_hash
      BY <2>2 DEF linked_row, tip
    <3>3. N + 1 # 1 /\ (N + 1) - 1 = N
      BY <1>2, <3>1
    <3>4. chain(t)[N] = s[N] /\ s[N] \in DOMAIN table
      BY <1>2, <1>3, <3>1 DEF linked
    <3>5. t[s[N]] = table[s[N]]
      BY <3>4 DEF Inserted
    <3>6. expected_prev(t, N + 1) = t[chain(t)[N]].chain_hash
      <4> HIDE DEF N
      <4> QED
        BY <3>3 DEF expected_prev
    <3> QED
      BY <3>2, <3>4, <3>5, <3>6
  <2> QED
    BY <2>1, <2>2
<1> HIDE DEF row
<1> QED
  BY <1>3, <1>4, <1>5, <1>6, Verdict

-----------------------------------------------------------------------------
\* Migration 004

\* The recursion of hashes: f holds the digests of the first N rows of ids.
Digests(f, ids, table, N) ==
  f = [seq \in 0 .. N |-> IF seq = 0 THEN GENESIS_HASH
                          ELSE <<ids[seq], table[ids[seq]].content, f[seq - 1]>>]

\* The recursion of hashes in migration 004 has a solution.
LEMMA DigestsExist ==
  ASSUME NEW ids, NEW table, NEW N \in Nat
  PROVE  \E f : Digests(f, ids, table, N)
<1> DEFINE Bad == {n \in Nat : ~ \E f : Digests(f, ids, table, n)}
<1> SUFFICES ASSUME Bad # {} PROVE FALSE
  OBVIOUS
<1>1. PICK m \in Bad : \A k \in Bad : m <= k
  <2> Bad \subseteq Nat
    OBVIOUS
  <2> HIDE DEF Bad
  <2> QED
    BY LeastNatural
<1>2. CASE m = 0
  <2>1. Digests([seq \in 0 .. 0 |-> GENESIS_HASH], ids, table, 0)
    BY DEF Digests
  <2> QED
    BY <1>2, <2>1
<1>3. CASE m # 0
  <2>1. m \in Nat /\ m - 1 \in Nat /\ m - 1 \notin Bad
    BY <1>1, <1>3
  <2>2. PICK f : Digests(f, ids, table, m - 1)
    BY <2>1
  <2> DEFINE last == <<ids[m], table[ids[m]].content, f[m - 1]>>
             g == [seq \in 0 .. m |-> IF seq = m THEN last ELSE f[seq]]
  <2>3. ASSUME NEW seq \in 0 .. m
        PROVE  g[seq] = IF seq = 0 THEN GENESIS_HASH
                        ELSE <<ids[seq], table[ids[seq]].content, g[seq - 1]>>
    <3>1. CASE seq = m
      BY <1>3, <2>1, <3>1
    <3>2. CASE seq # m
      <4>1. seq \in 0 .. (m - 1)
        BY <3>2, <2>1
      <4>2. f[seq] = IF seq = 0 THEN GENESIS_HASH
                     ELSE <<ids[seq], table[ids[seq]].content, f[seq - 1]>>
        BY <2>2, <4>1 DEF Digests
      <4>3. seq # 0 => seq - 1 \in 0 .. m /\ seq - 1 # m
        BY <4>1, <2>1
      <4> QED
        BY <3>2, <4>2, <4>3
    <3> QED
      BY <3>1, <3>2
  <2>4. Digests(g, ids, table, m)
    <3> g = [seq \in 0 .. m |-> g[seq]]
      OBVIOUS
    <3> HIDE DEF g
    <3> QED
      BY <2>3 DEF Digests
  <2> QED
    BY <2>4
<1> QED
  BY <1>2, <1>3

\* The rows of a table before it is re-anchored.
Aged(table) ==
  /\ IsFiniteSet(DOMAIN table)
  /\ \A i \in DOMAIN table : i \in Int /\ table[i].created_at \in Int

\* by_age lists every row once.
LEMMA ByAge ==
  ASSUME NEW table, Aged(table)
  PROVE  /\ Len(by_age(table)) \in Nat
         /\ by_age(table) \in [1 .. Len(by_age(table)) -> DOMAIN table]
         /\ \A i \in DOMAIN table : \E n \in 1 .. Len(by_age(table)) : by_age(table)[n] = i
         /\ \A m, n \in 1 .. Len(by_age(table)) : by_age(table)[m] = by_age(table)[n] => m = n
<1> DEFINE S == DOMAIN table
           N == Cardinality(S)
           s == by_age(table)
<1>1. \A i, j \in S :
        <<i, j>> \in older(table) <=>
          \/ table[i].created_at < table[j].created_at
          \/ table[i].created_at = table[j].created_at /\ i < j
  BY DEF older
<1>2. StrictOrder(S, older(table))
  <2>1. \A i \in S : i \in Int /\ table[i].created_at \in Int
    BY DEF Aged
  <2> HIDE DEF S
  <2> QED
    BY <1>1, <2>1 DEF StrictOrder
<1>3. /\ N \in Nat
      /\ s \in [1 .. N -> S]
      /\ \A i \in S : \E n \in 1 .. N : s[n] = i
      /\ \A m, n \in 1 .. N : m < n <=> <<s[m], s[n]>> \in older(table)
  BY <1>2, InOrder DEF by_age, Aged
<1>4. ASSUME NEW m \in 1 .. N, NEW n \in 1 .. N, s[m] = s[n]
      PROVE  m = n
  <2>1. s[m] \in S /\ <<s[m], s[m]>> \notin older(table)
    BY <1>2, <1>3 DEF StrictOrder
  <2>2. ~ m < n /\ ~ n < m
    BY <1>3, <1>4, <2>1
  <2> QED
    BY <1>3, <2>2
<1>5. Len(s) = N
  <2> HIDE DEF N, s, S
  <2> QED
    BY <1>3
<1> HIDE DEF N, s
<1> QED
  BY <1>3, <1>4, <1>5 DEF s

\* So hashes satisfies its own recursion.
LEMMA HashesDef ==
  ASSUME NEW table, Len(by_age(table)) \in Nat
  PROVE  \A seq \in 0 .. Len(by_age(table)) :
           hashes(table)[seq] =
             IF seq = 0 THEN GENESIS_HASH
             ELSE <<by_age(table)[seq], table[by_age(table)[seq]].content,
                    hashes(table)[seq - 1]>>
<1>1. \E f : Digests(f, by_age(table), table, Len(by_age(table)))
  BY DigestsExist
<1>2. Digests(hashes(table), by_age(table), table, Len(by_age(table)))
  BY <1>1 DEF hashes, Digests
<1> QED
  BY <1>2 DEF Digests

Columns == {"content", "entries", "created_at", "chain_seq", "prev_hash", "chain_hash"}

AllColumns(table) == \A i \in DOMAIN table : DOMAIN table[i] = Columns

\* Re-anchoring numbers the rows by age and chains their hashes.
LEMMA AnchoredRow ==
  ASSUME NEW table, Aged(table), AllColumns(table), NEW n \in 1 .. Len(by_age(table))
  PROVE  /\ by_age(table)[n] \in DOMAIN table
         /\ DOMAIN anchored(table)[by_age(table)[n]] = Columns
         /\ anchored(table)[by_age(table)[n]].content = table[by_age(table)[n]].content
         /\ anchored(table)[by_age(table)[n]].entries = table[by_age(table)[n]].entries
         /\ anchored(table)[by_age(table)[n]].created_at = table[by_age(table)[n]].created_at
         /\ anchored(table)[by_age(table)[n]].chain_seq = n
         /\ anchored(table)[by_age(table)[n]].prev_hash = hashes(table)[n - 1]
         /\ anchored(table)[by_age(table)[n]].chain_hash = hashes(table)[n]
<1> DEFINE s == by_age(table)
           N == Len(s)
           i == s[n]
           place(j) == CHOOSE m \in DOMAIN s : s[m] = j
<1>1. /\ N \in Nat
      /\ s \in [1 .. N -> DOMAIN table]
      /\ \A m, k \in 1 .. N : s[m] = s[k] => m = k
  BY ByAge
<1>2. DOMAIN s = 1 .. N /\ n \in 1 .. N /\ i \in DOMAIN table
  BY <1>1
<1>3. place(i) = n
  <2> HIDE DEF s, N
  <2> QED
    BY <1>1, <1>2
<1>4. anchored(table)[i] = [table[i] EXCEPT !.chain_seq = place(i),
                                            !.prev_hash = hashes(table)[place(i) - 1],
                                            !.chain_hash = hashes(table)[place(i)]]
  BY <1>2 DEF anchored
<1>5. DOMAIN table[i] = Columns
  BY <1>2 DEF AllColumns
<1> HIDE DEF place, i
<1>6. /\ DOMAIN anchored(table)[i] = Columns
      /\ anchored(table)[i].content = table[i].content
      /\ anchored(table)[i].entries = table[i].entries
      /\ anchored(table)[i].created_at = table[i].created_at
      /\ anchored(table)[i].chain_seq = n
      /\ anchored(table)[i].prev_hash = hashes(table)[n - 1]
      /\ anchored(table)[i].chain_hash = hashes(table)[n]
  BY <1>3, <1>4, <1>5 DEF Columns
<1> QED
  BY <1>2, <1>6 DEF i

\* The chain it makes is in the order of age, without a gap, and verifies.
LEMMA AnchoredVerifies ==
  ASSUME NEW table, Aged(table), AllColumns(table)
  PROVE  /\ DOMAIN anchored(table) = DOMAIN table
         /\ Sound(anchored(table))
         /\ AllColumns(anchored(table))
         /\ chain(anchored(table)) = by_age(table)
         /\ broken_links(anchored(table)) = {}
<1> DEFINE s == by_age(table)
           N == Len(s)
           t == anchored(table)
<1>1. /\ N \in Nat
      /\ s \in [1 .. N -> DOMAIN table]
      /\ \A j \in DOMAIN table : \E n \in 1 .. N : s[n] = j
      /\ \A m, k \in 1 .. N : s[m] = s[k] => m = k
  BY ByAge
<1>2. DOMAIN t = DOMAIN table
  BY DEF anchored
<1>3. \A n \in 1 .. N :
        /\ DOMAIN t[s[n]] = Columns
        /\ t[s[n]].content = table[s[n]].content
        /\ t[s[n]].chain_seq = n
        /\ t[s[n]].prev_hash = hashes(table)[n - 1]
        /\ t[s[n]].chain_hash = hashes(table)[n]
  BY AnchoredRow
<1>4. \A seq \in 0 .. N :
        hashes(table)[seq] =
          IF seq = 0 THEN GENESIS_HASH
          ELSE <<s[seq], table[s[seq]].content, hashes(table)[seq - 1]>>
  BY <1>1, HashesDef
<1> HIDE DEF s, N, t
<1>5. linked(t) = DOMAIN table
  <2>1. ASSUME NEW j \in DOMAIN table
        PROVE  t[j].chain_seq # Null
    <3>1. PICK n \in 1 .. N : s[n] = j
      BY <1>1
    <3> QED
      BY <1>1, <1>3, <3>1 DEF Null
  <2> QED
    BY <1>2, <2>1 DEF linked
<1>6. Sound(t)
  <2>1. IsFiniteSet(DOMAIN t)
    BY <1>2 DEF Aged
  <2>2. ASSUME NEW j \in DOMAIN t PROVE t[j].chain_seq \in Nat
    <3>1. PICK n \in 1 .. N : s[n] = j
      BY <1>1, <1>2
    <3> QED
      BY <1>1, <1>3, <3>1
  <2>3. ASSUME NEW j \in linked(t), NEW k \in linked(t), t[j].chain_seq = t[k].chain_seq
        PROVE  j = k
    <3>1. PICK n \in 1 .. N : s[n] = j
      BY <1>1, <1>5
    <3>2. PICK m \in 1 .. N : s[m] = k
      BY <1>1, <1>5
    <3> QED
      BY <1>3, <2>3, <3>1, <3>2
  <2> QED
    BY <2>1, <2>2, <2>3 DEF Sound
<1>7. AllColumns(t)
  <2> SUFFICES ASSUME NEW j \in DOMAIN t PROVE DOMAIN t[j] = Columns
    BY DEF AllColumns
  <2>1. PICK n \in 1 .. N : s[n] = j
    BY <1>1, <1>2
  <2> QED
    BY <1>3, <2>1
<1>8. chain(t) = s
  <2>1. \A m, n \in 1 .. N : m < n => t[s[m]].chain_seq < t[s[n]].chain_seq
    BY <1>3
  <2>2. ListsChain(t, N, s)
    BY <1>1, <1>5, <2>1 DEF ListsChain
  <2> QED
    BY <1>6, <2>2, ChainIs
<1>9. ASSUME NEW n \in 1 .. N
      PROVE  /\ t[chain(t)[n]].prev_hash = expected_prev(t, n)
             /\ recomputed(t, n) = t[chain(t)[n]].chain_hash
  <2>1. n = 1 \/ n - 1 \in 1 .. N
    BY <1>1
  <2>2. hashes(table)[n] = <<s[n], table[s[n]].content, hashes(table)[n - 1]>>
    <3>1. n \in 0 .. N /\ n # 0
      BY <1>1
    <3> QED
      BY <1>4, <3>1
  <2>3. recomputed(t, n) = t[chain(t)[n]].chain_hash
    BY <1>3, <1>8, <2>2 DEF recomputed, compute_chain_hash
  <2>4. CASE n = 1
    <3>1. hashes(table)[0] = GENESIS_HASH
      <4>1. 0 \in 0 .. N
        BY <1>1
      <4> QED
        BY <1>4, <4>1
    <3>2. t[s[n]].prev_hash = hashes(table)[0]
      BY <1>3, <2>4
    <3> QED
      BY <1>8, <2>3, <2>4, <3>1, <3>2 DEF expected_prev
  <2>5. CASE n # 1
    <3>1. n - 1 \in 1 .. N
      BY <2>1, <2>5
    <3>2. expected_prev(t, n) = t[s[n - 1]].chain_hash
      BY <1>8, <2>5 DEF expected_prev
    <3>3. t[s[n - 1]].chain_hash = hashes(table)[n - 1]
      BY <1>3, <3>1
    <3> QED
      BY <1>3, <1>8, <2>3, <3>2, <3>3
  <2> QED
    BY <2>4, <2>5
<1>10. broken_links(t) = {}
  <2>1. Len(chain(t)) = N
    BY <1>8 DEF N
  <2> QED
    BY <1>6, <1>9, <2>1, Verdict
<1> QED
  BY <1>2, <1>6, <1>7, <1>8, <1>10 DEF t, s

-----------------------------------------------------------------------------
\* Steps of the table

RowOK(row) ==
  /\ DOMAIN row = Columns
  /\ row.content \in Contents /\ row.entries \in Contents
  /\ row.created_at \in 1 .. MaxTime
  /\ row.chain_seq \in Nat
  /\ IsDigest(row.prev_hash) /\ IsDigest(row.chain_hash)

RowsOK(table) == DOMAIN table \subseteq Ids /\ \A i \in DOMAIN table : RowOK(table[i])

\* What compute_chain_hash makes of a digest is a digest.
LEMMA DigestType ==
  ASSUME NEW id \in Ids, NEW content \in Contents, NEW prev_hash
  PROVE  IsDigest(<<id, content, prev_hash>>)
BY DEF IsDigest

\* The first predecessor is a digest, and so is what an edit writes.
LEMMA GenesisType == IsDigest(GENESIS_HASH) /\ IsDigest(NotADigest)
BY DEF IsDigest

\* An insert adds one row.
LEMMA InsertStep ==
  ASSUME RowsOK(rows), Sound(rows), NEW id \in Ids, NEW row, RowOK(row),
         GoesBehind(rows, row), insert(id, row)
  PROVE  Inserted(rows, id, row, rows') /\ RowsOK(rows') /\ Sound(rows')
<1>1. Inserted(rows, id, row, rows')
  BY DEF insert, Inserted
<1>2. RowsOK(rows')
  BY <1>1 DEF RowsOK, Inserted
<1> QED
  BY <1>1, <1>2, InsertIsSound

\* What the older release inserts.
LEMMA OldStep ==
  ASSUME RowsOK(rows), Sound(rows), NEW id \in Ids, NEW content \in Contents,
         NEW time \in 1 .. MaxTime, InsertBefore004(id, content, time)
  PROVE  /\ RowsOK(rows') /\ Sound(rows')
         /\ \E row : GoesBehind(rows, row) /\ row.chain_seq = Null /\ Inserted(rows, id, row, rows')
<1>1. PICK prev_hash \in {GENESIS_HASH} \cup {rows[i].chain_hash : i \in DOMAIN rows} :
        insert(id, [content |-> content, entries |-> content, created_at |-> time,
                    chain_seq |-> Null, prev_hash |-> prev_hash,
                    chain_hash |-> <<id, content, prev_hash>>])
  BY DEF InsertBefore004
<1> DEFINE row == [content |-> content, entries |-> content, created_at |-> time,
                   chain_seq |-> Null, prev_hash |-> prev_hash,
                   chain_hash |-> <<id, content, prev_hash>>]
<1>2. IsDigest(prev_hash)
  BY GenesisType DEF RowsOK, RowOK
<1>3. RowOK(row)
  BY <1>2, DigestType DEF RowOK, Columns, Null
<1>4. GoesBehind(rows, row) /\ row.chain_seq = Null
  BY DEF GoesBehind, Null
<1>5. insert(id, row)
  BY <1>1
<1> HIDE DEF row
<1> QED
  BY <1>3, <1>4, <1>5, InsertStep

\* What link_transaction makes of a row it inserts.
LEMMA LinkStep ==
  ASSUME RowsOK(rows), Sound(rows), NEW id \in Ids, NEW content \in Contents,
         NEW time \in 1 .. MaxTime, Link(id, content, time)
  PROVE  /\ RowsOK(rows') /\ Sound(rows')
         /\ GoesBehind(rows, linked_row(rows, id, content, time))
         /\ Inserted(rows, id, linked_row(rows, id, content, time), rows')
<1> DEFINE row == linked_row(rows, id, content, time)
<1>1. GoesBehind(rows, row)
  BY LinkedRowFits
<1>2. IsDigest(row.prev_hash)
  <2>1. CASE linked(rows) = {}
    BY <2>1, GenesisType DEF linked_row
  <2>2. CASE linked(rows) # {}
    <3>1. tip(rows) \in DOMAIN rows
      BY <2>2, TipIsLast DEF linked
    <3>2. row.prev_hash = rows[tip(rows)].chain_hash
      BY <2>2 DEF linked_row
    <3> QED
      BY <3>1, <3>2 DEF RowsOK, RowOK
  <2> QED
    BY <2>1, <2>2
<1>3. /\ DOMAIN row = Columns
      /\ row.content = content /\ row.entries = content /\ row.created_at = time
      /\ row.chain_hash = <<id, content, row.prev_hash>>
  BY DEF linked_row, compute_chain_hash, Columns
<1>4. insert(id, row)
  BY DEF Link
<1> HIDE DEF row
<1>5. RowOK(row)
  BY <1>1, <1>2, <1>3, DigestType DEF RowOK, GoesBehind
<1>6. Inserted(rows, id, row, rows') /\ RowsOK(rows') /\ Sound(rows')
  BY <1>1, <1>4, <1>5, InsertStep
<1> QED
  BY <1>1, <1>6 DEF row

\* Migration 004 links every row and the chain verifies (004:37-57).
LEMMA UpgradeStep ==
  ASSUME RowsOK(rows), Sound(rows), Upgrade
  PROVE  /\ RowsOK(rows') /\ Sound(rows')
         /\ broken_links(rows') = {}
         /\ \A n \in 1 .. Len(chain(rows')) : rows'[chain(rows')[n]].chain_seq = n
<1> DEFINE s == by_age(rows)
           N == Len(s)
<1>1. Aged(rows) /\ AllColumns(rows)
  <2>1. \A i \in DOMAIN rows : i \in Int
    <3>1. Ids \subseteq Int
      BY IdsAssumption
    <3>2. DOMAIN rows \subseteq Ids
      BY DEF RowsOK
    <3> QED
      BY <3>1, <3>2
  <2>2. \A i \in DOMAIN rows : rows[i].created_at \in Int /\ DOMAIN rows[i] = Columns
    BY DEF RowsOK, RowOK
  <2> QED
    BY <2>1, <2>2 DEF Sound, Aged, AllColumns
<1>2. rows' = anchored(rows)
  BY DEF Upgrade
<1>3. /\ DOMAIN rows' = DOMAIN rows
      /\ Sound(rows') /\ AllColumns(rows')
      /\ chain(rows') = s
      /\ broken_links(rows') = {}
  BY <1>1, <1>2, AnchoredVerifies
<1>4. /\ N \in Nat
      /\ s \in [1 .. N -> DOMAIN rows]
      /\ \A i \in DOMAIN rows : \E n \in 1 .. N : s[n] = i
  BY <1>1, ByAge
<1>5. \A n \in 1 .. N :
        /\ rows'[s[n]].content = rows[s[n]].content
        /\ rows'[s[n]].entries = rows[s[n]].entries
        /\ rows'[s[n]].created_at = rows[s[n]].created_at
        /\ rows'[s[n]].chain_seq = n
        /\ rows'[s[n]].prev_hash = hashes(rows)[n - 1]
        /\ rows'[s[n]].chain_hash = hashes(rows)[n]
  BY <1>1, <1>2, AnchoredRow
<1>6. \A seq \in 0 .. N :
        hashes(rows)[seq] =
          IF seq = 0 THEN GENESIS_HASH
          ELSE <<s[seq], rows[s[seq]].content, hashes(rows)[seq - 1]>>
  BY <1>4, HashesDef
<1> HIDE DEF s, N
<1>7. ASSUME NEW seq \in 0 .. N
      PROVE  IsDigest(hashes(rows)[seq])
  <2>1. CASE seq = 0
    BY <1>6, <2>1, GenesisType
  <2>2. CASE seq # 0
    <3>1. s[seq] \in DOMAIN rows
      BY <1>4, <2>2
    <3>2. s[seq] \in Ids /\ rows[s[seq]].content \in Contents
      BY <3>1 DEF RowsOK, RowOK
    <3> QED
      BY <1>6, <2>2, <3>2, DigestType
  <2> QED
    BY <2>1, <2>2
<1>8. ASSUME NEW i \in DOMAIN rows'
      PROVE  RowOK(rows'[i])
  <2>1. PICK n \in 1 .. N : s[n] = i
    BY <1>3, <1>4, <1>8
  <2>2. n \in 0 .. N /\ n - 1 \in 0 .. N /\ n \in Nat
    BY <1>4
  <2>3. IsDigest(rows'[i].prev_hash) /\ IsDigest(rows'[i].chain_hash)
    BY <1>5, <1>7, <2>1, <2>2
  <2>4. RowOK(rows[i])
    BY <1>3, <1>8 DEF RowsOK
  <2>5. DOMAIN rows'[i] = Columns
    BY <1>3, <1>8 DEF AllColumns
  <2> QED
    BY <1>5, <2>1, <2>2, <2>3, <2>4, <2>5 DEF RowOK
<1>9. RowsOK(rows')
  BY <1>3, <1>8 DEF RowsOK
<1>10. \A n \in 1 .. Len(chain(rows')) : rows'[chain(rows')[n]].chain_seq = n
  BY <1>3, <1>5 DEF N
<1> QED
  BY <1>3, <1>9, <1>10

\* Its downgrade drops the columns and with them every link.
LEMMA DowngradeStep ==
  ASSUME RowsOK(rows), Sound(rows), Downgrade
  PROVE  RowsOK(rows') /\ Sound(rows') /\ linked(rows') = {}
<1>1. /\ DOMAIN rows' = DOMAIN rows
      /\ \A i \in DOMAIN rows : rows'[i] = [rows[i] EXCEPT !.chain_seq = Null]
  BY DEF Downgrade
<1>2. ASSUME NEW i \in DOMAIN rows
      PROVE  RowOK(rows'[i]) /\ rows'[i].chain_seq = Null
  <2>1. RowOK(rows[i])
    BY DEF RowsOK
  <2> QED
    BY <1>1, <2>1 DEF RowOK, Columns, Null
<1>3. linked(rows') = {}
  BY <1>1, <1>2 DEF linked
<1> QED
  BY <1>1, <1>2, <1>3 DEF RowsOK, Sound, RowOK

\* What an edit does to row i: it writes one or two of its columns, moves it
\* behind the tip, or takes it out of the chain or the table.
Rewritten(i) ==
  /\ DOMAIN rows' = DOMAIN rows
  /\ RowOK(rows'[i])
  /\ rows'[i].chain_seq = rows[i].chain_seq
  /\ \/ /\ rows'[i].content = rows[i].content
        /\ rows'[i].prev_hash = rows[i].prev_hash
     \/ /\ rows'[i].content # rows[i].content
        /\ rows'[i].prev_hash = rows[i].prev_hash
        /\ rows'[i].chain_hash \in
             {rows[i].chain_hash, <<i, rows'[i].content, rows[i].prev_hash>>}
     \/ /\ rows'[i].content = rows[i].content
        /\ rows'[i].prev_hash # rows[i].prev_hash
        /\ rows'[i].chain_hash = rows[i].chain_hash

Moved(i) ==
  /\ DOMAIN rows' = DOMAIN rows
  /\ RowOK(rows'[i])
  /\ rows'[i].chain_seq = rows[tip(rows)].chain_seq + 1

TakenOut(i) ==
  \/ DOMAIN rows' = (DOMAIN rows) \ {i}
  \/ /\ DOMAIN rows' = DOMAIN rows
     /\ RowOK(rows'[i])
     /\ rows'[i].chain_seq = Null

\* The edits by what they change.
LEMMA EditCases ==
  ASSUME RowsOK(rows), Sound(rows), NEW i \in DOMAIN rows, Edit(i)
  PROVE  /\ i \in linked(rows)
         /\ \A j \in (DOMAIN rows) \ {i} : rows'[j] = rows[j]
         /\ Rewritten(i) \/ Moved(i) \/ TakenOut(i)
<1>1. i \in linked(rows)
  BY DEF Edit, linked
<1>2. RowOK(rows[i]) /\ i \in Ids
  BY DEF RowsOK
<1>3. CASE \E content \in Contents \ {rows[i].content} :
             \/ rows' = [rows EXCEPT ![i].entries = content]
             \/ rows' = [rows EXCEPT ![i].content = content]
             \/ rows' = [rows EXCEPT ![i].content = content,
                           ![i].chain_hash =
                             compute_chain_hash(i, content, rows[i].prev_hash)]
  <2>1. PICK content \in Contents \ {rows[i].content} :
             \/ rows' = [rows EXCEPT ![i].entries = content]
             \/ rows' = [rows EXCEPT ![i].content = content]
             \/ rows' = [rows EXCEPT ![i].content = content,
                           ![i].chain_hash =
                             compute_chain_hash(i, content, rows[i].prev_hash)]
    BY <1>3
  <2>2. IsDigest(<<i, content, rows[i].prev_hash>>)
    BY <1>2, DigestType
  <2>3. CASE rows' = [rows EXCEPT ![i].entries = content]
    BY <1>1, <1>2, <2>3 DEF Rewritten, RowOK, Columns
  <2>4. CASE rows' = [rows EXCEPT ![i].content = content]
    BY <1>1, <1>2, <2>4 DEF Rewritten, RowOK, Columns
  <2>5. CASE rows' = [rows EXCEPT ![i].content = content,
                        ![i].chain_hash =
                          compute_chain_hash(i, content, rows[i].prev_hash)]
    BY <1>1, <1>2, <2>2, <2>5 DEF Rewritten, RowOK, Columns, compute_chain_hash
  <2> QED
    BY <2>1, <2>3, <2>4, <2>5
<1>4. CASE \E prev_hash \in {GENESIS_HASH, NotADigest} \ {rows[i].prev_hash} :
             rows' = [rows EXCEPT ![i].prev_hash = prev_hash]
  BY <1>1, <1>2, <1>4, GenesisType DEF Rewritten, RowOK, Columns
<1>5. CASE rows' = [rows EXCEPT ![i].chain_hash = NotADigest]
  BY <1>1, <1>2, <1>5, GenesisType DEF Rewritten, RowOK, Columns
<1>6. CASE rows' = [rows EXCEPT ![i].chain_seq = Null]
  BY <1>1, <1>2, <1>6 DEF TakenOut, RowOK, Columns, Null
<1>7. CASE rows' = [rows EXCEPT ![i].chain_seq = rows[tip(rows)].chain_seq + 1]
  <2>1. rows[tip(rows)].chain_seq \in Nat
    BY <1>1, TipIsLast DEF Sound, linked
  <2> QED
    BY <1>1, <1>2, <1>7, <2>1 DEF Moved, RowOK, Columns
<1>8. CASE rows' = [j \in DOMAIN rows \ {i} |-> rows[j]]
  BY <1>1, <1>8 DEF TakenOut
<1> QED
  BY <1>3, <1>4, <1>5, <1>6, <1>7, <1>8 DEF Edit

\* No edit gives two rows one place.
LEMMA EditStep ==
  ASSUME RowsOK(rows), Sound(rows), NEW i \in DOMAIN rows, Edit(i)
  PROVE  RowsOK(rows') /\ Sound(rows')
<1>1. /\ i \in linked(rows)
      /\ \A j \in (DOMAIN rows) \ {i} : rows'[j] = rows[j]
      /\ Rewritten(i) \/ Moved(i) \/ TakenOut(i)
  BY EditCases
<1>2. /\ DOMAIN rows' \subseteq DOMAIN rows
      /\ i \in DOMAIN rows' => RowOK(rows'[i])
  BY <1>1 DEF Rewritten, Moved, TakenOut
<1>3. \A j \in DOMAIN rows' : RowOK(rows'[j])
  BY <1>1, <1>2 DEF RowsOK
<1>4. RowsOK(rows')
  BY <1>2, <1>3 DEF RowsOK
<1>5. IsFiniteSet(DOMAIN rows')
  BY <1>2, FS_Subset DEF Sound
<1>6. ASSUME NEW j \in linked(rows'), NEW k \in linked(rows'),
             rows'[j].chain_seq = rows'[k].chain_seq, j # k
      PROVE  FALSE
  <2>1. \A l \in linked(rows') : l # i => l \in linked(rows) /\ rows'[l] = rows[l]
    BY <1>1, <1>2 DEF linked
  <2>2. CASE Rewritten(i)
    <3>1. rows'[i].chain_seq = rows[i].chain_seq
      BY <2>2 DEF Rewritten
    <3>2. \A l \in linked(rows') : l \in linked(rows) /\ rows'[l].chain_seq = rows[l].chain_seq
      BY <1>1, <2>1, <3>1
    <3> QED
      BY <1>6, <3>2 DEF Sound
  <2>3. CASE Moved(i)
    <3>1. /\ rows'[i].chain_seq = rows[tip(rows)].chain_seq + 1
          /\ tip(rows) \in linked(rows)
          /\ \A l \in linked(rows) : rows[l].chain_seq <= rows[tip(rows)].chain_seq
      BY <1>1, <2>3, TipIsLast DEF Moved
    <3>2. \A l \in linked(rows) : rows[l].chain_seq \in Int
      BY DEF Sound, linked
    <3>3. \A l \in linked(rows') : l # i => rows'[l].chain_seq # rows'[i].chain_seq
      BY <2>1, <3>1, <3>2
    <3>4. j # i /\ k # i
      BY <1>6, <3>3
    <3> QED
      BY <1>6, <2>1, <3>4 DEF Sound
  <2>4. CASE TakenOut(i)
    <3>1. i \notin linked(rows')
      BY <2>4 DEF TakenOut, linked
    <3> QED
      BY <1>6, <2>1, <3>1 DEF Sound
  <2> QED
    BY <1>1, <2>2, <2>3, <2>4
<1> QED
  BY <1>3, <1>4, <1>5, <1>6 DEF Sound, RowOK

-----------------------------------------------------------------------------
\* The invariant

\* Only migration 004 gives rows a place.
IInv ==
  /\ RowsOK(rows)
  /\ Sound(rows)
  /\ revision \in {3, 4}
  /\ edits \in 0 .. MaxEdits
  /\ revision = 3 => linked(rows) = {}
  /\ ChainVerifies

\* The invariant holds of an empty table.
LEMMA ChainInit == Init => IInv
<1> SUFFICES ASSUME Init PROVE IInv
  OBVIOUS
<1>1. DOMAIN rows = {}
  BY DEF Init
<1>2. RowsOK(rows)
  BY <1>1 DEF RowsOK
<1>3. linked(rows) = {}
  BY <1>1 DEF linked
<1>4. Sound(rows)
  BY <1>1, <1>3, FS_EmptySet DEF Sound
<1>5. edits \in 0 .. MaxEdits
  BY BoundsAssumption DEF Init
<1> QED
  BY <1>2, <1>3, <1>4, <1>5 DEF Init, IInv, ChainVerifies

\* An insert leaves a chain that verifies one that verifies.
LEMMA InsertVerifies ==
  ASSUME Sound(rows), NEW id, NEW row, GoesBehind(rows, row), Inserted(rows, id, row, rows'),
         broken_links(rows) = {},
         \A n \in 1 .. Len(chain(rows)) : rows[chain(rows)[n]].chain_seq = n,
         row.chain_seq # Null =>
           /\ Len(chain(rows)) + 1 \notin broken_links(rows')
           /\ row.chain_seq = Len(chain(rows)) + 1
  PROVE  /\ broken_links(rows') = {}
         /\ \A n \in DOMAIN chain(rows') : rows'[chain(rows')[n]].chain_seq = n
<1> DEFINE N == Len(chain(rows))
           M == Len(chain(rows'))
<1>1. N \in Nat
  BY ChainOrder
<1>2. Sound(rows')
  BY InsertIsSound
<1>3. M \in Nat /\ DOMAIN chain(rows') = 1 .. M
  BY <1>2, ChainOrder
<1>4. /\ row.chain_seq = Null => M = N
      /\ row.chain_seq # Null => M = N + 1 /\ chain(rows')[N + 1] = id
  <2>1. GoesBehind(rows, row) /\ Inserted(rows, id, row, rows') /\ Sound(rows)
    OBVIOUS
  <2>2. CASE row.chain_seq = Null
    BY <2>1, <2>2, InsertAppends
  <2>3. CASE row.chain_seq # Null
    <3>1. Len(chain(rows')) = Len(chain(rows)) + 1
      BY <2>1, <2>3, LinkedIsLonger
    <3>2. chain(rows')[N + 1] = id
      BY <2>1, <2>3, InsertAppends
    <3> QED
      BY <2>3, <3>1, <3>2
  <2> QED
    BY <2>2, <2>3
<1>5. \A n \in 1 .. N :
        /\ n \notin broken_links(rows')
        /\ rows'[chain(rows')[n]].chain_seq = n
  BY InsertKeepsVerdicts
<1>6. rows'[id] = row
  BY DEF Inserted
<1> HIDE DEF N, M
<1>7. \A n \in 1 .. M :
        /\ n \notin broken_links(rows')
        /\ rows'[chain(rows')[n]].chain_seq = n
  <2> SUFFICES ASSUME NEW n \in 1 .. M
               PROVE  /\ n \notin broken_links(rows')
                      /\ rows'[chain(rows')[n]].chain_seq = n
    OBVIOUS
  <2>1. CASE n \in 1 .. N
    BY <1>5, <2>1
  <2>2. CASE n \notin 1 .. N
    <3>1. row.chain_seq # Null /\ n = N + 1
      BY <1>1, <1>3, <1>4, <2>2
    <3> QED
      BY <1>4, <1>6, <3>1 DEF N
  <2> QED
    BY <2>1, <2>2
<1>8. \A n \in broken_links(rows') : n \in 1 .. M
  BY <1>2, Verdict DEF M
<1> QED
  BY <1>3, <1>7, <1>8

\* Every step keeps the invariant.
LEMMA ChainNext == IInv /\ [Next]_vars => IInv'
<1> SUFFICES ASSUME IInv, [Next]_vars PROVE IInv'
  OBVIOUS
<1>1. /\ RowsOK(rows) /\ Sound(rows)
      /\ revision \in {3, 4} /\ edits \in 0 .. MaxEdits
      /\ revision = 3 => linked(rows) = {}
  BY DEF IInv
<1>2. revision = 4 /\ edits = 0 =>
        /\ broken_links(rows) = {}
        /\ \A n \in 1 .. Len(chain(rows)) : rows[chain(rows)[n]].chain_seq = n
  <2>1. DOMAIN chain(rows) = 1 .. Len(chain(rows))
    BY <1>1, ChainOrder
  <2> QED
    BY <2>1 DEF IInv, ChainVerifies
<1>3. ASSUME NEW id \in Ids, NEW content \in Contents, NEW time \in 1 .. MaxTime,
             InsertBefore004(id, content, time)
      PROVE  IInv'
  <2>1. PICK row : /\ GoesBehind(rows, row) /\ row.chain_seq = Null
                   /\ Inserted(rows, id, row, rows')
    BY <1>1, <1>3, OldStep
  <2>2. RowsOK(rows') /\ Sound(rows')
    BY <1>1, <1>3, OldStep
  <2>3. revision' = revision /\ edits' = edits
    BY <1>3 DEF InsertBefore004, insert
  <2>4. linked(rows') = linked(rows)
    BY <1>1, <2>1, InsertIsSound
  <2>5. ChainVerifies'
    BY <1>1, <1>2, <2>1, <2>3, InsertVerifies DEF ChainVerifies
  <2> QED
    BY <1>1, <2>2, <2>3, <2>4, <2>5 DEF IInv
<1>4. ASSUME NEW id \in Ids, NEW content \in Contents, NEW time \in 1 .. MaxTime,
             Link(id, content, time)
      PROVE  IInv'
  <2> DEFINE row == linked_row(rows, id, content, time)
             N == Len(chain(rows))
  <2>1. /\ RowsOK(rows') /\ Sound(rows')
        /\ GoesBehind(rows, row)
        /\ Inserted(rows, id, row, rows')
    BY <1>1, <1>4, LinkStep
  <2>2. revision' = revision /\ edits' = edits /\ revision = 4
    BY <1>4 DEF Link, insert
  <2>3. N + 1 \notin broken_links(rows')
    BY <1>1, <2>1, LinkVerifies
  <2>4. ASSUME \A n \in 1 .. N : rows[chain(rows)[n]].chain_seq = n
        PROVE  row.chain_seq = N + 1
    <3>1. N \in Nat /\ N = Cardinality(linked(rows))
      BY <1>1, ChainOrder
    <3>2. CASE linked(rows) = {}
      <4>1. N = 0
        BY <3>1, <3>2, FS_EmptySet
      <4>2. row.chain_seq = 1
        BY <3>2 DEF linked_row
      <4> HIDE DEF N, row
      <4> QED
        BY <4>1, <4>2
    <3>3. CASE linked(rows) # {}
      <4>1. N \in 1 .. N
        BY <1>1, <3>3, TipIsLast
      <4>2. rows[tip(rows)].chain_seq = N
        BY <2>4, <4>1 DEF tip
      <4>3. row.chain_seq = rows[tip(rows)].chain_seq + 1
        BY <3>3 DEF linked_row
      <4> HIDE DEF N, row
      <4> QED
        BY <4>2, <4>3
    <3> QED
      BY <3>2, <3>3
  <2>5. ChainVerifies'
    <3> HIDE DEF row
    <3> QED
      BY <1>1, <1>2, <2>1, <2>2, <2>3, <2>4, InsertVerifies DEF ChainVerifies
  <2> QED
    BY <1>1, <2>1, <2>2, <2>5 DEF IInv
<1>5. CASE Upgrade
  <2>1. /\ RowsOK(rows') /\ Sound(rows')
        /\ broken_links(rows') = {}
        /\ \A n \in 1 .. Len(chain(rows')) : rows'[chain(rows')[n]].chain_seq = n
    BY <1>1, <1>5, UpgradeStep
  <2>2. DOMAIN chain(rows') = 1 .. Len(chain(rows'))
    BY <2>1, ChainOrder
  <2>3. revision' = 4 /\ edits' = edits
    BY <1>5 DEF Upgrade
  <2> QED
    BY <1>1, <2>1, <2>2, <2>3 DEF IInv, ChainVerifies
<1>6. CASE Downgrade
  <2>1. RowsOK(rows') /\ Sound(rows') /\ linked(rows') = {}
    BY <1>1, <1>6, DowngradeStep
  <2>2. revision' = 3 /\ edits' = edits
    BY <1>6 DEF Downgrade
  <2> QED
    BY <1>1, <2>1, <2>2 DEF IInv, ChainVerifies
<1>7. ASSUME NEW i \in DOMAIN rows, Edit(i)
      PROVE  IInv'
  <2>1. RowsOK(rows') /\ Sound(rows')
    BY <1>1, <1>7, EditStep
  <2>2. revision' = revision /\ revision = 4 /\ edits < MaxEdits /\ edits' = edits + 1
    BY <1>7 DEF Edit
  <2>3. edits' \in 0 .. MaxEdits /\ edits' # 0
    BY <1>1, <2>2, BoundsAssumption
  <2> QED
    BY <2>1, <2>2, <2>3 DEF IInv, ChainVerifies
<1>8. CASE UNCHANGED vars
  BY <1>8 DEF IInv, ChainVerifies, vars
<1> QED
  BY <1>3, <1>4, <1>5, <1>6, <1>7, <1>8 DEF Next

\* So it always holds.
LEMMA IInvAlways == Spec => []IInv
<1>1. Init => IInv
  BY ChainInit
<1>2. IInv /\ [Next]_vars => IInv'
  BY ChainNext
<1> QED
  BY <1>1, <1>2, PTL DEF Spec

\* The columns of the transactions table have their types, whatever is inserted,
\* linked, re-anchored or edited (chain.py:32-48, 004_chain_sequence.py:30-72).
THEOREM ChainTypes == Spec => []TypeOK
<1>1. IInv => TypeOK
  BY DEF IInv, RowsOK, RowOK, TypeOK
<1> QED
  BY <1>1, IInvAlways, PTL

\* From migration 004 on the chain verifies and is numbered without a gap, however
\* many rows there are, in whatever order their transactions began, and whatever
\* the older release makes of them (004_chain_sequence.py:46-63, chain.py:38-48).
THEOREM ChainAlwaysVerifies == Spec => []ChainVerifies
<1>1. IInv => ChainVerifies
  BY DEF IInv
<1> QED
  BY <1>1, IInvAlways, PTL

-----------------------------------------------------------------------------
\* Edits are found

\* The row behind an edited one gives away that it was moved or taken out: its
\* prev_hash is the digest of a row that is not before it any more.
LEMMA GapIsFound ==
  ASSUME RowsOK(rows), Sound(rows), NEW n \in 1 .. Len(chain(rows)), n < Len(chain(rows)),
         broken_links(rows) = {}, Edit(chain(rows)[n]),
         Moved(chain(rows)[n]) \/ TakenOut(chain(rows)[n])
  PROVE  broken_links(rows') # {}
<1> DEFINE N == Len(chain(rows))
           s == chain(rows)
           i == s[n]
           k == s[n + 1]
<1>1. /\ N \in Nat
      /\ s \in [1 .. N -> linked(rows)]
      /\ \A l, m \in 1 .. N : l < m <=> rows[s[l]].chain_seq < rows[s[m]].chain_seq
  BY ChainOrder
<1> HIDE DEF N, s
<1>2. n \in 1 .. N /\ n + 1 \in 1 .. N /\ n < n + 1 /\ n + 1 # 1 /\ (n + 1) - 1 = n
  BY <1>1 DEF N
<1>3. i \in linked(rows) /\ k \in linked(rows) /\ rows[i].chain_seq < rows[k].chain_seq
  BY <1>1, <1>2
<1>4. \A j \in linked(rows) : j \in DOMAIN rows /\ rows[j].chain_seq \in Int
  BY DEF linked, Sound
<1>5. i # k /\ i \in DOMAIN rows
  BY <1>3, <1>4
<1>6. rows[k].prev_hash = <<i, rows[i].content, rows[i].prev_hash>>
  <2>1. /\ rows[k].prev_hash = expected_prev(rows, n + 1)
        /\ recomputed(rows, n) = rows[i].chain_hash
    BY <1>2, Verdict DEF N, s
  <2>2. expected_prev(rows, n + 1) = rows[i].chain_hash
    <3> HIDE DEF k
    <3> QED
      BY <1>2 DEF expected_prev, s
  <2> QED
    BY <2>1, <2>2 DEF recomputed, compute_chain_hash, s
<1>7. /\ RowsOK(rows') /\ Sound(rows')
      /\ \A j \in (DOMAIN rows) \ {i} : rows'[j] = rows[j]
      /\ Moved(i) \/ TakenOut(i)
  BY <1>5, EditStep, EditCases DEF s
<1>8. DOMAIN rows' \subseteq DOMAIN rows /\ (DOMAIN rows) \ {i} \subseteq DOMAIN rows'
  BY <1>7 DEF Moved, TakenOut
<1> HIDE DEF i, k
<1>9. k \in linked(rows') /\ rows'[k] = rows[k]
  <2>1. k \in (DOMAIN rows) \ {i} /\ rows[k].chain_seq # Null
    BY <1>3, <1>5 DEF linked
  <2> QED
    BY <1>7, <1>8, <2>1 DEF linked
<1> SUFFICES ASSUME broken_links(rows') = {} PROVE FALSE
  OBVIOUS
<1> DEFINE M == Len(chain(rows'))
<1>10. /\ M \in Nat
       /\ \A m \in 1 .. M : chain(rows')[m] \in linked(rows')
       /\ \A j \in linked(rows') : \E m \in 1 .. M : chain(rows')[m] = j
       /\ \A l, m \in 1 .. M :
            l < m <=> rows'[chain(rows')[l]].chain_seq < rows'[chain(rows')[m]].chain_seq
  BY <1>7, ChainOrder
<1>11. \A m \in 1 .. M :
         /\ rows'[chain(rows')[m]].prev_hash = expected_prev(rows', m)
         /\ recomputed(rows', m) = rows'[chain(rows')[m]].chain_hash
  BY <1>7, Verdict
<1> HIDE DEF M
<1>12. PICK p \in 1 .. M : chain(rows')[p] = k
  BY <1>9, <1>10
<1>13. CASE p = 1
  <2>1. rows[k].prev_hash = GENESIS_HASH
    BY <1>9, <1>11, <1>12, <1>13 DEF expected_prev
  <2> QED
    BY <1>6, <2>1 DEF GENESIS_HASH
<1>14. CASE p # 1
  <2>1. p - 1 \in 1 .. M /\ p - 1 < p
    BY <1>10, <1>14
  <2> DEFINE j == chain(rows')[p - 1]
  <2>2. rows[k].prev_hash = rows'[j].chain_hash
    BY <1>9, <1>11, <1>12, <1>14 DEF expected_prev
  <2>3. rows'[j].chain_hash = <<j, rows'[j].content, rows'[j].prev_hash>>
    BY <1>11, <2>1 DEF recomputed, compute_chain_hash
  <2>4. j = i
    <3> HIDE DEF j
    <3> QED
      BY <1>6, <2>2, <2>3
  <2>5. j \in linked(rows') /\ rows'[j].chain_seq < rows'[k].chain_seq
    BY <1>10, <1>12, <2>1
  <2> HIDE DEF j
  <2>6. CASE TakenOut(i)
    BY <2>4, <2>5, <2>6 DEF TakenOut, linked
  <2>7. CASE Moved(i)
    <3>1. rows'[i].chain_seq = rows[tip(rows)].chain_seq + 1
      BY <2>7 DEF Moved
    <3>2. rows[k].chain_seq <= rows[tip(rows)].chain_seq /\ tip(rows) \in linked(rows)
      BY <1>3, TipIsLast
    <3> QED
      BY <1>3, <1>4, <1>9, <2>4, <2>5, <3>1, <3>2
  <2> QED
    BY <1>7, <2>6, <2>7
<1> QED
  BY <1>13, <1>14

\* A row that is rewritten in place gives itself away, or the row behind it does.
LEMMA RewriteIsFound ==
  ASSUME RowsOK(rows), Sound(rows), NEW n \in 1 .. Len(chain(rows)), n < Len(chain(rows)),
         broken_links(rows) = {}, Edit(chain(rows)[n]), Rewritten(chain(rows)[n]),
         changed(chain(rows)[n])
  PROVE  broken_links(rows') # {}
<1> DEFINE N == Len(chain(rows))
           s == chain(rows)
           i == s[n]
<1>1. /\ N \in Nat
      /\ s \in [1 .. N -> linked(rows)]
      /\ \A j \in linked(rows) : \E m \in 1 .. N : s[m] = j
      /\ \A l, m \in 1 .. N : l < m <=> rows[s[l]].chain_seq < rows[s[m]].chain_seq
  BY ChainOrder
<1>2. \A m \in 1 .. N :
        /\ rows[s[m]].prev_hash = expected_prev(rows, m)
        /\ recomputed(rows, m) = rows[s[m]].chain_hash
  BY Verdict
<1> HIDE DEF N, s
<1>3. n \in 1 .. N /\ n + 1 \in 1 .. N /\ n + 1 # n /\ n + 1 # 1 /\ (n + 1) - 1 = n
  BY <1>1 DEF N
<1>4. i \in linked(rows) /\ i \in DOMAIN rows
  BY <1>1, <1>3 DEF linked
<1>5. /\ Sound(rows')
      /\ \A j \in (DOMAIN rows) \ {i} : rows'[j] = rows[j]
      /\ DOMAIN rows' = DOMAIN rows
      /\ rows'[i].chain_seq = rows[i].chain_seq
  BY <1>4, EditStep, EditCases DEF s, Rewritten
<1>6. \A j \in DOMAIN rows : rows'[j].chain_seq = rows[j].chain_seq
  BY <1>5
<1>7. linked(rows') = linked(rows)
  BY <1>5, <1>6 DEF linked
<1>8. chain(rows') = s
  <2>1. \A l, m \in 1 .. N : l < m => rows'[s[l]].chain_seq < rows'[s[m]].chain_seq
    BY <1>1, <1>6 DEF linked
  <2>2. ListsChain(rows', N, s)
    BY <1>1, <1>7, <2>1 DEF ListsChain
  <2> QED
    BY <1>5, <2>2, ChainIs
<1>9. \A m \in 1 .. N : m # n => s[m] # i /\ rows'[s[m]] = rows[s[m]]
  <2> SUFFICES ASSUME NEW m \in 1 .. N, m # n PROVE s[m] # i /\ rows'[s[m]] = rows[s[m]]
    OBVIOUS
  <2>1. s[m] \in linked(rows) /\ s[m] \in DOMAIN rows
    BY <1>1 DEF linked
  <2>2. m < n \/ n < m
    BY <1>3
  <2>3. \A j \in linked(rows) : rows[j].chain_seq \in Int
    BY DEF linked, Sound
  <2>4. s[m] # i
    BY <1>1, <1>3, <1>4, <2>1, <2>2, <2>3
  <2> QED
    BY <1>5, <2>1, <2>4
<1>10. \A m \in 1 .. N : m \notin broken_links(rows') =>
         /\ rows'[s[m]].prev_hash = expected_prev(rows', m)
         /\ recomputed(rows', m) = rows'[s[m]].chain_hash
  BY <1>5, <1>8, Verdict DEF N, s
<1>11. recomputed(rows', n) = <<i, rows'[i].content, rows'[i].prev_hash>>
  BY <1>8 DEF recomputed, compute_chain_hash
<1>12. rows[i].chain_hash = <<i, rows[i].content, rows[i].prev_hash>>
  BY <1>2, <1>3 DEF recomputed, compute_chain_hash, s
<1> SUFFICES ASSUME broken_links(rows') = {} PROVE FALSE
  OBVIOUS
<1>13. rows'[i].chain_hash = <<i, rows'[i].content, rows'[i].prev_hash>>
  BY <1>3, <1>10, <1>11
<1>14. rows'[i].chain_hash = rows[i].chain_hash
  <2>1. rows'[s[n + 1]].prev_hash = expected_prev(rows', n + 1)
    BY <1>3, <1>10
  <2>2. expected_prev(rows', n + 1) = rows'[i].chain_hash
    BY <1>3, <1>8 DEF expected_prev
  <2>3. rows[s[n + 1]].prev_hash = expected_prev(rows, n + 1)
    BY <1>2, <1>3
  <2>4. expected_prev(rows, n + 1) = rows[i].chain_hash
    BY <1>3 DEF expected_prev, s
  <2>5. rows'[s[n + 1]] = rows[s[n + 1]]
    BY <1>3, <1>9
  <2> QED
    BY <2>1, <2>2, <2>3, <2>4, <2>5
<1> HIDE DEF i
<1>15. rows'[i].content = rows[i].content /\ rows'[i].prev_hash = rows[i].prev_hash
  BY <1>12, <1>13, <1>14
<1>16. changed(i)
  BY DEF i, s
<1> QED
  BY <1>4, <1>5, <1>14, <1>15, <1>16 DEF changed

\* One edit of a row that has a successor in an intact chain is reported, for any
\* number of rows and whatever is written into it (chain.py:70-87).
THEOREM EditsAreDetected == Spec => EditIsDetected
<1>1. ASSUME IInv, [Next]_vars, edits' > edits, broken_links(rows) = {},
             NEW n \in DOMAIN chain(rows), n < Len(chain(rows)), changed(chain(rows)[n])
      PROVE  broken_links(rows') # {}
  <2> DEFINE k == chain(rows)[n]
  <2>1. RowsOK(rows) /\ Sound(rows) /\ edits \in Int
    BY <1>1 DEF IInv
  <2>2. n \in 1 .. Len(chain(rows)) /\ k \in linked(rows)
    BY <1>1, <2>1, ChainOrder
  <2>3. PICK i \in DOMAIN rows : Edit(i)
    <3>1. ~ UNCHANGED edits
      BY <1>1, <2>1
    <3> QED
      BY <1>1, <3>1 DEF Next, vars, InsertBefore004, Link, insert, Upgrade, Downgrade
  <2>4. /\ \A j \in (DOMAIN rows) \ {i} : rows'[j] = rows[j]
        /\ Rewritten(i) \/ Moved(i) \/ TakenOut(i)
    BY <2>1, <2>3, EditCases
  <2>5. k = i
    <3> SUFFICES ASSUME k # i PROVE FALSE
      OBVIOUS
    <3>1. k \in (DOMAIN rows) \ {i}
      BY <2>2 DEF linked
    <3>2. k \in DOMAIN rows' /\ rows'[k] = rows[k]
      BY <2>4, <3>1 DEF Rewritten, Moved, TakenOut
    <3> HIDE DEF k
    <3>3. ~ changed(k)
      BY <3>2 DEF changed
    <3> QED
      BY <1>1, <3>3 DEF k
  <2>6. CASE Rewritten(i)
    BY <1>1, <2>1, <2>2, <2>3, <2>5, <2>6, RewriteIsFound
  <2>7. CASE Moved(i) \/ TakenOut(i)
    BY <1>1, <2>1, <2>2, <2>3, <2>5, <2>7, GapIsFound
  <2> QED
    BY <2>4, <2>6, <2>7
<1>2. IInv /\ [Next]_vars =>
        [edits' > edits /\ broken_links(rows) = {} =>
           \A n \in DOMAIN chain(rows) :
             n < Len(chain(rows)) /\ changed(chain(rows)[n]) => broken_links(rows') # {}]_vars
  BY <1>1
<1> QED
  BY <1>2, IInvAlways, PTL DEF Spec, EditIsDetected

\* No transaction that is inserted or linked later makes a broken chain verify
\* again (chain.py:45-48 against 70-87).
THEOREM NothingEverHeals == Spec => NothingHeals
<1>1. ASSUME IInv, [Next]_vars, broken_links(rows) # {}, DOMAIN rows \subseteq DOMAIN rows',
             rows' # rows, edits' = edits, revision' = revision
      PROVE  broken_links(rows') # {}
  <2>1. RowsOK(rows) /\ Sound(rows) /\ edits \in Int
    BY <1>1 DEF IInv
  <2>2. PICK n : n \in broken_links(rows)
    BY <1>1
  <2>3. n \in 1 .. Len(chain(rows))
    BY <2>1, <2>2, Verdict
  <2>4. PICK id \in Ids, content \in Contents, time \in 1 .. MaxTime :
          InsertBefore004(id, content, time) \/ Link(id, content, time)
    <3>1. ~ Upgrade /\ ~ Downgrade
      BY <1>1 DEF Upgrade, Downgrade
    <3>2. ASSUME NEW i \in DOMAIN rows, Edit(i) PROVE FALSE
      <4>1. edits' = edits + 1
        BY <3>2 DEF Edit
      <4> QED
        BY <1>1, <2>1, <4>1
    <3>3. ~ UNCHANGED vars
      BY <1>1 DEF vars
    <3> QED
      BY <1>1, <3>1, <3>2, <3>3 DEF Next
  <2>5. CASE InsertBefore004(id, content, time)
    <3>1. PICK row : GoesBehind(rows, row) /\ Inserted(rows, id, row, rows')
      BY <2>1, <2>5, OldStep
    <3> QED
      BY <2>1, <2>2, <2>3, <3>1, InsertKeepsVerdicts
  <2>6. CASE Link(id, content, time)
    <3>1. /\ GoesBehind(rows, linked_row(rows, id, content, time))
          /\ Inserted(rows, id, linked_row(rows, id, content, time), rows')
      BY <2>1, <2>6, LinkStep
    <3> QED
      BY <2>1, <2>2, <2>3, <3>1, InsertKeepsVerdicts
  <2> QED
    BY <2>4, <2>5, <2>6
<1>2. IInv /\ [Next]_vars =>
        [broken_links(rows) # {} /\ DOMAIN rows \subseteq DOMAIN rows'
           /\ rows' # rows /\ edits' = edits /\ revision' = revision
         => broken_links(rows') # {}]_vars
  BY <1>1
<1> QED
  BY <1>2, IInvAlways, PTL DEF Spec, NothingHeals
=============================================================================
