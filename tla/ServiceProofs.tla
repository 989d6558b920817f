---------------------------- MODULE ServiceProofs ----------------------------
(***************************************************************************)
(* Theorems about a running service, for any number of requests, users,    *)
(* threads and connections, about how it comes to run, for any number of   *)
(* instances, releases and failures, and about what its readers see, for   *)
(* any number of accounts, transactions, clients, queries and limits.      *)
(*                                                                         *)
(* Requests: nothing leaks from the two pools, all requests wait for each  *)
(* other only when there are as many as threads and connections together,  *)
(* only admins create accounts, and callers are told the truth.            *)
(*                                                                         *)
(* Startup: the system accounts are those of the migrations, and a release *)
(* serves an older schema only for the causes listed.                      *)
(*                                                                         *)
(* Reads: a walk through pages misses only ties, statements add up to the  *)
(* balance, and a running balance is negative only when rows overtook each *)
(* other.  The last part of the module; it needs none of the others.       *)
(***************************************************************************)
EXTENDS Requests, Startup, Reads, BalanceProofs, FiniteSetTheorems, SequenceTheorems, TLAPS

-----------------------------------------------------------------------------
\* The invariant

\* Who occupies a thread, and whose session holds a connection, can be told from
\* what each request does next.
Pools ==
  /\ IsFiniteSet(running)
  /\ threads = {r \in Requests : pc[r] \in {"lookup", "insert", "refresh"}}
  /\ \A r \in Requests :
       /\ pc[r] \in {"insert", "serialize"} => r \in connections
       /\ r \in connections => pc[r] \in {"insert", "serialize", "close"}

\* A token of an admin is no older than Lifetime when it expires.
TokensAreHonest ==
  /\ \A u \in Users :
       /\ last_admin[u] <= now
       /\ users[u] = "admin" => last_admin[u] = now
  /\ \A token \in tokens :
       /\ token.exp > Lifetime
       /\ token.role = "admin" => last_admin[token.sub] >= token.exp - Lifetime
  /\ \A r \in Requests : call[r].token \in tokens \cup {NoToken}

admitted(r) ==
  /\ call[r].token \in tokens
  /\ call[r].token.role = "admin"
  /\ lapse[r] <= Lifetime

Calling ==
  \A r \in Requests :
    /\ call[r].endpoint = "create" => call[r].name \in Names
    /\ pc[r] \in {"idle", "authorize", "dispatch", "lookup", "insert", "refresh"}
         => status[r] = 0
    /\ pc[r] \in {"insert", "refresh"} => call[r].endpoint = "create"
    /\ pc[r] = "refresh" => accounts[call[r].name] = r
    /\ pc[r] \in {"dispatch", "lookup", "insert"} /\ call[r].endpoint = "create" => admitted(r)

Owners ==
  \A n \in Names :
    accounts[n] # Nobody =>
      /\ pc[accounts[n]] \in {"refresh", "serialize", "close", "done"}
      /\ call[accounts[n]].endpoint = "create"
      /\ call[accounts[n]].name = n
      /\ admitted(accounts[n])

IInv == TypeOK /\ Pools /\ TokensAreHonest /\ Calling /\ Owners /\ OneCreatorPerName

-----------------------------------------------------------------------------
\* The pools

\* A request that goes on to another statement leaves or joins those that run.
LEMMA RunningStaysFinite ==
  ASSUME TypeOK, IsFiniteSet(running), NEW r \in Requests, NEW l \in Labels, Go(r, l)
  PROVE  IsFiniteSet(running')
<1>1. running' \in SUBSET (running \cup {r})
  BY DEF running, Go, TypeOK
<1>2. IsFiniteSet(running \cup {r})
  BY FS_AddElement
<1> QED
  BY <1>1, <1>2, FS_Subset

LEMMA PoolsAreFinite ==
  ASSUME TypeOK, Pools
  PROVE  /\ IsFiniteSet(threads) /\ IsFiniteSet(connections)
         /\ threads \subseteq running /\ connections \subseteq running
<1>1. threads \in SUBSET running
  BY DEF Pools, running
<1>2. connections \in SUBSET running
  BY DEF Pools, running, TypeOK
<1> QED
  BY <1>1, <1>2, FS_Subset DEF Pools

LEMMA TakingKeepsBounds ==
  ASSUME NEW S, NEW r, NEW n \in Nat, IsFiniteSet(S), Cardinality(S) < n
  PROVE  Cardinality(S \cup {r}) <= n
<1>1. Cardinality(S) \in Nat
  BY FS_CardinalityType
<1>2. Cardinality(S \cup {r}) = IF r \in S THEN Cardinality(S) ELSE Cardinality(S) + 1
  BY FS_AddElement
<1> QED
  BY <1>1, <1>2

LEMMA GivingKeepsBounds ==
  ASSUME NEW S, NEW r, NEW n \in Nat, IsFiniteSet(S), Cardinality(S) <= n
  PROVE  Cardinality(S \ {r}) <= n
<1>1. Cardinality(S) \in Nat
  BY FS_CardinalityType
<1>2. Cardinality(S \ {r}) = IF r \in S THEN Cardinality(S) - 1 ELSE Cardinality(S)
  BY FS_RemoveElement
<1> QED
  BY <1>1, <1>2

-----------------------------------------------------------------------------
\* Types

LEMMA TypeInit == Init => TypeOK
<1> SUFFICES ASSUME Init PROVE TypeOK
  OBVIOUS
<1>1. threads \subseteq Requests /\ Cardinality(threads) <= Threads
  BY FS_EmptySet, CapacityAssumption DEF Init
<1>2. connections \subseteq Requests /\ Cardinality(connections) <= Connections
  BY FS_EmptySet, CapacityAssumption DEF Init
<1>3. call \in [Requests -> Calls]
  BY DEF Init, Calls
<1>4. users \in [Users -> Assigned \cup {Nobody}] /\ last_admin \in [Users -> 0 .. MaxTime]
  BY BoundsAssumption DEF Init
<1> QED
  BY <1>1, <1>2, <1>3, <1>4, BoundsAssumption DEF Init, TypeOK, Labels

Codes == {0, 200, 201, 401, 403, 404, 409, 500}

\* What a step of one request has to keep for all types to be kept.
LEMMA TypeMove ==
  ASSUME TypeOK, Pools, NEW r \in Requests, NEW l \in Labels, Go(r, l),
         threads' \in {threads, threads \ {r}} \/ (free_thread /\ threads' = threads \cup {r}),
         \/ connections' \in {connections, connections \ {r}}
         \/ free_connection /\ connections' = connections \cup {r},
         UNCHANGED auth_vars,
         accounts' \in [Names -> Requests \cup {Nobody}], call' \in [Requests -> Calls],
         UNCHANGED status \/ \E code \in Codes : Answer(r, code),
         timed_out' \subseteq Requests, lapse' \in [Requests -> 0 .. MaxTime]
  PROVE  TypeOK'
<1>0. IsFiniteSet(threads) /\ IsFiniteSet(connections) /\ Threads \in Nat /\ Connections \in Nat
  BY PoolsAreFinite, CapacityAssumption
<1>1. threads' \subseteq Requests /\ Cardinality(threads') <= Threads
  <2>1. Cardinality(threads \ {r}) <= Threads
    BY <1>0, GivingKeepsBounds DEF TypeOK
  <2>2. free_thread => Cardinality(threads \cup {r}) <= Threads
    BY <1>0, TakingKeepsBounds DEF free_thread
  <2> QED
    BY <2>1, <2>2 DEF TypeOK
<1>2. connections' \subseteq Requests /\ Cardinality(connections') <= Connections
  <2>1. Cardinality(connections \ {r}) <= Connections
    BY <1>0, GivingKeepsBounds DEF TypeOK
  <2>2. free_connection => Cardinality(connections \cup {r}) <= Connections
    BY <1>0, TakingKeepsBounds DEF free_connection
  <2> QED
    BY <2>1, <2>2 DEF TypeOK
<1>3. pc' \in [Requests -> Labels]
  BY DEF TypeOK, Go
<1>4. status' \in [Requests -> Codes]
  BY DEF TypeOK, Answer, Codes
<1> QED
  BY <1>1, <1>2, <1>3, <1>4 DEF TypeOK, auth_vars, Codes

LEMMA TypeNext ==
  ASSUME TypeOK, Pools, TokensAreHonest, [Next]_vars
  PROVE  TypeOK'
<1> USE BoundsAssumption, NobodyAssumption
<1>1. /\ accounts \in [Names -> Requests \cup {Nobody}]
      /\ call \in [Requests -> Calls]
      /\ timed_out \subseteq Requests
      /\ lapse \in [Requests -> 0 .. MaxTime]
  BY DEF TypeOK
<1>2. ASSUME NEW r \in Requests, Arrive(r) PROVE TypeOK'
  <2>1. call' \in [Requests -> Calls]
    BY <1>2 DEF Arrive, TypeOK, Calls
  <2> QED
    BY <1>1, <1>2, <2>1, TypeMove DEF Arrive, Labels
<1>3. ASSUME NEW r \in Requests, Authorize(r) PROVE TypeOK'
  <2>1. ASSUME valid(call[r].token) PROVE now - last_admin[call[r].token.sub] \in 0 .. MaxTime
    <3>1. call[r].token \in Tokens
      BY <2>1 DEF TypeOK, Calls, valid
    <3>2. call[r].token.sub \in Users
      BY <3>1 DEF Tokens
    <3> QED
      BY <3>2 DEF TypeOK, TokensAreHonest
  <2>2. lapse' \in [Requests -> 0 .. MaxTime]
    BY <1>3, <2>1 DEF Authorize, TypeOK
  <2>3. UNCHANGED status \/ \E code \in Codes : Answer(r, code)
    BY <1>3 DEF Authorize, Codes
  <2>4. \E l \in Labels : Go(r, l)
    BY <1>3 DEF Authorize, Labels
  <2> QED
    BY <1>1, <1>3, <2>2, <2>3, <2>4, TypeMove DEF Authorize
<1>4. ASSUME NEW r \in Requests, Dispatch(r) PROVE TypeOK'
  BY <1>1, <1>4, TypeMove DEF Dispatch, Labels
<1>5. ASSUME NEW r \in Requests, Read(r) PROVE TypeOK'
  <2>1. (\E code \in Codes : Answer(r, code)) /\ (\E l \in Labels : Go(r, l))
    BY <1>5 DEF Read, Codes, Labels
  <2> QED
    BY <1>1, <1>5, <2>1, TypeMove DEF Read, TakeConnection
<1>6. ASSUME NEW r \in Requests, LookupName(r) PROVE TypeOK'
  <2>1. /\ UNCHANGED status \/ \E code \in Codes : Answer(r, code)
        /\ \E l \in Labels : Go(r, l)
        /\ threads' \in {threads, threads \ {r}}
    BY <1>6 DEF LookupName, Codes, Labels
  <2> QED
    BY <1>1, <1>6, <2>1, TypeMove DEF LookupName, TakeConnection
<1>7. ASSUME NEW r \in Requests, Insert(r) PROVE TypeOK'
  <2>1. /\ UNCHANGED status \/ \E code \in Codes : Answer(r, code)
        /\ \E l \in Labels : Go(r, l)
        /\ threads' \in {threads, threads \ {r}}
        /\ connections' \in {connections, connections \ {r}}
    BY <1>7 DEF Insert, Codes, Labels
  <2>2. accounts' \in [Names -> Requests \cup {Nobody}]
    BY <1>1, <1>7 DEF Insert
  <2> QED
    BY <1>1, <1>7, <2>1, <2>2, TypeMove DEF Insert
<1>8. ASSUME NEW r \in Requests, Refresh(r) PROVE TypeOK'
  <2>1. (\E code \in Codes : Answer(r, code)) /\ (\E l \in Labels : Go(r, l))
    BY <1>8 DEF Refresh, Codes, Labels
  <2> QED
    BY <1>1, <1>8, <2>1, TypeMove DEF Refresh, TakeConnection
<1>9. ASSUME NEW r \in Requests, PoolTimeout(r) PROVE TypeOK'
  <2>1. (\E code \in Codes : Answer(r, code)) /\ (\E l \in Labels : Go(r, l))
    BY <1>9 DEF PoolTimeout, Codes, Labels
  <2>2. timed_out' \subseteq Requests
    BY <1>1, <1>9 DEF PoolTimeout
  <2> QED
    BY <1>1, <1>9, <2>1, <2>2, TypeMove DEF PoolTimeout
<1>10. ASSUME NEW r \in Requests, Serialize(r) PROVE TypeOK'
  BY <1>1, <1>10, TypeMove DEF Serialize, Labels
<1>11. ASSUME NEW r \in Requests, Close(r) PROVE TypeOK'
  BY <1>1, <1>11, TypeMove DEF Close, closed, Labels
<1>12. ASSUME NEW u \in Users, Login(u) PROVE TypeOK'
  <2>1. create_access_token(u) \in Tokens
    BY <1>12 DEF Login, authenticate_user, create_access_token, Tokens, TypeOK
  <2> QED
    BY <1>12, <2>1 DEF Login, TypeOK
<1>13. ASSUME NEW u \in Users, NEW role \in Assigned \cup {Nobody}, Redeploy(u, role)
       PROVE  TypeOK'
  BY <1>13 DEF Redeploy, admins, TypeOK
<1>14. CASE Tick
  BY <1>14 DEF Tick, admins, TypeOK
<1>15. CASE UNCHANGED vars
  BY <1>15 DEF vars, auth_vars, TypeOK
<1> QED
  BY <1>2, <1>3, <1>4, <1>5, <1>6, <1>7, <1>8, <1>9, <1>10, <1>11, <1>12, <1>13, <1>14, <1>15
  DEF Next, Terminating

-----------------------------------------------------------------------------
\* Pools

LEMMA PoolsInit == Init => Pools
<1> SUFFICES ASSUME Init PROVE Pools
  OBVIOUS
<1>1. running = {}
  BY DEF Init, running
<1> QED
  BY <1>1, FS_EmptySet DEF Init, Pools

LEMMA PoolsMove ==
  ASSUME TypeOK, Pools, NEW r \in Requests, NEW l \in Labels, Go(r, l),
         threads' = IF l \in {"lookup", "insert", "refresh"} THEN threads \cup {r}
                    ELSE threads \ {r},
         connections' \ {r} = connections \ {r},
         l \in {"insert", "serialize"} => r \in connections',
         r \in connections' => l \in {"insert", "serialize", "close"}
  PROVE  Pools'
<1>1. IsFiniteSet(running')
  BY RunningStaysFinite DEF Pools
<1>2. \A q \in Requests : pc'[q] = IF q = r THEN l ELSE pc[q]
  BY DEF Go, TypeOK
<1>3. threads' = {q \in Requests : pc'[q] \in {"lookup", "insert", "refresh"}}
  BY <1>2 DEF Pools
<1>4. \A q \in Requests :
        /\ pc'[q] \in {"insert", "serialize"} => q \in connections'
        /\ q \in connections' => pc'[q] \in {"insert", "serialize", "close"}
  BY <1>2 DEF Pools
<1> QED
  BY <1>1, <1>3, <1>4 DEF Pools

LEMMA PoolsNext ==
  ASSUME TypeOK, Pools, [Next]_vars
  PROVE  Pools'
<1>1. ASSUME NEW r \in Requests
      PROVE  /\ pc[r] \in {"idle", "authorize", "dispatch", "serialize", "close"} => r \notin threads
             /\ pc[r] \in {"lookup", "insert", "refresh"} => r \in threads
             /\ pc[r] \in {"idle", "authorize", "dispatch", "lookup", "refresh"} => r \notin connections
             /\ pc[r] \in {"insert", "serialize"} => r \in connections
  BY DEF Pools
<1>2. ASSUME NEW r \in Requests, Arrive(r) PROVE Pools'
  <2>1. pc[r] = "idle" /\ UNCHANGED <<threads, connections>>
    BY <1>2 DEF Arrive
  <2> QED
    BY <1>1, <1>2, <2>1, PoolsMove DEF Arrive, Labels
<1>3. ASSUME NEW r \in Requests, Authorize(r) PROVE Pools'
  <2>1. PICK l \in {"close", "dispatch"} : Go(r, l)
    BY <1>3 DEF Authorize
  <2> QED
    BY <1>1, <1>3, <2>1, PoolsMove DEF Authorize, Labels
<1>4. ASSUME NEW r \in Requests, Dispatch(r) PROVE Pools'
  BY <1>1, <1>4, PoolsMove DEF Dispatch, Labels
<1>5. ASSUME NEW r \in Requests, Read(r) PROVE Pools'
  <2>1. PICK l \in {"close", "serialize"} : Go(r, l)
    BY <1>5 DEF Read
  <2> QED
    BY <1>1, <1>5, <2>1, PoolsMove DEF Read, TakeConnection, Labels
<1>6. ASSUME NEW r \in Requests, LookupName(r) PROVE Pools'
  BY <1>1, <1>6, PoolsMove DEF LookupName, TakeConnection, Labels
<1>7. ASSUME NEW r \in Requests, Insert(r) PROVE Pools'
  BY <1>1, <1>7, PoolsMove DEF Insert, Labels
<1>8. ASSUME NEW r \in Requests, Refresh(r) PROVE Pools'
  BY <1>1, <1>8, PoolsMove DEF Refresh, TakeConnection, Labels
<1>9. ASSUME NEW r \in Requests, PoolTimeout(r) PROVE Pools'
  BY <1>1, <1>9, PoolsMove DEF PoolTimeout, Labels
<1>10. ASSUME NEW r \in Requests, Serialize(r) PROVE Pools'
  BY <1>1, <1>10, PoolsMove DEF Serialize, Labels
<1>11. ASSUME NEW r \in Requests, Close(r) PROVE Pools'
  BY <1>1, <1>11, PoolsMove DEF Close, closed, Labels
<1>12. CASE UNCHANGED <<pc, threads, connections>>
  BY <1>12 DEF Pools, running
<1> QED
  BY <1>2, <1>3, <1>4, <1>5, <1>6, <1>7, <1>8, <1>9, <1>10, <1>11, <1>12
  DEF Next, Terminating, vars, Login, Redeploy, Tick

-----------------------------------------------------------------------------
\* Tokens

LEMMA TokensInit == Init => TokensAreHonest
<1> SUFFICES ASSUME Init PROVE TokensAreHonest
  OBVIOUS
<1>1. \A u \in Users : last_admin[u] <= now /\ (users[u] = "admin" => last_admin[u] = now)
  BY DEF Init
<1> QED
  BY <1>1 DEF Init, TokensAreHonest

LEMMA TokensNext ==
  ASSUME TypeOK, TokensAreHonest, [Next]_vars
  PROVE  TokensAreHonest'
<1> USE BoundsAssumption, NobodyAssumption
<1>1. ASSUME NEW r \in Requests, Arrive(r) PROVE TokensAreHonest'
  <2>1. \A q \in Requests : call'[q].token \in tokens \cup {NoToken}
    BY <1>1 DEF Arrive, TokensAreHonest, TypeOK
  <2> QED
    BY <1>1, <2>1 DEF Arrive, TokensAreHonest, auth_vars
<1>2. ASSUME NEW u \in Users, Login(u) PROVE TokensAreHonest'
  <2> DEFINE new == create_access_token(u)
  <2>1. /\ new.sub = u /\ new.role = users[u] /\ new.exp = now + Lifetime
        /\ new.exp > Lifetime
        /\ new.role = "admin" => last_admin[new.sub] >= new.exp - Lifetime
    BY <1>2 DEF Login, create_access_token, TokensAreHonest, TypeOK
  <2> QED
    BY <1>2, <2>1 DEF Login, TokensAreHonest
<1>3. ASSUME NEW u \in Users, NEW role \in Assigned \cup {Nobody}, Redeploy(u, role)
      PROVE  TokensAreHonest'
  <2>1. \A v \in Users : /\ last_admin'[v] <= now
                         /\ last_admin'[v] >= last_admin[v]
                         /\ users'[v] = "admin" => last_admin'[v] = now
    BY <1>3 DEF Redeploy, admins, TokensAreHonest, TypeOK
  <2>2. \A token \in tokens : token.role = "admin" =>
          last_admin'[token.sub] >= token.exp - Lifetime
    BY <2>1, <1>3 DEF TokensAreHonest, TypeOK, Tokens, Redeploy, admins
  <2> QED
    BY <1>3, <2>1, <2>2 DEF Redeploy, TokensAreHonest
<1>4. CASE Tick
  <2>1. \A v \in Users : /\ last_admin'[v] <= now'
                         /\ last_admin'[v] >= last_admin[v]
                         /\ users'[v] = "admin" => last_admin'[v] = now'
    BY <1>4 DEF Tick, admins, TokensAreHonest, TypeOK
  <2>2. \A token \in tokens : token.role = "admin" =>
          last_admin'[token.sub] >= token.exp - Lifetime
    BY <2>1, <1>4 DEF TokensAreHonest, TypeOK, Tokens, Tick, admins
  <2> QED
    BY <1>4, <2>1, <2>2 DEF Tick, TokensAreHonest
<1>5. CASE UNCHANGED <<auth_vars, call>>
  BY <1>5 DEF TokensAreHonest, auth_vars
<1> QED
  BY <1>1, <1>2, <1>3, <1>4, <1>5
  DEF Next, Terminating, vars, auth_vars, Authorize, Dispatch, Read, LookupName, Insert,
      Refresh, PoolTimeout, Serialize, Close

-----------------------------------------------------------------------------
\* Calls, owners and answers

\* An admin's token that is accepted shows a recent admin.
LEMMA AcceptedIsRecent ==
  ASSUME TypeOK, TokensAreHonest, NEW r \in Requests, valid(call[r].token),
         call[r].token.role = "admin"
  PROVE  /\ call[r].token \in tokens
         /\ now - last_admin[call[r].token.sub] <= Lifetime
<1>1. call[r].token \in tokens
  BY DEF TokensAreHonest, valid
<1>2. call[r].token \in Tokens /\ call[r].token.sub \in Users /\ call[r].token.exp \in Nat
  BY <1>1 DEF TypeOK, Tokens
<1>3. last_admin[call[r].token.sub] >= call[r].token.exp - Lifetime
  BY <1>1 DEF TokensAreHonest
<1>4. now <= call[r].token.exp
  BY DEF valid
<1>5. last_admin[call[r].token.sub] \in Int /\ now \in Int
  BY <1>2 DEF TypeOK
<1> QED
  BY <1>1, <1>2, <1>3, <1>4, <1>5, BoundsAssumption

LEMMA CallingInit == Init => Calling /\ Owners /\ OneCreatorPerName
  BY DEF Init, Calling, Owners, OneCreatorPerName

Answering == Calling /\ Owners /\ OneCreatorPerName

\* What a request may be told: the disjuncts of OneCreatorPerName for one request.
told(r) ==
  LET author == IF call[r].endpoint = "create" THEN accounts[call[r].name] ELSE Nobody IN
  /\ status[r] = 201 => author = r
  /\ status[r] = 409 => author \notin {Nobody, r}
  /\ status[r] = 500 => r \in timed_out \/ author \notin {Nobody, r}

\* A step of one request that inserts no account.
LEMMA AnsweringMove ==
  ASSUME TypeOK, Answering, NEW r \in Requests, NEW l \in Labels \ {"refresh"}, Go(r, l),
         UNCHANGED <<call, tokens, accounts>>, timed_out \subseteq timed_out',
         \A q \in Requests \ {r} : status'[q] = status[q] /\ lapse'[q] = lapse[q],
         lapse'[r] = lapse[r] \/ pc[r] = "authorize",
         l \in {"idle", "authorize", "dispatch", "lookup", "insert"} => status'[r] = 0,
         l = "insert" => call[r].endpoint = "create",
         l \in {"dispatch", "lookup", "insert"} /\ call[r].endpoint = "create" => admitted(r)',
         pc[r] \in {"refresh", "serialize", "close", "done"} =>
           l \in {"refresh", "serialize", "close", "done"},
         told(r)'
  PROVE  Answering'
<1>1. \A q \in Requests : pc'[q] = IF q = r THEN l ELSE pc[q]
  BY DEF Go, TypeOK
<1>2. Calling'
  BY <1>1 DEF Answering, Calling, admitted, Labels
<1>3. ASSUME NEW n \in Names, accounts[n] # Nobody
      PROVE  /\ pc'[accounts[n]] \in {"refresh", "serialize", "close", "done"}
             /\ call[accounts[n]].endpoint = "create"
             /\ call[accounts[n]].name = n
             /\ admitted(accounts[n])'
  <2>1. accounts[n] \in Requests
    BY <1>3 DEF TypeOK
  <2>2. /\ pc[accounts[n]] \in {"refresh", "serialize", "close", "done"}
        /\ call[accounts[n]].endpoint = "create"
        /\ call[accounts[n]].name = n
        /\ admitted(accounts[n])
    BY <1>3 DEF Answering, Owners
  <2>3. lapse'[accounts[n]] = lapse[accounts[n]]
    BY <2>1, <2>2
  <2>4. pc'[accounts[n]] \in {"refresh", "serialize", "close", "done"}
    BY <1>1, <2>1, <2>2
  <2> QED
    BY <2>2, <2>3, <2>4 DEF admitted
<1>4. Owners'
  BY <1>3 DEF Owners
<1>5. \A q \in Requests \ {r} : told(q)'
  <2> SUFFICES ASSUME NEW q \in Requests \ {r} PROVE told(q)'
    OBVIOUS
  <2>1. told(q)
    BY DEF Answering, OneCreatorPerName, told
  <2> QED
    BY <2>1 DEF told
<1>6. OneCreatorPerName'
  BY <1>5 DEF OneCreatorPerName, told
<1> QED
  BY <1>2, <1>4, <1>6 DEF Answering

LEMMA AnsweringNext ==
  ASSUME TypeOK, TokensAreHonest, Answering, [Next]_vars
  PROVE  Answering'
<1> USE BoundsAssumption, NobodyAssumption
<1>0. ASSUME NEW r \in Requests
      PROVE  /\ call[r].endpoint = "create" => call[r].name \in Names
             /\ pc[r] \in {"idle", "authorize", "dispatch", "lookup", "insert", "refresh"}
                  => status[r] = 0
             /\ pc[r] \in {"idle", "authorize", "dispatch", "lookup", "insert"} =>
                  \A n \in Names : accounts[n] # r
             /\ told(r)
  <2>1. r # Nobody
    OBVIOUS
  <2> QED
    BY <2>1 DEF Answering, Calling, Owners, OneCreatorPerName, told
<1>1. ASSUME NEW r \in Requests, Arrive(r) PROVE Answering'
  <2>1. \A q \in Requests \ {r} : call'[q] = call[q] /\ pc'[q] = pc[q]
    BY <1>1 DEF Arrive, Go, TypeOK
  <2>2. /\ pc[r] = "idle" /\ pc'[r] = "authorize" /\ status[r] = 0
        /\ call'[r].endpoint = "create" => call'[r].name \in Names
    BY <1>1 DEF Arrive, Go, TypeOK, Answering, Calling
  <2>3. UNCHANGED <<accounts, tokens, status, lapse, timed_out>>
    BY <1>1 DEF Arrive, auth_vars
  <2>4. Calling'
    BY <2>1, <2>2, <2>3 DEF Answering, Calling, admitted
  <2>5. Owners'
    <3> SUFFICES ASSUME NEW n \in Names, accounts[n] # Nobody
                 PROVE  /\ pc'[accounts[n]] \in {"refresh", "serialize", "close", "done"}
                        /\ call'[accounts[n]].endpoint = "create"
                        /\ call'[accounts[n]].name = n
                        /\ admitted(accounts[n])'
      BY <2>3 DEF Owners
    <3>1. accounts[n] \in Requests \ {r}
      BY <1>0, <2>2 DEF TypeOK
    <3> QED
      BY <3>1, <2>1, <2>3 DEF Answering, Owners, admitted
  <2>6. OneCreatorPerName'
    BY <2>1, <2>2, <2>3 DEF Answering, OneCreatorPerName
  <2> QED
    BY <2>4, <2>5, <2>6 DEF Answering
<1>2. ASSUME NEW r \in Requests, Authorize(r) PROVE Answering'
  <2>1. /\ UNCHANGED <<call, tokens, accounts, timed_out>>
        /\ pc[r] = "authorize" /\ status[r] = 0
        /\ \A q \in Requests \ {r} : status'[q] = status[q] /\ lapse'[q] = lapse[q]
    BY <1>0, <1>2 DEF Authorize, auth_vars, Answer, TypeOK
  <2>2. CASE Go(r, "close")
    <3>1. status'[r] \in {401, 403}
      BY <1>2, <2>2, <2>1 DEF Authorize, Answer, TypeOK, Go
    <3>2. told(r)'
      BY <3>1 DEF told
    <3> QED
      BY <2>1, <2>2, <3>2, AnsweringMove DEF Labels
  <2>3. CASE Go(r, "dispatch")
    <3>1. /\ UNCHANGED status
          /\ valid(call[r].token) /\ call[r].token.role \in allowed(call[r].endpoint)
          /\ lapse' = [lapse EXCEPT ![r] = now - last_admin[call[r].token.sub]]
      BY <1>2, <2>3, <2>1 DEF Authorize, Go, TypeOK
    <3>2. call[r].endpoint = "create" => admitted(r)'
      BY <2>1, <3>1, AcceptedIsRecent DEF admitted, allowed, TypeOK
    <3>3. told(r)'
      BY <2>1, <3>1 DEF told
    <3> QED
      BY <2>1, <2>3, <3>1, <3>2, <3>3, AnsweringMove DEF Labels
  <2> QED
    BY <1>2, <2>2, <2>3 DEF Authorize
<1>3. ASSUME NEW r \in Requests, Dispatch(r) PROVE Answering'
  <2>1. /\ UNCHANGED <<call, tokens, accounts, timed_out, status, lapse>>
        /\ pc[r] = "dispatch" /\ Go(r, "lookup")
    BY <1>3 DEF Dispatch, auth_vars
  <2>2. call[r].endpoint = "create" => admitted(r)'
    BY <2>1 DEF Answering, Calling, admitted
  <2>3. told(r)' /\ status[r] = 0
    BY <1>0, <2>1 DEF told
  <2> QED
    BY <2>1, <2>2, <2>3, AnsweringMove DEF Labels
<1>4. ASSUME NEW r \in Requests, Read(r) PROVE Answering'
  <2>1. /\ UNCHANGED <<call, tokens, accounts, timed_out, lapse>>
        /\ pc[r] = "lookup" /\ call[r].endpoint = "read"
        /\ Go(r, "serialize") \/ Go(r, "close")
        /\ status'[r] \in {200, 404}
        /\ \A q \in Requests \ {r} : status'[q] = status[q]
    BY <1>4 DEF Read, auth_vars, Answer, TypeOK
  <2>2. told(r)'
    BY <2>1 DEF told
  <2> QED
    BY <2>1, <2>2, AnsweringMove DEF Labels
<1>5. ASSUME NEW r \in Requests, LookupName(r) PROVE Answering'
  <2>1. /\ UNCHANGED <<call, tokens, accounts, timed_out, lapse>>
        /\ pc[r] = "lookup" /\ call[r].endpoint = "create" /\ status[r] = 0
        /\ \A q \in Requests \ {r} : status'[q] = status[q]
    BY <1>0, <1>5 DEF LookupName, auth_vars, Answer, TypeOK
  <2>2. CASE accounts[call[r].name] # Nobody
    <3>1. status'[r] = 409 /\ Go(r, "close")
      BY <1>5, <2>2 DEF LookupName, Answer, TypeOK
    <3>2. told(r)'
      BY <1>0, <2>1, <2>2, <3>1 DEF told
    <3> QED
      BY <2>1, <3>1, <3>2, AnsweringMove DEF Labels
  <2>3. CASE accounts[call[r].name] = Nobody
    <3>1. UNCHANGED status /\ Go(r, "insert")
      BY <1>5, <2>3 DEF LookupName
    <3>2. told(r)' /\ admitted(r)'
      BY <2>1, <3>1 DEF told, Answering, Calling, admitted
    <3> QED
      BY <2>1, <3>1, <3>2, AnsweringMove DEF Labels
  <2> QED
    BY <2>2, <2>3
<1>6. ASSUME NEW r \in Requests, Insert(r) PROVE Answering'
  <2> DEFINE n == call[r].name
  <2>1. /\ UNCHANGED <<call, tokens, timed_out, lapse>>
        /\ pc[r] = "insert" /\ status[r] = 0
        /\ \A q \in Requests \ {r} : status'[q] = status[q]
    BY <1>0, <1>6 DEF Insert, auth_vars, Answer, TypeOK
  <2>2. call[r].endpoint = "create" /\ n \in Names /\ admitted(r)
    BY <2>1 DEF Answering, Calling
  <2>3. CASE name_taken(r)
    <3>1. status'[r] = 500 /\ Go(r, "close") /\ UNCHANGED accounts
      BY <1>6, <2>3 DEF Insert, Answer, TypeOK
    <3>2. told(r)'
      BY <1>0, <2>1, <2>2, <2>3, <3>1 DEF told, name_taken
    <3> QED
      BY <2>1, <3>1, <3>2, AnsweringMove DEF Labels
  <2>4. CASE ~ name_taken(r)
    <3>1. /\ accounts[n] = Nobody /\ accounts' = [accounts EXCEPT ![n] = r]
          /\ UNCHANGED status
          /\ \A q \in Requests : pc'[q] = IF q = r THEN "refresh" ELSE pc[q]
      BY <1>6, <2>4 DEF Insert, name_taken, Go, TypeOK
    <3>2. accounts'[n] = r /\ \A k \in Names \ {n} : accounts'[k] = accounts[k]
      BY <2>2, <3>1 DEF TypeOK
    <3>3. Calling'
      <4> SUFFICES ASSUME NEW q \in Requests, pc'[q] = "refresh"
                   PROVE  accounts'[call[q].name] = q
        BY <2>1, <2>2, <3>1 DEF Answering, Calling, admitted
      <4>1. CASE q = r
        BY <4>1, <3>2
      <4>2. CASE q # r
        <5>1. accounts[call[q].name] = q /\ call[q].name \in Names
          BY <4>2, <3>1 DEF Answering, Calling
        <5> QED
          BY <5>1, <3>1, <3>2
      <4> QED
        BY <4>1, <4>2
    <3>4. Owners'
      <4> SUFFICES ASSUME NEW k \in Names, accounts'[k] # Nobody
                   PROVE  /\ pc'[accounts'[k]] \in {"refresh", "serialize", "close", "done"}
                          /\ call[accounts'[k]].endpoint = "create"
                          /\ call[accounts'[k]].name = k
                          /\ admitted(accounts'[k])
        BY <2>1 DEF Owners, admitted
      <4>1. CASE k = n
        BY <4>1, <2>2, <3>1, <3>2
      <4>2. CASE k # n
        BY <4>2, <3>1, <3>2 DEF Answering, Owners, TypeOK
      <4> QED
        BY <4>1, <4>2
    <3>5. OneCreatorPerName'
      <4> SUFFICES ASSUME NEW q \in Requests PROVE told(q)'
        BY DEF OneCreatorPerName, told
      <4>1. CASE q = r
        BY <4>1, <2>1, <3>1 DEF told
      <4>2. CASE q # r
        <5>1. told(q) /\ (call[q].endpoint = "create" => call[q].name \in Names)
          BY <1>0
        <5> QED
          BY <4>2, <5>1, <2>1, <3>1, <3>2 DEF told
      <4> QED
        BY <4>1, <4>2
    <3> QED
      BY <3>3, <3>4, <3>5 DEF Answering
  <2> QED
    BY <2>3, <2>4
<1>7. ASSUME NEW r \in Requests, Refresh(r) PROVE Answering'
  <2>1. /\ UNCHANGED <<call, tokens, accounts, timed_out, lapse>>
        /\ pc[r] = "refresh" /\ Go(r, "serialize") /\ status'[r] = 201
        /\ \A q \in Requests \ {r} : status'[q] = status[q]
    BY <1>7 DEF Refresh, auth_vars, Answer, TypeOK
  <2>2. told(r)'
    BY <2>1 DEF told, Answering, Calling
  <2> QED
    BY <2>1, <2>2, AnsweringMove DEF Labels
<1>8. ASSUME NEW r \in Requests, PoolTimeout(r) PROVE Answering'
  <2>1. /\ UNCHANGED <<call, tokens, accounts, lapse>>
        /\ timed_out' = timed_out \cup {r}
        /\ Go(r, "close") /\ status'[r] = 500
        /\ \A q \in Requests \ {r} : status'[q] = status[q]
    BY <1>8 DEF PoolTimeout, auth_vars, Answer, TypeOK
  <2>2. told(r)'
    BY <2>1 DEF told
  <2> QED
    BY <2>1, <2>2, AnsweringMove DEF Labels
<1>9. ASSUME NEW r \in Requests, Serialize(r) \/ Close(r) PROVE Answering'
  <2>1. /\ UNCHANGED <<call, tokens, accounts, timed_out, status, lapse>>
        /\ Go(r, "close") \/ Go(r, "done")
    BY <1>9 DEF Serialize, Close, auth_vars
  <2>2. told(r)'
    BY <1>0, <2>1 DEF told
  <2> QED
    BY <2>1, <2>2, AnsweringMove DEF Labels
<1>10. ASSUME NEW u \in Users, Login(u) PROVE Answering'
  <2>1. UNCHANGED <<accounts, pc, call, status, timed_out, lapse>> /\ tokens \subseteq tokens'
    BY <1>10 DEF Login
  <2>2. \A r \in Requests : admitted(r) => admitted(r)'
    BY <2>1 DEF admitted
  <2>3. Calling'
    BY <2>1, <2>2 DEF Answering, Calling
  <2>4. Owners'
    BY <2>1, <2>2 DEF Answering, Owners, TypeOK
  <2> QED
    BY <2>1, <2>3, <2>4 DEF Answering, OneCreatorPerName
<1>11. CASE UNCHANGED <<accounts, tokens, pc, call, status, timed_out, lapse>>
  BY <1>11 DEF Answering, Calling, Owners, OneCreatorPerName, admitted
<1> QED
  BY <1>1, <1>2, <1>3, <1>4, <1>5, <1>6, <1>7, <1>8, <1>9, <1>10, <1>11
  DEF Next, Terminating, vars, auth_vars, Redeploy, Tick

-----------------------------------------------------------------------------
\* Theorems

\* The conjunction of all of the above is an invariant.
THEOREM Invariant == Spec => []IInv
<1>1. Init => IInv
  BY TypeInit, PoolsInit, TokensInit, CallingInit DEF IInv
<1>2. IInv /\ [Next]_vars => IInv'
  BY TypeNext, PoolsNext, TokensNext, AnsweringNext DEF IInv, Answering
<1> QED
  BY <1>1, <1>2, PTL DEF Spec

\* Rows, tokens, requests and the two pools keep their types: neither pool is ever
\* overdrawn, for any number of requests.
THEOREM TypeCorrect == Spec => []TypeOK
<1>1. IInv => TypeOK
  BY DEF IInv
<1> QED
  BY <1>1, Invariant, PTL

LEMMA StallTakesBothPools ==
  ASSUME IInv, running # {}, ~ \E r \in running : can_move(r)
  PROVE  Cardinality(running) >= Threads + Connections
<1> USE CapacityAssumption
<1>1. /\ IsFiniteSet(running) /\ IsFiniteSet(threads) /\ IsFiniteSet(connections)
      /\ threads \subseteq running /\ connections \subseteq running
  BY PoolsAreFinite DEF IInv, Pools
<1>2. /\ Cardinality(running) \in Nat /\ Cardinality(threads) \in Nat
      /\ Cardinality(connections) \in Nat
  BY <1>1, FS_CardinalityType
<1>3. \A r \in running : pc[r] \in Labels \ {"idle", "done"} /\ r \in Requests
  BY DEF running, IInv, TypeOK
<1>4. \A r \in running : pc[r] \notin {"insert", "close"}
  BY DEF can_move
<1>5. \A r \in running :
        \/ pc[r] \in {"authorize", "dispatch", "serialize"} /\ ~ free_thread
        \/ pc[r] \in {"lookup", "refresh"} /\ ~ free_connection
  BY <1>3, <1>4 DEF Labels, can_move
<1>6. ASSUME ~ free_thread PROVE ~ free_connection
  <2>1. Cardinality(threads) # 0
    BY <1>2, <1>6 DEF free_thread
  <2>2. PICK r \in threads : TRUE
    BY <1>1, <2>1, FS_EmptySet
  <2> QED
    BY <1>1, <1>5, <2>2 DEF IInv, Pools
<1>7. ASSUME ~ free_connection PROVE ~ free_thread
  <2>1. Cardinality(connections) # 0
    BY <1>2, <1>7 DEF free_connection
  <2>2. PICK r \in connections : TRUE
    BY <1>1, <2>1, FS_EmptySet
  <2> QED
    BY <1>1, <1>4, <1>5, <2>2 DEF IInv, Pools, running
<1>8. Cardinality(threads) >= Threads /\ Cardinality(connections) >= Connections
  BY <1>2, <1>5, <1>6, <1>7 DEF free_thread, free_connection
<1>9. threads \cap connections = {}
  BY <1>1, <1>4 DEF IInv, Pools
<1>10. Cardinality(threads \cup connections) = Cardinality(threads) + Cardinality(connections)
  <2>1. Cardinality(threads \cup connections)
          = Cardinality(threads) + Cardinality(connections) - Cardinality(threads \cap connections)
    BY <1>1, FS_Union
  <2>2. Cardinality(threads \cap connections) = 0
    BY <1>9, FS_EmptySet
  <2> QED
    BY <1>2, <2>1, <2>2
<1>11. Cardinality(threads \cup connections) <= Cardinality(running)
  <2>1. threads \cup connections \in SUBSET running
    BY <1>1
  <2> QED
    BY <1>1, <2>1, FS_Subset
<1> QED
  BY <1>2, <1>8, <1>10, <1>11

\* However many requests come, they all wait for each other only when there are as
\* many of them as threads and connections together (database.py:14-22).
THEOREM StallsNeedManyCalls == Spec => []StallNeedsManyCalls
<1>1. IInv => StallNeedsManyCalls
  BY StallTakesBothPools DEF StallNeedsManyCalls
<1> QED
  BY <1>1, Invariant, PTL

\* Whatever releases do to the roles, an account is created only by someone who
\* was an admin at most Lifetime before (auth.py:83-124).
THEOREM AdminsCreate == Spec => []OnlyAdminsCreate
<1>1. IInv => OnlyAdminsCreate
  <2> SUFFICES ASSUME IInv, NEW n \in Names, accounts[n] # Nobody
               PROVE  /\ call[accounts[n]].token.role = "admin"
                      /\ last_admin[call[accounts[n]].token.sub] > 0
                      /\ lapse[accounts[n]] <= Lifetime
    BY DEF OnlyAdminsCreate
  <2> DEFINE token == call[accounts[n]].token
  <2>1. token \in tokens /\ token.role = "admin" /\ lapse[accounts[n]] <= Lifetime
    BY DEF IInv, Owners, admitted
  <2>2. token.exp > Lifetime /\ last_admin[token.sub] >= token.exp - Lifetime
    BY <2>1 DEF IInv, TokensAreHonest
  <2>3. token.exp \in Nat /\ last_admin[token.sub] \in Int
    BY <2>1 DEF IInv, TypeOK, Tokens
  <2> QED
    BY <2>1, <2>2, <2>3, BoundsAssumption
<1> QED
  BY <1>1, Invariant, PTL

\* One request creates the account of a name, it alone is told 201, and no answer
\* denies it (main.py:220-229).
THEOREM CreationIsToldTruly == Spec => []OneCreatorPerName
<1>1. IInv => OneCreatorPerName
  BY DEF IInv
<1> QED
  BY <1>1, Invariant, PTL

-----------------------------------------------------------------------------
(***************************************************************************)
(* The start of instances                                                  *)
(***************************************************************************)
-----------------------------------------------------------------------------
\* The invariant

\* The open transaction continues the committed schema, and nobody owns a name
\* it has inserted.
OneUpgrader ==
  /\ \A i \in Instances : found[i] <= revision
  /\ \A i \in Instances : stage[i] = "upgrading" => found[i] < head[i]
  /\ revision = 0 \/ \E j \in Instances : revision = head[j]
  /\ upgrader # NoInstance =>
       /\ stage[upgrader] = "upgrading"
       /\ found[upgrader] = revision /\ revision < head[upgrader]
       /\ revision <= applied /\ applied <= head[upgrader]
       /\ \A n \in uncommitted : owner[n] = "nobody"

\* The migrations own what they have committed and nothing else.
Ownership ==
  /\ SeedsAreGenuine
  /\ \A n \in SystemNames : owner[n] = "migration" => n \in seeded_by(revision)

SchemaInv == StartupTypeOK /\ OneUpgrader /\ Ownership /\ BehindOnlyForCause

-----------------------------------------------------------------------------
\* Types

LEMMA SchemaTypeInit ==
  StartupInit => StartupTypeOK
BY HeadAssumption, FaultsAssumption DEF StartupInit, StartupTypeOK

\* The numbers among the variables.
LEMMA Versions ==
  ASSUME StartupTypeOK
  PROVE  /\ revision \in 0 .. 5 /\ applied \in 0 .. 5 /\ faults \in 0 .. MaxFaults
         /\ \A i \in Instances : found[i] \in 0 .. 5 /\ head[i] \in 1 .. 5
<1>1. revision \in 0 .. 5 /\ applied \in 0 .. 5 /\ faults \in 0 .. MaxFaults
  BY DEF StartupTypeOK
<1>2. found \in [Instances -> 0 .. 5]
  BY DEF StartupTypeOK
<1> QED
  BY <1>1, <1>2, HeadAssumption

LEMMA SchemaTypeMove ==
  ASSUME StartupTypeOK, UNCHANGED <<revision, owner, upgrader, applied, found, failure, faults>>,
         NEW i \in Instances,
         NEW label \in {"off", "upgrading", "starting", "serving", "exited"}, Enter(i, label)
  PROVE  StartupTypeOK'
<1>1. stage' \in [Instances -> {"off", "upgrading", "starting", "serving", "exited"}]
  BY DEF StartupTypeOK, Enter
<1> QED
  BY <1>1 DEF StartupTypeOK

LEMMA SchemaTypeAbandon ==
  ASSUME StartupTypeOK, NEW i \in Instances, Abandon(i), UNCHANGED <<revision, owner, found>>,
         NEW label \in {"off", "starting"}, Enter(i, label),
         NEW why \in {"outrun", "name_taken", "lost"},
         failure' = failure \/ failure' = [failure EXCEPT ![i] = why],
         faults' \in 0 .. MaxFaults
  PROVE  StartupTypeOK'
<1>1. stage' \in [Instances -> {"off", "upgrading", "starting", "serving", "exited"}]
  BY DEF StartupTypeOK, Enter
<1>2. upgrader' \in Instances \cup {NoInstance}
  BY DEF StartupTypeOK, Abandon
<1>3. applied' \in 0 .. 5
  <2>1. CASE upgrader = i
    BY <2>1 DEF Abandon
  <2>2. CASE upgrader # i
    BY <2>2, Versions DEF Abandon
  <2> QED
    BY <2>1, <2>2
<1>4. failure' \in [Instances -> {"none", "unknown_revision", "outrun", "name_taken", "lost"}]
  BY DEF StartupTypeOK
<1> QED
  BY <1>1, <1>2, <1>3, <1>4 DEF StartupTypeOK

LEMMA SchemaTypeNext ==
  StartupTypeOK /\ [StartupNext]_startup_vars => StartupTypeOK'
<1> SUFFICES ASSUME StartupTypeOK, [StartupNext]_startup_vars PROVE StartupTypeOK'
  OBVIOUS
<1> USE HeadAssumption, FaultsAssumption
<1>0. ASSUME NEW i \in Instances, NEW why \in {"outrun", "name_taken", "lost"},
             Fail(i, why), faults' \in 0 .. MaxFaults
      PROVE  StartupTypeOK'
  BY <1>0, SchemaTypeAbandon DEF Fail, after_failure
<1>1. ASSUME NEW i \in Instances, ReadVersion(i) PROVE StartupTypeOK'
  <2>1. stage' \in [Instances -> {"off", "upgrading", "starting", "serving", "exited"}]
    BY <1>1 DEF ReadVersion, Enter, StartupTypeOK
  <2>2. found' \in [Instances -> 0 .. 5]
    BY <1>1 DEF ReadVersion, StartupTypeOK
  <2>3. failure' \in [Instances -> {"none", "unknown_revision", "outrun", "name_taken", "lost"}]
    BY <1>1 DEF ReadVersion, StartupTypeOK
  <2> QED
    BY <1>1, <2>1, <2>2, <2>3 DEF ReadVersion, StartupTypeOK
<1>2. ASSUME NEW i \in Instances, FirstMigration(i) PROVE StartupTypeOK'
  <2>1. CASE revision # found[i]
    <3>1. Fail(i, "outrun") /\ faults' \in 0 .. MaxFaults
      BY <1>2, <2>1 DEF FirstMigration, StartupTypeOK
    <3> QED
      BY <1>0, <3>1
  <2>2. CASE revision = found[i]
    <3>1. upgrader' \in Instances \cup {NoInstance}
      BY <1>2, <2>2 DEF FirstMigration
    <3>2. applied' \in 0 .. 5
      BY <1>2, <2>2 DEF FirstMigration, StartupTypeOK
    <3> QED
      BY <1>2, <2>2, <3>1, <3>2 DEF FirstMigration, StartupTypeOK
  <2> QED
    BY <2>1, <2>2
<1>3. ASSUME NEW i \in Instances, Migrate(i) PROVE StartupTypeOK'
  <2>1. CASE refused(applied + 1)
    <3>1. Fail(i, "name_taken") /\ faults' \in 0 .. MaxFaults
      BY <1>3, <2>1 DEF Migrate, StartupTypeOK
    <3> QED
      BY <1>0, <3>1
  <2>2. CASE ~ refused(applied + 1)
    <3>1. applied' \in 0 .. 5
      <4>1. head[i] \in 1 .. 5 /\ applied \in 0 .. 5
        BY DEF StartupTypeOK
      <4> QED
        BY <1>3, <2>2, <4>1 DEF Migrate
    <3> QED
      BY <1>3, <2>2, <3>1 DEF Migrate, StartupTypeOK
  <2> QED
    BY <2>1, <2>2
<1>4. ASSUME NEW i \in Instances, CommitUpgrade(i) PROVE StartupTypeOK'
  <2>1. stage' \in [Instances -> {"off", "upgrading", "starting", "serving", "exited"}]
    BY <1>4 DEF CommitUpgrade, Enter, StartupTypeOK
  <2>2. owner' \in [SystemNames -> {"nobody", "migration", "admin"}]
    BY <1>4 DEF CommitUpgrade, StartupTypeOK
  <2>3. revision' \in 0 .. 5 /\ applied' \in 0 .. 5
    BY <1>4, Versions DEF CommitUpgrade
  <2> QED
    BY <1>4, <2>1, <2>2, <2>3 DEF CommitUpgrade, StartupTypeOK
<1>5. ASSUME NEW i \in Instances, LoseUpgrade(i) PROVE StartupTypeOK'
  <2>1. faults' \in 0 .. MaxFaults
    BY <1>5, Versions DEF LoseUpgrade
  <2> QED
    BY <1>0, <1>5, <2>1 DEF LoseUpgrade
<1>6. ASSUME NEW i \in Instances, Serve(i) \/ Stop(i) PROVE StartupTypeOK'
  BY <1>6, SchemaTypeMove DEF Serve, Stop
<1>7. ASSUME NEW i \in Instances, Kill(i) PROVE StartupTypeOK'
  <2>1. faults' \in 0 .. MaxFaults
    BY <1>7, Versions DEF Kill
  <2> QED
    BY <1>7, <2>1, SchemaTypeAbandon DEF Kill
<1>8. ASSUME NEW i \in Instances, NEW n \in SystemNames, CreateAccount(i, n) PROVE StartupTypeOK'
  <2>1. owner' \in [SystemNames -> {"nobody", "migration", "admin"}]
    BY <1>8 DEF CreateAccount, StartupTypeOK
  <2> QED
    BY <1>8, <2>1 DEF CreateAccount, StartupTypeOK
<1>9. CASE UNCHANGED startup_vars
  BY <1>9 DEF startup_vars, StartupTypeOK
<1> QED
  BY <1>1, <1>2, <1>3, <1>4, <1>5, <1>6, <1>7, <1>8, <1>9 DEF StartupNext, Start

-----------------------------------------------------------------------------
\* Steps that leave the committed schema alone

\* An upgrade ends without a commit, or never held the transaction.
LEMMA LeavingTheUpgrade ==
  ASSUME StartupTypeOK, OneUpgrader, NEW i \in Instances,
         UNCHANGED <<revision, owner, found>>,
         \A j \in Instances \ {i} : stage'[j] = stage[j],
         stage'[i] # "upgrading", Abandon(i)
  PROVE  OneUpgrader'
<1>1. CASE upgrader = i
  BY <1>1 DEF OneUpgrader, Abandon
<1>2. CASE upgrader # i
  <2>1. UNCHANGED upgrader /\ UNCHANGED applied
    BY <1>2 DEF Abandon
  <2>2. UNCHANGED uncommitted
    BY <2>1 DEF uncommitted
  <2> QED
    BY <1>2, <2>1, <2>2 DEF OneUpgrader, StartupTypeOK
<1> QED
  BY <1>1, <1>2

LEMMA OwnershipKept ==
  ASSUME Ownership, UNCHANGED <<revision, owner>>
  PROVE  Ownership'
  BY DEF Ownership, SeedsAreGenuine, seeded_by

\* Whoever is or becomes behind has a cause, as long as the others keep theirs.
Caused(i) ==
  \/ failure[i] = "lost"
  \/ failure[i] = "name_taken" /\ \E n \in seeds(5) : owner[n] = "admin"
  \/ failure[i] = "outrun" /\ \E j \in Instances : revision = head[j] /\ head[j] < head[i]

LEMMA CausesKept ==
  ASSUME BehindOnlyForCause, NEW i \in Instances,
         UNCHANGED <<revision, owner>>,
         \A j \in Instances \ {i} : stage'[j] = stage[j] /\ failure'[j] = failure[j],
         stage'[i] \in {"starting", "serving"} /\ revision < head[i] => Caused(i)'
  PROVE  BehindOnlyForCause'
  BY DEF BehindOnlyForCause, Caused

-----------------------------------------------------------------------------
\* The other parts of the invariant

LEMMA SchemaInit == StartupInit => OneUpgrader /\ Ownership /\ BehindOnlyForCause
<1> SUFFICES ASSUME StartupInit PROVE OneUpgrader /\ Ownership /\ BehindOnlyForCause
  OBVIOUS
<1>1. seeded_by(revision) = {}
  BY DEF StartupInit, seeded_by, migration_of
<1>2. OneUpgrader
  BY DEF StartupInit, OneUpgrader
<1>3. \A n \in SystemNames : owner[n] = "nobody"
  BY DEF StartupInit
<1>4. Ownership
  BY <1>1, <1>3 DEF Ownership, SeedsAreGenuine, SystemNames
<1>5. BehindOnlyForCause
  BY DEF StartupInit, BehindOnlyForCause
<1> QED
  BY <1>2, <1>4, <1>5

\* A failed upgrade: nothing is committed, and the failure is a cause.
LEMMA FailKeeps ==
  ASSUME SchemaInv, NEW i \in Instances, stage[i] = "upgrading",
         NEW why \in {"outrun", "name_taken", "lost"}, Fail(i, why),
         why = "outrun" => revision # found[i],
         why = "name_taken" => \E n \in seeds(5) : owner[n] = "admin"
  PROVE  OneUpgrader' /\ Ownership' /\ BehindOnlyForCause'
<1> USE HeadAssumption, FaultsAssumption
<1>1. /\ UNCHANGED <<revision, owner, found>>
      /\ stage'[i] = "starting" /\ failure'[i] = why
      /\ \A j \in Instances \ {i} : stage'[j] = stage[j] /\ failure'[j] = failure[j]
  BY DEF Fail, Enter, after_failure, SchemaInv, StartupTypeOK
<1>2. OneUpgrader'
  BY <1>1, LeavingTheUpgrade DEF SchemaInv, Fail
<1>3. revision < head[i] => Caused(i)'
  <2> SUFFICES ASSUME revision < head[i] PROVE Caused(i)'
    OBVIOUS
  <2>1. CASE why = "lost"
    BY <1>1, <2>1 DEF Caused
  <2>2. CASE why = "name_taken"
    BY <1>1, <2>2 DEF Caused
  <2>3. CASE why = "outrun"
    <3>1. revision # 0
      <4>1. found[i] \in 0 .. 5 /\ revision \in 0 .. 5
        BY Versions DEF SchemaInv
      <4>2. found[i] <= revision /\ revision # found[i]
        BY <2>3 DEF SchemaInv, OneUpgrader
      <4>3. found[i] < revision
        BY <4>1, <4>2
      <4> QED
        BY <4>1, <4>3
    <3>2. PICK j \in Instances : revision = head[j]
      BY <3>1 DEF SchemaInv, OneUpgrader
    <3> QED
      BY <1>1, <2>3, <3>2 DEF Caused
  <2> QED
    BY <2>1, <2>2, <2>3
<1>4. BehindOnlyForCause'
  BY <1>1, <1>3, CausesKept DEF SchemaInv
<1> QED
  BY <1>1, <1>2, <1>4, OwnershipKept DEF SchemaInv

\* The open transaction commits: its names were free and are the migrations' now.
LEMMA CommitKeeps ==
  ASSUME SchemaInv, NEW i \in Instances, CommitUpgrade(i)
  PROVE  OneUpgrader' /\ Ownership' /\ BehindOnlyForCause'
<1> USE HeadAssumption, FaultsAssumption
<1>0. /\ revision \in 0 .. 5 /\ applied \in 0 .. 5
      /\ \A j \in Instances : found[j] \in 0 .. 5 /\ head[j] \in 1 .. 5
  BY Versions DEF SchemaInv
<1>1. /\ upgrader = i /\ upgrader # NoInstance /\ applied = head[i]
      /\ revision' = applied /\ upgrader' = NoInstance
      /\ UNCHANGED <<found, failure>>
      /\ revision < applied /\ found[i] = revision
      /\ \A n \in uncommitted : owner[n] = "nobody"
      /\ \A j \in Instances : found[j] <= revision
  BY DEF CommitUpgrade, may_commit, SchemaInv, OneUpgrader
<1>pc. \A j \in Instances : stage'[j] = IF j = i THEN "starting" ELSE stage[j]
  BY DEF CommitUpgrade, Enter, SchemaInv, StartupTypeOK
<1>2. \A n \in SystemNames :
        owner'[n] = IF n \in uncommitted THEN "migration" ELSE owner[n]
  BY <1>1 DEF CommitUpgrade, uncommitted
<1>3. OneUpgrader'
  <2>1. \A j \in Instances : found'[j] <= revision'
    BY <1>0, <1>1
  <2>2. \A j \in Instances : stage'[j] = "upgrading" => found'[j] < head[j]
    BY <1>1, <1>pc DEF SchemaInv, OneUpgrader
  <2> QED
    BY <1>1, <2>1, <2>2 DEF OneUpgrader
<1>4. \A n \in SystemNames : n \in seeded_by(revision') <=> n \in seeded_by(revision) \/ n \in uncommitted
  <2>1. uncommitted = {n \in SystemNames : migration_of(n) \in revision + 1 .. applied}
    BY <1>1 DEF uncommitted
  <2>2. \A n \in SystemNames : migration_of(n) \in Nat
    BY DEF migration_of
  <2> QED
    BY <1>0, <1>1, <2>1, <2>2 DEF seeded_by
<1>5. "External_Clearing" \in SystemNames
  BY DEF SystemNames
<1>6. Ownership'
  <2>1. \A n \in seeded_by(revision') : owner'[n] = "migration"
    BY <1>2, <1>4 DEF SchemaInv, Ownership, SeedsAreGenuine, seeded_by
  <2>2. owner'["External_Clearing"] # "admin"
    BY <1>2, <1>5 DEF SchemaInv, Ownership, SeedsAreGenuine
  <2>3. \A n \in SystemNames : owner'[n] = "migration" => n \in seeded_by(revision')
    BY <1>2, <1>4 DEF SchemaInv, Ownership
  <2> QED
    BY <2>1, <2>2, <2>3 DEF Ownership, SeedsAreGenuine, seeded_by
<1>7. ASSUME NEW j \in Instances, stage'[j] \in {"starting", "serving"}, revision' < head[j]
      PROVE  Caused(j)'
  <2>1. j # i /\ revision < head[j] /\ stage[j] \in {"starting", "serving"}
    <3>1. j # i
      BY <1>0, <1>1, <1>7
    <3> QED
      BY <1>0, <1>1, <1>pc, <1>7, <3>1
  <2>2. Caused(j)
    BY <2>1 DEF SchemaInv, BehindOnlyForCause, Caused
  <2>3. ASSUME NEW n \in seeds(5), owner[n] = "admin" PROVE owner'[n] = "admin"
    <3>1. n \in SystemNames /\ n \notin uncommitted
      BY <1>1, <2>3 DEF seeds, SchemaInv, OneUpgrader
    <3> QED
      BY <1>2, <2>3, <3>1
  <2> QED
    BY <1>1, <1>7, <2>2, <2>3 DEF Caused
<1>8. BehindOnlyForCause'
  BY <1>7 DEF BehindOnlyForCause, Caused
<1> QED
  BY <1>3, <1>6, <1>8

LEMMA SchemaNext ==
  ASSUME SchemaInv, [StartupNext]_startup_vars
  PROVE  OneUpgrader' /\ Ownership' /\ BehindOnlyForCause'
<1> USE HeadAssumption, FaultsAssumption
<1>0. /\ revision \in 0 .. 5 /\ applied \in 0 .. 5
      /\ \A j \in Instances : found[j] \in 0 .. 5 /\ head[j] \in 1 .. 5
  BY Versions DEF SchemaInv
<1>1. ASSUME NEW i \in Instances, ReadVersion(i)
      PROVE  OneUpgrader' /\ Ownership' /\ BehindOnlyForCause'
  <2>1. /\ UNCHANGED <<revision, owner, upgrader, applied>> /\ stage[i] = "off"
        /\ \A j \in Instances \ {i} :
             found'[j] = found[j] /\ stage'[j] = stage[j] /\ failure'[j] = failure[j]
        /\ found'[i] = revision
        /\ stage'[i] = IF revision < head[i] THEN "upgrading" ELSE "starting"
    BY <1>1 DEF ReadVersion, Enter, SchemaInv, StartupTypeOK
  <2>2. upgrader # i
    BY <2>1 DEF SchemaInv, OneUpgrader
  <2>3. upgrader # NoInstance => upgrader \in Instances \ {i}
    BY <2>2 DEF SchemaInv, StartupTypeOK
  <2>4. UNCHANGED uncommitted
    BY <2>1, <2>3 DEF uncommitted
  <2>5. OneUpgrader'
    <3>1. \A j \in Instances : found'[j] <= revision'
      BY <1>0, <2>1 DEF SchemaInv, OneUpgrader
    <3>2. \A j \in Instances : stage'[j] = "upgrading" => found'[j] < head[j]
      BY <2>1 DEF SchemaInv, OneUpgrader
    <3> QED
      BY <2>1, <2>3, <2>4, <3>1, <3>2 DEF SchemaInv, OneUpgrader
  <2>6. BehindOnlyForCause'
    BY <2>1, CausesKept DEF SchemaInv
  <2> QED
    BY <2>1, <2>5, <2>6, OwnershipKept DEF SchemaInv
<1>2. ASSUME NEW i \in Instances, FirstMigration(i)
      PROVE  OneUpgrader' /\ Ownership' /\ BehindOnlyForCause'
  <2>1. CASE revision # found[i]
    BY <1>2, <2>1, FailKeeps DEF FirstMigration
  <2>2. CASE revision = found[i]
    <3>1. /\ upgrader' = i /\ applied' = revision /\ stage[i] = "upgrading"
          /\ UNCHANGED <<revision, owner, stage, found, failure>>
      BY <1>2, <2>2 DEF FirstMigration
    <3>2. uncommitted' = {}
      <4>1. \A n \in SystemNames : migration_of(n) \notin revision + 1 .. revision
        BY <1>0 DEF migration_of
      <4> QED
        BY <2>2, <3>1, <4>1 DEF uncommitted
    <3>3. OneUpgrader'
      BY <1>0, <2>2, <3>1, <3>2 DEF SchemaInv, OneUpgrader
    <3>4. BehindOnlyForCause'
      BY <3>1 DEF SchemaInv, BehindOnlyForCause
    <3> QED
      BY <3>1, <3>3, <3>4, OwnershipKept DEF SchemaInv
  <2> QED
    BY <2>1, <2>2
<1>3. ASSUME NEW i \in Instances, Migrate(i)
      PROVE  OneUpgrader' /\ Ownership' /\ BehindOnlyForCause'
  <2>0. /\ upgrader = i /\ upgrader # NoInstance /\ applied < head[i]
        /\ stage[i] = "upgrading" /\ found[i] = revision /\ revision <= applied
    BY <1>3 DEF Migrate, SchemaInv, OneUpgrader
  <2>1. CASE refused(applied + 1)
    <3>1. PICK n \in SystemNames : migration_of(n) = applied + 1 /\ owner[n] # "nobody"
      BY <2>1 DEF refused, seeds
    <3>2. n \notin seeded_by(revision)
      BY <1>0, <2>0, <3>1 DEF seeded_by
    <3>3. owner[n] = "admin"
      BY <3>1, <3>2 DEF SchemaInv, Ownership, StartupTypeOK
    <3>4. n # "External_Clearing"
      BY <3>3 DEF SchemaInv, Ownership, SeedsAreGenuine
    <3>5. n \in seeds(5)
      BY <3>4 DEF seeds, migration_of
    <3> QED
      BY <1>3, <2>0, <2>1, <3>3, <3>5, FailKeeps DEF Migrate
  <2>2. CASE ~ refused(applied + 1)
    <3>1. applied' = applied + 1 /\ UNCHANGED <<revision, owner, upgrader, stage, found, failure>>
      BY <1>3, <2>2 DEF Migrate
    <3>2. \A n \in uncommitted' : n \in uncommitted \/ n \in seeds(applied + 1)
      <4>1. uncommitted = {n \in SystemNames : migration_of(n) \in revision + 1 .. applied}
        BY <2>0 DEF uncommitted
      <4>2. uncommitted' = {n \in SystemNames : migration_of(n) \in revision + 1 .. applied + 1}
        BY <2>0, <3>1 DEF uncommitted
      <4>3. \A n \in SystemNames : migration_of(n) \in Nat
        BY DEF migration_of
      <4> QED
        BY <1>0, <4>1, <4>2, <4>3 DEF seeds
    <3>3. \A n \in uncommitted' : owner[n] = "nobody"
      BY <2>0, <2>2, <3>2 DEF refused, SchemaInv, OneUpgrader
    <3>4. OneUpgrader'
      <4>1. revision <= applied' /\ applied' <= head[i]
        BY <1>0, <2>0, <3>1
      <4> QED
        BY <2>0, <3>1, <3>3, <4>1 DEF SchemaInv, OneUpgrader
    <3>5. BehindOnlyForCause'
      BY <3>1 DEF SchemaInv, BehindOnlyForCause
    <3> QED
      BY <3>1, <3>4, <3>5, OwnershipKept DEF SchemaInv
  <2> QED
    BY <2>1, <2>2
<1>5. ASSUME NEW i \in Instances, LoseUpgrade(i)
      PROVE  OneUpgrader' /\ Ownership' /\ BehindOnlyForCause'
  BY <1>5, FailKeeps DEF LoseUpgrade
<1>6. ASSUME NEW i \in Instances, Serve(i) \/ Stop(i)
      PROVE  OneUpgrader' /\ Ownership' /\ BehindOnlyForCause'
  <2>1. /\ UNCHANGED <<revision, owner, upgrader, applied, found, failure>>
        /\ \A j \in Instances \ {i} : stage'[j] = stage[j]
        /\ stage[i] # "upgrading" /\ stage'[i] # "upgrading"
        /\ stage'[i] = "serving" => stage[i] = "starting"
        /\ stage'[i] # "starting"
    BY <1>6 DEF Serve, Stop, Enter, SchemaInv, StartupTypeOK
  <2>2. OneUpgrader'
    <3>1. UNCHANGED uncommitted
      BY <2>1 DEF uncommitted
    <3>2. upgrader # NoInstance => upgrader \in Instances \ {i}
      BY <2>1 DEF SchemaInv, OneUpgrader, StartupTypeOK
    <3> QED
      BY <2>1, <3>1, <3>2 DEF SchemaInv, OneUpgrader
  <2>3. BehindOnlyForCause'
    BY <2>1 DEF SchemaInv, BehindOnlyForCause
  <2> QED
    BY <2>1, <2>2, <2>3, OwnershipKept DEF SchemaInv
<1>7. ASSUME NEW i \in Instances, Kill(i)
      PROVE  OneUpgrader' /\ Ownership' /\ BehindOnlyForCause'
  <2>1. /\ UNCHANGED <<revision, owner, found, failure>> /\ Abandon(i)
        /\ \A j \in Instances \ {i} : stage'[j] = stage[j]
        /\ stage'[i] = "off"
    BY <1>7 DEF Kill, Enter, SchemaInv, StartupTypeOK
  <2>2. OneUpgrader'
    BY <2>1, LeavingTheUpgrade DEF SchemaInv
  <2>3. BehindOnlyForCause'
    BY <2>1 DEF SchemaInv, BehindOnlyForCause
  <2> QED
    BY <2>1, <2>2, <2>3, OwnershipKept DEF SchemaInv
<1>8. ASSUME NEW i \in Instances, NEW n \in SystemNames, CreateAccount(i, n)
      PROVE  OneUpgrader' /\ Ownership' /\ BehindOnlyForCause'
  <2>1. /\ UNCHANGED <<revision, upgrader, applied, stage, found, failure>>
        /\ revision >= 1 /\ owner[n] = "nobody" /\ n \notin uncommitted
        /\ \A m \in SystemNames : owner'[m] = IF m = n THEN "admin" ELSE owner[m]
    BY <1>8 DEF CreateAccount, SchemaInv, StartupTypeOK
  <2>2. n \notin seeded_by(revision)
    BY <2>1 DEF SchemaInv, Ownership, SeedsAreGenuine
  <2>3. n # "External_Clearing"
    BY <1>0, <2>1, <2>2 DEF seeded_by, migration_of
  <2>4. OneUpgrader'
    <3>1. UNCHANGED uncommitted
      BY <2>1 DEF uncommitted
    <3>2. uncommitted \subseteq SystemNames
      BY DEF uncommitted
    <3> QED
      BY <2>1, <3>1, <3>2 DEF SchemaInv, OneUpgrader
  <2>5. Ownership'
    <3>1. seeded_by(revision) \subseteq SystemNames /\ "External_Clearing" \in SystemNames
      BY DEF seeded_by, SystemNames
    <3>2. seeded_by(revision') = seeded_by(revision)
      BY <2>1
    <3> QED
      BY <2>1, <2>2, <2>3, <3>1, <3>2 DEF SchemaInv, Ownership, SeedsAreGenuine
  <2>6. BehindOnlyForCause'
    <3>1. \A m \in seeds(5) : owner[m] = "admin" => owner'[m] = "admin"
      BY <2>1 DEF seeds
    <3> QED
      BY <2>1, <3>1 DEF SchemaInv, BehindOnlyForCause
  <2> QED
    BY <2>4, <2>5, <2>6
<1>9. CASE UNCHANGED startup_vars
  <2>1. UNCHANGED uncommitted
    BY <1>9 DEF startup_vars, uncommitted
  <2> QED
    BY <1>9, <2>1, OwnershipKept DEF startup_vars, SchemaInv, OneUpgrader, BehindOnlyForCause
<1> QED
  BY <1>1, <1>2, <1>3, <1>5, <1>6, <1>7, <1>8, <1>9, CommitKeeps DEF StartupNext, Start

-----------------------------------------------------------------------------
\* Theorems

\* The invariant of upgrades that race, fail and are killed (start.sh:2-3, env.py).
THEOREM SchemaInvariant == StartupSpec => []SchemaInv
<1>1. StartupInit => SchemaInv
  BY SchemaTypeInit, SchemaInit DEF SchemaInv
<1>2. SchemaInv /\ [StartupNext]_startup_vars => SchemaInv'
  BY SchemaTypeNext, SchemaNext DEF SchemaInv
<1> QED
  BY <1>1, <1>2, PTL DEF StartupSpec

\* Versions, names and instances have their types, however the releases are
\* mixed.
THEOREM SchemaTypeCorrect == StartupSpec => []StartupTypeOK
<1>1. SchemaInv => StartupTypeOK
  BY DEF SchemaInv
<1> QED
  BY <1>1, SchemaInvariant, PTL

\* A schema has exactly the system accounts its migrations insert (001, 005,
\* service.py:23-32).
THEOREM SystemAccountsAreSeeded == StartupSpec => []SeedsAreGenuine
<1>1. SchemaInv => SeedsAreGenuine
  BY DEF SchemaInv, Ownership
<1> QED
  BY <1>1, SchemaInvariant, PTL

\* A release serves an older schema for one of three causes only (start.sh:2-3).
THEOREM OldSchemaHasACause == StartupSpec => []BehindOnlyForCause
<1>1. SchemaInv => BehindOnlyForCause
  BY DEF SchemaInv
<1> QED
  BY <1>1, SchemaInvariant, PTL

-----------------------------------------------------------------------------
\* Reads: the totals of sets of rows, in whatever order they are listed

\* Amounts are integers.
IntegerRows(R) == \A p \in R : p.amount \in Int

\* What a row adds to the balance of a.
effect(p, a) == share(entry(p, a), a)

\* The running balances of a listing.
sums(s, a) == running_total(entries(s, a), a)

LEMMA SumsDef ==
  ASSUME NEW R, IntegerRows(R), NEW s \in Seq(R), NEW a
  PROVE  /\ sums(s, a)[0] = 0
         /\ \A n \in 1 .. Len(s) : sums(s, a)[n] = sums(s, a)[n - 1] + effect(s[n], a)
         /\ \A n \in 0 .. Len(s) : sums(s, a)[n] \in Int
         /\ \A n \in 1 .. Len(s) : effect(s[n], a) \in Int
         /\ compute_balance(entries(s, a), a) = sums(s, a)[Len(s)]
<1> DEFINE es == entries(s, a)
           E == {e \in Range(es) : TRUE}
<1>1. DOMAIN s = 1 .. Len(s) /\ Len(s) \in Nat
  OBVIOUS
<1>2. /\ es \in Seq(Range(es)) /\ Len(es) = Len(s)
      /\ \A n \in 1 .. Len(s) : es[n] = entry(s[n], a)
  BY <1>1 DEF entries, Range
<1>3. IntegerAmounts(Range(es))
  <2> SUFFICES ASSUME NEW n \in 1 .. Len(s) PROVE entry(s[n], a).amount \in Int
    BY <1>1 DEF IntegerAmounts, Range, entries
  <2>1. s[n].amount \in Int
    BY DEF IntegerRows
  <2> QED
    BY <2>1 DEF entry
<1>4. \A n \in 0 .. Len(s) : sums(s, a)[n] \in Int
  <2> HIDE DEF es
  <2>1. \A n \in 0 .. Len(es) : running_total(es, a)[n] \in Int
    BY <1>2, <1>3, RunningTotalType
  <2> QED
    BY <1>2, <2>1 DEF sums, es
<1>5. \A n \in 0 .. Len(s) :
        sums(s, a)[n] = IF n = 0 THEN 0 ELSE sums(s, a)[n - 1] + share(es[n], a)
  <2> HIDE DEF es
  <2>1. Len(es) \in Nat
    BY <1>1, <1>2
  <2>2. \A n \in 0 .. Len(es) :
          running_total(es, a)[n] =
            IF n = 0 THEN 0 ELSE running_total(es, a)[n - 1] + share(es[n], a)
    BY <2>1, RunningTotalDef
  <2> QED
    BY <1>2, <2>2 DEF sums, es
<1>6. \A n \in 1 .. Len(s) : share(es[n], a) = effect(s[n], a)
  BY <1>2 DEF effect
<1>7. \A n \in 1 .. Len(s) : effect(s[n], a) \in Int
  <2> SUFFICES ASSUME NEW n \in 1 .. Len(s) PROVE effect(s[n], a) \in Int
    OBVIOUS
  <2>1. s[n].amount \in Int
    BY DEF IntegerRows
  <2> QED
    BY <2>1 DEF effect, entry, share
<1>8. compute_balance(es, a) = sums(s, a)[Len(s)]
  BY <1>2 DEF compute_balance, sums
<1> HIDE DEF es
<1>9. 0 \in 0 .. Len(s) /\ \A n \in 1 .. Len(s) : n \in 0 .. Len(s) /\ n # 0
  BY <1>1
<1> QED
  BY <1>4, <1>5, <1>6, <1>7, <1>8, <1>9 DEF es

\* The n rows of t after the k-th are those of s after the m-th.
SameRows(s, m, t, k, n) ==
  k + n <= Len(t) /\ m + n <= Len(s) /\ \A i \in 1 .. n : t[k + i] = s[m + i]

\* Listings that agree on a stretch of rows add the same along it.
LEMMA SameStretch ==
  ASSUME NEW R, IntegerRows(R), NEW a
  PROVE  \A s, t \in Seq(R) : \A k, m, n \in Nat :
           SameRows(s, m, t, k, n) =>
             sums(t, a)[k + n] - sums(t, a)[k] = sums(s, a)[m + n] - sums(s, a)[m]
<1> TAKE s, t \in Seq(R)
<1> TAKE k, m, n \in Nat
<1> HAVE SameRows(s, m, t, k, n)
<1> USE DEF SameRows
<1> DEFINE f == sums(t, a)
           g == sums(s, a)
           Bad == {i \in 0 .. n : f[k + i] - f[k] # g[m + i] - g[m]}
<1>1. /\ \A i \in 1 .. Len(t) : f[i] = f[i - 1] + effect(t[i], a) /\ effect(t[i], a) \in Int
      /\ \A i \in 0 .. Len(t) : f[i] \in Int
  BY SumsDef
<1>2. /\ \A i \in 1 .. Len(s) : g[i] = g[i - 1] + effect(s[i], a)
      /\ \A i \in 0 .. Len(s) : g[i] \in Int
  BY SumsDef
<1> SUFFICES ASSUME Bad # {} PROVE FALSE
  <2>1. Bad = {} => n \notin Bad
    OBVIOUS
  <2>2. n \in 0 .. n
    OBVIOUS
  <2> QED
    BY <2>1, <2>2
<1>3. PICK i \in Bad : \A j \in Bad : i <= j
  <2> Bad \subseteq Nat
    OBVIOUS
  <2> HIDE DEF Bad
  <2> QED
    BY LeastNatural
<1> HIDE DEF f, g
<1>4. Len(s) \in Nat /\ Len(t) \in Nat
  OBVIOUS
<1>5. i # 0
  <2> SUFFICES ASSUME i = 0 PROVE FALSE
    OBVIOUS
  <2>1. f[k] \in Int /\ g[m] \in Int
    BY <1>1, <1>2, <1>4
  <2> QED
    BY <1>3, <2>1
<1>6. i - 1 \in 0 .. n /\ i - 1 \notin Bad
  <2>1. i \in 0 .. n
    OBVIOUS
  <2>2. i - 1 \in 0 .. n /\ ~ (i <= i - 1)
    BY <2>1, <1>5
  <2> HIDE DEF Bad
  <2> QED
    BY <2>2, <1>3
<1>7. f[k + (i - 1)] - f[k] = g[m + (i - 1)] - g[m]
  BY <1>6
<1>8. /\ k + i \in 1 .. Len(t) /\ m + i \in 1 .. Len(s)
      /\ k + i - 1 = k + (i - 1) /\ m + i - 1 = m + (i - 1)
      /\ k \in 0 .. Len(t) /\ m \in 0 .. Len(s)
      /\ k + (i - 1) \in 0 .. Len(t) /\ m + (i - 1) \in 0 .. Len(s)
  <2>1. i \in 1 .. n
    BY <1>5
  <2> HIDE DEF Bad
  <2> QED
    BY <2>1, <1>4
<1>9. t[k + i] = s[m + i]
  BY <1>5
<1>10. /\ f[k + i] = f[k + (i - 1)] + effect(t[k + i], a)
       /\ g[m + i] = g[m + (i - 1)] + effect(t[k + i], a)
       /\ effect(t[k + i], a) \in Int
  BY <1>1, <1>2, <1>8, <1>9
<1>11. f[k] \in Int /\ g[m] \in Int /\ f[k + (i - 1)] \in Int /\ g[m + (i - 1)] \in Int
  BY <1>1, <1>2, <1>8
<1>12. f[k + i] - f[k] # g[m + i] - g[m]
  OBVIOUS
<1>13. (f[k + (i - 1)] + effect(t[k + i], a)) - f[k] = (g[m + (i - 1)] + effect(t[k + i], a)) - g[m]
  <2> DEFINE v == f[k + (i - 1)]
             w == g[m + (i - 1)]
             x == f[k]
             y == g[m]
             z == effect(t[k + i], a)
  <2>1. v \in Int /\ w \in Int /\ x \in Int /\ y \in Int /\ z \in Int
    BY <1>10, <1>11, Zenon
  <2>3. v - x = w - y
    BY <1>7, Zenon
  <2> HIDE DEF v, w, x, y, z
  <2>4. v \in Int
    BY <2>1
  <2>5. w \in Int
    BY <2>1
  <2>6. x \in Int
    BY <2>1
  <2>7. y \in Int
    BY <2>1
  <2>8. z \in Int
    BY <2>1
  <2>2. (v + z) - x = (w + z) - y
    BY <2>3, <2>4, <2>5, <2>6, <2>7, <2>8
  <2> QED
    BY <2>2 DEF v, w, x, y, z
<1> QED
  BY <1>10, <1>12, <1>13, Zenon

\* u is the listing t without row p.
Shortened(u, t, p, a) ==
  /\ Len(u) = Len(t) - 1 /\ IsInjective(u) /\ Range(u) = Range(t) \ {p}
  /\ sums(u, a)[Len(u)] = sums(t, a)[Len(t)] - effect(p, a)

LEMMA Without ==
  ASSUME NEW R, IntegerRows(R), NEW a
  PROVE  \A t \in Seq(R) : \A p \in Range(t) :
           IsInjective(t) => \E u \in Seq(R) : Shortened(u, t, p, a)
<1> SUFFICES ASSUME NEW t \in Seq(R), IsInjective(t), NEW k \in DOMAIN t
             PROVE  \E u \in Seq(R) : Shortened(u, t, t[k], a)
  BY DEF Range
<1> DEFINE n == Len(t)
           shorter == [i \in 1 .. n - 1 |-> IF i < k THEN t[i] ELSE t[i + 1]]
<1>1. n \in Nat /\ k \in 1 .. n /\ DOMAIN t = 1 .. n /\ k - 1 \in Nat /\ n - k \in Nat /\ n - 1 \in Nat
  OBVIOUS
<1>2. \A i \in 1 .. n : t[i] \in R
  OBVIOUS
<1>3. PICK u :
        /\ u \in Seq(R) /\ Len(u) = n - 1 /\ DOMAIN u = 1 .. n - 1
        /\ \A i \in 1 .. k - 1 : u[i] = t[i]
        /\ \A i \in k .. n - 1 : u[i] = t[i + 1]
  <2>1. \A i \in 1 .. n - 1 : shorter[i] \in R
    BY <1>1, <1>2
  <2>2. shorter \in [1 .. n - 1 -> R]
    BY <2>1
  <2>3. /\ \A i \in 1 .. k - 1 : shorter[i] = t[i]
        /\ \A i \in k .. n - 1 : shorter[i] = t[i + 1]
    BY <1>1
  <2> HIDE DEF shorter, n
  <2>4. shorter \in Seq(R) /\ Len(shorter) = n - 1 /\ DOMAIN shorter = 1 .. n - 1
    BY <1>1, <2>2
  <2> QED
    BY <2>3, <2>4
<1>4. /\ \A i \in 1 .. k - 1 : u[i] = t[i]
      /\ \A i \in k .. n - 1 : u[i] = t[i + 1]
  BY <1>3
<1>5. \A i, j \in 1 .. n : t[i] = t[j] => i = j
  BY <1>1 DEF IsInjective
<1> HIDE DEF n
<1>6. \A i \in 1 .. n - 1 : (i \in 1 .. k - 1 \/ i \in k .. n - 1) /\ i \in 1 .. n /\ i + 1 \in 1 .. n
  BY <1>1
<1>7. IsInjective(u)
  <2> SUFFICES ASSUME NEW i \in 1 .. n - 1, NEW j \in 1 .. n - 1, u[i] = u[j] PROVE i = j
    BY <1>3 DEF IsInjective
  <2>1. CASE i \in 1 .. k - 1 /\ j \in 1 .. k - 1
    BY <1>4, <1>5, <1>6, <2>1
  <2>2. CASE i \in k .. n - 1 /\ j \in k .. n - 1
    <3>1. t[i + 1] = t[j + 1]
      BY <1>4, <2>2
    <3>2. i + 1 = j + 1
      BY <1>5, <1>6, <3>1
    <3> QED
      BY <1>1, <3>2
  <2>3. CASE i \in 1 .. k - 1 /\ j \in k .. n - 1
    <3>1. t[i] = t[j + 1]
      BY <1>4, <2>3
    <3>2. i = j + 1
      BY <1>5, <1>6, <3>1
    <3> QED
      BY <1>1, <2>3, <3>2
  <2>4. CASE i \in k .. n - 1 /\ j \in 1 .. k - 1
    <3>1. t[i + 1] = t[j]
      BY <1>4, <2>4
    <3>2. i + 1 = j
      BY <1>5, <1>6, <3>1
    <3> QED
      BY <1>1, <2>4, <3>2
  <2> QED
    BY <1>6, <2>1, <2>2, <2>3, <2>4
<1>8. Range(u) = Range(t) \ {t[k]}
  <2>1. ASSUME NEW i \in 1 .. n - 1 PROVE u[i] \in Range(t) /\ u[i] # t[k]
    <3>1. CASE i \in 1 .. k - 1
      BY <1>1, <1>4, <1>5, <1>6, <3>1 DEF Range
    <3>2. CASE i \in k .. n - 1
      <4>1. u[i] = t[i + 1] /\ i + 1 # k /\ i + 1 \in 1 .. n
        BY <1>1, <1>4, <1>6, <3>2
      <4> QED
        BY <1>1, <1>5, <4>1 DEF Range
    <3> QED
      BY <1>6, <3>1, <3>2
  <2>2. ASSUME NEW i \in 1 .. n, t[i] # t[k] PROVE t[i] \in Range(u)
    <3>1. CASE i < k
      <4>1. i \in 1 .. k - 1 /\ i \in 1 .. n - 1
        BY <1>1, <3>1
      <4> QED
        BY <1>3, <1>4, <4>1 DEF Range
    <3>2. CASE i > k
      <4>1. i - 1 \in k .. n - 1 /\ i - 1 \in 1 .. n - 1 /\ (i - 1) + 1 = i
        BY <1>1, <3>2
      <4>2. u[i - 1] = t[i]
        BY <1>4, <4>1
      <4> QED
        BY <1>3, <4>1, <4>2 DEF Range
    <3>3. i # k /\ i \in Int /\ k \in Int
      BY <1>1, <2>2
    <3> QED
      BY <3>1, <3>2, <3>3
  <2>3. Range(u) \subseteq Range(t) \ {t[k]}
    BY <1>3, <2>1 DEF Range
  <2>4. Range(t) \ {t[k]} \subseteq Range(u)
    BY <1>1, <2>2 DEF Range
  <2> QED
    BY <2>3, <2>4
<1>9. sums(u, a)[n - 1] = sums(t, a)[n] - effect(t[k], a)
  <2> DEFINE f == sums(t, a)
             g == sums(u, a)
  <2>1. g[0 + (k - 1)] - g[0] = f[0 + (k - 1)] - f[0]
    <3>1. SameRows(t, 0, u, 0, k - 1)
      BY <1>1, <1>3, <1>4 DEF n, SameRows
    <3>2. 0 \in Nat /\ k - 1 \in Nat /\ u \in Seq(R)
      BY <1>1, <1>3
    <3> QED
      BY <3>1, <3>2, SameStretch
  <2>2. g[(k - 1) + (n - k)] - g[k - 1] = f[k + (n - k)] - f[k]
    <3>1. (k - 1) + (n - k) <= Len(u) /\ k + (n - k) <= Len(t)
      BY <1>1, <1>3 DEF n
    <3>2. ASSUME NEW i \in 1 .. n - k PROVE u[(k - 1) + i] = t[k + i]
      <4>1. (k - 1) + i \in k .. n - 1 /\ ((k - 1) + i) + 1 = k + i
        BY <1>1
      <4> QED
        BY <1>4, <4>1
    <3>3. k - 1 \in Nat /\ k \in Nat /\ n - k \in Nat /\ u \in Seq(R)
      BY <1>1, <1>3
    <3>4. SameRows(t, k, u, k - 1, n - k)
      BY <3>1, <3>2 DEF SameRows
    <3> QED
      BY <3>3, <3>4, SameStretch
  <2>3. /\ f[0] = 0 /\ g[0] = 0 /\ f[k] = f[k - 1] + effect(t[k], a) /\ effect(t[k], a) \in Int
        /\ \A i \in 0 .. n : f[i] \in Int
        /\ \A i \in 0 .. n - 1 : g[i] \in Int
    BY <1>1, <1>3, SumsDef DEF n
  <2> HIDE DEF f, g
  <2>4. g[k - 1] = f[k - 1]
    <3>1. 0 + (k - 1) = k - 1 /\ k - 1 \in 0 .. n /\ k - 1 \in 0 .. n - 1
      BY <1>1
    <3>2. g[k - 1] - 0 = f[k - 1] - 0 /\ g[k - 1] \in Int /\ f[k - 1] \in Int
      BY <2>1, <2>3, <3>1
    <3> QED
      BY <3>2
  <2>5. g[n - 1] - g[k - 1] = f[n] - f[k]
    <3>1. (k - 1) + (n - k) = n - 1 /\ k + (n - k) = n
      BY <1>1
    <3> QED
      BY <2>2, <3>1
  <2>6. g[n - 1] \in Int /\ f[n] \in Int /\ f[k - 1] \in Int
    BY <1>1, <2>3
  <2>7. g[n - 1] = f[n] - effect(t[k], a)
    <3>1. g[n - 1] - f[k - 1] = f[n] - (f[k - 1] + effect(t[k], a))
      BY <2>3, <2>4, <2>5, Zenon
    <3>2. PICK w \in Int : w = g[n - 1]
      BY <2>6
    <3>3. PICK x \in Int : x = f[n]
      BY <2>6
    <3>4. PICK y \in Int : y = f[k - 1]
      BY <2>6
    <3>5. PICK z \in Int : z = effect(t[k], a)
      BY <2>3
    <3>6. w - y = x - (y + z)
      BY <3>1, <3>2, <3>3, <3>4, <3>5, Zenon
    <3>7. w = x - z
      BY <3>6
    <3> QED
      BY <3>2, <3>3, <3>5, <3>7, Zenon
  <2> QED
    BY <2>7 DEF f, g
<1> QED
  BY <1>3, <1>7, <1>8, <1>9 DEF n, Shortened

\* Whatever their order, the same rows add up to the same.
LEMMA AnyOrder ==
  ASSUME NEW R, IntegerRows(R), NEW a, NEW s \in Seq(R), NEW t \in Seq(R), Len(s) = Len(t),
         IsInjective(s), IsInjective(t), Range(s) = Range(t)
  PROVE  sums(s, a)[Len(s)] = sums(t, a)[Len(t)]
<1> DEFINE Same(n) == \A u, v \in Seq(R) :
                        /\ Len(u) = n /\ Len(v) = n
                        /\ IsInjective(u) /\ IsInjective(v) /\ Range(u) = Range(v)
                        => sums(u, a)[n] = sums(v, a)[n]
           Bad == {n \in Nat : ~ Same(n)}
<1>1. ASSUME NEW n \in Nat, ~ Same(n), \A m \in Bad : n <= m
      PROVE  FALSE
  <2>1. PICK u \in Seq(R), v \in Seq(R) :
          /\ Len(u) = n /\ Len(v) = n
          /\ IsInjective(u) /\ IsInjective(v) /\ Range(u) = Range(v)
          /\ sums(u, a)[n] # sums(v, a)[n]
    BY <1>1
  <2> HIDE DEF Same
  <2>2. n # 0
    BY <2>1, SumsDef
  <2>3. n \in 1 .. Len(u) /\ n - 1 \in Nat /\ DOMAIN u = 1 .. n /\ DOMAIN v = 1 .. n
    BY <2>1, <2>2
  <2>4. PICK p : p = u[n] /\ p \in Range(u) /\ p \in Range(v)
    BY <2>1, <2>3 DEF Range
  <2>5. PICK u1 \in Seq(R) : Shortened(u1, u, p, a)
    BY <2>1, <2>4, Without
  <2>6. PICK v1 \in Seq(R) : Shortened(v1, v, p, a)
    BY <2>1, <2>4, Without
  <2>7. n - 1 \notin Bad
    <3> HIDE DEF Bad
    <3> QED
      BY <1>1, <2>3
  <2>8. Same(n - 1)
    BY <2>3, <2>7
  <2>9. sums(u1, a)[n - 1] = sums(v1, a)[n - 1]
    <3>1. /\ Len(u1) = n - 1 /\ Len(v1) = n - 1 /\ Range(u1) = Range(v1)
          /\ IsInjective(u1) /\ IsInjective(v1)
      BY <2>1, <2>5, <2>6 DEF Shortened
    <3> QED
      BY <2>8, <3>1 DEF Same
  <2>10. /\ sums(u, a)[n] \in Int /\ sums(v, a)[n] \in Int
         /\ effect(p, a) \in Int
    <3>1. /\ \A i \in 0 .. Len(u) : sums(u, a)[i] \in Int
          /\ \A i \in 1 .. Len(u) : effect(u[i], a) \in Int
      BY SumsDef
    <3>2. \A i \in 0 .. Len(v) : sums(v, a)[i] \in Int
      BY SumsDef
    <3> QED
      BY <2>1, <2>3, <2>4, <3>1, <3>2
  <2>11. sums(u, a)[n] - effect(p, a) = sums(v, a)[n] - effect(p, a)
    BY <2>1, <2>3, <2>5, <2>6, <2>9 DEF Shortened
  <2>12. sums(u, a)[n] = sums(v, a)[n]
    BY <2>10, <2>11
  <2> QED
    BY <2>1, <2>12
<1>2. Bad = {}
  <2>1. Bad \subseteq Nat
    OBVIOUS
  <2>2. \A n \in Bad : n \in Nat /\ ~ Same(n)
    OBVIOUS
  <2> HIDE DEF Bad, Same
  <2> QED
    BY <1>1, <2>1, <2>2, LeastNatural
<1>3. Len(s) \in Nat
  OBVIOUS
<1>4. Same(Len(s))
  <2> HIDE DEF Same
  <2> QED
    BY <1>2, <1>3
<1> QED
  BY <1>4

-----------------------------------------------------------------------------
\* What a set of rows adds up to

\* s lists each row of S once.
Lists(s, S) == s \in Seq(S) /\ IsInjective(s) /\ Range(s) = S

\* The sum of the rows of S, listed in some order.
total(S, a) == compute_balance(entries(CHOOSE s : Lists(s, S), a), a)

LEMMA ListExists ==
  ASSUME NEW S, IsFiniteSet(S)
  PROVE  \E s : Lists(s, S)
<1> DEFINE n == Cardinality(S)
<1>1. n \in Nat /\ ExistsBijection(1 .. n, S)
  BY FS_CardinalityType
<1>2. PICK s \in [1 .. n -> S] : /\ \A i, j \in 1 .. n : s[i] = s[j] => i = j
                                 /\ \A p \in S : \E i \in 1 .. n : s[i] = p
  BY <1>1 DEF ExistsBijection, Bijection, Injection, Surjection, IsInjective
<1> HIDE DEF n
<1>3. s \in Seq(S) /\ DOMAIN s = 1 .. n
  BY <1>1
<1>4. IsInjective(s)
  BY <1>2, <1>3 DEF IsInjective
<1>5. Range(s) = S
  BY <1>2, <1>3 DEF Range
<1> QED
  BY <1>3, <1>4, <1>5 DEF Lists

\* Lists of one set are equally long.
LEMMA ListLength ==
  ASSUME NEW S, NEW s, Lists(s, S)
  PROVE  Len(s) = Cardinality(S) /\ Len(s) \in Nat /\ IsFiniteSet(S)
<1>1. s \in Seq(S) /\ DOMAIN s = 1 .. Len(s) /\ Len(s) \in Nat
  BY DEF Lists
<1>2. s \in Bijection(1 .. Len(s), S)
  BY <1>1 DEF Lists, Bijection, Injection, Surjection, IsInjective, Range
<1>3. ExistsBijection(1 .. Len(s), S)
  BY <1>2 DEF ExistsBijection
<1> QED
  BY <1>1, <1>3, FS_CountingElements, FS_NatBijection

\* All lists of a set add up to its total.
LEMMA TotalOf ==
  ASSUME NEW R, IntegerRows(R), NEW a
  PROVE  \A S \in SUBSET R : \A s : Lists(s, S) =>
           total(S, a) = sums(s, a)[Len(s)] /\ total(S, a) \in Int
<1> SUFFICES ASSUME NEW S \in SUBSET R, NEW s, Lists(s, S)
             PROVE  total(S, a) = sums(s, a)[Len(s)] /\ total(S, a) \in Int
  OBVIOUS
<1> DEFINE t == CHOOSE t : Lists(t, S)
<1>1. Lists(t, S)
  OBVIOUS
<1> HIDE DEF t
<1>2. Len(s) = Len(t)
  BY <1>1, ListLength
<1>3. s \in Seq(R) /\ t \in Seq(R)
  BY <1>1 DEF Lists
<1>4. sums(s, a)[Len(s)] = sums(t, a)[Len(t)]
  BY <1>1, <1>2, <1>3, AnyOrder DEF Lists
<1>5. total(S, a) = sums(t, a)[Len(t)]
  BY <1>3, SumsDef DEF total, t
<1>6. sums(s, a)[Len(s)] \in Int
  <2>1. Len(s) \in 0 .. Len(s)
    BY <1>3
  <2> QED
    BY <1>3, <2>1, SumsDef
<1> QED
  BY <1>4, <1>5, <1>6

LEMMA TotalType ==
  ASSUME NEW R, IntegerRows(R), NEW a, NEW S \in SUBSET R, IsFiniteSet(S)
  PROVE  total(S, a) \in Int
<1>1. \E s : Lists(s, S)
  BY ListExists
<1> QED
  BY <1>1, TotalOf

LEMMA TotalOfNone ==
  ASSUME NEW a
  PROVE  total({}, a) = 0
<1>1. Lists(<< >>, {})
  BY DEF Lists, IsInjective, Range
<1>2. IntegerRows({})
  BY DEF IntegerRows
<1>3. << >> \in Seq({}) /\ Len(<< >>) = 0
  OBVIOUS
<1>4. sums(<< >>, a)[0] = 0
  BY <1>2, <1>3, SumsDef
<1> QED
  BY <1>1, <1>2, <1>3, <1>4, TotalOf

LEMMA TotalOfOne ==
  ASSUME NEW R, IntegerRows(R), NEW a, NEW p \in R
  PROVE  total({p}, a) = effect(p, a) /\ effect(p, a) \in Int
<1> DEFINE s == << p >>
<1>1. s \in Seq({p}) /\ Len(s) = 1 /\ s[1] = p /\ DOMAIN s = 1 .. 1
  OBVIOUS
<1>2. s \in Seq(R)
  OBVIOUS
<1> HIDE DEF s
<1>3. Lists(s, {p})
  BY <1>1 DEF Lists, IsInjective, Range
<1>4. sums(s, a)[0] = 0 /\ sums(s, a)[1] = sums(s, a)[1 - 1] + effect(s[1], a) /\ effect(s[1], a) \in Int
  <2>1. /\ sums(s, a)[0] = 0
        /\ \A n \in 1 .. Len(s) : sums(s, a)[n] = sums(s, a)[n - 1] + effect(s[n], a)
        /\ \A n \in 1 .. Len(s) : effect(s[n], a) \in Int
    BY <1>2, SumsDef
  <2>2. 1 \in 1 .. Len(s)
    BY <1>1
  <2> QED
    BY <2>1, <2>2
<1>5. {p} \in SUBSET R
  OBVIOUS
<1>6. total({p}, a) = sums(s, a)[1]
  BY <1>1, <1>3, <1>5, TotalOf
<1> QED
  BY <1>1, <1>4, <1>6

\* Totals of disjoint sets add up.
LEMMA TotalOfUnion ==
  ASSUME NEW R, IntegerRows(R), NEW a, NEW S \in SUBSET R, NEW T \in SUBSET R,
         IsFiniteSet(S), IsFiniteSet(T), S \cap T = {}
  PROVE  total(S \cup T, a) = total(S, a) + total(T, a)
<1>1. PICK s : Lists(s, S)
  BY ListExists
<1>2. PICK t : Lists(t, T)
  BY ListExists
<1> DEFINE m == Len(s)
           n == Len(t)
           both == [i \in 1 .. m + n |-> IF i <= m THEN s[i] ELSE t[i - m]]
<1>3. /\ m \in Nat /\ n \in Nat /\ DOMAIN s = 1 .. m /\ DOMAIN t = 1 .. n
      /\ s \in Seq(R) /\ t \in Seq(R)
      /\ Range(s) = S /\ Range(t) = T
  BY <1>1, <1>2 DEF Lists
<1>4. /\ \A i \in 1 .. m : s[i] \in S
      /\ \A i \in 1 .. n : t[i] \in T
  BY <1>3 DEF Range
<1>5. /\ \A i, j \in 1 .. m : s[i] = s[j] => i = j
      /\ \A i, j \in 1 .. n : t[i] = t[j] => i = j
  BY <1>1, <1>2, <1>3 DEF Lists, IsInjective
<1> HIDE DEF m, n
<1>6. PICK u : /\ u \in Seq(S \cup T) /\ Len(u) = m + n /\ DOMAIN u = 1 .. m + n
               /\ \A i \in 1 .. m + n : u[i] = IF i <= m THEN s[i] ELSE t[i - m]
  <2>1. ASSUME NEW i \in 1 .. m + n PROVE both[i] \in S \cup T
    <3>1. CASE i <= m
      BY <1>3, <1>4, <3>1
    <3>2. CASE ~ i <= m
      <4>1. i - m \in 1 .. n
        BY <1>3, <3>2
      <4> QED
        BY <1>4, <3>2, <4>1
    <3> QED
      BY <3>1, <3>2
  <2>2. both \in [1 .. m + n -> S \cup T]
    BY <2>1
  <2>3. \A i \in 1 .. m + n : both[i] = IF i <= m THEN s[i] ELSE t[i - m]
    OBVIOUS
  <2> HIDE DEF both
  <2>4. m + n \in Nat
    BY <1>3
  <2>5. both \in Seq(S \cup T) /\ Len(both) = m + n /\ DOMAIN both = 1 .. m + n
    BY <2>2, <2>4
  <2> QED
    BY <2>3, <2>5
<1>7. \A i \in 1 .. m + n : \/ i \in 1 .. m /\ u[i] = s[i] /\ u[i] \in S
                            \/ i - m \in 1 .. n /\ u[i] = t[i - m] /\ u[i] \in T
  <2> SUFFICES ASSUME NEW i \in 1 .. m + n
               PROVE  \/ i \in 1 .. m /\ u[i] = s[i] /\ u[i] \in S
                      \/ i - m \in 1 .. n /\ u[i] = t[i - m] /\ u[i] \in T
    OBVIOUS
  <2>1. CASE i <= m
    <3>1. i \in 1 .. m
      BY <1>3, <2>1
    <3> QED
      BY <1>4, <1>6, <2>1, <3>1
  <2>2. CASE ~ i <= m
    <3>1. i - m \in 1 .. n
      BY <1>3, <2>2
    <3> QED
      BY <1>4, <1>6, <2>2, <3>1
  <2> QED
    BY <2>1, <2>2
<1>8. IsInjective(u)
  <2> SUFFICES ASSUME NEW i \in 1 .. m + n, NEW j \in 1 .. m + n, u[i] = u[j] PROVE i = j
    BY <1>6 DEF IsInjective
  <2>1. CASE i \in 1 .. m /\ u[i] = s[i] /\ u[i] \in S
    <3>1. ~ u[j] \in T
      BY <2>1
    <3>2. j \in 1 .. m /\ u[j] = s[j]
      BY <1>7, <3>1
    <3> QED
      BY <1>5, <2>1, <3>2
  <2>2. CASE i - m \in 1 .. n /\ u[i] = t[i - m] /\ u[i] \in T
    <3>1. ~ u[j] \in S
      BY <2>2
    <3>2. j - m \in 1 .. n /\ u[j] = t[j - m]
      BY <1>7, <3>1
    <3>3. t[i - m] = t[j - m]
      BY <2>2, <3>2
    <3>4. i - m = j - m
      BY <1>5, <2>2, <3>2, <3>3
    <3> QED
      BY <1>3, <3>4
  <2> QED
    BY <1>7, <2>1, <2>2
<1>9. Range(u) = S \cup T
  <2>1. Range(u) \subseteq S \cup T
    BY <1>6, <1>7 DEF Range
  <2>2. ASSUME NEW i \in 1 .. m PROVE s[i] \in Range(u)
    <3>1. i \in 1 .. m + n /\ i <= m
      BY <1>3
    <3> QED
      BY <1>6, <3>1 DEF Range
  <2>3. ASSUME NEW i \in 1 .. n PROVE t[i] \in Range(u)
    <3>1. m + i \in 1 .. m + n /\ ~ m + i <= m /\ (m + i) - m = i
      BY <1>3
    <3>2. u[m + i] = t[i]
      BY <1>6, <3>1
    <3> QED
      BY <1>6, <3>1, <3>2 DEF Range
  <2>4. S \subseteq Range(u)
    BY <1>3, <2>2 DEF Range
  <2>5. T \subseteq Range(u)
    BY <1>3, <2>3 DEF Range
  <2> QED
    BY <2>1, <2>4, <2>5
<1>10. Lists(u, S \cup T)
  BY <1>6, <1>8, <1>9 DEF Lists
<1>11. u \in Seq(R) /\ m <= Len(u) /\ m + n <= Len(u) /\ m = Len(s) /\ n = Len(t)
  BY <1>3, <1>6 DEF m, n
<1>12. SameRows(s, 0, u, 0, m)
  <2>1. \A i \in 1 .. m : u[0 + i] = s[0 + i]
    BY <1>3, <1>6
  <2> QED
    BY <1>3, <1>11, <2>1 DEF SameRows
<1>13. SameRows(t, 0, u, m, n)
  <2>1. ASSUME NEW i \in 1 .. n PROVE u[m + i] = t[0 + i]
    <3>1. m + i \in 1 .. m + n /\ ~ m + i <= m /\ (m + i) - m = i /\ 0 + i = i
      BY <1>3
    <3> QED
      BY <1>6, <3>1
  <2> QED
    BY <1>3, <1>11, <2>1 DEF SameRows
<1>14. sums(u, a)[0 + m] - sums(u, a)[0] = sums(s, a)[0 + m] - sums(s, a)[0]
  BY <1>3, <1>11, <1>12, SameStretch
<1>15. sums(u, a)[m + n] - sums(u, a)[m] = sums(t, a)[0 + n] - sums(t, a)[0]
  BY <1>3, <1>11, <1>13, SameStretch
<1>16. sums(u, a)[0] = 0 /\ sums(s, a)[0] = 0 /\ sums(t, a)[0] = 0
  BY <1>3, <1>11, SumsDef
<1>17. 0 + m = m /\ 0 + n = n
  BY <1>3
<1>18. total(S, a) = sums(s, a)[m] /\ total(S, a) \in Int
  BY <1>1, TotalOf DEF m
<1>19. total(T, a) = sums(t, a)[n] /\ total(T, a) \in Int
  BY <1>2, TotalOf DEF n
<1>20. total(S \cup T, a) = sums(u, a)[m + n] /\ total(S \cup T, a) \in Int
  <2> S \cup T \in SUBSET R
    OBVIOUS
  <2> QED
    BY <1>6, <1>10, TotalOf
<1>21. sums(u, a)[m] \in Int
  <2>1. m \in 0 .. Len(u)
    BY <1>3, <1>11
  <2> QED
    BY <1>11, <2>1, SumsDef
<1>22. PICK x \in Int : x = total(S, a)
  BY <1>18
<1>23. PICK y \in Int : y = total(T, a)
  BY <1>19
<1>24. PICK z \in Int : z = total(S \cup T, a)
  BY <1>20
<1>25. PICK w \in Int : w = sums(u, a)[m]
  BY <1>21
<1>26. w - 0 = x - 0
  BY <1>14, <1>16, <1>17, <1>18, <1>22, <1>25, Zenon
<1>27. z - w = y - 0
  BY <1>15, <1>16, <1>17, <1>19, <1>20, <1>23, <1>24, <1>25, Zenon
<1>28. z = x + y
  BY <1>26, <1>27
<1> QED
  BY <1>22, <1>23, <1>24, <1>28, Zenon

-----------------------------------------------------------------------------
\* The invariant of the rows

\* Rows of a among the first n commits.
until(j, n, a) == {j[i] : i \in {k \in 1 .. n : concerns(j[k], a)}}

\* Rows have ids and entries of their own and the time their transaction began.
Genuine ==
  /\ \A i \in DOMAIN journal :
       /\ journal[i].from # journal[i].to
       /\ created_at[journal[i].id] = journal[i].created_at
  /\ \A i, j \in DOMAIN journal :
       journal[i].id = journal[j].id \/ journal[i].entry_id = journal[j].entry_id => i = j

\* Balances are those of the rows, and none has ever been negative.
Sound ==
  \A a \in Accounts :
    /\ balance[a] = total(until(journal, Len(journal), a), a)
    /\ get_balance(a) = balance[a]
    /\ a \notin Overdrawable =>
         \A n \in 0 .. Len(journal) : total(until(journal, n, a), a) >= 0

LedgerTypes ==
  /\ clock \in 1 .. LastInstant
  /\ created_at \in [Transactions -> 0 .. LastInstant]
  /\ balance \in [Accounts -> Int]
  /\ journal \in Seq(Rows)

RowsInv == LedgerTypes /\ Genuine /\ Sound

LEMMA AmountsOfRows == IntegerRows(Rows)
<1> SUFFICES ASSUME NEW p \in Rows PROVE p.amount \in Int
  BY DEF IntegerRows
<1>1. p.amount \in Amounts
  BY DEF Rows
<1>2. p.amount \in Nat
  BY <1>1, AmountsAssumption, Zenon
<1> QED
  BY <1>2

LEMMA UntilFinite ==
  ASSUME NEW j \in Seq(Rows), NEW n \in 0 .. Len(j), NEW a
  PROVE  until(j, n, a) \in SUBSET Rows /\ IsFiniteSet(until(j, n, a))
<1>1. until(j, n, a) \subseteq Rows
  BY DEF until
<1> DEFINE K == {k \in 1 .. n : concerns(j[k], a)}
           f == [k \in K |-> j[k]]
<1>2. IsFiniteSet(K)
  <2>1. IsFiniteSet(1 .. n)
    BY FS_Interval
  <2> QED
    BY <2>1, FS_Subset
<1>3. f \in Surjection(K, until(j, n, a))
  BY DEF Surjection, until
<1> HIDE DEF K, f
<1> QED
  BY <1>1, <1>2, <1>3, FS_Surjection

LEMMA UntilNone ==
  ASSUME NEW j, NEW a
  PROVE  until(j, 0, a) = {}
BY DEF until

\* A commit adds its row at the end.
LEMMA UntilAppend ==
  ASSUME NEW j \in Seq(Rows), NEW p \in Rows, NEW a
  PROVE  /\ \A n \in 0 .. Len(j) : until(Append(j, p), n, a) = until(j, n, a)
         /\ until(Append(j, p), Len(j) + 1, a) =
              until(j, Len(j), a) \cup (IF concerns(p, a) THEN {p} ELSE {})
<1> DEFINE N == Len(j)
           l == Append(j, p)
<1>1. N \in Nat /\ l[N + 1] = p /\ \A i \in 1 .. N : l[i] = j[i]
  OBVIOUS
<1> HIDE DEF l, N
<1>2. ASSUME NEW n \in 0 .. N PROVE until(l, n, a) = until(j, n, a)
  <2>1. \A k \in 1 .. n : l[k] = j[k]
    BY <1>1
  <2> QED
    BY <2>1 DEF until
<1>3. until(l, N + 1, a) = until(l, N, a) \cup (IF concerns(p, a) THEN {p} ELSE {})
  <2>1. \A k : k \in 1 .. N + 1 <=> k \in 1 .. N \/ k = N + 1
    BY <1>1
  <2>2. CASE concerns(p, a)
    <3>1. \A x : x \in until(l, N + 1, a) <=> x \in until(l, N, a) \/ x = p
      BY <1>1, <2>1, <2>2 DEF until
    <3> QED
      BY <2>2, <3>1
  <2>3. CASE ~ concerns(p, a)
    <3>1. \A x : x \in until(l, N + 1, a) <=> x \in until(l, N, a)
      BY <1>1, <2>1, <2>3 DEF until
    <3> QED
      BY <2>3, <3>1
  <2> QED
    BY <2>2, <2>3
<1>4. N \in 0 .. N
  BY <1>1
<1> QED
  BY <1>2, <1>3, <1>4 DEF l, N

\* What a row does to the balance of each of its ends.
LEMMA EffectIs ==
  ASSUME NEW p \in Rows, p.from # p.to, NEW a
  PROVE  /\ effect(p, a) = (IF a = p.to THEN p.amount ELSE 0) - (IF a = p.from THEN p.amount ELSE 0)
         /\ ~ concerns(p, a) => effect(p, a) = 0
         /\ p.amount \in Nat
<1>1. p.amount \in Nat
  BY AmountsAssumption DEF Rows
<1>2. CASE a = p.to
  BY <1>1, <1>2 DEF effect, share, entry, concerns
<1>3. CASE a = p.from
  BY <1>1, <1>3 DEF effect, share, entry, concerns
<1>4. CASE a # p.to /\ a # p.from
  BY <1>1, <1>4 DEF effect, share, entry, concerns
<1> QED
  BY <1>1, <1>2, <1>3, <1>4

LEMMA LedgerInit == ReadsInit => RowsInv
<1> SUFFICES ASSUME ReadsInit PROVE RowsInv
  OBVIOUS
<1>1. journal = << >> /\ balance = [a \in Accounts |-> 0] /\ Len(journal) = 0
  BY DEF ReadsInit, L!Init
<1>2. LedgerTypes
  BY <1>1, TimeAssumption DEF ReadsInit, LedgerTypes
<1>3. Genuine
  BY <1>1 DEF Genuine
<1>4. ASSUME NEW a \in Accounts
      PROVE  /\ total(until(journal, 0, a), a) = 0
             /\ get_balance(a) = 0
  <2>1. total(until(journal, 0, a), a) = 0
    BY UntilNone, TotalOfNone
  <2>2. get_balance(a) = 0
    <3>1. entries(journal, a) = << >>
      BY <1>1 DEF entries
    <3> QED
      BY <3>1, BalanceOfNone DEF get_balance
  <2> QED
    BY <2>1, <2>2
<1>5. Sound
  <2>1. \A n \in 0 .. Len(journal) : n = 0
    BY <1>1
  <2> QED
    BY <1>1, <1>4, <2>1 DEF Sound
<1> QED
  BY <1>2, <1>3, <1>5 DEF RowsInv

\* A commit appends a row of a transaction that had begun.
LEMMA Committed ==
  ASSUME LedgerTypes, NEW t \in Transactions, Commit(t)
  PROVE  \E p \in Rows :
           /\ p.id = t /\ p.from # p.to /\ p.created_at = created_at[t] /\ created_at[t] # 0
           /\ \A q \in committed : q.id # t /\ q.entry_id # p.entry_id
           /\ p.from \in Overdrawable \/ balance[p.from] >= p.amount
           /\ balance' = [a \in Accounts |->
                balance[a] - (IF a = p.from THEN p.amount ELSE 0)
                           + (IF a = p.to THEN p.amount ELSE 0)]
           /\ journal' = Append(journal, p)
<1>1. PICK p \in postable(t) : L!Post(p)
  BY DEF Commit
<1>2. /\ p \in [id : {t}, key : {t}, type : Types, from : Accounts, to : Accounts,
                amount : Amounts, created_at : {stamp(t)},
                entry_id : 1 .. Cardinality(Transactions) \ {q.entry_id : q \in committed}]
      /\ p.from # p.to
  BY DEF postable
<1>3. created_at[t] \in 1 .. LastInstant
  <2>1. created_at[t] \in 0 .. LastInstant /\ created_at[t] # 0
    BY DEF LedgerTypes, Commit
  <2> QED
    BY <2>1, TimeAssumption
<1>4. p \in Rows
  BY <1>2, <1>3 DEF Rows, stamp
<1>5. p.id = t /\ p.created_at = created_at[t] /\ \A q \in committed : q.entry_id # p.entry_id
  BY <1>2 DEF stamp
<1> QED
  BY <1>1, <1>2, <1>3, <1>4, <1>5 DEF Commit, L!Post

LEMMA LedgerCommit ==
  ASSUME RowsInv, NEW t \in Transactions, Commit(t)
  PROVE  RowsInv'
<1>1. PICK p \in Rows :
        /\ p.id = t /\ p.from # p.to /\ p.created_at = created_at[t] /\ created_at[t] # 0
        /\ \A q \in committed : q.id # t /\ q.entry_id # p.entry_id
        /\ p.from \in Overdrawable \/ balance[p.from] >= p.amount
        /\ balance' = [a \in Accounts |->
             balance[a] - (IF a = p.from THEN p.amount ELSE 0)
                        + (IF a = p.to THEN p.amount ELSE 0)]
        /\ journal' = Append(journal, p)
  BY Committed DEF RowsInv
<1> DEFINE N == Len(journal)
<1>2. /\ journal \in Seq(Rows) /\ N \in Nat /\ DOMAIN journal = 1 .. N
      /\ journal' \in Seq(Rows) /\ Len(journal') = N + 1 /\ DOMAIN journal' = 1 .. N + 1
      /\ journal'[N + 1] = p /\ \A i \in 1 .. N : journal'[i] = journal[i]
  BY <1>1 DEF RowsInv, LedgerTypes
<1>3. UNCHANGED <<clock, created_at>>
  BY DEF Commit
<1>4. p.amount \in Nat
  BY <1>1, EffectIs
<1>5. balance \in [Accounts -> Int]
  BY DEF RowsInv, LedgerTypes
<1>6. LedgerTypes'
  <2>1. balance' \in [Accounts -> Int]
    BY <1>1, <1>4, <1>5
  <2> QED
    BY <1>2, <1>3, <2>1 DEF RowsInv, LedgerTypes
<1> HIDE DEF N
<1>7. Genuine'
  <2>1. \A i \in 1 .. N + 1 : i \in 1 .. N \/ i = N + 1
    BY <1>2
  <2>2. \A i \in 1 .. N : journal[i] \in committed
    BY <1>2 DEF committed, Range
  <2>3. \A i \in 1 .. N : journal[i].id # p.id /\ journal[i].entry_id # p.entry_id
    BY <1>1, <2>2
  <2>4. /\ \A i \in 1 .. N :
             /\ journal[i].from # journal[i].to
             /\ created_at[journal[i].id] = journal[i].created_at
        /\ \A i, j \in 1 .. N :
             journal[i].id = journal[j].id \/ journal[i].entry_id = journal[j].entry_id => i = j
    BY <1>2 DEF RowsInv, Genuine
  <2>5. \A i \in 1 .. N + 1 :
             /\ journal'[i].from # journal'[i].to
             /\ created_at[journal'[i].id] = journal'[i].created_at
    BY <1>1, <1>2, <2>1, <2>4
  <2>6. ASSUME NEW i \in 1 .. N + 1, NEW j \in 1 .. N + 1,
               journal'[i].id = journal'[j].id \/ journal'[i].entry_id = journal'[j].entry_id
        PROVE  i = j
    <3>1. CASE i \in 1 .. N /\ j \in 1 .. N
      BY <1>2, <2>4, <2>6, <3>1
    <3>2. CASE i \in 1 .. N /\ j = N + 1
      BY <1>2, <2>3, <2>6, <3>2
    <3>3. CASE i = N + 1 /\ j \in 1 .. N
      BY <1>2, <2>3, <2>6, <3>3
    <3> QED
      BY <2>1, <3>1, <3>2, <3>3
  <2> QED
    BY <1>2, <1>3, <2>5, <2>6 DEF Genuine
<1>8. ASSUME NEW a \in Accounts
      PROVE  /\ balance'[a] = total(until(journal', N + 1, a), a)
             /\ get_balance(a)' = balance'[a]
             /\ a \notin Overdrawable => balance'[a] >= 0
             /\ \A n \in 0 .. N : until(journal', n, a) = until(journal, n, a)
             /\ balance[a] \in Int
  <2>1. /\ balance[a] = total(until(journal, N, a), a)
        /\ get_balance(a) = balance[a]
        /\ a \notin Overdrawable => total(until(journal, N, a), a) >= 0
    <3>1. N \in 0 .. N
      BY <1>2
    <3> QED
      BY <3>1 DEF RowsInv, Sound, N
  <2>2. balance[a] \in Int
    BY <1>5
  <2>3. /\ effect(p, a) = (IF a = p.to THEN p.amount ELSE 0) - (IF a = p.from THEN p.amount ELSE 0)
        /\ ~ concerns(p, a) => effect(p, a) = 0
    BY <1>1, EffectIs
  <2>4. effect(p, a) \in Int /\ balance'[a] = balance[a] + effect(p, a)
    <3>1. balance'[a] = balance[a] - (IF a = p.from THEN p.amount ELSE 0)
                                   + (IF a = p.to THEN p.amount ELSE 0)
      BY <1>1
    <3> QED
      BY <1>4, <2>2, <2>3, <3>1
  <2>5. /\ \A n \in 0 .. N : until(journal', n, a) = until(journal, n, a)
        /\ until(journal', N + 1, a) =
             until(journal, N, a) \cup (IF concerns(p, a) THEN {p} ELSE {})
    <3>1. /\ \A n \in 0 .. Len(journal) : until(Append(journal, p), n, a) = until(journal, n, a)
          /\ until(Append(journal, p), Len(journal) + 1, a) =
               until(journal, Len(journal), a) \cup (IF concerns(p, a) THEN {p} ELSE {})
      BY <1>2, UntilAppend
    <3> QED
      BY <1>1, <3>1 DEF N
  <2>6. until(journal, N, a) \in SUBSET Rows /\ IsFiniteSet(until(journal, N, a))
    <3>1. N \in 0 .. Len(journal)
      BY <1>2 DEF N
    <3> QED
      BY <1>2, <3>1, UntilFinite
  <2>7. total(until(journal', N + 1, a), a) = balance[a] + effect(p, a)
    <3>1. CASE concerns(p, a)
      <4>1. p \notin until(journal, N, a)
        <5>1. \A i \in 1 .. N : journal[i] # p
          BY <1>1, <1>2 DEF committed, Range
        <5> QED
          BY <5>1 DEF until
      <4>2. until(journal', N + 1, a) = until(journal, N, a) \cup {p}
        BY <2>5, <3>1
      <4>3. {p} \in SUBSET Rows /\ IsFiniteSet({p}) /\ until(journal, N, a) \cap {p} = {}
        BY <4>1, FS_Singleton
      <4>4. total(until(journal, N, a) \cup {p}, a)
              = total(until(journal, N, a), a) + total({p}, a)
        <5> DEFINE U == until(journal, N, a)
                   V == {p}
        <5> HIDE DEF U, V
        <5>1. U \in SUBSET Rows /\ V \in SUBSET Rows /\ IsFiniteSet(U) /\ IsFiniteSet(V) /\ U \cap V = {}
          BY <2>6, <4>3 DEF U, V
        <5>2. total(U \cup V, a) = total(U, a) + total(V, a)
          BY <5>1, AmountsOfRows, TotalOfUnion
        <5> QED
          BY <5>2 DEF U, V
      <4>5. total({p}, a) = effect(p, a)
        BY AmountsOfRows, TotalOfOne
      <4> QED
        BY <2>1, <4>2, <4>4, <4>5
    <3>2. CASE ~ concerns(p, a)
      <4>1. until(journal', N + 1, a) = until(journal, N, a)
        BY <2>5, <3>2
      <4> QED
        BY <2>1, <2>2, <2>3, <3>2, <4>1
    <3> QED
      BY <3>1, <3>2
  <2>8. get_balance(a)' = balance[a] + effect(p, a)
    <3> DEFINE es == entries(journal, a)
               E == {entry(q, a) : q \in Rows}
    <3>1. es \in Seq(E) /\ entry(p, a) \in E
      BY <1>2 DEF entries
    <3>2. IntegerAmounts(E)
      <4>1. \A q \in Rows : q.amount \in Int
        BY AmountsOfRows DEF IntegerRows
      <4>2. \A q \in Rows : entry(q, a).amount \in Int
        BY <4>1 DEF entry
      <4> QED
        BY <4>2 DEF IntegerAmounts
    <3>3. entries(journal', a) = Append(es, entry(p, a))
      <4>1. entries(journal', a) = [i \in 1 .. N + 1 |-> entry(journal'[i], a)]
        BY <1>2 DEF entries
      <4>2. es = [i \in 1 .. N |-> entry(journal[i], a)]
        BY <1>2 DEF entries
      <4>3. Len(es) = N
        BY <1>2, <4>2
      <4>4. \A i \in 1 .. N + 1 :
              entry(journal'[i], a) = IF i = N + 1 THEN entry(p, a) ELSE es[i]
        BY <1>2, <4>2
      <4>5. ASSUME NEW f, f = [i \in 1 .. N + 1 |-> entry(journal'[i], a)]
            PROVE  f = Append(es, entry(p, a))
        <5> HIDE DEF es, E
        <5>1. /\ Append(es, entry(p, a)) \in Seq(E) /\ Len(Append(es, entry(p, a))) = N + 1
              /\ \A i \in 1 .. N : Append(es, entry(p, a))[i] = es[i]
              /\ Append(es, entry(p, a))[N + 1] = entry(p, a)
          BY <3>1, <4>3
        <5>2. f \in Seq(E) /\ Len(f) = N + 1
          <6>1. \A i \in 1 .. N + 1 : journal'[i] \in Rows
            BY <1>2
          <6>2. \A i \in 1 .. N + 1 : f[i] \in E
            BY <4>5, <6>1 DEF E
          <6>3. f \in [1 .. N + 1 -> E] /\ N + 1 \in Nat
            BY <1>2, <4>5, <6>2
          <6> QED
            BY <6>3
        <5>3. \A i \in 1 .. N + 1 : f[i] = Append(es, entry(p, a))[i]
          BY <1>2, <4>4, <4>5, <5>1
        <5> QED
          BY <5>1, <5>2, <5>3, SeqEqual
      <4> HIDE DEF es
      <4> QED
        BY <4>1, <4>5
    <3> HIDE DEF E, es
    <3>4. compute_balance(Append(es, entry(p, a)), a) = compute_balance(es, a) + share(entry(p, a), a)
      BY <3>1, <3>2, BalanceOfAppend
    <3>5. get_balance(a)' = compute_balance(entries(journal', a), a)
      BY DEF get_balance
    <3> QED
      BY <2>1, <3>3, <3>4, <3>5 DEF get_balance, es, effect
  <2>9. a \notin Overdrawable => balance'[a] >= 0
    <3> SUFFICES ASSUME a \notin Overdrawable PROVE balance'[a] >= 0
      OBVIOUS
    <3>1. balance[a] >= 0
      BY <2>1
    <3>2. CASE a = p.from
      <4>1. balance[a] >= p.amount
        BY <1>1, <3>2
      <4>2. effect(p, a) = -p.amount
        BY <1>1, <1>4, <2>3, <3>2
      <4> QED
        BY <1>4, <2>2, <2>4, <4>1, <4>2
    <3>3. CASE a # p.from
      <4>1. effect(p, a) >= 0
        BY <1>4, <2>3, <3>3
      <4> QED
        BY <2>2, <2>4, <3>1, <4>1
    <3> QED
      BY <3>2, <3>3
  <2> QED
    BY <2>2, <2>4, <2>5, <2>7, <2>8, <2>9
<1>9. Sound'
  <2>1. ASSUME NEW a \in Accounts, a \notin Overdrawable, NEW n \in 0 .. N + 1
        PROVE  total(until(journal', n, a), a) >= 0
    <3>1. CASE n = N + 1
      BY <1>8, <2>1, <3>1
    <3>2. CASE n # N + 1
      <4>1. n \in 0 .. N
        BY <1>2, <3>2
      <4>2. total(until(journal, n, a), a) >= 0
        BY <2>1, <4>1 DEF RowsInv, Sound, N
      <4> QED
        BY <1>8, <4>1, <4>2
    <3> QED
      BY <3>1, <3>2
  <2> QED
    BY <1>2, <1>8, <2>1 DEF Sound
<1> QED
  BY <1>6, <1>7, <1>9 DEF RowsInv

LEMMA LedgerBegin ==
  ASSUME RowsInv, NEW t \in Transactions, Begin(t)
  PROVE  RowsInv'
<1>1. LedgerTypes'
  <2>1. clock' \in 1 .. LastInstant
    BY TimeAssumption DEF RowsInv, LedgerTypes, Begin
  <2>2. clock' \in 0 .. LastInstant
    BY <2>1, TimeAssumption
  <2>3. created_at' \in [Transactions -> 0 .. LastInstant]
    BY <2>2 DEF RowsInv, LedgerTypes, Begin
  <2> QED
    BY <2>1, <2>3 DEF RowsInv, LedgerTypes, Begin
<1>2. Genuine'
  <2>1. ASSUME NEW i \in DOMAIN journal PROVE created_at'[journal[i].id] = journal[i].created_at
    <3>1. journal[i] \in Rows
      BY DEF RowsInv, LedgerTypes
    <3>2. journal[i].created_at # 0 /\ journal[i].id \in Transactions
      <4>1. journal[i].created_at \in 1 .. LastInstant /\ journal[i].id \in Transactions
        BY <3>1 DEF Rows
      <4> QED
        BY <4>1, TimeAssumption
    <3>3. created_at[journal[i].id] = journal[i].created_at
      BY DEF RowsInv, Genuine
    <3>4. journal[i].id # t
      BY <3>2, <3>3 DEF Begin
    <3> QED
      BY <3>2, <3>3, <3>4 DEF Begin, RowsInv, LedgerTypes
  <2> QED
    BY <2>1 DEF Begin, RowsInv, Genuine
<1>3. Sound'
  BY DEF Begin, RowsInv, Sound, get_balance
<1> QED
  BY <1>1, <1>2, <1>3 DEF RowsInv

LEMMA LedgerStutter ==
  ASSUME RowsInv, UNCHANGED <<clock, created_at, balance, journal>>
  PROVE  RowsInv'
BY DEF RowsInv, LedgerTypes, Genuine, Sound, get_balance

-----------------------------------------------------------------------------
\* Statements

\* A statement lists each of its rows once.
LEMMA InOrderLists ==
  ASSUME NEW rows, IsFiniteSet(rows), NEW s \in in_order(rows)
  PROVE  /\ Lists(s, rows) /\ DOMAIN s = 1 .. Len(s) /\ Len(s) \in Nat
         /\ \A i, j \in 1 .. Len(s) : i < j => ~ older(s[j], s[i])
<1> DEFINE n == Cardinality(rows)
<1>1. n \in Nat
  BY FS_CardinalityType
<1>2. s \in [1 .. n -> rows] /\ IsInjective(s) /\ \A i, j \in DOMAIN s : i < j => ~ older(s[j], s[i])
  BY DEF in_order
<1>3. s \in Injection(1 .. n, rows)
  BY <1>2 DEF Injection
<1>4. Cardinality(1 .. n) = n
  <2> HIDE DEF n
  <2>1. n = 0 => 1 > n
    OBVIOUS
  <2>2. Cardinality(1 .. n) = IF 1 > n THEN 0 ELSE n - 1 + 1
    BY <1>1, FS_Interval
  <2> QED
    BY <1>1, <2>2
<1>5. s \in Surjection(1 .. n, rows)
  BY <1>3, <1>4, FS_Injection
<1> HIDE DEF n
<1>6. s \in Seq(rows) /\ Len(s) = n /\ DOMAIN s = 1 .. n
  BY <1>1, <1>2
<1>7. Range(s) = rows
  BY <1>5, <1>6 DEF Surjection, Range
<1> QED
  BY <1>1, <1>2, <1>6, <1>7 DEF Lists

\* It closes at their total.
LEMMA ClosesAtTotal ==
  ASSUME NEW rows \in SUBSET Rows, IsFiniteSet(rows), NEW a, NEW st \in statements(rows, a)
  PROVE  closing_balance(st) = total(rows, a) /\ total(rows, a) \in Int
<1>1. PICK s \in in_order(rows) :
        st = [i \in DOMAIN s |->
                [transaction_id |-> s[i].id, created_at |-> s[i].created_at,
                 running_balance |-> running_total(entries(s, a), a)[i]]]
  BY DEF statements
<1>2. Lists(s, rows) /\ DOMAIN s = 1 .. Len(s) /\ Len(s) \in Nat
  BY InOrderLists
<1>3. total(rows, a) = sums(s, a)[Len(s)] /\ total(rows, a) \in Int
  BY <1>2, AmountsOfRows, TotalOf
<1>4. s \in Seq(Rows)
  BY <1>2 DEF Lists
<1>5. /\ DOMAIN st = 1 .. Len(s)
      /\ \A i \in 1 .. Len(s) : st[i].running_balance = sums(s, a)[i]
  BY <1>1, <1>2 DEF sums
<1>6. CASE Len(s) = 0
  <2>1. st = << >>
    BY <1>1, <1>2, <1>6
  <2>2. sums(s, a)[0] = 0
    BY <1>4, AmountsOfRows, SumsDef
  <2> QED
    BY <1>3, <1>6, <2>1, <2>2 DEF closing_balance
<1>7. CASE Len(s) # 0
  <2>1. Len(s) \in 1 .. Len(s)
    BY <1>2, <1>7
  <2>2. st # << >>
    BY <1>5, <2>1
  <2>3. Len(st) = Len(s)
    BY <1>1, <1>2
  <2> QED
    BY <1>3, <1>5, <2>1, <2>2, <2>3 DEF closing_balance
<1> QED
  BY <1>6, <1>7

\* The rows that the ledger holds for an account.
LEMMA RowsOf ==
  ASSUME RowsInv, NEW a
  PROVE  /\ {p \in committed : concerns(p, a)} = until(journal, Len(journal), a)
         /\ until(journal, Len(journal), a) \in SUBSET Rows
         /\ IsFiniteSet(until(journal, Len(journal), a))
<1>1. journal \in Seq(Rows) /\ DOMAIN journal = 1 .. Len(journal) /\ Len(journal) \in 0 .. Len(journal)
  BY DEF RowsInv, LedgerTypes
<1>2. {p \in committed : concerns(p, a)} = until(journal, Len(journal), a)
  BY <1>1 DEF committed, Range, until
<1> QED
  BY <1>1, <1>2, UntilFinite

LEMMA LaterDays ==
  ASSUME NEW m \in Nat, NEW n \in Nat, NEW D \in Nat \ {0}, m < n
  PROVE  m * D \in Int /\ n * D \in Int /\ m * D + 1 <= n * D
<1>1. n * D = m * D + (n - m) * D
  OBVIOUS
<1>2. (n - m) * D >= 1
  OBVIOUS
<1> QED
  BY <1>1, <1>2

LEMMA LedgerStatements ==
  ASSUME RowsInv
  PROVE  StatementsAddUp
<1> SUFFICES ASSUME NEW a \in Accounts
             PROVE
    /\ \A st \in get_statement(a, Unset, Unset) : closing_balance(st) = get_balance(a)
    /\ \A first, middle, last \in Days :
         first <= middle /\ middle < last =>
           \A st1 \in get_statement(a, first, middle),
              st2 \in get_statement(a, middle + 1, last),
              st \in get_statement(a, first, last),
              missed \in statements({p \in committed :
                              /\ concerns(p, a)
                              /\ p.created_at = last_microsecond(middle)}, a) :
             closing_balance(st) = closing_balance(st1) + closing_balance(st2)
                                                        + closing_balance(missed)
  BY DEF StatementsAddUp
<1> DEFINE all == {p \in committed : concerns(p, a)}
<1>1. all \in SUBSET Rows /\ IsFiniteSet(all) /\ balance[a] = total(all, a) /\ get_balance(a) = balance[a]
  BY RowsOf DEF RowsInv, Sound
<1>2. ASSUME NEW st \in get_statement(a, Unset, Unset)
      PROVE  closing_balance(st) = get_balance(a)
  <2>1. st \in statements(all, a)
    BY DEF get_statement, within
  <2> HIDE DEF all
  <2> QED
    BY <1>1, <2>1, ClosesAtTotal
<1>3. ASSUME NEW first \in Days, NEW middle \in Days, NEW last \in Days,
             first <= middle, middle < last,
             NEW st1 \in get_statement(a, first, middle),
             NEW st2 \in get_statement(a, middle + 1, last),
             NEW st \in get_statement(a, first, last),
             NEW missed \in statements({p \in committed :
                              /\ concerns(p, a)
                              /\ p.created_at = last_microsecond(middle)}, a)
      PROVE  closing_balance(st) = closing_balance(st1) + closing_balance(st2)
                                                        + closing_balance(missed)
  <2> DEFINE A == {p \in all : within(p, first, middle)}
             B == {p \in all : within(p, middle + 1, last)}
             C == {p \in all : within(p, first, last)}
             T == {p \in all : p.created_at = last_microsecond(middle)}
  <2>1. /\ st1 \in statements(A, a) /\ st2 \in statements(B, a) /\ st \in statements(C, a)
        /\ missed \in statements(T, a)
    <3>1. /\ A = {p \in committed : concerns(p, a) /\ within(p, first, middle)}
          /\ B = {p \in committed : concerns(p, a) /\ within(p, middle + 1, last)}
          /\ C = {p \in committed : concerns(p, a) /\ within(p, first, last)}
          /\ T = {p \in committed : concerns(p, a) /\ p.created_at = last_microsecond(middle)}
      OBVIOUS
    <3> HIDE DEF A, B, C, T
    <3> QED
      BY <1>3, <3>1 DEF get_statement
  <2>2. first \in Nat \ {0} /\ middle \in Nat \ {0} /\ last \in Nat \ {0} /\ middle + 1 \in Nat
    BY TimeAssumption DEF Days
  <2>3. first # Unset /\ middle # Unset /\ last # Unset /\ middle + 1 # Unset
    BY <2>2, QueriesAssumption
  <2> DEFINE x == midnight(first)
             y == last_microsecond(middle)
             z == last_microsecond(last)
  <2>4. x \in Int /\ y \in Int /\ z \in Int /\ x <= y /\ y < z /\ midnight(middle + 1) = y + 1
    <3>1. DayLength \in Nat \ {0} /\ first - 1 \in Nat /\ first - 1 < middle
      BY <1>3, <2>2, TimeAssumption
    <3>2. (first - 1) * DayLength \in Int /\ middle * DayLength \in Int
          /\ (first - 1) * DayLength + 1 <= middle * DayLength
      BY <2>2, <3>1, LaterDays
    <3>3. last * DayLength \in Int /\ middle * DayLength + 1 <= last * DayLength
      BY <1>3, <2>2, <3>1, LaterDays
    <3>4. (middle + 1) - 1 = middle
      BY <2>2
    <3>5. x \in Int /\ x <= y
      BY <3>2 DEF midnight, last_microsecond
    <3>6. y \in Int /\ z \in Int /\ y < z
      BY <3>2, <3>3 DEF last_microsecond
    <3>7. midnight(middle + 1) = y + 1
      BY <3>4 DEF midnight, last_microsecond
    <3> QED
      BY <3>5, <3>6, <3>7
  <2>5. \A p \in all : /\ within(p, first, middle) <=> x <= p.created_at /\ p.created_at < y
                       /\ within(p, middle + 1, last) <=> y + 1 <= p.created_at /\ p.created_at < z
                       /\ within(p, first, last) <=> x <= p.created_at /\ p.created_at < z
                       /\ p.created_at \in Int
    <3> SUFFICES ASSUME NEW p \in all
                 PROVE  /\ within(p, first, middle) <=> x <= p.created_at /\ p.created_at < y
                        /\ within(p, middle + 1, last) <=> y + 1 <= p.created_at /\ p.created_at < z
                        /\ within(p, first, last) <=> x <= p.created_at /\ p.created_at < z
                        /\ p.created_at \in Int
      OBVIOUS
    <3> HIDE DEF all
    <3>1. p.created_at \in Int
      <4>1. p \in Rows
        BY <1>1
      <4> QED
        BY <4>1, TimeAssumption DEF Rows
    <3>2. within(p, first, middle) <=> x <= p.created_at /\ p.created_at < y
      BY <2>3, <2>4, <3>1 DEF within
    <3>3. within(p, middle + 1, last) <=> y + 1 <= p.created_at /\ p.created_at < z
      <4> HIDE DEF y, z
      <4>1. within(p, middle + 1, last) <=>
              p.created_at >= midnight(middle + 1) /\ p.created_at < last_microsecond(last)
        BY <2>3 DEF within
      <4>2. p.created_at >= y + 1 <=> y + 1 <= p.created_at
        BY <2>4, <3>1
      <4> QED
        BY <2>4, <4>1, <4>2 DEF z
    <3>4. within(p, first, last) <=> x <= p.created_at /\ p.created_at < z
      BY <2>3, <2>4, <3>1 DEF within
    <3> QED
      BY <3>1, <3>2, <3>3, <3>4
  <2> HIDE DEF x, y, z, all
  <2>6. \A p \in all : /\ p \in C <=> p \in A \/ p \in B \/ p \in T
                       /\ ~ (p \in A /\ p \in B) /\ ~ (p \in A /\ p \in T) /\ ~ (p \in B /\ p \in T)
    BY <2>4, <2>5 DEF y
  <2>7. C = (A \cup B) \cup T /\ A \cap B = {} /\ (A \cup B) \cap T = {}
    BY <2>6
  <2>8. /\ A \in SUBSET Rows /\ B \in SUBSET Rows /\ C \in SUBSET Rows /\ T \in SUBSET Rows
        /\ A \cup B \in SUBSET Rows
    BY <1>1
  <2>9. IsFiniteSet(A) /\ IsFiniteSet(B) /\ IsFiniteSet(C) /\ IsFiniteSet(T) /\ IsFiniteSet(A \cup B)
    <3>1. A \in SUBSET all /\ B \in SUBSET all /\ C \in SUBSET all /\ T \in SUBSET all /\ A \cup B \in SUBSET all
      OBVIOUS
    <3> HIDE DEF A, B, C, T
    <3> QED
      BY <1>1, <3>1, FS_Subset
  <2> HIDE DEF A, B, C, T
  <2>10. closing_balance(st1) = total(A, a) /\ total(A, a) \in Int
    BY <2>1, <2>8, <2>9, ClosesAtTotal
  <2>11. closing_balance(st2) = total(B, a) /\ total(B, a) \in Int
    BY <2>1, <2>8, <2>9, ClosesAtTotal
  <2>12. closing_balance(st) = total(C, a)
    BY <2>1, <2>8, <2>9, ClosesAtTotal
  <2>13. closing_balance(missed) = total(T, a) /\ total(T, a) \in Int
    BY <2>1, <2>8, <2>9, ClosesAtTotal
  <2>14. total(A \cup B, a) = total(A, a) + total(B, a)
    BY <2>7, <2>8, <2>9, AmountsOfRows, TotalOfUnion
  <2>15. total(C, a) = total(A \cup B, a) + total(T, a)
    <3> DEFINE AB == A \cup B
    <3>1. AB \in SUBSET Rows /\ IsFiniteSet(AB) /\ AB \cap T = {} /\ C = AB \cup T
      BY <2>7, <2>8, <2>9
    <3> HIDE DEF AB
    <3>2. total(AB \cup T, a) = total(AB, a) + total(T, a)
      BY <2>8, <2>9, <3>1, AmountsOfRows, TotalOfUnion
    <3> QED
      BY <3>1, <3>2 DEF AB
  <2> QED
    BY <2>10, <2>11, <2>12, <2>13, <2>14, <2>15
<1> QED
  BY <1>2, <1>3

\* A row was committed where the journal has it.
LEMMA CommitOrder ==
  ASSUME RowsInv, NEW i \in DOMAIN journal
  PROVE  commit_order(journal[i].id) = i
<1>1. \A j \in DOMAIN journal : journal[j].id = journal[i].id => j = i
  BY DEF RowsInv, Genuine
<1> QED
  BY <1>1 DEF commit_order

LEMMA LedgerOverdrawn ==
  ASSUME RowsInv
  PROVE  OverdrawnOnlyWhenOvertaken
<1> DEFINE Overtaken(st, i) ==
             \E k \in 1 .. i, j \in i + 1 .. Len(st) :
               /\ commit_order(st[j].transaction_id) < commit_order(st[k].transaction_id)
               /\ st[k].created_at <= st[j].created_at
<1> SUFFICES ASSUME NEW a \in Accounts \ Overdrawable, NEW st \in get_statement(a, Unset, Unset),
                    NEW i \in DOMAIN st, st[i].running_balance < 0, ~ Overtaken(st, i)
             PROVE  FALSE
  BY DEF OverdrawnOnlyWhenOvertaken
<1> DEFINE N == Len(journal)
           rows == until(journal, N, a)
<1>1. rows \in SUBSET Rows /\ IsFiniteSet(rows) /\ st \in statements(rows, a)
  <2>1. {p \in committed : concerns(p, a) /\ within(p, Unset, Unset)} = rows
    BY RowsOf DEF within
  <2> HIDE DEF rows
  <2> QED
    BY <2>1, RowsOf DEF get_statement, rows
<1>2. journal \in Seq(Rows) /\ DOMAIN journal = 1 .. N /\ N \in Nat
  BY DEF RowsInv, LedgerTypes
<1> HIDE DEF rows, N
<1>3. PICK s \in in_order(rows) :
        st = [x \in DOMAIN s |->
                [transaction_id |-> s[x].id, created_at |-> s[x].created_at,
                 running_balance |-> running_total(entries(s, a), a)[x]]]
  BY <1>1 DEF statements
<1>4. /\ Lists(s, rows) /\ DOMAIN s = 1 .. Len(s) /\ Len(s) \in Nat
      /\ \A x, y \in 1 .. Len(s) : x < y => ~ older(s[y], s[x])
  BY <1>1, InOrderLists
<1>5. /\ DOMAIN st = 1 .. Len(s) /\ Len(st) = Len(s) /\ i \in 1 .. Len(s)
      /\ sums(s, a)[i] < 0
      /\ \A x \in 1 .. Len(s) : st[x].transaction_id = s[x].id /\ st[x].created_at = s[x].created_at
  BY <1>3, <1>4 DEF sums
<1>6. s \in Seq(Rows) /\ IsInjective(s) /\ Range(s) = rows
  BY <1>1, <1>4 DEF Lists
<1> DEFINE place(x) == commit_order(s[x].id)
<1>7. ASSUME NEW x \in 1 .. Len(s)
      PROVE  place(x) \in 1 .. N /\ journal[place(x)] = s[x] /\ concerns(s[x], a)
  <2>1. s[x] \in rows
    BY <1>4, <1>6 DEF Range
  <2>2. PICK n \in 1 .. N : s[x] = journal[n] /\ concerns(journal[n], a)
    BY <2>1 DEF rows, until
  <2>3. commit_order(journal[n].id) = n
    BY <1>2, CommitOrder
  <2> QED
    BY <2>2, <2>3
<1>8. ASSUME NEW x \in 1 .. i, NEW y \in i + 1 .. Len(s)
      PROVE  place(x) < place(y)
  <2>1. x \in 1 .. Len(s) /\ y \in 1 .. Len(s) /\ x < y
    BY <1>4, <1>5
  <2>2. s[x].created_at \in Int /\ s[y].created_at \in Int
    <3>1. s[x] \in Rows /\ s[y] \in Rows
      BY <1>6, <2>1
    <3> QED
      BY <3>1, TimeAssumption DEF Rows
  <2>3. s[x].created_at <= s[y].created_at
    <3>1. ~ older(s[y], s[x])
      BY <1>4, <2>1
    <3> QED
      BY <2>2, <3>1 DEF older
  <2>4. ~ commit_order(st[y].transaction_id) < commit_order(st[x].transaction_id)
    <3>1. st[x].created_at <= st[y].created_at
      BY <1>5, <2>1, <2>3
    <3> QED
      BY <1>5, <3>1
  <2>5. ~ place(y) < place(x)
    BY <1>5, <2>1, <2>4
  <2>6. place(x) # place(y)
    <3>1. s[x] # s[y]
      <4>1. \A v, w \in 1 .. Len(s) : s[v] = s[w] => v = w
        BY <1>4, <1>6 DEF IsInjective
      <4>2. x # y
        BY <2>1
      <4> QED
        BY <2>1, <4>1, <4>2
    <3> QED
      BY <1>7, <2>1, <3>1
  <2>7. place(x) \in 1 .. N /\ place(y) \in 1 .. N
    BY <1>7, <2>1
  <2> HIDE DEF place
  <2> QED
    BY <1>2, <2>5, <2>6, <2>7
<1>9. PICK k \in 1 .. i : \A x \in 1 .. i : place(x) <= place(k)
  <2> DEFINE q == [x \in 1 .. i |-> place(x)]
  <2>1. \A x \in 1 .. i : place(x) \in Nat
    <3>1. \A x \in 1 .. i : x \in 1 .. Len(s)
      BY <1>4, <1>5
    <3> QED
      BY <1>7, <3>1
  <2>2. \A x \in 1 .. i : q[x] = place(x)
    OBVIOUS
  <2> HIDE DEF q, place
  <2>3. i \in Nat \ {0} /\ \A x \in 1 .. i : q[x] \in Nat
    BY <1>4, <1>5, <2>1, <2>2
  <2>4. \E x \in 1 .. i : \A y \in 1 .. i : q[y] <= q[x]
    BY <2>3, Greatest
  <2> QED
    BY <2>2, <2>4
<1>10. k \in 1 .. Len(s) /\ \A x \in 1 .. i : x \in 1 .. Len(s)
  BY <1>4, <1>5
<1> DEFINE n == place(k)
           S == until(journal, n, a)
           front == [x \in 1 .. i |-> s[x]]
<1>11. n \in 1 .. N
  BY <1>7, <1>10
<1>12. /\ front \in Seq(Rows) /\ Len(front) = i /\ DOMAIN front = 1 .. i
       /\ \A x \in 1 .. i : front[x] = s[x]
  <2>1. \A x \in 1 .. i : s[x] \in Rows
    BY <1>6, <1>10
  <2>2. front \in [1 .. i -> Rows]
    BY <2>1
  <2>3. i \in Nat
    BY <1>4, <1>5
  <2>4. \A x \in 1 .. i : front[x] = s[x]
    OBVIOUS
  <2> HIDE DEF front
  <2>5. front \in Seq(Rows) /\ Len(front) = i /\ DOMAIN front = 1 .. i
    BY <2>2, <2>3
  <2> QED
    BY <2>4, <2>5
<1> HIDE DEF front
<1>13. Range(front) = S
  <2>1. ASSUME NEW x \in 1 .. i PROVE front[x] \in S
    <3>1. /\ place(x) \in 1 .. N /\ journal[place(x)] = s[x] /\ concerns(s[x], a)
      BY <1>7, <1>10
    <3>2. place(x) <= n
      BY <1>9
    <3> HIDE DEF place, n
    <3>3. place(x) \in 1 .. n
      BY <1>2, <1>11, <3>1, <3>2
    <3> QED
      BY <1>12, <3>1, <3>3 DEF until
  <2>2. ASSUME NEW m \in 1 .. n, concerns(journal[m], a) PROVE journal[m] \in Range(front)
    <3>1. m \in 1 .. N
      <4> HIDE DEF n
      <4> QED
        BY <1>2, <1>11
    <3>2. journal[m] \in rows
      BY <2>2, <3>1 DEF rows, until
    <3>3. PICK x \in 1 .. Len(s) : s[x] = journal[m]
      BY <1>4, <1>6, <3>2 DEF Range
    <3>4. place(x) = m
      BY <1>2, <3>1, <3>3, CommitOrder
    <3>5. x \in 1 .. i
      <4> SUFFICES ASSUME ~ x \in 1 .. i PROVE FALSE
        OBVIOUS
      <4>1. x \in i + 1 .. Len(s)
        BY <1>4, <1>5
      <4>2. place(k) < place(x)
        BY <1>8, <4>1
      <4> HIDE DEF place
      <4> QED
        BY <1>2, <1>11, <3>1, <3>4, <4>2 DEF n
    <3> QED
      BY <1>12, <3>3, <3>5 DEF Range
  <2> HIDE DEF n
  <2>3. Range(front) \subseteq S
    BY <1>12, <2>1 DEF Range
  <2>4. S \subseteq Range(front)
    BY <2>2 DEF until
  <2> QED
    BY <2>3, <2>4
<1> HIDE DEF place, n
<1>14. IsInjective(front)
  <2>1. \A x, y \in 1 .. Len(s) : s[x] = s[y] => x = y
    BY <1>4, <1>6 DEF IsInjective
  <2> QED
    BY <1>10, <1>12, <2>1 DEF IsInjective
<1>15. front \in Seq(S)
  <2> DEFINE T == S
  <2>1. \A x \in 1 .. i : front[x] \in T
    BY <1>12, <1>13 DEF Range
  <2> HIDE DEF T
  <2>2. front \in Seq(T)
    BY <1>12, <2>1
  <2> QED
    BY <2>2 DEF T
<1>16. Lists(front, S)
  BY <1>13, <1>14, <1>15 DEF Lists
<1>17. S \in SUBSET Rows /\ n \in 0 .. Len(journal)
  <2>1. n \in 0 .. Len(journal)
    BY <1>2, <1>11 DEF N
  <2> QED
    BY <1>2, <2>1, UntilFinite
<1> HIDE DEF S
<1>18. total(S, a) = sums(front, a)[i]
  BY <1>12, <1>16, <1>17, AmountsOfRows, TotalOf
<1>19. total(S, a) >= 0
  BY <1>17 DEF RowsInv, Sound, S
<1>20. sums(front, a)[i] = sums(s, a)[i]
  <2>1. i \in Nat /\ 0 + i = i
    BY <1>4, <1>5
  <2>2. SameRows(s, 0, front, 0, i)
    <3>1. \A x \in 1 .. i : front[0 + x] = s[0 + x]
      BY <1>12, <2>1
    <3>2. 0 + i <= Len(front) /\ 0 + i <= Len(s)
      BY <1>4, <1>5, <1>12
    <3> QED
      BY <3>1, <3>2 DEF SameRows
  <2>3. sums(front, a)[0 + i] - sums(front, a)[0] = sums(s, a)[0 + i] - sums(s, a)[0]
    BY <1>6, <1>12, <2>1, <2>2, AmountsOfRows, SameStretch
  <2>4. sums(front, a)[0] = 0 /\ sums(s, a)[0] = 0
    BY <1>6, <1>12, AmountsOfRows, SumsDef
  <2>5. sums(front, a)[i] \in Int
    <3>1. i \in 0 .. Len(front)
      BY <1>12, <2>1
    <3> QED
      BY <1>12, <3>1, AmountsOfRows, SumsDef
  <2>6. sums(s, a)[i] \in Int
    <3>1. i \in 0 .. Len(s)
      BY <1>4, <1>5
    <3> QED
      BY <1>6, <3>1, AmountsOfRows, SumsDef
  <2>7. PICK x \in Int : x = sums(front, a)[i]
    BY <2>5
  <2>8. PICK y \in Int : y = sums(s, a)[i]
    BY <2>6
  <2>9. x - 0 = y - 0
    BY <2>1, <2>3, <2>4, <2>7, <2>8, Zenon
  <2> QED
    BY <2>7, <2>8, <2>9
<1>21. sums(s, a)[i] \in Int /\ sums(s, a)[i] >= 0
  <2>1. i \in 0 .. Len(s)
    BY <1>4, <1>5
  <2>2. sums(s, a)[i] \in Int
    BY <1>6, <2>1, AmountsOfRows, SumsDef
  <2> QED
    BY <2>2, <1>18, <1>19, <1>20
<1> QED
  BY <1>5, <1>21

-----------------------------------------------------------------------------
\* Walks

ids == {p.id : p \in committed}

\* A row that a walk may miss: it began with the last row of a page.
Tie(q, ends, t) == q.of = "transactions" /\ \E e \in ends : created_at[e] = created_at[t]

\* What is listed is there, once and in order.
InLine(q, listed) ==
  /\ listed \in Seq(Transactions) /\ IsInjective(listed)
  /\ \A i \in DOMAIN listed : listed[i] \in ids
  /\ \A i, j \in DOMAIN listed : i < j => ~ sorted_before(q, row(listed[j]), row(listed[i]))

\* What a walk found when it began has been listed, is ahead or will be missed.
Honest(w) ==
  /\ w \in Walks
  /\ InLine(w.query, w.listed)
  /\ w.ends \subseteq ids
  /\ w.there \subseteq ids
  /\ w.status \in {"walking", "done"} => w.query \in Queries
  /\ w.status = "walking" =>
       w.listed # << >> /\ w.next_cursor = w.listed[Len(w.listed)]
  /\ \A t \in w.there : matches(row(t), w.query)
  /\ w.status \in {"walking", "done"} =>
       \A t \in w.there \ Range(w.listed) :
         \/ Tie(w.query, w.ends, t)
         \/ w.status = "walking" /\ beyond_cursor(w.query, row(t), row(w.next_cursor))

WalksInv ==
  /\ walk \in [Clients -> Walks]
  /\ \A c \in Clients : Honest(walk[c])

\* The row with a given id.
LEMMA RowIs ==
  ASSUME RowsInv
  PROVE  /\ \A t \in ids : row(t) \in committed /\ row(t).id = t
         /\ \A p \in committed : row(p.id) = p /\ p.id \in ids /\ p \in Rows
         /\ \A p, r \in committed : p.entry_id = r.entry_id => p = r
         /\ \A p \in committed : /\ p.entry_id \in Int /\ p.created_at \in Int
                                 /\ p.id \in Transactions /\ created_at[p.id] = p.created_at
<1>1. journal \in Seq(Rows) /\ DOMAIN journal = 1 .. Len(journal)
  BY DEF RowsInv, LedgerTypes
<1>2. /\ \A i \in DOMAIN journal : created_at[journal[i].id] = journal[i].created_at
      /\ \A i, j \in DOMAIN journal :
           journal[i].id = journal[j].id \/ journal[i].entry_id = journal[j].entry_id => i = j
  BY DEF RowsInv, Genuine
<1>3. \A p, r \in committed : p.id = r.id \/ p.entry_id = r.entry_id => p = r
  BY <1>2 DEF committed, Range
<1>4. \A p \in committed : p \in Rows /\ created_at[p.id] = p.created_at
  BY <1>1, <1>2 DEF committed, Range
<1>5. \A t \in ids : row(t) \in committed /\ row(t).id = t
  BY DEF ids, row
<1>6. \A p \in committed : p.id \in ids
  BY DEF ids
<1>7. \A p \in committed : row(p.id) = p
  BY <1>3, <1>5, <1>6
<1>8. ASSUME NEW p \in committed
      PROVE  p.entry_id \in Int /\ p.created_at \in Int /\ p.id \in Transactions
  <2>1. p \in Rows
    BY <1>4
  <2>2. /\ p.entry_id \in 1 .. Cardinality(Transactions) /\ p.created_at \in 1 .. LastInstant
        /\ p.id \in Transactions
    BY <2>1 DEF Rows
  <2> QED
    BY <2>2
<1> QED
  BY <1>3, <1>4, <1>5, <1>6, <1>7, <1>8

\* Rows that have not been listed, and come after those that have.
Ahead(q, rows, listed) ==
  \A p \in rows : \A i \in DOMAIN listed :
    p.id # listed[i] /\ ~ sorted_before(q, p, row(listed[i]))

\* What may be asked of a request for a page.
Ready(q, rows, listed, ends, there) ==
  /\ q \in Queries /\ rows \subseteq committed
  /\ InLine(q, listed)
  /\ Ahead(q, rows, listed)
  /\ ends \subseteq ids /\ there \subseteq ids
  /\ \A t \in there : matches(row(t), q)
  /\ \A t \in there \ Range(listed) : Tie(q, ends, t) \/ row(t) \in rows

\* The rows of a page.
LEMMA PageRows ==
  ASSUME NEW q, NEW rows, IsFiniteSet(rows), NEW limit \in Nat, NEW items \in results(q, rows, limit + 1)
  PROVE  /\ items \in Seq(rows) /\ DOMAIN items = 1 .. Len(items) /\ Len(items) \in Nat
         /\ \A i, j \in 1 .. Len(items) : items[i] = items[j] => i = j
         /\ \A i, j \in 1 .. Len(items) : i < j => ~ sorted_before(q, items[j], items[i])
         /\ \A p \in rows \ Range(items) : \A i \in 1 .. Len(items) : ~ sorted_before(q, p, items[i])
         /\ Len(items) <= limit => Range(items) = rows
<1> DEFINE N == Cardinality(rows)
           size == IF N < limit + 1 THEN N ELSE limit + 1
<1>1. N \in Nat
  BY FS_CardinalityType
<1>2. /\ items \in [1 .. size -> rows] /\ IsInjective(items)
      /\ \A i, j \in DOMAIN items : i < j => ~ sorted_before(q, items[j], items[i])
      /\ \A p \in rows \ Range(items), i \in DOMAIN items : ~ sorted_before(q, p, items[i])
  BY DEF results
<1> HIDE DEF N
<1>3. size \in Nat
  BY <1>1
<1>4. size <= limit => size = N
  BY <1>1
<1> HIDE DEF size
<1>5. items \in Seq(rows) /\ Len(items) = size /\ DOMAIN items = 1 .. size
  BY <1>2, <1>3
<1>6. \A i, j \in 1 .. size : items[i] = items[j] => i = j
  BY <1>2, <1>5 DEF IsInjective
<1>7. ASSUME size <= limit PROVE Range(items) = rows
  <2>1. items \in Injection(1 .. size, rows)
    BY <1>2 DEF Injection
  <2>2. Cardinality(1 .. size) = size
    <3>1. size = 0 => 1 > size
      OBVIOUS
    <3>2. Cardinality(1 .. size) = IF 1 > size THEN 0 ELSE size - 1 + 1
      BY <1>3, FS_Interval
    <3> QED
      BY <1>3, <3>1, <3>2
  <2>3. items \in Surjection(1 .. size, rows)
    BY <1>4, <1>7, <2>1, <2>2, FS_Injection DEF N
  <2> QED
    BY <1>5, <2>3 DEF Surjection, Range
<1> QED
  BY <1>2, <1>3, <1>5, <1>6, <1>7

LEMMA CommittedFinite ==
  ASSUME RowsInv
  PROVE  IsFiniteSet(committed)
<1>1. journal \in Seq(Rows)
  BY DEF RowsInv, LedgerTypes
<1>2. IsFiniteSet(DOMAIN journal)
  BY <1>1, FS_Interval
<1>3. journal \in Surjection(DOMAIN journal, committed)
  BY <1>1 DEF Surjection, committed, Range
<1> QED
  BY <1>2, <1>3, FS_Surjection

\* What a request leaves of a walk.
turned(q, listed, ends, there, limit, items) ==
  LET page == [i \in 1 .. (IF Len(items) > limit THEN limit ELSE Len(items)) |-> items[i].id]
      more == Len(items) > limit
  IN [status |-> IF more THEN "walking" ELSE "done", query |-> q,
      listed |-> listed \o page,
      ends |-> IF more THEN ends \cup {page[limit]} ELSE ends,
      next_cursor |-> IF more THEN page[limit] ELSE Unset,
      there |-> there]

\* n rows, once and in order, and the page they make.
Paged(q, rows, page, items, n) ==
  /\ n \in Nat /\ page \in Seq(Transactions) /\ Len(page) = n
  /\ \A i \in 1 .. n : items[i] \in rows /\ page[i] = items[i].id
  /\ \A i, j \in 1 .. n : items[i] = items[j] => i = j
  /\ \A i, j \in 1 .. n : i < j => ~ sorted_before(q, items[j], items[i])

\* The page has been listed after the rest.
Follows(q, listed, page, items, n) ==
  /\ InLine(q, listed \o page)
  /\ \A t \in Range(listed) : t \in Range(listed \o page)
  /\ \A i \in 1 .. n : items[i].id \in Range(listed \o page)
  /\ n # 0 => /\ listed \o page # << >>
              /\ (listed \o page)[Len(listed \o page)] = page[n]

LEMMA PageInLine ==
  ASSUME RowsInv, NEW q, NEW rows \in SUBSET committed, NEW listed, InLine(q, listed),
         Ahead(q, rows, listed), NEW page, NEW items, NEW n, Paged(q, rows, page, items, n)
  PROVE  Follows(q, listed, page, items, n)
<1> USE DEF Ahead, Paged
<1> DEFINE m == Len(listed)
           l == listed \o page
<1>1. listed \in Seq(Transactions) /\ m \in Nat /\ DOMAIN listed = 1 .. m
  BY DEF InLine
<1>2. /\ l \in Seq(Transactions) /\ Len(l) = m + n
      /\ \A i \in 1 .. m + n : l[i] = IF i <= m THEN listed[i] ELSE page[i - m]
  <2>1. n = Len(page) /\ page \in Seq(Transactions)
    OBVIOUS
  <2> HIDE DEF Ahead, Paged
  <2>2. /\ l \in Seq(Transactions) /\ Len(l) = m + Len(page)
        /\ \A i \in 1 .. m + Len(page) : l[i] = IF i <= m THEN listed[i] ELSE page[i - m]
    BY <1>1, <2>1, ConcatProperties
  <2> QED
    BY <2>1, <2>2
<1> HIDE DEF l
<1>3. DOMAIN l = 1 .. m + n
  BY <1>2
<1> HIDE DEF m
<1>4. \A i \in 1 .. m : i \in 1 .. m + n /\ l[i] = listed[i]
  BY <1>1, <1>2
<1>5. \A i \in 1 .. m + n : i \notin 1 .. m =>
        i - m \in 1 .. n /\ l[i] = items[i - m].id /\ items[i - m] \in rows
  BY <1>1, <1>2
<1>6. \A i \in 1 .. n : m + i \in 1 .. m + n /\ l[m + i] = items[i].id
  <2>1. ASSUME NEW i \in 1 .. n PROVE m + i \in 1 .. m + n /\ l[m + i] = page[i]
    <3>1. m + i \in 1 .. m + n /\ ~ (m + i <= m) /\ (m + i) - m = i
      BY <1>1
    <3> QED
      BY <1>2, <3>1
  <2> QED
    BY <2>1
<1>7. \A p \in rows : row(p.id) = p /\ p.id \in ids
  BY RowIs
<1>8. \A p, r \in rows : p.id = r.id => p = r
  BY <1>7
<1>9. \A i \in DOMAIN l : l[i] \in ids
  <2>1. \A i \in DOMAIN listed : listed[i] \in ids
    BY DEF InLine
  <2> QED
    BY <1>1, <1>3, <1>4, <1>5, <1>7, <2>1
<1>10. ASSUME NEW i \in DOMAIN l, NEW j \in DOMAIN l, i < j
       PROVE  l[i] # l[j] /\ ~ sorted_before(q, row(l[j]), row(l[i]))
  <2>1. i \in 1 .. m + n /\ j \in 1 .. m + n
    BY <1>3
  <2>2. CASE j \in 1 .. m
    <3>1. i \in 1 .. m
      BY <1>1, <2>1, <2>2, <1>10
    <3>2. l[i] = listed[i] /\ l[j] = listed[j]
      BY <1>4, <2>2, <3>1
    <3>3. listed[i] # listed[j] /\ ~ sorted_before(q, row(listed[j]), row(listed[i]))
      <4>1. i # j
        BY <2>1, <1>10
      <4> QED
        BY <1>1, <2>2, <3>1, <4>1, <1>10 DEF InLine, IsInjective
    <3> QED
      BY <3>2, <3>3
  <2>3. CASE i \in 1 .. m /\ j \notin 1 .. m
    <3>1. PICK p \in rows : l[j] = p.id
      BY <1>5, <2>1, <2>3
    <3>2. l[i] = listed[i] /\ i \in DOMAIN listed
      BY <1>1, <1>4, <2>3
    <3> QED
      BY <1>7, <3>1, <3>2
  <2>4. CASE i \notin 1 .. m /\ j \notin 1 .. m
    <3>1. PICK h \in 1 .. n : h = i - m
      BY <1>5, <2>1, <2>4
    <3>2. PICK k \in 1 .. n : k = j - m
      BY <1>5, <2>1, <2>4
    <3>3. l[i] = items[h].id /\ l[j] = items[k].id /\ items[h] \in rows /\ items[k] \in rows
      BY <1>5, <2>1, <2>4, <3>1, <3>2
    <3>4. h < k /\ h # k
      BY <1>1, <2>1, <3>1, <3>2, <1>10
    <3>5. items[h] # items[k] /\ ~ sorted_before(q, items[k], items[h])
      BY <3>4
    <3> QED
      BY <1>7, <3>3, <3>5
  <2> QED
    BY <2>2, <2>3, <2>4
<1>11. IsInjective(l)
  <2>1. ASSUME NEW i \in DOMAIN l, NEW j \in DOMAIN l, i # j PROVE l[i] # l[j]
    <3>1. i < j \/ j < i
      BY <1>1, <1>3, <2>1
    <3> QED
      BY <1>10, <3>1
  <2> QED
    BY <2>1 DEF IsInjective
<1>12. InLine(q, l)
  BY <1>2, <1>9, <1>10, <1>11 DEF InLine
<1>13. \A t \in Range(listed) : t \in Range(l)
  BY <1>1, <1>3, <1>4 DEF Range
<1>14. \A i \in 1 .. n : items[i].id \in Range(l)
  BY <1>3, <1>6 DEF Range
<1>15. ASSUME n # 0 PROVE l # << >> /\ l[Len(l)] = page[n]
  <2>1. n \in 1 .. n
    BY <1>15
  <2>2. l[m + n] = page[n]
    BY <1>6, <2>1
  <2>3. Len(l) # 0
    BY <1>1, <1>2, <1>15
  <2>4. Len(<< >>) = 0
    OBVIOUS
  <2> QED
    BY <1>2, <2>2, <2>3, <2>4
<1> QED
  BY <1>12, <1>13, <1>14, <1>15 DEF l, Follows

LEMMA TurnIsHonest ==
  ASSUME RowsInv, NEW q, NEW rows, NEW listed, NEW ends, NEW there,
         Ready(q, rows, listed, ends, there),
         NEW limit \in Limits, NEW items \in results(q, rows, limit + 1)
  PROVE  Honest(turned(q, listed, ends, there, limit, items))
<1> DEFINE n == IF Len(items) > limit THEN limit ELSE Len(items)
           page == [i \in 1 .. n |-> items[i].id]
           more == Len(items) > limit
           w == turned(q, listed, ends, there, limit, items)
<1>1. limit \in Nat \ {0}
  BY LimitsAssumption, Zenon
<1>2. /\ rows \subseteq committed /\ q \in Queries /\ ends \subseteq ids /\ there \subseteq ids
      /\ InLine(q, listed)
      /\ Ahead(q, rows, listed)
      /\ \A t \in there : matches(row(t), q)
      /\ \A t \in there \ Range(listed) : Tie(q, ends, t) \/ row(t) \in rows
  BY DEF Ready
<1>3. IsFiniteSet(rows)
  BY <1>2, CommittedFinite, FS_Subset
<1>4. /\ items \in Seq(rows) /\ DOMAIN items = 1 .. Len(items) /\ Len(items) \in Nat
      /\ \A i, j \in 1 .. Len(items) : items[i] = items[j] => i = j
      /\ \A i, j \in 1 .. Len(items) : i < j => ~ sorted_before(q, items[j], items[i])
      /\ \A p \in rows \ Range(items) : \A i \in 1 .. Len(items) : ~ sorted_before(q, p, items[i])
      /\ Len(items) <= limit => Range(items) = rows
  <2>1. limit \in Nat
    BY <1>1
  <2> QED
    BY <1>3, <2>1, PageRows
<1>5. n \in Nat /\ \A i \in 1 .. n : i \in 1 .. Len(items)
  BY <1>1, <1>4
<1>6. \A i \in 1 .. n : items[i] \in rows /\ items[i].id \in Transactions /\ items[i].id \in ids
  <2>1. \A p \in committed : p.id \in Transactions /\ p.id \in ids
    BY RowIs
  <2>2. \A i \in 1 .. Len(items) : items[i] \in rows
    BY <1>4
  <2> QED
    BY <1>2, <1>5, <2>1, <2>2
<1>7. w = [status |-> IF more THEN "walking" ELSE "done", query |-> q,
           listed |-> listed \o page,
           ends |-> IF more THEN ends \cup {page[limit]} ELSE ends,
           next_cursor |-> IF more THEN page[limit] ELSE Unset,
           there |-> there]
  BY DEF turned
<1> HIDE DEF n, w
<1>8. page \in Seq(Transactions) /\ Len(page) = n
  BY <1>5, <1>6
<1>9. \A i \in 1 .. n : page[i] = items[i].id
  OBVIOUS
<1> HIDE DEF page
<1>10. /\ InLine(q, listed \o page)
       /\ \A t \in Range(listed) : t \in Range(listed \o page)
       /\ \A i \in 1 .. n : items[i].id \in Range(listed \o page)
       /\ n # 0 => /\ listed \o page # << >>
                   /\ (listed \o page)[Len(listed \o page)] = page[n]
  <2>1. \A i, j \in 1 .. n : items[i] = items[j] => i = j
    BY <1>4, <1>5
  <2>2. \A i, j \in 1 .. n : i < j => ~ sorted_before(q, items[j], items[i])
    BY <1>4, <1>5
  <2>3. \A i \in 1 .. n : items[i] \in rows /\ page[i] = items[i].id
    BY <1>6, <1>9
  <2>4. Paged(q, rows, page, items, n)
    BY <1>5, <1>8, <2>1, <2>2, <2>3 DEF Paged
  <2>5. Ahead(q, rows, listed) /\ InLine(q, listed) /\ rows \in SUBSET committed
    BY <1>2
  <2>6. Follows(q, listed, page, items, n)
    BY <2>4, <2>5, PageInLine
  <2> QED
    BY <2>6 DEF Follows
<1> DEFINE l == listed \o page
<1>11. l \in Seq(Transactions)
  BY <1>10 DEF InLine
<1> HIDE DEF l
<1>12. more => /\ n = limit /\ n # 0 /\ limit \in 1 .. n /\ page[limit] = items[limit].id
               /\ page[limit] \in ids /\ page[limit] \in Transactions
  <2>1. more => n = limit /\ n # 0 /\ limit \in 1 .. n
    BY <1>1, <1>5 DEF n
  <2> QED
    BY <1>6, <1>9, <2>1
<1> DEFINE E == IF more THEN ends \cup {page[limit]} ELSE ends
<1>13. E \subseteq ids /\ ids \subseteq Transactions
  <2>1. \A p \in committed : p.id \in Transactions
    BY RowIs
  <2> QED
    BY <1>2, <1>12, <2>1 DEF ids
<1>14. w \in Walks
  BY <1>2, <1>7, <1>11, <1>12, <1>13 DEF Walks, l
<1>15. ASSUME NEW t \in there, t \notin Range(l)
       PROVE  Tie(q, E, t) \/ (more /\ beyond_cursor(q, row(t), row(page[limit])))
  <2>1. Tie(q, ends, t) \/ row(t) \in rows
    BY <1>2, <1>10, <1>15 DEF l
  <2>2. ends \subseteq E
    OBVIOUS
  <2>3. CASE Tie(q, ends, t)
    BY <2>2, <2>3 DEF Tie
  <2>4. CASE row(t) \in rows
    <3> DEFINE r == row(t)
    <3>1. r.id = t
      BY <1>2, RowIs
    <3>2. \A i \in 1 .. n : items[i] # r
      BY <1>10, <1>15, <3>1 DEF l
    <3> HIDE DEF r
    <3>3. more
      <4>1. ASSUME ~ more PROVE FALSE
        <5>1. n = Len(items) /\ Len(items) <= limit
          BY <1>1, <1>4, <4>1 DEF n
        <5>2. r \in Range(items)
          BY <1>4, <2>4, <5>1 DEF r
        <5> QED
          BY <1>4, <3>2, <5>1, <5>2 DEF Range
      <4> QED
        BY <4>1
    <3>4. ~ sorted_before(q, r, items[limit]) /\ items[limit] # r /\ items[limit] \in rows
      <4>1. limit \in 1 .. n /\ limit \in 1 .. Len(items)
        BY <1>5, <1>12, <3>3
      <4>2. CASE r \notin Range(items)
        BY <1>4, <1>6, <2>4, <3>2, <4>1, <4>2 DEF r
      <4>3. CASE r \in Range(items)
        <5>1. PICK k \in 1 .. Len(items) : items[k] = r
          BY <1>4, <4>3 DEF Range
        <5>2. k \notin 1 .. n
          BY <3>2, <5>1
        <5>3. limit < k
          BY <1>1, <1>5, <1>12, <3>3, <5>2
        <5> QED
          BY <1>4, <1>6, <3>2, <4>1, <5>1, <5>3
      <4> QED
        BY <4>2, <4>3
    <3>5. PICK e \in committed : e = items[limit]
      BY <1>2, <3>4
    <3>6. r \in committed
      BY <1>2, <2>4 DEF r
    <3>7. /\ e.entry_id \in Int /\ r.entry_id \in Int /\ e.created_at \in Int /\ r.created_at \in Int
          /\ e.entry_id # r.entry_id
          /\ created_at[e.id] = e.created_at /\ created_at[t] = r.created_at
      BY <3>1, <3>4, <3>5, <3>6, RowIs
    <3>8. row(page[limit]) = e /\ page[limit] = e.id
      BY <1>12, <3>3, <3>5, RowIs
    <3>9. CASE q.of = "entries"
      BY <3>3, <3>4, <3>5, <3>7, <3>8, <3>9 DEF sorted_before, beyond_cursor, r
    <3>10. CASE q.of # "entries"
      <4>1. q.of = "transactions"
        BY <1>2, <3>10, QueriesAssumption
      <4>2. CASE r.created_at < e.created_at
        BY <3>3, <3>8, <3>10, <4>2 DEF beyond_cursor, r
      <4>3. CASE r.created_at = e.created_at
        <5>1. e.id \in E
          BY <3>3, <3>8
        <5> QED
          BY <3>7, <4>1, <4>3, <5>1 DEF Tie
      <4> QED
        BY <3>4, <3>5, <3>7, <3>10, <4>2, <4>3 DEF sorted_before
    <3> QED
      BY <3>9, <3>10
  <2> QED
    BY <2>1, <2>3, <2>4
<1>16. /\ w.status = (IF more THEN "walking" ELSE "done") /\ w.query = q /\ w.listed = l
       /\ w.ends = E /\ w.next_cursor = (IF more THEN page[limit] ELSE Unset) /\ w.there = there
  BY <1>7 DEF l
<1>17. InLine(w.query, w.listed)
  BY <1>10, <1>16 DEF l
<1>18. w.status = "walking" => w.listed # << >> /\ w.next_cursor = w.listed[Len(w.listed)]
  BY <1>10, <1>12, <1>16 DEF l
<1>19. w.status \in {"walking", "done"} =>
         \A t \in w.there \ Range(w.listed) :
           \/ Tie(w.query, w.ends, t)
           \/ w.status = "walking" /\ beyond_cursor(w.query, row(t), row(w.next_cursor))
  BY <1>15, <1>16
<1> HIDE DEF E, more
<1> QED
  BY <1>2, <1>13, <1>14, <1>16, <1>17, <1>18, <1>19 DEF Honest, w

LEMMA TurnTurns ==
  ASSUME NEW c \in Clients, NEW q, NEW rows, NEW listed, NEW ends, NEW there,
         Turn(c, q, rows, listed, ends, there)
  PROVE  \E limit \in Limits : \E items \in results(q, rows, limit + 1) :
           walk' = [walk EXCEPT ![c] = turned(q, listed, ends, there, limit, items)]
BY DEF Turn, turned

\* Commits do not touch what a walk has found.
LEMMA HonestKept ==
  ASSUME RowsInv, RowsInv', committed \subseteq committed', NEW w, Honest(w)
  PROVE  Honest(w)'
<1>1. \A p, r \in committed' : p.id = r.id => p = r
  BY DEF RowsInv, Genuine, committed, Range
<1>2. \A p \in committed' : created_at'[p.id] = p.created_at
  BY DEF RowsInv, Genuine, committed, Range
<1>3. \A t \in ids : row(t) \in committed /\ row(t).id = t /\ created_at[t] = row(t).created_at
  BY RowIs
<1>4. \A t \in ids : row(t)' = row(t)
  BY <1>1, <1>3 DEF row
<1>5. \A t \in ids : t \in ids' /\ created_at'[t] = created_at[t]
  BY <1>2, <1>3 DEF ids
<1>6. InLine(w.query, w.listed)'
  BY <1>4, <1>5 DEF Honest, InLine
<1>7. w.ends \subseteq ids /\ w.there \subseteq ids /\ w.ends \subseteq ids' /\ w.there \subseteq ids'
  BY <1>5 DEF Honest
<1>8. \A t \in w.there : matches(row(t)', w.query)
  BY <1>4, <1>7 DEF Honest
<1>9. w.status = "walking" =>
        w.listed # << >> /\ w.next_cursor = w.listed[Len(w.listed)] /\ w.next_cursor \in ids
  <2>1. ASSUME w.status = "walking" PROVE w.next_cursor \in ids
    <3>1. w.listed # << >> /\ w.next_cursor = w.listed[Len(w.listed)] /\ w.listed \in Seq(Transactions)
      BY <2>1 DEF Honest, InLine
    <3>2. Len(w.listed) \in DOMAIN w.listed
      BY <3>1
    <3> QED
      BY <3>1, <3>2 DEF Honest, InLine
  <2> QED
    BY <2>1 DEF Honest
<1>10. \A t \in w.there : Tie(w.query, w.ends, t) => Tie(w.query, w.ends, t)'
  BY <1>5, <1>7 DEF Tie
<1>11. w.status \in {"walking", "done"} =>
         \A t \in w.there \ Range(w.listed) :
           \/ Tie(w.query, w.ends, t)'
           \/ w.status = "walking" /\ beyond_cursor(w.query, row(t)', row(w.next_cursor)')
  BY <1>4, <1>7, <1>9, <1>10 DEF Honest
<1> QED
  BY <1>6, <1>7, <1>8, <1>9, <1>11 DEF Honest

LEMMA FirstPageIsHonest ==
  ASSUME RowsInv, NEW c \in Clients, walk \in [Clients -> Walks], FirstPage(c)
  PROVE  \E w : Honest(w) /\ walk' = [walk EXCEPT ![c] = w]
<1>1. PICK q \in Queries :
        IF q.of = "entries" /\ q.account \notin Accounts
        THEN walk' = [walk EXCEPT ![c] = NoPage("404", q)]
        ELSE Turn(c, q, {p \in committed : matches(p, q)}, << >>, {},
                  {r.id : r \in {p \in committed : matches(p, q)}})
  BY DEF FirstPage
<1>2. InLine(q, << >>)
  BY DEF InLine, IsInjective
<1>3. CASE q.of = "entries" /\ q.account \notin Accounts
  <2> DEFINE w == NoPage("404", q)
  <2>1. /\ w = [status |-> "404", query |-> q, listed |-> << >>, ends |-> {},
                next_cursor |-> Unset, there |-> {}]
    BY DEF NoPage
  <2> HIDE DEF w
  <2>2. w \in Walks
    BY <2>1 DEF Walks
  <2>3. Honest(w)
    BY <1>2, <2>1, <2>2 DEF Honest
  <2> QED
    BY <1>1, <1>3, <2>3 DEF w
<1>4. CASE ~ (q.of = "entries" /\ q.account \notin Accounts)
  <2> DEFINE rows == {p \in committed : matches(p, q)}
             there == {r.id : r \in rows}
  <2>1. Turn(c, q, rows, << >>, {}, there)
    BY <1>1, <1>4
  <2>2. \A t \in there : t \in ids /\ row(t) \in rows /\ matches(row(t), q)
    <3>1. \A p \in rows : p \in committed /\ matches(p, q)
      OBVIOUS
    <3>2. \A p \in rows : row(p.id) = p /\ p.id \in ids
      BY <3>1, RowIs
    <3> QED
      BY <3>1, <3>2
  <2>3. rows \subseteq committed
    OBVIOUS
  <2> HIDE DEF rows, there
  <2>4. Ahead(q, rows, << >>)
    BY DEF Ahead
  <2>5. Ready(q, rows, << >>, {}, there)
    BY <1>2, <2>2, <2>3, <2>4 DEF Ready
  <2>6. PICK limit \in Limits : \E items \in results(q, rows, limit + 1) :
          walk' = [walk EXCEPT ![c] = turned(q, << >>, {}, there, limit, items)]
    BY <2>1, TurnTurns
  <2>7. PICK items \in results(q, rows, limit + 1) :
          walk' = [walk EXCEPT ![c] = turned(q, << >>, {}, there, limit, items)]
    BY <2>6
  <2>8. Honest(turned(q, << >>, {}, there, limit, items))
    BY <2>5, TurnIsHonest
  <2> QED
    BY <2>7, <2>8
<1> QED
  BY <1>3, <1>4

LEMMA NextPageIsHonest ==
  ASSUME RowsInv, NEW c \in Clients, walk \in [Clients -> Walks], Honest(walk[c]), NextPage(c)
  PROVE  \E w : Honest(w) /\ walk' = [walk EXCEPT ![c] = w]
<1>1. PICK v : v = walk[c] /\ Honest(v)
  OBVIOUS
<1> DEFINE q == v.query
           cursor == row(v.next_cursor)
           rows == {p \in committed : matches(p, q) /\ beyond_cursor(q, p, cursor)}
<1>2. v.status = "walking" /\ Turn(c, q, rows, v.listed, v.ends, v.there)
  BY <1>1 DEF NextPage
<1>3. PICK k \in DOMAIN v.listed : k = Len(v.listed) /\ v.next_cursor = v.listed[k]
  <2>1. v.listed # << >> /\ v.listed \in Seq(Transactions)
    BY <1>1, <1>2 DEF Honest, InLine
  <2>2. Len(v.listed) \in DOMAIN v.listed
    BY <2>1
  <2> QED
    BY <1>1, <1>2, <2>2 DEF Honest
<1>4. \A i \in DOMAIN v.listed : i \in Int /\ i <= k
  BY <1>1, <1>3 DEF Honest, InLine
<1>5. rows \subseteq committed /\ \A p \in rows : beyond_cursor(q, p, cursor)
  OBVIOUS
<1>6. /\ \A i \in DOMAIN v.listed : v.listed[i] \in ids
      /\ \A i, j \in DOMAIN v.listed : i < j => ~ sorted_before(q, row(v.listed[j]), row(v.listed[i]))
  BY <1>1 DEF Honest, InLine
<1>7. Ahead(q, rows, v.listed)
  <2> SUFFICES ASSUME NEW p \in rows, NEW i \in DOMAIN v.listed
               PROVE  p.id # v.listed[i] /\ ~ sorted_before(q, p, row(v.listed[i]))
    BY DEF Ahead
  <2> DEFINE e == row(v.listed[i])
  <2>1. p \in committed /\ e \in committed /\ cursor \in committed /\ row(p.id) = p
    BY <1>3, <1>5, <1>6, RowIs
  <2>2. beyond_cursor(q, p, cursor)
    BY <1>5
  <2>3. cursor = e \/ ~ sorted_before(q, cursor, e)
    BY <1>3, <1>4, <1>6
  <2>4. p.id = v.listed[i] => p = e
    BY <2>1
  <2> HIDE DEF e, cursor
  <2>5. /\ p.entry_id \in Int /\ p.created_at \in Int /\ e.entry_id \in Int /\ e.created_at \in Int
        /\ cursor.entry_id \in Int /\ cursor.created_at \in Int
    BY <2>1, RowIs
  <2>6. p # e /\ ~ sorted_before(q, p, e)
    BY <2>2, <2>3, <2>5 DEF sorted_before, beyond_cursor
  <2> QED
    BY <2>4, <2>6 DEF e
<1>8. /\ q \in Queries /\ InLine(q, v.listed) /\ v.ends \subseteq ids /\ v.there \subseteq ids
      /\ \A t \in v.there : matches(row(t), q)
  BY <1>1, <1>2 DEF Honest
<1>9. \A t \in v.there \ Range(v.listed) : Tie(q, v.ends, t) \/ row(t) \in rows
  <2>1. \A t \in v.there : row(t) \in committed
    BY <1>8, RowIs
  <2>2. \A t \in v.there \ Range(v.listed) : Tie(q, v.ends, t) \/ beyond_cursor(q, row(t), cursor)
    BY <1>1, <1>2 DEF Honest
  <2> QED
    BY <1>8, <2>1, <2>2
<1> HIDE DEF q, rows
<1>10. Ready(q, rows, v.listed, v.ends, v.there)
  BY <1>5, <1>7, <1>8, <1>9 DEF Ready
<1>11. PICK limit \in Limits : \E items \in results(q, rows, limit + 1) :
         walk' = [walk EXCEPT ![c] = turned(q, v.listed, v.ends, v.there, limit, items)]
  BY <1>2, TurnTurns
<1>12. PICK items \in results(q, rows, limit + 1) :
         walk' = [walk EXCEPT ![c] = turned(q, v.listed, v.ends, v.there, limit, items)]
  BY <1>11
<1>13. Honest(turned(q, v.listed, v.ends, v.there, limit, items))
  BY <1>10, TurnIsHonest
<1> QED
  BY <1>12, <1>13

-----------------------------------------------------------------------------
\* The inductive invariant

ReadsInv == RowsInv /\ WalksInv

LEMMA ReadsInitially == ReadsInit => ReadsInv
<1> SUFFICES ASSUME ReadsInit PROVE ReadsInv
  OBVIOUS
<1>1. RowsInv
  BY LedgerInit
<1> DEFINE w == NoPage("idle", Unset)
<1>2. walk = [c \in Clients |-> w]
  BY DEF ReadsInit
<1>3. w = [status |-> "idle", query |-> Unset, listed |-> << >>, ends |-> {},
           next_cursor |-> Unset, there |-> {}]
  BY DEF NoPage
<1> HIDE DEF w
<1>4. w \in Walks
  BY <1>3 DEF Walks
<1>5. Honest(w)
  <2>1. InLine(w.query, w.listed)
    BY <1>3 DEF InLine, IsInjective
  <2> QED
    BY <1>3, <1>4, <2>1 DEF Honest
<1>6. \A c \in Clients : walk[c] = w
  BY <1>2
<1>7. WalksInv
  BY <1>2, <1>4, <1>5, <1>6 DEF WalksInv
<1> QED
  BY <1>1, <1>7 DEF ReadsInv

\* Walks stay honest when rows are added and when one of them is turned honestly.
LEMMA WalksKept ==
  ASSUME RowsInv, WalksInv, RowsInv', committed \subseteq committed',
         \/ walk' = walk
         \/ \E c \in Clients : \E w : Honest(w) /\ walk' = [walk EXCEPT ![c] = w]
  PROVE  WalksInv'
<1>1. ASSUME NEW d \in Clients
      PROVE  \E v : walk'[d] = v /\ Honest(v)
  <2>1. Honest(walk[d])
    BY DEF WalksInv
  <2>2. CASE walk' = walk
    BY <2>1, <2>2
  <2>3. CASE \E c \in Clients : \E w : Honest(w) /\ walk' = [walk EXCEPT ![c] = w]
    <3>1. PICK c \in Clients : \E w : Honest(w) /\ walk' = [walk EXCEPT ![c] = w]
      BY <2>3
    <3>2. PICK w : Honest(w) /\ walk' = [walk EXCEPT ![c] = w]
      BY <3>1
    <3>3. walk'[d] = IF d = c THEN w ELSE walk[d]
      BY <3>2 DEF WalksInv
    <3> QED
      BY <2>1, <3>2, <3>3
  <2> QED
    BY <2>2, <2>3
<1>2. ASSUME NEW d \in Clients PROVE walk'[d] \in Walks /\ Honest(walk[d])'
  <2>1. PICK v : walk'[d] = v /\ Honest(v)
    BY <1>1
  <2>2. Honest(v)'
    BY <2>1, HonestKept
  <2> QED
    BY <2>1, <2>2 DEF Honest
<1>3. walk' \in [Clients -> Walks]
  <2>1. walk' = [d \in Clients |-> walk'[d]]
    BY DEF WalksInv
  <2> QED
    BY <1>2, <2>1
<1> QED
  BY <1>2, <1>3 DEF WalksInv

LEMMA ReadsStep == ReadsInv /\ [ReadsNext]_reads_vars => ReadsInv'
<1> SUFFICES ASSUME ReadsInv, [ReadsNext]_reads_vars PROVE ReadsInv'
  OBVIOUS
<1>1. RowsInv /\ WalksInv
  BY DEF ReadsInv
<1>2. ASSUME NEW t \in Transactions, Begin(t) PROVE ReadsInv'
  <2>1. RowsInv'
    BY <1>1, <1>2, LedgerBegin
  <2>2. committed \subseteq committed' /\ walk' = walk
    BY <1>2 DEF Begin, committed
  <2> QED
    BY <1>1, <2>1, <2>2, WalksKept DEF ReadsInv
<1>3. ASSUME NEW t \in Transactions, Commit(t) PROVE ReadsInv'
  <2>1. RowsInv'
    BY <1>1, <1>3, LedgerCommit
  <2>2. PICK p \in Rows : journal' = Append(journal, p)
    BY <1>1, <1>3, Committed DEF RowsInv
  <2>3. committed \subseteq committed'
    <3>1. journal \in Seq(Rows)
      BY <1>1 DEF RowsInv, LedgerTypes
    <3>2. \A i \in DOMAIN journal : i \in DOMAIN journal' /\ journal'[i] = journal[i]
      BY <2>2, <3>1
    <3> QED
      BY <3>2 DEF committed, Range
  <2>4. walk' = walk
    BY <1>3 DEF Commit
  <2> QED
    BY <1>1, <2>1, <2>3, <2>4, WalksKept DEF ReadsInv
<1>4. ASSUME UNCHANGED <<clock, created_at, balance, journal>>,
             \/ walk' = walk
             \/ \E c \in Clients : \E w : Honest(w) /\ walk' = [walk EXCEPT ![c] = w]
      PROVE  ReadsInv'
  <2>1. RowsInv'
    BY <1>1, <1>4, LedgerStutter
  <2>2. committed \subseteq committed'
    BY <1>4 DEF committed
  <2> QED
    BY <1>1, <1>4, <2>1, <2>2, WalksKept DEF ReadsInv
<1>5. ASSUME NEW c \in Clients, FirstPage(c) PROVE ReadsInv'
  <2>1. \E w : Honest(w) /\ walk' = [walk EXCEPT ![c] = w]
    BY <1>1, <1>5, FirstPageIsHonest DEF WalksInv
  <2> QED
    BY <1>4, <1>5, <2>1 DEF FirstPage
<1>6. ASSUME NEW c \in Clients, NextPage(c) PROVE ReadsInv'
  <2>1. \E w : Honest(w) /\ walk' = [walk EXCEPT ![c] = w]
    BY <1>1, <1>6, NextPageIsHonest DEF WalksInv
  <2> QED
    BY <1>4, <1>6, <2>1 DEF NextPage
<1>7. CASE UNCHANGED reads_vars
  BY <1>4, <1>7 DEF reads_vars
<1> QED
  BY <1>2, <1>3, <1>5, <1>6, <1>7 DEF ReadsNext, AllRead

\* Rows are what their transactions made them, balances are the totals of the
\* rows, and what a walk found is listed, ahead of it or a tie.
THEOREM ReadsInvariant == ReadsSpec => []ReadsInv
BY ReadsInitially, ReadsStep, PTL DEF ReadsSpec

\* The clock, the rows and the walks always have their types.
THEOREM ReadsTypes == ReadsSpec => []ReadsTypeOK
<1>1. ReadsInv => ReadsTypeOK
  BY DEF ReadsInv, RowsInv, LedgerTypes, WalksInv, ReadsTypeOK
<1> QED
  BY <1>1, ReadsInvariant, PTL

\* A walk through the pages of list_transactions or list_entries lists nothing
\* twice and nothing out of order, and misses only transactions that began at
\* the same instant as the last one of a page.
THEOREM WalksAreHonest == ReadsSpec => []WalkMissesOnlyTies
<1>1. ReadsInv => WalkMissesOnlyTies
  <2> SUFFICES ASSUME ReadsInv, NEW c \in Clients
               PROVE  LET w == walk[c] IN
                      /\ IsInjective(w.listed)
                      /\ \A i, j \in DOMAIN w.listed :
                           i < j => ~ sorted_before(w.query, row(w.listed[j]), row(w.listed[i]))
                      /\ w.status = "done" =>
                           \A t \in w.there \ Range(w.listed) :
                             /\ w.query.of = "transactions"
                             /\ \E e \in w.ends : created_at[e] = created_at[t]
    BY DEF WalkMissesOnlyTies
  <2>1. Honest(walk[c])
    BY DEF ReadsInv, WalksInv
  <2> QED
    BY <2>1 DEF Honest, InLine, Tie
<1> QED
  BY <1>1, ReadsInvariant, PTL

\* get_statement closes at what get_balance answers, and the statements of
\* adjacent periods add up but for the last microsecond between them.
THEOREM StatementsAgree == ReadsSpec => []StatementsAddUp
<1>1. ReadsInv => StatementsAddUp
  BY LedgerStatements DEF ReadsInv
<1> QED
  BY <1>1, ReadsInvariant, PTL

\* A running balance is negative only where a row is listed ahead of one that
\* was committed before it.
THEOREM OverdrawnIsOvertaken == ReadsSpec => []OverdrawnOnlyWhenOvertaken
<1>1. ReadsInv => OverdrawnOnlyWhenOvertaken
  BY LedgerOverdrawn DEF ReadsInv
<1> QED
  BY <1>1, ReadsInvariant, PTL
=============================================================================
