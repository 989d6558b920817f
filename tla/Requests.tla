------------------------------ MODULE Requests ------------------------------
(***************************************************************************)
(* How one instance runs its requests: POST /accounts, and the endpoints   *)
(* that read, behind the bearer tokens of src/app/auth.py, on a bounded    *)
(* number of worker threads and pooled database connections.               *)
(*                                                                         *)
(* FastAPI runs dependencies, endpoints and the validation of a response   *)
(* model on worker threads, each for the length of that one call.  The     *)
(* session of get_db takes a connection at its first statement, gives it   *)
(* back at a commit, takes one again for the next statement, and gives it  *)
(* back for good when get_db closes it, which needs no worker thread.      *)
(***************************************************************************)
EXTENDS Integers, FiniteSets

CONSTANTS
  Requests,      \* HTTP requests
  Users,         \* user names
  Names,         \* account names
  Threads,       \* worker threads (anyio: 40)
  Connections,   \* connections of the engine's pool (SQLAlchemy: 5 + 10)
  Nobody,        \* no request, no user
  Assigned,      \* roles that releases give their users
  Lifetime,      \* ACCESS_TOKEN_EXPIRE_MINUTES
  MaxTime,       \* bound on the clock
  MaxTokens,     \* bound on tokens handed out
  MaxReleases    \* bound on releases

ASSUME CapacityAssumption == Threads \in Nat \ {0} /\ Connections \in Nat \ {0}

ASSUME BoundsAssumption ==
  Lifetime \in Nat /\ MaxTime \in Nat \ {0} /\ MaxTokens \in Nat /\ MaxReleases \in Nat

Roles == {"customer", "auditor", "admin"}

ASSUME NobodyAssumption == Nobody \notin Requests \cup Users \cup Roles /\ Assigned \subseteq Roles

VARIABLES
  accounts,     \* accounts[n]: the request that inserted the row of that name
  now,          \* the clock
  users,        \* USERS_DB of the running release
  tokens,       \* tokens handed out: [sub, role, exp]
  pc,           \* what each request does next
  call,         \* what it asks for: [endpoint, name, token]
  threads,      \* requests that occupy a worker thread
  connections,  \* requests whose session holds a connection
  status,       \* the status its client gets
  timed_out,    \* requests that waited in vain for a connection
  releases,     \* releases so far
  \* Observers.
  last_admin,   \* when a user was last an admin, 0 for never
  lapse         \* how long before it was let in a request's user had last been one

auth_vars == <<now, users, tokens, releases, last_admin>>
vars == <<accounts, auth_vars, pc, call, threads, connections, status,
          timed_out, lapse>>

-----------------------------------------------------------------------------
\* Tokens

NoToken == [sub |-> Nobody, role |-> "customer", exp |-> 0]

\* The user is known, and the password is taken to match.
authenticate_user(u) == users[u] # Nobody

create_access_token(u) == [sub |-> u, role |-> users[u], exp |-> now + Lifetime]

\* POST /auth/token.  A wrong password is answered 401 and changes nothing.
Login(u) ==
  /\ authenticate_user(u)
  /\ Cardinality(tokens) < MaxTokens
  /\ tokens' = tokens \cup {create_access_token(u)}
  /\ UNCHANGED <<accounts, now, users, releases, last_admin, pc, call, threads,
                 connections, status, timed_out, lapse>>

\* FAULT: exp is not verified.
valid_for_ever(token) == token # NoToken

\* get_current_user: a missing, forged or expired token is refused with 401.
valid(token) == token # NoToken /\ now <= token.exp

\* require_role(Role.admin) for POST /accounts, any role for reading.
allowed(endpoint) == IF endpoint = "create" THEN {"admin"} ELSE Roles

admins(db, t) == [u \in Users |-> IF db[u] = "admin" THEN t ELSE last_admin[u]]

Tick ==
  /\ now < MaxTime
  /\ now' = now + 1
  /\ last_admin' = admins(users, now + 1)
  /\ UNCHANGED <<accounts, users, tokens, releases, pc, call, threads, connections,
                 status, timed_out, lapse>>

\* A release with another USERS_DB; the last one has answered its requests, and
\* the secret that signs the tokens stays.
Redeploy(u, role) ==
  /\ releases < MaxReleases
  /\ releases' = releases + 1
  /\ \A r \in Requests : pc[r] \in {"idle", "done"}
  /\ users[u] # role
  /\ users' = [users EXCEPT ![u] = role]
  /\ last_admin' = admins(users', now)
  /\ UNCHANGED <<accounts, now, tokens, pc, call, threads, connections, status,
                 timed_out, lapse>>

-----------------------------------------------------------------------------
\* Requests

Init ==
  /\ accounts = [n \in Names |-> Nobody]
  /\ now = 1
  /\ users \in [Users -> Assigned]
  /\ tokens = {}
  /\ releases = 0
  /\ pc = [r \in Requests |-> "idle"]
  /\ call = [r \in Requests |-> [endpoint |-> "read", name |-> Nobody, token |-> NoToken]]
  /\ threads = {}
  /\ connections = {}
  /\ status = [r \in Requests |-> 0]
  /\ timed_out = {}
  /\ last_admin = [u \in Users |-> IF users[u] = "admin" THEN 1 ELSE 0]
  /\ lapse = [r \in Requests |-> 0]

Go(r, label) == pc' = [pc EXCEPT ![r] = label]

Answer(r, code) == status' = [status EXCEPT ![r] = code]

free_thread == Cardinality(threads) < Threads

free_connection == Cardinality(connections) < Connections

Arrive(r) ==
  /\ pc[r] = "idle"
  /\ \E token \in tokens \cup {NoToken} :
       \/ \E n \in Names :
            call' = [call EXCEPT ![r] = [endpoint |-> "create", name |-> n, token |-> token]]
       \/ call' = [call EXCEPT ![r] = [endpoint |-> "read", name |-> Nobody, token |-> token]]
  /\ Go(r, "authorize")
  /\ UNCHANGED <<accounts, auth_vars, threads, connections, status, timed_out, lapse>>

\* get_db up to its yield, get_current_user and require_role's checker, each
\* for a moment on a worker thread.  The session has no connection yet.
Authorize(r) ==
  /\ pc[r] = "authorize"
  /\ free_thread
  /\ LET token == call[r].token
     IN \/ ~ valid(token) /\ Answer(r, 401) /\ Go(r, "close") /\ UNCHANGED lapse
        \/ /\ valid(token) /\ token.role \notin allowed(call[r].endpoint)
           /\ Answer(r, 403) /\ Go(r, "close") /\ UNCHANGED lapse
        \/ /\ valid(token) /\ token.role \in allowed(call[r].endpoint)
           /\ lapse' = [lapse EXCEPT ![r] = now - last_admin[token.sub]]
           /\ Go(r, "dispatch") /\ UNCHANGED status
  /\ UNCHANGED <<accounts, auth_vars, call, threads, connections, timed_out>>

\* The endpoint begins on a worker thread, which it keeps until it returns.
Dispatch(r) ==
  /\ pc[r] = "dispatch"
  /\ free_thread
  /\ threads' = threads \cup {r}
  /\ Go(r, "lookup")
  /\ UNCHANGED <<accounts, auth_vars, call, connections, status, timed_out, lapse>>

TakeConnection(r) ==
  /\ free_connection
  /\ connections' = connections \cup {r}

\* An endpoint that reads: its first statement takes a connection, its return or
\* its 404 ends its use of the thread.
Read(r) ==
  /\ pc[r] = "lookup" /\ call[r].endpoint = "read"
  /\ TakeConnection(r)
  /\ threads' = threads \ {r}
  /\ \/ Answer(r, 200) /\ Go(r, "serialize")
     \/ Answer(r, 404) /\ Go(r, "close")
  /\ UNCHANGED <<accounts, auth_vars, call, timed_out, lapse>>

\* post_account looks for the name.
LookupName(r) ==
  /\ pc[r] = "lookup" /\ call[r].endpoint = "create"
  /\ TakeConnection(r)
  /\ IF accounts[call[r].name] # Nobody
     THEN Answer(r, 409) /\ Go(r, "close") /\ threads' = threads \ {r}
     ELSE Go(r, "insert") /\ UNCHANGED <<status, threads>>
  /\ UNCHANGED <<accounts, auth_vars, call, timed_out, lapse>>

\* FAULT: the name column is not unique.
never_taken(r) == FALSE

name_taken(r) == accounts[call[r].name] # Nobody

\* db.commit(): the INSERT and the COMMIT.  A name committed since the lookup is
\* an IntegrityError, which nothing catches.  A commit gives the connection back.
Insert(r) ==
  /\ pc[r] = "insert"
  /\ IF name_taken(r)
     THEN /\ Answer(r, 500) /\ Go(r, "close") /\ threads' = threads \ {r}
          /\ UNCHANGED <<accounts, connections>>
     ELSE /\ accounts' = [accounts EXCEPT ![call[r].name] = r]
          /\ connections' = connections \ {r}
          /\ Go(r, "refresh") /\ UNCHANGED <<status, threads>>
  /\ UNCHANGED <<auth_vars, call, timed_out, lapse>>

\* db.refresh() takes a connection again.
Refresh(r) ==
  /\ pc[r] = "refresh"
  /\ TakeConnection(r)
  /\ threads' = threads \ {r}
  /\ Answer(r, 201) /\ Go(r, "serialize")
  /\ UNCHANGED <<accounts, auth_vars, call, timed_out, lapse>>

\* The pool gives up after 30 seconds: the endpoint raises, before its first
\* statement or after its commit.
PoolTimeout(r) ==
  /\ pc[r] \in {"lookup", "refresh"}
  /\ ~ free_connection
  /\ timed_out' = timed_out \cup {r}
  /\ threads' = threads \ {r}
  /\ Answer(r, 500) /\ Go(r, "close")
  /\ UNCHANGED <<accounts, auth_vars, call, connections, lapse>>

\* The response model is validated on a worker thread, before get_db is left.
Serialize(r) ==
  /\ pc[r] = "serialize"
  /\ free_thread
  /\ Go(r, "close")
  /\ UNCHANGED <<accounts, auth_vars, call, threads, connections, status, timed_out, lapse>>

\* FAULT: get_db does not close the session when the endpoint raises.
closed_on_success(r) == IF status[r] < 400 THEN connections \ {r} ELSE connections

\* finally: db.close().
closed(r) == connections \ {r}

Close(r) ==
  /\ pc[r] = "close"
  /\ connections' = closed(r)
  /\ Go(r, "done")
  /\ UNCHANGED <<accounts, auth_vars, call, threads, status, timed_out, lapse>>

\* Every request has been answered.
Terminating ==
  /\ \A r \in Requests : pc[r] = "done"
  /\ UNCHANGED vars

Next ==
  \/ \E r \in Requests :
       \/ Arrive(r) \/ Authorize(r) \/ Dispatch(r) \/ Read(r) \/ LookupName(r)
       \/ Insert(r) \/ Refresh(r) \/ PoolTimeout(r) \/ Serialize(r) \/ Close(r)
  \/ \E u \in Users : Login(u) \/ \E role \in Assigned \cup {Nobody} : Redeploy(u, role)
  \/ Tick
  \/ Terminating

Spec == Init /\ [][Next]_vars

-----------------------------------------------------------------------------
\* Type invariant

Tokens == [sub : Users, role : Roles, exp : Nat]

Calls == [endpoint : {"read", "create"}, name : Names \cup {Nobody},
          token : Tokens \cup {NoToken}]

Labels == {"idle", "authorize", "dispatch", "lookup", "insert", "refresh",
           "serialize", "close", "done"}

\* Rows, tokens, requests and the two pools have their types.
TypeOK ==
  /\ accounts \in [Names -> Requests \cup {Nobody}]
  /\ now \in 1 .. MaxTime
  /\ users \in [Users -> Assigned \cup {Nobody}]
  /\ tokens \subseteq Tokens
  /\ releases \in 0 .. MaxReleases
  /\ pc \in [Requests -> Labels]
  /\ call \in [Requests -> Calls]
  /\ threads \subseteq Requests /\ Cardinality(threads) <= Threads
  /\ connections \subseteq Requests /\ Cardinality(connections) <= Connections
  /\ status \in [Requests -> {0, 200, 201, 401, 403, 404, 409, 500}]
  /\ timed_out \subseteq Requests
  /\ last_admin \in [Users -> 0 .. MaxTime]
  /\ lapse \in [Requests -> 0 .. MaxTime]

-----------------------------------------------------------------------------
\* Safety

running == {r \in Requests : pc[r] \notin {"idle", "done"}}

\* Whether a request can go on without a timeout.
can_move(r) ==
  \/ pc[r] \in {"insert", "close"}
  \/ pc[r] \in {"authorize", "dispatch", "serialize"} /\ free_thread
  \/ pc[r] \in {"lookup", "refresh"} /\ free_connection

\* Requests that hold a connection wait for a thread to validate their response
\* while those on the threads wait for a connection, and only the pool's timeout
\* ends it.  That takes as many requests at once as there are threads and
\* connections together, and not one less: nothing leaks, and no request ever
\* waits for one resource of a kind while it holds another (database.py:14-22).
StallNeedsManyCalls ==
  /\ running # {} /\ ~ \E r \in running : can_move(r)
  => Cardinality(running) >= Threads + Connections

\* Every account was created by a request whose user was an admin at that moment,
\* or had been one no longer ago than ACCESS_TOKEN_EXPIRE_MINUTES: a token keeps
\* a role that long after it was withdrawn (auth.py:83-124).
OnlyAdminsCreate ==
  \A n \in Names :
    accounts[n] # Nobody =>
      /\ call[accounts[n]].token.role = "admin"
      /\ last_admin[call[accounts[n]].token.sub] > 0
      /\ lapse[accounts[n]] <= Lifetime

\* Of several requests for one name one inserts it.  It alone is told 201; another
\* is told 409, or 500 if it had looked before that row was there; and 500 may
\* come after the commit only when the refresh waited in vain for a connection
\* (main.py:220-229).
OneCreatorPerName ==
  \A r \in Requests :
    LET author == IF call[r].endpoint = "create" THEN accounts[call[r].name] ELSE Nobody IN
    /\ status[r] = 201 => author = r
    /\ status[r] = 409 => author \notin {Nobody, r}
    /\ status[r] = 500 => r \in timed_out \/ author \notin {Nobody, r}
=============================================================================
