------------------------------ MODULE Delivery ------------------------------
(***************************************************************************)
(* The outbox relay and the consumer together: every message a relay or    *)
(* the broker adds to the topic of Relay is a message of Consumer.         *)
(***************************************************************************)
EXTENDS Integers, Sequences, FiniteSets

CONSTANTS
  Transactions, Relays, Limits, MaxFaults,          \* of Relay
  Kinds, KindOf, Threads, MaxMessages, MaxLapses, MaxRestarts   \* of Consumer

ASSUME RelayAssumption ==
  Limits \subseteq Nat \ {0} /\ MaxFaults \in Nat /\ IsFiniteSet(Relays)

ASSUME ConsumerAssumption ==
  /\ DOMAIN KindOf = Transactions /\ IsFiniteSet(Threads)
  /\ MaxMessages \in Nat /\ MaxLapses \in Nat /\ MaxRestarts \in Nat

VARIABLES
  now, created_at, log, published, relay_pc, batch, marked, in_flight, faults, readable,
  topic,
  status, consumer_pc, message, seen, totals, handled, lapses, restarts

relay_vars == <<now, created_at, log, published, relay_pc, batch, marked,
                in_flight, faults, readable>>

consumer_vars == <<status, consumer_pc, message, seen, totals, handled, lapses,
                   restarts>>

vars == <<relay_vars, topic, consumer_vars>>

R == INSTANCE Relay WITH pc <- relay_pc

C == INSTANCE Consumer WITH Events <- Transactions, Malformed <- {},
                            pc <- consumer_pc

Init == R!Init /\ C!Init

\* A step of the relays or of the broker, within the bound on messages.
Send == R!Next /\ Len(topic') <= MaxMessages /\ UNCHANGED consumer_vars

\* A step of the consumer or of its subscription.
Receive ==
  /\ \/ \E t \in Threads : C!Handle(t) \/ \E m \in C!Messages : C!Deliver(t, m)
     \/ \E m \in C!Messages : C!Lapse(m)
     \/ C!Restart
  /\ UNCHANGED relay_vars

Next == Send \/ Receive

Spec == Init /\ [][Next]_vars

\* The fairness of both parts.
FairSpec ==
  /\ Spec
  /\ \A r \in Relays : WF_vars(R!Serve(r) /\ UNCHANGED consumer_vars)
  /\ \A t \in Threads : WF_vars(C!Handle(t) /\ UNCHANGED relay_vars)
  /\ \A m \in C!Messages :
       SF_vars(\E t \in Threads : C!Deliver(t, m) /\ UNCHANGED relay_vars)

-----------------------------------------------------------------------------
\* The consumer handles what the ledger committed and nothing else, and every
\* row that is out of the outbox still reaches it: it is handled or on its way.
NothingInventedNothingLost ==
  /\ handled \subseteq R!committed
  /\ published \subseteq handled \cup {topic[m] : m \in {n \in DOMAIN topic : status[n] # "acked"}}

\* Every committed transaction is handled downstream in the end, through
\* failures, crashes and restarts on the way.
EveryCommitIsHandled ==
  \A t \in Transactions : t \in R!committed ~> t \in handled
=============================================================================
