--------------------------- MODULE HistorianStore ---------------------------
(***************************************************************************)
(* What the historian promises about ingestion (spec sections 3 and 4.3), *)
(* stated without statements, caches or connections.  Points arrive in a  *)
(* backlog; the historian persists them oldest first, a repeated key      *)
(* keeping the value written first; it acknowledges a prefix of the      *)
(* backlog only when every point of it is persisted.  Redelivery is not   *)
(* an action: persisting a point again is allowed and changes nothing.    *)
(***************************************************************************)
EXTENDS Naturals, Sequences, TLAPS

CONSTANTS
    Stream,       \* the published points, in arrival order
    DataKeys,     \* the (table, topic id, timestamp) keys of stored values
    Key(_),       \* the key a point is stored under
    Value(_),     \* the value stored for a point
    Storable(_),  \* can the point be converted and stored at all?
    None          \* no value stored under a key

VARIABLES
    arrived,      \* the points of Stream in the backlog so far
    acked,        \* the points acknowledged (removed from the backlog)
    store         \* key -> stored value

storeVars == <<arrived, acked, store>>

\* The j-th point has a stored value.
Persisted(j) == store[Key(Stream[j])] # None

Init ==
    /\ arrived = 0
    /\ acked = 0
    /\ store = [k \in DataKeys |-> None]

Receive ==
    /\ arrived < Len(Stream)
    /\ arrived' = arrived + 1
    /\ UNCHANGED <<acked, store>>

\* An unacknowledged point is written once every older unacknowledged
\* point is; an existing value under its key is kept.
Persist(j) ==
    /\ j \in (acked + 1)..arrived
    /\ Storable(Stream[j])
    /\ \A q \in (acked + 1)..(j - 1) : Persisted(q)
    /\ store' = IF store[Key(Stream[j])] = None
                  THEN [store EXCEPT ![Key(Stream[j])] = Value(Stream[j])]
                  ELSE store
    /\ UNCHANGED <<arrived, acked>>

\* The oldest points up to n leave the backlog, all of them persisted.
Acknowledge(n) ==
    /\ n \in (acked + 1)..arrived
    /\ \A q \in (acked + 1)..n : Persisted(q)
    /\ acked' = n
    /\ UNCHANGED <<arrived, store>>

Next ==
    \/ Receive
    \/ \E j \in 1..Len(Stream) : Persist(j)
    \/ \E n \in 1..Len(Stream) : Acknowledge(n)

Spec == Init /\ [][Next]_storeVars

-----------------------------------------------------------------------------
\* Every acknowledged point has a stored value.
AckedPersisted == \A q \in 1..acked : Persisted(q)

\* A stored value is the value of the oldest storable point with its key.
FirstWins ==
    \A k \in DataKeys : store[k] # None =>
        \E j \in 1..arrived :
            /\ Storable(Stream[j])
            /\ Key(Stream[j]) = k
            /\ store[k] = Value(Stream[j])
            /\ \A q \in 1..(j - 1) : Storable(Stream[q]) => Key(Stream[q]) # k

-----------------------------------------------------------------------------
\* What the proofs need of the parameters: every point has a key in
\* DataKeys and a value other than None.
StoreAssumption ==
    /\ Len(Stream) \in Nat
    /\ \A j \in 1..Len(Stream) : Key(Stream[j]) \in DataKeys /\ Value(Stream[j]) # None

StoreValues == {Value(Stream[j]) : j \in 1..Len(Stream)} \cup {None}

\* The inductive invariant: AckedPersisted is needed so that a point
\* written now cannot have an older storable point with its key.
StoreInv ==
    /\ arrived \in 0..Len(Stream)
    /\ acked \in 0..arrived
    /\ store \in [DataKeys -> StoreValues]
    /\ AckedPersisted
    /\ FirstWins

\* One step of the abstract historian preserves StoreInv.
LEMMA StoreInvStep ==
    ASSUME StoreAssumption
    PROVE  StoreInv /\ [Next]_storeVars => StoreInv'
<1> SUFFICES ASSUME StoreInv, [Next]_storeVars PROVE StoreInv'
  OBVIOUS
<1>1. CASE Receive
  BY <1>1 DEF Receive, StoreInv, AckedPersisted, FirstWins, Persisted
<1>2. ASSUME NEW j \in 1..Len(Stream), Persist(j) PROVE StoreInv'
  <2> DEFINE k == Key(Stream[j])
  <2>1. k \in DataKeys /\ Value(Stream[j]) # None /\ Value(Stream[j]) \in StoreValues
    BY DEF StoreValues, StoreAssumption
  <2>2. CASE store[k] # None
    BY <1>2, <2>2 DEF Persist, StoreInv, AckedPersisted, FirstWins, Persisted
  <2>3. CASE store[k] = None
    <3>1. store' = [store EXCEPT ![k] = Value(Stream[j])] /\ UNCHANGED <<arrived, acked>>
      BY <1>2, <2>3 DEF Persist
    <3>2. \A q \in 1..(j - 1) : Key(Stream[q]) # k
      <4> SUFFICES ASSUME NEW q \in 1..(j - 1), Key(Stream[q]) = k PROVE FALSE
        OBVIOUS
      <4>1. CASE q <= acked
        BY <2>3, <4>1 DEF StoreInv, AckedPersisted, Persisted
      <4>2. CASE q > acked
        BY <1>2, <2>3, <4>2 DEF Persist, Persisted, StoreInv
      <4>3. QED
        BY <4>1, <4>2 DEF StoreInv
    <3>3. FirstWins'
      <4> SUFFICES ASSUME NEW k2 \in DataKeys, store'[k2] # None
                   PROVE  \E i \in 1..arrived' :
                            /\ Storable(Stream[i])
                            /\ Key(Stream[i]) = k2
                            /\ store'[k2] = Value(Stream[i])
                            /\ \A q \in 1..(i - 1) : Storable(Stream[q]) => Key(Stream[q]) # k2
        BY DEF FirstWins
      <4>1. CASE k2 = k
        BY <1>2, <2>1, <3>1, <3>2, <4>1 DEF Persist, StoreInv
      <4>2. CASE k2 # k
        BY <3>1, <4>2 DEF StoreInv, FirstWins
      <4>3. QED
        BY <4>1, <4>2
    <3>4. QED
      BY <2>1, <3>1, <3>3 DEF StoreInv, AckedPersisted, Persisted
  <2>4. QED
    BY <2>2, <2>3
<1>3. ASSUME NEW n \in 1..Len(Stream), Acknowledge(n) PROVE StoreInv'
  <2>1. acked' = n /\ n \in (acked + 1)..arrived /\ UNCHANGED <<arrived, store>>
    BY <1>3 DEF Acknowledge
  <2>2. \A q \in 1..n : Persisted(q)
    <3> SUFFICES ASSUME NEW q \in 1..n PROVE Persisted(q)
      OBVIOUS
    <3>1. CASE q <= acked
      BY <3>1 DEF StoreInv, AckedPersisted
    <3>2. CASE q > acked
      BY <1>3, <2>1, <3>2 DEF Acknowledge, StoreInv
    <3>3. QED
      BY <3>1, <3>2 DEF StoreInv
  <2>3. QED
    BY <2>1, <2>2 DEF StoreInv, AckedPersisted, FirstWins, Persisted
<1>4. CASE UNCHANGED storeVars
  BY <1>4 DEF storeVars, StoreInv, AckedPersisted, FirstWins, Persisted
<1>5. QED
  BY <1>1, <1>2, <1>3, <1>4 DEF Next

\* First write wins: in every behaviour of the abstract historian a stored
\* value is that of the oldest storable point with its key, however often
\* points are persisted again.
THEOREM StoreFirstWins ==
    ASSUME StoreAssumption
    PROVE  Spec => []FirstWins
<1>1. Init => StoreInv
  BY DEF Init, StoreInv, AckedPersisted, FirstWins, StoreValues
<1>2. StoreInv => FirstWins
  BY DEF StoreInv
<1>3. QED
  BY <1>1, <1>2, StoreInvStep, PTL DEF Spec

=============================================================================
