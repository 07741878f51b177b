-------------------------- MODULE OrgUnitTreeProofs --------------------------
(***************************************************************************)
(* Theorems about OrgUnitTree for any units, days and clients.  Types are  *)
(* right whatever interleaves.  What the validators establish is proved    *)
(* for requests that come one at a time (Serial): a payload is then stored *)
(* in the state it was validated in, which is what SerialInv says.         *)
(***************************************************************************)
EXTENDS OrgUnitTree, WellFoundedInduction, TLAPS

\* One request at a time.
Serial == \A c, e \in Clients : c = e

\* All changes take effect at once and last: there is one day.
AtOnce == Horizon = 0

Rows == [Days -> Places \cup {NoParent}]

\* What keeps an active unit in existence, whatever other clients store.
PendingOK ==
  \A c \in Clients : pending[c] # NoPayload =>
    LET p == pending[c] IN
    /\ p.kind \in {"create", "move"} => p.parent # Nowhere
    /\ p.kind = "rename" => Exists(p.unit)
    /\ p.kind = "terminate" => p.on = {} /\ p.parent = Nowhere

TypeInv == TypeOK /\ PendingOK

\* What was validated still holds when the payload is stored.
MoveOK(p) ==
  /\ p.start \in p.on /\ p.off = {}
  /\ \A d \in Days : d < p.start => p.parent[d] = NoParent
  /\ p.parent[p.start] \in Places
  /\ \A d \in Days : p.parent[d] \in {p.parent[p.start], NoParent}
  /\ p.parent[p.start] \in Units => active[p.parent[p.start]] # {}
  /\ ReachesRoot(p.unit, p.parent[p.start], p.start)

CreateOK(p) ==
  /\ Exists(p.unit) => Recreate
  /\ \A d \in Days : p.parent[d] \in Units => active[p.parent[d]] # {}

RenameOK(p) ==
  /\ p.off = {}
  /\ \A d \in Placed(p.unit) : p.parent[d] \in {NoParent, parent[p.unit][d]}

TerminateOK(p) ==
  /\ Children(p.unit, p.start) = {}
  /\ \A d \in p.off : ~(d < p.start)

SerialInv ==
  \A c \in Clients : pending[c] # NoPayload =>
    LET p == pending[c] IN
    /\ p.kind = "create" => CreateOK(p)
    /\ p.kind = "move" => MoveOK(p)
    /\ p.kind = "rename" => RenameOK(p)
    /\ p.kind = "terminate" => TerminateOK(p)
----------------------------------------------------------------------------
\* A set of numbers has a least one ...
LEMMA MinExists ==
  ASSUME NEW S \in SUBSET Nat, S # {}
  PROVE  \E m \in S : \A k \in S : m =< k
PROOF
<1> DEFINE LT == OpToRel(<, Nat)
<1>1. IsWellFoundedOn(LT, Nat)
  BY NatLessThanWellFounded
<1>2. \E x \in S : \A y \in S : ~(<<y, x>> \in LT)
  <2> HIDE DEF LT
  <2> QED BY <1>1, WFMin
<1>3. \A x, y \in Nat : y < x => <<y, x>> \in LT
  BY DEF OpToRel
<1> HIDE DEF LT
<1>4. PICK m \in S : \A y \in S : ~(<<y, m>> \in LT)
  BY <1>2
<1>5. ASSUME NEW k \in S PROVE m =< k
  <2>1. k \in Nat /\ m \in Nat
    OBVIOUS
  <2>2. ~(k < m)
    BY <1>3, <1>4, <2>1, Zenon
  <2> QED BY <2>1, <2>2
<1> QED BY <1>5

\* ... and, if it is bounded, a greatest.
LEMMA MaxExists ==
  ASSUME NEW n \in Nat, NEW S \in SUBSET (0 .. n), S # {}
  PROVE  \E m \in S : \A k \in S : k =< m
PROOF
<1> DEFINE T == {x \in 0 .. n : n - x \in S}
<1>1. T \in SUBSET Nat
  OBVIOUS
<1>2. \A k \in S : n - k \in T
  <2>1. \A k \in S : n - k \in 0 .. n /\ n - (n - k) = k
    OBVIOUS
  <2> QED BY <2>1
<1>3. PICK t \in T : \A k \in T : t =< k
  BY <1>1, <1>2, MinExists
<1>4. n - t \in S /\ t \in 0 .. n
  BY <1>3
<1>5. \A k \in S : k =< n - t
  <2> HIDE DEF T
  <2>1. \A k \in S : t =< n - k /\ k \in 0 .. n
    BY <1>2, <1>3
  <2> QED BY <2>1, <1>4
<1> QED BY <1>4, <1>5

\* First and Final are the ends of what they are taken from.
LEMMA Ends ==
  ASSUME TypeOK, NEW u \in Units, Exists(u)
  PROVE  /\ First(u) \in Placed(u) /\ \A e \in Placed(u) : First(u) =< e
         /\ Final(u) \in Placed(u) /\ \A e \in Placed(u) : e =< Final(u)
PROOF
<1>1. Placed(u) \in SUBSET Days /\ Days = 0 .. Horizon /\ Horizon \in Nat
  BY TreeAssumption DEF Placed, Days
<1>2. Placed(u) # {}
  <2>1. parent[u] \in [Days -> Places \cup {NoParent}]
    BY DEF TypeOK
  <2> QED BY <2>1 DEF Exists, Nowhere, Placed
<1>3. \E m \in Placed(u) : \A e \in Placed(u) : m =< e
  BY <1>1, <1>2, MinExists
<1>4. \E m \in Placed(u) : \A e \in Placed(u) : e =< m
  BY <1>1, <1>2, MaxExists
<1> QED BY <1>3, <1>4 DEF First, Final
----------------------------------------------------------------------------
\* What ensure_bounds puts in the payload is a row of parents that agrees with
\* what is there.
LEMMA EnsureBoundsKeeps ==
  ASSUME TypeOK, NEW u \in Units, Exists(u), NEW from \in Days, NEW to \in Days
  PROVE  /\ EnsureBounds(u, from, to) \in Rows
         /\ \A d \in Placed(u) : EnsureBounds(u, from, to)[d] \in {NoParent, parent[u][d]}
PROOF
<1>1. /\ First(u) \in Placed(u) /\ \A e \in Placed(u) : First(u) =< e
      /\ Final(u) \in Placed(u) /\ \A e \in Placed(u) : e =< Final(u)
  BY Ends
<1>2. Placed(u) \subseteq Days /\ Days = 0 .. Horizon /\ Horizon \in Nat
  BY TreeAssumption DEF Placed, Days
<1>3. parent[u] \in Rows
  BY DEF TypeOK, Rows
<1>4. parent[u][First(u)] \in Places \cup {NoParent} /\ parent[u][Final(u)] \in Places \cup {NoParent}
  BY <1>1, <1>2, <1>3 DEF Rows
<1>5. EnsureBounds(u, from, to) \in Rows
  BY <1>4, Zenon DEF EnsureBounds, Rows
<1>6. ASSUME NEW d \in Placed(u), d \in (from .. First(u)) \cup FirstRow(u)
      PROVE  parent[u][First(u)] = parent[u][d]
  <2>1. CASE d \in FirstRow(u)
    BY <2>1, <1>1, <1>2 DEF FirstRow
  <2>2. CASE d \in from .. First(u)
    <3>1. d = First(u)
      BY <2>2, <1>1, <1>2 DEF Days
    <3> QED BY <3>1
  <2> QED BY <2>1, <2>2, <1>6
<1>7. ASSUME NEW d \in Placed(u), d \in LastRow(u) \cup (Final(u) .. to)
      PROVE  parent[u][Final(u)] = parent[u][d]
  <2>1. CASE d \in LastRow(u)
    BY <2>1, <1>1, <1>2 DEF LastRow
  <2>2. CASE d \in Final(u) .. to
    <3>1. d = Final(u)
      BY <2>2, <1>1, <1>2 DEF Days
    <3> QED BY <3>1
  <2> QED BY <2>1, <2>2, <1>7
<1>8. \A d \in Placed(u) : EnsureBounds(u, from, to)[d] \in {NoParent, parent[u][d]}
  BY <1>2, <1>6, <1>7, Zenon DEF EnsureBounds
<1> QED BY <1>5, <1>8

\* A row that places a unit on some day is not empty, and lies within the places.
LEMMA PlaceRow ==
  ASSUME NEW p \in Places, NEW days \in SUBSET Days, NEW d \in days
  PROVE  /\ Place(p, days) \in Rows
         /\ Place(p, days)[d] = p
         /\ Place(p, days) # Nowhere
         /\ \A e \in Days : Place(p, days)[e] \in {p, NoParent}
         /\ \A e \in Days : e \notin days => Place(p, days)[e] = NoParent
BY TreeAssumption DEF Place, Rows, Nowhere
----------------------------------------------------------------------------
\* The payload that a client computes.
LEMMA Prepared ==
  ASSUME TypeInv, NEW c \in Clients, NEW u \in Units, NEW from \in Starts,
         NEW to \in from .. Horizon, Prepare(c, u, from, to)
  PROVE  \E p \in Payload :
           /\ Submit(c, p)
           /\ p.unit = u /\ p.start = from
           /\ p.kind = "create" => CreateOK(p) /\ p.parent # Nowhere
           /\ p.kind = "move" => MoveOK(p) /\ p.parent # Nowhere
           /\ p.kind = "rename" => RenameOK(p) /\ Exists(u)
           /\ p.kind = "terminate" => TerminateOK(p) /\ p.on = {} /\ p.parent = Nowhere
PROOF
<1>1. from \in Days /\ to \in Days /\ from .. to \in SUBSET Days /\ from \in from .. to
  BY TreeAssumption DEF Days
<1>2. Days \in SUBSET Days /\ {} \in SUBSET Days
  OBVIOUS
<1>3. ASSUME NEW p \in Places, CoveredBy(p, from .. to), p \in Units
      PROVE  active[p] # {}
  BY <1>1, <1>3, TreeAssumption DEF CoveredBy
<1> DEFINE Goal(p) ==
      /\ Submit(c, p)
      /\ p.unit = u /\ p.start = from
      /\ p.kind = "create" => CreateOK(p) /\ p.parent # Nowhere
      /\ p.kind = "move" => MoveOK(p) /\ p.parent # Nowhere
      /\ p.kind = "rename" => RenameOK(p) /\ Exists(u)
      /\ p.kind = "terminate" => TerminateOK(p) /\ p.on = {} /\ p.parent = Nowhere
<1>4. ASSUME NEW q \in Places, PrepareCreate(c, u, q, from, to)
      PROVE  \E p \in Payload : Goal(p)
  <2> DEFINE p == [kind |-> "create", unit |-> u, start |-> from, on |-> from .. to,
                   off |-> Days, parent |-> Place(q, from .. to)]
  <2>1. /\ Place(q, from .. to) \in Rows /\ Place(q, from .. to) # Nowhere
        /\ \A e \in Days : Place(q, from .. to)[e] \in {q, NoParent}
    BY <1>1, PlaceRow
  <2>2. p \in Payload
    BY <1>1, <1>2, <2>1 DEF Payload, Rows
  <2>3. q \in Units => active[q] # {}
    BY <1>3, <1>4 DEF PrepareCreate
  <2>4. CreateOK(p)
    <3>1. Exists(p.unit) => Recreate
      BY <1>4 DEF PrepareCreate
    <3>2. ASSUME NEW d \in Days, p.parent[d] \in Units PROVE active[p.parent[d]] # {}
      <4>1. p.parent[d] = q
        BY <2>1, <3>2, TreeAssumption DEF Places
      <4> QED BY <4>1, <3>2, <2>3
    <3> QED BY <3>1, <3>2, Zenon DEF CreateOK
  <2>5. Submit(c, p)
    BY <1>4 DEF PrepareCreate
  <2>6. Goal(p)
    <3> HIDE DEF CreateOK
    <3> QED BY <2>1, <2>4, <2>5
  <2> QED BY <2>2, <2>6
<1>5. ASSUME NEW q \in Places, PrepareMove(c, u, q, from, to)
      PROVE  \E p \in Payload : Goal(p)
  <2> DEFINE p == [kind |-> "move", unit |-> u, start |-> from, on |-> from .. to,
                   off |-> {}, parent |-> Place(q, from .. to)]
  <2>1. /\ Place(q, from .. to) \in Rows /\ Place(q, from .. to) # Nowhere
        /\ Place(q, from .. to)[from] = q
        /\ \A e \in Days : Place(q, from .. to)[e] \in {q, NoParent}
        /\ \A e \in Days : e < from => Place(q, from .. to)[e] = NoParent
    BY <1>1, PlaceRow
  <2>2. p \in Payload
    BY <1>1, <1>2, <2>1 DEF Payload, Rows
  <2>3. q \in Units => active[q] # {}
    BY <1>3, <1>5 DEF PrepareMove
  <2>4. ReachesRoot(u, q, from) /\ Submit(c, p)
    BY <1>5 DEF PrepareMove
  <2>5. MoveOK(p)
    BY <1>1, <2>1, <2>3, <2>4, Zenon DEF MoveOK
  <2>6. Goal(p)
    BY <2>1, <2>4, <2>5
  <2> QED BY <2>2, <2>6
<1>6. ASSUME PrepareRename(c, u, from, to)
      PROVE  \E p \in Payload : Goal(p)
  <2> DEFINE p == [kind |-> "rename", unit |-> u, start |-> from, on |-> from .. to,
                   off |-> {}, parent |-> EnsureBounds(u, from, to)]
  <2>1. Exists(u) /\ Submit(c, p)
    BY <1>6 DEF PrepareRename
  <2>2. /\ EnsureBounds(u, from, to) \in Rows
        /\ \A d \in Placed(u) : EnsureBounds(u, from, to)[d] \in {NoParent, parent[u][d]}
    BY <1>1, <2>1, EnsureBoundsKeeps DEF TypeInv
  <2>3. p \in Payload
    BY <1>1, <1>2, <2>2 DEF Payload, Rows
  <2>4. RenameOK(p)
    BY <2>2 DEF RenameOK
  <2>5. Goal(p)
    BY <2>1, <2>4
  <2> QED BY <2>3, <2>5
<1>7. ASSUME PrepareTerminate(c, u, from, to)
      PROVE  \E p \in Payload : Goal(p)
  <2> DEFINE p == [kind |-> "terminate", unit |-> u, start |-> from, on |-> {},
                   off |-> from .. to, parent |-> Nowhere]
  <2>1. p \in Payload
    BY <1>1, <1>2 DEF Payload, Nowhere
  <2>2. TerminateOK(p)
    BY <1>1, <1>7 DEF PrepareTerminate, TerminateOK, Days
  <2>3. Goal(p)
    BY <1>7, <2>2 DEF PrepareTerminate
  <2> QED BY <2>1, <2>3
<1> QED BY <1>4, <1>5, <1>6, <1>7 DEF Prepare
----------------------------------------------------------------------------
\* What a stored payload makes of its unit, and that the others stay.
LEMMA Stored ==
  ASSUME TypeInv, NEW c \in Clients, Store(c), NEW p, p = pending[c]
  PROVE  /\ p \in Payload
         /\ active' \in [Units -> SUBSET Days] /\ parent' \in [Units -> Rows]
         /\ active'[p.unit] = (active[p.unit] \ p.off) \cup p.on
         /\ parent'[p.unit] = Merged(p)
         /\ \A x \in Units \ {p.unit} : active'[x] = active[x] /\ parent'[x] = parent[x]
PROOF
<1>1. p \in Payload
  BY DEF Store, TypeInv, TypeOK
<1>2. p.unit \in Units /\ p.on \in SUBSET Days /\ p.off \in SUBSET Days /\ p.parent \in Rows
  BY <1>1 DEF Payload, Rows
<1>3. parent[p.unit] \in Rows /\ active[p.unit] \in SUBSET Days
  BY <1>2 DEF TypeInv, TypeOK, Rows
<1>4. Merged(p) \in Rows
  BY <1>2, <1>3 DEF Merged, Rows
<1>5. /\ active' = [active EXCEPT ![p.unit] = (@ \ p.off) \cup p.on]
      /\ parent' = [parent EXCEPT ![p.unit] = Merged(p)]
  BY DEF Store
<1>6. parent \in [Units -> Rows] /\ active \in [Units -> SUBSET Days]
  BY DEF TypeInv, TypeOK, Rows
<1> QED BY <1>1, <1>2, <1>3, <1>4, <1>5, <1>6

\* A unit that exists keeps existing, and a unit that becomes active exists.
LEMMA StoredExists ==
  ASSUME TypeInv, NEW c \in Clients, Store(c), NEW u \in Units
  PROVE  (Exists(u) => Exists(u)') /\ (active'[u] # {} => Exists(u)')
PROOF
<1> DEFINE p == pending[c]
<1>1. /\ p \in Payload
      /\ active'[p.unit] = (active[p.unit] \ p.off) \cup p.on
      /\ parent'[p.unit] = Merged(p)
      /\ \A x \in Units \ {p.unit} : active'[x] = active[x] /\ parent'[x] = parent[x]
  BY Stored
<1>2. /\ p.kind \in {"create", "move"} => p.parent # Nowhere
      /\ p.kind = "rename" => Exists(p.unit)
      /\ p.kind = "terminate" => p.on = {} /\ p.parent = Nowhere
  BY DEF TypeInv, PendingOK, Store
<1>3. active[u] # {} => Exists(u)
  BY DEF TypeInv, TypeOK
<1>4. CASE u # p.unit
  BY <1>1, <1>3, <1>4 DEF Exists
<1>5. CASE u = p.unit
  <2>1. parent[u] \in Rows /\ p.parent \in Rows
    BY <1>1 DEF TypeInv, TypeOK, Payload, Rows
  <2>2. ASSUME p.kind # "create", NEW d \in Days, p.parent[d] # NoParent \/ parent[u][d] # NoParent
        PROVE  Exists(u)'
    <3>1. Merged(p)[d] # NoParent
      BY <1>5, <2>2 DEF Merged
    <3>2. Merged(p) # Nowhere
      BY <3>1 DEF Nowhere
    <3> QED BY <1>1, <1>5, <3>2 DEF Exists, Nowhere
  <2>3. ASSUME p.kind # "create", p.parent # Nowhere PROVE Exists(u)'
    <3>1. PICK d \in Days : p.parent[d] # NoParent
      BY <2>1, <2>3 DEF Rows, Nowhere
    <3> QED BY <2>2, <2>3, <3>1
  <2>4. ASSUME p.kind # "create", Exists(u) PROVE Exists(u)'
    <3>1. PICK d \in Days : parent[u][d] # NoParent
      BY <2>1, <2>4 DEF Rows, Nowhere, Exists
    <3> QED BY <2>2, <2>4, <3>1
  <2>5. CASE p.kind = "create"
    <3>1. Merged(p) = p.parent /\ p.parent # Nowhere
      BY <1>2, <2>5 DEF Merged
    <3> QED BY <1>1, <1>5, <3>1 DEF Exists, Nowhere
  <2>6. CASE p.kind \in {"move", "rename"}
    BY <1>2, <1>5, <2>3, <2>4, <2>6
  <2>7. CASE p.kind = "terminate"
    <3>1. active'[u] # {} => active[u] # {}
      BY <1>1, <1>2, <1>5, <2>7
    <3> QED BY <1>3, <2>4, <2>7, <3>1
  <2>8. p.kind \in {"create", "move", "rename", "terminate"}
    BY <1>1 DEF Payload
  <2> QED BY <2>5, <2>6, <2>7, <2>8
<1> QED BY <1>4, <1>5

\* TypeInv is inductive, whatever the clients interleave.
LEMMA InitTypeInv == Init => TypeInv
BY DEF Init, TypeInv, TypeOK, PendingOK, Nowhere

LEMMA NextTypeInv == TypeInv /\ [Next]_vars => TypeInv'
PROOF
<1> SUFFICES ASSUME TypeInv, [Next]_vars PROVE TypeInv'
  OBVIOUS
<1>1. CASE UNCHANGED vars
  BY <1>1 DEF vars, TypeInv, TypeOK, PendingOK, Exists, Nowhere
<1>2. ASSUME NEW c \in Clients, NEW u \in Units, NEW from \in Starts,
             NEW to \in from .. Horizon, Prepare(c, u, from, to)
      PROVE  TypeInv'
  <2>1. PICK p \in Payload :
           /\ Submit(c, p)
           /\ p.unit = u
           /\ p.kind \in {"create", "move"} => p.parent # Nowhere
           /\ p.kind = "rename" => Exists(u)
           /\ p.kind = "terminate" => p.on = {} /\ p.parent = Nowhere
    BY <1>2, Prepared
  <2>2. pending' = [pending EXCEPT ![c] = p] /\ active' = active /\ parent' = parent
    BY <2>1 DEF Submit
  <2>3. pending \in [Clients -> Payload \cup {NoPayload}]
    BY DEF TypeInv, TypeOK
  <2>4. TypeOK'
    BY <2>2, <2>3 DEF TypeInv, TypeOK, Exists, Nowhere
  <2>5. PendingOK'
    BY <2>1, <2>2, <2>3 DEF TypeInv, PendingOK, Exists, Nowhere
  <2> QED BY <2>4, <2>5 DEF TypeInv
<1>3. ASSUME NEW c \in Clients, Store(c) PROVE TypeInv'
  <2>1. active' \in [Units -> SUBSET Days] /\ parent' \in [Units -> Rows]
    BY <1>3, Stored
  <2>2. pending' = [pending EXCEPT ![c] = NoPayload] /\ pending \in [Clients -> Payload \cup {NoPayload}]
    BY <1>3 DEF Store, TypeInv, TypeOK
  <2>3. \A x \in Units : (Exists(x) => Exists(x)') /\ (active'[x] # {} => Exists(x)')
    BY <1>3, StoredExists
  <2>4. TypeOK'
    BY <2>1, <2>2, <2>3 DEF TypeOK, Rows
  <2>5. PendingOK'
    <3>1. ASSUME NEW e \in Clients, pending'[e] # NoPayload
          PROVE  /\ pending'[e].kind \in {"create", "move"} => pending'[e].parent # Nowhere
                 /\ pending'[e].kind = "rename" => parent'[pending'[e].unit] # Nowhere
                 /\ pending'[e].kind = "terminate" =>
                      pending'[e].on = {} /\ pending'[e].parent = Nowhere
      <4>1. pending'[e] = pending[e] /\ pending[e] \in Payload
        BY <2>2, <3>1
      <4>2. pending[e].unit \in Units
        BY <4>1 DEF Payload
      <4>3. pending[e].kind = "rename" => parent'[pending[e].unit] # Nowhere
        BY <2>3, <3>1, <4>1, <4>2 DEF TypeInv, PendingOK, Exists, Nowhere
      <4> QED BY <3>1, <4>1, <4>3 DEF TypeInv, PendingOK
    <3> QED BY <3>1 DEF PendingOK, Exists, Nowhere
  <2> QED BY <2>4, <2>5 DEF TypeInv
<1>4. ASSUME NEW c \in Clients, Abandon(c) PROVE TypeInv'
  BY <1>4 DEF Abandon, TypeInv, TypeOK, PendingOK, Exists, Nowhere
<1> QED BY <1>1, <1>2, <1>3, <1>4 DEF Next

\* Every state of the tree and of the requests is well typed, and a unit that is
\* active on some day has been placed.
THEOREM TypeCorrect == Spec => []TypeOK
PROOF
<1>1. TypeInv => TypeOK
  BY DEF TypeInv
<1> QED BY <1>1, InitTypeInv, NextTypeInv, PTL DEF Spec
----------------------------------------------------------------------------
\* One request at a time: a payload is stored in the state it was validated in.
LEMMA InitSerialInv == Init => SerialInv
BY DEF Init, SerialInv

LEMMA NextSerialInv == Serial /\ TypeInv /\ SerialInv /\ [Next]_vars => SerialInv'
PROOF
<1> SUFFICES ASSUME Serial, TypeInv, SerialInv, [Next]_vars PROVE SerialInv'
  OBVIOUS
<1>1. CASE UNCHANGED vars
  BY <1>1 DEF vars, SerialInv, CreateOK, MoveOK, RenameOK, TerminateOK, ReachesRoot, Walk, Children,
              Exists, Nowhere, Placed
<1>2. ASSUME NEW c \in Clients, NEW u \in Units, NEW from \in Starts,
             NEW to \in from .. Horizon, Prepare(c, u, from, to)
      PROVE  SerialInv'
  <2>1. PICK p \in Payload :
           /\ Submit(c, p)
           /\ p.unit = u /\ p.start = from
           /\ p.kind = "create" => CreateOK(p)
           /\ p.kind = "move" => MoveOK(p)
           /\ p.kind = "rename" => RenameOK(p)
           /\ p.kind = "terminate" => TerminateOK(p)
    BY <1>2, Prepared
  <2>2. pending' = [pending EXCEPT ![c] = p] /\ active' = active /\ parent' = parent
    BY <2>1 DEF Submit
  <2>3. \A e \in Clients : pending'[e] = p
    BY <2>2 DEF Serial, TypeInv, TypeOK
  <2>4. /\ p.kind = "create" => CreateOK(p)'
        /\ p.kind = "move" => MoveOK(p)'
        /\ p.kind = "rename" => RenameOK(p)'
        /\ p.kind = "terminate" => TerminateOK(p)'
    BY <2>1, <2>2 DEF CreateOK, MoveOK, RenameOK, TerminateOK, ReachesRoot, Walk, Children,
                      Exists, Nowhere, Placed
  <2> QED BY <2>3, <2>4 DEF SerialInv, CreateOK, MoveOK, RenameOK, TerminateOK,
                            ReachesRoot, Walk, Children, Exists, Nowhere, Placed
<1>3. ASSUME NEW c \in Clients, Store(c) \/ Abandon(c) PROVE SerialInv'
  <2>1. pending' = [pending EXCEPT ![c] = NoPayload]
    BY <1>3 DEF Store, Abandon
  <2>2. \A e \in Clients : pending'[e] = NoPayload
    BY <2>1 DEF Serial, TypeInv, TypeOK
  <2> QED BY <2>2 DEF SerialInv
<1> QED BY <1>1, <1>2, <1>3 DEF Next

\* What is stored for a client is its own payload.
LEMMA StoresIsStore ==
  ASSUME Serial, TypeInv, [Next]_vars, NEW c \in Clients, NEW kinds, Stores(c, kinds)
  PROVE  Store(c) /\ pending[c] # NoPayload /\ pending[c].kind \in kinds
PROOF
<1>1. <<active, parent>>' # <<active, parent>> /\ pending[c] # NoPayload /\ pending[c].kind \in kinds
  BY DEF Stores
<1>2. ~UNCHANGED vars
  BY <1>1 DEF vars
<1>3. ASSUME NEW e \in Clients, NEW u \in Units, NEW from \in Starts,
             NEW to \in from .. Horizon, Prepare(e, u, from, to)
      PROVE  FALSE
  <2>1. PICK p \in Payload : Submit(e, p)
    BY <1>3, Prepared
  <2> QED BY <1>1, <2>1 DEF Submit
<1>4. ASSUME NEW e \in Clients, Abandon(e) PROVE FALSE
  BY <1>1, <1>4 DEF Abandon
<1>5. PICK e \in Clients : Store(e)
  BY <1>2, <1>3, <1>4 DEF Next
<1> QED BY <1>1, <1>5 DEF Serial

\* A move that is stored leaves the unit under the root on its first day.
THEOREM MovesAreSound == Serial => (Spec => MovesReachRoot)
PROOF
<1> SUFFICES ASSUME Serial PROVE Spec => MovesReachRoot
  OBVIOUS
<1>1. ASSUME TypeInv, SerialInv, [Next]_vars, NEW c \in Clients, Stores(c, {"move"})
      PROVE  Walk(active', parent', Root, pending[c].unit, pending[c].start)
  <2> DEFINE p == pending[c]
  <2>1. Store(c) /\ p # NoPayload /\ p.kind = "move"
    BY <1>1, StoresIsStore
  <2>2. MoveOK(p)
    BY <1>1, <2>1 DEF SerialInv
  <2>3. /\ p \in Payload
        /\ active'[p.unit] = (active[p.unit] \ p.off) \cup p.on
        /\ parent'[p.unit] = Merged(p)
        /\ \A x \in Units \ {p.unit} : active'[x] = active[x] /\ parent'[x] = parent[x]
    BY <1>1, <2>1, Stored
  <2>4. p.start \in Days /\ p.unit \in Units
    BY <2>3 DEF Payload
  <2>5. p.start \in active'[p.unit] /\ parent'[p.unit][p.start] = p.parent[p.start]
    BY <2>1, <2>2, <2>3, <2>4, TreeAssumption DEF MoveOK, Merged
  <2> HIDE DEF p
  <2>6. ASSUME NEW R \in SUBSET Places, Root \in R,
               \A x \in Units \ {Root} : p.start \in active'[x] /\ parent'[x][p.start] \in R => x \in R
        PROVE  p.unit \in R
    <3>1. \A x \in Units \ {p.unit} : p.start \in active[x] /\ parent[x][p.start] \in R => x \in R
      BY <2>3, <2>6, TreeAssumption
    <3>2. p.parent[p.start] \in R
      BY <2>2, <2>6, <3>1 DEF MoveOK, ReachesRoot, Walk
    <3> QED BY <2>4, <2>5, <2>6, <3>2, TreeAssumption
  <2> QED BY <2>6, Zenon DEF Walk, p
<1>2. TypeInv /\ SerialInv /\ [Next]_vars =>
        \A c \in Clients : Stores(c, {"move"}) =>
          Walk(active', parent', Root, pending[c].unit, pending[c].start)
  BY <1>1
<1>3. Serial
  OBVIOUS
<1> QED BY <1>2, <1>3, InitTypeInv, NextTypeInv, InitSerialInv, NextSerialInv, PTL
        DEF Spec, MovesReachRoot

\* An edit or a termination that is stored moves nobody.
THEOREM EditsMoveNobody == Serial => (Spec => ParentKept)
PROOF
<1> SUFFICES ASSUME Serial PROVE Spec => ParentKept
  OBVIOUS
<1>1. ASSUME TypeInv, SerialInv, [Next]_vars, NEW c \in Clients,
             Stores(c, {"rename", "terminate"}), NEW u \in Units, NEW d \in Placed(u)
      PROVE  parent'[u][d] = parent[u][d]
  <2> DEFINE p == pending[c]
  <2>1. Store(c) /\ p # NoPayload /\ p.kind \in {"rename", "terminate"}
    BY <1>1, StoresIsStore
  <2>2. /\ p \in Payload
        /\ parent'[p.unit] = Merged(p)
        /\ \A x \in Units \ {p.unit} : parent'[x] = parent[x]
    BY <1>1, <2>1, Stored
  <2>3. d \in Days
    BY DEF Placed
  <2>4. CASE u # p.unit
    BY <2>2, <2>4
  <2>5. CASE u = p.unit
    <3>1. p.parent[d] \in {NoParent, parent[u][d]}
      BY <1>1, <2>1, <2>3, <2>5 DEF SerialInv, RenameOK, TypeInv, PendingOK, Nowhere
    <3> QED BY <2>1, <2>2, <2>3, <2>5, <3>1 DEF Merged
  <2> QED BY <2>4, <2>5
<1>2. TypeInv /\ SerialInv /\ [Next]_vars =>
        \A c \in Clients : Stores(c, {"rename", "terminate"}) =>
          \A u \in Units : \A d \in Placed(u) : parent'[u][d] = parent[u][d]
  BY <1>1
<1>3. Serial
  OBVIOUS
<1> QED BY <1>2, <1>3, InitTypeInv, NextTypeInv, InitSerialInv, NextSerialInv, PTL
        DEF Spec, ParentKept

\* A unit that hangs in the tree is in every set that holds the root and the
\* active children of its members; so it is enough that such a set of the new
\* tree is one of the old tree, but for a unit that is no longer active.
LEMMA HangsStill ==
  ASSUME TypeInv, NEW d \in Days, NEW x \in Units, Walk(active, parent, Root, x, d),
         NEW T \in SUBSET Units, x \notin T,
         \A R \in SUBSET Places :
           /\ Root \in R
           /\ \A y \in Units : d \in active'[y] /\ parent'[y][d] \in R => y \in R
           => \A y \in Units : d \in active[y] /\ parent[y][d] \in R \cup T => y \in R \cup T
  PROVE  Walk(active', parent', Root, x, d)
PROOF
<1>1. ASSUME NEW R \in SUBSET Places, Root \in R,
             \A y \in Units \ {Root} : d \in active'[y] /\ parent'[y][d] \in R => y \in R
      PROVE  x \in R
  <2>1. \A y \in Units : d \in active'[y] /\ parent'[y][d] \in R => y \in R
    BY <1>1, TreeAssumption
  <2>2. \A y \in Units : d \in active[y] /\ parent[y][d] \in R \cup T => y \in R \cup T
    BY <1>1, <2>1
  <2>3. R \cup T \in SUBSET Places /\ Root \in R \cup T
    BY <1>1 DEF Places
  <2>4. x \in R \cup T
    BY <2>2, <2>3 DEF Walk
  <2> QED BY <2>4
<1> QED BY <1>1, Zenon DEF Walk

\* A request leaves everybody in the tree, but on the later days of a move or a
\* termination and below units that are created anew.
THEOREM UnitsStayInTree == Serial => (Spec => StaysInTree)
PROOF
<1> SUFFICES ASSUME Serial PROVE Spec => StaysInTree
  OBVIOUS
<1> DEFINE Kept(c) ==
      LET p == pending[c]
      IN  \A x \in Units, d \in Days :
            /\ Walk(active, parent, Root, x, d) /\ d \in active'[x]
            /\ p.kind \in {"move", "terminate"} => d =< p.start
            /\ p.kind = "create" => ~Exists(p.unit)
            => Walk(active', parent', Root, x, d)
<1>1. ASSUME TypeInv, SerialInv, [Next]_vars, NEW c \in Clients,
             Stores(c, {"create", "move", "rename", "terminate"}),
             NEW p, p = pending[c], NEW x \in Units, NEW d \in Days,
             Walk(active, parent, Root, x, d), d \in active'[x],
             p.kind \in {"move", "terminate"} => d =< p.start,
             p.kind = "create" => ~Exists(p.unit)
      PROVE  Walk(active', parent', Root, x, d)
  <2>1. Store(c) /\ p # NoPayload
    BY <1>1, StoresIsStore
  <2>2. /\ p \in Payload
        /\ active'[p.unit] = (active[p.unit] \ p.off) \cup p.on
        /\ parent'[p.unit] = Merged(p)
        /\ \A y \in Units \ {p.unit} : active'[y] = active[y] /\ parent'[y] = parent[y]
    BY <1>1, <2>1, Stored
  <2>3. /\ p.unit \in Units /\ p.start \in Days
        /\ p.kind \in {"create", "move", "rename", "terminate"}
        /\ d \in Nat /\ p.start \in Nat /\ NoParent \notin Places /\ Root \in Places
    BY <2>2, TreeAssumption DEF Payload, Days, Places
  <2>4. \A y \in Units \ {p.unit} :
          (d \in active'[y] <=> d \in active[y]) /\ parent'[y][d] = parent[y][d]
    BY <2>2
  <2>5. CASE p.kind = "create"
    <3>1. parent[p.unit][d] = NoParent
      BY <1>1, <2>3, <2>5 DEF Exists, Nowhere
    <3>2. ASSUME NEW R \in SUBSET Places, Root \in R,
                 \A y \in Units : d \in active'[y] /\ parent'[y][d] \in R => y \in R,
                 NEW y \in Units, d \in active[y], parent[y][d] \in R \cup {}
          PROVE  y \in R \cup {}
      BY <2>3, <2>4, <3>1, <3>2
    <3> QED BY <1>1, <3>2, HangsStill, {} \in SUBSET Units
  <2>6. CASE p.kind = "rename" \/ (p.kind \in {"move", "terminate"} /\ d < p.start)
    <3>1. d \notin p.off
      BY <1>1, <2>1, <2>3, <2>6 DEF SerialInv, RenameOK, MoveOK, TerminateOK
    <3>2. parent[p.unit][d] \in Places => p.parent[d] \in {NoParent, parent[p.unit][d]}
      BY <1>1, <2>1, <2>3, <2>6
         DEF SerialInv, RenameOK, MoveOK, TypeInv, PendingOK, Nowhere, Placed
    <3>3. parent[p.unit][d] \in Places => parent'[p.unit][d] = parent[p.unit][d]
      BY <2>2, <2>3, <2>6, <3>2 DEF Merged
    <3>4. d \in active[p.unit] => d \in active'[p.unit]
      BY <2>2, <3>1
    <3>5. ASSUME NEW R \in SUBSET Places, Root \in R,
                 \A y \in Units : d \in active'[y] /\ parent'[y][d] \in R => y \in R,
                 NEW y \in Units, d \in active[y], parent[y][d] \in R \cup {}
          PROVE  y \in R \cup {}
      <4>1. d \in active'[y] /\ parent'[y][d] = parent[y][d]
        BY <2>4, <3>3, <3>4, <3>5
      <4> QED BY <3>5, <4>1
    <3> QED BY <1>1, <3>5, HangsStill, {} \in SUBSET Units
  <2>7. CASE p.kind = "move" /\ d = p.start
    <3>1. MoveOK(p)
      BY <1>1, <2>1, <2>7 DEF SerialInv
    <3>2. d \in active'[p.unit] /\ parent'[p.unit][d] = p.parent[d]
      BY <2>2, <2>3, <2>7, <3>1 DEF MoveOK, Merged
    <3>3. ASSUME NEW R \in SUBSET Places, Root \in R,
                 \A y \in Units : d \in active'[y] /\ parent'[y][d] \in R => y \in R,
                 NEW y \in Units, d \in active[y], parent[y][d] \in R \cup {}
          PROVE  y \in R \cup {}
      <4>1. \A z \in Units \ {p.unit} : d \in active[z] /\ parent[z][d] \in R => z \in R
        BY <2>4, <3>3
      <4>2. p.parent[d] \in R
        BY <2>7, <3>1, <3>3, <4>1 DEF MoveOK, ReachesRoot, Walk
      <4>3. p.unit \in R
        BY <2>3, <3>2, <3>3, <4>2
      <4> QED BY <3>3, <4>1, <4>3
    <3> QED BY <1>1, <3>3, HangsStill, {} \in SUBSET Units
  <2>8. CASE p.kind = "terminate" /\ d = p.start
    <3>1. Children(p.unit, d) = {}
      BY <1>1, <2>1, <2>8 DEF SerialInv, TerminateOK
    <3>2. ASSUME NEW R \in SUBSET Places, Root \in R,
                 \A y \in Units : d \in active'[y] /\ parent'[y][d] \in R => y \in R,
                 NEW y \in Units, d \in active[y], parent[y][d] \in R \cup {p.unit}
          PROVE  y \in R \cup {p.unit}
      BY <2>4, <3>1, <3>2 DEF Children
    <3>3. x # p.unit \/ d \in active'[p.unit]
      BY <1>1
    <3>4. CASE x # p.unit
      BY <1>1, <2>3, <3>2, <3>4, HangsStill, {p.unit} \in SUBSET Units
    <3>5. CASE x = p.unit
      <4>1. /\ \A z \in Units : d \in active[z] => d \in active'[z]
            /\ \A z \in Units : parent[z][d] \in Places => parent'[z][d] = parent[z][d]
        BY <1>1, <2>1, <2>2, <2>3, <2>4, <2>8, <3>5
           DEF Merged, TypeInv, PendingOK, Nowhere
      <4>2. ASSUME NEW R \in SUBSET Places, Root \in R,
                   \A y \in Units : d \in active'[y] /\ parent'[y][d] \in R => y \in R,
                   NEW y \in Units, d \in active[y], parent[y][d] \in R \cup {}
            PROVE  y \in R \cup {}
        BY <4>1, <4>2
      <4> QED BY <1>1, <4>2, HangsStill, {} \in SUBSET Units
    <3> QED BY <3>4, <3>5
  <2> QED BY <1>1, <2>3, <2>5, <2>6, <2>7, <2>8
<1>2. TypeInv /\ SerialInv /\ [Next]_vars =>
        \A c \in Clients : Stores(c, {"create", "move", "rename", "terminate"}) => Kept(c)
  BY <1>1, Zenon
<1>3. Serial
  OBVIOUS
<1> QED BY <1>2, <1>3, InitTypeInv, NextTypeInv, InitSerialInv, NextSerialInv, PTL
        DEF Spec, StaysInTree
----------------------------------------------------------------------------
\* A parent is a unit that exists.  With it, a new unit is nobody's parent yet.
ParentsExist ==
  \A x \in Units : \A d \in Days : parent[x][d] \in Units => Exists(parent[x][d])

\* The tree is a tree from one request to the next.
TreeInv == NoCycles /\ ParentsExist

\* With one day, a unit that exists is placed on all of them.
LEMMA AllDays ==
  ASSUME AtOnce, NEW u \in Units, parent[u] \in Rows, Exists(u)
  PROVE  Days \subseteq Placed(u)
BY DEF AtOnce, Days, Rows, Exists, Nowhere, Placed

LEMMA NextParentsExist ==
  AtOnce /\ TypeInv /\ SerialInv /\ ParentsExist /\ [Next]_vars => ParentsExist'
PROOF
<1> SUFFICES ASSUME AtOnce, TypeInv, SerialInv, ParentsExist, [Next]_vars PROVE ParentsExist'
  OBVIOUS
<1>1. CASE UNCHANGED parent
  BY <1>1 DEF ParentsExist, Exists, Nowhere
<1>2. ASSUME NEW c \in Clients, Store(c) PROVE ParentsExist'
  <2> DEFINE p == pending[c]
  <2>1. /\ p \in Payload
        /\ parent'[p.unit] = Merged(p)
        /\ \A x \in Units \ {p.unit} : parent'[x] = parent[x]
    BY <1>2, Stored
  <2>2. \A x \in Units : Exists(x) => Exists(x)'
    BY <1>2, StoredExists
  <2>3. \A x \in Units : active[x] # {} => Exists(x)
    BY DEF TypeInv, TypeOK
  <2>4. /\ p.kind = "create" => CreateOK(p)
        /\ p.kind = "move" => MoveOK(p)
        /\ p.kind = "rename" => RenameOK(p) /\ Exists(p.unit)
        /\ p.kind = "terminate" => p.parent = Nowhere
    BY <1>2 DEF SerialInv, TypeInv, PendingOK, Store
  <2>5. parent \in [Units -> Rows] /\ p.parent \in Rows
    BY <2>1 DEF TypeInv, TypeOK, Payload, Rows
  <2> HIDE DEF p
  <2>6. p.kind = "rename" => Days \subseteq Placed(p.unit)
    BY <2>1, <2>4, <2>5, AllDays DEF Payload
  <2>7. ASSUME NEW d \in Days, Merged(p)[d] \in Units
        PROVE  Exists(Merged(p)[d])
    <3>1. CASE Merged(p)[d] = parent[p.unit][d]
      BY <2>1, <2>7, <3>1 DEF ParentsExist, Payload
    <3>2. CASE Merged(p)[d] # parent[p.unit][d]
      <4>1. Merged(p)[d] = p.parent[d]
        BY <2>1, <3>2 DEF Merged
      <4>2. p.parent[d] # NoParent /\ p.parent[d] \in Units
        BY <2>7, <4>1, TreeAssumption DEF Places
      <4>3. CASE p.kind \in {"create", "move"}
        BY <2>3, <2>4, <4>1, <4>2, <4>3 DEF CreateOK, MoveOK
      <4>4. CASE p.kind = "terminate"
        BY <2>4, <4>2, <4>4 DEF Nowhere
      <4>5. CASE p.kind = "rename"
        <5>1. CASE d \in Placed(p.unit)
          BY <2>4, <3>2, <4>1, <4>2, <4>5, <5>1 DEF RenameOK
        <5>2. CASE d \notin Placed(p.unit)
          BY <2>4, <2>6, <4>5, <5>2
        <5> QED BY <5>1, <5>2
      <4> QED BY <2>1, <4>3, <4>4, <4>5 DEF Payload
    <3> QED BY <3>1, <3>2
  <2>8. ASSUME NEW x \in Units, NEW d \in Days, parent'[x][d] \in Units
        PROVE  parent'[parent'[x][d]] # Nowhere
    <3>1. Exists(parent'[x][d])
      BY <2>1, <2>7, <2>8 DEF ParentsExist
    <3> QED BY <2>2, <2>8, <3>1 DEF Exists, Nowhere
  <2> QED BY <2>8 DEF ParentsExist, Exists, Nowhere
<1>3. ASSUME NEW c \in Clients, NEW u \in Units, NEW from \in Starts,
             NEW to \in from .. Horizon, Prepare(c, u, from, to)
      PROVE  UNCHANGED parent
  <2>1. PICK p \in Payload : Submit(c, p)
    BY <1>3, Prepared
  <2> QED BY <2>1 DEF Submit
<1> QED BY <1>1, <1>2, <1>3 DEF Next, Abandon, vars

\* A step that stores an edit or a termination changes nobody's parent.
LEMMA EditStored ==
  ASSUME AtOnce, TypeInv, SerialInv, NEW c \in Clients, Store(c),
         pending[c].kind \in {"rename", "terminate"}
  PROVE  parent' = parent
PROOF
<1> DEFINE p == pending[c]
<1>1. /\ p \in Payload
      /\ parent' \in [Units -> Rows]
      /\ parent'[p.unit] = Merged(p)
      /\ \A x \in Units \ {p.unit} : parent'[x] = parent[x]
  BY Stored
<1>2. /\ p.kind = "rename" => RenameOK(p) /\ Exists(p.unit)
      /\ p.kind = "terminate" => p.parent = Nowhere
  BY DEF SerialInv, TypeInv, PendingOK, Store
<1>3. parent \in [Units -> Rows] /\ p.unit \in Units
  BY <1>1 DEF TypeInv, TypeOK, Rows, Payload
<1>4. p.kind = "rename" => Days \subseteq Placed(p.unit)
  BY <1>2, <1>3, AllDays
<1>5. \A d \in Days : p.parent[d] \in {NoParent, parent[p.unit][d]}
  BY <1>2, <1>4 DEF RenameOK, Nowhere
<1>6. \A d \in Days : Merged(p)[d] = parent[p.unit][d]
  BY <1>5 DEF Merged
<1>7. parent'[p.unit] = parent[p.unit]
  BY <1>1, <1>3, <1>6 DEF Rows
<1> QED BY <1>1, <1>3, <1>7

\* A set that is closed under parents after a move or a create was so before.
LEMMA NextNoCycles ==
  AtOnce /\ ~Recreate /\ TypeInv /\ SerialInv /\ TreeInv /\ [Next]_vars => NoCycles'
PROOF
<1> SUFFICES ASSUME AtOnce, ~Recreate, TypeInv, SerialInv, TreeInv, [Next]_vars,
                    NEW d \in Days, NEW S \in SUBSET Units, Cyclic(S, d)'
             PROVE  FALSE
  BY DEF NoCycles
<1>1. S # {} /\ \A x \in S : parent'[x][d] \in S
  BY DEF Cyclic
<1>2. CASE UNCHANGED parent
  BY <1>1, <1>2 DEF TreeInv, NoCycles, Cyclic
<1>3. ASSUME NEW c \in Clients, Store(c) PROVE FALSE
  <2> DEFINE p == pending[c]
  <2>1. /\ p \in Payload
        /\ parent'[p.unit] = Merged(p)
        /\ \A x \in Units \ {p.unit} : parent'[x] = parent[x]
    BY <1>3, Stored
  <2>2. /\ p.kind = "create" => CreateOK(p)
        /\ p.kind = "move" => MoveOK(p)
    BY <1>3 DEF SerialInv, Store
  <2>3. d = 0 /\ p.start = 0 /\ p.unit \in Units
    BY <2>1 DEF AtOnce, Days, Payload
  <2>4. CASE p.kind \in {"rename", "terminate"}
    BY <1>2, <1>3, <2>4, EditStored
  <2>5. CASE p.unit \notin S
    BY <1>1, <2>1, <2>5 DEF TreeInv, NoCycles, Cyclic
  <2>6. CASE p.kind = "move" /\ p.unit \in S
    <3> DEFINE R == Places \ S
    <3>1. Root \in R /\ R \in SUBSET Places
      BY TreeAssumption DEF Places
    <3>2. ASSUME NEW x \in Units \ {p.unit}, parent[x][p.start] \in R PROVE x \in R
      BY <1>1, <2>1, <2>3, <3>2 DEF Places
    <3>3. p.parent[p.start] \in R
      BY <2>2, <2>6, <3>1, <3>2 DEF MoveOK, ReachesRoot, Walk
    <3>4. parent'[p.unit][d] = p.parent[p.start]
      BY <2>1, <2>2, <2>3, <2>6, TreeAssumption DEF MoveOK, Merged
    <3> QED BY <1>1, <2>6, <3>3, <3>4
  <2>7. CASE p.kind = "create" /\ p.unit \in S
    <3> DEFINE q == p.parent[d]
               T == S \ {p.unit}
    <3>1. parent'[p.unit][d] = q
      BY <2>1, <2>7 DEF Merged
    <3>2. q \in S /\ q \in Units
      BY <1>1, <2>7, <3>1
    <3>3. ~Exists(p.unit)
      BY <2>2, <2>7 DEF CreateOK
    <3>4. Exists(q)
      BY <2>2, <2>7, <3>2 DEF CreateOK, TypeInv, TypeOK
    <3>5. q \in T
      BY <3>2, <3>3, <3>4
    <3>6. ASSUME NEW x \in T PROVE parent[x][d] \in T
      <4>1. parent[x][d] \in S
        BY <1>1, <2>1
      <4>2. Exists(parent[x][d])
        BY <4>1 DEF TreeInv, ParentsExist
      <4> QED BY <3>3, <4>1, <4>2
    <3>7. Cyclic(T, d)
      BY <3>5, <3>6 DEF Cyclic
    <3> QED BY <3>7 DEF TreeInv, NoCycles
  <2> QED BY <2>1, <2>4, <2>5, <2>6, <2>7 DEF Payload
<1>4. ASSUME NEW c \in Clients, NEW u \in Units, NEW from \in Starts,
             NEW to \in from .. Horizon, Prepare(c, u, from, to)
      PROVE  UNCHANGED parent
  <2>1. PICK p \in Payload : Submit(c, p)
    BY <1>4, Prepared
  <2> QED BY <2>1 DEF Submit
<1> QED BY <1>2, <1>3, <1>4 DEF Next, Abandon, vars

\* When requests come one at a time, take effect at once and last, and no create
\* brings the UUID of another unit, the units always form a tree.
THEOREM TreeStaysATree == Serial /\ AtOnce /\ ~Recreate => (Spec => []NoCycles)
PROOF
<1> SUFFICES ASSUME Serial, AtOnce, ~Recreate PROVE Spec => []NoCycles
  OBVIOUS
<1>1. Init => TreeInv
  BY TreeAssumption DEF Init, TreeInv, NoCycles, Cyclic, ParentsExist, Nowhere, Places
<1>2. TypeInv /\ SerialInv /\ TreeInv /\ [Next]_vars => TreeInv'
  BY NextParentsExist, NextNoCycles DEF TreeInv
<1>3. TypeInv /\ SerialInv /\ [Next]_vars => SerialInv'
  BY NextSerialInv
<1>4. TreeInv => NoCycles
  BY DEF TreeInv
<1> QED BY <1>1, <1>2, <1>3, <1>4, InitTypeInv, NextTypeInv, InitSerialInv, PTL DEF Spec
==============================================================================
