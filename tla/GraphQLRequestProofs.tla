------------------------ MODULE GraphQLRequestProofs -------------------------
(***************************************************************************)
(* Theorems about GraphQLRequest for requests of any size.                 *)
(***************************************************************************)
EXTENDS GraphQLRequest, FiniteSetTheorems, TLAPS

\* While the transaction is open it holds the changes of what has been written.
OpenHoldsChanges ==
  tx = "open" =>
    changes = {m \in Mutations : step[m] \in {"written", "done"} /\ outcome[m] = "change"}

\* Nothing is told or stored before the request ends, and who is told of
\* success has no sub-mutation under way.
AnsweredLast ==
  /\ phase = "running" => answer = "none" /\ stored = {}
  /\ stored # {} \/ answer = "success" => \A m \in Requested : step[m] = "done"

\* With the client's reads logged, a transaction that was aborted has read before.
ReadersLog ==
  AccessLog /\ ~exempt /\ phase = "running" =>
    /\ \A m \in Mutations : step[m] = "read" => logged
    /\ tx = "aborted" => logged

Inv ==
  /\ TypeOK /\ OpenHoldsChanges /\ AnsweredLast /\ ReadersLog
  /\ Atomic /\ ErrorsKeepNothing /\ LoggedSuccessIsKept
----------------------------------------------------------------------------
\* The order of the fields is a sequence of sub-mutations.
LEMMA OrdersAreSequences ==
  ASSUME NEW S \in SUBSET Mutations, NEW s \in SetToSeqs(S)
  PROVE  s \in Seq(Mutations)
PROOF
<1>1. IsFiniteSet(S)
  BY MutationsAssumption, FS_Subset
<1>2. Cardinality(S) \in Nat
  BY <1>1, FS_CardinalityType
<1>3. s \in [1 .. Cardinality(S) -> S]
  BY DEF SetToSeqs
<1> QED BY <1>2, <1>3

\* The types hold at first.
LEMMA InitTypeOK == Init => TypeOK
PROOF
<1> SUFFICES ASSUME Init PROVE TypeOK
  OBVIOUS
<1>1. order \in Seq(Mutations)
  BY DEF Init
<1>2. outcome \in [Mutations -> Outcome] /\ step \in [Mutations -> Step]
  BY DEF Init, Outcome, Step
<1>3. tx = "closed" /\ phase = "idle"
  BY DEF Init
<1> QED BY <1>1, <1>2, <1>3 DEF Init, TypeOK

\* Every step keeps the types.
LEMMA NextTypeOK == TypeOK /\ [Next]_vars => TypeOK'
PROOF
<1> SUFFICES ASSUME TypeOK, [Next]_vars PROVE TypeOK'
  OBVIOUS
<1> USE DEF TypeOK
<1>1. ASSUME NEW S \in SUBSET Mutations \ {{}}, Arrive(S) PROVE TypeOK'
  BY <1>1, OrdersAreSequences DEF Arrive, Step
<1>2. ASSUME NEW m \in Mutations, Read(m) PROVE TypeOK'
  BY <1>2, AccessLogAssumption DEF Read, Step
<1>3. ASSUME NEW m \in Mutations, Write(m) PROVE TypeOK'
  BY <1>3 DEF Write, Step
<1>4. ASSUME NEW m \in Mutations, Select(m) PROVE TypeOK'
  BY <1>4 DEF Select, Step
<1>5. CASE Answer
  BY <1>5 DEF Answer, Commit, Rollback
<1>6. CASE Close
  BY <1>6 DEF Close
<1>7. CASE Crash
  BY <1>7 DEF Crash, Step
<1>8. CASE UNCHANGED vars
  BY <1>8 DEF vars
<1> QED BY <1>1, <1>2, <1>3, <1>4, <1>5, <1>6, <1>7, <1>8 DEF Next

\* Inv holds at first.
LEMMA InitInv == Init => Inv
BY InitTypeOK DEF Init, Inv, OpenHoldsChanges, AnsweredLast, ReadersLog, Atomic,
   ErrorsKeepNothing, LoggedSuccessIsKept, SuccessIsKept, Requested

\* A statement of a sub-mutation belongs to a request that is under way, or is
\* a straggler of a list that was answered with an error.
LEMMA StatementStep ==
  ASSUME Inv, TypeOK', NEW m \in Mutations, Read(m) \/ Write(m) \/ Select(m)
  PROVE  Inv'
PROOF
<1>1. /\ step[m] \in {"waiting", "read", "written"}
      /\ UNCHANGED <<phase, exempt, outcome, answer, stored>>
      /\ step'[m] \in {"read", "written", "done", "failed"}
      /\ \A n \in Mutations \ {m} : step'[n] = step[n]
  BY DEF Read, Write, Select, Inv, TypeOK
<1>2. m \in Requested /\ stored = {} /\ answer # "success"
  BY <1>1 DEF Inv, AnsweredLast, Requested
<1>3. OpenHoldsChanges'
  <2>1. CASE Read(m)
    BY <1>1, <2>1 DEF Read, Inv, OpenHoldsChanges, TypeOK
  <2>2. CASE Write(m)
    <3>1. CASE tx = "open" /\ outcome[m] = "change"
      <4>1. tx' = "open" /\ changes' = changes \cup {m} /\ step'[m] = "written" /\ outcome' = outcome
        BY <2>2, <3>1 DEF Write, Inv, TypeOK
      <4> QED BY <1>1, <3>1, <4>1 DEF Inv, OpenHoldsChanges
    <3>2. CASE ~(tx = "open" /\ outcome[m] = "change")
      BY <2>2, <3>2 DEF Write, OpenHoldsChanges
    <3> QED BY <3>1, <3>2
  <2>3. CASE Select(m)
    BY <1>1, <2>3 DEF Select, Inv, OpenHoldsChanges, TypeOK
  <2> QED BY <2>1, <2>2, <2>3
<1>4. AnsweredLast' /\ Atomic' /\ ErrorsKeepNothing' /\ LoggedSuccessIsKept'
  BY <1>1, <1>2 DEF Inv, AnsweredLast, Atomic, ErrorsKeepNothing, LoggedSuccessIsKept,
     SuccessIsKept
<1>5. ReadersLog'
  <2> SUFFICES ASSUME AccessLog, ~exempt', phase' = "running"
               PROVE  /\ \A n \in Mutations : step'[n] = "read" => logged'
                      /\ tx' = "aborted" => logged'
    BY DEF ReadersLog
  <2>1. /\ \A n \in Mutations : step[n] = "read" => logged
        /\ tx = "aborted" => logged
    BY <1>1 DEF Inv, ReadersLog
  <2>2. CASE Read(m)
    <3>1. ~exempt
      BY <1>1
    <3> QED BY <2>2, <3>1 DEF Read
  <2>3. CASE Write(m)
    BY <1>1, <2>1, <2>3 DEF Write, Inv, TypeOK
  <2>4. CASE Select(m)
    BY <1>1, <2>1, <2>4 DEF Select, Inv, TypeOK
  <2> QED BY <2>2, <2>3, <2>4
<1> QED BY <1>3, <1>4, <1>5 DEF Inv

\* The request ends: what is stored and what is told agree.
LEMMA AnswerStep ==
  ASSUME Inv, TypeOK', Answer
  PROVE  Inv'
PROOF
<1>1. /\ phase = "running" /\ tx' = "closed" /\ phase' = "closing"
      /\ tx \in {"open", "aborted"}
      /\ UNCHANGED <<exempt, outcome, step>>
      /\ Requested' = Requested /\ Failed' = Failed
  BY DEF Answer, Requested, Failed, Inv, TypeOK
<1>2. CASE Failed # {}
  <2>1. stored' = {} /\ answer' = "errors"
    BY <1>2 DEF Answer, RollsBack, Rollback
  <2> QED BY <1>1, <2>1 DEF Inv, OpenHoldsChanges, AnsweredLast, ReadersLog, Atomic,
          ErrorsKeepNothing, LoggedSuccessIsKept, SuccessIsKept
<1>3. CASE Failed = {}
  <2>1. /\ stored' = IF tx = "open" THEN changes ELSE {}
        /\ answer' = IF tx = "aborted" /\ logged THEN "internal error" ELSE "success"
    BY <1>3 DEF Answer, RollsBack, Commit
  <2>2. \A m \in Requested : step[m] = "done"
    BY <1>3 DEF Answer, Ended, Over, Failed, Requested
  <2>3. tx = "open" => stored' = {m \in Requested : outcome[m] = "change"}
    BY <2>1, <2>2 DEF Inv, OpenHoldsChanges, Requested
  <2>4. AccessLog /\ ~exempt => (tx = "aborted" => logged)
    BY <1>1 DEF Inv, ReadersLog
  <2>5. Atomic' /\ LoggedSuccessIsKept'
    BY <1>1, <1>3, <2>1, <2>3, <2>4 DEF Atomic, LoggedSuccessIsKept, SuccessIsKept
  <2>6. OpenHoldsChanges' /\ AnsweredLast' /\ ReadersLog' /\ ErrorsKeepNothing'
    BY <1>1, <2>1, <2>2 DEF OpenHoldsChanges, AnsweredLast, ReadersLog, ErrorsKeepNothing
  <2> QED BY <2>5, <2>6 DEF Inv
<1> QED BY <1>2, <1>3

\* Every step keeps Inv.
LEMMA NextInv == Inv /\ [Next]_vars => Inv'
PROOF
<1> SUFFICES ASSUME Inv, [Next]_vars PROVE Inv'
  OBVIOUS
<1>1. TypeOK'
  BY NextTypeOK DEF Inv
<1>2. ASSUME NEW S \in SUBSET Mutations \ {{}}, Arrive(S) PROVE Inv'
  BY <1>1, <1>2 DEF Arrive, Inv, OpenHoldsChanges, AnsweredLast, ReadersLog, Atomic,
     ErrorsKeepNothing, LoggedSuccessIsKept, SuccessIsKept
<1>3. ASSUME NEW m \in Mutations, Read(m) \/ Write(m) \/ Select(m) PROVE Inv'
  BY <1>1, <1>3, StatementStep
<1>4. CASE Answer
  BY <1>1, <1>4, AnswerStep
<1>5. CASE Close
  BY <1>1, <1>5 DEF Close, Inv, OpenHoldsChanges, AnsweredLast, ReadersLog, Atomic,
     ErrorsKeepNothing, LoggedSuccessIsKept, SuccessIsKept, Requested, Failed, TypeOK
<1>6. CASE Crash
  BY <1>1, <1>6 DEF Crash, Inv, OpenHoldsChanges, AnsweredLast, ReadersLog, Atomic,
     ErrorsKeepNothing, LoggedSuccessIsKept, SuccessIsKept, Requested
<1>7. CASE UNCHANGED vars
  BY <1>1, <1>7 DEF vars, Inv, OpenHoldsChanges, AnsweredLast, ReadersLog, Atomic,
     ErrorsKeepNothing, LoggedSuccessIsKept, SuccessIsKept, Requested, Failed
<1> QED BY <1>2, <1>3, <1>4, <1>5, <1>6, <1>7 DEF Next
----------------------------------------------------------------------------
\* The request and its transaction keep their types.
THEOREM TypeCorrect == Spec => []TypeOK
BY InitTypeOK, NextTypeOK, PTL DEF Spec

\* All the changes of a request are committed or none, whatever fails and
\* however the elements of a list interleave.
THEOREM RequestsAreAtomic == Spec => []Atomic
PROOF
<1>1. Inv => Atomic
  BY DEF Inv
<1> QED BY <1>1, InitInv, NextInv, PTL DEF Spec

\* Nothing is kept of a request that is answered with an error.
THEOREM ErrorsAreRolledBack == Spec => []ErrorsKeepNothing
PROOF
<1>1. Inv => ErrorsKeepNothing
  BY DEF Inv
<1> QED BY <1>1, InitInv, NextInv, PTL DEF Spec

\* Where the access log is on and does not leave the client out, the commit
\* notices that the transaction was aborted: a request that is answered with
\* success was stored.
THEOREM LoggedIsKept == Spec => []LoggedSuccessIsKept
PROOF
<1>1. Inv => LoggedSuccessIsKept
  BY DEF Inv
<1> QED BY <1>1, InitInv, NextInv, PTL DEF Spec
==============================================================================
