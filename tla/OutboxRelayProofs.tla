------------------------- MODULE OutboxRelayProofs -------------------------
(***************************************************************************)
(* Proofs about OutboxRelay, for any events, relays, batch size and number *)
(* of failures: no two relays hold the same event, an event is published   *)
(* once and once more for each batch that was lost, nothing uncommitted is *)
(* published, attempts counts no failure, and the relays implement         *)
(* AtLeastOnce.                                                            *)
(***************************************************************************)
EXTENDS OutboxRelay, FiniteSetTheorems, TLAPS

\* What a relay holds goes with where it stands.
HoldsByStep ==
    \A r \in Relays :
        /\ sent[r] \subseteq batch[r]
        /\ pc[r] \in {"stopped", "poll"} => batch[r] = {}
        /\ pc[r] # "publish" => sent[r] = {} /\ r \notin cut

\* Only events of committed transactions are ever claimed, processed or lost.
OnlyCommitted ==
    /\ \A r \in Relays : \A e \in batch[r] : writing[e] = "committed"
    /\ \A e \in Events :
           e \in processed \/ lost[e] > 0 => writing[e] = "committed"

RelayParts ==
    /\ HoldsByStep
    /\ BatchesAreApart
    /\ OnlyCommitted
    /\ PublishedOnceOrLost
    /\ AttemptsForgetFailures
RelayInv == TypeOK /\ RelayParts

-----------------------------------------------------------------------------
LEMMA RelayInit == Init => RelayInv
<1> SUFFICES ASSUME Init PROVE RelayInv
    OBVIOUS
<1>1. TypeOK
    BY OutboxAssumption DEF Init, TypeOK
<1>2. HoldsByStep /\ BatchesAreApart /\ OnlyCommitted
    BY DEF Init, HoldsByStep, BatchesAreApart, OnlyCommitted
<1>3. PublishedOnceOrLost /\ AttemptsForgetFailures
    BY DEF Init, PublishedOnceOrLost, AttemptsForgetFailures, InFlight
<1> QED  BY <1>1, <1>2, <1>3 DEF RelayInv, RelayParts

LEMMA TypeNext == TypeOK /\ [Next]_vars => TypeOK'
<1> SUFFICES ASSUME TypeOK, [Next]_vars PROVE TypeOK'
    OBVIOUS
<1> USE DEF TypeOK, outboxVars, relayVars, historyVars
<1>1. ASSUME NEW e \in Events, BeginTx(e) PROVE TypeOK'
    <2>1. IsFiniteSet(Begun) /\ Begun \subseteq Events
        BY OutboxAssumption, FS_Subset DEF Begun
    <2>2. Cardinality(Begun) + 1 \in Nat
        BY <2>1, FS_CardinalityType
    <2> QED  BY <1>1, <2>2 DEF BeginTx
<1>2. ASSUME NEW e \in Events, EndTx(e) PROVE TypeOK'
    BY <1>2 DEF EndTx
<1>3. ASSUME NEW r \in Relays, Start(r) PROVE TypeOK'
    BY <1>3 DEF Start
<1>4. ASSUME NEW r \in Relays, Poll(r) PROVE TypeOK'
    BY <1>4 DEF Poll
<1>5. ASSUME NEW r \in Relays, VisitRow(r) PROVE TypeOK'
    BY <1>5 DEF VisitRow
<1>6. ASSUME NEW r \in Relays, HasBatch(r) PROVE TypeOK'
    BY <1>6 DEF HasBatch
<1>7. ASSUME NEW r \in Relays, NothingLeft(r) PROVE TypeOK'
    BY <1>7 DEF NothingLeft
<1>8. ASSUME NEW r \in Relays, Publish(r) PROVE TypeOK'
    BY <1>8 DEF Publish
<1>9. ASSUME NEW r \in Relays, Finish(r) PROVE TypeOK'
    BY <1>9 DEF Finish, Marked, Tried
<1>10. ASSUME NEW r \in Relays, Fail(r) PROVE TypeOK'
    BY <1>10, OutboxAssumption DEF Fail, LostWith, Stop
<1>11. ASSUME NEW r \in Relays, LoseConnection(r) PROVE TypeOK'
    BY <1>11, OutboxAssumption DEF LoseConnection, LostWith
<1>12. ASSUME NEW r \in Relays, FindsConnectionLost(r) PROVE TypeOK'
    BY <1>12 DEF FindsConnectionLost, Stop
<1>13. CASE UNCHANGED vars
    BY <1>13 DEF vars
<1> QED
    BY <1>1, <1>2, <1>3, <1>4, <1>5, <1>6, <1>7, <1>8, <1>9, <1>10, <1>11, <1>12,
       <1>13 DEF Next, RelayStep

\* A step that moves a relay on, or begins or ends the transaction of a
\* checkout, and leaves batches and what was published alone.
LEMMA RelayUnmoved ==
    ASSUME RelayInv, HoldsByStep',
           UNCHANGED <<processed, attempts, batch, sent, cut, published, lost>>,
           \A e \in Events : writing[e] = "committed" => writing'[e] = "committed"
    PROVE  RelayParts'
<1> USE DEF RelayInv, RelayParts
<1>0. \A r \in Relays : batch[r] \subseteq Events
    BY DEF TypeOK
<1>1. BatchesAreApart'
    BY <1>0 DEF BatchesAreApart, Pending
<1>2. OnlyCommitted'
    BY <1>0 DEF OnlyCommitted
<1>3. PublishedOnceOrLost' /\ AttemptsForgetFailures'
    BY DEF PublishedOnceOrLost, AttemptsForgetFailures, InFlight
<1> QED  BY <1>1, <1>2, <1>3

\* A claim comes to a row: what it takes nobody else has.
LEMMA RelayVisit ==
    ASSUME RelayInv, NEW r \in Relays, VisitRow(r)
    PROVE  RelayParts'
<1> USE DEF RelayInv, RelayParts
<1>1. PICK e \in scan[r] :
          batch' = [batch EXCEPT ![r] =
              IF Free(r, e) /\ Pending(e) THEN @ \cup {e} ELSE @]
    BY DEF VisitRow
<1>2. /\ pc[r] = "claim"
      /\ UNCHANGED <<writing, processed, attempts, pc, sent, cut, published, lost>>
    BY DEF VisitRow, outboxVars, historyVars
<1>3. /\ batch'[r] = IF Free(r, e) /\ Pending(e) THEN batch[r] \cup {e} ELSE batch[r]
      /\ \A q \in Relays \ {r} : batch'[q] = batch[q]
    BY <1>1 DEF TypeOK
<1>4. HoldsByStep'
    BY <1>2, <1>3 DEF HoldsByStep
<1>5. BatchesAreApart'
    BY <1>2, <1>3 DEF BatchesAreApart, Free, Pending
<1>6. OnlyCommitted'
    BY <1>2, <1>3 DEF OnlyCommitted, Pending
<1>7. PublishedOnceOrLost' /\ AttemptsForgetFailures'
    BY <1>2 DEF PublishedOnceOrLost, AttemptsForgetFailures, InFlight
<1> QED  BY <1>4, <1>5, <1>6, <1>7

\* Publishing: as long as the transaction lives, the event was held by nobody
\* else and not processed, so this is the first time since its last loss;
\* without its connection the relay publishes a loss.
LEMMA RelayPublish ==
    ASSUME RelayInv, NEW r \in Relays, Publish(r)
    PROVE  RelayParts'
<1> USE DEF RelayInv, RelayParts
<1>1. PICK e \in batch[r] \ sent[r] :
          /\ sent' = [sent EXCEPT ![r] = @ \cup {e}]
          /\ published' = [published EXCEPT ![e] = @ + 1]
          /\ lost' = IF r \in cut THEN [lost EXCEPT ![e] = @ + 1] ELSE lost
    BY DEF Publish
<1>2. /\ pc[r] = "publish" /\ e \in Events
      /\ published[e] \in Nat /\ lost[e] \in Nat
      /\ UNCHANGED <<writing, processed, attempts, pc, batch, cut>>
    BY DEF Publish, outboxVars, TypeOK
<1>3. /\ sent'[r] = sent[r] \cup {e}
      /\ \A q \in Relays \ {r} : sent'[q] = sent[q]
      /\ published'[e] = published[e] + 1
      /\ lost'[e] = IF r \in cut THEN lost[e] + 1 ELSE lost[e]
      /\ \A d \in Events \ {e} : published'[d] = published[d] /\ lost'[d] = lost[d]
    BY <1>1, <1>2 DEF TypeOK
<1>4. HoldsByStep'
    BY <1>1, <1>2, <1>3 DEF HoldsByStep
<1>5. BatchesAreApart' /\ AttemptsForgetFailures'
    BY <1>2 DEF BatchesAreApart, Pending, AttemptsForgetFailures
<1>6. OnlyCommitted'
    BY <1>1, <1>2, <1>3 DEF OnlyCommitted
<1>7. \A d \in Events \ {e} : InFlight(d)' <=> InFlight(d)
    BY <1>2, <1>3 DEF InFlight
<1>8. \A d \in Events \ {e} : published'[d] =
          lost'[d] + (IF d \in processed' \/ InFlight(d)' THEN 1 ELSE 0)
    BY <1>2, <1>3, <1>7 DEF PublishedOnceOrLost
<1>9. published'[e] = lost'[e] + (IF e \in processed' \/ InFlight(e)' THEN 1 ELSE 0)
    <2>1. CASE r \in cut
        <3>1. InFlight(e)' <=> InFlight(e)
            BY <1>2, <1>3, <2>1 DEF InFlight
        <3> QED  BY <1>2, <1>3, <2>1, <3>1 DEF PublishedOnceOrLost
    <2>2. CASE r \notin cut
        <3>1. e \notin processed /\ ~InFlight(e)
            BY <1>1, <2>2 DEF BatchesAreApart, Pending, InFlight, HoldsByStep
        <3>2. InFlight(e)'
            BY <1>2, <1>3, <2>2 DEF InFlight
        <3> QED  BY <1>2, <1>3, <2>2, <3>1, <3>2 DEF PublishedOnceOrLost
    <2> QED  BY <2>1, <2>2
<1>10. PublishedOnceOrLost'
    BY <1>8, <1>9 DEF PublishedOnceOrLost
<1> QED  BY <1>4, <1>5, <1>6, <1>10

\* The commit: every event of the batch was published once for it.
LEMMA RelayFinish ==
    ASSUME RelayInv, NEW r \in Relays, Finish(r)
    PROVE  RelayParts'
<1> USE DEF RelayInv, RelayParts
<1>1. /\ sent[r] = batch[r] /\ processed' = processed \cup batch[r] /\ r \notin cut
      /\ \A e \in Events : attempts'[e] =
             IF e \in batch[r] THEN attempts[e] + 1 ELSE attempts[e]
      /\ UNCHANGED <<writing, cut, published, lost>>
    BY DEF Finish, AllSent, Marked, Tried, historyVars
<1>2. /\ pc'[r] = "poll" /\ batch'[r] = {} /\ sent'[r] = {}
      /\ \A q \in Relays \ {r} :
             pc'[q] = pc[q] /\ batch'[q] = batch[q] /\ sent'[q] = sent[q]
    BY DEF Finish, TypeOK
<1>3. /\ batch[r] \subseteq Events
      /\ \A e \in batch[r] : Pending(e)
      /\ \A q \in Relays \ (cut \cup {r}) : batch[r] \cap batch[q] = {}
    BY <1>1 DEF BatchesAreApart, TypeOK
<1>4. HoldsByStep'
    BY <1>1, <1>2 DEF HoldsByStep
<1>5. BatchesAreApart'
    BY <1>1, <1>2, <1>3 DEF BatchesAreApart, Pending
<1>6. OnlyCommitted'
    BY <1>1, <1>2, <1>3 DEF OnlyCommitted, Pending
<1>7. PublishedOnceOrLost'
    <2> SUFFICES ASSUME NEW e \in Events
                 PROVE  e \in processed' \/ InFlight(e)' <=> e \in processed \/ InFlight(e)
        BY <1>1 DEF PublishedOnceOrLost
    <2>1. CASE e \in batch[r]
        BY <1>1, <2>1 DEF InFlight
    <2>2. CASE e \notin batch[r]
        BY <1>1, <1>2, <2>2 DEF InFlight
    <2> QED  BY <2>1, <2>2
<1>8. AttemptsForgetFailures'
    BY <1>1, <1>3 DEF AttemptsForgetFailures, Pending
<1> QED  BY <1>4, <1>5, <1>6, <1>7, <1>8

\* The server rolls the transaction of r back: what its batch had published is
\* lost, once each.
LEMMA RelayRollsBack ==
    ASSUME RelayInv, NEW r \in Relays, r \notin cut, lost' = LostWith(r),
           UNCHANGED <<writing, processed, attempts, published>>,
           \A q \in Relays \ {r} : batch'[q] = batch[q] /\ sent'[q] = sent[q],
           batch'[r] \in {batch[r], {}},
           cut' = cut \cup {r} \/ (cut' = cut /\ batch'[r] = {} /\ sent'[r] = {})
    PROVE  /\ BatchesAreApart' /\ OnlyCommitted' /\ PublishedOnceOrLost'
           /\ AttemptsForgetFailures'
<1> USE DEF RelayInv, RelayParts
<1>1. \A e \in Events : lost'[e] = IF e \in sent[r] THEN lost[e] + 1 ELSE lost[e]
    BY DEF LostWith
<1>2. /\ sent[r] \subseteq batch[r] /\ batch[r] \subseteq Events
      /\ \A e \in batch[r] : Pending(e)
      /\ \A q \in Relays \ (cut \cup {r}) :
             batch[r] \cap batch[q] = {} /\ sent[q] \subseteq batch[q]
    BY DEF BatchesAreApart, HoldsByStep, TypeOK
<1>3. BatchesAreApart'
    BY DEF BatchesAreApart, Pending
<1>4. OnlyCommitted'
    BY <1>1, <1>2 DEF OnlyCommitted, Pending
<1>5. PublishedOnceOrLost'
    <2> SUFFICES ASSUME NEW e \in Events
                 PROVE  published'[e] =
                     lost'[e] + (IF e \in processed' \/ InFlight(e)' THEN 1 ELSE 0)
        BY DEF PublishedOnceOrLost
    <2>1. lost[e] \in Nat
        BY DEF TypeOK
    <2>2. published[e] = lost[e] + (IF e \in processed \/ InFlight(e) THEN 1 ELSE 0)
        BY DEF PublishedOnceOrLost
    <2>3. CASE e \in sent[r]
        <3>1. InFlight(e) /\ e \notin processed /\ ~InFlight(e)'
            BY <1>2, <2>3 DEF InFlight, Pending
        <3> QED  BY <1>1, <2>1, <2>2, <2>3, <3>1
    <2>4. CASE e \notin sent[r]
        <3>1. InFlight(e)' <=> InFlight(e)
            BY <2>4 DEF InFlight
        <3> QED  BY <1>1, <2>2, <2>4, <3>1
    <2> QED  BY <2>3, <2>4
<1>6. AttemptsForgetFailures'
    BY DEF AttemptsForgetFailures
<1> QED  BY <1>3, <1>4, <1>5, <1>6

LEMMA StopEffect ==
    ASSUME TypeOK, NEW r \in Relays, Stop(r)
    PROVE  /\ pc'[r] = "stopped" /\ batch'[r] = {} /\ sent'[r] = {}
           /\ \A q \in Relays \ {r} :
                  pc'[q] = pc[q] /\ batch'[q] = batch[q] /\ sent'[q] = sent[q]
           /\ cut' = cut \ {r}
           /\ UNCHANGED <<writing, processed, attempts, published>>
BY DEF Stop, TypeOK, outboxVars

\* A relay that stops when its transaction is gone already loses no more.
LEMMA RelayStopsLate ==
    ASSUME RelayInv, NEW r \in cut, Stop(r), UNCHANGED lost
    PROVE  RelayParts'
<1> USE DEF RelayInv, RelayParts
<1>1. r \in Relays
    BY DEF TypeOK
<1>2. /\ pc'[r] = "stopped" /\ batch'[r] = {} /\ sent'[r] = {}
      /\ \A q \in Relays \ {r} :
             pc'[q] = pc[q] /\ batch'[q] = batch[q] /\ sent'[q] = sent[q]
      /\ cut' = cut \ {r}
      /\ UNCHANGED <<writing, processed, attempts, published>>
    BY <1>1, StopEffect
<1>3. HoldsByStep'
    BY <1>2 DEF HoldsByStep
<1>4. BatchesAreApart'
    BY <1>2 DEF BatchesAreApart, Pending
<1>5. OnlyCommitted' /\ AttemptsForgetFailures'
    BY <1>2 DEF OnlyCommitted, AttemptsForgetFailures
<1>6. \A e \in Events : InFlight(e)' <=> InFlight(e)
    BY <1>2 DEF InFlight
<1>7. PublishedOnceOrLost'
    BY <1>2, <1>6 DEF PublishedOnceOrLost
<1> QED  BY <1>3, <1>4, <1>5, <1>7

LEMMA RelayFail ==
    ASSUME RelayInv, NEW r \in Relays, Fail(r)
    PROVE  RelayParts'
<1>1. CASE r \in cut
    BY <1>1, RelayStopsLate DEF Fail
<1>2. CASE r \notin cut
    <2>1. /\ pc'[r] = "stopped" /\ batch'[r] = {} /\ sent'[r] = {}
          /\ \A q \in Relays \ {r} :
                 pc'[q] = pc[q] /\ batch'[q] = batch[q] /\ sent'[q] = sent[q]
          /\ cut' = cut
          /\ UNCHANGED <<writing, processed, attempts, published>>
        BY <1>2, StopEffect DEF Fail, RelayInv
    <2>2. lost' = LostWith(r)
        BY <1>2 DEF Fail
    <2>3. HoldsByStep'
        BY <1>2, <2>1 DEF RelayInv, RelayParts, HoldsByStep
    <2> QED  BY <1>2, <2>1, <2>2, <2>3, RelayRollsBack DEF RelayParts
<1> QED  BY <1>1, <1>2

LEMMA RelayLosesConnection ==
    ASSUME RelayInv, NEW r \in Relays, LoseConnection(r)
    PROVE  RelayParts'
<1>1. /\ pc[r] = "publish" /\ r \notin cut /\ lost' = LostWith(r) /\ cut' = cut \cup {r}
      /\ UNCHANGED <<writing, processed, attempts, pc, batch, sent, published>>
    BY DEF LoseConnection, outboxVars
<1>2. HoldsByStep'
    BY <1>1 DEF RelayInv, RelayParts, HoldsByStep
<1> QED  BY <1>1, <1>2, RelayRollsBack DEF RelayParts

LEMMA RelayNext == RelayInv /\ [Next]_vars => RelayInv'
<1> SUFFICES ASSUME RelayInv, [Next]_vars PROVE RelayInv'
    OBVIOUS
<1>0. TypeOK /\ TypeOK' /\ HoldsByStep
    BY TypeNext DEF RelayInv, RelayParts
<1> USE DEF outboxVars, relayVars, historyVars
<1>1. ASSUME NEW e \in Events, BeginTx(e) PROVE RelayParts'
    <2>1. HoldsByStep'
        BY <1>0, <1>1 DEF BeginTx, HoldsByStep
    <2>2. \A d \in Events : writing[d] = "committed" => writing'[d] = "committed"
        BY <1>0, <1>1 DEF BeginTx, TypeOK
    <2> QED  BY <1>1, <2>1, <2>2, RelayUnmoved DEF BeginTx
<1>2. ASSUME NEW e \in Events, EndTx(e) PROVE RelayParts'
    <2>1. HoldsByStep'
        BY <1>0, <1>2 DEF EndTx, HoldsByStep
    <2>2. \A d \in Events : writing[d] = "committed" => writing'[d] = "committed"
        BY <1>0, <1>2 DEF EndTx, TypeOK
    <2> QED  BY <1>2, <2>1, <2>2, RelayUnmoved DEF EndTx
<1>3. ASSUME NEW r \in Relays, Start(r) PROVE RelayParts'
    <2>1. HoldsByStep'
        BY <1>0, <1>3 DEF Start, HoldsByStep, TypeOK
    <2> QED  BY <1>3, <2>1, RelayUnmoved DEF Start
<1>4. ASSUME NEW r \in Relays, Poll(r) PROVE RelayParts'
    <2>1. HoldsByStep'
        BY <1>0, <1>4 DEF Poll, HoldsByStep, TypeOK
    <2> QED  BY <1>4, <2>1, RelayUnmoved DEF Poll
<1>5. ASSUME NEW r \in Relays, VisitRow(r) PROVE RelayParts'
    BY <1>5, RelayVisit
<1>6. ASSUME NEW r \in Relays, HasBatch(r) PROVE RelayParts'
    <2>1. HoldsByStep'
        BY <1>0, <1>6 DEF HasBatch, HoldsByStep, TypeOK
    <2> QED  BY <1>6, <2>1, RelayUnmoved DEF HasBatch
<1>7. ASSUME NEW r \in Relays, NothingLeft(r) PROVE RelayParts'
    <2>1. HoldsByStep'
        BY <1>0, <1>7 DEF NothingLeft, HoldsByStep, TypeOK
    <2> QED  BY <1>7, <2>1, RelayUnmoved DEF NothingLeft
<1>8. ASSUME NEW r \in Relays, Publish(r) PROVE RelayParts'
    BY <1>8, RelayPublish
<1>9. ASSUME NEW r \in Relays, Finish(r) PROVE RelayParts'
    BY <1>9, RelayFinish
<1>10. ASSUME NEW r \in Relays, Fail(r) PROVE RelayParts'
    BY <1>10, RelayFail
<1>11. ASSUME NEW r \in Relays, LoseConnection(r) PROVE RelayParts'
    BY <1>11, RelayLosesConnection
<1>12. ASSUME NEW r \in Relays, FindsConnectionLost(r) PROVE RelayParts'
    BY <1>12, RelayStopsLate DEF FindsConnectionLost
<1>13. CASE UNCHANGED vars
    <2>1. HoldsByStep'
        BY <1>0, <1>13 DEF vars, HoldsByStep
    <2> QED  BY <1>0, <1>13, <2>1, RelayUnmoved DEF vars, RelayInv
<1> QED
    BY <1>0, <1>1, <1>2, <1>3, <1>4, <1>5, <1>6, <1>7, <1>8, <1>9, <1>10, <1>11,
       <1>12, <1>13 DEF Next, RelayStep, RelayInv

LEMMA RelayAlways == Spec => []RelayInv
<1> QED  BY RelayInit, RelayNext, PTL DEF Spec

-----------------------------------------------------------------------------
(* What it gives *)

\* The types of the outbox and its relays.
THEOREM RelayTypes == Spec => []TypeOK
<1>1. RelayInv => TypeOK
    BY DEF RelayInv
<1> QED  BY <1>1, RelayAlways, PTL

\* SKIP LOCKED and the predicate checked again keep relays apart.
THEOREM RelaysKeepApart == Spec => []BatchesAreApart
<1>1. RelayInv => BatchesAreApart
    BY DEF RelayInv, RelayParts
<1> QED  BY <1>1, RelayAlways, PTL

\* An event is published once, and once more for each batch lost with it.
THEOREM PublishedOnce == Spec => []PublishedOnceOrLost
<1>1. RelayInv => PublishedOnceOrLost
    BY DEF RelayInv, RelayParts
<1> QED  BY <1>1, RelayAlways, PTL

\* However many batches fail, attempts is 1 once processed and 0 before.
THEOREM AttemptsCountNoFailure == Spec => []AttemptsForgetFailures
<1>1. RelayInv => AttemptsForgetFailures
    BY DEF RelayInv, RelayParts
<1> QED  BY <1>1, RelayAlways, PTL

-----------------------------------------------------------------------------
(* At least once *)

\* What the abstract delivery sees is the same: no event ends, none is given to
\* the broker, none is marked.
LEMMA DeliveryUnseen ==
    ASSUME UNCHANGED <<writing, published, processed>>
    PROVE  UNCHANGED Delivery!vars
BY DEF Delivery!vars

LEMMA BeginUnseen ==
    ASSUME TypeOK, NEW e \in Events, BeginTx(e)
    PROVE  UNCHANGED Delivery!vars
<1>1. /\ writing[e] = "none" /\ writing' = [writing EXCEPT ![e] = "open"]
      /\ UNCHANGED <<published, processed>>
    BY DEF BeginTx, historyVars
<1>2. \A d \in Events : writing'[d] = "committed" <=> writing[d] = "committed"
    BY <1>1 DEF TypeOK
<1> QED  BY <1>1, <1>2 DEF Delivery!vars

LEMMA EndRefined ==
    ASSUME TypeOK, NEW e \in Events, EndTx(e)
    PROVE  [Delivery!Next]_(Delivery!vars)
<1>1. /\ writing[e] = "open" /\ UNCHANGED <<published, processed>>
      /\ writing'[e] \in {"committed", "aborted"}
      /\ \A d \in Events : d # e => writing'[d] = writing[d]
    BY DEF EndTx, historyVars, TypeOK
<1>2. CASE writing'[e] = "committed"
    <2>1. Delivery!Happen(e)
        BY <1>1, <1>2 DEF Delivery!Happen
    <2> QED  BY <2>1 DEF Delivery!Next
<1>3. CASE writing'[e] = "aborted"
    BY <1>1, <1>3 DEF Delivery!vars
<1> QED  BY <1>1, <1>2, <1>3

LEMMA PublishRefined ==
    ASSUME RelayInv, NEW r \in Relays, Publish(r)
    PROVE  Delivery!Next
<1>1. PICK e \in batch[r] : published' = [published EXCEPT ![e] = @ + 1]
    BY DEF Publish
<1>2. e \in Events /\ writing[e] = "committed"
    BY <1>1 DEF RelayInv, RelayParts, OnlyCommitted, TypeOK
<1>3. Delivery!Deliver(e)
    BY <1>1, <1>2 DEF Delivery!Deliver, Publish, outboxVars
<1> QED  BY <1>2, <1>3 DEF Delivery!Next

LEMMA FinishRefined ==
    ASSUME RelayInv, NEW r \in Relays, Finish(r)
    PROVE  Delivery!Next
<1>1. /\ sent[r] = batch[r] /\ processed' = processed \cup batch[r] /\ r \notin cut
      /\ UNCHANGED <<writing, published>>
    BY DEF Finish, AllSent, Marked, historyVars
<1>2. ASSUME NEW e \in batch[r]
      PROVE  e \in Events /\ Pending(e) /\ published[e] > 0
    <2>1. e \in Events /\ Pending(e)
        BY <1>1, <1>2 DEF RelayInv, RelayParts, BatchesAreApart, TypeOK
    <2>2. InFlight(e)
        BY <1>1, <1>2 DEF InFlight
    <2>3. published[e] = lost[e] + 1 /\ lost[e] \in Nat
        BY <2>1, <2>2 DEF RelayInv, RelayParts, PublishedOnceOrLost, TypeOK
    <2> QED  BY <2>1, <2>3
<1>3. Delivery!Retire(batch[r])
    BY <1>1, <1>2 DEF Delivery!Retire, Pending
<1>4. batch[r] \in SUBSET Events
    BY <1>2
<1> QED  BY <1>3, <1>4 DEF Delivery!Next

\* Each step of the relays and the checkouts is a step of the abstract
\* delivery or changes nothing that it sees.
LEMMA DeliveryStep == RelayInv /\ [Next]_vars => [Delivery!Next]_(Delivery!vars)
<1> SUFFICES ASSUME RelayInv, [Next]_vars PROVE [Delivery!Next]_(Delivery!vars)
    OBVIOUS
<1>0. TypeOK
    BY DEF RelayInv
<1>1. ASSUME NEW e \in Events, BeginTx(e) PROVE [Delivery!Next]_(Delivery!vars)
    BY <1>0, <1>1, BeginUnseen
<1>2. ASSUME NEW e \in Events, EndTx(e) PROVE [Delivery!Next]_(Delivery!vars)
    BY <1>0, <1>2, EndRefined
<1>3. ASSUME NEW r \in Relays,
             \/ Start(r) \/ Poll(r) \/ VisitRow(r) \/ HasBatch(r) \/ NothingLeft(r)
             \/ Fail(r) \/ LoseConnection(r) \/ FindsConnectionLost(r)
      PROVE  [Delivery!Next]_(Delivery!vars)
    BY <1>3, DeliveryUnseen
       DEF Start, Poll, VisitRow, HasBatch, NothingLeft, Fail, LoseConnection,
           FindsConnectionLost, Stop, outboxVars, historyVars
<1>4. ASSUME NEW r \in Relays, Publish(r) PROVE [Delivery!Next]_(Delivery!vars)
    BY <1>4, PublishRefined
<1>5. ASSUME NEW r \in Relays, Finish(r) PROVE [Delivery!Next]_(Delivery!vars)
    BY <1>5, FinishRefined
<1>6. ASSUME UNCHANGED vars PROVE [Delivery!Next]_(Delivery!vars)
    BY <1>6, DeliveryUnseen DEF vars, outboxVars, historyVars
<1> QED  BY <1>1, <1>2, <1>3, <1>4, <1>5, <1>6 DEF Next, RelayStep

\* However relays overlap and fail, the broker sees what committed, at least
\* once before it is marked processed and never after.
THEOREM RelayDeliversAtLeastOnce == Spec => DeliversAtLeastOnce
<1>1. Init => Delivery!Init
    BY DEF Init, Delivery!Init
<1> QED  BY <1>1, DeliveryStep, RelayAlways, PTL
         DEF Spec, DeliversAtLeastOnce, Delivery!Spec
=============================================================================
