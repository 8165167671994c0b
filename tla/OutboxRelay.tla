---------------------------- MODULE OutboxRelay ----------------------------
(***************************************************************************)
(* The transactional outbox: events written by tx2 of a checkout           *)
(* (app/repositories/outbox.py), and relays (app/jobs/publish_outbox.py)   *)
(* that claim them in batches with SELECT ... FOR UPDATE SKIP LOCKED,      *)
(* publish them inside the claiming transaction and mark them processed.   *)
(*                                                                         *)
(* A relay's pc:                                                           *)
(*   "stopped"   its process does not run                                  *)
(*   "poll"      between two transactions of main()'s loop                 *)
(*   "claim"     claim_batch: the SELECT walks the rows of its snapshot    *)
(*   "publish"   the events of its batch, one by one                       *)
(*                                                                         *)
(* claim_batch is not one instant: its snapshot is taken when it starts,   *)
(* and each row is locked, or skipped, when the SELECT comes to it.        *)
(*                                                                         *)
(* A definition whose name starts with Bug is a slip the code could have   *)
(* made in the definition that follows it.  No action uses it.             *)
(***************************************************************************)
EXTENDS Integers, FiniteSets

CONSTANTS
    Events,         \* rows of outbox, each written by a checkout of its own
    Relays,
    BatchSize,      \* batch_size of publish_once
    MaxFaults       \* bound on the transactions of relays that roll back

ASSUME OutboxAssumption ==
    /\ IsFiniteSet(Events)
    /\ BatchSize \in Nat \ {0}
    /\ MaxFaults \in Nat

VARIABLES
    writing,    \* the transaction that writes an event
    born,       \* created_at, the start of that transaction
    processed,  \* events with a processed_at
    attempts,   \* outbox.attempts
    pc,
    scan,       \* rows of its snapshot that a claim has still to visit
    batch,      \* rows a relay has locked and will publish
    sent,       \* rows of its batch that it has published
    cut,        \* relays whose transaction the server has rolled back unnoticed
    published,  \* how often the broker was given an event
    lost,       \* how often that was for a batch that rolled back
    faults

outboxVars == <<writing, born, processed, attempts>>
relayVars == <<pc, scan, batch, sent, cut>>
historyVars == <<published, lost, faults>>
vars == <<outboxVars, relayVars, historyVars>>

-----------------------------------------------------------------------------
Init ==
    /\ writing = [e \in Events |-> "none"]
    /\ born = [e \in Events |-> 0]
    /\ processed = {}
    /\ attempts = [e \in Events |-> 0]
    /\ pc = [r \in Relays |-> "stopped"]
    /\ scan = [r \in Relays |-> {}]
    /\ batch = [r \in Relays |-> {}]
    /\ sent = [r \in Relays |-> {}]
    /\ cut = {}
    /\ published = [e \in Events |-> 0]
    /\ lost = [e \in Events |-> 0]
    /\ faults = 0

-----------------------------------------------------------------------------
(* tx2 of the checkouts *)

\* created_at is now(), which PostgreSQL takes from the start of tx2.
Begun == {e \in Events : writing[e] # "none"}
BeginTx(e) ==
    /\ writing[e] = "none"
    /\ writing' = [writing EXCEPT ![e] = "open"]
    /\ born' = [born EXCEPT ![e] = Cardinality(Begun) + 1]
    /\ UNCHANGED <<processed, attempts, relayVars, historyVars>>

\* The event and the order commit or roll back together, later begun ones
\* first if they are faster.
EndTx(e) ==
    /\ writing[e] = "open"
    /\ \E fate \in {"committed", "aborted"} : writing' = [writing EXCEPT ![e] = fate]
    /\ UNCHANGED <<born, processed, attempts, relayVars, historyVars>>

-----------------------------------------------------------------------------
(* main(): publish_once until a batch is empty *)

Start(r) ==
    /\ pc[r] = "stopped"
    /\ pc' = [pc EXCEPT ![r] = "poll"]
    /\ UNCHANGED <<outboxVars, scan, batch, sent, cut, historyVars>>

\* WHERE processed_at IS NULL, in the snapshot and on the locked row.
BugSeesAll(e) == writing[e] = "committed"
BugSeesYoung(e) ==
    /\ writing[e] = "committed" /\ e \notin processed
    /\ \A d \in processed : born[d] < born[e]
Pending(e) == writing[e] = "committed" /\ e \notin processed

Poll(r) ==
    /\ pc[r] = "poll"
    /\ pc' = [pc EXCEPT ![r] = "claim"]
    /\ scan' = [scan EXCEPT ![r] = {e \in Events : Pending(e)}]
    /\ UNCHANGED <<outboxVars, batch, sent, cut, historyVars>>

IsOldest(e, S) == e \in S /\ \A d \in S : born[e] <= born[d]

\* FOR UPDATE SKIP LOCKED.
BugNoLock(r, e) == TRUE
Free(r, e) == \A q \in Relays \ {r} : q \in cut \/ e \notin batch[q]

\* The SELECT comes to a row: it takes it, or skips it because another relay
\* has it or has processed it since.
BatchOpen(r) == scan[r] # {} /\ Cardinality(batch[r]) < BatchSize
VisitRow(r) ==
    /\ pc[r] = "claim" /\ BatchOpen(r)
    /\ \E e \in scan[r] :
           /\ IsOldest(e, scan[r])
           /\ scan' = [scan EXCEPT ![r] = @ \ {e}]
           /\ batch' = [batch EXCEPT ![r] =
                  IF Free(r, e) /\ Pending(e) THEN @ \cup {e} ELSE @]
    /\ UNCHANGED <<outboxVars, pc, sent, cut, historyVars>>

HasBatch(r) ==
    /\ pc[r] = "claim" /\ ~BatchOpen(r) /\ batch[r] # {}
    /\ pc' = [pc EXCEPT ![r] = "publish"]
    /\ scan' = [scan EXCEPT ![r] = {}]
    /\ UNCHANGED <<outboxVars, batch, sent, cut, historyVars>>

\* publish_once returned 0: the process ends.
NothingLeft(r) ==
    /\ pc[r] = "claim" /\ ~BatchOpen(r) /\ batch[r] = {}
    /\ pc' = [pc EXCEPT ![r] = "stopped"]
    /\ UNCHANGED <<outboxVars, scan, batch, sent, cut, historyVars>>

\* The loop over the batch uses the broker only: a relay whose connection is
\* gone publishes on, for nothing.
Publish(r) ==
    /\ pc[r] = "publish"
    /\ \E e \in batch[r] \ sent[r] :
           /\ IsOldest(e, batch[r] \ sent[r])
           /\ sent' = [sent EXCEPT ![r] = @ \cup {e}]
           /\ published' = [published EXCEPT ![e] = @ + 1]
           /\ lost' = IF r \in cut THEN [lost EXCEPT ![e] = @ + 1] ELSE lost
    /\ UNCHANGED <<outboxVars, pc, scan, batch, cut, faults>>

\* mark_processed and the commit, once every event of the batch is published.
BugBeforePublishing(r) == TRUE
AllSent(r) == sent[r] = batch[r]
BugCountsOnly(S) == processed
Marked(S) == processed \cup S
BugCountsDown(S) == [e \in Events |-> IF e \in S THEN attempts[e] - 1 ELSE attempts[e]]
Tried(S) == [e \in Events |-> IF e \in S THEN attempts[e] + 1 ELSE attempts[e]]
Finish(r) ==
    /\ pc[r] = "publish" /\ AllSent(r) /\ r \notin cut
    /\ processed' = Marked(batch[r])
    /\ attempts' = Tried(batch[r])
    /\ pc' = [pc EXCEPT ![r] = "poll"]
    /\ batch' = [batch EXCEPT ![r] = {}]
    /\ sent' = [sent EXCEPT ![r] = {}]
    /\ UNCHANGED <<writing, born, scan, cut, historyVars>>

\* A transaction rolls back; what it published stays published.
LostWith(r) == [e \in Events |-> IF e \in sent[r] THEN lost[e] + 1 ELSE lost[e]]
Stop(r) ==
    /\ pc' = [pc EXCEPT ![r] = "stopped"]
    /\ scan' = [scan EXCEPT ![r] = {}]
    /\ batch' = [batch EXCEPT ![r] = {}]
    /\ sent' = [sent EXCEPT ![r] = {}]
    /\ cut' = cut \ {r}
    /\ UNCHANGED <<outboxVars, published>>

\* publish() raises or the process is killed.
Fail(r) ==
    /\ pc[r] # "stopped" /\ faults < MaxFaults
    /\ faults' = faults + 1
    /\ lost' = IF r \in cut THEN lost ELSE LostWith(r)
    /\ Stop(r)

\* The connection breaks while the relay publishes.  The server rolls back and
\* frees the rows at once; the relay finds out at mark_processed.
LoseConnection(r) ==
    /\ pc[r] = "publish" /\ r \notin cut /\ faults < MaxFaults
    /\ faults' = faults + 1
    /\ lost' = LostWith(r)
    /\ cut' = cut \cup {r}
    /\ UNCHANGED <<outboxVars, pc, scan, batch, sent, published>>

FindsConnectionLost(r) ==
    /\ pc[r] = "publish" /\ AllSent(r) /\ r \in cut
    /\ Stop(r)
    /\ UNCHANGED <<lost, faults>>

-----------------------------------------------------------------------------
RelayStep(r) ==
    \/ Poll(r) \/ VisitRow(r) \/ HasBatch(r) \/ NothingLeft(r) \/ Publish(r) \/ Finish(r)
    \/ FindsConnectionLost(r)

Next ==
    \/ \E e \in Events : BeginTx(e) \/ EndTx(e)
    \/ \E r \in Relays : Start(r) \/ RelayStep(r) \/ Fail(r) \/ LoseConnection(r)

Spec == Init /\ [][Next]_vars

\* A relay that runs goes on; one that ended is started again, as the README
\* asks of whoever deploys it.  Nothing makes a checkout end its transaction.
FairSpec ==
    /\ Spec
    /\ \A r \in Relays : WF_vars(RelayStep(r)) /\ WF_vars(Start(r))

-----------------------------------------------------------------------------
(* Properties *)

TypeOK ==
    /\ writing \in [Events -> {"none", "open", "committed", "aborted"}]
    /\ born \in [Events -> Nat]
    /\ processed \in SUBSET Events
    /\ attempts \in [Events -> Nat]
    /\ pc \in [Relays -> {"stopped", "poll", "claim", "publish"}]
    /\ scan \in [Relays -> SUBSET Events]
    /\ batch \in [Relays -> SUBSET Events]
    /\ sent \in [Relays -> SUBSET Events]
    /\ cut \in SUBSET Relays
    /\ published \in [Events -> Nat]
    /\ lost \in [Events -> Nat]
    /\ faults \in 0..MaxFaults

\* "Take a batch no other worker can take concurrently": two relays never hold
\* the same event, although each walks a snapshot that may be out of date, and
\* what a relay holds is still to be processed, as long as its transaction
\* lives.
BatchesAreApart ==
    \A r \in Relays \ cut :
        /\ \A e \in batch[r] : Pending(e)
        /\ \A q \in Relays \ (cut \cup {r}) : batch[r] \cap batch[q] = {}

\* An event reaches the broker once, and once more for each batch that was
\* rolled back before or after publishing it: delivery is at least once, and
\* nothing but a failure repeats it.
InFlight(e) == \E r \in Relays \ cut : e \in sent[r]
PublishedOnceOrLost ==
    \A e \in Events :
        published[e] = lost[e] + (IF e \in processed \/ InFlight(e) THEN 1 ELSE 0)

\* attempts says nothing of failures: the increment of a rolled back batch is
\* lost, so it is 1 exactly when the event is processed (publish_outbox.py).
AttemptsForgetFailures ==
    \A e \in Events : attempts[e] = IF e \in processed THEN 1 ELSE 0

\* "DELIVERY IS AT-LEAST-ONCE" (publish_outbox.py): whatever relays claim, lose
\* and publish again, the broker sees copies of what committed and of nothing
\* else, one at least before the event is marked processed.
Delivery == INSTANCE AtLeastOnce WITH
    happened <- {e \in Events : writing[e] = "committed"},
    copies <- published,
    retired <- processed
DeliversAtLeastOnce == Delivery!Spec

\* An event that committed is processed in the end, also if it committed after
\* younger ones were, and however relays overlap, stop at what others hold and
\* fail, as long as failures end.
EveryEventDelivered ==
    \A e \in Events : writing[e] = "committed" ~> e \in processed
=============================================================================
