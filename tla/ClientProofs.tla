---------------------------- MODULE ClientProofs ----------------------------
(***************************************************************************)
(* The cache lock under the client: every task uses it as RwLock allows,   *)
(* the cache is never read while it changes, and no request leaves a guard *)
(* behind, for any number of requests and any mix of queries.              *)
(***************************************************************************)
EXTENDS Client, TLAPS

\* The part of the type invariant that the requests' use of the lock needs.
PlacesOK ==
    /\ pc \in [Requests -> {"idle"} \cup Locked \cup AtNode]
    /\ DOMAIN query = Requests

\* A handler that is abandoned, or that returns, uses the lock as RwLock allows.
LEMMA AbandonIsLockStep ==
  ASSUME Lock!LockInv, NEW r \in Requests, Lock!Abandon(r)
  PROVE  [Lock!LockNext]_(Lock!lockVars)
<1> USE DEF Lock!LockInv, Lock!LockTypeOK
<1>1. CASE r \in queued \/ guards[r] > 0
  BY <1>1 DEF Lock!LockNext
<1>2. CASE ~(r \in queued \/ guards[r] > 0)
  <2>1. guards[r] = 0 /\ guards' = guards /\ queued' = queued
    BY <1>2 DEF Lock!Abandon, Lock!DropGuards
  <2>2. writer' = writer
    BY <2>1 DEF Lock!Abandon, Lock!DropGuards, Lock!Unread, Lock!NobodyWaitsForNobody
  <2> QED
    BY <2>1, <2>2 DEF Lock!lockVars
<1> QED
  BY <1>1, <1>2

\* So does every step of the system.
LEMMA LockStep == Lock!LockInv /\ [Next]_vars => [Lock!LockNext]_(Lock!lockVars)
<1> SUFFICES ASSUME Lock!LockInv, [Next]_vars PROVE [Lock!LockNext]_(Lock!lockVars)
  OBVIOUS
<1>1. CASE UNCHANGED lockVars
  BY <1>1 DEF lockVars, Lock!lockVars
<1>2. CASE Lock!AcquireWrite \/ Lock!ReleaseWrite
  BY <1>2 DEF Lock!LockNext
<1>3. ASSUME NEW r \in Requests \cup {Main}, Lock!ReleaseRead(r)
      PROVE  Lock!LockNext
  BY <1>3 DEF Lock!LockNext
<1>4. ASSUME NEW r \in Requests \cup {Main}, Lock!AcquireRead(r), guards[r] < 2
      PROVE  Lock!LockNext
  BY <1>4 DEF Lock!LockNext
<1>5. CASE Finalize \/ Disconnect \/ Resubscribe \/ SubscriptionFails
  BY <1>1, <1>5 DEF Finalize, Disconnect, Resubscribe, SubscriptionFails
<1>6. CASE SubscriberStep
  BY <1>1, <1>2, <1>6 DEF SubscriberStep, Subscribe, NextBlock, PushBlock, ReceiptsFail
<1>7. CASE MainStep
  BY <1>1, <1>3, <1>4, <1>7
     DEF MainStep, MainProceeds, StartServer, FromUrlPanics, StartServerFails,
         SelfCheckLock, SelfCheck, SelfCheckFails, Exit
<1>8. ASSUME NEW r \in Requests, Issue(r) \/ Hangup(r) \/ Handle(r)
      PROVE  [Lock!LockNext]_(Lock!lockVars)
  <2>1. CASE Issue(r) \/ Hangup(r)
    BY <1>1, <2>1, AbandonIsLockStep DEF Issue, Hangup
  <2>2. CASE ReadLock(r)
    BY <1>4, <2>2 DEF ReadLock, Outer
  <2>3. CASE LatestBlock(r)
    BY <1>3, <2>3 DEF LatestBlock
  <2>4. CASE BlockByNumber(r)
    BY <1>1, <1>3, <2>4 DEF BlockByNumber
  <2>5. CASE GetBlockHash(r)
    BY <1>1, <1>3, <2>5 DEF GetBlockHash, WithHash
  <2>6. CASE ChainGetBlockHash(r)
    BY <1>3, <2>6, AbandonIsLockStep DEF ChainGetBlockHash, WithHash
  <2>7. CASE BlockByHash(r)
    BY <1>1, <2>7, AbandonIsLockStep DEF BlockByHash
  <2>8. CASE BlocksAt(r)
    BY <2>8, AbandonIsLockStep DEF BlocksAt
  <2>9. CASE NodeCall(r)
    BY <1>1, <2>9 DEF NodeCall
  <2>10. CASE Lookup(r)
    BY <1>3, <2>10 DEF Lookup
  <2> QED
    BY <1>8, <2>1, <2>2, <2>3, <2>4, <2>5, <2>6, <2>7, <2>8, <2>9, <2>10 DEF Handle
<1> QED
  <2>1. CASE UNCHANGED vars
    BY <1>1, <2>1 DEF vars
  <2>2. CASE Next
    BY <1>5, <1>6, <1>7, <1>8, <2>1, <2>2 DEF Next, RequestStep
  <2> QED
    BY <2>1, <2>2

\* The lock is used as RwLock allows, so its safety carries over.
LEMMA LockInvariant == Spec => []Lock!LockInv
<1>1. Init => Lock!LockInv
  BY DEF Init, Lock!LockInit, Lock!LockInv, Lock!LockTypeOK, Lock!WriterExcludesReaders,
         Lock!NobodyWaitsForNobody
<1>2. Lock!LockInv /\ [Next]_vars => Lock!LockInv'
  BY LockStep, Lock!LockInvStep
<1> QED
  BY <1>1, <1>2, PTL DEF Spec

\* Every task of the server keeps to the lock's protocol (ImplementsRwLock).
THEOREM UsesLockProperly == Spec => ImplementsRwLock
<1>1. Init => Lock!LockInit
  BY DEF Init
<1> QED
  BY <1>1, LockStep, LockInvariant, PTL DEF Spec, ImplementsRwLock, Lock!LockSpec

-----------------------------------------------------------------------------
\* No guard is left behind.

\* A request whose place, query and part in the lock do not change still fits.
LEMMA FitFrame ==
  ASSUME NEW r \in Requests, GuardsFit(r), pc'[r] = pc[r], query'[r] = query[r],
         guards'[r] = guards[r], r \in queued' <=> r \in queued
  PROVE  GuardsFit(r)'
  BY DEF GuardsFit, Outer

\* A step of request `r` leaves the other requests where they are.
LEMMA RequestMovesAlone ==
  ASSUME PlacesOK, NEW r \in Requests, Issue(r) \/ Hangup(r) \/ Handle(r),
         NEW q \in Requests, q # r
  PROVE  pc'[q] = pc[q] /\ query'[q] = query[q]
<1> USE DEF PlacesOK
<1> DEFINE Same == pc'[q] = pc[q] /\ query'[q] = query[q]
<1>1. CASE Issue(r)
  BY <1>1 DEF Issue
<1>2. ASSUME NEW a, Respond(r, a) PROVE Same
  BY <1>2 DEF Respond
<1>3. ASSUME NEW p, NEW b, Goto(r, p, b) PROVE Same
  BY <1>3 DEF Goto
<1>4. CASE UNCHANGED requestVars
  BY <1>4 DEF requestVars
<1>5. CASE Hangup(r) \/ ReadLock(r) \/ Lookup(r) \/ NodeCall(r)
  BY <1>2, <1>3, <1>4, <1>5 DEF Hangup, ReadLock, Lookup, NodeCall
<1>6. CASE LatestBlock(r) \/ BlockByNumber(r) \/ GetBlockHash(r)
  BY <1>2, <1>3, <1>6 DEF LatestBlock, BlockByNumber, GetBlockHash, WithHash
<1>7. CASE ChainGetBlockHash(r) \/ BlockByHash(r) \/ BlocksAt(r)
  BY <1>2, <1>3, <1>7 DEF ChainGetBlockHash, WithHash, BlockByHash, BlocksAt
<1> QED
  BY <1>1, <1>5, <1>6, <1>7 DEF Handle

\* A step of request `r` moves nobody else.
LEMMA OthersFit ==
  ASSUME PlacesOK, Lock!LockTypeOK, NoGuardLeaks, NEW r \in Requests,
         Issue(r) \/ Hangup(r) \/ Handle(r),
         NEW q \in Requests, q # r
  PROVE  GuardsFit(q)'
<1> USE DEF PlacesOK, Lock!LockTypeOK
<1>1. pc'[q] = pc[q] /\ query'[q] = query[q]
  BY RequestMovesAlone
<1>2. guards'[q] = guards[q] /\ (q \in queued' <=> q \in queued)
  <2>1. ASSUME Lock!AcquireRead(r) PROVE <1>2!:
    BY <2>1 DEF Lock!AcquireRead, Lock!GrantRead, Lock!QueueRead
  <2>2. ASSUME Lock!ReleaseRead(r) PROVE <1>2!:
    BY <2>2 DEF Lock!ReleaseRead, Lock!DropGuards
  <2>3. ASSUME Lock!Abandon(r) PROVE <1>2!:
    BY <2>3 DEF Lock!Abandon, Lock!DropGuards
  <2>4. ASSUME UNCHANGED lockVars PROVE <1>2!:
    BY <2>4 DEF lockVars
  <2>5. Lock!AcquireRead(r) \/ Lock!ReleaseRead(r) \/ Lock!Abandon(r) \/ UNCHANGED lockVars
    BY DEF Issue, Hangup, Handle, ReadLock, LatestBlock, BlockByNumber, GetBlockHash, WithHash,
           ChainGetBlockHash, BlockByHash, BlocksAt, NodeCall, Lookup
  <2> QED
    BY <2>1, <2>2, <2>3, <2>4, <2>5
<1> QED
  BY <1>1, <1>2, FitFrame DEF NoGuardLeaks

\* What releasing guards does to the request itself.
LEMMA Released ==
  ASSUME Lock!LockTypeOK, NEW r \in Requests
  PROVE  /\ Lock!ReleaseRead(r) => /\ r \notin queued /\ r \notin queued'
                                   /\ guards'[r] = guards[r] - 1
         /\ Lock!Abandon(r) => r \notin queued' /\ guards'[r] = 0
  BY DEF Lock!LockTypeOK, Lock!ReleaseRead, Lock!Abandon, Lock!DropGuards

\* A request that responds with no guard left fits.
LEMMA FitIdle ==
  ASSUME PlacesOK, NEW r \in Requests, NEW a, Respond(r, a),
         guards'[r] = 0, r \notin queued'
  PROVE  GuardsFit(r)'
<1>1. pc'[r] = "idle"
  BY DEF PlacesOK, Respond
<1> QED
  BY <1>1 DEF GuardsFit, Outer

\* A request that goes on to a place outside `block_by_number`, with no guard.
LEMMA FitFree ==
  ASSUME PlacesOK, NEW r \in Requests, NEW b, NEW p \in {"lookup", "node_call"}, Goto(r, p, b),
         guards'[r] = 0, r \notin queued'
  PROVE  GuardsFit(r)'
<1>1. pc'[r] = p
  BY DEF PlacesOK, Goto
<1> QED
  BY <1>1 DEF GuardsFit, Outer

\* The place of a request after its own step fits its guards.
LEMMA OwnFit ==
  ASSUME PlacesOK, Lock!LockInv, NoGuardLeaks, NEW r \in Requests,
         Issue(r) \/ Hangup(r) \/ Handle(r)
  PROVE  GuardsFit(r)'
<1> USE DEF PlacesOK
<1>1. /\ GuardsFit(r) /\ Lock!LockTypeOK /\ pc[r] \in {"idle"} \cup Locked \cup AtNode
      /\ guards[r] \in Nat
  BY DEF NoGuardLeaks, Lock!LockInv, Lock!LockTypeOK
<1>2. \A q : AfterBlock(q) \in {"lookup", "node_call"}
  BY DEF AfterBlock
<1>3. CASE Issue(r)
  <2>1. PICK q \in Queries : /\ query' = [query EXCEPT ![r] = q]
                             /\ pc' = [pc EXCEPT ![r] = Entry(q)]
    BY <1>3 DEF Issue
  <2>2. q.method \in Methods /\ query'[r] = q /\ pc'[r] = Entry(q)
    BY <2>1, QueriesAssumption
  <2>3. guards'[r] = 0 /\ r \notin queued'
    BY <1>1, <1>3 DEF Issue, lockVars, GuardsFit, Locked
  <2>4. /\ Entry(q) \in Locked \cup {"node_call"}
        /\ q.method \in ByNumberMethods => Entry(q) \notin {"get_block_hash", "block_by_hash"}
    BY <2>2 DEF Entry, Methods, ByNumberMethods, Locked
  <2> QED
    BY <2>2, <2>3, <2>4 DEF GuardsFit, Outer, Locked
<1>4. CASE Hangup(r)
  BY <1>1, <1>4, Released, FitIdle DEF Hangup
<1>5. CASE ReadLock(r)
  <2>1. pc'[r] = pc[r] /\ query'[r] = query[r] /\ guards[r] = Outer(r) /\ pc[r] \in Locked
    BY <1>5 DEF ReadLock, requestVars
  <2>2. \/ guards'[r] = guards[r] + 1 /\ r \notin queued'
        \/ guards'[r] = guards[r]
    BY <1>1, <1>5 DEF ReadLock, Lock!AcquireRead, Lock!GrantRead, Lock!QueueRead, Lock!LockTypeOK
  <2>3. Outer(r)' = Outer(r) /\ Outer(r) \in {0, 1}
    BY <2>1 DEF Outer
  <2> QED
    BY <2>1, <2>2, <2>3 DEF GuardsFit, Locked
<1>6. CASE LatestBlock(r)
  <2>1. guards'[r] = 0 /\ r \notin queued'
    BY <1>1, <1>6, Released DEF LatestBlock, HasGuard, Outer
  <2>2. \/ \E a : Respond(r, a)
        \/ \E p \in {"lookup", "node_call"} : \E b : Goto(r, p, b)
    BY <1>2, <1>6 DEF LatestBlock
  <2> QED
    BY <2>1, <2>2, FitIdle, FitFree
<1>7. CASE BlockByNumber(r)
  <2>1. guards[r] = 1 /\ pc[r] = "block_by_number"
    BY <1>7 DEF BlockByNumber, HasGuard, Outer
  <2>2. CASE Lock!ReleaseRead(r) /\ \E b : Goto(r, AfterBlock(query[r]), b)
    BY <1>1, <1>2, <2>1, <2>2, Released, FitFree
  <2>3. CASE Goto(r, "get_block_hash", None) /\ UNCHANGED lockVars
    <3>1. pc'[r] = "get_block_hash" /\ guards'[r] = 1 /\ queued' = queued
      BY <2>1, <2>3 DEF Goto, lockVars
    <3>2. r \notin queued
      BY <1>1, <2>1 DEF GuardsFit, Outer
    <3>3. Outer(r)' \in {0, 1}
      BY DEF Outer
    <3> QED
      BY <3>1, <3>2, <3>3 DEF GuardsFit
  <2> QED
    BY <1>7, <2>2, <2>3 DEF BlockByNumber
\* The hash of the block is known, in the cache or from the node.
<1>8. ASSUME pc[r] \in {"get_block_hash", "chain_get_block_hash"}, guards[r] = Outer(r) + 1,
             NEW b, WithHash(r, b)
      PROVE  GuardsFit(r)'
  <2>1. guards'[r] = Outer(r) /\ r \notin queued'
    BY <1>1, <1>8, Released DEF WithHash, Outer
  <2>2. CASE query[r].method = "state_at"
    <3>1. Outer(r) = 0 /\ Goto(r, "node_call", b)
      BY <1>8, <2>2 DEF WithHash, Outer, ByNumberMethods
    <3> QED
      BY <2>1, <3>1, FitFree
  <2>3. CASE query[r].method # "state_at"
    <3>1. pc'[r] = "block_by_hash" /\ query'[r] = query[r]
      BY <1>8, <2>3 DEF WithHash, Goto
    <3>2. Outer(r)' = Outer(r)
      BY <1>8, <3>1 DEF Outer
    <3> QED
      BY <2>1, <3>1, <3>2 DEF GuardsFit
  <2> QED
    BY <2>2, <2>3
\* A call to the node is made with the guards held.
<1>9. ASSUME pc[r] \in {"get_block_hash", "block_by_hash"}, guards[r] = Outer(r) + 1,
             NEW p \in {"chain_get_block_hash", "blocks_at"}, NEW b, Goto(r, p, b),
             UNCHANGED lockVars
      PROVE  GuardsFit(r)'
  <2>1. pc'[r] = p /\ query'[r] = query[r] /\ guards'[r] = guards[r] /\ queued' = queued
    BY <1>9 DEF Goto, lockVars
  <2>2. Outer(r)' = Outer(r) /\ Outer(r) \in {0, 1}
    BY <1>9, <2>1 DEF Outer
  <2>3. r \notin queued
    BY <1>1, <1>9, <2>2 DEF GuardsFit
  <2> QED
    BY <1>9, <2>1, <2>2, <2>3 DEF GuardsFit
\* A function returns with no guard left.
<1>10. ASSUME Lock!Abandon(r),
              \/ \E a : Respond(r, a)
              \/ \E b : Goto(r, AfterBlock(query[r]), b)
       PROVE  GuardsFit(r)'
  BY <1>1, <1>2, <1>10, Released, FitIdle, FitFree
<1>11. CASE GetBlockHash(r)
  BY <1>8, <1>9, <1>11 DEF GetBlockHash, HasGuard
<1>12. CASE ChainGetBlockHash(r)
  <2>1. guards[r] = Outer(r) + 1
    BY <1>1, <1>12 DEF ChainGetBlockHash, GuardsFit
  <2> QED
    BY <1>8, <1>10, <1>12, <2>1 DEF ChainGetBlockHash
<1>13. CASE BlockByHash(r)
  BY <1>9, <1>10, <1>13 DEF BlockByHash, HasGuard
<1>14. CASE BlocksAt(r)
  BY <1>10, <1>14 DEF BlocksAt
<1>15. CASE NodeCall(r)
  <2>1. guards'[r] = 0 /\ r \notin queued'
    BY <1>1, <1>15 DEF NodeCall, GuardsFit, lockVars, Locked
  <2>2. \/ \E a : Respond(r, a)
        \/ \E b : Goto(r, "lookup", b)
    BY <1>15 DEF NodeCall
  <2> QED
    BY <2>1, <2>2, FitIdle, FitFree
<1>16. CASE Lookup(r)
  <2>1. guards'[r] = 0 /\ r \notin queued'
    BY <1>1, <1>16, Released DEF Lookup, HasGuard, Outer
  <2> QED
    BY <1>16, <2>1, FitIdle DEF Lookup
<1> QED
  BY <1>3, <1>4, <1>5, <1>6, <1>7, <1>11, <1>12, <1>13, <1>14, <1>15, <1>16 DEF Handle

\* Each request is at a known place.
LEMMA PlacesStep == PlacesOK /\ [Next]_vars => PlacesOK'
<1> SUFFICES ASSUME PlacesOK, [Next]_vars PROVE PlacesOK'
  OBVIOUS
<1> USE DEF PlacesOK
<1>1. CASE UNCHANGED requestVars
  BY <1>1 DEF requestVars
<1>2. ASSUME NEW r \in Requests, NEW a, Respond(r, a) PROVE PlacesOK'
  BY <1>2 DEF Respond
<1>3. ASSUME NEW r \in Requests, NEW p \in Locked \cup AtNode, NEW b, Goto(r, p, b) PROVE PlacesOK'
  BY <1>3 DEF Goto
<1>4. ASSUME NEW r \in Requests, Issue(r) PROVE PlacesOK'
  <2>1. \A q \in Queries : Entry(q) \in Locked \cup AtNode
    BY QueriesAssumption DEF Entry, Methods, ByNumberMethods, Locked, AtNode
  <2> QED
    BY <1>4, <2>1 DEF Issue
<1>5. ASSUME NEW r \in Requests, Hangup(r) \/ Handle(r) PROVE PlacesOK'
  <2>1. \A q : AfterBlock(q) \in Locked \cup AtNode
    BY DEF AfterBlock, Locked, AtNode
  <2>2. {"node_call", "chain_get_block_hash", "blocks_at", "block_by_hash", "get_block_hash",
         "lookup"} \subseteq Locked \cup AtNode
    BY DEF Locked, AtNode
  <2>3. CASE Hangup(r) \/ ReadLock(r) \/ Lookup(r) \/ NodeCall(r)
    BY <1>1, <1>2, <1>3, <2>2, <2>3 DEF Hangup, ReadLock, Lookup, NodeCall
  <2>4. CASE LatestBlock(r)
    BY <1>2, <1>3, <2>1, <2>2, <2>4 DEF LatestBlock
  <2>5. CASE BlockByNumber(r) \/ GetBlockHash(r)
    BY <1>2, <1>3, <2>1, <2>2, <2>5 DEF BlockByNumber, GetBlockHash, WithHash
  <2>6. CASE ChainGetBlockHash(r) \/ BlockByHash(r) \/ BlocksAt(r)
    BY <1>2, <1>3, <2>1, <2>2, <2>6 DEF ChainGetBlockHash, WithHash, BlockByHash, BlocksAt
  <2> QED
    BY <1>5, <2>3, <2>4, <2>5, <2>6 DEF Handle
<1>6. CASE Finalize \/ Disconnect \/ Resubscribe \/ SubscriptionFails
  BY <1>1, <1>6 DEF Finalize, Disconnect, Resubscribe, SubscriptionFails
<1>7. CASE SubscriberStep
  BY <1>1, <1>7 DEF SubscriberStep, Subscribe, NextBlock, PushBlock, ReceiptsFail
<1>8. CASE MainStep
  BY <1>1, <1>8
     DEF MainStep, MainProceeds, StartServer, FromUrlPanics, StartServerFails,
         SelfCheckLock, SelfCheck, SelfCheckFails, Exit
<1>9. CASE UNCHANGED vars
  BY <1>1, <1>9 DEF vars
<1> QED
  BY <1>4, <1>5, <1>6, <1>7, <1>8, <1>9 DEF Next, RequestStep

LEMMA PlacesInvariant == Spec => []PlacesOK
<1>1. Init => PlacesOK
  BY DEF Init, PlacesOK
<1> QED
  BY <1>1, PlacesStep, PTL DEF Spec

\* The other tasks leave the requests as they are, or hand them their guard.
LEMMA OtherTasksFit ==
  ASSUME Lock!LockInv, NoGuardLeaks, NEW q \in Requests, UNCHANGED requestVars,
         \/ UNCHANGED lockVars
         \/ Lock!AcquireWrite
         \/ Lock!ReleaseWrite
         \/ Lock!AcquireRead(Main)
         \/ Lock!ReleaseRead(Main)
  PROVE  GuardsFit(q)'
<1> USE DEF Lock!LockInv, Lock!LockTypeOK
<1>1. pc'[q] = pc[q] /\ query'[q] = query[q] /\ q # Main /\ GuardsFit(q)
  BY MainAssumption DEF requestVars, NoGuardLeaks
<1>2. CASE guards'[q] = guards[q] /\ (q \in queued' <=> q \in queued)
  BY <1>1, <1>2, FitFrame
<1>3. CASE Lock!ReleaseWrite
  <2>1. CASE q \in queued
    <3>1. guards'[q] = Outer(q) + 1 /\ q \notin queued' /\ pc[q] \in Locked
      BY <1>1, <1>3, <2>1 DEF Lock!ReleaseWrite, GuardsFit
    <3>2. Outer(q)' = Outer(q)
      BY <1>1 DEF Outer
    <3> QED
      BY <1>1, <3>1, <3>2 DEF GuardsFit, Locked
  <2>2. CASE q \notin queued
    <3>1. guards'[q] = guards[q] /\ q \notin queued'
      BY <1>3, <2>2 DEF Lock!ReleaseWrite
    <3> QED
      BY <1>2, <2>2, <3>1
  <2> QED
    BY <2>1, <2>2
<1>4. CASE UNCHANGED lockVars \/ Lock!AcquireWrite
  BY <1>2, <1>4 DEF lockVars, Lock!AcquireWrite
<1>5. CASE Lock!AcquireRead(Main)
  BY <1>1, <1>2, <1>5 DEF Lock!AcquireRead, Lock!GrantRead, Lock!QueueRead
<1>6. CASE Lock!ReleaseRead(Main)
  BY <1>1, <1>2, <1>6 DEF Lock!ReleaseRead, Lock!DropGuards
<1> QED
  BY <1>3, <1>4, <1>5, <1>6

\* Whatever happens to a request, answered, failed or abandoned, it keeps no
\* guard it should not have.
THEOREM NoGuardLeaked == Spec => []NoGuardLeaks
<1>1. Init => PlacesOK /\ NoGuardLeaks
  BY DEF Init, PlacesOK, NoGuardLeaks, GuardsFit, Outer, Lock!LockInit
<1>2. /\ PlacesOK /\ Lock!LockInv /\ NoGuardLeaks
      /\ [Next]_vars
      => NoGuardLeaks'
  <2> SUFFICES ASSUME PlacesOK, Lock!LockInv, NoGuardLeaks, [Next]_vars, NEW q \in Requests
               PROVE  GuardsFit(q)'
    BY DEF NoGuardLeaks
  <2>1. CASE RequestStep
    <3>1. PICK r \in Requests : Issue(r) \/ Hangup(r) \/ Handle(r)
      BY <2>1 DEF RequestStep
    <3>2. CASE q = r
      BY <3>1, <3>2, OwnFit
    <3>3. CASE q # r
      BY <3>1, <3>3, OthersFit DEF Lock!LockInv
    <3> QED
      BY <3>2, <3>3
  <2>2. CASE Finalize \/ Disconnect \/ Resubscribe \/ SubscriptionFails
    BY <2>2, OtherTasksFit DEF Finalize, Disconnect, Resubscribe, SubscriptionFails
  <2>3. CASE SubscriberStep
    BY <2>3, OtherTasksFit DEF SubscriberStep, Subscribe, NextBlock, PushBlock, ReceiptsFail
  <2>4. CASE MainStep
    BY <2>4, OtherTasksFit
       DEF MainStep, MainProceeds, StartServer, FromUrlPanics, StartServerFails,
           SelfCheckLock, SelfCheck, SelfCheckFails, Exit
  <2>5. CASE UNCHANGED vars
    BY <2>5, OtherTasksFit DEF vars
  <2> QED
    BY <2>1, <2>2, <2>3, <2>4, <2>5 DEF Next
<1> QED
  BY <1>1, <1>2, PlacesStep, LockInvariant, PTL DEF Spec
=============================================================================
