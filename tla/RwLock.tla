------------------------------- MODULE RwLock -------------------------------
(***************************************************************************)
(* `Shared<BlockCache>` is an Arc<tokio::sync::RwLock>.  The lock is a     *)
(* library; the module states how it serves its waiters as far as the      *)
(* client depends on it.  The lock is fair: a writer that waits is ahead   *)
(* of every reader that asks after it, even of one that already has a      *)
(* guard.  The client has one writer, the task of `subscribe_blocks`.      *)
(***************************************************************************)
EXTENDS Naturals, TLAPS

CONSTANTS
    Readers,    \* tasks that take read guards
    MaxGuards   \* guards a reader may nest in this module's own Next

VARIABLES
    writer,     \* the writer: "idle", "waiting" for the lock or "holding" it
    guards,     \* number of read guards each reader holds
    queued      \* readers that wait behind the writer

lockVars == <<writer, guards, queued>>

LockInit ==
    /\ writer = "idle"
    /\ guards = [r \in Readers |-> 0]
    /\ queued = {}

Unread(g) == \A r \in Readers : g[r] = 0

\* Variants with a bug: granted while the writer writes; granted ahead of a
\* writer that waits.
GrantReadWhileWriting(r) ==
    /\ writer # "waiting"
    /\ guards' = [guards EXCEPT ![r] = @ + 1]
    /\ UNCHANGED <<writer, queued>>
GrantReadAheadOfWriter(r) ==
    /\ writer # "holding"
    /\ guards' = [guards EXCEPT ![r] = @ + 1]
    /\ UNCHANGED <<writer, queued>>

\* `read().await` when no writer holds the lock or waits for it.
GrantRead(r) ==
    /\ writer = "idle"
    /\ guards' = [guards EXCEPT ![r] = @ + 1]
    /\ UNCHANGED <<writer, queued>>

\* `read().await` behind the writer.
QueueRead(r) ==
    /\ writer # "idle"
    /\ queued' = queued \cup {r}
    /\ UNCHANGED <<writer, guards>>

AcquireRead(r) ==
    /\ r \notin queued
    /\ GrantRead(r) \/ QueueRead(r)

\* Variant with a bug: the last guard does not wake the writer.
DropGuardsNoWake(g) == guards' = g /\ UNCHANGED writer

\* Guards are dropped until the counts are `g`; the last one wakes the writer.
DropGuards(g) ==
    /\ guards' = g
    /\ writer' = IF writer = "waiting" /\ Unread(g) THEN "holding" ELSE writer

\* The guard taken last is dropped.
ReleaseRead(r) ==
    /\ r \notin queued /\ guards[r] > 0
    /\ DropGuards([guards EXCEPT ![r] = @ - 1])
    /\ UNCHANGED queued

\* Every guard of `r` is dropped, and its place in the queue if it waits.
Abandon(r) ==
    /\ DropGuards([guards EXCEPT ![r] = 0])
    /\ queued' = queued \ {r}

\* `write().await`.
AcquireWrite ==
    /\ writer = "idle"
    /\ writer' = IF Unread(guards) THEN "holding" ELSE "waiting"
    /\ UNCHANGED <<guards, queued>>

\* The write guard is dropped: the readers that queued behind it get theirs.
ReleaseWrite ==
    /\ writer = "holding"
    /\ writer' = "idle"
    /\ guards' = [r \in Readers |-> IF r \in queued THEN guards[r] + 1 ELSE guards[r]]
    /\ queued' = {}

LockNext ==
    \/ AcquireWrite
    \/ ReleaseWrite
    \/ \E r \in Readers :
         \/ guards[r] < MaxGuards /\ AcquireRead(r)
         \/ ReleaseRead(r)
         \/ (r \in queued \/ guards[r] > 0) /\ Abandon(r)

LockSpec == LockInit /\ [][LockNext]_lockVars

LockTypeOK ==
    /\ writer \in {"idle", "waiting", "holding"}
    /\ guards \in [Readers -> Nat]
    /\ queued \subseteq Readers

\* The cache is never read while `subscribe_blocks` changes it.
WriterExcludesReaders == writer = "holding" => Unread(guards)

\* No wake-up is lost: whoever waits, waits for somebody who holds the lock or
\* is ahead in the queue.
NobodyWaitsForNobody ==
    /\ writer = "waiting" => \E r \in Readers : guards[r] > 0
    /\ queued # {} => writer # "idle"

\* While the writer waits, no reader gets a guard, not even one more of its own.
NoOvertaking ==
    [][writer = "waiting" => \A r \in Readers : guards'[r] <= guards[r]]_lockVars

-----------------------------------------------------------------------------
\* Safety of the lock for any set of readers and any nesting of read guards.

\* Guards and queue have their types, the cache is never read while
\* `subscribe_blocks` changes it, and no wake-up is lost.
LockInv == LockTypeOK /\ WriterExcludesReaders /\ NobodyWaitsForNobody

\* Dropping guards keeps the invariant, given counts that do not grow.
LEMMA DropGuardsSafe ==
  ASSUME LockInv, NEW g \in [Readers -> Nat], \A r \in Readers : g[r] <= guards[r],
         DropGuards(g), queued' \subseteq queued
  PROVE  LockInv'
<1> USE DEF LockInv, LockTypeOK, WriterExcludesReaders, NobodyWaitsForNobody, Unread
<1>1. LockTypeOK'
  BY DEF DropGuards
<1>2. WriterExcludesReaders'
  <2>1. CASE writer = "holding"
    BY <2>1 DEF DropGuards
  <2>2. CASE writer # "holding"
    BY <2>2 DEF DropGuards
  <2> QED
    BY <2>1, <2>2
<1>3. writer' = "waiting" => \E r \in Readers : guards'[r] > 0
  BY DEF DropGuards
<1>4. queued' # {} => writer' # "idle"
  BY DEF DropGuards
<1> QED
  BY <1>1, <1>2, <1>3, <1>4

\* Each operation of the lock keeps the invariant.
LEMMA LockInvStep == LockInv /\ [LockNext]_lockVars => LockInv'
<1> SUFFICES ASSUME LockInv, [LockNext]_lockVars PROVE LockInv'
  OBVIOUS
<1> USE DEF LockInv, LockTypeOK, WriterExcludesReaders, NobodyWaitsForNobody, Unread
<1>1. CASE UNCHANGED lockVars
  BY <1>1 DEF lockVars
<1>2. CASE AcquireWrite
  BY <1>2 DEF AcquireWrite
<1>3. CASE ReleaseWrite
  BY <1>3 DEF ReleaseWrite
<1>4. ASSUME NEW r \in Readers, AcquireRead(r)
      PROVE  LockInv'
  <2>1. CASE GrantRead(r)
    BY <2>1 DEF GrantRead
  <2>2. CASE QueueRead(r)
    BY <2>2 DEF QueueRead
  <2> QED
    BY <1>4, <2>1, <2>2 DEF AcquireRead
<1>5. ASSUME NEW r \in Readers, ReleaseRead(r)
      PROVE  LockInv'
  <2> DEFINE g == [guards EXCEPT ![r] = @ - 1]
  <2>1. g \in [Readers -> Nat] /\ \A q \in Readers : g[q] <= guards[q]
    BY <1>5 DEF ReleaseRead
  <2> QED
    BY <1>5, <2>1, DropGuardsSafe DEF ReleaseRead
<1>6. ASSUME NEW r \in Readers, Abandon(r)
      PROVE  LockInv'
  <2> DEFINE g == [guards EXCEPT ![r] = 0]
  <2>1. g \in [Readers -> Nat] /\ \A q \in Readers : g[q] <= guards[q]
    OBVIOUS
  <2> QED
    BY <1>6, <2>1, DropGuardsSafe DEF Abandon
<1> QED
  BY <1>1, <1>2, <1>3, <1>4, <1>5, <1>6 DEF LockNext

\* The writer never overlaps a reader, and whoever waits, waits for somebody.
THEOREM LockSafe == LockSpec => []LockInv
<1>1. LockInit => LockInv
  BY DEF LockInit, LockInv, LockTypeOK, WriterExcludesReaders, NobodyWaitsForNobody
<1> QED
  BY <1>1, LockInvStep, PTL DEF LockSpec

\* A writer that waits is overtaken by nobody, so readers that keep coming cannot
\* keep it waiting: the guards it waits for only get fewer.
THEOREM WriterNotOvertaken == LockSpec => NoOvertaking
<1> DEFINE Fewer == writer = "waiting" => \A r \in Readers : guards'[r] <= guards[r]
<1>1. LockInv /\ [LockNext]_lockVars => [Fewer]_lockVars
  <2> SUFFICES ASSUME LockInv, LockNext, writer = "waiting", NEW r \in Readers
               PROVE  guards'[r] <= guards[r]
    OBVIOUS
  <2>0. guards \in [Readers -> Nat]
    BY DEF LockInv, LockTypeOK
  <2>1. CASE guards' = guards
    BY <2>0, <2>1
  <2>2. CASE AcquireWrite \/ ReleaseWrite
    BY <2>2 DEF AcquireWrite, ReleaseWrite
  <2>3. ASSUME NEW q \in Readers, AcquireRead(q) PROVE guards' = guards
    BY <2>3 DEF AcquireRead, GrantRead, QueueRead
  <2>4. ASSUME NEW q \in Readers, ReleaseRead(q) PROVE guards'[r] <= guards[r]
    BY <2>0, <2>4 DEF ReleaseRead, DropGuards
  <2>5. ASSUME NEW q \in Readers, Abandon(q) PROVE guards'[r] <= guards[r]
    BY <2>0, <2>5 DEF Abandon, DropGuards
  <2> QED
    BY <2>1, <2>2, <2>3, <2>4, <2>5 DEF LockNext
<1> QED
  BY <1>1, LockSafe, PTL DEF LockSpec, NoOvertaking
=============================================================================
