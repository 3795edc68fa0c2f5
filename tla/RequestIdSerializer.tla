------------------------ MODULE RequestIdSerializer ------------------------
(***************************************************************************)
(* The broker's per-request-id lock table (_RequestIdSerializer.hold).     *)
(*                                                                         *)
(* A guard lock protects a table from request id to (lock, users).  A      *)
(* thread that enters finds or creates the entry and counts itself in,     *)
(* then blocks on the entry's lock OUTSIDE the guard; when it leaves it    *)
(* counts itself out and deletes the entry if it was the last user.  The   *)
(* danger is a deleted entry whose lock somebody still waits for: the next *)
(* thread would create a second lock for the same id.                      *)
(*                                                                         *)
(* Each section under the guard is one step.  Sources: broker/service.py.  *)
(***************************************************************************)
EXTENDS Naturals, FiniteSets

CONSTANTS
  Threads,     \* connection workers of the server
  Ids,         \* request ids
  Locks,       \* lock objects; one is reused only when nobody refers to it
  NoLock,      \* no lock object, or no entry in the table
  NoThread     \* owner of a free lock

ASSUME SerializerAssumption ==
  /\ IsFiniteSet(Threads)
  /\ NoLock \notin Locks
  /\ NoThread \notin Threads

VARIABLES
  phase,   \* phase[t]: where thread t is in hold()
  target,  \* target[t]: the id thread t asked for, meaningful inside hold()
  lock,    \* lock[t]: the lock object thread t obtained from the table
  entry,   \* entry[i]: the lock object the table holds for id i
  users,   \* users[i]: the count the table holds for id i
  owner    \* owner[l]: the thread that holds lock object l

serializerVars == <<phase, target, lock, entry, users, owner>>

\* Threads inside hold() for id i, in any phase.
Using(i) == {t \in Threads : phase[t] # "outside" /\ target[t] = i}

\* Lock objects some thread or some entry still refers to.
Referenced == {lock[t] : t \in Threads} \cup {entry[i] : i \in Ids}

TypeOK ==
  /\ phase \in [Threads -> {"outside", "waiting", "inside", "leaving"}]
  /\ target \in [Threads -> Ids]
  /\ lock \in [Threads -> Locks \cup {NoLock}]
  /\ entry \in [Ids -> Locks \cup {NoLock}]
  /\ users \in [Ids -> Nat]
  /\ owner \in [Locks -> Threads \cup {NoThread}]

-----------------------------------------------------------------------------
SerializerInit ==
  /\ phase = [t \in Threads |-> "outside"]
  /\ target \in [Threads -> Ids]
  /\ lock = [t \in Threads |-> NoLock]
  /\ entry = [i \in Ids |-> NoLock]
  /\ users = [i \in Ids |-> 0]
  /\ owner = [l \in Locks |-> NoThread]

Enter(t, i, l) ==
  /\ phase[t] = "outside"
  /\ phase' = [phase EXCEPT ![t] = "waiting"]
  /\ target' = [target EXCEPT ![t] = i]
  /\ lock' = [lock EXCEPT ![t] = l]
  /\ entry' = [entry EXCEPT ![i] = l]
  /\ users' = [users EXCEPT ![i] = @ + 1]
  /\ UNCHANGED owner

\* Mutant: a later thread takes the lock without counting itself in.
EnterUncounted(t, i) ==
  /\ entry[i] # NoLock
  /\ phase[t] = "outside"
  /\ phase' = [phase EXCEPT ![t] = "waiting"]
  /\ target' = [target EXCEPT ![t] = i]
  /\ lock' = [lock EXCEPT ![t] = entry[i]]
  /\ UNCHANGED <<entry, users, owner>>

EnterFirst(t, i) ==
  /\ entry[i] = NoLock
  /\ \E l \in Locks \ Referenced : Enter(t, i, l)

EnterNext(t, i) ==
  /\ entry[i] # NoLock
  /\ Enter(t, i, entry[i])

Acquire(t) ==
  /\ phase[t] = "waiting"
  /\ owner[lock[t]] = NoThread
  /\ owner' = [owner EXCEPT ![lock[t]] = t]
  /\ phase' = [phase EXCEPT ![t] = "inside"]
  /\ UNCHANGED <<target, lock, entry, users>>

\* Mutant: a handler that raised keeps its lock.
ReleaseNothing(t) ==
  /\ phase[t] = "inside"
  /\ phase' = [phase EXCEPT ![t] = "leaving"]
  /\ UNCHANGED <<target, lock, entry, users, owner>>

\* The handler returned or raised.
Release(t) ==
  /\ phase[t] = "inside"
  /\ owner' = [owner EXCEPT ![lock[t]] = NoThread]
  /\ phase' = [phase EXCEPT ![t] = "leaving"]
  /\ UNCHANGED <<target, lock, entry, users>>

\* "broker request lock bookkeeping corrupt"
Corrupt(t) == entry[target[t]] # lock[t] \/ users[target[t]] < 1

\* Mutant: whoever leaves drops the entry.
LeaveAlwaysDropping(t) ==
  LET i == target[t]
  IN  /\ phase[t] = "leaving"
      /\ ~Corrupt(t)
      /\ entry' = [entry EXCEPT ![i] = NoLock]
      /\ users' = [users EXCEPT ![i] = 0]
      /\ lock' = [lock EXCEPT ![t] = NoLock]
      /\ phase' = [phase EXCEPT ![t] = "outside"]
      /\ UNCHANGED <<target, owner>>

Leave(t) ==
  LET i == target[t]
  IN  /\ phase[t] = "leaving"
      /\ ~Corrupt(t)
      /\ entry' = [entry EXCEPT ![i] = IF users[i] = 1 THEN NoLock ELSE @]
      /\ users' = [users EXCEPT ![i] = @ - 1]
      /\ lock' = [lock EXCEPT ![t] = NoLock]
      /\ phase' = [phase EXCEPT ![t] = "outside"]
      /\ UNCHANGED <<target, owner>>

ThreadStep(t) == Acquire(t) \/ Release(t) \/ Leave(t)

SerializerNext ==
  \E t \in Threads :
    \/ \E i \in Ids : EnterFirst(t, i) \/ EnterNext(t, i)
    \/ ThreadStep(t)

SerializerSpec == SerializerInit /\ [][SerializerNext]_serializerVars

\* A thread that can go on does: handlers return, free locks are taken.
FairSerializerSpec == SerializerSpec /\ \A t \in Threads : WF_serializerVars(ThreadStep(t))

-----------------------------------------------------------------------------
(* Properties *)

\* Two handlers never work on the same request id at once, although the
\* lock they queue on is created and dropped while threads come and go.
MutualExclusion ==
  \A t, u \in Threads :
    phase[t] = "inside" /\ phase[u] = "inside" /\ target[t] = target[u] => t = u

\* The table counts exactly the threads inside hold(), so an entry is dropped
\* when and only when nobody uses it: idle ids are not retained.
TableCountsUsers ==
  \A i \in Ids :
    /\ users[i] = Cardinality(Using(i))
    /\ entry[i] = NoLock <=> Using(i) = {}

\* The RuntimeError of the bookkeeping check cannot be raised.
NeverCorrupt == \A t \in Threads : phase[t] = "leaving" => ~Corrupt(t)

\* A lock without waiters is never left taken: when a thread waits for an id,
\* some thread gets to work on that id.
WaitersMoveOn ==
  \A i \in Ids :
    (\E t \in Threads : phase[t] = "waiting" /\ target[t] = i) ~>
      (\E t \in Threads : phase[t] = "inside" /\ target[t] = i)

-----------------------------------------------------------------------------
(* The inductive invariant: one lock object per id in use. *)

SameLock ==
  \A t \in Threads : phase[t] # "outside" =>
    entry[target[t]] = lock[t] /\ lock[t] \in Locks

OwnLock ==
  \A i, j \in Ids : entry[i] = entry[j] /\ entry[i] # NoLock => i = j

OwnerIsInside ==
  /\ \A l \in Locks : owner[l] # NoThread =>
       phase[owner[l]] = "inside" /\ lock[owner[l]] = l
  /\ \A t \in Threads : phase[t] = "inside" => owner[lock[t]] = t

IInv == TypeOK /\ SameLock /\ OwnLock /\ OwnerIsInside /\ TableCountsUsers
=============================================================================
