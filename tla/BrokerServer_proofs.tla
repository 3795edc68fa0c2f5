------------------------- MODULE BrokerServer_proofs -------------------------
(* What the broker's server promises its clients, for any number of threads,  *)
(* locks, clients, requests, connections and faults: its lock table serializes *)
(* the handlers of one id (RequestIdSerializer), and no succeeded output is    *)
(* lost between it and the clients (Handoff).                                  *)
EXTENDS RequestIdSerializer, Handoff, FiniteSetTheorems, TLAPS

-----------------------------------------------------------------------------
(* The lock table *)

\* The threads inside hold() are finitely many, and a count says whether
\* there are any and what one more or one less makes it.
LEMMA UsingIsFinite ==
  ASSUME NEW i
  PROVE  /\ IsFiniteSet(Using(i))
         /\ Cardinality(Using(i)) \in Nat
         /\ Cardinality(Using(i)) = 0 <=> Using(i) = {}
<1>1. Using(i) \in SUBSET Threads
  BY DEF Using
<1>2. IsFiniteSet(Using(i))
  BY <1>1, FS_Subset, SerializerAssumption
<1> QED
  BY <1>2, FS_CardinalityType, FS_EmptySet

\* Nobody uses any id at the start.
LEMMA SerializerInitInv == SerializerInit => IInv
<1> SUFFICES ASSUME SerializerInit PROVE IInv
  OBVIOUS
<1>1. \A i \in Ids : Using(i) = {}
  BY DEF SerializerInit, Using
<1>2. TableCountsUsers
  BY <1>1, UsingIsFinite DEF SerializerInit, TableCountsUsers
<1>3. TypeOK
  BY DEF SerializerInit, TypeOK
<1>4. SameLock /\ OwnLock /\ OwnerIsInside
  BY DEF SerializerInit, SameLock, OwnLock, OwnerIsInside
<1> QED
  BY <1>2, <1>3, <1>4 DEF IInv

\* A thread that counts itself in on lock object l, either the one of the
\* entry or a fresh one for an id without entry.
LEMMA EnterInv ==
  ASSUME IInv, NEW t \in Threads, NEW i \in Ids, NEW l \in Locks,
         Enter(t, i, l),
         \/ entry[i] = l
         \/ entry[i] = NoLock /\ l \notin Referenced
  PROVE  IInv'
<1> USE SerializerAssumption DEF IInv
<1>1. TypeOK'
  BY DEF TypeOK, Enter
<1>2. /\ phase'[t] = "waiting" /\ target'[t] = i /\ lock'[t] = l
      /\ \A u \in Threads \ {t} : /\ phase'[u] = phase[u]
                                  /\ target'[u] = target[u]
                                  /\ lock'[u] = lock[u]
      /\ entry'[i] = l /\ users'[i] = users[i] + 1
      /\ \A j \in Ids \ {i} : entry'[j] = entry[j] /\ users'[j] = users[j]
      /\ owner' = owner /\ phase[t] = "outside"
  BY DEF TypeOK, Enter
<1>3. t \notin Using(i)
  BY <1>2 DEF Using
<1>4. /\ Using(i)' = Using(i) \cup {t}
      /\ \A j \in Ids \ {i} : Using(j)' = Using(j)
  BY <1>2 DEF Using
<1>5. Cardinality(Using(i)') = Cardinality(Using(i)) + 1
  BY <1>3, <1>4, UsingIsFinite, FS_AddElement
<1>6. TableCountsUsers'
  <2> SUFFICES ASSUME NEW j \in Ids
               PROVE  /\ users'[j] = Cardinality(Using(j)')
                      /\ entry'[j] = NoLock <=> Using(j)' = {}
    BY DEF TableCountsUsers
  <2>1. /\ users[j] = Cardinality(Using(j))
        /\ entry[j] = NoLock <=> Using(j) = {}
    BY DEF TableCountsUsers
  <2>2. CASE j = i
    <3>1. Using(i)' # {} /\ entry'[i] # NoLock
      BY <1>2, <1>4
    <3> QED
      BY <1>2, <1>5, <2>1, <2>2, <3>1
  <2>3. CASE j # i
    BY <1>2, <1>4, <2>1, <2>3
  <2> QED
    BY <2>2, <2>3
<1>7. SameLock'
  <2> SUFFICES ASSUME NEW u \in Threads, phase'[u] # "outside"
               PROVE  entry'[target'[u]] = lock'[u] /\ lock'[u] \in Locks
    BY DEF SameLock
  <2>1. CASE u = t
    BY <1>2, <2>1
  <2>2. CASE u # t
    <3>1. entry[target[u]] = lock[u] /\ lock[u] \in Locks
      BY <1>2, <2>2 DEF SameLock
    <3>2. target[u] = i => entry[i] = l
      BY <3>1
    <3> QED
      BY <1>2, <2>2, <3>1, <3>2 DEF TypeOK
  <2> QED
    BY <2>1, <2>2
<1>8. OwnLock'
  <2>1. \A j \in Ids \ {i} : entry[j] # l
    BY DEF OwnLock, Referenced
  <2> QED
    BY <1>2, <2>1 DEF OwnLock
<1>9. OwnerIsInside'
  BY <1>2 DEF OwnerIsInside, TypeOK
<1> QED
  BY <1>1, <1>6, <1>7, <1>8, <1>9

\* A thread that counts itself out and drops the entry if it was the last.
LEMMA LeaveInv ==
  ASSUME IInv, NEW t \in Threads, Leave(t)
  PROVE  IInv'
<1> DEFINE i == target[t]
<1> USE SerializerAssumption DEF IInv
<1>1. i \in Ids /\ phase[t] = "leaving" /\ t \in Using(i)
  BY DEF Leave, TypeOK, Using
<1>2. /\ phase'[t] = "outside"
      /\ \A u \in Threads \ {t} : phase'[u] = phase[u] /\ lock'[u] = lock[u]
      /\ target' = target /\ owner' = owner
      /\ entry'[i] = IF users[i] = 1 THEN NoLock ELSE entry[i]
      /\ users'[i] = users[i] - 1
      /\ \A j \in Ids \ {i} : entry'[j] = entry[j] /\ users'[j] = users[j]
  BY <1>1 DEF Leave, TypeOK
<1>3. /\ Using(i)' = Using(i) \ {t}
      /\ \A j \in Ids \ {i} : Using(j)' = Using(j)
  BY <1>1, <1>2 DEF Using
<1>4. /\ Cardinality(Using(i)') = Cardinality(Using(i)) - 1
      /\ Cardinality(Using(i)) \in Nat \ {0}
      /\ Cardinality(Using(i)') = 0 <=> Using(i)' = {}
  <2>1. IsFiniteSet(Using(i)) /\ Cardinality(Using(i)) \in Nat
    BY UsingIsFinite
  <2>2. Cardinality(Using(i) \ {t}) = Cardinality(Using(i)) - 1
    BY <1>1, <2>1, FS_RemoveElement
  <2>3. Cardinality(Using(i)) # 0
    BY <1>1, UsingIsFinite
  <2>4. IsFiniteSet(Using(i) \ {t})
    BY <2>1, FS_RemoveElement
  <2>5. Cardinality(Using(i) \ {t}) = 0 <=> Using(i) \ {t} = {}
    BY <2>4, FS_EmptySet
  <2> QED
    BY <1>3, <2>1, <2>2, <2>3, <2>5
<1>5. users[i] = Cardinality(Using(i))
  BY <1>1 DEF TableCountsUsers
<1>6. TypeOK'
  BY <1>1, <1>4, <1>5 DEF TypeOK, Leave
<1>7. entry[i] # NoLock
  BY <1>1 DEF TableCountsUsers
<1>8. TableCountsUsers'
  <2> SUFFICES ASSUME NEW j \in Ids
               PROVE  /\ users'[j] = Cardinality(Using(j)')
                      /\ entry'[j] = NoLock <=> Using(j)' = {}
    BY DEF TableCountsUsers
  <2>1. /\ users[j] = Cardinality(Using(j))
        /\ entry[j] = NoLock <=> Using(j) = {}
    BY DEF TableCountsUsers
  <2>2. CASE j = i
    <3>1. entry'[i] = NoLock <=> Cardinality(Using(i)) = 1
      BY <1>2, <1>5, <1>7
    <3>2. Cardinality(Using(i)) = 1 <=> Cardinality(Using(i)') = 0
      BY <1>4
    <3> QED
      BY <1>2, <1>4, <1>5, <2>2, <3>1, <3>2
  <2>3. CASE j # i
    BY <1>2, <1>3, <2>1, <2>3
  <2> QED
    BY <2>2, <2>3
<1>9. SameLock'
  <2> SUFFICES ASSUME NEW u \in Threads, phase'[u] # "outside"
               PROVE  entry'[target'[u]] = lock'[u] /\ lock'[u] \in Locks
    BY DEF SameLock
  <2>1. u # t /\ entry[target[u]] = lock[u] /\ lock[u] \in Locks
    BY <1>2 DEF SameLock
  <2>2. target[u] = i => users[i] # 1
    BY <1>2, <1>3, <1>4, <1>5, <2>1 DEF Using
  <2> QED
    BY <1>2, <2>1, <2>2 DEF TypeOK
<1>10. OwnLock'
  BY <1>1, <1>2 DEF OwnLock
<1>11. OwnerIsInside'
  BY <1>1, <1>2 DEF OwnerIsInside, TypeOK
<1> QED
  BY <1>6, <1>8, <1>9, <1>10, <1>11

\* Every step of a thread keeps the invariant.
LEMMA SerializerNextInv == IInv /\ [SerializerNext]_serializerVars => IInv'
<1> SUFFICES ASSUME IInv, [SerializerNext]_serializerVars
             PROVE  IInv'
  OBVIOUS
<1> USE SerializerAssumption DEF IInv
<1>1. ASSUME NEW t \in Threads, NEW i \in Ids, EnterFirst(t, i)
      PROVE  IInv'
  BY <1>1, EnterInv DEF EnterFirst
<1>2. ASSUME NEW t \in Threads, NEW i \in Ids, EnterNext(t, i)
      PROVE  IInv'
  <2>1. entry[i] \in Locks
    BY <1>2 DEF EnterNext, TypeOK
  <2> QED
    BY <1>2, <2>1, EnterInv DEF EnterNext
<1>3. ASSUME NEW t \in Threads, Acquire(t)
      PROVE  IInv'
  <2>1. lock[t] \in Locks
    BY <1>3 DEF Acquire, SameLock
  <2>2. TypeOK'
    BY <1>3, <2>1 DEF Acquire, TypeOK
  <2>3. \A i \in Ids : Using(i)' = Using(i)
    BY <1>3 DEF Acquire, Using, TypeOK
  <2>4. TableCountsUsers'
    BY <1>3, <2>3 DEF Acquire, TableCountsUsers
  <2>5. SameLock' /\ OwnLock'
    BY <1>3 DEF Acquire, SameLock, OwnLock, TypeOK
  <2>6. OwnerIsInside'
    BY <1>3, <2>1 DEF Acquire, OwnerIsInside, SameLock, TypeOK
  <2> QED
    BY <2>2, <2>4, <2>5, <2>6
<1>4. ASSUME NEW t \in Threads, Release(t)
      PROVE  IInv'
  <2>1. lock[t] \in Locks
    BY <1>4 DEF Release, SameLock
  <2>2. TypeOK'
    BY <1>4, <2>1 DEF Release, TypeOK
  <2>3. \A i \in Ids : Using(i)' = Using(i)
    BY <1>4 DEF Release, Using, TypeOK
  <2>4. TableCountsUsers'
    BY <1>4, <2>3 DEF Release, TableCountsUsers
  <2>5. SameLock' /\ OwnLock'
    BY <1>4 DEF Release, SameLock, OwnLock, TypeOK
  <2>6. OwnerIsInside'
    BY <1>4, <2>1 DEF Release, OwnerIsInside, SameLock, TypeOK
  <2> QED
    BY <2>2, <2>4, <2>5, <2>6
<1>5. CASE UNCHANGED serializerVars
  BY <1>5 DEF serializerVars, TypeOK, SameLock, OwnLock, OwnerIsInside,
              TableCountsUsers, Using
<1> QED
  BY <1>1, <1>2, <1>3, <1>4, <1>5, LeaveInv DEF SerializerNext, ThreadStep

\* IInv holds in every reachable state.
THEOREM SerializerInvariant == SerializerSpec => []IInv
  BY SerializerInitInv, SerializerNextInv, PTL DEF SerializerSpec

\* Two handlers never work on one request id at the same time.
THEOREM MutualExclusionTheorem == SerializerSpec => []MutualExclusion
<1>1. IInv => MutualExclusion
  BY DEF IInv, MutualExclusion, SameLock, OwnerIsInside
<1> QED
  BY <1>1, SerializerInvariant, PTL

\* The bookkeeping check of hold() never fails.
THEOREM NeverCorruptTheorem == SerializerSpec => []NeverCorrupt
<1> SUFFICES ASSUME IInv PROVE NeverCorrupt
  BY SerializerInvariant, PTL
<1> SUFFICES ASSUME NEW t \in Threads, phase[t] = "leaving"
             PROVE  ~Corrupt(t)
  BY DEF NeverCorrupt
<1>1. target[t] \in Ids /\ t \in Using(target[t])
  BY DEF IInv, TypeOK, Using
<1>2. users[target[t]] \in Nat \ {0}
  BY <1>1, UsingIsFinite DEF IInv, TableCountsUsers
<1> QED
  BY <1>2 DEF IInv, SameLock, Corrupt

-----------------------------------------------------------------------------
(* The output on its way *)

\* The values the argument needs to know of.
HandoffTypes ==
  /\ made \in Nat
  /\ status \in [Requests -> {"none", "active", "succeeded", "exhausted"}]
  /\ outcome \in [Requests -> {"open", "succeeded", "exhausted"}]
  /\ delivered \in [Requests -> {NoUid} \cup {UidOf[c] : c \in Clients}]
  /\ file \in [Clients -> {"absent", "renamed", "durable"}]
  /\ stage \in [Conns -> {"unused", "queued", "waiting", "inside", "answered", "closed"}]
  /\ kind \in [Conns -> {"execute", "commit"}]
  /\ caller \in [Conns -> Clients]
  /\ pc \in [Clients -> {"idle", "executing", "got", "syncing", "verified", "committing"}]

\* Success is recorded from the attempts, whose payload exists until delivered.
SuccessHasOutput ==
  \A r \in Requests :
    /\ status[r] = "succeeded" => outcome[r] = "succeeded"
    /\ outcome[r] = "succeeded" => r \in stored \/ delivered[r] # NoUid

\* A delivery record names a user one of whose clients has a durable copy.
DeliveredHasCopy ==
  \A r \in Requests : delivered[r] # NoUid =>
    \E c \in Clients : RequestOf[c] = r /\ file[c] = "durable" /\ UidOf[c] = delivered[r]

\* A client that may commit has its copy, and so has the caller of a commit,
\* which may have died since.
CommitHasCopy ==
  /\ \A c \in Clients : pc[c] = "verified" => file[c] = "durable"
  /\ \A n \in Conns : kind[n] = "commit" => file[caller[n]] = "durable"

HandoffIInv == HandoffTypes /\ SuccessHasOutput /\ DeliveredHasCopy /\ CommitHasCopy

\* Before the first step nothing has succeeded, been delivered or copied.
LEMMA HandoffInit == Init => HandoffIInv
<1> SUFFICES ASSUME Init PROVE HandoffIInv
  OBVIOUS
<1> USE HandoffAssumption
<1>1. HandoffTypes
  BY DEF Init, HandoffTypes
<1>2. SuccessHasOutput /\ DeliveredHasCopy /\ CommitHasCopy
  BY DEF Init, SuccessHasOutput, DeliveredHasCopy, CommitHasCopy, Conns
<1>3. QED
  BY <1>1, <1>2 DEF HandoffIInv

\* A new connection carries a commit only of a client that has its copy.
LEMMA ConnectKeeps ==
  ASSUME HandoffIInv, NEW c \in Clients, NEW what \in {"execute", "commit"},
         Connect(c, what), what = "commit" => file[c] = "durable",
         \/ pc' = [pc EXCEPT ![c] = "executing"]
         \/ pc' = [pc EXCEPT ![c] = "committing"]
  PROVE  HandoffIInv'
<1>1. made' \in Nat
  BY DEF HandoffIInv, HandoffTypes, Connect
<1>2. UNCHANGED <<status, outcome, stored, delivered, file>>
  BY DEF Connect, brokerVars
<1>3. HandoffTypes'
  <2>1. /\ stage' \in [Conns -> {"unused", "queued", "waiting", "inside", "answered",
                               "closed"}]
        /\ kind' \in [Conns -> {"execute", "commit"}]
        /\ caller' \in [Conns -> Clients]
    BY DEF HandoffIInv, HandoffTypes, Connect
  <2>2. pc' \in [Clients -> {"idle", "executing", "got", "syncing", "verified",
                            "committing"}]
    BY DEF HandoffIInv, HandoffTypes
  <2> QED
    BY <1>1, <1>2, <2>1, <2>2 DEF HandoffIInv, HandoffTypes
<1>4. CommitHasCopy'
  <2>1. \A d \in Clients : pc'[d] = "verified" => file'[d] = "durable"
    BY <1>2 DEF HandoffIInv, HandoffTypes, CommitHasCopy
  <2>2. \A n \in Conns : kind'[n] = "commit" => file'[caller'[n]] = "durable"
    <3> TAKE n \in Conns
    <3>1. CASE n = made + 1
      BY <3>1, <1>2 DEF HandoffIInv, HandoffTypes, Connect
    <3>2. CASE n # made + 1
      BY <3>2, <1>2 DEF HandoffIInv, HandoffTypes, CommitHasCopy, Connect
    <3> QED
      BY <3>1, <3>2
  <2> QED
    BY <2>1, <2>2 DEF CommitHasCopy
<1>5. SuccessHasOutput' /\ DeliveredHasCopy'
  BY <1>2 DEF HandoffIInv, SuccessHasOutput, DeliveredHasCopy
<1> QED
  BY <1>3, <1>4, <1>5 DEF HandoffIInv

\* Every step of clients, server, collector and faults keeps the invariant.
LEMMA HandoffStep == HandoffIInv /\ [Next]_handoffVars => HandoffIInv'
<1> SUFFICES ASSUME HandoffIInv, [Next]_handoffVars PROVE HandoffIInv'
  OBVIOUS
<1> USE HandoffAssumption
<1> USE DEF HandoffIInv, HandoffTypes
<1>1. ASSUME NEW c \in Clients, Execute(c) PROVE HandoffIInv'
  BY <1>1, ConnectKeeps DEF Execute
<1>2. ASSUME NEW c \in Clients, Rename(c) PROVE HandoffIInv'
  BY <1>2 DEF Rename, brokerVars, serverVars, SuccessHasOutput, DeliveredHasCopy,
              CommitHasCopy
<1>3. ASSUME NEW c \in Clients, SyncParent(c) PROVE HandoffIInv'
  BY <1>3 DEF SyncParent, brokerVars, serverVars, SuccessHasOutput, DeliveredHasCopy,
              CommitHasCopy
<1>4. ASSUME NEW c \in Clients, Commit(c) PROVE HandoffIInv'
  <2>1. file[c] = "durable"
    BY <1>4 DEF Commit, CommitHasCopy
  <2> QED
    BY <1>4, <2>1, ConnectKeeps DEF Commit
<1>5. CASE AcquireSlot
  BY <1>5 DEF AcquireSlot, brokerVars, clientVars, SuccessHasOutput, DeliveredHasCopy,
              CommitHasCopy
<1>6. ASSUME NEW n \in Conns, Accept(n) PROVE HandoffIInv'
  BY <1>6 DEF Accept, brokerVars, clientVars, SuccessHasOutput, DeliveredHasCopy,
              CommitHasCopy
<1>7. ASSUME NEW n \in Conns, Serve(n) PROVE HandoffIInv'
  <2>1. CASE TakeLock(n)
    BY <2>1 DEF TakeLock, brokerVars, clientVars, SuccessHasOutput, DeliveredHasCopy,
                CommitHasCopy
  <2>2. CASE Register(n)
    BY <2>2 DEF Register, Inside, Id, serverVars, clientVars, SuccessHasOutput,
                DeliveredHasCopy, CommitHasCopy
  <2>3. CASE Settle(n)
    BY <2>3 DEF Settle, Answer, Inside, Id, Ends, clientVars, SuccessHasOutput,
                DeliveredHasCopy, CommitHasCopy
  <2>4. CASE GiveUp(n)
    BY <2>4 DEF GiveUp, Answer, brokerVars, clientVars, SuccessHasOutput,
                DeliveredHasCopy, CommitHasCopy
  <2>5. CASE RepeatEnd(n)
    BY <2>5 DEF RepeatEnd, Answer, brokerVars, clientVars, SuccessHasOutput,
                DeliveredHasCopy, CommitHasCopy
  <2>6. CASE SaveNew(n)
    <3>1. /\ caller[n] \in Clients
          /\ RequestOf[caller[n]] = Id(n) /\ Id(n) \in Requests
          /\ file[caller[n]] = "durable"
          /\ UidOf[caller[n]] # NoUid
      BY <2>6 DEF SaveNew, Inside, Id, CommitHasCopy
    <3>2. /\ UNCHANGED <<made, status, outcome, stored, file, kind, caller, pc>>
          /\ stage' = [stage EXCEPT ![n] = "answered"]
          /\ \/ delivered' = delivered
             \/ delivered' = [delivered EXCEPT ![Id(n)] = UidOf[caller[n]]]
      BY <2>6 DEF SaveNew, Answer, clientVars
    <3>3. HandoffTypes'
      BY <3>1, <3>2
    <3>4. SuccessHasOutput' /\ CommitHasCopy'
      BY <3>1, <3>2 DEF SuccessHasOutput, CommitHasCopy
    <3>5. DeliveredHasCopy'
      BY <3>1, <3>2 DEF DeliveredHasCopy
    <3> QED
      BY <3>3, <3>4, <3>5
  <2>7. CASE CommitRaises(n)
    BY <2>7 DEF CommitRaises, Answer, brokerVars, clientVars, SuccessHasOutput,
                DeliveredHasCopy, CommitHasCopy
  <2>8. CASE Send(n)
    BY <2>8 DEF Send, NextPc, brokerVars, SuccessHasOutput, DeliveredHasCopy,
                CommitHasCopy
  <2> QED
    BY <1>7, <2>1, <2>2, <2>3, <2>4, <2>5, <2>6, <2>7, <2>8 DEF Serve
<1>8. ASSUME NEW r \in Requests, Collect(r) PROVE HandoffIInv'
  BY <1>8 DEF Collect, serverVars, clientVars, SuccessHasOutput, DeliveredHasCopy,
              CommitHasCopy
<1>9. ASSUME NEW r \in Requests, NEW end \in Ends, EndWork(r, end) PROVE HandoffIInv'
  BY <1>9 DEF EndWork, Ends, serverVars, clientVars, SuccessHasOutput,
              DeliveredHasCopy, CommitHasCopy
<1>10. ASSUME NEW c \in Clients, ClientDies(c) PROVE HandoffIInv'
  BY <1>10 DEF ClientDies, brokerVars, serverVars, SuccessHasOutput, DeliveredHasCopy,
               CommitHasCopy
<1>11. CASE ServerDies
  BY <1>11 DEF ServerDies, ServerStops, brokerVars, SuccessHasOutput, DeliveredHasCopy,
               CommitHasCopy
<1>12. CASE HostDies
  <2>1. \A c \in Clients : file[c] = "durable" => file'[c] = "durable"
    BY <1>12 DEF HostDies
  <2>2. HandoffTypes'
    BY <1>12 DEF HostDies, ServerStops, brokerVars
  <2>3. SuccessHasOutput' /\ DeliveredHasCopy' /\ CommitHasCopy'
    BY <1>12, <2>1 DEF HostDies, ServerStops, brokerVars, SuccessHasOutput,
                       DeliveredHasCopy, CommitHasCopy
  <2> QED
    BY <2>2, <2>3
<1>13. CASE UNCHANGED handoffVars
  BY <1>13 DEF handoffVars, brokerVars, serverVars, clientVars, SuccessHasOutput,
               DeliveredHasCopy, CommitHasCopy
<1> QED
  BY <1>1, <1>2, <1>3, <1>4, <1>5, <1>6, <1>7, <1>8, <1>9, <1>10, <1>11, <1>12, <1>13
     DEF Next

\* A succeeded request has its payload or the delivered copy.
LEMMA HandoffKeepsOutput == HandoffIInv => OutputNeverLost
BY DEF HandoffIInv, SuccessHasOutput, DeliveredHasCopy, OutputNeverLost, Copies

\* The invariant holds of every reachable state, however client, server and
\* host die between the rename, its sync, the commit and the collection.
THEOREM HandoffInvariant == Spec => []HandoffIInv
BY HandoffInit, HandoffStep, PTL DEF Spec

\* The output of a succeeded request is never lost between the broker and its
\* clients, for any number of clients, users, connections and faults.
THEOREM OutputNeverLostTheorem == Spec => []OutputNeverLost
BY HandoffInvariant, HandoffKeepsOutput, PTL
=============================================================================
