-------------------------------- MODULE Handoff --------------------------------
(* From the client's call to the durable copy of its output.                  *)
(*                                                                            *)
(* The server (broker/server.py) accepts a connection only when it has taken  *)
(* one of its slots, and a pool thread serves it: it waits its turn for the   *)
(* request id, drives the request or repeats its end, answers, and gives the  *)
(* slot back, whether or not anybody still listens.  The client               *)
(* (broker/client.py) executes, persists the output and then commits the      *)
(* delivery on a second connection (lifecycle/durable.py, delivery.py); from  *)
(* then on the collector may take the payload.  Clients and server may die at *)
(* any time, and so may the host, with every rename whose directory was not   *)
(* synced.                                                                    *)
(*                                                                            *)
(* How a request is driven is module BrokerRun, who takes the lock of an id   *)
(* is module RequestIdSerializer, what the collector may take is module       *)
(* ArtifactGC; here work ends somehow, a lock has one owner at a time, and a  *)
(* delivered payload may go.                                                  *)
EXTENDS Naturals, FiniteSets

CONSTANTS
  Clients,        \* client processes, each with a destination of its own
  Requests,       \* request ids
  RequestOf,      \* the request a client executes
  UidOf,          \* the user a client runs as
  Slots,          \* MAX_ACTIVE_CONNECTIONS
  MaxConnections, \* bound on the connections ever made
  MaxFaults,      \* bound on deaths of clients, server and host together
  NoUid           \* no delivery record

ASSUME HandoffAssumption ==
  /\ Clients # {}
  /\ RequestOf \in [Clients -> Requests]
  /\ NoUid \notin {UidOf[c] : c \in Clients}
  /\ Slots \in Nat \ {0} /\ MaxConnections \in Nat /\ MaxFaults \in Nat

Conns == 1..MaxConnections

VARIABLES
  \* durable
  status,    \* the request file: "none", "active", "succeeded", "exhausted"
  outcome,   \* what the attempts say: "open", "succeeded", "exhausted"
  stored,    \* requests whose output payload exists
  delivered, \* the user in the delivery record of a request
  file,      \* a client's destination: "absent", "renamed", "durable"
  \* the server process
  slots,     \* slots nobody has
  accepting, \* the loop has a slot and waits in accept()
  stage,     \* "unused", "queued", "waiting", "inside", "answered", "closed"
  kind,      \* what a connection carries: "execute" or "commit"
  caller,    \* the client that opened it
  answer,    \* what will be sent on it, "none" for nothing
  \* the client processes
  pc,        \* "idle", "executing", "got", "syncing", "verified", "committing"
  link,      \* the connection a client reads, 0 for none
  made,      \* connections made so far
  faults

serverVars == <<slots, accepting, stage, kind, caller, answer>>
clientVars == <<pc, link, made>>
brokerVars == <<status, outcome, stored, delivered>>
handoffVars == <<brokerVars, file, serverVars, clientVars, faults>>

Id(n) == RequestOf[caller[n]]
Ends == {"succeeded", "exhausted"}

Init ==
  /\ status = [r \in Requests |-> "none"]
  /\ outcome = [r \in Requests |-> "open"]
  /\ stored = {}
  /\ delivered = [r \in Requests |-> NoUid]
  /\ file = [c \in Clients |-> "absent"]
  /\ slots = Slots /\ accepting = FALSE
  /\ stage = [n \in Conns |-> "unused"]
  /\ kind = [n \in Conns |-> "execute"]
  /\ caller = [n \in Conns |-> CHOOSE c \in Clients : TRUE]  \* unused before Connect
  /\ answer = [n \in Conns |-> "none"]
  /\ pc = [c \in Clients |-> "idle"]
  /\ link = [c \in Clients |-> 0]
  /\ made = 0 /\ faults = 0

-----------------------------------------------------------------------------
(* The client. *)

Connect(c, what) ==
  /\ made < MaxConnections
  /\ made' = made + 1
  /\ stage' = [stage EXCEPT ![made + 1] = "queued"]
  /\ kind' = [kind EXCEPT ![made + 1] = what]
  /\ caller' = [caller EXCEPT ![made + 1] = c]
  /\ link' = [link EXCEPT ![c] = made + 1]
  /\ UNCHANGED <<brokerVars, file, slots, accepting, answer, faults>>

Execute(c) ==
  /\ pc[c] = "idle"
  /\ pc' = [pc EXCEPT ![c] = "executing"]
  /\ Connect(c, "execute")

\* The temporary file is synced and renamed.  Over an earlier copy, the
\* destination is that copy or the new one from now on: the same bytes.
Rename(c) ==
  /\ pc[c] = "got"
  /\ file' = [file EXCEPT ![c] = IF @ = "durable" THEN @ ELSE "renamed"]
  /\ pc' = [pc EXCEPT ![c] = "syncing"]
  /\ UNCHANGED <<brokerVars, serverVars, link, made, faults>>

\* The directory is synced, the destination read back and verified.
SyncParent(c) ==
  /\ pc[c] = "syncing"
  /\ file' = [file EXCEPT ![c] = "durable"]
  /\ pc' = [pc EXCEPT ![c] = "verified"]
  /\ UNCHANGED <<brokerVars, serverVars, link, made, faults>>

\* Mutant: the delivery is committed as soon as the output is renamed.
CommitEarly(c) ==
  /\ pc[c] \in {"syncing", "verified"}
  /\ pc' = [pc EXCEPT ![c] = "committing"]
  /\ Connect(c, "commit")

Commit(c) ==
  /\ pc[c] = "verified"
  /\ pc' = [pc EXCEPT ![c] = "committing"]
  /\ Connect(c, "commit")

-----------------------------------------------------------------------------
(* The server. *)

\* slots.acquire() comes before accept(): callers wait in the backlog.
AcquireSlot ==
  /\ ~accepting /\ slots > 0
  /\ slots' = slots - 1
  /\ accepting' = TRUE
  /\ UNCHANGED <<brokerVars, file, stage, kind, caller, answer, clientVars, faults>>

Accept(n) ==
  /\ accepting
  /\ stage[n] = "queued"
  /\ \A m \in Conns : stage[m] = "queued" => n <= m
  /\ accepting' = FALSE
  /\ stage' = [stage EXCEPT ![n] = "waiting"]
  /\ UNCHANGED <<brokerVars, file, slots, kind, caller, answer, clientVars, faults>>

\* _request_serializer.hold
TakeLock(n) ==
  /\ stage[n] = "waiting"
  /\ \A m \in Conns : stage[m] = "inside" => Id(m) # Id(n)
  /\ stage' = [stage EXCEPT ![n] = "inside"]
  /\ UNCHANGED <<brokerVars, file, slots, accepting, kind, caller, answer,
                 clientVars, faults>>

Inside(n, what) == stage[n] = "inside" /\ kind[n] = what

Answer(n, what) ==
  /\ stage' = [stage EXCEPT ![n] = "answered"]
  /\ answer' = [answer EXCEPT ![n] = what]
  /\ UNCHANGED <<file, slots, accepting, kind, caller, clientVars, faults>>

Register(n) ==
  /\ Inside(n, "execute") /\ status[Id(n)] = "none"
  /\ status' = [status EXCEPT ![Id(n)] = "active"]
  /\ UNCHANGED <<outcome, stored, delivered, file, serverVars, clientVars, faults>>

\* Attempts end; a successful one has written its payload.
EndWork(r, end) ==
  /\ status[r] = "active" /\ outcome[r] = "open"
  /\ outcome' = [outcome EXCEPT ![r] = end]
  /\ stored' = IF end = "succeeded" THEN stored \cup {r} ELSE stored
  /\ UNCHANGED <<status, delivered, file, serverVars, clientVars, faults>>

\* _drive_to_terminal saves the end of the request and answers with it.
Settle(n) ==
  /\ Inside(n, "execute")
  /\ status[Id(n)] = "active" /\ outcome[Id(n)] \in Ends
  /\ status' = [status EXCEPT ![Id(n)] = outcome[Id(n)]]
  /\ Answer(n, outcome[Id(n)])
  /\ UNCHANGED <<outcome, stored, delivered>>

\* A transient error of the backend, or a refused dispatch.
GiveUp(n) ==
  /\ Inside(n, "execute") /\ status[Id(n)] = "active"
  /\ Answer(n, "failed")
  /\ UNCHANGED brokerVars

\* A request that has ended is answered from its files; a payload that was
\* collected cannot be read any more.
RepeatEnd(n) ==
  /\ Inside(n, "execute") /\ status[Id(n)] \in Ends
  /\ Answer(n, IF status[Id(n)] = "succeeded" /\ Id(n) \notin stored
               THEN "failed" ELSE status[Id(n)])
  /\ UNCHANGED brokerVars

\* The same delivery may be committed again, another one not.
SaveNew(n) ==
  LET uid == UidOf[caller[n]]
      accepted == status[Id(n)] = "succeeded" /\ delivered[Id(n)] \in {NoUid, uid}
  IN  /\ Inside(n, "commit")
      /\ delivered' = IF accepted THEN [delivered EXCEPT ![Id(n)] = uid] ELSE delivered
      /\ Answer(n, IF accepted THEN "accepted" ELSE "failed")
      /\ UNCHANGED <<status, outcome, stored>>

\* Somebody else has the lifecycle lock, which is tried once: nothing is saved,
\* and the client is sent an error.
CommitRaises(n) ==
  /\ Inside(n, "commit")
  /\ Answer(n, "failed")
  /\ UNCHANGED brokerVars

Listens(c, n) == link[c] = n

NextPc(c, n) ==
  IF answer[n] = "succeeded" /\ pc[c] = "executing" THEN "got" ELSE "idle"

\* Mutant: the slot is kept when sending fails.
SendOrKeepSlot(n) ==
  /\ stage[n] = "answered"
  /\ stage' = [stage EXCEPT ![n] = "closed"]
  /\ slots' = IF Listens(caller[n], n) THEN slots + 1 ELSE slots
  /\ pc' = [c \in Clients |-> IF Listens(c, n) THEN NextPc(c, n) ELSE pc[c]]
  /\ link' = [c \in Clients |-> IF Listens(c, n) THEN 0 ELSE link[c]]
  /\ UNCHANGED <<brokerVars, file, accepting, kind, caller, answer, made, faults>>

\* sendall, or its failure when the client is gone; the slot is released in
\* either case.  Only an output takes the client further.
Send(n) ==
  /\ stage[n] = "answered"
  /\ stage' = [stage EXCEPT ![n] = "closed"]
  /\ slots' = slots + 1
  /\ pc' = [c \in Clients |-> IF Listens(c, n) THEN NextPc(c, n) ELSE pc[c]]
  /\ link' = [c \in Clients |-> IF Listens(c, n) THEN 0 ELSE link[c]]
  /\ UNCHANGED <<brokerVars, file, accepting, kind, caller, answer, made, faults>>

-----------------------------------------------------------------------------
(* The collector, and faults. *)

Collect(r) ==
  /\ r \in stored /\ delivered[r] # NoUid
  /\ stored' = stored \ {r}
  /\ UNCHANGED <<status, outcome, delivered, file, serverVars, clientVars, faults>>

Fault == faults < MaxFaults /\ faults' = faults + 1

\* What it has sent stays in the socket; nobody will read the answer.
ClientDies(c) ==
  /\ Fault /\ pc[c] # "idle"
  /\ pc' = [pc EXCEPT ![c] = "idle"]
  /\ link' = [link EXCEPT ![c] = 0]
  /\ UNCHANGED <<brokerVars, file, serverVars, made>>

\* Every connection breaks, those of the backlog too; a new loop starts.
ServerStops ==
  /\ slots' = Slots /\ accepting' = FALSE
  /\ stage' = [n \in Conns |-> IF stage[n] = "unused" THEN "unused" ELSE "closed"]
  /\ UNCHANGED <<brokerVars, kind, caller, answer, made>>

ServerDies ==
  /\ Fault /\ ServerStops
  /\ pc' = [c \in Clients |-> IF link[c] # 0 THEN "idle" ELSE pc[c]]
  /\ link' = [c \in Clients |-> 0]
  /\ UNCHANGED file

\* Power is lost: a rename not synced yet may have happened or not.
HostDies ==
  /\ Fault /\ ServerStops
  /\ pc' = [c \in Clients |-> "idle"]
  /\ link' = [c \in Clients |-> 0]
  /\ \E kept \in SUBSET Clients :
       file' = [c \in Clients |-> IF file[c] # "renamed" THEN file[c]
                                  ELSE IF c \in kept THEN "durable" ELSE "absent"]

Serve(n) ==
  \/ TakeLock(n) \/ Register(n) \/ Settle(n) \/ GiveUp(n) \/ RepeatEnd(n)
  \/ SaveNew(n) \/ CommitRaises(n) \/ Send(n)

Next ==
  \/ \E c \in Clients : Execute(c) \/ Rename(c) \/ SyncParent(c) \/ Commit(c)
  \/ AcquireSlot
  \/ \E n \in Conns : Accept(n) \/ Serve(n)
  \/ \E r \in Requests : Collect(r) \/ \E end \in Ends : EndWork(r, end)
  \/ \E c \in Clients : ClientDies(c)
  \/ ServerDies \/ HostDies

Spec == Init /\ [][Next]_handoffVars

\* The loop and the threads go on, and work that was dispatched ends (BrokerRun).
FairSpec ==
  /\ Spec
  /\ WF_handoffVars(AcquireSlot)
  /\ \A n \in Conns : WF_handoffVars(Accept(n)) /\ WF_handoffVars(Serve(n))
  /\ \A r \in Requests : WF_handoffVars(\E end \in Ends : EndWork(r, end))

-----------------------------------------------------------------------------
(* Properties *)

Copies(r) == {c \in Clients : RequestOf[c] = r /\ file[c] = "durable"}

\* The output of a succeeded request is never lost between the broker and its
\* clients: the payload exists, or a copy of it that survives a loss of power,
\* made by a client of the user whose delivery let the payload go.
OutputNeverLost ==
  \A r \in Requests : status[r] = "succeeded" =>
    \/ r \in stored
    \/ \E c \in Copies(r) : UidOf[c] = delivered[r]

Waiting(c) == pc[c] \in {"executing", "committing"}

\* Every caller is answered or cut off, although requests hold their slots
\* while they are driven, callers of one id queue up in slots behind it, and
\* clients that died still occupy theirs.
CallersAreAnswered == \A c \in Clients : Waiting(c) ~> ~Waiting(c)
=============================================================================
