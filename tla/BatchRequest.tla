---------------------------- MODULE BatchRequest ----------------------------
(***************************************************************************)
(* What the broker promises a client about one request: it is unknown,     *)
(* then active, then ends once and for all as succeeded or exhausted; it   *)
(* succeeds only when a worker has recorded a success; and a terminal      *)
(* answer is given only for a request that durably has that status.  Any   *)
(* number of requests may go without a terminal answer in between.         *)
(***************************************************************************)
VARIABLES
  status,   \* durable status of the request
  worked,   \* a successful attempt is on record
  answer    \* the answer to the client's last message

requestVars == <<status, worked, answer>>

Terminal == {"succeeded", "exhausted"}

RequestInit == status = "none" /\ ~worked /\ answer = "none"

\* A message of the client arrives, or a handler dies without an answer.
Unanswered ==
  /\ answer' = "none"
  /\ UNCHANGED <<status, worked>>

\* The client is told to come back.
NotNow ==
  /\ answer' = "failed"
  /\ UNCHANGED <<status, worked>>

Begin ==
  /\ status = "none"
  /\ status' = "active"
  /\ UNCHANGED <<worked, answer>>

\* A worker records the successful attempt; the broker may not know yet.
Work ==
  /\ ~worked
  /\ worked' = TRUE
  /\ UNCHANGED <<status, answer>>

Finish(end) ==
  /\ status = "active"
  /\ end = "succeeded" => worked
  /\ status' = end
  /\ answer' = end
  /\ UNCHANGED worked

Repeat ==
  /\ status \in Terminal
  /\ answer' = status
  /\ UNCHANGED <<status, worked>>

RequestNext ==
  \/ Unanswered
  \/ NotNow
  \/ Begin
  \/ Work
  \/ \E end \in Terminal : Finish(end)
  \/ Repeat

RequestSpec == RequestInit /\ [][RequestNext]_requestVars
=============================================================================
