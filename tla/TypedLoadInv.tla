---------------------------- MODULE TypedLoadInv ----------------------------
(* The inductive invariants behind the safety theorems of TypedLoad.         *)
(* FlightInv: who refers to a load, and what that says about the load's own  *)
(* goroutine.  BudgetInv: who has a claim on the budget, and who waits.      *)
EXTENDS TypedLoad

\* The types of the variables the invariant is about.
Types ==
  /\ flights \in [Keys -> Loads \cup {NoLoad}]
  /\ load \in [Loads -> sharedLoad]
  /\ at \in [Builders -> RunSteps]
  /\ pc \in [Callers -> CallerSteps]
  /\ mine \in [Callers -> Loads \cup {NoLoad}]

\* The callers that have a reference on l and have not dropped it.
Refs(l) == {c \in Callers : mine[c] = l /\ pc[c] \in {"wait", "failed", "read"}}

\* refs counts them.
RefsCounted == \A l \in Loads : load[l].refs = Cardinality(Refs(l))

CallersHaveLoads ==
  \A c \in Callers :
    /\ pc[c] = "idle" <=> mine[c] = NoLoad
    /\ mine[c] # NoLoad => Running(mine[c]) \/ load[mine[c]].finished
    /\ pc[c] = "read" => load[mine[c]].ok /\ load[mine[c]].finished
    /\ pc[c] = "release" => load[mine[c]].finished /\ load[mine[c]].refs = 0

FlightsAreLive ==
  \A k \in Keys : LET l == flights[k] IN l # NoLoad =>
    /\ load[l].key = k
    /\ Running(l) \/ load[l].finished
    /\ load[l].finished => load[l].refs # 0

LoadInStep(l) ==
  /\ load[l].finished => at[l] \in {"orphan", "close", "over"}
  /\ at[l] \in {"orphan", "close"} => load[l].finished
  /\ at[l] = "orphan" => load[l].refs = 0
  /\ load[l].done => load[l].finished
  /\ Running(l) => load[l].key \in Keys
  /\ at[l] = "load" => load[l].admitted
  /\ load[l].ok => at[l] \in {"finish", "orphan", "close", "over"}
  /\ load[l].ok /\ ~load[l].admitted => load[l].finished /\ load[l].refs = 0
LoadsAreInStep == \A l \in Loads : LoadInStep(l)

FlightInv ==
  /\ Types /\ RefsCounted /\ CallersHaveLoads /\ FlightsAreLive
  /\ LoadsAreInStep /\ OneLoadPerKey

-----------------------------------------------------------------------------
(* The gate and the budget. *)

\* What b has taken, or will have taken when it is granted what it waits for.
Claim(b) ==
  IF b \in Loads /\ (load[b].admitted \/ at[b] = "queue") THEN WeightOf(b)
  ELSE IF at[b] \in {"charge", "build"} THEN charge ELSE 0
Claims == [b \in Builders |-> Claim(b)]

Queued(queue, b) == \E i \in 1 .. Len(queue) : queue[i].who = b
\* Who does not wait has its claim.
Granted(claims, queue) == [b \in Builders |-> IF Queued(queue, b) THEN 0 ELSE claims[b]]

\* The books of a semaphore with these claims: everybody waits at most once, for
\* its claim; the rest is taken.
Ledger(claims, s) ==
  /\ claims \in [Builders -> 0 .. Capacity]
  /\ s \in [cur : Nat, queue : Seq([who : Builders, n : Nat])]
  /\ \A i \in 1 .. Len(s.queue) : s.queue[i].n = claims[s.queue[i].who] /\ s.queue[i].n # 0
  /\ \A i, j \in 1 .. Len(s.queue) : s.queue[i].who = s.queue[j].who => i = j
  /\ s.cur <= Capacity /\ s.cur = Total(Granted(claims, s.queue))
\* The first waiter waits for want of budget.
HeadWaits(s) == s.queue # <<>> => s.cur + s.queue[1].n > Capacity

WaitersInStep ==
  \A b \in Builders : Queued(sem.queue, b) => at[b] = "charge" \/ (b \in Loads /\ at[b] = "queue")

\* An admitted load keeps its budget until its own goroutine or its last reader
\* gives it back.
AdmittedInStep ==
  \A l \in Loads : load[l].admitted =>
    /\ load[l].key \in Keys
    /\ at[l] \in {"load", "finish", "orphan", "close"} \/ (at[l] = "over" /\ load[l].finished)
    /\ load[l].finished /\ load[l].refs = 0 =>
         at[l] = "orphan" \/ \E c \in Callers : pc[c] = "release" /\ mine[c] = l

\* One builder at a time is inside the gate.
GateIsHeld == \A b \in Builders : gate = b <=> at[b] \in {"reserve", "charge", "build"}

Books == Ledger(Claims, sem) /\ HeadWaits(sem) /\ WaitersInStep
BudgetInv == FlightInv /\ TypeOK /\ Books /\ AdmittedInStep /\ GateIsHeld
=============================================================================
