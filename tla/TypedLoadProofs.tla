-------------------------- MODULE TypedLoadProofs --------------------------
(* Theorems of TypedLoad, for every set of callers, loads, prewarms and      *)
(* modules and every budget.  First FlightInv: the reference counts, the     *)
(* joinable loads and the steps of the loads' goroutines; what the semaphore *)
(* does has no part in it.  Then BudgetInv: a sum over all goroutines is     *)
(* compared with what the semaphore has given away.  The sum is a cardinality*)
(* (one element for every unit of budget), so that a step of one goroutine   *)
(* is an equation between cardinalities and needs no induction.              *)
EXTENDS TypedLoadInv, FiniteSetTheorems, SequenceTheorems, WellFoundedInduction, TLAPS

\* The references on a load are finitely many.
LEMMA RefsFinite ==
  ASSUME NEW l
  PROVE  IsFiniteSet(Refs(l))
<1>1. Refs(l) \subseteq Callers
  BY DEF Refs
<1> QED
  BY <1>1, LoadsAssumption, FS_Subset

\* A load somebody refers to has a positive count.
LEMMA ReferencedIsCounted ==
  ASSUME RefsCounted, NEW l \in Loads, NEW c \in Refs(l)
  PROVE  load[l].refs \in Nat \ {0}
<1>1. Refs(l) # {}
  OBVIOUS
<1>2. Cardinality(Refs(l)) \in Nat /\ Cardinality(Refs(l)) # 0
  BY <1>1, RefsFinite, FS_EmptySet, FS_CardinalityType
<1> QED
  BY <1>2 DEF RefsCounted

\* A step of the load l that leaves key, count and flag of the load alone.
LEMMA LoadStep ==
  ASSUME FlightInv, NEW l \in Loads, NEW r \in sharedLoad, NEW x \in RunSteps,
         UNCHANGED <<flights, pc, mine>>,
         load' = [load EXCEPT ![l] = r], at' = [at EXCEPT ![l] = x],
         r.key = load[l].key, r.refs = load[l].refs, r.finished = load[l].finished,
         at[l] # "over", x = "over" => r.finished,
         load[l].finished /\ load[l].ok => r.ok,
         r.finished => x \in {"orphan", "close", "over"},
         x \in {"orphan", "close"} => r.finished,
         x = "orphan" => r.refs = 0,
         r.done => r.finished,
         x = "load" => r.admitted,
         r.ok => x \in {"finish", "orphan", "close", "over"},
         r.ok /\ ~r.admitted => r.finished /\ r.refs = 0
  PROVE  FlightInv'
<1> load' \in [Loads -> sharedLoad] /\ at' \in [Builders -> RunSteps] /\ l \in Builders
  BY DEF FlightInv, Types, Builders
<1> load'[l] = r /\ at'[l] = x
    /\ \A m \in Loads \ {l} : load'[m] = load[m] /\ at'[m] = at[m]
  BY DEF FlightInv, Types, Builders
<1> Running(l)' <=> Running(l)
  BY DEF Running
<1>1. Types'
  BY DEF FlightInv, Types
<1>2. \A m \in Loads : /\ load'[m].key = load[m].key /\ load'[m].refs = load[m].refs
                       /\ load'[m].finished = load[m].finished
                       /\ Running(m)' <=> Running(m)
                       /\ load[m].finished /\ load[m].ok => load'[m].ok
  BY DEF Running
<1>3. RefsCounted'
  <2>1. \A m \in Loads : Refs(m)' = Refs(m)
    BY DEF Refs
  <2> QED
    BY <1>2, <2>1 DEF FlightInv, RefsCounted
<1>4. CallersHaveLoads'
  BY <1>2 DEF FlightInv, CallersHaveLoads, Types
<1>5. FlightsAreLive'
  BY <1>2 DEF FlightInv, FlightsAreLive, Types
<1>6. LoadsAreInStep'
  BY <1>2 DEF FlightInv, LoadsAreInStep, LoadInStep
<1>7. OneLoadPerKey'
  BY <1>2 DEF FlightInv, OneLoadPerKey
<1> QED
  BY <1>1, <1>3, <1>4, <1>5, <1>6, <1>7 DEF FlightInv

\* A step of a load or a prewarm in the build phase.
BuildSteps == {"prime", "gate", "reserve", "charge", "build"}
LEMMA BuildStep ==
  ASSUME FlightInv, NEW b \in Builders, NEW x \in RunSteps,
         UNCHANGED <<flights, load, pc, mine>>,
         at' = [at EXCEPT ![b] = x],
         b \in Loads => /\ at[b] \in BuildSteps
                        /\ x \in BuildSteps \cup {"admission", "finish"}
  PROVE  FlightInv'
<1>1. at' \in [Builders -> RunSteps]
  BY DEF FlightInv, Types
<1>2. Loads \subseteq Builders
  BY DEF Builders
<1>3. CASE b \in Loads
  <2>1. /\ ~load[b].finished /\ ~load[b].ok /\ ~load[b].done
        /\ load[b] \in sharedLoad /\ load' = [load EXCEPT ![b] = load[b]]
    BY <1>3 DEF FlightInv, LoadsAreInStep, LoadInStep, Types, BuildSteps, sharedLoad
  <2> QED
    BY <1>3, <2>1, LoadStep DEF BuildSteps
<1>4. CASE b \notin Loads
  <2>1. \A m \in Loads : at'[m] = at[m]
    BY <1>2, <1>4 DEF FlightInv, Types
  <2>2. \A m \in Loads : Running(m)' <=> Running(m)
    BY <2>1 DEF Running
  <2>3. \A m \in Loads : Refs(m)' = Refs(m)
    BY DEF Refs
  <2>4. Types' /\ RefsCounted'
    BY <1>1, <2>3 DEF FlightInv, Types, RefsCounted
  <2>5. CallersHaveLoads' /\ FlightsAreLive'
    BY <2>2 DEF FlightInv, CallersHaveLoads, FlightsAreLive, Types
  <2>6. LoadsAreInStep' /\ OneLoadPerKey'
    BY <2>1, <2>2 DEF FlightInv, LoadsAreInStep, LoadInStep, OneLoadPerKey
  <2> QED
    BY <2>4, <2>5, <2>6 DEF FlightInv
<1> QED
  BY <1>3, <1>4

-----------------------------------------------------------------------------
(* The builds. *)

\* Acquire moves its goroutine to one of two steps.
LEMMA AcquireMoves ==
  ASSUME NEW b \in Builders, NEW n, NEW waiting, NEW holding,
         Acquire(b, n, waiting, holding)
  PROVE  \E x \in {waiting, holding} : at' = [at EXCEPT ![b] = x]
BY DEF Acquire

LEMMA BuildPreserves ==
  ASSUME FlightInv, NEW b \in Builders, Build(b) \/ ExpireBuild(b)
  PROVE  FlightInv'
<1> USE DEF BuildSteps, RunSteps, callers
<1>1. CASE EnterGate(b)
  BY <1>1, BuildStep DEF EnterGate
<1>2. CASE ReserveCharge(b)
  <2>1. PICK x \in {"charge", "build"} : at' = [at EXCEPT ![b] = x]
    BY <1>2, AcquireMoves DEF ReserveCharge
  <2> QED
    BY <1>2, <2>1, BuildStep DEF ReserveCharge
<1>3. CASE ChargeGranted(b)
  BY <1>3, BuildStep DEF ChargeGranted
<1>4. CASE BuildEnds(b)
  <2>1. Built(b) \in {"admission", "over"} /\ (b \in Loads => Built(b) = "admission")
    BY DEF Built
  <2> QED
    BY <1>4, <2>1, BuildStep DEF BuildEnds
<1>5. Abandoned(b) \in {"finish", "over"} /\ (b \in Loads => Abandoned(b) = "finish")
  BY DEF Abandoned
<1>6. CASE ExpireAtGate(b)
  BY <1>5, <1>6, BuildStep DEF ExpireAtGate
<1>7. CASE ExpireInCharge(b)
  BY <1>5, <1>7, BuildStep DEF ExpireInCharge
<1>8. CASE ExpireInBuild(b)
  BY <1>5, <1>8, BuildStep DEF ExpireInBuild
<1> QED
  BY <1>1, <1>2, <1>3, <1>4, <1>6, <1>7, <1>8 DEF Build, ExpireBuild

LEMMA PrewarmPreserves ==
  ASSUME FlightInv, NEW b \in Prewarms, Prewarm(b)
  PROVE  FlightInv'
<1>1. b \in Builders /\ b \notin Loads
  BY LoadsAssumption DEF Builders
<1> QED
  BY <1>1, BuildStep DEF Prewarm, RunSteps, callers

-----------------------------------------------------------------------------
(* The goroutine of a load after the build. *)

\* A load that runs has no result yet.
LEMMA RunningLoad ==
  ASSUME FlightInv, NEW l \in Loads
  PROVE  /\ l \in Builders /\ load[l] \in sharedLoad
         /\ load \in [Loads -> sharedLoad] /\ at \in [Builders -> RunSteps]
         /\ at[l] \in {"prime", "gate", "admission", "queue", "load"} =>
              ~load[l].finished /\ ~load[l].done /\ ~load[l].ok
         /\ at[l] = "finish" => ~load[l].finished /\ ~load[l].done
         /\ at[l] \in {"orphan", "close"} => load[l].finished
BY DEF FlightInv, LoadsAreInStep, LoadInStep, Types, Builders, sharedLoad

LEMMA RunPreserves ==
  ASSUME FlightInv, NEW l \in Loads, Run(l) \/ ExpireInQueue(l)
  PROVE  FlightInv'
<1> USE RunningLoad DEF callers
<1>1. CASE Prime(l)
  <2>1. PICK x \in {"admission", "gate"} : at' = [at EXCEPT ![l] = x]
    BY <1>1 DEF Prime
  <2> QED
    BY <1>1, <2>1, BuildStep DEF Prime, BuildSteps, RunSteps
<1>2. CASE Admission(l)
  <2>1. PICK x \in {"queue", "load"}, a \in BOOLEAN, p \in {"admitted", "queued"} :
          /\ at' = [at EXCEPT ![l] = x] /\ (x = "load" => a)
          /\ load' = [load EXCEPT ![l].phase = p, ![l].admitted = a]
    <3>1. Fits(WeightOf(l)) \in BOOLEAN
      BY DEF Fits
    <3> QED
      BY <1>2, <3>1 DEF Admission, Acquire
  <2> DEFINE r == [load[l] EXCEPT !.phase = p, !.admitted = a]
  <2>2. load' = [load EXCEPT ![l] = r]
    BY <2>1
  <2>3. /\ r \in sharedLoad /\ r.key = load[l].key /\ r.refs = load[l].refs
        /\ r.finished = load[l].finished
        /\ r.ok = load[l].ok /\ r.done = load[l].done /\ r.admitted = a
    BY DEF sharedLoad
  <2>4. /\ at[l] = "admission" /\ UNCHANGED <<flights, pc, mine>>
        /\ x \in RunSteps \ {"orphan", "close", "over"}
    BY <1>2 DEF Admission, RunSteps
  <2>5. ~r.finished /\ ~r.done /\ ~r.ok
    BY <2>3, <2>4
  <2> HIDE DEF r
  <2> QED
    BY <2>1, <2>2, <2>3, <2>4, <2>5, LoadStep
<1>3. CASE Admitted(l)
  <2> DEFINE r == [load[l] EXCEPT !.phase = "admitted", !.admitted = TRUE]
  <2>1. load' = [load EXCEPT ![l] = r] /\ at' = [at EXCEPT ![l] = "load"]
    BY <1>3 DEF Admitted
  <2>2. /\ r \in sharedLoad /\ r.key = load[l].key /\ r.refs = load[l].refs
        /\ r.finished = load[l].finished
        /\ r.ok = load[l].ok /\ r.done = load[l].done /\ r.admitted
    BY DEF sharedLoad
  <2>3. at[l] = "queue" /\ UNCHANGED <<flights, pc, mine>> /\ "load" \in RunSteps
    BY <1>3 DEF Admitted, RunSteps
  <2>4. ~r.finished /\ ~r.done /\ ~r.ok
    BY <2>2, <2>3
  <2> HIDE DEF r
  <2> QED
    BY <2>1, <2>2, <2>3, <2>4, LoadStep
<1>4. CASE ExpireInQueue(l)
  <2> DEFINE r == [load[l] EXCEPT !.phase = "queued"]
  <2>1. load' = [load EXCEPT ![l] = r] /\ at' = [at EXCEPT ![l] = "finish"]
    BY <1>4 DEF ExpireInQueue
  <2>2. /\ r \in sharedLoad /\ r.key = load[l].key /\ r.refs = load[l].refs
        /\ r.finished = load[l].finished
        /\ r.ok = load[l].ok /\ r.done = load[l].done
    BY DEF sharedLoad
  <2>3. /\ at[l] \in {"admission", "queue"} /\ UNCHANGED <<flights, pc, mine>>
        /\ "finish" \in RunSteps
    BY <1>4 DEF ExpireInQueue, RunSteps
  <2>4. ~r.finished /\ ~r.done /\ ~r.ok
    BY <2>2, <2>3
  <2> HIDE DEF r
  <2> QED
    BY <2>1, <2>2, <2>3, <2>4, LoadStep
<1>5. CASE LoadEnds(l)
  <2>1. PICK o \in BOOLEAN : load' = [load EXCEPT ![l] = [@ EXCEPT !.ok = o]]
    <3>1. load[l] = [load[l] EXCEPT !.ok = FALSE]
      BY <1>5 DEF LoadEnds, sharedLoad
    <3>2. CASE load' = load
      BY <3>1, <3>2
    <3>3. CASE load' = [load EXCEPT ![l].ok = TRUE]
      BY <3>3
    <3> QED
      BY <1>5, <3>2, <3>3 DEF LoadEnds
  <2> DEFINE r == [load[l] EXCEPT !.ok = o]
  <2>2. load' = [load EXCEPT ![l] = r] /\ at' = [at EXCEPT ![l] = "finish"]
    BY <1>5, <2>1 DEF LoadEnds
  <2>3. /\ r \in sharedLoad /\ r.key = load[l].key /\ r.refs = load[l].refs
        /\ r.finished = load[l].finished
        /\ r.done = load[l].done /\ r.admitted = load[l].admitted
    BY DEF sharedLoad
  <2>4. load[l].admitted
    BY <1>5 DEF LoadEnds, FlightInv, LoadsAreInStep, LoadInStep
  <2> HIDE DEF r
  <2> QED
    BY <1>5, <2>2, <2>3, <2>4, LoadStep DEF LoadEnds, RunSteps
<1>6. CASE OrphanRelease(l)
  <2> DEFINE r == [load[l] EXCEPT !.admitted = FALSE]
  <2>1. load' = [load EXCEPT ![l] = r] /\ at' = [at EXCEPT ![l] = "close"]
    BY <1>6 DEF OrphanRelease, releaseBudget
  <2>2. /\ r \in sharedLoad /\ r.key = load[l].key /\ r.refs = load[l].refs
        /\ r.finished = load[l].finished
        /\ r.ok = load[l].ok /\ r.done = load[l].done
    BY DEF sharedLoad
  <2>3. at[l] = "orphan" /\ load[l].finished /\ load[l].refs = 0
    BY <1>6 DEF OrphanRelease, FlightInv, LoadsAreInStep, LoadInStep
  <2>4. load[l].ok \in BOOLEAN
    BY DEF sharedLoad
  <2> HIDE DEF r
  <2> QED
    BY <1>6, <2>1, <2>2, <2>3, <2>4, LoadStep DEF OrphanRelease, RunSteps
<1>7. CASE Close(l)
  <2> DEFINE r == [load[l] EXCEPT !.done = TRUE]
  <2>1. load' = [load EXCEPT ![l] = r] /\ at' = [at EXCEPT ![l] = "over"]
    BY <1>7 DEF Close
  <2>2. /\ r \in sharedLoad /\ r.key = load[l].key /\ r.refs = load[l].refs
        /\ r.finished = load[l].finished
        /\ r.ok = load[l].ok /\ r.admitted = load[l].admitted
    BY DEF sharedLoad
  <2>3. /\ at[l] = "close" /\ load[l].finished
        /\ load[l].ok /\ ~load[l].admitted => load[l].refs = 0
    BY <1>7 DEF Close, FlightInv, LoadsAreInStep, LoadInStep
  <2>4. load[l].ok \in BOOLEAN /\ load[l].admitted \in BOOLEAN /\ r.done
    BY DEF sharedLoad
  <2> HIDE DEF r
  <2>5. UNCHANGED <<flights, pc, mine>> /\ at[l] # "over" /\ "over" \in RunSteps
    BY <1>7 DEF Close, RunSteps
  <2>6. r.ok /\ ~r.admitted => r.finished /\ r.refs = 0
    BY <2>2, <2>3
  <2>7. r.finished /\ (load[l].finished /\ load[l].ok => r.ok)
    BY <2>2, <2>3
  <2> QED
    BY <2>1, <2>2, <2>5, <2>6, <2>7, LoadStep
<1>8. CASE Finish(l)
  <2> DEFINE x == IF Orphan(l) THEN "orphan" ELSE "close"
             r == [load[l] EXCEPT !.finished = TRUE]
  <2>1. at' = [at EXCEPT ![l] = x] /\ load' = [load EXCEPT ![l] = r]
    BY <1>8 DEF Finish
  <2>2. /\ r \in sharedLoad /\ r.key = load[l].key /\ r.refs = load[l].refs
        /\ r.finished /\ r.ok = load[l].ok /\ r.done = load[l].done
        /\ r.admitted = load[l].admitted
    BY DEF sharedLoad
  <2>3. at[l] = "finish" /\ UNCHANGED <<pc, mine>>
    BY <1>8 DEF Finish
  <2> HIDE DEF r
  <2>4. at'[l] = x /\ load'[l] = r
        /\ \A m \in Loads \ {l} : load'[m] = load[m] /\ at'[m] = at[m]
    BY <2>1 DEF Builders
  <2>5. \A k \in Keys : /\ flights'[k] = l => ~Orphan(l)
                        /\ flights'[k] = flights[k] \/ flights'[k] = NoLoad
                        /\ flights[k] # l => flights'[k] = flights[k]
    BY <1>8, LoadsAssumption DEF Finish, Without
  <2>6. Types'
    <3>1. flights' \in [Keys -> Loads \cup {NoLoad}]
      BY <1>8 DEF Finish, Without, FlightInv, Types
    <3> QED
      BY <2>1, <2>2, <2>3, <3>1 DEF FlightInv, Types, RunSteps
  <2>7. RefsCounted'
    <3>1. \A m \in Loads : Refs(m)' = Refs(m)
      BY <2>3 DEF Refs
    <3> QED
      BY <2>2, <2>4, <3>1 DEF FlightInv, RefsCounted
  <2>8. \A m \in Loads \ {l} : Running(m)' <=> Running(m)
    BY <2>4 DEF Running
  <2>9. CallersHaveLoads'
    BY <2>2, <2>3, <2>4, <2>8 DEF FlightInv, CallersHaveLoads, Types
  <2>10. FlightsAreLive'
    BY <2>2, <2>4, <2>5, <2>8 DEF FlightInv, FlightsAreLive, Types, Orphan
  <2>11. LoadsAreInStep'
    <3>1. ~Running(l)'
      BY <2>2, <2>4 DEF Running
    <3>2. \A m \in Loads \ {l} : LoadInStep(m)'
      BY <2>4, <2>8 DEF FlightInv, LoadsAreInStep, LoadInStep
    <3>3. LoadInStep(l)'
      BY <2>2, <2>3, <2>4, <3>1 DEF FlightInv, LoadsAreInStep, LoadInStep, Orphan, sharedLoad
    <3> QED
      BY <3>2, <3>3 DEF LoadsAreInStep
  <2>12. OneLoadPerKey'
    BY <2>2, <2>4, <2>5, <2>8 DEF FlightInv, OneLoadPerKey, Running, LoadsAreInStep, LoadInStep
  <2> QED
    BY <2>6, <2>7, <2>9, <2>10, <2>11, <2>12 DEF FlightInv
<1> QED
  BY <1>1, <1>2, <1>3, <1>4, <1>5, <1>6, <1>7, <1>8 DEF Run

-----------------------------------------------------------------------------
(* The callers. *)

\* A caller that is not idle refers to a load.
LEMMA BusyCaller ==
  ASSUME FlightInv, NEW c \in Callers, pc[c] # "idle"
  PROVE  /\ mine[c] \in Loads
         /\ Running(mine[c]) \/ load[mine[c]].finished
BY DEF FlightInv, Types, CallersHaveLoads

\* A caller leaves the wait with a result or without one.
LEMMA WaitEnds ==
  ASSUME FlightInv, NEW c \in Callers, NEW y \in {"failed", "read"},
         pc[c] = "wait", pc' = [pc EXCEPT ![c] = y],
         UNCHANGED <<flights, load, at, mine>>,
         y = "read" => load[mine[c]].ok /\ load[mine[c]].done
  PROVE  FlightInv'
<1>1. mine[c] \in Loads
  BY BusyCaller
<1>2. Types'
  BY DEF FlightInv, Types, CallerSteps
<1>3. RefsCounted'
  <2>1. \A m \in Loads : Refs(m)' = Refs(m)
    BY DEF Refs, FlightInv, Types
  <2> QED
    BY <2>1 DEF FlightInv, RefsCounted
<1>4. CallersHaveLoads'
  <2>1. y = "read" => load[mine[c]].finished
    BY <1>1 DEF FlightInv, LoadsAreInStep, LoadInStep
  <2> QED
    BY <2>1 DEF FlightInv, CallersHaveLoads, Types, Running
<1>5. FlightsAreLive' /\ LoadsAreInStep' /\ OneLoadPerKey'
  BY DEF FlightInv, FlightsAreLive, LoadsAreInStep, LoadInStep, OneLoadPerKey, Running
<1> QED
  BY <1>2, <1>3, <1>4, <1>5 DEF FlightInv

\* A caller that has dropped its reference goes on; it may give back the share of
\* a load nobody refers to.
LEMMA DroppedCallerMoves ==
  ASSUME FlightInv, NEW c \in Callers, NEW y \in CallerSteps, NEW z \in Loads \cup {NoLoad},
         pc[c] \in {"release", "judge"},
         pc' = [pc EXCEPT ![c] = y], mine' = [mine EXCEPT ![c] = z],
         (y = "judge" /\ z = mine[c]) \/ (y = "idle" /\ z = NoLoad),
         UNCHANGED <<flights, at>>, load' \in [Loads -> sharedLoad],
         \A m \in Loads :
           /\ load'[m].key = load[m].key /\ load'[m].refs = load[m].refs
           /\ load'[m].finished = load[m].finished /\ load'[m].done = load[m].done
           /\ load'[m].ok = load[m].ok
           /\ \/ load'[m].admitted = load[m].admitted
              \/ load[m].finished /\ load[m].refs = 0
  PROVE  FlightInv'
<1>1. mine[c] \in Loads
  BY BusyCaller
<1>2. Types'
  BY DEF FlightInv, Types
<1>3. RefsCounted'
  <2>1. \A m \in Loads : Refs(m)' = Refs(m)
    BY LoadsAssumption DEF Refs, FlightInv, Types
  <2> QED
    BY <2>1 DEF FlightInv, RefsCounted
<1>4. \A m \in Loads : Running(m)' <=> Running(m)
  BY DEF Running
<1>5. CallersHaveLoads'
  BY <1>1, <1>4, LoadsAssumption DEF FlightInv, CallersHaveLoads, Types
<1>6. FlightsAreLive'
  BY <1>4 DEF FlightInv, FlightsAreLive, Types
<1>7. LoadsAreInStep'
  <2>1. \A m \in Loads : at[m] = "load" => ~load[m].finished
    BY DEF FlightInv, LoadsAreInStep, LoadInStep
  <2> QED
    BY <1>4, <2>1 DEF FlightInv, LoadsAreInStep, LoadInStep
<1>8. OneLoadPerKey'
  BY <1>4 DEF FlightInv, OneLoadPerKey
<1> QED
  BY <1>2, <1>3, <1>5, <1>6, <1>7, <1>8 DEF FlightInv

LEMMA ServedPreserves ==
  ASSUME FlightInv, NEW c \in Callers, Served(c) \/ GiveUp(c)
  PROVE  FlightInv'
<1>1. CASE Served(c)
  BY <1>1, WaitEnds DEF Served
<1>2. CASE GiveUp(c)
  BY <1>2, WaitEnds DEF GiveUp
<1> QED
  BY <1>1, <1>2

\* What Return does to the caller.
LEMMA ReturnMoves ==
  ASSUME FlightInv, NEW c \in Callers, Return(c)
  PROVE  \E y \in {"judge", "idle"}, z \in Loads \cup {NoLoad} :
           /\ pc' = [pc EXCEPT ![c] = y] /\ mine' = [mine EXCEPT ![c] = z]
           /\ (y = "judge" /\ z = mine[c]) \/ (y = "idle" /\ z = NoLoad)
<1>1. CASE gaveUp[c]
  BY <1>1 DEF Return, FlightInv, Types
<1>2. CASE ~gaveUp[c]
  BY <1>2 DEF Return
<1> QED
  BY <1>1, <1>2

LEMMA DropReleasePreserves ==
  ASSUME FlightInv, NEW c \in Callers, DropRelease(c) \/ Judge(c)
  PROVE  FlightInv'
<1>1. CASE DropRelease(c)
  <2>1. /\ mine[c] \in Loads /\ load \in [Loads -> sharedLoad]
        /\ load[mine[c]].finished /\ load[mine[c]].refs = 0
    BY <1>1, BusyCaller DEF DropRelease, FlightInv, CallersHaveLoads, Types
  <2> DEFINE r == [load[mine[c]] EXCEPT !.admitted = FALSE]
  <2>2. load' = [load EXCEPT ![mine[c]] = r]
    BY <1>1 DEF DropRelease, releaseBudget
  <2>3. /\ r \in sharedLoad /\ r.key = load[mine[c]].key /\ r.refs = load[mine[c]].refs
        /\ r.finished = load[mine[c]].finished /\ r.done = load[mine[c]].done
        /\ r.ok = load[mine[c]].ok
    BY <2>1 DEF sharedLoad
  <2> HIDE DEF r
  <2>4. load' \in [Loads -> sharedLoad] /\ load'[mine[c]] = r
        /\ \A m \in Loads \ {mine[c]} : load'[m] = load[m]
    BY <2>1, <2>2, <2>3
  <2>5. PICK y \in {"judge", "idle"}, z \in Loads \cup {NoLoad} :
          /\ pc' = [pc EXCEPT ![c] = y] /\ mine' = [mine EXCEPT ![c] = z]
          /\ (y = "judge" /\ z = mine[c]) \/ (y = "idle" /\ z = NoLoad)
    BY <1>1, ReturnMoves DEF DropRelease
  <2>6. pc[c] = "release" /\ UNCHANGED <<flights, at>> /\ y \in CallerSteps
    BY <1>1 DEF DropRelease, CallerSteps
  <2>7. \A m \in Loads :
           /\ load'[m].key = load[m].key /\ load'[m].refs = load[m].refs
           /\ load'[m].finished = load[m].finished /\ load'[m].done = load[m].done
           /\ load'[m].ok = load[m].ok
           /\ \/ load'[m].admitted = load[m].admitted
              \/ load[m].finished /\ load[m].refs = 0
    BY <2>1, <2>3, <2>4
  <2> QED
    BY <2>4, <2>5, <2>6, <2>7, DroppedCallerMoves
<1>2. CASE Judge(c)
  <2>1. load \in [Loads -> sharedLoad]
    BY DEF FlightInv, Types
  <2> QED
    BY <1>2, <2>1, DroppedCallerMoves DEF Judge, CallerSteps
<1> QED
  BY <1>1, <1>2

\* drop: the count goes down with the references; a finished load whose count
\* reaches zero is not joinable any more.
LEMMA DropPreserves ==
  ASSUME FlightInv, NEW c \in Callers, Drop(c)
  PROVE  FlightInv'
<1>0. PICK l \in Loads : l = mine[c]
  BY BusyCaller DEF Drop
<1> DEFINE r == [load[l] EXCEPT !.refs = @ - 1]
<1>1. /\ load \in [Loads -> sharedLoad] /\ load[l] \in sharedLoad
      /\ pc[c] \in {"failed", "read"} /\ c \in Refs(l) /\ UNCHANGED at
  BY <1>0 DEF Drop, FlightInv, Types, Refs
<1>2. load[l].refs \in Nat \ {0}
  BY <1>1, ReferencedIsCounted DEF FlightInv
<1>3. /\ r \in sharedLoad /\ r.refs = load[l].refs - 1 /\ r.key = load[l].key
      /\ r.finished = load[l].finished /\ r.done = load[l].done /\ r.ok = load[l].ok
      /\ r.admitted = load[l].admitted
  BY <1>1, <1>2 DEF sharedLoad
<1>4. load' = [load EXCEPT ![l] = r]
  BY <1>0 DEF Drop
<1> HIDE DEF r
<1>5. load' \in [Loads -> sharedLoad] /\ load'[l] = r
      /\ \A m \in Loads \ {l} : load'[m] = load[m]
  BY <1>1, <1>3, <1>4
<1>6. PICK y \in {"release", "judge", "idle"}, z \in Loads \cup {NoLoad} :
        /\ pc' = [pc EXCEPT ![c] = y] /\ mine' = [mine EXCEPT ![c] = z]
        /\ (y # "idle" /\ z = l) \/ (y = "idle" /\ z = NoLoad)
        /\ \/ LastDrop(l) /\ flights' = Without(l) /\ y = "release"
           \/ ~LastDrop(l) /\ flights' = flights /\ y # "release"
  <2>1. CASE LastDrop(l)
    BY <1>0, <1>1, <2>1 DEF Drop, FlightInv, Types
  <2>2. CASE ~LastDrop(l)
    BY <1>0, <2>2, ReturnMoves DEF Drop
  <2> QED
    BY <2>1, <2>2
<1>7. /\ pc' \in [Callers -> CallerSteps] /\ pc'[c] = y
      /\ mine' \in [Callers -> Loads \cup {NoLoad}] /\ mine'[c] = z
      /\ \A d \in Callers \ {c} : pc'[d] = pc[d] /\ mine'[d] = mine[d]
  BY <1>6 DEF FlightInv, Types, CallerSteps
<1>8. \A k \in Keys : /\ flights'[k] = flights[k] \/ flights'[k] = NoLoad
                      /\ flights[k] # l => flights'[k] = flights[k]
                      /\ flights'[k] = l => ~LastDrop(l)
  BY <1>1, <1>6, LoadsAssumption DEF Without
<1>9. Types'
  <2>1. flights' \in [Keys -> Loads \cup {NoLoad}]
    BY <1>6 DEF Without, FlightInv, Types
  <2> QED
    BY <1>1, <1>5, <1>7, <2>1 DEF FlightInv, Types
<1>10. RefsCounted'
  <2>1. Refs(l)' = Refs(l) \ {c} /\ \A m \in Loads \ {l} : Refs(m)' = Refs(m)
    BY <1>1, <1>6, <1>7, LoadsAssumption, <1>0 DEF Refs
  <2>2. Cardinality(Refs(l)') = Cardinality(Refs(l)) - 1
    BY <1>1, <2>1, RefsFinite, FS_RemoveElement
  <2>3. load[l].refs = Cardinality(Refs(l))
    BY <1>1 DEF FlightInv, RefsCounted
  <2> QED
    BY <1>3, <1>5, <2>1, <2>2, <2>3 DEF FlightInv, RefsCounted
<1>11. \A m \in Loads : /\ Running(m)' <=> Running(m)
                        /\ load'[m].finished = load[m].finished
                        /\ load'[m].key = load[m].key /\ load'[m].ok = load[m].ok
  BY <1>1, <1>3, <1>5 DEF Running
<1>12. CallersHaveLoads'
  <2>1. \A d \in Callers : pc[d] = "release" => mine[d] # l
    BY <1>2 DEF FlightInv, CallersHaveLoads
  <2>2. y = "release" => load[l].finished /\ load'[l].refs = 0
    BY <1>2, <1>3, <1>5, <1>6 DEF LastDrop
  <2>3. Running(l) \/ load[l].finished
    BY <1>0, <1>1, BusyCaller DEF Drop
  <2>4. \A d \in Callers \ {c} :
          /\ mine[d] \in Loads \cup {NoLoad}
          /\ pc[d] = "idle" <=> mine[d] = NoLoad
          /\ mine[d] # NoLoad => Running(mine[d]) \/ load[mine[d]].finished
          /\ pc[d] = "read" => load[mine[d]].ok /\ load[mine[d]].finished
          /\ pc[d] = "release" => load[mine[d]].finished /\ load[mine[d]].refs = 0
    BY DEF FlightInv, CallersHaveLoads, Types
  <2>5. \A d \in Callers \ {c} : pc[d] # "idle" => mine[d] \in Loads
    BY <2>4
  <2>6. \A d \in Callers \ {c} :
          pc[d] = "release" => load'[mine[d]] = load[mine[d]]
    BY <1>5, <2>1, <2>5
  <2> QED
    BY <1>1, <1>5, <1>6, <1>7, <1>11, <2>2, <2>3, <2>4, <2>5, <2>6, LoadsAssumption
       DEF CallersHaveLoads
<1>13. FlightsAreLive'
  <2>1. \A k \in Keys : flights[k] \in Loads \cup {NoLoad}
    BY DEF FlightInv, Types
  <2>2. ~LastDrop(l) /\ load[l].finished => load'[l].refs # 0
    BY <1>2, <1>3, <1>5 DEF LastDrop
  <2> QED
    BY <1>5, <1>8, <1>11, <2>1, <2>2 DEF FlightInv, FlightsAreLive
<1>14. LoadsAreInStep'
  <2>1. \A m \in Loads \ {l} : LoadInStep(m)'
    BY <1>1, <1>5, <1>11 DEF FlightInv, LoadsAreInStep, LoadInStep
  <2>2. LoadInStep(l)'
    BY <1>1, <1>2, <1>3, <1>5, <1>11 DEF FlightInv, LoadsAreInStep, LoadInStep, sharedLoad
  <2> QED
    BY <2>1, <2>2 DEF LoadsAreInStep
<1>15. OneLoadPerKey'
  <2>1. LastDrop(l) => ~Running(l)
    BY DEF LastDrop, Running
  <2>2. \A m \in Loads : Running(m) => load[m].key \in Keys /\ flights[load[m].key] = m
    BY DEF FlightInv, OneLoadPerKey, LoadsAreInStep, LoadInStep
  <2> QED
    BY <1>6, <1>8, <1>11, <2>1, <2>2 DEF OneLoadPerKey
<1> QED
  BY <1>9, <1>10, <1>12, <1>13, <1>14, <1>15 DEF FlightInv

\* Joining: one caller more on a load that is alive or still read.
LEMMA JoinPreserves ==
  ASSUME FlightInv, NEW c \in Callers, NEW k \in Keys, Join(c, k)
  PROVE  FlightInv'
<1>0. PICK l \in Loads : l = flights[k]
  BY DEF Join, FlightInv, Types
<1> DEFINE r == [load[l] EXCEPT !.refs = @ + 1]
<1>1. /\ load \in [Loads -> sharedLoad] /\ load[l] \in sharedLoad
      /\ pc[c] = "idle" /\ mine[c] = NoLoad /\ UNCHANGED <<flights, at>>
  BY DEF Join, FlightInv, Types, CallersHaveLoads
<1>2. /\ r \in sharedLoad /\ r.refs = load[l].refs + 1 /\ r.key = load[l].key
      /\ r.finished = load[l].finished /\ r.done = load[l].done /\ r.ok = load[l].ok
      /\ r.admitted = load[l].admitted /\ load[l].refs \in Nat
  BY <1>1 DEF sharedLoad
<1>3. load' = [load EXCEPT ![l] = r]
  BY <1>0 DEF Join
<1> HIDE DEF r
<1>4. load' \in [Loads -> sharedLoad] /\ load'[l] = r
      /\ \A m \in Loads \ {l} : load'[m] = load[m]
  BY <1>1, <1>2, <1>3
<1>5. /\ pc' \in [Callers -> CallerSteps] /\ pc'[c] = "wait"
      /\ mine' \in [Callers -> Loads \cup {NoLoad}] /\ mine'[c] = l
      /\ \A d \in Callers \ {c} : pc'[d] = pc[d] /\ mine'[d] = mine[d]
  BY <1>0 DEF Join, Joined, FlightInv, Types, CallerSteps
<1>6. Types'
  BY <1>1, <1>4, <1>5 DEF FlightInv, Types
<1>7. RefsCounted'
  <2>1. /\ Refs(l)' = Refs(l) \cup {c} /\ c \notin Refs(l)
        /\ \A m \in Loads \ {l} : Refs(m)' = Refs(m)
    BY <1>1, <1>5, LoadsAssumption DEF Refs
  <2>2. Cardinality(Refs(l)') = Cardinality(Refs(l)) + 1
    BY <2>1, RefsFinite, FS_AddElement
  <2>3. load[l].refs = Cardinality(Refs(l))
    BY DEF FlightInv, RefsCounted
  <2> QED
    BY <1>2, <1>4, <2>1, <2>2, <2>3 DEF FlightInv, RefsCounted
<1>8. \A m \in Loads : /\ Running(m)' <=> Running(m)
                       /\ load'[m].finished = load[m].finished
                       /\ load'[m].key = load[m].key /\ load'[m].ok = load[m].ok
  BY <1>1, <1>2, <1>4 DEF Running
<1>9. Running(l) \/ (load[l].finished /\ load[l].refs # 0)
  BY <1>0, LoadsAssumption DEF FlightInv, FlightsAreLive, Running
<1>10. CallersHaveLoads'
  <2>1. \A d \in Callers \ {c} :
          /\ mine[d] \in Loads \cup {NoLoad}
          /\ pc[d] = "idle" <=> mine[d] = NoLoad
          /\ mine[d] # NoLoad => Running(mine[d]) \/ load[mine[d]].finished
          /\ pc[d] = "read" => load[mine[d]].ok /\ load[mine[d]].finished
          /\ pc[d] = "release" => load[mine[d]].finished /\ load[mine[d]].refs = 0
    BY DEF FlightInv, CallersHaveLoads, Types
  <2>2. \A d \in Callers \ {c} : pc[d] = "release" => mine[d] # l
    BY <1>9, <2>1 DEF Running
  <2> QED
    BY <1>4, <1>5, <1>8, <1>9, <2>1, <2>2, LoadsAssumption DEF CallersHaveLoads
<1>11. FlightsAreLive'
  <2>1. load'[l].refs # 0
    BY <1>2, <1>4
  <2> QED
    BY <1>1, <1>4, <1>8, <2>1 DEF FlightInv, FlightsAreLive, Types
<1>12. LoadsAreInStep'
  <2>1. \A m \in Loads \ {l} : LoadInStep(m)'
    BY <1>1, <1>4, <1>8 DEF FlightInv, LoadsAreInStep, LoadInStep
  <2>2. at[l] # "orphan" /\ (load[l].ok => load[l].admitted)
    BY <1>2, <1>9 DEF FlightInv, LoadsAreInStep, LoadInStep, Running
  <2>3. LoadInStep(l)'
    BY <1>1, <1>2, <1>4, <1>8, <2>2 DEF FlightInv, LoadsAreInStep, LoadInStep, sharedLoad
  <2> QED
    BY <2>1, <2>3 DEF LoadsAreInStep
<1>13. OneLoadPerKey'
  BY <1>1, <1>8 DEF FlightInv, OneLoadPerKey
<1> QED
  BY <1>6, <1>7, <1>10, <1>11, <1>12, <1>13 DEF FlightInv

\* Starting: no load of the key is joinable, hence none is alive.
LEMMA StartLoadPreserves ==
  ASSUME FlightInv, NEW c \in Callers, NEW k \in Keys, NEW l \in Loads, StartLoad(c, k, l)
  PROVE  FlightInv'
<1> DEFINE r == [NewLoad(k) EXCEPT !.refs = 1]
<1>1. /\ load \in [Loads -> sharedLoad] /\ l \in Builders
      /\ pc[c] = "idle" /\ mine[c] = NoLoad /\ flights[k] = NoLoad /\ at[l] = "over"
      /\ \A d \in Callers : mine[d] # l
      /\ \A i \in Keys : flights[i] # l
  BY DEF StartLoad, Unreferenced, FlightInv, Types, CallersHaveLoads, Builders
<1>2. /\ r \in sharedLoad /\ r.refs = 1 /\ r.key = k /\ ~r.finished /\ ~r.done
      /\ ~r.ok
  BY DEF sharedLoad, NewLoad
<1>3. load' = [load EXCEPT ![l] = r]
  BY DEF StartLoad
<1> HIDE DEF r
<1>4. load' \in [Loads -> sharedLoad] /\ load'[l] = r
      /\ \A m \in Loads \ {l} : load'[m] = load[m]
  BY <1>1, <1>2, <1>3
<1>5. /\ pc' \in [Callers -> CallerSteps] /\ pc'[c] = "wait"
      /\ mine' \in [Callers -> Loads \cup {NoLoad}] /\ mine'[c] = l
      /\ \A d \in Callers \ {c} : pc'[d] = pc[d] /\ mine'[d] = mine[d]
  BY DEF StartLoad, Joined, FlightInv, Types, CallerSteps
<1>6. /\ at' \in [Builders -> RunSteps] /\ at'[l] = "prime"
      /\ \A m \in Loads \ {l} : at'[m] = at[m]
  BY <1>1 DEF StartLoad, FlightInv, Types, RunSteps, Builders
<1>7. /\ flights' \in [Keys -> Loads \cup {NoLoad}] /\ flights'[k] = l
      /\ \A i \in Keys \ {k} : flights'[i] = flights[i]
  BY DEF StartLoad, FlightInv, Types
<1>8. Types'
  BY <1>4, <1>5, <1>6, <1>7 DEF Types
<1>9. RefsCounted'
  <2>1. Refs(l)' = {c} /\ \A m \in Loads \ {l} : Refs(m)' = Refs(m)
    BY <1>1, <1>5, LoadsAssumption DEF Refs
  <2>2. Cardinality(Refs(l)') = 1
    BY <2>1, FS_Singleton
  <2> QED
    BY <1>2, <1>4, <2>1, <2>2 DEF FlightInv, RefsCounted
<1>10. Running(l)' /\ \A m \in Loads \ {l} : Running(m)' <=> Running(m)
  BY <1>2, <1>4, <1>6 DEF Running
<1>11. CallersHaveLoads'
  <2>1. \A d \in Callers \ {c} :
          /\ mine[d] \in (Loads \ {l}) \cup {NoLoad}
          /\ pc[d] = "idle" <=> mine[d] = NoLoad
          /\ mine[d] # NoLoad => Running(mine[d]) \/ load[mine[d]].finished
          /\ pc[d] = "read" => load[mine[d]].ok /\ load[mine[d]].finished
          /\ pc[d] = "release" => load[mine[d]].finished /\ load[mine[d]].refs = 0
    BY <1>1 DEF FlightInv, CallersHaveLoads, Types
  <2> QED
    BY <1>4, <1>5, <1>10, <2>1, LoadsAssumption DEF CallersHaveLoads
<1>12. FlightsAreLive'
  BY <1>1, <1>2, <1>4, <1>7, <1>10 DEF FlightInv, FlightsAreLive, Types
<1>13. LoadsAreInStep'
  <2>1. \A m \in Loads \ {l} : LoadInStep(m)'
    BY <1>4, <1>6, <1>10 DEF FlightInv, LoadsAreInStep, LoadInStep
  <2>2. LoadInStep(l)'
    BY <1>2, <1>4, <1>6 DEF LoadInStep
  <2> QED
    BY <2>1, <2>2 DEF LoadsAreInStep
<1>14. OneLoadPerKey'
  <2>1. \A m \in Loads : Running(m) => load[m].key \in Keys /\ flights[load[m].key] = m
    BY DEF FlightInv, OneLoadPerKey, LoadsAreInStep, LoadInStep
  <2> QED
    BY <1>1, <1>2, <1>4, <1>7, <1>10, <2>1, LoadsAssumption DEF OneLoadPerKey
<1> QED
  BY <1>8, <1>9, <1>11, <1>12, <1>13, <1>14 DEF FlightInv

-----------------------------------------------------------------------------
LEMMA FlightInvInit == Init => FlightInv
<1> SUFFICES ASSUME Init PROVE FlightInv
  OBVIOUS
<1>1. Types
  BY DEF Init, Types, sharedLoad, NewLoad, RunSteps, CallerSteps
<1>2. RefsCounted
  <2>1. \A l \in Loads : Refs(l) = {}
    BY DEF Init, Refs
  <2> QED
    BY <2>1, FS_EmptySet DEF Init, NewLoad, RefsCounted
<1>3. \A l \in Loads : at[l] = "over" /\ ~load[l].finished /\ ~load[l].done /\ ~load[l].ok
  BY DEF Init, NewLoad, Builders
<1>4. CallersHaveLoads /\ FlightsAreLive /\ LoadsAreInStep /\ OneLoadPerKey
  BY <1>3 DEF Init, CallersHaveLoads, FlightsAreLive, LoadsAreInStep, LoadInStep,
              OneLoadPerKey, Running
<1> QED
  BY <1>1, <1>2, <1>4 DEF FlightInv

LEMMA FlightInvStep == FlightInv /\ [Next]_vars => FlightInv'
<1> SUFFICES ASSUME FlightInv, [Next]_vars PROVE FlightInv'
  OBVIOUS
<1>1. CASE UNCHANGED vars
  BY <1>1 DEF vars, FlightInv, Types, RefsCounted, Refs, CallersHaveLoads, FlightsAreLive,
              LoadsAreInStep, LoadInStep, OneLoadPerKey, Running
<1>2. ASSUME NEW c \in Callers, Caller(c) \/ GiveUp(c) PROVE FlightInv'
  BY <1>2, ServedPreserves, DropPreserves, DropReleasePreserves DEF Caller
<1>3. ASSUME NEW c \in Callers, NEW k \in Keys, Join(c, k) PROVE FlightInv'
  BY <1>3, JoinPreserves
<1>4. ASSUME NEW c \in Callers, NEW k \in Keys, NEW l \in Loads, StartLoad(c, k, l)
      PROVE FlightInv'
  BY <1>4, StartLoadPreserves
<1>5. ASSUME NEW b \in Prewarms, Prewarm(b) PROVE FlightInv'
  BY <1>5, PrewarmPreserves
<1>6. ASSUME NEW b \in Builders, Build(b) \/ ExpireBuild(b) PROVE FlightInv'
  BY <1>6, BuildPreserves
<1>7. ASSUME NEW l \in Loads, Run(l) \/ ExpireInQueue(l) PROVE FlightInv'
  BY <1>7, RunPreserves
<1> QED
  BY <1>1, <1>2, <1>3, <1>4, <1>5, <1>6, <1>7 DEF Next

\* What a reader refers to is accounted for: it is one of the counted references,
\* and the share of a result is only given back when there are none.
LEMMA FlightInvReaders == FlightInv => ReadersHoldBudget
<1> SUFFICES ASSUME FlightInv, NEW c \in Callers, pc[c] = "read"
             PROVE  load[mine[c]].admitted /\ load[mine[c]].ok
  BY DEF ReadersHoldBudget
<1>1. mine[c] \in Loads /\ c \in Refs(mine[c]) /\ load[mine[c]].ok
  BY BusyCaller DEF FlightInv, CallersHaveLoads, Refs
<1>2. load[mine[c]].refs # 0
  BY <1>1, ReferencedIsCounted DEF FlightInv
<1> QED
  BY <1>1, <1>2 DEF FlightInv, LoadsAreInStep, LoadInStep

\* The invariant holds in every reachable state.
THEOREM FlightsConsistent == Spec => []FlightInv
BY FlightInvInit, FlightInvStep, PTL DEF Spec

\* No second load of a module is started while one is alive (loadTypedShared,
\* drop and the deferred function of run all change flights under flightsMu).
THEOREM OneLoad == Spec => []OneLoadPerKey
<1>1. FlightInv => OneLoadPerKey
  BY DEF FlightInv
<1> QED
  BY <1>1, FlightsConsistent, PTL

\* The budget of a result is held while somebody reads it (drop, releaseBudget).
THEOREM ReadersKeepBudget == Spec => []ReadersHoldBudget
BY FlightInvReaders, FlightsConsistent, PTL

-----------------------------------------------------------------------------
(* Sums of amounts of budget. *)

\* What Total counts: a pair for every unit of every amount.
Units(f) == UNION {{x} \X (1 .. f[x]) : x \in DOMAIN f}

\* The units, as a part of one finite set.
LEMMA UnitsAre ==
  ASSUME NEW S, NEW N \in Nat, NEW f \in [S -> 0 .. N]
  PROVE  Units(f) = {u \in S \X (1 .. N) : u[2] <= f[u[1]]}
<1>1. DOMAIN f = S /\ \A x \in S : f[x] \in 0 .. N
  OBVIOUS
<1>2. ASSUME NEW u \in Units(f)
      PROVE  u \in S \X (1 .. N) /\ u[2] <= f[u[1]]
  <2>1. PICK x \in S : u \in {x} \X (1 .. f[x])
    BY <1>1, <1>2 DEF Units
  <2>2. u = <<u[1], u[2]>> /\ u[1] = x /\ u[2] \in 1 .. f[x]
    BY <2>1
  <2> QED
    BY <1>1, <2>2
<1>3. ASSUME NEW u \in S \X (1 .. N), u[2] <= f[u[1]]
      PROVE  u \in Units(f)
  <2>1. u[1] \in S /\ u[2] \in 1 .. f[u[1]] /\ u = <<u[1], u[2]>>
    BY <1>1, <1>3
  <2>2. u \in {u[1]} \X (1 .. f[u[1]])
    BY <2>1
  <2> QED
    BY <1>1, <2>1, <2>2 DEF Units
<1> QED
  BY <1>2, <1>3

\* Which pairs are units.
LEMMA UnitPairs ==
  ASSUME NEW S, NEW N \in Nat, NEW f \in [S -> 0 .. N]
  PROVE  /\ \A u \in Units(f) : u = <<u[1], u[2]>> /\ u[1] \in S /\ u[2] \in 1 .. N
         /\ \A x \in S, i \in 1 .. N : <<x, i>> \in Units(f) <=> i <= f[x]
<1>1. Units(f) = {u \in S \X (1 .. N) : u[2] <= f[u[1]]}
  BY UnitsAre
<1> QED
  BY <1>1

\* The sum is a number.
LEMMA UnitsFinite ==
  ASSUME NEW S, IsFiniteSet(S), NEW N \in Nat, NEW f \in [S -> 0 .. N]
  PROVE  IsFiniteSet(Units(f)) /\ Total(f) = Cardinality(Units(f)) /\ Total(f) \in Nat
<1>1. IsFiniteSet(S \X (1 .. N))
  <2>1. IsFiniteSet(1 .. N)
    BY FS_Interval
  <2> QED
    BY <2>1, FS_Product
<1>2. Units(f) \in SUBSET (S \X (1 .. N))
  BY UnitsAre
<1>3. IsFiniteSet(Units(f))
  BY <1>1, <1>2, FS_Subset
<1>4. Total(f) = Cardinality(Units(f))
  BY DEF Total, Units
<1> QED
  BY <1>3, <1>4, FS_CardinalityType

\* Amounts of budget.
Amounts(S) == [S -> 0 .. Capacity]
\* At each place h is f or g, and the other one is zero.
Splits(S, h, f, g) ==
  /\ IsFiniteSet(S) /\ f \in Amounts(S) /\ g \in Amounts(S) /\ h \in Amounts(S)
  /\ \A x \in S : (f[x] = 0 /\ h[x] = g[x]) \/ (g[x] = 0 /\ h[x] = f[x])
\* g has the values of f at other places, given by p, and is zero elsewhere.
Renames(S, T, f, g, p) ==
  /\ IsFiniteSet(S) /\ IsFiniteSet(T) /\ f \in Amounts(S) /\ g \in Amounts(T)
  /\ p \in [S -> T] /\ \A x, y \in S : p[x] = p[y] => x = y
  /\ \A x \in S : g[p[x]] = f[x]
  /\ \A t \in T : g[t] # 0 => \E x \in S : p[x] = t
\* f is zero except at x.
OnlyAt(S, f, x) == f \in Amounts(S) /\ x \in S /\ \A y \in S \ {x} : f[y] = 0

LEMMA CapacityNat == Capacity \in Nat
BY BudgetAssumption

\* Two sums over the same set when at most one of them counts at each place.
LEMMA TotalAdds ==
  ASSUME NEW S, NEW h, NEW f, NEW g, Splits(S, h, f, g)
  PROVE  Total(h) = Total(f) + Total(g)
<1> DEFINE N == Capacity
<1> USE CapacityNat DEF Splits, Amounts
<1>0. \A u \in Units(h) \cup Units(f) \cup Units(g) :
        u = <<u[1], u[2]>> /\ u[1] \in S /\ u[2] \in 1 .. N
  BY UnitPairs
<1>1. Units(h) = Units(f) \cup Units(g)
  <2>1. ASSUME NEW x \in S, NEW i \in 1 .. N
        PROVE  <<x, i>> \in Units(h) <=> <<x, i>> \in Units(f) \/ <<x, i>> \in Units(g)
    <3>1. /\ <<x, i>> \in Units(h) <=> i <= h[x]
          /\ <<x, i>> \in Units(f) <=> i <= f[x]
          /\ <<x, i>> \in Units(g) <=> i <= g[x]
      BY UnitPairs
    <3> QED
      BY <3>1
  <2> QED
    BY <1>0, <2>1
<1>2. Units(f) \cap Units(g) = {}
  <2>1. ASSUME NEW x \in S, NEW i \in 1 .. N
        PROVE  ~(<<x, i>> \in Units(f) /\ <<x, i>> \in Units(g))
    <3>1. /\ <<x, i>> \in Units(f) <=> i <= f[x]
          /\ <<x, i>> \in Units(g) <=> i <= g[x]
      BY UnitPairs
    <3> QED
      BY <3>1
  <2> QED
    BY <1>0, <2>1
<1>3. /\ IsFiniteSet(Units(f)) /\ Total(f) = Cardinality(Units(f)) /\ Total(f) \in Nat
      /\ IsFiniteSet(Units(g)) /\ Total(g) = Cardinality(Units(g)) /\ Total(g) \in Nat
      /\ Total(h) = Cardinality(Units(h))
  BY UnitsFinite
<1>4. Cardinality(Units(h)) = Cardinality(Units(f)) + Cardinality(Units(g)) - Cardinality({})
  BY <1>1, <1>2, <1>3, FS_Union
<1> QED
  BY <1>3, <1>4, FS_EmptySet

\* Nothing counts.
LEMMA TotalZero ==
  ASSUME NEW S, NEW f \in [S -> {0}]
  PROVE  Total(f) = 0
<1>1. Units(f) = {}
  BY DEF Units
<1> QED
  BY <1>1, FS_EmptySet DEF Total, Units

\* One place counts.
LEMMA TotalOne ==
  ASSUME NEW S, NEW f, NEW x, OnlyAt(S, f, x)
  PROVE  Total(f) = f[x]
<1> DEFINE n == f[x]
<1> USE CapacityNat DEF OnlyAt, Amounts
<1>0. n \in Nat
  OBVIOUS
<1>1. Units(f) = {x} \X (1 .. n)
  <2>1. ASSUME NEW u \in Units(f) PROVE u \in {x} \X (1 .. n)
    BY <2>1, UnitsAre
  <2>2. ASSUME NEW u \in {x} \X (1 .. n) PROVE u \in Units(f)
    BY <2>2 DEF Units
  <2> QED
    BY <2>1, <2>2
<1>2. IsFiniteSet({x}) /\ Cardinality({x}) = 1
  BY FS_Singleton
<1>3. IsFiniteSet(1 .. n) /\ Cardinality(1 .. n) = n
  BY FS_Interval
<1>4. Cardinality({x} \X (1 .. n)) = 1 * n
  BY <1>2, <1>3, FS_Product
<1>5. Total(f) = Cardinality(Units(f))
  BY DEF Total, Units
<1> QED
  BY <1>0, <1>1, <1>4, <1>5

\* The same sum over another set.
LEMMA TotalMoves ==
  ASSUME NEW S, NEW T, NEW f, NEW g, NEW p, Renames(S, T, f, g, p)
  PROVE  Total(g) = Total(f)
<1> DEFINE N == Capacity
<1> USE CapacityNat DEF Renames, Amounts
<1> DEFINE m == [u \in Units(f) |-> <<p[u[1]], u[2]>>]
<1>1. /\ \A u \in Units(f) : u = <<u[1], u[2]>> /\ u[1] \in S /\ u[2] \in 1 .. N
      /\ \A x \in S, i \in 1 .. N : <<x, i>> \in Units(f) <=> i <= f[x]
      /\ \A x \in S, i \in 1 .. N : <<p[x], i>> \in Units(g) <=> i <= f[x]
      /\ \A w \in Units(g) : w = <<w[1], w[2]>> /\ w[1] \in T /\ w[2] \in 1 .. N
      /\ \A t \in T, i \in 1 .. N : <<t, i>> \in Units(g) <=> i <= g[t]
  <2>1. \A x \in S : p[x] \in T
    OBVIOUS
  <2>2. \A t \in T, i \in 1 .. N : <<t, i>> \in Units(g) <=> i <= g[t]
    BY UnitPairs
  <2>3. \A x \in S, i \in 1 .. N : <<p[x], i>> \in Units(g) <=> i <= f[x]
    BY <2>1, <2>2
  <2> QED
    BY <2>2, <2>3, UnitPairs
<1>2. m \in [Units(f) -> Units(g)]
  <2>1. ASSUME NEW u \in Units(f) PROVE <<p[u[1]], u[2]>> \in Units(g)
    BY <1>1, <2>1
  <2> QED
    BY <2>1
<1>3. ASSUME NEW u \in Units(f), NEW v \in Units(f), m[u] = m[v] PROVE u = v
  BY <1>1, <1>3
<1>4. ASSUME NEW w \in Units(g) PROVE \E u \in Units(f) : m[u] = w
  <2>1. w = <<w[1], w[2]>> /\ w[1] \in T /\ w[2] \in 1 .. N /\ w[2] <= g[w[1]]
    BY <1>1
  <2>2. PICK x \in S : p[x] = w[1]
    BY <2>1
  <2>3. <<x, w[2]>> \in Units(f)
    BY <1>1, <2>1, <2>2
  <2> QED
    BY <2>1, <2>2, <2>3
<1> HIDE DEF m
<1>5. m \in Bijection(Units(f), Units(g))
  BY <1>2, <1>3, <1>4 DEF Bijection, Injection, Surjection, IsInjective
<1>6. Cardinality(Units(g)) = Cardinality(Units(f))
  BY <1>5, UnitsFinite, FS_Bijection DEF ExistsBijection
<1> QED
  BY <1>6, UnitsFinite

\* The last number of a set that is bounded.
LEMMA Greatest ==
  ASSUME NEW K \in SUBSET Nat, NEW n \in Nat, K # {}, \A i \in K : i <= n
  PROVE  \E k \in K : \A i \in K : i <= k
<1> DEFINE D == {d \in Nat : d <= n /\ n - d \in K}
<1>1. D # {}
  <2>1. PICK i \in K : TRUE
    OBVIOUS
  <2>2. n - i \in Nat /\ n - i <= n /\ n - (n - i) = i
    BY <2>1
  <2> QED
    BY <2>1, <2>2
<1>2. PICK d \in D : \A e \in D : ~(<<e, d>> \in OpToRel(<, Nat))
  BY <1>1, NatLessThanWellFounded, WFMin
<1>3. \A e \in D : ~(e < d)
  BY <1>2 DEF OpToRel
<1>4. ASSUME NEW i \in K PROVE i <= n - d
  <2>1. n - i \in D
    <3>1. n - i \in Nat /\ n - i <= n /\ n - (n - i) = i
      BY <1>4
    <3> QED
      BY <3>1
  <2>2. d <= n - i /\ d \in Nat
    BY <1>3, <2>1
  <2> QED
    BY <2>2
<1> QED
  BY <1>4

(* The semaphore. *)

\* Nobody ever asks for nothing, or for more than there is (weight, buildCharge).
LEMMA Bounds ==
  /\ Capacity \in Nat \ {0} /\ charge \in 1 .. Capacity
  /\ \A k \in Keys : weight(k) \in 1 .. Capacity
BY BudgetAssumption DEF charge, weight, Lesser, Greater

LEMMA BuildersFinite == IsFiniteSet(Builders)
BY LoadsAssumption, FS_Union DEF Builders

LEMMA GrantedType ==
  ASSUME NEW c \in [Builders -> 0 .. Capacity], NEW q
  PROVE  Granted(c, q) \in [Builders -> 0 .. Capacity]
BY Bounds DEF Granted

Waiter == [who : Builders, n : Nat]
\* What the books say of a queue.
LEMMA QueueFacts ==
  ASSUME NEW c, NEW s, Ledger(c, s)
  PROVE  /\ s.queue \in Seq(Waiter) /\ Len(s.queue) \in Nat /\ s.cur \in Nat
         /\ \A i \in 1 .. Len(s.queue) :
              /\ s.queue[i] \in Waiter /\ s.queue[i].who \in Builders
              /\ s.queue[i].n = c[s.queue[i].who] /\ s.queue[i].n \in 1 .. Capacity
         /\ s = [cur |-> s.cur, queue |-> s.queue]
<1>1. s.queue \in Seq(Waiter) /\ s.cur \in Nat /\ s = [cur |-> s.cur, queue |-> s.queue]
  BY DEF Ledger, Waiter
<1>2. Len(s.queue) \in Nat
  BY <1>1, LenProperties
<1>3. ASSUME NEW i \in 1 .. Len(s.queue)
      PROVE  /\ s.queue[i] \in Waiter /\ s.queue[i].who \in Builders
             /\ s.queue[i].n = c[s.queue[i].who] /\ s.queue[i].n \in 1 .. Capacity
  <2>1. s.queue[i] \in Waiter
    BY <1>1, ElementOfSeq
  <2>2. s.queue[i].n = c[s.queue[i].who] /\ s.queue[i].n # 0
    BY DEF Ledger
  <2>3. s.queue[i].who \in Builders
    BY <2>1 DEF Waiter
  <2>4. c[s.queue[i].who] \in 0 .. Capacity
    BY <2>3 DEF Ledger
  <2> QED
    BY <2>1, <2>2, <2>3, <2>4, Bounds
<1> QED
  BY <1>1, <1>2, <1>3

\* What the first waiters ask for is a number, and there is a first one that does
\* not fit, unless all do.
LEMMA AskedNat ==
  ASSUME NEW c, NEW s, Ledger(c, s), NEW i \in 0 .. Len(s.queue)
  PROVE  Asked(s.queue, i) \in Nat /\ (i = 0 => Asked(s.queue, i) = 0)
<1> DEFINE f == [j \in 1 .. i |-> s.queue[j].n]
<1>1. Len(s.queue) \in Nat /\ i \in Nat
  BY QueueFacts
<1>2. f \in [1 .. i -> 0 .. Capacity]
  BY <1>1, QueueFacts, Bounds
<1>3. IsFiniteSet(1 .. i)
  BY <1>1, FS_Interval
<1> HIDE DEF f
<1>4. Total(f) \in Nat
  BY <1>2, <1>3, Bounds, UnitsFinite
<1>5. i = 0 => Total(f) = 0
  <2>1. i = 0 => f \in [1 .. 0 -> {0}]
    BY DEF f
  <2> QED
    BY <2>1, TotalZero
<1> QED
  BY <1>4, <1>5 DEF Asked, f

LEMMA AskedNext ==
  ASSUME NEW c, NEW s, Ledger(c, s), NEW k \in Nat, k + 1 \in 1 .. Len(s.queue)
  PROVE  Asked(s.queue, k + 1) = Asked(s.queue, k) + s.queue[k + 1].n
<1> DEFINE q == s.queue
           f == [i \in 1 .. k |-> q[i].n]
           e == [i \in 1 .. k + 1 |-> q[i].n]
           fe == [i \in 1 .. k + 1 |-> IF i = k + 1 THEN 0 ELSE q[i].n]
           le == [i \in 1 .. k + 1 |-> IF i = k + 1 THEN q[i].n ELSE 0]
<1>1. Len(q) \in Nat /\ \A i \in 1 .. Len(q) : q[i].n \in 1 .. Capacity
  BY QueueFacts
<1>2. /\ e \in Amounts(1 .. k + 1) /\ fe \in Amounts(1 .. k + 1)
      /\ le \in Amounts(1 .. k + 1) /\ f \in Amounts(1 .. k)
  BY <1>1, CapacityNat DEF Amounts
<1>3. IsFiniteSet(1 .. k + 1) /\ IsFiniteSet(1 .. k)
  BY FS_Interval
<1>4. Total(e) = Total(fe) + Total(le)
  <2>1. Splits(1 .. k + 1, e, fe, le)
    BY <1>2, <1>3 DEF Splits
  <2> QED
    BY <2>1, TotalAdds
<1>5. Total(le) = q[k + 1].n
  <2>1. le[k + 1] = q[k + 1].n /\ OnlyAt(1 .. k + 1, le, k + 1)
    BY <1>2 DEF OnlyAt
  <2> HIDE DEF le
  <2> QED
    BY <2>1, TotalOne
<1>6. Total(fe) = Total(f)
  <2> DEFINE id == [i \in 1 .. k |-> i]
  <2>1. Renames(1 .. k, 1 .. k + 1, f, fe, id)
    BY <1>2, <1>3 DEF Renames
  <2> HIDE DEF f, fe, id
  <2> QED
    BY <2>1, TotalMoves
<1>7. Asked(q, k + 1) = Total(e) /\ Asked(q, k) = Total(f)
  BY DEF Asked
<1> QED
  BY <1>4, <1>5, <1>6, <1>7

\* Where notifyWaiters stops.
LEMMA NotifiedWhere ==
  ASSUME NEW c, NEW s, Ledger(c, s)
  PROVE  \E k \in 0 .. Len(s.queue) :
           /\ s.cur + Asked(s.queue, k) <= Capacity
           /\ k < Len(s.queue) => s.cur + Asked(s.queue, k + 1) > Capacity
           /\ Notified(s) = [cur |-> s.cur + Asked(s.queue, k),
                             queue |-> SubSeq(s.queue, k + 1, Len(s.queue))]
<1> DEFINE q == s.queue
           K == {i \in 0 .. Len(q) : s.cur + Asked(q, i) <= Capacity}
           Stop(i) == /\ s.cur + Asked(q, i) <= Capacity
                      /\ i < Len(q) => s.cur + Asked(q, i + 1) > Capacity
<1>1. Len(q) \in Nat /\ s.cur \in Nat /\ s.cur <= Capacity
  BY QueueFacts DEF Ledger
<1>2. \A i \in 0 .. Len(q) : Asked(q, i) \in Nat
  BY AskedNat
<1>3. 0 \in K
  BY <1>1, AskedNat
<1>4. PICK k \in K : \A i \in K : i <= k
  <2>1. K \in SUBSET Nat /\ \A i \in K : i <= Len(q)
    BY <1>1
  <2> QED
    BY <1>1, <1>3, <2>1, Greatest
<1>5. Stop(k)
  <2>1. k \in 0 .. Len(q) /\ s.cur + Asked(q, k) <= Capacity
    BY <1>4
  <2>2. ASSUME k < Len(q) PROVE s.cur + Asked(q, k + 1) > Capacity
    <3>1. k + 1 \in 0 .. Len(q) /\ k + 1 \notin K
      BY <1>1, <1>4, <2>1, <2>2
    <3>2. Asked(q, k + 1) \in Nat
      BY <1>2, <3>1
    <3> QED
      BY <1>1, <3>1, <3>2, Bounds
  <2> QED
    BY <2>1, <2>2
<1>6. k \in 0 .. Len(q)
  BY <1>4
<1> HIDE DEF K
<1> DEFINE m == CHOOSE i \in 0 .. Len(q) : Stop(i)
<1>7. m \in 0 .. Len(q) /\ Stop(m)
  BY <1>5, <1>6
<1>8. Notified(s) = [cur |-> s.cur + Asked(q, m), queue |-> SubSeq(q, m + 1, Len(q))]
  BY DEF Notified
<1> HIDE DEF m
<1> QED
  BY <1>7, <1>8

\* Notifying keeps the books, leaves the first waiter without enough, and lets
\* nobody in.
LEMMA NotifyKeeps ==
  ASSUME NEW c, NEW s, Ledger(c, s)
  PROVE  /\ Ledger(c, Notified(s)) /\ HeadWaits(Notified(s))
         /\ \A b \in Builders : Queued(Notified(s).queue, b) => Queued(s.queue, b)
<1> DEFINE q == s.queue
<1>1. PICK k \in 0 .. Len(q) :
        /\ s.cur + Asked(q, k) <= Capacity
        /\ k < Len(q) => s.cur + Asked(q, k + 1) > Capacity
        /\ Notified(s) = [cur |-> s.cur + Asked(q, k), queue |-> SubSeq(q, k + 1, Len(q))]
  BY NotifiedWhere
<1> DEFINE t == SubSeq(q, k + 1, Len(q))
<1>2. /\ q \in Seq(Waiter) /\ Len(q) \in Nat /\ s.cur \in Nat /\ k \in Nat /\ k <= Len(q)
      /\ \A i \in 1 .. Len(q) :
           q[i] \in Waiter /\ q[i].who \in Builders /\ q[i].n = c[q[i].who] /\ q[i].n \in 1 .. Capacity
  BY QueueFacts
<1>3. /\ c \in [Builders -> 0 .. Capacity]
      /\ \A i, j \in 1 .. Len(q) : q[i].who = q[j].who => i = j
      /\ s.cur = Total(Granted(c, q))
  BY DEF Ledger
<1>4. t \in Seq(Waiter) /\ Len(t) = Len(q) - k /\ \A i \in 1 .. Len(q) - k : t[i] = q[k + i]
  <2>1. \A i \in k + 1 .. Len(q) : q[i] \in Waiter
    BY <1>2
  <2>2. /\ t \in Seq(Waiter)
        /\ Len(t) = IF k + 1 <= Len(q) THEN Len(q) - (k + 1) + 1 ELSE 0
        /\ \A i \in 1 .. Len(q) - (k + 1) + 1 : t[i] = q[k + 1 + i - 1]
    BY <1>2, <2>1, SubSeqProperties
  <2> QED
    BY <1>2, <2>2
<1> HIDE DEF t
<1>5. ASSUME NEW i \in 1 .. Len(t)
      PROVE  k + i \in 1 .. Len(q) /\ t[i] = q[k + i]
  BY <1>2, <1>4
<1>6. \A i, j \in 1 .. Len(t) : t[i].who = t[j].who => i = j
  <2>1. ASSUME NEW i \in 1 .. Len(t), NEW j \in 1 .. Len(t), t[i].who = t[j].who
        PROVE  i = j
    <3>1. k + i \in 1 .. Len(q) /\ k + j \in 1 .. Len(q) /\ t[i] = q[k + i] /\ t[j] = q[k + j]
      BY <1>5
    <3>2. k + i = k + j
      BY <1>3, <2>1, <3>1
    <3>3. i \in Nat /\ j \in Nat
      BY <1>2, <1>4
    <3> QED
      BY <1>2, <3>2, <3>3
  <2> QED
    BY <2>1
<1>7. \A b \in Builders : Queued(t, b) => Queued(q, b)
  BY <1>5 DEF Queued
<1> DEFINE p == [i \in 1 .. k |-> q[i].who]
           f == [i \in 1 .. k |-> q[i].n]
           g == [b \in Builders |-> IF \E i \in 1 .. k : q[i].who = b THEN c[b] ELSE 0]
<1>8. Total(g) = Total(f)
  <2>1. f \in [1 .. k -> 0 .. Capacity] /\ p \in [1 .. k -> Builders]
    BY <1>2
  <2>2. g \in [Builders -> 0 .. Capacity]
    BY <1>3, Bounds
  <2>3. \A i, j \in 1 .. k : p[i] = p[j] => i = j
    BY <1>2, <1>3
  <2>4. \A i \in 1 .. k : g[p[i]] = f[i]
    BY <1>2
  <2>5. \A b \in Builders : g[b] # 0 => \E i \in 1 .. k : p[i] = b
    OBVIOUS
  <2>6. IsFiniteSet(1 .. k) /\ Capacity \in Nat
    BY <1>2, FS_Interval, Bounds
  <2>7. Renames(1 .. k, Builders, f, g, p)
    BY <2>1, <2>2, <2>3, <2>4, <2>5, <2>6, BuildersFinite DEF Renames, Amounts
  <2> HIDE DEF f, g, p
  <2> QED
    BY <2>7, TotalMoves
<1>9. Total(Granted(c, t)) = Total(Granted(c, q)) + Total(g)
  <2>1. g \in [Builders -> 0 .. Capacity]
    BY <1>3, Bounds
  <2>2. ASSUME NEW b \in Builders
        PROVE  \/ Granted(c, q)[b] = 0 /\ Granted(c, t)[b] = g[b]
               \/ g[b] = 0 /\ Granted(c, t)[b] = Granted(c, q)[b]
    <3>1. CASE \E i \in 1 .. k : q[i].who = b
      <4>1. Queued(q, b)
        BY <1>2, <3>1 DEF Queued
      <4>2. ~Queued(t, b)
        <5>1. ASSUME NEW j \in 1 .. Len(t), t[j].who = b PROVE FALSE
          <6>1. PICK i \in 1 .. k : q[i].who = b
            BY <3>1
          <6>2. i \in 1 .. Len(q) /\ k + j \in 1 .. Len(q) /\ q[k + j].who = b
            BY <1>2, <1>5, <5>1
          <6>3. i = k + j
            BY <1>3, <6>1, <6>2
          <6> QED
            BY <1>2, <1>4, <6>3
        <5> QED
          BY <5>1 DEF Queued
      <4> QED
        BY <3>1, <4>1, <4>2 DEF Granted
    <3>2. CASE ~(\E i \in 1 .. k : q[i].who = b)
      <4>1. Queued(q, b) => Queued(t, b)
        <5>1. ASSUME NEW i \in 1 .. Len(q), q[i].who = b PROVE Queued(t, b)
          <6>1. i - k \in 1 .. Len(t) /\ k + (i - k) = i
            BY <1>2, <1>4, <3>2, <5>1
          <6>2. t[i - k] = q[i]
            BY <1>5, <6>1
          <6> QED
            BY <5>1, <6>1, <6>2 DEF Queued
        <5> QED
          BY <5>1 DEF Queued
      <4> QED
        BY <1>7, <3>2, <4>1 DEF Granted
    <3> QED
      BY <3>1, <3>2
  <2>3. Granted(c, q) \in [Builders -> 0 .. Capacity] /\ Granted(c, t) \in [Builders -> 0 .. Capacity]
    BY <1>3, GrantedType
  <2>4. Splits(Builders, Granted(c, t), Granted(c, q), g)
    BY <2>1, <2>2, <2>3, BuildersFinite DEF Splits, Amounts
  <2> QED
    BY <2>4, TotalAdds
<1>10. Asked(q, k) = Total(f) /\ Asked(q, k) \in Nat
  BY AskedNat DEF Asked
<1> HIDE DEF f, g, p
<1> DEFINE n == s.cur + Asked(q, k)
<1>11. n \in Nat /\ n <= Capacity /\ n = Total(Granted(c, t))
  BY <1>1, <1>2, <1>3, <1>8, <1>9, <1>10
<1>12. HeadWaits([cur |-> n, queue |-> t])
  <2>1. CASE k = Len(q)
    BY <1>4, <2>1 DEF HeadWaits
  <2>2. CASE k < Len(q)
    <3>1. 1 \in 1 .. Len(t) /\ t[1] = q[k + 1] /\ k + 1 \in 1 .. Len(q)
      BY <1>2, <1>4, <2>2
    <3>7. Asked(q, k + 1) = Asked(q, k) + q[k + 1].n
      BY <3>1, AskedNext
    <3>8. s.cur + (Asked(q, k) + q[k + 1].n) > Capacity
      BY <1>1, <2>2, <3>7
    <3>9. q[k + 1].n \in Nat
      BY <1>2, <3>1, Bounds
    <3>10. n + t[1].n > Capacity
      BY <1>2, <1>10, <3>1, <3>8, <3>9, Bounds
    <3> QED
      BY <3>10 DEF HeadWaits
  <2> QED
    BY <1>2, <2>1, <2>2
<1>13. \A i \in 1 .. Len(t) : t[i].n = c[t[i].who] /\ t[i].n # 0
  BY <1>2, <1>5
<1> HIDE DEF n
<1>14. Ledger(c, [cur |-> n, queue |-> t])
  BY <1>3, <1>4, <1>6, <1>11, <1>13 DEF Ledger, Waiter
<1> QED
  BY <1>1, <1>7, <1>12, <1>14 DEF n, t

\* Somebody who does not wait gives its share back.
LEMMA LedgerGives ==
  ASSUME NEW c, NEW s, Ledger(c, s), NEW b \in Builders, ~Queued(s.queue, b)
  PROVE  Ledger([c EXCEPT ![b] = 0], [s EXCEPT !.cur = @ - c[b]])
<1> DEFINE d == [c EXCEPT ![b] = 0]
           q == s.queue
           g == [x \in Builders |-> IF x = b THEN c[b] ELSE 0]
<1>1. c \in [Builders -> 0 .. Capacity] /\ d \in [Builders -> 0 .. Capacity]
  BY CapacityNat DEF Ledger
<1>2. /\ Granted(c, q) \in Amounts(Builders) /\ Granted(d, q) \in Amounts(Builders)
      /\ g \in Amounts(Builders)
  BY <1>1, GrantedType, CapacityNat DEF Amounts
<1>3. Splits(Builders, Granted(c, q), Granted(d, q), g)
  BY <1>1, <1>2, BuildersFinite DEF Splits, Granted
<1>4. g[b] = c[b] /\ OnlyAt(Builders, g, b)
  BY <1>2 DEF OnlyAt
<1>5. Total(g) = c[b]
  <2> HIDE DEF g
  <2> QED
    BY <1>4, TotalOne
<1>6. Total(Granted(c, q)) = Total(Granted(d, q)) + c[b]
  BY <1>3, <1>5, TotalAdds
<1>7. s.cur = Total(Granted(c, q)) /\ s.cur <= Capacity /\ s.cur \in Nat
  BY DEF Ledger
<1>8. Total(Granted(d, q)) \in Nat
  BY <1>2, BuildersFinite, CapacityNat, UnitsFinite DEF Amounts
<1>9. c[b] \in Nat
  BY <1>1
<1> DEFINE r == s.cur - c[b]
<1>10. r \in Nat /\ r <= Capacity /\ r = Total(Granted(d, q))
  BY <1>6, <1>7, <1>8, <1>9, CapacityNat
<1>11. [s EXCEPT !.cur = @ - c[b]] = [cur |-> r, queue |-> q]
  BY QueueFacts
<1>12. \A i \in 1 .. Len(q) : q[i].n = d[q[i].who] /\ q[i].n # 0
  BY <1>1, QueueFacts DEF Queued, Ledger
<1> HIDE DEF r
<1>13. /\ q \in Seq([who : Builders, n : Nat])
       /\ \A i, j \in 1 .. Len(q) : q[i].who = q[j].who => i = j
  BY DEF Ledger
<1>14. Ledger(d, [cur |-> r, queue |-> q])
  BY <1>1, <1>10, <1>12, <1>13 DEF Ledger
<1> QED
  BY <1>11, <1>14

\* Somebody without a claim takes a share that is there, when nobody waits.
LEMMA LedgerTakes ==
  ASSUME NEW c, NEW s, Ledger(c, s), NEW b \in Builders, NEW n \in 0 .. Capacity,
         c[b] = 0, s.queue = <<>>, s.cur + n <= Capacity
  PROVE  Ledger([c EXCEPT ![b] = n], [s EXCEPT !.cur = @ + n])
<1> DEFINE d == [c EXCEPT ![b] = n]
           g == [x \in Builders |-> IF x = b THEN n ELSE 0]
<1>1. c \in [Builders -> 0 .. Capacity] /\ d \in [Builders -> 0 .. Capacity]
  BY CapacityNat DEF Ledger
<1>2. /\ Granted(c, <<>>) \in Amounts(Builders) /\ Granted(d, <<>>) \in Amounts(Builders)
      /\ g \in Amounts(Builders)
  BY <1>1, GrantedType, CapacityNat DEF Amounts
<1>3. Splits(Builders, Granted(d, <<>>), Granted(c, <<>>), g)
  <2>1. \A x \in Builders : ~Queued(<<>>, x)
    BY DEF Queued
  <2>2. \A x \in Builders : Granted(d, <<>>)[x] = d[x] /\ Granted(c, <<>>)[x] = c[x]
    BY <2>1 DEF Granted
  <2>3. \A x \in Builders : d[x] = IF x = b THEN n ELSE c[x]
    BY <1>1
  <2> QED
    BY <1>2, <2>2, <2>3, BuildersFinite DEF Splits
<1>4. g[b] = n /\ OnlyAt(Builders, g, b)
  BY <1>2 DEF OnlyAt
<1>5. Total(g) = n
  <2> HIDE DEF g
  <2> QED
    BY <1>4, TotalOne
<1>6. Total(Granted(d, <<>>)) = Total(Granted(c, <<>>)) + n
  BY <1>3, <1>5, TotalAdds
<1>7. s.cur = Total(Granted(c, <<>>)) /\ s.cur \in Nat
  BY DEF Ledger
<1> DEFINE r == s.cur + n
<1>8. r \in Nat /\ r <= Capacity /\ r = Total(Granted(d, <<>>))
  BY <1>6, <1>7, CapacityNat
<1>9. [s EXCEPT !.cur = @ + n] = [cur |-> r, queue |-> <<>>]
  BY QueueFacts
<1> HIDE DEF r
<1>10. Ledger(d, [cur |-> r, queue |-> <<>>])
  BY <1>1, <1>8 DEF Ledger
<1> QED
  BY <1>9, <1>10

\* Somebody without a claim gets in line.
LEMMA LedgerLines ==
  ASSUME NEW c, NEW s, Ledger(c, s), NEW b \in Builders, NEW n \in 1 .. Capacity,
         c[b] = 0, ~Queued(s.queue, b)
  PROVE  LET t == [s EXCEPT !.queue = Append(@, [who |-> b, n |-> n])]
         IN  /\ Ledger([c EXCEPT ![b] = n], t)
             /\ HeadWaits(s) /\ (s.queue = <<>> => s.cur + n > Capacity) => HeadWaits(t)
             /\ \A x \in Builders : Queued(t.queue, x) => Queued(s.queue, x) \/ x = b
<1> DEFINE d == [c EXCEPT ![b] = n]
           q == s.queue
           w == [who |-> b, n |-> n]
           a == Append(q, w)
<1>1. /\ c \in [Builders -> 0 .. Capacity] /\ d \in [Builders -> 0 .. Capacity]
      /\ d[b] = n /\ \A x \in Builders \ {b} : d[x] = c[x]
  BY CapacityNat DEF Ledger
<1>2. /\ q \in Seq(Waiter) /\ Len(q) \in Nat /\ s.cur \in Nat
      /\ \A i \in 1 .. Len(q) : q[i].who \in Builders /\ q[i].n = c[q[i].who] /\ q[i].n \in 1 .. Capacity
      /\ [s EXCEPT !.queue = Append(@, w)] = [cur |-> s.cur, queue |-> a]
  BY QueueFacts
<1>3. w \in Waiter /\ w.who = b /\ w.n = n
  BY CapacityNat DEF Waiter
<1> HIDE DEF w
<1>4. /\ a \in Seq(Waiter) /\ Len(a) = Len(q) + 1 /\ a[Len(q) + 1] = w
      /\ \A i \in 1 .. Len(q) : a[i] = q[i]
  BY <1>2, <1>3, AppendProperties
<1> HIDE DEF a
<1>5. \A i \in 1 .. Len(q) : q[i].who # b
  BY DEF Queued
<1>6. \A i \in 1 .. Len(a) : a[i].n = d[a[i].who] /\ a[i].n # 0
  <2>1. \A i \in 1 .. Len(q) : a[i].n = d[a[i].who] /\ a[i].n # 0
    BY <1>1, <1>2, <1>4, <1>5
  <2>2. \A i \in 1 .. Len(a) : i \in 1 .. Len(q) \/ i = Len(q) + 1
    BY <1>2, <1>4
  <2>3. w.n = d[w.who] /\ w.n # 0
    BY <1>1, <1>3
  <2> QED
    BY <1>4, <2>1, <2>2, <2>3
<1>7. \A i, j \in 1 .. Len(a) : a[i].who = a[j].who => i = j
  <2>1. \A i \in 1 .. Len(a) : i \in 1 .. Len(q) \/ i = Len(q) + 1
    BY <1>2, <1>4
  <2>2. \A i, j \in 1 .. Len(q) : q[i].who = q[j].who => i = j
    BY DEF Ledger
  <2> QED
    BY <1>3, <1>4, <1>5, <2>1, <2>2
<1>8. \A x \in Builders : Queued(a, x) <=> Queued(q, x) \/ x = b
  <2>1. \A i \in 1 .. Len(a) : i \in 1 .. Len(q) \/ i = Len(q) + 1
    BY <1>2, <1>4
  <2>2. \A i \in 1 .. Len(q) : i \in 1 .. Len(a)
    BY <1>2, <1>4
  <2>3. Len(q) + 1 \in 1 .. Len(a)
    BY <1>2, <1>4
  <2> QED
    BY <1>3, <1>4, <2>1, <2>2, <2>3 DEF Queued
<1>9. Granted(d, a) = Granted(c, q)
  BY <1>1, <1>8 DEF Granted
<1>10. Ledger(d, [cur |-> s.cur, queue |-> a])
  BY <1>1, <1>2, <1>4, <1>6, <1>7, <1>9 DEF Ledger, Waiter
<1>11. HeadWaits(s) /\ (q = <<>> => s.cur + n > Capacity) => HeadWaits([cur |-> s.cur, queue |-> a])
  <2>1. CASE q = <<>>
    BY <1>3, <1>4, <2>1 DEF HeadWaits
  <2>2. CASE q # <<>>
    <3>1. 1 \in 1 .. Len(q)
      BY <1>2, <2>2, EmptySeq
    <3> QED
      BY <1>4, <2>2, <3>1 DEF HeadWaits
  <2> QED
    BY <2>1, <2>2
<1> QED
  BY <1>2, <1>8, <1>10, <1>11 DEF w

\* The i-th waiter gives up its place and its claim.
LEMMA LedgerLeaves ==
  ASSUME NEW c, NEW s, Ledger(c, s), NEW i \in 1 .. Len(s.queue)
  PROVE  LET b == s.queue[i].who
             t == [s EXCEPT !.queue = RemoveAt(@, i)]
         IN  /\ Ledger([c EXCEPT ![b] = 0], t)
             /\ HeadWaits(s) /\ (i # 1 \/ s.cur = Capacity) => HeadWaits(t)
             /\ \A x \in Builders : Queued(t.queue, x) => Queued(s.queue, x) /\ x # b
<1> DEFINE q == s.queue
           b == q[i].who
           d == [c EXCEPT ![b] = 0]
           u == SubSeq(q, 1, i - 1)
           v == SubSeq(q, i + 1, Len(q))
           r == u \o v
<1>1. /\ q \in Seq(Waiter) /\ Len(q) \in Nat /\ s.cur \in Nat
      /\ \A j \in 1 .. Len(q) : /\ q[j] \in Waiter /\ q[j].who \in Builders
                               /\ q[j].n = c[q[j].who] /\ q[j].n \in 1 .. Capacity
  BY QueueFacts
<1>0. /\ i \in Nat /\ 1 <= i /\ i <= Len(q) /\ Len(q) \in Nat
      /\ [s EXCEPT !.queue = RemoveAt(@, i)] = [cur |-> s.cur, queue |-> r]
  <2>1. RemoveAt(q, i) = r
    BY DEF RemoveAt
  <2>2. [s EXCEPT !.queue = RemoveAt(@, i)] = [cur |-> s.cur, queue |-> RemoveAt(q, i)]
    BY QueueFacts
  <2> QED
    BY <1>1, <2>1, <2>2
<1>2. /\ c \in [Builders -> 0 .. Capacity] /\ s.cur <= Capacity
      /\ s.cur = Total(Granted(c, q))
      /\ \A j, k \in 1 .. Len(q) : q[j].who = q[k].who => j = k
  BY DEF Ledger
<1>3. d \in [Builders -> 0 .. Capacity] /\ d[b] = 0 /\ \A x \in Builders \ {b} : d[x] = c[x]
  BY <1>1, <1>2, CapacityNat
<1>4. u \in Seq(Waiter) /\ Len(u) = i - 1 /\ \A j \in 1 .. i - 1 : u[j] = q[j]
  <2>1. \A j \in 1 .. i - 1 : q[j] \in Waiter
    BY <1>1
  <2>2. /\ u \in Seq(Waiter) /\ Len(u) = (IF 1 <= i - 1 THEN i - 1 - 1 + 1 ELSE 0)
        /\ \A j \in 1 .. i - 1 - 1 + 1 : u[j] = q[1 + j - 1]
    BY <1>1, <2>1, SubSeqProperties
  <2> QED
    BY <1>1, <2>2
<1>5. v \in Seq(Waiter) /\ Len(v) = Len(q) - i /\ \A j \in 1 .. Len(q) - i : v[j] = q[i + j]
  <2>1. \A j \in i + 1 .. Len(q) : q[j] \in Waiter
    BY <1>1
  <2>2. /\ v \in Seq(Waiter)
        /\ Len(v) = (IF i + 1 <= Len(q) THEN Len(q) - (i + 1) + 1 ELSE 0)
        /\ \A j \in 1 .. Len(q) - (i + 1) + 1 : v[j] = q[i + 1 + j - 1]
    BY <1>1, <2>1, SubSeqProperties
  <2> QED
    BY <1>1, <2>2
<1> HIDE DEF u, v
<1>6. r \in Seq(Waiter) /\ Len(r) = Len(q) - 1
  <2>1. r \in Seq(Waiter) /\ Len(r) = Len(u) + Len(v)
    BY <1>4, <1>5, ConcatProperties
  <2> QED
    BY <1>0, <1>4, <1>5, <2>1
<1>7. ASSUME NEW j \in 1 .. Len(q) - 1
      PROVE  r[j] = IF j < i THEN q[j] ELSE q[j + 1]
  <2>1. r[j] = IF j <= Len(u) THEN u[j] ELSE v[j - Len(u)]
    <3>1. j \in 1 .. Len(u) + Len(v)
      BY <1>0, <1>4, <1>5
    <3> QED
      BY <1>4, <1>5, <3>1, ConcatProperties
  <2>2. CASE j < i
    BY <1>0, <1>4, <2>1, <2>2
  <2>3. CASE ~(j < i)
    <3>1. ~(j <= Len(u)) /\ j - Len(u) \in 1 .. Len(q) - i /\ i + (j - Len(u)) = j + 1
      BY <1>0, <1>4, <2>3
    <3> QED
      BY <1>0, <1>5, <2>1, <2>3, <3>1
  <2> QED
    BY <2>2, <2>3
<1> HIDE DEF r
<1> DEFINE o == [j \in 1 .. Len(r) |-> IF j < i THEN j ELSE j + 1]
<1>8. /\ \A j \in 1 .. Len(r) : o[j] \in 1 .. Len(q) /\ o[j] # i /\ r[j] = q[o[j]]
      /\ \A j, k \in 1 .. Len(r) : o[j] = o[k] => j = k
      /\ \A j \in 1 .. Len(q) : j # i => \E k \in 1 .. Len(r) : o[k] = j
  <2>1. \A j \in 1 .. Len(r) : o[j] \in 1 .. Len(q) /\ o[j] # i /\ r[j] = q[o[j]]
    BY <1>0, <1>6, <1>7
  <2>2. \A j, k \in 1 .. Len(r) : o[j] = o[k] => j = k
    BY <1>0, <1>6
  <2>3. ASSUME NEW j \in 1 .. Len(q), j # i PROVE \E k \in 1 .. Len(r) : o[k] = j
    <3>1. CASE j < i
      <4>1. j \in 1 .. Len(r) /\ o[j] = j
        BY <1>0, <1>6, <3>1
      <4> QED
        BY <4>1
    <3>2. CASE j > i
      <4>1. j - 1 \in 1 .. Len(r) /\ o[j - 1] = j
        BY <1>0, <1>6, <3>2
      <4> QED
        BY <4>1
    <3> QED
      BY <1>0, <2>3, <3>1, <3>2
  <2> QED
    BY <2>1, <2>2, <2>3
<1> HIDE DEF o
<1>9. \A j \in 1 .. Len(r) : r[j].n = d[r[j].who] /\ r[j].n # 0 /\ r[j].who # b
  <2>1. ASSUME NEW j \in 1 .. Len(r) PROVE r[j].n = d[r[j].who] /\ r[j].n # 0 /\ r[j].who # b
    <3>1. o[j] \in 1 .. Len(q) /\ o[j] # i /\ r[j] = q[o[j]]
      BY <1>8
    <3>2. q[o[j]].who # b
      BY <1>2, <3>1
    <3> QED
      BY <1>1, <1>3, <3>1, <3>2
  <2> QED
    BY <2>1
<1>10. \A j, k \in 1 .. Len(r) : r[j].who = r[k].who => j = k
  <2>1. ASSUME NEW j \in 1 .. Len(r), NEW k \in 1 .. Len(r), r[j].who = r[k].who
        PROVE  j = k
    <3>1. o[j] \in 1 .. Len(q) /\ o[k] \in 1 .. Len(q) /\ r[j] = q[o[j]] /\ r[k] = q[o[k]]
      BY <1>8
    <3>2. o[j] = o[k]
      BY <1>2, <2>1, <3>1
    <3> QED
      BY <1>8, <3>2
  <2> QED
    BY <2>1
<1>11. \A x \in Builders : Queued(r, x) <=> Queued(q, x) /\ x # b
  <2>1. ASSUME NEW x \in Builders, Queued(r, x) PROVE Queued(q, x) /\ x # b
    <3>1. PICK j \in 1 .. Len(r) : r[j].who = x
      BY <2>1 DEF Queued
    <3> QED
      BY <1>8, <1>9, <3>1 DEF Queued
  <2>2. ASSUME NEW x \in Builders, Queued(q, x), x # b PROVE Queued(r, x)
    <3>1. PICK j \in 1 .. Len(q) : q[j].who = x
      BY <2>2 DEF Queued
    <3>2. PICK k \in 1 .. Len(r) : o[k] = j
      BY <1>8, <2>2, <3>1
    <3>3. r[k].who = x
      BY <1>8, <3>1, <3>2
    <3> QED
      BY <3>3 DEF Queued
  <2> QED
    BY <2>1, <2>2
<1>12. Granted(d, r) = Granted(c, q)
  <2>1. Queued(q, b)
    BY DEF Queued
  <2> QED
    BY <1>3, <1>11, <2>1 DEF Granted
<1>13. Ledger(d, [cur |-> s.cur, queue |-> r])
  BY <1>1, <1>2, <1>3, <1>6, <1>9, <1>10, <1>12 DEF Ledger, Waiter
<1>14. HeadWaits(s) /\ (i # 1 \/ s.cur = Capacity) => HeadWaits([cur |-> s.cur, queue |-> r])
  <2>1. CASE r = <<>>
    BY <2>1 DEF HeadWaits
  <2>2. CASE r # <<>>
    <3>1. 1 \in 1 .. Len(r) /\ 1 \in 1 .. Len(q)
      BY <1>0, <1>6, <2>2, EmptySeq
    <3>2. q # <<>>
      BY <3>1
    <3>3. i # 1 => r[1] = q[1]
      BY <1>1, <1>6, <1>7, <3>1
    <3>4. r[1].n \in 1 .. Capacity
      BY <1>1, <1>8, <3>1
    <3> QED
      BY <1>1, <3>2, <3>3, <3>4, CapacityNat DEF HeadWaits
  <2> QED
    BY <2>1, <2>2
<1> QED
  BY <1>0, <1>11, <1>13, <1>14

-----------------------------------------------------------------------------
(* The books, for a step of one goroutine. *)

\* Every other goroutine keeps its step, and its load its key and its share.
OthersStay(b) ==
  \A x \in Builders \ {b} :
    at'[x] = at[x] /\ (x \in Loads => load'[x].key = load[x].key /\ load'[x].admitted = load[x].admitted)
\* The steps of a goroutine that is, or was, in line.
InLine(b) == at[b] = "charge" \/ (b \in Loads /\ at[b] = "queue")

\* Only the claim of b moves.
LEMMA ClaimsMove ==
  ASSUME NEW b \in Builders, OthersStay(b)
  PROVE  Claims' = [Claims EXCEPT ![b] = Claim(b)']
<1>1. ASSUME NEW x \in Builders \ {b} PROVE Claim(x)' = Claim(x)
  BY DEF OthersStay, Claim, WeightOf
<1> QED
  BY <1>1 DEF Claims

\* Waiters stay in line.
LEMMA WaitersMove ==
  ASSUME NEW b \in Builders, OthersStay(b), WaitersInStep,
         \A x \in Builders : Queued(sem'.queue, x) => Queued(sem.queue, x) \/ InLine(x)',
         Queued(sem'.queue, b) => InLine(b)'
  PROVE  WaitersInStep'
<1>1. ASSUME NEW x \in Builders \ {b}, InLine(x) PROVE InLine(x)'
  BY <1>1 DEF OthersStay, InLine
<1>2. ASSUME NEW x \in Builders, Queued(sem'.queue, x) PROVE InLine(x)'
  BY <1>1, <1>2 DEF WaitersInStep, InLine
<1> QED
  BY <1>2 DEF WaitersInStep, InLine

\* A step of b that leaves the semaphore alone.
LEMMA BooksStay ==
  ASSUME Books, NEW b \in Builders, OthersStay(b), UNCHANGED sem, Claim(b)' = Claim(b),
         Queued(sem.queue, b) => InLine(b)'
  PROVE  Books'
<1>1. Claims' = Claims
  BY ClaimsMove DEF Claims
<1>2. WaitersInStep'
  BY WaitersMove DEF Books
<1> QED
  BY <1>1, <1>2 DEF Books

\* Who waits has a claim.
LEMMA WaitersClaim ==
  ASSUME Books, NEW b \in Builders, Queued(sem.queue, b)
  PROVE  Claim(b) \in 1 .. Capacity /\ InLine(b)
<1>1. PICK i \in 1 .. Len(sem.queue) : sem.queue[i].who = b
  BY DEF Queued
<1>2. sem.queue[i].n = Claims[sem.queue[i].who] /\ sem.queue[i].n \in 1 .. Capacity
  BY QueueFacts DEF Books
<1> QED
  BY <1>1, <1>2 DEF Books, WaitersInStep, InLine, Claims

\* Acquire, of a goroutine without a claim.
LEMMA BooksAcquire ==
  ASSUME Books, NEW b \in Builders, OthersStay(b), Claim(b) = 0, Claim(b)' \in 1 .. Capacity,
         \/ Fits(Claim(b)') /\ sem' = [sem EXCEPT !.cur = @ + Claim(b)']
         \/ /\ ~Fits(Claim(b)') /\ InLine(b)'
            /\ sem' = [sem EXCEPT !.queue = Append(@, [who |-> b, n |-> Claim(b)'])]
  PROVE  Books'
<1> DEFINE n == Claim(b)'
<1>1. Claims' = [Claims EXCEPT ![b] = n] /\ Claims[b] = 0 /\ n \in 1 .. Capacity
  BY ClaimsMove DEF Claims
<1>2. Ledger(Claims, sem) /\ HeadWaits(sem) /\ WaitersInStep /\ ~Queued(sem.queue, b)
  BY WaitersClaim DEF Books
<1>3. CASE Fits(n) /\ sem' = [sem EXCEPT !.cur = @ + n]
  <2>1. sem.queue = <<>> /\ sem.cur + n <= Capacity /\ n \in 0 .. Capacity
    BY <1>1, <1>3, CapacityNat DEF Fits
  <2> HIDE DEF n
  <2>2. Ledger([Claims EXCEPT ![b] = n], [sem EXCEPT !.cur = @ + n])
    BY <1>1, <1>2, <2>1, LedgerTakes
  <2>3. sem'.queue = <<>>
    BY <1>2, <1>3, <2>1 DEF Ledger
  <2>4. HeadWaits(sem') /\ \A x \in Builders : ~Queued(sem'.queue, x)
    BY <2>3 DEF HeadWaits, Queued
  <2>5. Ledger(Claims', sem')
    BY <1>1, <1>3, <2>2
  <2> QED
    BY <2>4, <2>5 DEF Books, WaitersInStep
<1>4. CASE /\ ~Fits(n) /\ InLine(b)'
           /\ sem' = [sem EXCEPT !.queue = Append(@, [who |-> b, n |-> n])]
  <2> HIDE DEF n
  <2>1. sem.queue = <<>> => sem.cur + n > Capacity
    <3>1. sem.cur \in Nat
      BY <1>2 DEF Ledger
    <3> QED
      BY <1>1, <1>4, <3>1, CapacityNat DEF Fits
  <2> DEFINE t == [sem EXCEPT !.queue = Append(@, [who |-> b, n |-> n])]
  <2>2. Ledger(Claims, sem) /\ Claims[b] = 0 /\ ~Queued(sem.queue, b) /\ n \in 1 .. Capacity
    BY <1>1, <1>2
  <2>3. /\ Ledger([Claims EXCEPT ![b] = n], t)
        /\ HeadWaits(sem) /\ (sem.queue = <<>> => sem.cur + n > Capacity) => HeadWaits(t)
        /\ \A x \in Builders : Queued(t.queue, x) => Queued(sem.queue, x) \/ x = b
    BY <2>2, LedgerLines
  <2>4. sem' = t
    BY <1>4
  <2> HIDE DEF t
  <2>5. /\ Ledger([Claims EXCEPT ![b] = n], sem')
        /\ HeadWaits(sem')
        /\ \A x \in Builders : Queued(sem'.queue, x) => Queued(sem.queue, x) \/ x = b
    BY <1>2, <2>1, <2>3, <2>4
  <2>6. \A x \in Builders : Queued(sem'.queue, x) => Queued(sem.queue, x) \/ InLine(x)'
    BY <1>4, <2>5
  <2>7. WaitersInStep'
    BY <1>2, <1>4, <2>6, WaitersMove
  <2> QED
    BY <1>1, <2>5, <2>7 DEF Books
<1> QED
  BY <1>3, <1>4

\* Release, of a goroutine that has its claim.
LEMMA BooksRelease ==
  ASSUME Books, NEW b \in Builders, OthersStay(b), ~Queued(sem.queue, b),
         Claim(b)' = 0, Release(Claim(b))
  PROVE  Books'
<1> DEFINE s == [sem EXCEPT !.cur = @ - Claims[b]]
<1>1. Claims' = [Claims EXCEPT ![b] = 0] /\ Claims[b] = Claim(b)
  BY ClaimsMove DEF Claims
<1>2. Ledger([Claims EXCEPT ![b] = 0], s)
  BY LedgerGives DEF Books
<1>3. sem' = Notified(s) /\ s.queue = sem.queue
  <2>1. sem \in [cur : Nat, queue : Seq([who : Builders, n : Nat])]
    BY DEF Books, Ledger
  <2> QED
    BY <1>1, <2>1 DEF Release
<1> HIDE DEF s
<1>4. /\ Ledger(Claims', sem') /\ HeadWaits(sem')
      /\ \A x \in Builders : Queued(sem'.queue, x) => Queued(sem.queue, x)
  BY <1>1, <1>2, <1>3, NotifyKeeps
<1>5. WaitersInStep'
  BY <1>4, WaitersMove DEF Books
<1> QED
  BY <1>4, <1>5 DEF Books

\* A deadline in Acquire, of a goroutine that waits or has just been granted its share.
LEMMA BooksCancel ==
  ASSUME Books, NEW b \in Builders, OthersStay(b), Claim(b)' = 0, Cancel(b, Claim(b))
  PROVE  Books'
<1>1. CASE ~Waits(b)
  <2>1. ~Queued(sem.queue, b) /\ Release(Claim(b))
    BY <1>1 DEF Cancel, Waits, Queued
  <2> QED
    BY <2>1, BooksRelease
<1>2. CASE Waits(b)
  <2> DEFINE i == Place(b)
             left == [sem EXCEPT !.queue = RemoveAt(@, i)]
  <2>1. i \in 1 .. Len(sem.queue) /\ sem.queue[i].who = b
    BY <1>2 DEF Waits, Place
  <2>2. sem' = IF i = 1 /\ sem.cur < Capacity THEN Notified(left) ELSE left
    BY <1>2 DEF Cancel
  <2> HIDE DEF i
  <2>3. /\ Ledger([Claims EXCEPT ![b] = 0], left)
        /\ HeadWaits(sem) /\ (i # 1 \/ sem.cur = Capacity) => HeadWaits(left)
        /\ \A x \in Builders : Queued(left.queue, x) => Queued(sem.queue, x) /\ x # b
    BY <2>1, LedgerLeaves DEF Books
  <2>4. Claims' = [Claims EXCEPT ![b] = 0] /\ HeadWaits(sem) /\ WaitersInStep
    BY ClaimsMove DEF Books
  <2> HIDE DEF left
  <2>5. /\ Ledger(Claims', Notified(left)) /\ HeadWaits(Notified(left))
        /\ \A x \in Builders : Queued(Notified(left).queue, x) => Queued(left.queue, x)
    BY <2>3, <2>4, NotifyKeeps
  <2>6. i # 1 \/ sem.cur = Capacity \/ (i = 1 /\ sem.cur < Capacity)
    <3>1. sem.cur \in Nat /\ sem.cur <= Capacity
      BY DEF Books, Ledger
    <3> QED
      BY <3>1, CapacityNat
  <2>7. Ledger(Claims', sem') /\ HeadWaits(sem')
    BY <2>2, <2>3, <2>4, <2>5, <2>6
  <2>8. \A x \in Builders : Queued(sem'.queue, x) => Queued(sem.queue, x) /\ x # b
    BY <2>2, <2>3, <2>5
  <2>9. WaitersInStep'
    BY <2>4, <2>8, WaitersMove
  <2> QED
    BY <2>7, <2>9 DEF Books
<1> QED
  BY <1>1, <1>2

\* What the books say of what is held.
LEMMA HeldIsGranted ==
  ASSUME Books, AdmittedInStep, NEW b \in Builders
  PROVE  Held(b) = Granted(Claims, sem.queue)[b]
<1>1. Waits(b) <=> Queued(sem.queue, b)
  BY DEF Waits, Queued
<1>2. Granted(Claims, sem.queue)[b] = IF Queued(sem.queue, b) THEN 0 ELSE Claim(b)
  BY DEF Granted, Claims
<1>3. CASE Queued(sem.queue, b)
  <2>1. InLine(b)
    BY <1>3, WaitersClaim
  <2>2. ~(b \in Loads /\ load[b].admitted)
    BY <2>1 DEF AdmittedInStep, InLine
  <2>3. at[b] # "build"
    BY <2>1 DEF InLine
  <2> QED
    BY <1>1, <1>2, <1>3, <2>2, <2>3 DEF Held
<1>4. CASE ~Queued(sem.queue, b)
  BY <1>1, <1>2, <1>4 DEF Held, Claim
<1> QED
  BY <1>3, <1>4

\* The invariant is as strong as the property.
LEMMA BooksExact ==
  ASSUME Books, AdmittedInStep
  PROVE  BudgetExact
<1>1. [b \in Builders |-> Held(b)] = Granted(Claims, sem.queue)
  BY HeldIsGranted DEF Granted
<1> QED
  BY <1>1 DEF Books, Ledger, HeadWaits, BudgetExact

-----------------------------------------------------------------------------
(* What is to show of a step. *)

Inside == {"reserve", "charge", "build"}

\* What a goroutine has at each of its steps.
LEMMA ClaimAt ==
  ASSUME BudgetInv, NEW b \in Builders
  PROVE  /\ at \in [Builders -> RunSteps] /\ load \in [Loads -> sharedLoad]
         /\ at[b] \in {"prime", "gate", "reserve", "admission"} => Claim(b) = 0
         /\ b \notin Loads /\ at[b] = "over" => Claim(b) = 0
         /\ at[b] \in {"charge", "build"} => Claim(b) = charge
         /\ b \in Loads /\ at[b] = "queue" => Claim(b) = WeightOf(b)
         /\ b \in Loads /\ load[b].admitted => Claim(b) = WeightOf(b)
         /\ b \in Loads /\ at[b] \in BuildSteps \cup {"admission", "queue"} => ~load[b].admitted
         /\ ~InLine(b) => ~Queued(sem.queue, b)
<1>1. at \in [Builders -> RunSteps] /\ load \in [Loads -> sharedLoad]
  BY DEF BudgetInv, TypeOK
<1>2. b \in Loads /\ at[b] \in BuildSteps \cup {"admission", "queue"} => ~load[b].admitted
  BY DEF BudgetInv, AdmittedInStep, BuildSteps
<1>3. ~InLine(b) => ~Queued(sem.queue, b)
  BY DEF BudgetInv, Books, WaitersInStep, InLine
<1> QED
  BY <1>1, <1>2, <1>3 DEF Claim, BuildSteps

\* The claim of the next state.
LEMMA ClaimNext ==
  ASSUME NEW b \in Builders
  PROVE  /\ (b \in Loads => ~load'[b].admitted) /\ at'[b] \notin {"queue", "charge", "build"}
              => Claim(b)' = 0
         /\ (b \in Loads => ~load'[b].admitted) /\ at'[b] \in {"charge", "build"}
              => Claim(b)' = charge
         /\ b \in Loads /\ (load'[b].admitted \/ at'[b] = "queue")
              => Claim(b)' = weight(load'[b].key)
BY DEF Claim, WeightOf

\* A step of b, and of nobody else.
LEMMA OnlyMoves ==
  ASSUME BudgetInv, NEW b \in Builders, NEW x \in RunSteps, at' = [at EXCEPT ![b] = x],
         UNCHANGED load
  PROVE  OthersStay(b) /\ at'[b] = x
BY ClaimAt DEF OthersStay

\* The same, of the goroutine of a load.
LEMMA OnlyLoadMoves ==
  ASSUME BudgetInv, NEW l \in Loads, NEW x \in RunSteps, NEW r,
         at' = [at EXCEPT ![l] = x], load' = [load EXCEPT ![l] = r]
  PROVE  OthersStay(l) /\ at'[l] = x /\ load'[l] = r /\ l \in Builders
<1>1. l \in Builders
  BY DEF Builders
<1> QED
  BY <1>1, ClaimAt DEF OthersStay

\* One builder inside: it comes when nobody is there, and opens the gate when it goes.
LEMMA GateStep ==
  ASSUME BudgetInv, NEW b \in Builders, NEW x \in RunSteps, at' = [at EXCEPT ![b] = x],
         \/ gate' = gate /\ (at[b] \in Inside <=> x \in Inside)
         \/ gate = Free /\ gate' = b /\ x \in Inside
         \/ gate' = Free /\ at[b] \in Inside /\ x \notin Inside
  PROVE  GateIsHeld' /\ gate' \in Builders \cup {Free}
<1>1. /\ at'[b] = x /\ \A y \in Builders \ {b} : at'[y] = at[y]
      /\ gate \in Builders \cup {Free} /\ Free \notin Builders
  BY LoadsAssumption, ClaimAt DEF BudgetInv, TypeOK
<1>2. \A y \in Builders : gate = y <=> at[y] \in Inside
  BY DEF BudgetInv, GateIsHeld, Inside
<1>3. \A y \in Builders : gate' = y <=> at'[y] \in Inside
  BY <1>1, <1>2
<1> QED
  BY <1>1, <1>3 DEF GateIsHeld, Inside

\* The variables that only TypeOK speaks of.
Rest == gate \in Builders \cup {Free} /\ primed \subseteq Keys /\ gaveUp \in [Callers -> BOOLEAN]
LEMMA InvNext ==
  ASSUME FlightInv', Books', AdmittedInStep', GateIsHeld', Rest'
  PROVE  BudgetInv'
BY DEF BudgetInv, FlightInv, Types, TypeOK, Books, Ledger, Rest

\* The builds have no admitted load.
LEMMA BuildKeepsAdmitted ==
  ASSUME BudgetInv, NEW b \in Builders, NEW x \in RunSteps, at' = [at EXCEPT ![b] = x],
         UNCHANGED <<load, pc, mine>>,
         b \in Loads => at[b] \in BuildSteps
  PROVE  AdmittedInStep'
<1>1. b \in Loads => ~load[b].admitted
  BY ClaimAt
<1>2. \A l \in Loads : load[l].admitted => l # b /\ at'[l] = at[l]
  BY <1>1, ClaimAt DEF Builders
<1> QED
  BY <1>2 DEF BudgetInv, AdmittedInStep

\* A step of a build, given what it does to the budget.
LEMMA BuildInv ==
  ASSUME BudgetInv, NEW b \in Builders, NEW x \in RunSteps, at' = [at EXCEPT ![b] = x],
         FlightInv', UNCHANGED <<load, pc, mine, gaveUp>>, primed' \subseteq Keys,
         b \in Loads => at[b] \in BuildSteps,
         Books',
         \/ gate' = gate /\ (at[b] \in Inside <=> x \in Inside)
         \/ gate = Free /\ gate' = b /\ x \in Inside
         \/ gate' = Free /\ at[b] \in Inside /\ x \notin Inside
  PROVE  BudgetInv'
<1>1. AdmittedInStep'
  BY BuildKeepsAdmitted
<1>2. GateIsHeld' /\ gate' \in Builders \cup {Free}
  BY GateStep
<1>3. Rest'
  BY <1>2 DEF Rest, BudgetInv, TypeOK
<1> QED
  BY <1>1, <1>2, <1>3, InvNext

-----------------------------------------------------------------------------
(* The builds, and the budget. *)

\* A build that acquires its charge, or waits for it.
LEMMA BudgetReserve ==
  ASSUME BudgetInv, NEW b \in Builders, ReserveCharge(b)
  PROVE  BudgetInv'
<1>1. /\ at[b] = "reserve" /\ UNCHANGED <<flights, load, gate, primed, pc, mine, gaveUp>>
      /\ Acquire(b, charge, "charge", "build")
  BY DEF ReserveCharge, callers
<1>2. PICK x \in {"charge", "build"} : at' = [at EXCEPT ![b] = x]
  BY <1>1, AcquireMoves
<1>3. x \in RunSteps
  BY DEF RunSteps
<1>4. OthersStay(b) /\ at'[b] = x
  BY <1>1, <1>2, <1>3, OnlyMoves
<1>5. Claim(b) = 0 /\ (b \in Loads => ~load[b].admitted) /\ Claim(b)' = charge
  BY <1>1, <1>4, ClaimAt, ClaimNext DEF BuildSteps
<1>6. \/ Fits(charge) /\ sem' = [sem EXCEPT !.cur = @ + charge]
      \/ /\ ~Fits(charge) /\ InLine(b)'
         /\ sem' = [sem EXCEPT !.queue = Append(@, [who |-> b, n |-> charge])]
  <2>1. at \in [Builders -> RunSteps]
    BY ClaimAt
  <2> QED
    BY <1>1, <2>1 DEF Acquire, InLine
<1>7. Books'
  BY <1>4, <1>5, <1>6, Bounds, BooksAcquire DEF BudgetInv
<1>8. FlightInv'
  BY BuildPreserves DEF Build, BudgetInv
<1> QED
  BY <1>1, <1>2, <1>3, <1>7, <1>8, BuildInv DEF BuildSteps, Inside, BudgetInv, TypeOK

\* A step of a build that leaves the budget alone.
LEMMA BudgetQuiet ==
  ASSUME BudgetInv, NEW b \in Builders, NEW x \in RunSteps, at' = [at EXCEPT ![b] = x],
         FlightInv', UNCHANGED <<load, sem, primed, callers>>,
         \/ at[b] \in {"prime", "gate"} \/ (at[b] = "over" /\ b \notin Loads) \/ at[b] = "reserve",
         x \in {"gate", "reserve", "admission", "finish", "over"},
         \/ gate' = gate /\ (at[b] \in Inside <=> x \in Inside)
         \/ gate = Free /\ gate' = b /\ x \in Inside
         \/ gate' = Free /\ at[b] \in Inside /\ x \notin Inside
  PROVE  BudgetInv'
<1>1. OthersStay(b) /\ at'[b] = x
  BY OnlyMoves
<1>2. (b \in Loads => ~load[b].admitted) /\ Claim(b) = 0 /\ ~Queued(sem.queue, b)
  BY ClaimAt DEF BuildSteps, InLine
<1>3. Claim(b)' = 0
  BY <1>1, <1>2, ClaimNext
<1>4. Books'
  BY <1>1, <1>2, <1>3, BooksStay DEF BudgetInv
<1> QED
  BY <1>4, BuildInv DEF BuildSteps, BudgetInv, TypeOK, callers

\* A build, or its wait, ends: what it has, or waits for, is given up.
LEMMA BudgetBuildEnds ==
  ASSUME BudgetInv, NEW b \in Builders, NEW x \in RunSteps, at' = [at EXCEPT ![b] = x],
         FlightInv', UNCHANGED <<load, callers>>, primed' \subseteq Keys,
         \/ at[b] = "build" /\ Release(charge)
         \/ at[b] = "charge" /\ Cancel(b, charge),
         x \in {"admission", "finish", "over"}, gate' = Free
  PROVE  BudgetInv'
<1>1. OthersStay(b) /\ at'[b] = x
  BY OnlyMoves DEF callers
<1>2. (b \in Loads => ~load[b].admitted) /\ Claim(b) = charge
  BY ClaimAt DEF BuildSteps
<1>3. Claim(b)' = 0
  BY <1>1, <1>2, ClaimNext
<1>4. Books'
  <2>1. CASE at[b] = "build" /\ Release(charge)
    <3>1. ~Queued(sem.queue, b)
      BY <2>1, ClaimAt DEF InLine
    <3> QED
      BY <1>1, <1>2, <1>3, <2>1, <3>1, BooksRelease DEF BudgetInv
  <2>2. CASE at[b] = "charge" /\ Cancel(b, charge)
    BY <1>1, <1>2, <1>3, <2>2, BooksCancel DEF BudgetInv
  <2> QED
    BY <2>1, <2>2
<1> QED
  BY <1>4, BuildInv DEF BuildSteps, Inside, callers

LEMMA BudgetBuild ==
  ASSUME BudgetInv, NEW b \in Builders, Build(b) \/ ExpireBuild(b)
  PROVE  BudgetInv'
<1> USE DEF callers
<1>0. FlightInv' /\ FlightInv /\ primed \subseteq Keys
  BY BuildPreserves DEF BudgetInv, TypeOK
<1>1. CASE EnterGate(b)
  BY <1>0, <1>1, BudgetQuiet DEF EnterGate, RunSteps, Inside
<1>2. CASE ReserveCharge(b)
  BY <1>2, BudgetReserve
<1>3. CASE ChargeGranted(b)
  <2>1. /\ at[b] = "charge" /\ at' = [at EXCEPT ![b] = "build"] /\ ~Waits(b)
        /\ UNCHANGED <<load, sem, gate, primed, pc, mine, gaveUp>> /\ "build" \in RunSteps
    BY <1>3 DEF ChargeGranted, RunSteps
  <2>2. OthersStay(b) /\ at'[b] = "build"
    BY <2>1, OnlyMoves
  <2>3. (b \in Loads => ~load[b].admitted) /\ Claim(b) = charge /\ Claim(b)' = charge
    BY <2>1, <2>2, ClaimAt, ClaimNext DEF BuildSteps
  <2>4. ~Queued(sem.queue, b)
    BY <2>1 DEF Waits, Queued
  <2>5. Books'
    BY <2>1, <2>2, <2>3, <2>4, BooksStay DEF BudgetInv
  <2> QED
    BY <1>0, <2>1, <2>5, BuildInv DEF BuildSteps, Inside
<1>4. CASE BuildEnds(b)
  <2>1. Built(b) \in {"admission", "over"} /\ Built(b) \in RunSteps
    BY DEF Built, RunSteps
  <2>2. primed' \subseteq Keys
    <3>1. b \in Loads => load[b].key \in Keys
      BY <1>0, <1>4 DEF BuildEnds, FlightInv, LoadsAreInStep, LoadInStep, Running
    <3> QED
      BY <1>0, <1>4, <3>1 DEF BuildEnds
  <2> QED
    BY <1>0, <1>4, <2>1, <2>2, BudgetBuildEnds DEF BuildEnds
<1>5. Abandoned(b) \in {"finish", "over"} /\ Abandoned(b) \in RunSteps
  BY DEF Abandoned, RunSteps
<1>6. CASE ExpireAtGate(b)
  BY <1>0, <1>5, <1>6, BudgetQuiet DEF ExpireAtGate, Inside
<1>7. CASE ExpireInCharge(b)
  <2>1. CASE at[b] = "reserve" /\ UNCHANGED sem
    BY <1>0, <1>5, <1>7, <2>1, BudgetQuiet DEF ExpireInCharge, Inside
  <2>2. CASE at[b] = "charge" /\ Cancel(b, charge)
    BY <1>0, <1>5, <1>7, <2>2, BudgetBuildEnds DEF ExpireInCharge
  <2> QED
    BY <1>7, <2>1, <2>2 DEF ExpireInCharge
<1>8. CASE ExpireInBuild(b)
  BY <1>0, <1>5, <1>8, BudgetBuildEnds DEF ExpireInBuild
<1> QED
  BY <1>1, <1>2, <1>3, <1>4, <1>6, <1>7, <1>8 DEF Build, ExpireBuild

LEMMA BudgetPrewarm ==
  ASSUME BudgetInv, NEW b \in Prewarms, Prewarm(b)
  PROVE  BudgetInv'
<1>1. b \in Builders /\ b \notin Loads
  BY LoadsAssumption DEF Builders
<1>2. FlightInv'
  BY PrewarmPreserves DEF BudgetInv
<1>3. /\ at[b] = "over" /\ at' = [at EXCEPT ![b] = "gate"] /\ "gate" \in RunSteps
      /\ UNCHANGED <<load, sem, gate, primed, callers>>
  BY DEF Prewarm, RunSteps
<1> QED
  BY <1>1, <1>2, <1>3, BudgetQuiet DEF Inside

-----------------------------------------------------------------------------
(* The goroutine of a load, and the budget. *)

LastReader(l) == \E c \in Callers : pc[c] = "release" /\ mine[c] = l
\* An admitted load is where it will be given back.
AdmittedAt(r, x, released) ==
  r.admitted =>
    /\ r.key \in Keys
    /\ x \in {"load", "finish", "orphan", "close"} \/ (x = "over" /\ r.finished)
    /\ r.finished /\ r.refs = 0 => x = "orphan" \/ released

LEMMA AdmittedIs == AdmittedInStep <=> \A l \in Loads : AdmittedAt(load[l], at[l], LastReader(l))
BY DEF AdmittedInStep, AdmittedAt, LastReader

\* A step of the goroutine of a load, given what it does to the budget.
LEMMA LoadInv ==
  ASSUME BudgetInv, NEW l \in Loads, NEW x \in RunSteps, NEW r,
         at' = [at EXCEPT ![l] = x], load' = [load EXCEPT ![l] = r],
         UNCHANGED <<gate, primed, callers>>, at[l] \notin Inside, x \notin Inside,
         FlightInv', Books', AdmittedAt(r, x, LastReader(l))
  PROVE  BudgetInv'
<1>1. /\ at'[l] = x /\ load'[l] = r /\ l \in Builders
      /\ \A m \in Loads \ {l} : at'[m] = at[m] /\ load'[m] = load[m]
  BY ClaimAt DEF Builders
<1>2. \A m \in Loads : LastReader(m)' = LastReader(m)
  BY DEF LastReader, callers
<1>3. AdmittedInStep'
  <2>1. AdmittedInStep
    BY DEF BudgetInv
  <2>2. \A m \in Loads : AdmittedAt(load'[m], at'[m], LastReader(m)')
    BY <1>1, <1>2, <2>1, AdmittedIs
  <2> QED
    BY <2>2 DEF AdmittedInStep, AdmittedAt, LastReader
<1>4. GateIsHeld' /\ gate' \in Builders \cup {Free}
  BY <1>1, GateStep
<1>5. Rest'
  BY <1>4 DEF Rest, BudgetInv, TypeOK, callers
<1> QED
  BY <1>3, <1>4, <1>5, InvNext

\* A load that runs has a weight.
LEMMA WeightRuns ==
  ASSUME BudgetInv, NEW l \in Loads, at[l] # "over", ~load[l].finished
  PROVE  load[l].key \in Keys /\ WeightOf(l) \in 1 .. Capacity
<1>1. load[l].key \in Keys
  BY DEF BudgetInv, FlightInv, LoadsAreInStep, LoadInStep, Running
<1> QED
  BY <1>1, Bounds DEF WeightOf

LEMMA BudgetAdmission ==
  ASSUME BudgetInv, NEW l \in Loads, Admission(l)
  PROVE  BudgetInv'
<1> USE DEF RunSteps
<1> DEFINE n == WeightOf(l)
           x == IF Fits(n) THEN "load" ELSE "queue"
           r == [load[l] EXCEPT !.phase = IF Fits(n) THEN "admitted" ELSE "queued",
                                !.admitted = Fits(n)]
<1>1. /\ at[l] = "admission" /\ UNCHANGED <<flights, gate, primed, callers>>
      /\ at' = [at EXCEPT ![l] = x]
      /\ \/ Fits(n) /\ sem' = [sem EXCEPT !.cur = @ + n]
         \/ ~Fits(n) /\ sem' = [sem EXCEPT !.queue = Append(@, [who |-> l, n |-> n])]
  BY DEF Admission, Acquire
<1>2. load' = [load EXCEPT ![l] = r]
  BY DEF Admission
<1>3. /\ load[l] \in sharedLoad /\ ~load[l].finished /\ l \in Builders
      /\ load[l].key \in Keys /\ n \in 1 .. Capacity
  BY <1>1, RunningLoad, WeightRuns DEF BudgetInv
<1>4. r.key = load[l].key /\ r.finished = load[l].finished /\ r.admitted = Fits(n)
  BY <1>3 DEF sharedLoad
<1>5. Claim(l) = 0
  BY <1>1, <1>3, ClaimAt
<1> HIDE DEF r
<1>6. OthersStay(l) /\ at'[l] = x /\ load'[l] = r
  BY <1>1, <1>2, OnlyLoadMoves
<1>7. Claim(l)' = n
  <2>1. Claim(l)' = weight(load'[l].key)
    BY <1>3, <1>4, <1>6, ClaimNext
  <2> QED
    BY <1>4, <1>6, <2>1 DEF WeightOf
<1>8. ~Fits(n) => InLine(l)'
  BY <1>6 DEF InLine
<1> HIDE DEF n
<1>9. Books'
  BY <1>1, <1>3, <1>5, <1>6, <1>7, <1>8, BooksAcquire DEF BudgetInv
<1>10. AdmittedAt(r, x, LastReader(l))
  BY <1>3, <1>4 DEF AdmittedAt
<1>11. FlightInv'
  BY RunPreserves DEF Run, BudgetInv
<1> QED
  BY <1>1, <1>2, <1>9, <1>10, <1>11, LoadInv DEF Inside

\* A step of a load that leaves the budget and its share alone.
LEMMA BudgetOfLoadStays ==
  ASSUME BudgetInv, NEW l \in Loads, NEW x \in RunSteps, NEW r,
         at' = [at EXCEPT ![l] = x], load' = [load EXCEPT ![l] = r],
         UNCHANGED <<sem, gate, primed, callers>>,
         at[l] \notin BuildSteps, at[l] # "queue", x \notin BuildSteps, x # "queue",
         r.key = load[l].key, r.admitted = load[l].admitted,
         FlightInv', AdmittedAt(r, x, LastReader(l))
  PROVE  BudgetInv'
<1>1. OthersStay(l) /\ at'[l] = x /\ load'[l] = r /\ l \in Builders
  BY OnlyLoadMoves
<1>2. Claim(l)' = Claim(l)
  BY <1>1 DEF Claim, WeightOf, BuildSteps
<1>3. ~Queued(sem.queue, l)
  BY <1>1, ClaimAt DEF InLine, BuildSteps
<1>4. Books'
  BY <1>1, <1>2, <1>3, BooksStay DEF BudgetInv
<1> QED
  BY <1>4, LoadInv DEF Inside, BuildSteps

LEMMA BudgetAdmitted ==
  ASSUME BudgetInv, NEW l \in Loads, Admitted(l)
  PROVE  BudgetInv'
<1> USE DEF RunSteps
<1> DEFINE r == [load[l] EXCEPT !.phase = "admitted", !.admitted = TRUE]
<1>1. /\ at[l] = "queue" /\ UNCHANGED <<flights, sem, gate, primed, callers>>
      /\ at' = [at EXCEPT ![l] = "load"] /\ load' = [load EXCEPT ![l] = r]
      /\ ~Queued(sem.queue, l)
  BY DEF Admitted, Waits, Queued
<1>2. /\ load[l] \in sharedLoad /\ ~load[l].finished /\ l \in Builders /\ load[l].key \in Keys
  BY <1>1, RunningLoad, WeightRuns DEF BudgetInv
<1>3. r.key = load[l].key /\ r.finished = load[l].finished /\ r.admitted
  BY <1>2 DEF sharedLoad
<1> HIDE DEF r
<1>4. OthersStay(l) /\ at'[l] = "load" /\ load'[l] = r
  BY <1>1, OnlyLoadMoves
<1>5. Claim(l) = WeightOf(l) /\ Claim(l)' = WeightOf(l)
  BY <1>1, <1>2, <1>3, <1>4, ClaimAt, ClaimNext DEF WeightOf
<1>6. Books'
  BY <1>1, <1>2, <1>4, <1>5, BooksStay DEF BudgetInv
<1>7. AdmittedAt(r, "load", LastReader(l))
  BY <1>2, <1>3 DEF AdmittedAt
<1>8. FlightInv'
  BY RunPreserves DEF Run, BudgetInv
<1> QED
  BY <1>1, <1>6, <1>7, <1>8, LoadInv DEF Inside

LEMMA BudgetExpireInQueue ==
  ASSUME BudgetInv, NEW l \in Loads, ExpireInQueue(l)
  PROVE  BudgetInv'
<1> USE DEF RunSteps
<1> DEFINE r == [load[l] EXCEPT !.phase = "queued"]
<1>1. /\ UNCHANGED <<flights, gate, primed, callers>>
      /\ at' = [at EXCEPT ![l] = "finish"] /\ load' = [load EXCEPT ![l] = r]
      /\ \/ at[l] = "admission" /\ UNCHANGED sem
         \/ at[l] = "queue" /\ Cancel(l, WeightOf(l))
  BY DEF ExpireInQueue
<1>2. load[l] \in sharedLoad /\ l \in Builders /\ ~load[l].admitted
  BY <1>1, RunningLoad, ClaimAt DEF BudgetInv
<1>3. ~r.admitted
  BY <1>2 DEF sharedLoad
<1> HIDE DEF r
<1>4. OthersStay(l) /\ at'[l] = "finish" /\ load'[l] = r
  BY <1>1, OnlyLoadMoves
<1>5. Claim(l)' = 0
  BY <1>2, <1>3, <1>4, ClaimNext
<1>6. Books'
  <2>1. CASE at[l] = "admission" /\ UNCHANGED sem
    <3>1. Claim(l) = 0 /\ ~Queued(sem.queue, l)
      BY <1>2, <2>1, ClaimAt DEF InLine
    <3> QED
      BY <1>2, <1>4, <1>5, <2>1, <3>1, BooksStay DEF BudgetInv
  <2>2. CASE at[l] = "queue" /\ Cancel(l, WeightOf(l))
    <3>1. Claim(l) = WeightOf(l)
      BY <1>2, <2>2, ClaimAt
    <3> QED
      BY <1>2, <1>4, <1>5, <2>2, <3>1, BooksCancel DEF BudgetInv
  <2> QED
    BY <1>1, <2>1, <2>2
<1>7. AdmittedAt(r, "finish", LastReader(l))
  BY <1>3 DEF AdmittedAt
<1>8. FlightInv'
  BY RunPreserves DEF BudgetInv
<1> QED
  BY <1>1, <1>6, <1>7, <1>8, LoadInv DEF Inside

LEMMA BudgetRun ==
  ASSUME BudgetInv, NEW l \in Loads, Run(l)
  PROVE  BudgetInv'
<1> USE DEF RunSteps
<1>0. /\ FlightInv' /\ FlightInv /\ load[l] \in sharedLoad /\ l \in Builders
      /\ AdmittedAt(load[l], at[l], LastReader(l))
  BY RunPreserves, RunningLoad, AdmittedIs DEF BudgetInv
<1>1. CASE Prime(l)
  <2>1. PICK x \in {"admission", "gate"} : at' = [at EXCEPT ![l] = x]
    BY <1>1 DEF Prime
  <2> QED
    BY <1>0, <1>1, <2>1, BudgetQuiet DEF Prime, Inside
<1>2. CASE Admission(l)
  BY <1>2, BudgetAdmission
<1>3. CASE Admitted(l)
  BY <1>3, BudgetAdmitted
<1>4. CASE LoadEnds(l)
  <2>1. PICK r \in {load[l], [load[l] EXCEPT !.ok = TRUE]} : load' = [load EXCEPT ![l] = r]
    <3>1. load = [load EXCEPT ![l] = load[l]]
      BY <1>0, ClaimAt
    <3> QED
      BY <1>4, <3>1 DEF LoadEnds
  <2>2. /\ at' = [at EXCEPT ![l] = "finish"]
        /\ at[l] = "load" /\ UNCHANGED <<sem, gate, primed, callers>>
    BY <1>4 DEF LoadEnds
  <2>3. /\ r.key = load[l].key /\ r.admitted = load[l].admitted
        /\ r.finished = load[l].finished /\ r.refs = load[l].refs
    BY <1>0, <2>1 DEF sharedLoad
  <2>4. ~load[l].finished
    BY <1>0, <2>2, RunningLoad
  <2>5. AdmittedAt(r, "finish", LastReader(l))
    BY <1>0, <2>3, <2>4 DEF AdmittedAt
  <2> QED
    BY <1>0, <2>1, <2>2, <2>3, <2>5, BudgetOfLoadStays DEF BuildSteps
<1>5. CASE Finish(l)
  <2> DEFINE x == IF Orphan(l) THEN "orphan" ELSE "close"
             r == [load[l] EXCEPT !.finished = TRUE]
  <2>1. /\ at' = [at EXCEPT ![l] = x] /\ load' = [load EXCEPT ![l] = r]
        /\ at[l] = "finish" /\ UNCHANGED <<sem, gate, primed, callers>>
    BY <1>5 DEF Finish
  <2>2. r.key = load[l].key /\ r.admitted = load[l].admitted /\ r.refs = load[l].refs
    BY <1>0 DEF sharedLoad
  <2> HIDE DEF r
  <2>3. AdmittedAt(r, x, LastReader(l))
    BY <1>0, <2>2 DEF AdmittedAt, Orphan
  <2> QED
    BY <1>0, <2>1, <2>2, <2>3, BudgetOfLoadStays DEF BuildSteps
<1>6. CASE OrphanRelease(l)
  <2> DEFINE r == [load[l] EXCEPT !.admitted = FALSE]
  <2>1. /\ at' = [at EXCEPT ![l] = "close"] /\ load' = [load EXCEPT ![l] = r]
        /\ at[l] = "orphan" /\ UNCHANGED <<gate, primed, callers>>
        /\ \/ load[l].admitted /\ Release(WeightOf(l))
           \/ ~load[l].admitted /\ UNCHANGED sem
    BY <1>6 DEF OrphanRelease, releaseBudget
  <2>2. ~r.admitted
    BY <1>0 DEF sharedLoad
  <2> HIDE DEF r
  <2>3. OthersStay(l) /\ at'[l] = "close" /\ load'[l] = r
    BY <2>1, OnlyLoadMoves
  <2>4. Claim(l)' = 0 /\ ~Queued(sem.queue, l)
    BY <1>0, <2>1, <2>2, <2>3, ClaimAt, ClaimNext DEF InLine
  <2>5. Books'
    <3>1. CASE load[l].admitted /\ Release(WeightOf(l))
      BY <1>0, <2>3, <2>4, <3>1, ClaimAt, BooksRelease DEF BudgetInv
    <3>2. CASE ~load[l].admitted /\ UNCHANGED sem
      <4>1. Claim(l) = 0
        BY <2>1, <3>2 DEF Claim
      <4> QED
        BY <1>0, <2>3, <2>4, <3>2, <4>1, BooksStay DEF BudgetInv
    <3> QED
      BY <2>1, <3>1, <3>2
  <2>6. AdmittedAt(r, "close", LastReader(l))
    BY <2>2 DEF AdmittedAt
  <2> QED
    BY <1>0, <2>1, <2>5, <2>6, LoadInv DEF Inside
<1>7. CASE Close(l)
  <2> DEFINE r == [load[l] EXCEPT !.done = TRUE]
  <2>1. /\ at' = [at EXCEPT ![l] = "over"] /\ load' = [load EXCEPT ![l] = r]
        /\ at[l] = "close" /\ UNCHANGED <<sem, gate, primed, callers>>
    BY <1>7 DEF Close
  <2>2. /\ r.key = load[l].key /\ r.admitted = load[l].admitted
        /\ r.refs = load[l].refs /\ r.finished = load[l].finished
    BY <1>0 DEF sharedLoad
  <2>3. load[l].finished
    BY <1>0, <2>1, RunningLoad
  <2> HIDE DEF r
  <2>4. AdmittedAt(r, "over", LastReader(l))
    BY <1>0, <2>1, <2>2, <2>3 DEF AdmittedAt
  <2> QED
    BY <1>0, <2>1, <2>2, <2>4, BudgetOfLoadStays DEF BuildSteps
<1> QED
  BY <1>1, <1>2, <1>3, <1>4, <1>5, <1>6, <1>7 DEF Run

-----------------------------------------------------------------------------
(* The callers, and the budget. *)

\* A step of a caller that leaves the goroutines, the budget and the shares alone.
LEMMA CallerInv ==
  ASSUME BudgetInv, FlightInv', UNCHANGED <<at, gate, sem, primed>>,
         gaveUp' \in [Callers -> BOOLEAN],
         \A m \in Loads : load'[m].key = load[m].key /\ load'[m].admitted = load[m].admitted,
         \A m \in Loads : AdmittedAt(load'[m], at[m], LastReader(m)')
  PROVE  BudgetInv'
<1>1. \A b \in Builders : Claim(b)' = Claim(b)
  BY DEF Claim, WeightOf
<1>2. Books'
  BY <1>1 DEF BudgetInv, Books, Claims, WaitersInStep
<1>3. AdmittedInStep'
  BY DEF AdmittedInStep, AdmittedAt, LastReader
<1>4. GateIsHeld' /\ Rest'
  BY DEF BudgetInv, GateIsHeld, Rest, TypeOK
<1> QED
  BY <1>2, <1>3, <1>4, InvNext

\* The one that has to release is still there when somebody else moves.
LEMMA OthersRelease ==
  ASSUME FlightInv, NEW c \in Callers, NEW m,
         \A d \in Callers \ {c} : pc'[d] = pc[d] /\ mine'[d] = mine[d],
         pc[c] # "release" \/ mine[c] # m, LastReader(m)
  PROVE  LastReader(m)'
BY DEF LastReader

\* What is known of every load.
LEMMA LoadsAdmitted ==
  ASSUME BudgetInv
  PROVE  /\ FlightInv /\ load \in [Loads -> sharedLoad] /\ at \in [Builders -> RunSteps]
         /\ pc \in [Callers -> CallerSteps] /\ mine \in [Callers -> Loads \cup {NoLoad}]
         /\ gaveUp \in [Callers -> BOOLEAN] /\ primed \subseteq Keys
         /\ gate \in Builders \cup {Free}
         /\ \A m \in Loads : AdmittedAt(load[m], at[m], LastReader(m))
BY AdmittedIs DEF BudgetInv, TypeOK

LEMMA BudgetServed ==
  ASSUME BudgetInv, NEW c \in Callers, Served(c) \/ GiveUp(c)
  PROVE  BudgetInv'
<1>1. PICK y \in {"read", "failed"} : pc' = [pc EXCEPT ![c] = y]
  BY DEF Served, GiveUp
<1>2. /\ pc[c] = "wait" /\ UNCHANGED <<load, at, gate, sem, primed, mine>>
      /\ gaveUp' \in [Callers -> BOOLEAN]
  BY LoadsAdmitted DEF Served, GiveUp
<1>3. \A d \in Callers \ {c} : pc'[d] = pc[d] /\ mine'[d] = mine[d]
  BY <1>1, <1>2, LoadsAdmitted
<1>4. \A m \in Loads : LastReader(m) => LastReader(m)'
  BY <1>2, <1>3, LoadsAdmitted, OthersRelease
<1>5. \A m \in Loads : AdmittedAt(load'[m], at[m], LastReader(m)')
  BY <1>2, <1>4, LoadsAdmitted DEF AdmittedAt
<1>6. FlightInv'
  BY LoadsAdmitted, ServedPreserves
<1> QED
  BY <1>2, <1>5, <1>6, CallerInv

LEMMA BudgetJudge ==
  ASSUME BudgetInv, NEW c \in Callers, Judge(c)
  PROVE  BudgetInv'
<1>1. /\ pc[c] = "judge" /\ UNCHANGED <<load, at, gate, sem, primed>>
      /\ gaveUp' \in [Callers -> BOOLEAN]
      /\ \A d \in Callers \ {c} : pc'[d] = pc[d] /\ mine'[d] = mine[d]
  BY LoadsAdmitted DEF Judge
<1>2. \A m \in Loads : LastReader(m) => LastReader(m)'
  BY <1>1, LoadsAdmitted, OthersRelease
<1>3. \A m \in Loads : AdmittedAt(load'[m], at[m], LastReader(m)')
  BY <1>1, <1>2, LoadsAdmitted DEF AdmittedAt
<1>4. FlightInv'
  BY LoadsAdmitted, DropReleasePreserves
<1> QED
  BY <1>1, <1>3, <1>4, CallerInv

\* The last reference on a finished load goes: whoever drops it has to release.
LEMMA BudgetDrop ==
  ASSUME BudgetInv, NEW c \in Callers, Drop(c)
  PROVE  BudgetInv'
<1>1. PICK l \in Loads : l = mine[c]
  BY LoadsAdmitted, BusyCaller DEF Drop
<1> DEFINE r == [load[l] EXCEPT !.refs = @ - 1]
<1>2. /\ pc[c] \in {"failed", "read"} /\ UNCHANGED <<at, gate, sem, primed, gaveUp>>
      /\ load' = [load EXCEPT ![l] = r] /\ load[l] \in sharedLoad
      /\ \A d \in Callers \ {c} : pc'[d] = pc[d] /\ mine'[d] = mine[d]
  BY <1>1, LoadsAdmitted DEF Drop, Return
<1>3. /\ r.key = load[l].key /\ r.admitted = load[l].admitted /\ r.finished = load[l].finished
      /\ r.refs = load[l].refs - 1 /\ load[l].refs \in Nat
  BY <1>2 DEF sharedLoad
<1> HIDE DEF r
<1>4. /\ load'[l] = r /\ \A m \in Loads \ {l} : load'[m] = load[m]
  BY <1>2, LoadsAdmitted
<1>5. \A m \in Loads : LastReader(m) => LastReader(m)'
  BY <1>2, LoadsAdmitted, OthersRelease
<1>6. load[l].finished /\ r.refs = 0 => LastReader(l)'
  <2>1. load[l].finished /\ r.refs = 0 => LastDrop(l)
    BY <1>3 DEF LastDrop
  <2>2. LastDrop(l) => pc'[c] = "release" /\ mine'[c] = l
    BY <1>1, LoadsAdmitted DEF Drop
  <2> QED
    BY <2>1, <2>2 DEF LastReader
<1>7. \A m \in Loads : AdmittedAt(load'[m], at[m], LastReader(m)')
  <2>1. AdmittedAt(r, at[l], LastReader(l)')
    BY <1>3, <1>6, LoadsAdmitted DEF AdmittedAt
  <2>2. \A m \in Loads \ {l} : AdmittedAt(load[m], at[m], LastReader(m)')
    BY <1>5, LoadsAdmitted DEF AdmittedAt
  <2> QED
    BY <1>4, <2>1, <2>2
<1>8. \A m \in Loads : load'[m].key = load[m].key /\ load'[m].admitted = load[m].admitted
  BY <1>3, <1>4
<1>9. FlightInv'
  BY LoadsAdmitted, DropPreserves
<1> QED
  BY <1>2, <1>7, <1>8, <1>9, LoadsAdmitted, CallerInv

LEMMA BudgetJoin ==
  ASSUME BudgetInv, NEW c \in Callers, NEW k \in Keys, Join(c, k)
  PROVE  BudgetInv'
<1>1. PICK l \in Loads : l = flights[k]
  BY LoadsAdmitted DEF Join, FlightInv, Types
<1> DEFINE r == [load[l] EXCEPT !.refs = @ + 1]
<1>2. /\ pc[c] = "idle" /\ UNCHANGED <<at, gate, sem, primed, gaveUp>>
      /\ load' = [load EXCEPT ![l] = r] /\ load[l] \in sharedLoad
      /\ \A d \in Callers \ {c} : pc'[d] = pc[d] /\ mine'[d] = mine[d]
  BY <1>1, LoadsAdmitted DEF Join, Joined
<1>3. /\ r.key = load[l].key /\ r.admitted = load[l].admitted /\ r.finished = load[l].finished
      /\ r.refs # 0
  BY <1>2 DEF sharedLoad
<1> HIDE DEF r
<1>4. /\ load'[l] = r /\ \A m \in Loads \ {l} : load'[m] = load[m]
  BY <1>2, LoadsAdmitted
<1>5. \A m \in Loads : LastReader(m) => LastReader(m)'
  BY <1>2, LoadsAdmitted, OthersRelease
<1>6. \A m \in Loads : AdmittedAt(load'[m], at[m], LastReader(m)')
  <2>1. AdmittedAt(r, at[l], LastReader(l)')
    BY <1>3, LoadsAdmitted DEF AdmittedAt
  <2>2. \A m \in Loads \ {l} : AdmittedAt(load[m], at[m], LastReader(m)')
    BY <1>5, LoadsAdmitted DEF AdmittedAt
  <2> QED
    BY <1>4, <2>1, <2>2
<1>7. \A m \in Loads : load'[m].key = load[m].key /\ load'[m].admitted = load[m].admitted
  BY <1>3, <1>4
<1>8. FlightInv'
  BY LoadsAdmitted, JoinPreserves
<1> QED
  BY <1>2, <1>6, <1>7, <1>8, LoadsAdmitted, CallerInv

\* Nobody has a share of a load that is not referred to.
LEMMA BudgetStart ==
  ASSUME BudgetInv, NEW c \in Callers, NEW k \in Keys, NEW l \in Loads, StartLoad(c, k, l)
  PROVE  BudgetInv'
<1> DEFINE r == [NewLoad(k) EXCEPT !.refs = 1]
<1>1. /\ pc[c] = "idle" /\ UNCHANGED <<gate, sem, primed, gaveUp>>
      /\ at[l] = "over" /\ (\A d \in Callers : mine[d] # l) /\ l \in Builders
      /\ load' = [load EXCEPT ![l] = r] /\ at' = [at EXCEPT ![l] = "prime"]
      /\ \A d \in Callers \ {c} : pc'[d] = pc[d] /\ mine'[d] = mine[d]
  BY LoadsAdmitted DEF StartLoad, Unreferenced, Joined, Builders
<1>2. ~r.admitted
  BY DEF NewLoad
<1> HIDE DEF r
<1>3. OthersStay(l) /\ at'[l] = "prime" /\ load'[l] = r
      /\ \A m \in Loads \ {l} : at'[m] = at[m] /\ load'[m] = load[m]
  BY <1>1, OnlyLoadMoves, LoadsAdmitted DEF RunSteps, Builders
<1>4. ~load[l].admitted
  <2>1. Refs(l) = {}
    BY <1>1 DEF Refs
  <2>2. load[l].refs = 0
    BY <2>1, LoadsAdmitted, FS_EmptySet DEF FlightInv, RefsCounted
  <2> QED
    BY <1>1, <2>2, LoadsAdmitted DEF AdmittedAt, LastReader
<1>5. Claim(l) = 0 /\ ~Queued(sem.queue, l)
  BY <1>1, <1>4, ClaimAt DEF Claim, InLine
<1>6. Claim(l)' = 0
  BY <1>1, <1>2, <1>3, ClaimNext
<1>7. Books'
  BY <1>1, <1>3, <1>5, <1>6, BooksStay DEF BudgetInv
<1>8. \A m \in Loads : LastReader(m) => LastReader(m)'
  BY <1>1, LoadsAdmitted, OthersRelease
<1>9. \A m \in Loads : AdmittedAt(load'[m], at'[m], LastReader(m)')
  <2>1. AdmittedAt(r, "prime", LastReader(l)')
    BY <1>2 DEF AdmittedAt
  <2>2. \A m \in Loads \ {l} : AdmittedAt(load[m], at[m], LastReader(m)')
    BY <1>8, LoadsAdmitted DEF AdmittedAt
  <2> QED
    BY <1>3, <2>1, <2>2
<1>10. AdmittedInStep'
  BY <1>9 DEF AdmittedInStep, AdmittedAt, LastReader
<1>11. GateIsHeld'
  BY <1>1, GateStep DEF Inside, RunSteps
<1>12. FlightInv' /\ Rest'
  BY <1>1, LoadsAdmitted, StartLoadPreserves DEF Rest
<1> QED
  BY <1>7, <1>10, <1>11, <1>12, InvNext

\* The last reader gives the share back, once.
LEMMA BudgetDropRelease ==
  ASSUME BudgetInv, NEW c \in Callers, DropRelease(c)
  PROVE  BudgetInv'
<1>1. PICK l \in Loads : l = mine[c]
  BY LoadsAdmitted, BusyCaller DEF DropRelease
<1> DEFINE r == [load[l] EXCEPT !.admitted = FALSE]
<1>2. /\ pc[c] = "release" /\ UNCHANGED <<at, gate, primed, gaveUp>>
      /\ load' = [load EXCEPT ![l] = r] /\ load[l] \in sharedLoad /\ l \in Builders
      /\ \A d \in Callers \ {c} : pc'[d] = pc[d] /\ mine'[d] = mine[d]
      /\ \/ load[l].admitted /\ Release(WeightOf(l))
         \/ ~load[l].admitted /\ UNCHANGED sem
  BY <1>1, LoadsAdmitted DEF DropRelease, Return, releaseBudget, Builders
<1>3. ~r.admitted
  BY <1>2 DEF sharedLoad
<1> HIDE DEF r
<1>4. /\ load'[l] = r /\ \A m \in Loads \ {l} : load'[m] = load[m]
  BY <1>2, LoadsAdmitted
<1>5. OthersStay(l)
  BY <1>2, <1>4 DEF OthersStay
<1>6. at[l] \in {"orphan", "close", "over"}
  <2>1. load[l].finished
    BY <1>1, <1>2, LoadsAdmitted DEF FlightInv, CallersHaveLoads
  <2> QED
    BY <2>1, LoadsAdmitted DEF FlightInv, LoadsAreInStep, LoadInStep
<1>7. Claim(l)' = 0 /\ ~Queued(sem.queue, l)
  BY <1>2, <1>3, <1>4, <1>6, ClaimAt, ClaimNext DEF InLine
<1>8. Books'
  <2>1. CASE load[l].admitted /\ Release(WeightOf(l))
    BY <1>2, <1>5, <1>7, <2>1, ClaimAt, BooksRelease DEF BudgetInv
  <2>2. CASE ~load[l].admitted /\ UNCHANGED sem
    <3>1. Claim(l) = 0
      BY <1>6, <2>2 DEF Claim
    <3> QED
      BY <1>2, <1>5, <1>7, <2>2, <3>1, BooksStay DEF BudgetInv
  <2> QED
    BY <1>2, <2>1, <2>2
<1>9. \A m \in Loads \ {l} : LastReader(m) => LastReader(m)'
  BY <1>1, <1>2, LoadsAdmitted, OthersRelease
<1>10. \A m \in Loads : AdmittedAt(load'[m], at[m], LastReader(m)')
  <2>1. AdmittedAt(r, at[l], LastReader(l)')
    BY <1>3 DEF AdmittedAt
  <2>2. \A m \in Loads \ {l} : AdmittedAt(load[m], at[m], LastReader(m)')
    BY <1>9, LoadsAdmitted DEF AdmittedAt
  <2> QED
    BY <1>4, <2>1, <2>2
<1>11. AdmittedInStep' /\ GateIsHeld'
  BY <1>2, <1>10 DEF AdmittedInStep, AdmittedAt, LastReader, BudgetInv, GateIsHeld
<1>12. FlightInv' /\ Rest'
  BY <1>2, LoadsAdmitted, DropReleasePreserves DEF Rest
<1> QED
  BY <1>8, <1>11, <1>12, InvNext

-----------------------------------------------------------------------------
LEMMA BudgetInvInit == Init => BudgetInv
<1> SUFFICES ASSUME Init PROVE BudgetInv
  OBVIOUS
<1>1. /\ \A b \in Builders : at[b] = "over"
      /\ \A l \in Loads : ~load[l].admitted
      /\ sem = [cur |-> 0, queue |-> <<>>] /\ gate = Free
  BY DEF Init, NewLoad, Builders
<1>2. TypeOK
  BY <1>1 DEF Init, TypeOK, sharedLoad, NewLoad, RunSteps, CallerSteps
<1>3. Claims = [b \in Builders |-> 0]
  BY <1>1 DEF Claims, Claim
<1>4. Granted(Claims, <<>>) \in [Builders -> {0}]
  BY <1>3 DEF Granted
<1>5. Total(Granted(Claims, <<>>)) = 0
  BY <1>4, TotalZero
<1>6. Ledger(Claims, sem)
  BY <1>1, <1>3, <1>5, CapacityNat DEF Ledger
<1>7. HeadWaits(sem) /\ WaitersInStep
  BY <1>1 DEF HeadWaits, WaitersInStep, Queued
<1>8. AdmittedInStep /\ GateIsHeld
  BY <1>1, LoadsAssumption DEF AdmittedInStep, GateIsHeld
<1> QED
  BY <1>2, <1>6, <1>7, <1>8, FlightInvInit DEF BudgetInv, Books

LEMMA BudgetInvStep == BudgetInv /\ [Next]_vars => BudgetInv'
<1> SUFFICES ASSUME BudgetInv, [Next]_vars PROVE BudgetInv'
  OBVIOUS
<1>1. CASE UNCHANGED vars
  <2>1. FlightInv'
    BY <1>1, FlightInvStep DEF BudgetInv
  <2>2. UNCHANGED <<flights, load, at, gate, sem, primed, pc, mine, gaveUp>>
    BY <1>1 DEF vars
  <2>3. TypeOK' /\ AdmittedInStep' /\ GateIsHeld'
    BY <2>2 DEF BudgetInv, TypeOK, AdmittedInStep, GateIsHeld
  <2>4. \A b \in Builders : Claim(b)' = Claim(b)
    BY <2>2 DEF Claim, WeightOf
  <2>5. Books'
    BY <2>2, <2>4 DEF BudgetInv, Books, Claims, WaitersInStep
  <2> QED
    BY <2>1, <2>3, <2>5 DEF BudgetInv
<1>2. ASSUME NEW c \in Callers, Caller(c) \/ GiveUp(c) PROVE BudgetInv'
  BY <1>2, BudgetServed, BudgetDrop, BudgetDropRelease, BudgetJudge DEF Caller
<1>3. ASSUME NEW c \in Callers, NEW k \in Keys, Join(c, k) PROVE BudgetInv'
  BY <1>3, BudgetJoin
<1>4. ASSUME NEW c \in Callers, NEW k \in Keys, NEW l \in Loads, StartLoad(c, k, l)
      PROVE BudgetInv'
  BY <1>4, BudgetStart
<1>5. ASSUME NEW b \in Prewarms, Prewarm(b) PROVE BudgetInv'
  BY <1>5, BudgetPrewarm
<1>6. ASSUME NEW b \in Builders, Build(b) \/ ExpireBuild(b) PROVE BudgetInv'
  BY <1>6, BudgetBuild
<1>7. ASSUME NEW l \in Loads, Run(l) \/ ExpireInQueue(l) PROVE BudgetInv'
  BY <1>7, BudgetRun, BudgetExpireInQueue
<1> QED
  BY <1>1, <1>2, <1>3, <1>4, <1>5, <1>6, <1>7 DEF Next

\* When everybody is gone nobody has a claim, and nobody has a load to join.
LEMMA BudgetInvQuiet == BudgetInv => NothingLeaks
<1> SUFFICES ASSUME BudgetInv, Quiet
             PROVE  sem.cur = 0 /\ gate = Free /\ \A k \in Keys : flights[k] = NoLoad
  BY DEF NothingLeaks
<1>1. /\ \A c \in Callers : pc[c] = "idle"
      /\ \A b \in Builders : at[b] = "over"
      /\ Loads \subseteq Builders
  BY DEF Quiet, Builders
<1>2. \A l \in Loads : load[l].refs = 0
  <2>1. \A l \in Loads : Refs(l) = {}
    BY <1>1 DEF Refs
  <2> QED
    BY <2>1, LoadsAdmitted, FS_EmptySet DEF FlightInv, RefsCounted
<1>3. \A l \in Loads : ~load[l].admitted
  BY <1>1, <1>2, LoadsAdmitted DEF AdmittedAt, LastReader
<1>4. Claims = [b \in Builders |-> 0]
  BY <1>1, <1>3 DEF Claims, Claim
<1>5. Granted(Claims, sem.queue) \in [Builders -> {0}]
  BY <1>4 DEF Granted
<1>6. sem.cur = 0
  BY <1>5, TotalZero DEF BudgetInv, Books, Ledger
<1>7. gate = Free
  BY <1>1, LoadsAdmitted DEF BudgetInv, GateIsHeld
<1>8. ASSUME NEW k \in Keys PROVE flights[k] = NoLoad
  <2>1. flights[k] \in Loads \cup {NoLoad}
    BY LoadsAdmitted DEF FlightInv, Types
  <2> QED
    BY <1>1, <1>2, <2>1, LoadsAdmitted DEF FlightInv, FlightsAreLive, Running
<1> QED
  BY <1>6, <1>7, <1>8

\* The invariant of the gate and the budget holds in every reachable state.
THEOREM BudgetConsistent == Spec => []BudgetInv
BY BudgetInvInit, BudgetInvStep, PTL DEF Spec

\* Every variable has its type; the budget never goes below zero (releaseBudget and
\* buildCharge give back what was taken).
THEOREM TypeCorrect == Spec => []TypeOK
<1>1. BudgetInv => TypeOK
  BY DEF BudgetInv
<1> QED
  BY <1>1, BudgetConsistent, PTL

\* The semaphore has given away exactly what loads and builds hold, never more than
\* the capacity, and keeps nobody waiting for a share that is free (Acquire,
\* Release and notifyWaiters, with the deadlines of loadTypedShared).
THEOREM BudgetIsExact == Spec => []BudgetExact
<1>1. BudgetInv => BudgetExact
  BY BooksExact DEF BudgetInv
<1> QED
  BY <1>1, BudgetConsistent, PTL

\* With nobody left the budget is free, the gate is open and no load can be joined
\* (drop, the deferred function of run).
THEOREM NothingIsLeft == Spec => []NothingLeaks
BY BudgetInvQuiet, BudgetConsistent, PTL
=============================================================================
