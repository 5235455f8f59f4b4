------------------------------ MODULE TypedLoad ------------------------------
(***************************************************************************)
(* Shared typed loads (callgraph/typed_load.go) and the gate of the export-*)
(* data builds (goanalysis/prime.go).  Callers that ask for one module     *)
(* share one load; a load first builds the module's export data behind a   *)
(* process-wide gate, then waits for its share of the memory budget, then  *)
(* runs; the share is given back when nobody reads the result any more.    *)
(* Loads outlive the callers that started them.  Prewarms are the builds   *)
(* of the eager warm at server start, behind the same gate and budget.     *)
(*                                                                         *)
(* The budget is a weighted FIFO semaphore (golang.org/x/sync/semaphore).  *)
(***************************************************************************)
EXTENDS Naturals, Sequences, FiniteSets, SequencesExt

CONSTANTS
  Keys,       \* flight keys: a module root with the fingerprint of its files
  Files,      \* [Keys -> Nat]: Go files of the module, in units of weight
  MinWeight,  \* minLoadWeight
  Reserve,    \* primeReserveBytes
  Capacity,   \* budget.capacity
  Callers,    \* goroutines in loadTypedShared
  Loads,      \* sharedLoad objects
  Prewarms,   \* goroutines of EagerWarmRepos
  NoLoad, NoKey, Free,
  MayExpire   \* TRUE: deadlines of callers, loads and prewarms may pass

Builders == Loads \cup Prewarms

ASSUME BudgetAssumption ==
  /\ Capacity \in Nat \ {0} /\ MinWeight \in Nat \ {0} /\ Reserve \in Nat \ {0}
  /\ Files \in [Keys -> Nat]
ASSUME LoadsAssumption ==
  /\ NoLoad \notin Loads /\ NoKey \notin Keys /\ Free \notin Builders
  /\ Loads \cap Prewarms = {} /\ MayExpire \in BOOLEAN
  /\ IsFiniteSet(Callers) /\ IsFiniteSet(Loads) /\ IsFiniteSet(Prewarms)

VARIABLES
  flights,   \* the map flights: the joinable load of a key
  load,      \* fields of every sharedLoad
  at,        \* step of every load's goroutine and of every prewarm
  gate,      \* exportGate: who builds export data
  sem,       \* the budget: what is taken and who waits, in order
  primed,    \* keys whose export data this process has built
  pc,        \* step of every caller
  mine,      \* the load a caller refers to
  gaveUp     \* the caller's deadline has passed

vars == <<flights, load, at, gate, sem, primed, pc, mine, gaveUp>>
callers == <<pc, mine, gaveUp>>

-----------------------------------------------------------------------------
(* Data. *)

Lesser(a, b) == IF a < b THEN a ELSE b
Greater(a, b) == IF a > b THEN a ELSE b

Mut_weight(k) == Greater(Files[k], MinWeight)
\* budget.weight: at least the minimum, at most the capacity, so that an
\* oversize module still runs, alone.
weight(k) == Lesser(Greater(Files[k], MinWeight), Capacity)
\* buildCharge
charge == Lesser(Reserve, Capacity)

\* "priming" .. "admitted" are the phases; ok: lr is set and err is not.
sharedLoad == [key : Keys \cup {NoKey}, refs : Nat, finished : BOOLEAN,
               done : BOOLEAN, phase : {"priming", "queued", "admitted"},
               admitted : BOOLEAN, ok : BOOLEAN]
NewLoad(k) == [key |-> k, refs |-> 0, finished |-> FALSE, done |-> FALSE,
               phase |-> "priming", admitted |-> FALSE, ok |-> FALSE]

\* "over" is a goroutine that is not there (yet, or any more).
RunSteps == {"prime", "gate", "reserve", "charge", "build", "admission", "queue",
             "load", "finish", "orphan", "close", "over"}
CallerSteps == {"idle", "wait", "failed", "read", "release", "judge"}
WeightOf(l) == weight(load[l].key)

-----------------------------------------------------------------------------
(* The semaphore. *)

\* The sum of the values of f, counted unit by unit.
Total(f) == Cardinality(UNION {{x} \X (1 .. f[x]) : x \in DOMAIN f})

\* What the first i waiters ask for.
Asked(queue, i) == Total([j \in 1 .. i |-> queue[j].n])
\* notifyWaiters: waiters get their share from the front until one does not fit.
Notified(s) ==
  LET k == CHOOSE i \in 0 .. Len(s.queue) :
             /\ s.cur + Asked(s.queue, i) <= Capacity
             /\ i < Len(s.queue) => s.cur + Asked(s.queue, i + 1) > Capacity
  IN [cur |-> s.cur + Asked(s.queue, k), queue |-> SubSeq(s.queue, k + 1, Len(s.queue))]

Fits(n) == sem.cur + n <= Capacity /\ sem.queue = <<>>
Waits(b) == \E i \in 1 .. Len(sem.queue) : sem.queue[i].who = b

\* Acquire: at once, or behind everybody who waits.
Acquire(b, n, waiting, holding) ==
  \/ /\ Fits(n)
     /\ sem' = [sem EXCEPT !.cur = @ + n]
     /\ at' = [at EXCEPT ![b] = holding]
  \/ /\ ~Fits(n)
     /\ sem' = [sem EXCEPT !.queue = Append(@, [who |-> b, n |-> n])]
     /\ at' = [at EXCEPT ![b] = waiting]
Release(n) == sem' = Notified([sem EXCEPT !.cur = @ - n])
Place(b) == CHOOSE i \in 1 .. Len(sem.queue) : sem.queue[i].who = b
Mut_Cancel(b, n) ==
  sem' = IF Waits(b) THEN Notified([sem EXCEPT !.queue = RemoveAt(@, Place(b))]) ELSE sem
\* The deadline passes in Acquire: out of the queue, where the others are notified
\* if the first one left; or the share that has just been granted goes back.
Cancel(b, n) ==
  \/ /\ Waits(b)
     /\ LET left == [sem EXCEPT !.queue = RemoveAt(@, Place(b))]
        IN sem' = IF Place(b) = 1 /\ sem.cur < Capacity THEN Notified(left) ELSE left
  \/ ~Waits(b) /\ Release(n)

-----------------------------------------------------------------------------
Init ==
  /\ flights = [k \in Keys |-> NoLoad]
  /\ load = [l \in Loads |-> NewLoad(NoKey)]
  /\ at = [b \in Builders |-> "over"]
  /\ gate = Free
  /\ sem = [cur |-> 0, queue |-> <<>>]
  /\ primed = {}
  /\ pc = [c \in Callers |-> "idle"]
  /\ mine = [c \in Callers |-> NoLoad]
  /\ gaveUp = [c \in Callers |-> FALSE]

-----------------------------------------------------------------------------
(* Callers (loadTypedShared). *)

Unreferenced(l) ==
  /\ at[l] = "over"
  /\ \A c \in Callers : mine[c] # l
  /\ \A k \in Keys : flights[k] # l

Joined(c, l) ==
  /\ pc' = [pc EXCEPT ![c] = "wait"]
  /\ mine' = [mine EXCEPT ![c] = l]
  /\ UNCHANGED <<gate, sem, primed, gaveUp>>

\* Under flightsMu: join the load of the key, or start one.
Join(c, k) ==
  /\ pc[c] = "idle"
  /\ flights[k] # NoLoad
  /\ load' = [load EXCEPT ![flights[k]].refs = @ + 1]
  /\ Joined(c, flights[k])
  /\ UNCHANGED <<flights, at>>
StartLoad(c, k, l) ==
  /\ pc[c] = "idle"
  /\ flights[k] = NoLoad /\ Unreferenced(l)
  /\ flights' = [flights EXCEPT ![k] = l]
  /\ load' = [load EXCEPT ![l] = [NewLoad(k) EXCEPT !.refs = 1]]
  /\ at' = [at EXCEPT ![l] = "prime"]
  /\ Joined(c, l)

\* done is closed.  A panic of the load is re-raised in the caller, like an error.
Served(c) ==
  /\ pc[c] = "wait" /\ load[mine[c]].done
  /\ pc' = [pc EXCEPT ![c] = IF load[mine[c]].ok THEN "read" ELSE "failed"]
  /\ UNCHANGED <<flights, load, at, gate, sem, primed, mine, gaveUp>>

\* The caller's deadline passes before done is closed.
GiveUp(c) ==
  /\ MayExpire
  /\ pc[c] = "wait" /\ ~load[mine[c]].done
  /\ pc' = [pc EXCEPT ![c] = "failed"]
  /\ gaveUp' = [gaveUp EXCEPT ![c] = TRUE]
  /\ UNCHANGED <<flights, load, at, gate, sem, primed, mine>>

Return(c) ==
  /\ pc' = [pc EXCEPT ![c] = IF gaveUp[c] THEN "judge" ELSE "idle"]
  /\ mine' = [mine EXCEPT ![c] = IF gaveUp[c] THEN @ ELSE NoLoad]

Mut_FirstDrop(l) == load[l].finished
Mut_LastDrop(l) == load[l].refs = 1
\* The reference that is being dropped is the last one of a finished load.
LastDrop(l) == load[l].refs = 1 /\ load[l].finished

Without(l) == [k \in Keys |-> IF flights[k] = l THEN NoLoad ELSE flights[k]]

\* drop, the part under flightsMu; a reader drops once, when it stops reading.
Drop(c) ==
  /\ pc[c] \in {"failed", "read"}
  /\ load' = [load EXCEPT ![mine[c]].refs = @ - 1]
  /\ \/ /\ LastDrop(mine[c])
        /\ flights' = Without(mine[c])
        /\ pc' = [pc EXCEPT ![c] = "release"]
        /\ UNCHANGED mine
     \/ ~LastDrop(mine[c]) /\ Return(c) /\ UNCHANGED flights
  /\ UNCHANGED <<at, gate, sem, primed, gaveUp>>

Mut_releaseBudget(l) ==
  Release(WeightOf(l)) /\ load' = [load EXCEPT ![l].admitted = FALSE]
\* releaseBudget: only what is held, and only once.
releaseBudget(l) ==
  /\ load' = [load EXCEPT ![l].admitted = FALSE]
  /\ \/ load[l].admitted /\ Release(WeightOf(l))
     \/ ~load[l].admitted /\ UNCHANGED sem

\* drop, the part after the unlock.
DropRelease(c) ==
  /\ pc[c] = "release"
  /\ releaseBudget(mine[c])
  /\ Return(c)
  /\ UNCHANGED <<flights, at, gate, primed, gaveUp>>

\* A caller that gave up looks at f.admitted to tell what it waited for.
Judge(c) ==
  /\ pc[c] = "judge"
  /\ pc' = [pc EXCEPT ![c] = "idle"]
  /\ mine' = [mine EXCEPT ![c] = NoLoad]
  /\ gaveUp' = [gaveUp EXCEPT ![c] = FALSE]
  /\ UNCHANGED <<flights, load, at, gate, sem, primed>>

Caller(c) == Served(c) \/ Drop(c) \/ DropRelease(c) \/ Judge(c)

-----------------------------------------------------------------------------
(* Export-data builds (PrimeExportData with buildCharge), for a load and   *)
(* for a prewarm.                                                          *)

\* primeExportData: nothing to build for a key that is primed.
Prime(l) ==
  /\ l \in Loads /\ at[l] = "prime"
  /\ at' = [at EXCEPT ![l] = IF load[l].key \in primed THEN "admission" ELSE "gate"]
  /\ UNCHANGED <<flights, load, gate, sem, primed, callers>>
Prewarm(b) ==
  /\ b \in Prewarms /\ at[b] = "over"
  /\ at' = [at EXCEPT ![b] = "gate"]
  /\ UNCHANGED <<flights, load, gate, sem, primed, callers>>

\* What is next when the deadline passes during the build phase, or after it.
Abandoned(b) == IF b \in Loads THEN "finish" ELSE "over"
Built(b) == IF b \in Loads THEN "admission" ELSE "over"

EnterGate(b) ==
  /\ at[b] = "gate" /\ gate = Free
  /\ gate' = b
  /\ at' = [at EXCEPT ![b] = "reserve"]
  /\ UNCHANGED <<flights, load, sem, primed, callers>>

\* The charge is taken inside the gate.
ReserveCharge(b) ==
  /\ at[b] = "reserve"
  /\ Acquire(b, charge, "charge", "build")
  /\ UNCHANGED <<flights, load, gate, primed, callers>>
ChargeGranted(b) ==
  /\ at[b] = "charge" /\ ~Waits(b)
  /\ at' = [at EXCEPT ![b] = "build"]
  /\ UNCHANGED <<flights, load, gate, sem, primed, callers>>

\* The build ends; charge and gate are given back.  A build that fails leaves
\* the key unprimed, and the load goes on all the same.
BuildEnds(b) ==
  /\ at[b] = "build"
  /\ Release(charge) /\ gate' = Free
  /\ primed' \in {primed, IF b \in Loads THEN primed \cup {load[b].key} ELSE primed}
  /\ at' = [at EXCEPT ![b] = Built(b)]
  /\ UNCHANGED <<flights, load, callers>>

\* The deadline of the load or the prewarm passes in the build phase.
ExpireAtGate(b) ==
  /\ MayExpire /\ at[b] = "gate"
  /\ at' = [at EXCEPT ![b] = Abandoned(b)]
  /\ UNCHANGED <<flights, load, gate, sem, primed, callers>>
ExpireInCharge(b) ==
  /\ MayExpire
  /\ \/ at[b] = "reserve" /\ UNCHANGED sem
     \/ at[b] = "charge" /\ Cancel(b, charge)
  /\ gate' = Free
  /\ at' = [at EXCEPT ![b] = Abandoned(b)]
  /\ UNCHANGED <<flights, load, primed, callers>>
ExpireInBuild(b) ==
  /\ MayExpire /\ at[b] = "build"
  /\ Release(charge) /\ gate' = Free
  /\ at' = [at EXCEPT ![b] = Abandoned(b)]
  /\ UNCHANGED <<flights, load, primed, callers>>

Build(b) == EnterGate(b) \/ ReserveCharge(b) \/ ChargeGranted(b) \/ BuildEnds(b)
ExpireBuild(b) == ExpireAtGate(b) \/ ExpireInCharge(b) \/ ExpireInBuild(b)

-----------------------------------------------------------------------------
(* The load's goroutine after the build (run). *)

\* Ask for the load's own share.
Admission(l) ==
  /\ at[l] = "admission"
  /\ Acquire(l, WeightOf(l), "queue", "load")
  /\ load' = [load EXCEPT ![l].phase = IF Fits(WeightOf(l)) THEN "admitted" ELSE "queued",
                          ![l].admitted = Fits(WeightOf(l))]
  /\ UNCHANGED <<flights, gate, primed, callers>>
Admitted(l) ==
  /\ at[l] = "queue" /\ ~Waits(l)
  /\ at' = [at EXCEPT ![l] = "load"]
  /\ load' = [load EXCEPT ![l].phase = "admitted", ![l].admitted = TRUE]
  /\ UNCHANGED <<flights, gate, sem, primed, callers>>
ExpireInQueue(l) ==
  /\ MayExpire
  /\ \/ at[l] = "admission" /\ UNCHANGED sem
     \/ at[l] = "queue" /\ Cancel(l, WeightOf(l))
  /\ at' = [at EXCEPT ![l] = "finish"]
  /\ load' = [load EXCEPT ![l].phase = "queued"]
  /\ UNCHANGED <<flights, gate, primed, callers>>

\* LoadPackages returns a result or an error, or panics.
LoadEnds(l) ==
  /\ at[l] = "load"
  /\ at' = [at EXCEPT ![l] = "finish"]
  /\ load' \in {load, [load EXCEPT ![l].ok = TRUE]}
  /\ UNCHANGED <<flights, gate, sem, primed, callers>>

Mut_Orphan(l) == FALSE
Orphan(l) == load[l].refs = 0
\* The deferred function, the part under flightsMu.
Finish(l) ==
  /\ at[l] = "finish"
  /\ load' = [load EXCEPT ![l].finished = TRUE]
  /\ flights' = IF Orphan(l) THEN Without(l) ELSE flights
  /\ at' = [at EXCEPT ![l] = IF Orphan(l) THEN "orphan" ELSE "close"]
  /\ UNCHANGED <<gate, sem, primed, callers>>
\* Nobody will read the result of an orphan.
OrphanRelease(l) ==
  /\ at[l] = "orphan"
  /\ releaseBudget(l)
  /\ at' = [at EXCEPT ![l] = "close"]
  /\ UNCHANGED <<flights, gate, primed, callers>>
Close(l) ==
  /\ at[l] = "close"
  /\ load' = [load EXCEPT ![l].done = TRUE]
  /\ at' = [at EXCEPT ![l] = "over"]
  /\ UNCHANGED <<flights, gate, sem, primed, callers>>

Run(l) ==
  \/ Prime(l) \/ Admission(l) \/ Admitted(l) \/ LoadEnds(l)
  \/ Finish(l) \/ OrphanRelease(l) \/ Close(l)

-----------------------------------------------------------------------------
Next ==
  \/ \E c \in Callers : Caller(c) \/ GiveUp(c)
  \/ \E c \in Callers, k \in Keys : Join(c, k)
  \/ \E c \in Callers, k \in Keys, l \in Loads : StartLoad(c, k, l)
  \/ \E b \in Prewarms : Prewarm(b)
  \/ \E b \in Builders : Build(b) \/ ExpireBuild(b)
  \/ \E l \in Loads : Run(l) \/ ExpireInQueue(l)

Spec == Init /\ [][Next]_vars

\* Every goroutine goes on: builds, loads and readers take finite time.  Calls and
\* prewarms need not come, deadlines need not pass.
Fairness ==
  /\ \A c \in Callers : WF_vars(Caller(c))
  /\ \A b \in Builders : WF_vars(Build(b))
  /\ \A b \in Builders : SF_vars(EnterGate(b))
  /\ \A l \in Loads : WF_vars(Run(l))
FairSpec == Spec /\ Fairness

-----------------------------------------------------------------------------
(* Properties. *)

\* Every variable has its type.
TypeOK ==
  /\ flights \in [Keys -> Loads \cup {NoLoad}]
  /\ load \in [Loads -> sharedLoad]
  /\ at \in [Builders -> RunSteps]
  /\ gate \in Builders \cup {Free}
  /\ sem \in [cur : Nat, queue : Seq([who : Builders, n : Nat])]
  /\ primed \subseteq Keys
  /\ pc \in [Callers -> CallerSteps]
  /\ mine \in [Callers -> Loads \cup {NoLoad}]
  /\ gaveUp \in [Callers -> BOOLEAN]

\* What a goroutine has taken of the budget: the share of an admitted load until
\* releaseBudget, the charge of a build, or a share just granted.
Held(b) ==
  IF b \in Loads /\ (load[b].admitted \/ (at[b] = "queue" /\ ~Waits(b)))
  THEN WeightOf(b)
  ELSE IF at[b] = "build" \/ (at[b] = "charge" /\ ~Waits(b)) THEN charge ELSE 0
\* The budget is exactly what loads and builds hold and never more than its
\* capacity: no share is given back twice, or by somebody who has none, or never
\* (releaseBudget, buildCharge, Acquire after a deadline); and nobody waits for a
\* share that is free (notifyWaiters).
BudgetExact ==
  /\ sem.cur <= Capacity /\ sem.cur = Total([b \in Builders |-> Held(b)])
  /\ sem.queue # <<>> => sem.cur + sem.queue[1].n > Capacity

\* The arena of a result is accounted for until its last reader is done
\* (drop, releaseBudget).
ReadersHoldBudget ==
  \A c \in Callers : pc[c] = "read" => load[mine[c]].admitted /\ load[mine[c]].ok

Running(l) == at[l] # "over" /\ ~load[l].finished
\* No second load of a module is started while one is alive: the running load of
\* a key is the one its callers would join (loadTypedShared).
OneLoadPerKey == \A l \in Loads : Running(l) => flights[load[l].key] = l

Quiet == (\A c \in Callers : pc[c] = "idle") /\ (\A b \in Builders : at[b] = "over")
\* When nobody uses it the whole budget is free and nothing can be joined
\* (the two halves of drop, the deferred function of run).
NothingLeaks == Quiet => sem.cur = 0 /\ gate = Free /\ \A k \in Keys : flights[k] = NoLoad

\* A caller joins a load that has finished and is still being read.
JoinsFinished == \E c \in Callers, k \in Keys : Join(c, k) /\ load[flights[k]].finished
\* Gate and budget never wait for each other: even if no deadline ever passes,
\* every caller gets its result or its error (weight and charge are clamped to
\* the capacity, a queued build holds nothing, the budget is a FIFO); unless
\* readers relieve each other for ever at a finished load, whose budget is
\* then never given back.
EveryCallerIsServed ==
  \/ []<><<JoinsFinished>>_vars
  \/ \A c \in Callers : pc[c] = "wait" ~> pc[c] # "wait"

=============================================================================
