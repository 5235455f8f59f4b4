---------------------------- MODULE SingleFlight ----------------------------
(***************************************************************************)
(* What golang.org/x/sync/singleflight promises for one key: callers that  *)
(* ask while the function runs share that run and all get its one outcome; *)
(* nobody waits without a run.  Cold clones (CloneDir) and token fetches   *)
(* (GitHubCall) go through it and implement this specification.            *)
(***************************************************************************)
CONSTANTS Callers

VARIABLES
  flight,  \* TRUE: the function runs (the key is in Group.m)
  call     \* what every caller has: nothing, a place in the run, its outcome

vars == <<flight, call>>
Outcomes == {"ok", "err"}

Init == flight = FALSE /\ call = [c \in Callers |-> "out"]

\* Do, DoChan: join the run, or start one.
Join(c) ==
  /\ call[c] = "out"
  /\ flight' = TRUE
  /\ call' = [call EXCEPT ![c] = "wait"]

\* doCall: the key is removed and the outcome goes to everybody who waits.
Finish ==
  /\ flight
  /\ flight' = FALSE
  /\ \E r \in Outcomes :
       call' = [c \in Callers |-> IF call[c] = "wait" THEN r ELSE call[c]]

\* The caller takes its outcome, or stops waiting; the run goes on.
Leave(c) ==
  /\ call[c] # "out"
  /\ call' = [call EXCEPT ![c] = "out"]
  /\ UNCHANGED flight

\* The process dies.
Restart == flight' = FALSE /\ call' = [c \in Callers |-> "out"]

Next == Finish \/ Restart \/ \E c \in Callers : Join(c) \/ Leave(c)
Spec == Init /\ [][Next]_vars
=============================================================================
