----------------------------- MODULE GitHubCall -----------------------------
(***************************************************************************)
(* Requests to the GitHub API: the attempts of doGitHubRequest             *)
(* (forge/github_search_retry.go), each of which takes an installation     *)
(* token first (appRoundTripper and AppTokenSource, forge/githubapp.go).   *)
(* The token is fetched by one caller for all, under that caller's         *)
(* context: its cancellation and its deadline are everybody's.             *)
(*                                                                         *)
(* The clock counts units of the leeway in which a token is replaced       *)
(* before it expires; the steps of the program take no time against it,    *)
(* so the clock only moves when all callers are at the network or asleep.  *)
(***************************************************************************)
EXTENDS Naturals, FiniteSets

CONSTANTS
  Callers,
  NoCaller,
  MaxRetries,  \* RetryConfig.MaxRetries
  Leeway,      \* refreshLeeway
  Life,        \* what the server gives a token
  MaxNow       \* bound: the clock

ASSUME CallAssumption ==
  /\ NoCaller \notin Callers
  /\ MaxRetries \in Nat /\ Leeway \in Nat /\ MaxNow \in Nat
  /\ Life \in Nat /\ Life > Leeway

VARIABLES
  now,
  cached,   \* AppTokenSource.token, named by the time it expires; 0: none
  fetch,    \* step of the function that singleflight runs, "none"
  leader,   \* the caller whose context it runs under
  pc, attempt, cancelled,  \* a request: step, loop counter, its client is gone
  got       \* the token a caller has, or why it has none

source == <<cached, fetch, leader>>
requests == <<pc, attempt, cancelled, got>>
vars == <<now, source, requests>>

Errors == {"auth", "transient", "timeout", "cancelled"}
Token(e) == [exp |-> e, err |-> "none"]
Failure(k) == [exp |-> 0, err |-> k]
\* Steps between two calls of the network: they take no time.
Prompt == {"begin", "token", "do", "ok", "err", "send"}

Init ==
  /\ now = 0 /\ cached = 0 /\ fetch = "none" /\ leader = NoCaller
  /\ pc = [c \in Callers |-> "idle"]
  /\ attempt = [c \in Callers |-> 0]
  /\ cancelled = [c \in Callers |-> FALSE]
  /\ got = [c \in Callers |-> Token(0)]

Tick ==
  /\ now < MaxNow /\ fetch # "check" /\ \A c \in Callers : pc[c] \notin Prompt
  /\ now' = now + 1
  /\ UNCHANGED <<source, requests>>

-----------------------------------------------------------------------------
(* doGitHubRequest. *)

Goto(c, step) == pc' = [pc EXCEPT ![c] = step]

\* A client asks; it may leave at any time.
Request(c) ==
  /\ pc[c] = "idle"
  /\ Goto(c, "begin")
  /\ attempt' = [attempt EXCEPT ![c] = 0]
  /\ cancelled' = [cancelled EXCEPT ![c] = FALSE]
  /\ UNCHANGED <<now, source, got>>

Cancel(c) ==
  /\ pc[c] # "idle" /\ ~cancelled[c]
  /\ cancelled' = [cancelled EXCEPT ![c] = TRUE]
  /\ UNCHANGED <<now, source, pc, attempt, got>>

\* The top of the loop; http.Client asks the transport, which asks for a token.
Begin(c) ==
  /\ pc[c] = "begin"
  /\ Goto(c, IF cancelled[c] THEN "idle" ELSE "token")
  /\ UNCHANGED <<now, source, attempt, cancelled, got>>

\* Mutant: off by one.
Mut_Retry(c) == attempt[c] <= MaxRetries
\* There is an attempt left (the loop's condition).
Retry(c) == attempt[c] < MaxRetries

\* An error of the client: only a timeout is tried again.
AfterError(c, err) == IF err = "timeout" /\ Retry(c) THEN "wait" ELSE "idle"

\* The outcome of Token.
NoToken(c) ==
  /\ pc[c] = "err"
  /\ Goto(c, AfterError(c, got[c].err))
  /\ UNCHANGED <<now, source, attempt, cancelled, got>>

Send(c) ==
  /\ pc[c] \in {"ok", "send"}
  /\ Goto(c, "sent")
  /\ UNCHANGED <<now, source, attempt, cancelled, got>>

\* What comes back.  A rate limit with a short wait goes on whatever the attempt.
Answer(c) ==
  /\ pc[c] = "sent"
  /\ \/ Goto(c, "idle")             \* 200, or an error that is final
     \/ \E err \in {"timeout", "transient"} : Goto(c, AfterError(c, err))
     \/ cancelled[c] /\ Goto(c, AfterError(c, "cancelled"))
     \/ Goto(c, "wait")             \* 403, 429 with a date to wait for
     \/ Retry(c) /\ Goto(c, "wait")  \* 408, 429, 5xx
  /\ UNCHANGED <<now, source, attempt, cancelled, got>>

\* Mutant: a wait does not count as an attempt.
Mut_WaitOver(c) ==
  /\ pc[c] = "wait"
  /\ Goto(c, IF cancelled[c] \/ ~Retry(c) THEN "idle" ELSE "begin")
  /\ UNCHANGED <<now, source, attempt, cancelled, got>>

\* waitOrDone, and back to the loop's head.
WaitOver(c) ==
  /\ pc[c] = "wait"
  /\ \/ Retry(c) /\ Goto(c, "begin") /\ attempt' = [attempt EXCEPT ![c] = @ + 1]
     \/ ~Retry(c) /\ Goto(c, "idle") /\ UNCHANGED attempt
     \/ cancelled[c] /\ Goto(c, "idle") /\ UNCHANGED attempt
  /\ UNCHANGED <<now, source, cancelled, got>>
-----------------------------------------------------------------------------
(* AppTokenSource.Token. *)

\* cachedToken: there is one, and it is not about to expire.
Fresh == cached # 0 /\ now + Leeway < cached

Lookup(c) ==
  /\ pc[c] = "token"
  /\ IF Fresh
     THEN Goto(c, "send") /\ got' = [got EXCEPT ![c] = Token(cached)]
     ELSE Goto(c, "do") /\ UNCHANGED got
  /\ UNCHANGED <<now, source, attempt, cancelled>>

\* singleflight.Do: lead the fetch or wait for it, whatever becomes of the
\* caller's own context.
Do(c) ==
  /\ pc[c] = "do"
  /\ Goto(c, "fly")
  /\ IF fetch = "none" THEN fetch' = "check" /\ leader' = c
                       ELSE UNCHANGED <<fetch, leader>>
  /\ UNCHANGED <<now, cached, attempt, cancelled, got>>

\* Mutant: who waited is not told.
Mut_Landed == {leader}
\* doCall: the outcome goes to the leader and to all who wait.
Landed == {c \in Callers : pc[c] = "fly"}
Land(r) ==
  /\ fetch' = "none" /\ leader' = NoCaller
  /\ pc' = [c \in Callers |->
              IF c \in Landed THEN IF r.err = "none" THEN "ok" ELSE "err" ELSE pc[c]]
  /\ got' = [c \in Callers |-> IF c \in Landed THEN r ELSE got[c]]
  /\ UNCHANGED <<now, attempt, cancelled>>

\* Mutant: no second look.
Mut_Check ==
  /\ fetch = "check" /\ fetch' = "post"
  /\ UNCHANGED <<now, cached, leader, requests>>
\* Somebody may have fetched one since the lookup.
Check ==
  /\ fetch = "check"
  /\ IF Fresh
     THEN Land(Token(cached)) /\ UNCHANGED cached
     ELSE fetch' = "post" /\ UNCHANGED <<now, cached, leader, requests>>

\* postAccessTokens, at most twice.
Fetched ==
  /\ fetch \in {"post", "again"}
  /\ cached' = now + Life
  /\ Land(Token(now + Life))

\* Mutants: the old token is served after its time, or never.
Mut_Unless(k) == IF cached # 0 THEN Token(cached) ELSE Failure(k)
Mut_NoOldToken(k) == Failure(k)
\* The fetch fails: the old token is served as long as it has not expired.
Unless(k) == IF cached # 0 /\ now < cached THEN Token(cached) ELSE Failure(k)
Refused ==
  /\ \/ fetch \in {"post", "again"} /\ Land(Unless("auth"))
     \/ fetch = "again" /\ Land(Unless("transient"))
  /\ UNCHANGED cached
Backoff ==
  /\ fetch = "post" /\ fetch' = "backoff"
  /\ UNCHANGED <<now, cached, leader, requests>>
Again ==
  /\ fetch = "backoff" /\ fetch' = "again"
  /\ UNCHANGED <<now, cached, leader, requests>>
\* The attempt of the leader is over, or its client has gone.
Cut ==
  /\ fetch \in {"post", "backoff", "again"}
  /\ \/ Land(Unless("timeout"))
     \/ cancelled[leader] /\ Land(Unless("cancelled"))
  /\ UNCHANGED cached

-----------------------------------------------------------------------------

Fetch == Check \/ Fetched \/ Refused \/ Backoff \/ Again \/ Cut
Step(c) ==
  Begin(c) \/ NoToken(c) \/ Send(c) \/ Answer(c) \/ WaitOver(c) \/ Lookup(c) \/ Do(c)
Next == Tick \/ Fetch \/ \E c \in Callers : Request(c) \/ Cancel(c) \/ Step(c)

Spec == Init /\ [][Next]_vars
\* The network answers or the attempt times out, and goroutines go on; clients
\* and the clock owe nothing.
FairSpec == Spec /\ WF_vars(Fetch) /\ \A c \in Callers : WF_vars(Step(c))

-----------------------------------------------------------------------------
(* Properties. *)

\* Types; the leader is one of those who wait, and the loop keeps to its bound.
TypeOK ==
  /\ now \in 0..MaxNow
  /\ cached \in 0..(MaxNow + Life)
  /\ fetch \in {"none", "check", "post", "backoff", "again"}
  /\ leader \in Callers \cup {NoCaller}
  /\ (fetch = "none") <=> (leader = NoCaller)
  /\ leader \in Callers => pc[leader] = "fly"
  /\ pc \in [Callers -> Prompt \cup {"idle", "fly", "sent", "wait"}]
  /\ attempt \in [Callers -> 0..MaxRetries]
  /\ cancelled \in [Callers -> BOOLEAN]
  /\ got \in [Callers -> [exp : 0..(MaxNow + Life), err : Errors \cup {"none"}]]

\* No request goes out with a token that has expired, whether it was cached, came
\* from another caller's fetch or was served because the fetch failed; a caller
\* goes without only when there is none (Token).
LiveTokens ==
  \A c \in Callers : pc[c] \in {"ok", "send"} => now < got[c].exp

\* A token is only replaced when it is about to expire: callers that found it old
\* while another fetched do not fetch again (the double check of Token).
NoFreshTokenReplaced == [][cached' # cached => ~Fresh]_cached

\* No caller is told that the fetch failed while the cached token still works.
FailsOnlyWithoutToken ==
  [][\A c \in Callers : pc[c] # "err" /\ pc'[c] = "err" => now >= cached]_vars

\* The token source is the singleflight of its callers: one fetch at a time, whose
\* outcome goes to all of them.
Flight == INSTANCE SingleFlight WITH
  flight <- fetch # "none",
  call <- [c \in Callers |-> IF pc[c] = "fly" THEN "wait"
                             ELSE IF pc[c] \in {"ok", "err"} THEN pc[c] ELSE "out"]
ImplementsSingleFlight == Flight!Spec

\* Every request comes to an end: rate limits, timeouts, cancelled leaders and
\* failing fetches together cannot keep it in its loop.
EveryRequestEnds == \A c \in Callers : pc[c] # "idle" ~> pc[c] = "idle"
=============================================================================
