-------------------------- MODULE GitHubCallProofs --------------------------
(***************************************************************************)
(* What holds of GitHubCall for every set of callers and every bound.      *)
(***************************************************************************)
EXTENDS GitHubCall, TLAPS

\* A fetch past its check runs because no fresh token is cached; time does not
\* make one fresh.  A caller that has been told "ok" or has looked a token up has
\* one that works: no clock tick comes between.
FetchNeeded == fetch \in {"post", "backoff", "again"} => ~Fresh
Inv == TypeOK /\ FetchNeeded /\ LiveTokens

USE CallAssumption

-----------------------------------------------------------------------------

LEMMA InitInv == Init => Inv
BY DEF Init, Inv, TypeOK, FetchNeeded, LiveTokens, Token, Prompt

\* What the end of a fetch does: an outcome of the right type that, when it is a
\* token, has not expired.
LEMMA LandInv ==
  ASSUME Inv, fetch # "none", cached' \in 0..(MaxNow + Life), cached' = cached \/ cached' = now + Life,
         NEW r \in [exp : 0..(MaxNow + Life), err : Errors \cup {"none"}],
         r.err = "none" => now < r.exp, Land(r)
  PROVE  Inv'
<1>1. TypeOK'
  BY DEF Inv, TypeOK, Land, Landed, Prompt
<1>2. FetchNeeded'
  BY DEF Land, FetchNeeded
<1>3. LiveTokens'
  BY DEF Inv, TypeOK, Land, Landed, LiveTokens, Prompt
<1>. QED BY <1>1, <1>2, <1>3 DEF Inv

LEMMA UnlessLive ==
  ASSUME Inv, NEW k \in Errors
  PROVE  /\ Unless(k) \in [exp : 0..(MaxNow + Life), err : Errors \cup {"none"}]
         /\ Unless(k).err = "none" => now < Unless(k).exp
         /\ Unless(k).err # "none" => now >= cached
BY DEF Inv, TypeOK, Unless, Token, Failure, Errors

LEMMA FetchInv == Inv /\ Fetch => Inv'
<1>. SUFFICES ASSUME Inv, Fetch PROVE Inv'
  OBVIOUS
<1>1. CASE Check
  <2>1. CASE Fresh
    <3>1. Token(cached) \in [exp : 0..(MaxNow + Life), err : Errors \cup {"none"}] /\ now < cached
      BY <2>1 DEF Fresh, Token, Inv, TypeOK
    <3>. QED BY <1>1, <2>1, <3>1, LandInv DEF Check, Token, Inv, TypeOK
  <2>2. CASE ~Fresh
    BY <1>1, <2>2 DEF Check, Inv, TypeOK, FetchNeeded, LiveTokens, Fresh, requests, Prompt
  <2>. QED BY <2>1, <2>2
<1>2. CASE Fetched
  <2>1. now + Life \in 0..(MaxNow + Life) /\ now < now + Life
    BY DEF Inv, TypeOK
  <2>2. Token(now + Life) \in [exp : 0..(MaxNow + Life), err : Errors \cup {"none"}]
    BY <2>1 DEF Token
  <2>. QED BY <1>2, <2>1, <2>2, LandInv DEF Fetched, Token
<1>3. CASE Refused
  BY <1>3, UnlessLive, LandInv DEF Refused, Errors, Inv, TypeOK
<1>4. CASE Backoff \/ Again
  BY <1>4 DEF Backoff, Again, Inv, TypeOK, FetchNeeded, LiveTokens, Fresh, requests, Prompt
<1>5. CASE Cut
  BY <1>5, UnlessLive, LandInv DEF Cut, Errors, Inv, TypeOK
<1>. QED BY <1>1, <1>2, <1>3, <1>4, <1>5 DEF Fetch

LEMMA CallerInv ==
  ASSUME NEW c \in Callers, Inv, Request(c) \/ Cancel(c) \/ Step(c)
  PROVE  Inv'
<1>. USE DEF Inv, TypeOK, FetchNeeded, LiveTokens, Fresh, source, Goto, Prompt
<1>1. CASE Request(c)  BY <1>1 DEF Request
<1>2. CASE Cancel(c)   BY <1>2 DEF Cancel
<1>3. CASE Begin(c)    BY <1>3 DEF Begin
<1>4. CASE NoToken(c)  BY <1>4 DEF NoToken, AfterError
<1>5. CASE Send(c)     BY <1>5 DEF Send
<1>6. CASE Answer(c)   BY <1>6 DEF Answer, AfterError
<1>7. CASE WaitOver(c) BY <1>7 DEF WaitOver, Retry
<1>8. CASE Lookup(c)   BY <1>8 DEF Lookup, Token
<1>9. CASE Do(c)       BY <1>9 DEF Do
<1>. QED BY <1>1, <1>2, <1>3, <1>4, <1>5, <1>6, <1>7, <1>8, <1>9 DEF Step

LEMMA NextInv == Inv /\ [Next]_vars => Inv'
<1>. SUFFICES ASSUME Inv, [Next]_vars PROVE Inv'
  OBVIOUS
<1>1. CASE Tick
  BY <1>1 DEF Tick, Inv, TypeOK, FetchNeeded, LiveTokens, Fresh, source, requests, Prompt
<1>2. CASE UNCHANGED vars
  BY <1>2 DEF vars, source, requests, Inv, TypeOK, FetchNeeded, LiveTokens, Fresh
<1>. QED BY <1>1, <1>2, FetchInv, CallerInv DEF Next

THEOREM SpecInv == Spec => []Inv
BY InitInv, NextInv, PTL DEF Spec

\* Types, the loop's bound, and that the leader is one of those who wait.
THEOREM TypeCorrect == Spec => []TypeOK
BY SpecInv, PTL DEF Inv

\* No request goes out with an expired token.
THEOREM TokensAreLive == Spec => []LiveTokens
BY SpecInv, PTL DEF Inv

\* Callers that found the token old while another fetched do not fetch again.
THEOREM OneFetchPerToken == Spec => NoFreshTokenReplaced
<1>1. Inv /\ [Next]_vars => [cached' # cached => ~Fresh]_cached
  <2>. SUFFICES ASSUME Inv, [Next]_vars, cached' # cached PROVE ~Fresh
    OBVIOUS
  <2>1. Fetched
    BY DEF Next, Tick, Fetch, Check, Refused, Backoff, Again, Cut, Step, Request, Cancel,
       Begin, NoToken, Send, Answer, WaitOver, Lookup, Do, vars, source
  <2>. QED BY <2>1 DEF Fetched, Inv, FetchNeeded
<1>. QED BY <1>1, SpecInv, PTL DEF Spec, NoFreshTokenReplaced

\* Nobody is told that the fetch failed while the cached token still works.
THEOREM FailureMeansNoToken == Spec => FailsOnlyWithoutToken
<1>1. Inv /\ [Next]_vars =>
        [\A c \in Callers : pc[c] # "err" /\ pc'[c] = "err" => now >= cached]_vars
  <2>. SUFFICES ASSUME Inv, [Next]_vars, NEW c \in Callers, pc[c] # "err", pc'[c] = "err"
                PROVE  now >= cached
    BY DEF Inv
  <2>1. Refused \/ Cut
    <3>1. ~(Tick \/ Backoff \/ Again \/ UNCHANGED vars)
      BY DEF Tick, Backoff, Again, vars, requests
    <3>2. ~(Check \/ Fetched)
      BY DEF Check, Fetched, Land, Token, requests
    <3>3. ASSUME NEW d \in Callers, Request(d) \/ Cancel(d) \/ Step(d) PROVE FALSE
      BY <3>3 DEF Step, Request, Cancel, Begin, NoToken, Send, Answer, WaitOver, Lookup, Do,
         Goto, AfterError, Inv, TypeOK
    <3>. QED BY <3>1, <3>2, <3>3 DEF Next, Fetch
  <2>2. PICK k \in Errors : Land(Unless(k))
    BY <2>1 DEF Refused, Cut, Errors
  <2>3. Unless(k).err # "none"
    BY <2>2 DEF Land
  <2>. QED BY <2>3, UnlessLive
<1>. QED BY <1>1, SpecInv, PTL DEF Spec, FailsOnlyWithoutToken

-----------------------------------------------------------------------------
(* The token source implements SingleFlight. *)

Calls == [c \in Callers |-> IF pc[c] = "fly" THEN "wait"
                            ELSE IF pc[c] \in {"ok", "err"} THEN pc[c] ELSE "out"]

LEMMA FlightInit == Init => Flight!Init
BY DEF Init, Flight!Init

LEMMA LandFinishes ==
  ASSUME Inv, fetch # "none", NEW r, Land(r)
  PROVE  Flight!Finish
<1>1. Calls' = [c \in Callers |-> IF Calls[c] = "wait" THEN IF r.err = "none" THEN "ok" ELSE "err"
                                  ELSE Calls[c]]
  BY DEF Land, Landed, Calls, Inv, TypeOK
<1>. QED BY <1>1 DEF Flight!Finish, Flight!Outcomes, Land, Calls

LEMMA FlightNext == Inv /\ [Next]_vars => [Flight!Next]_Flight!vars
<1>. SUFFICES ASSUME Inv, [Next]_vars PROVE [Flight!Next]_Flight!vars
  OBVIOUS
<1>1. CASE Tick \/ Backoff \/ Again \/ UNCHANGED vars
  BY <1>1 DEF Tick, Backoff, Again, vars, source, requests, Flight!vars
<1>2. CASE Check \/ Fetched \/ Refused \/ Cut
  <2>1. CASE Check /\ ~Fresh
    BY <2>1 DEF Check, requests, Flight!vars
  <2>2. CASE \E r : Land(r)
    BY <2>2, <1>2, LandFinishes DEF Flight!Next, Check, Fetched, Refused, Cut
  <2>. QED BY <1>2, <2>1, <2>2 DEF Check, Fetched, Refused, Cut
<1>3. ASSUME NEW c \in Callers, Request(c) \/ Cancel(c) \/ Step(c)
      PROVE  [Flight!Next]_Flight!vars
  <2>1. CASE Do(c)
    <3>1. Calls[c] = "out" /\ Calls' = [Calls EXCEPT ![c] = "wait"] /\ fetch' # "none"
      BY <2>1 DEF Do, Goto, Calls, Inv, TypeOK
    <3>. QED BY <3>1 DEF Flight!Next, Flight!Join, Calls
  <2>2. CASE pc[c] \in {"ok", "err"} /\ (NoToken(c) \/ Send(c))
    <3>1. Calls[c] # "out" /\ Calls' = [Calls EXCEPT ![c] = "out"] /\ fetch' = fetch
      BY <2>2 DEF NoToken, Send, AfterError, Goto, source, Calls, Inv, TypeOK
    <3>. QED BY <3>1 DEF Flight!Next, Flight!Leave, Calls
  <2>3. CASE ~Do(c) /\ ~(pc[c] \in {"ok", "err"} /\ (NoToken(c) \/ Send(c)))
    <3>1. Calls' = Calls /\ fetch' = fetch
      BY <1>3, <2>3 DEF Step, Request, Cancel, Begin, NoToken, Send, Answer, WaitOver, Lookup,
         AfterError, Goto, source, Calls, Inv, TypeOK
    <3>. QED BY <3>1 DEF Flight!vars, Calls
  <2>. QED BY <2>1, <2>2, <2>3
<1>. QED BY <1>1, <1>2, <1>3 DEF Next, Fetch

\* One fetch at a time, whose outcome goes to all who wait for it.
THEOREM TokenSourceIsSingleFlight == Spec => ImplementsSingleFlight
BY FlightInit, FlightNext, SpecInv, PTL DEF Spec, ImplementsSingleFlight, Flight!Spec
=============================================================================
