-------------------------- MODULE ProviderRequests --------------------------
(***************************************************************************)
(* Requests to the metadata providers: TVDBTransport (one bearer token     *)
(* shared by all threads, dropped and renewed when the provider refuses    *)
(* it) and TMDBTransport (one budget of attempts for network errors, rate  *)
(* limits and server errors).  The provider is external: it may refuse a   *)
(* dead token, ask to wait, fail, or answer, and tokens die at any time.   *)
(*                                                                         *)
(* Each step of a thread is one section under the login lock, one slot of  *)
(* the rate limiter or one exchange.                                       *)
(***************************************************************************)
EXTENDS Naturals, FiniteSets

CONSTANTS
    Threads,     \* threads that ask a provider
    Nobody,      \* no thread
    Burst,       \* slots the rate limiter can save up
    RateRetries, \* _MAX_RATE_LIMIT_RETRIES of TVDB
    Retries,     \* max_retries of TMDB
    MaxTokens    \* bound on the tokens issued

VARIABLES
    token,    \* the shared token; 0 is none
    issued,   \* tokens handed out so far
    live,     \* the tokens the provider accepts
    lock,     \* who holds the login lock
    slots,    \* the rate limiter's slots
    call,     \* thread -> its request
    died      \* thread -> whether a token died during its request

requestVars == <<token, issued, live, lock, slots, call, died>>

Quiet   == [pc |-> "quiet"]
Begun   == [pc |-> "ensure", attempt |-> 1, waits |-> 0, token |-> 0]
Running == {t \in Threads : call[t].pc \notin {"quiet", "answered", "failed", "refused"}}

RequestsInit ==
    /\ token = 0 /\ issued = 0 /\ live = {} /\ lock = Nobody /\ slots = Burst
    /\ call = [t \in Threads |-> Quiet] /\ died = [t \in Threads |-> FALSE]

End(t, how) == call' = [call EXCEPT ![t].pc = how]

\* A free slot of the rate limiter is taken; otherwise the thread waits.
Acquire == slots > 0 /\ slots' = slots - 1

\* Time passes.
Refill == slots < Burst /\ slots' = Burst /\ UNCHANGED <<token, issued, live, lock, call, died>>

-----------------------------------------------------------------------------
(* TVDB.                                                                   *)

AskTvdb(t) ==
    /\ t \notin Running
    /\ call' = [call EXCEPT ![t] = Begun] /\ died' = [died EXCEPT ![t] = FALSE]
    /\ UNCHANGED <<token, issued, live, lock, slots>>

\* _ensure_token: the shared token, or a login while the lock is held.
EnsureToken(t) ==
    /\ call[t].pc = "ensure" /\ lock = Nobody
    /\ IF token # 0
       THEN /\ call' = [call EXCEPT ![t].pc = "get", ![t].token = token, ![t].waits = 0]
            /\ UNCHANGED lock
       ELSE lock' = t /\ call' = [call EXCEPT ![t].pc = "login"]
    /\ UNCHANGED <<token, issued, live, slots, died>>

Login(t) ==
    /\ call[t].pc = "login" /\ lock' = Nobody
    /\ \/ /\ issued < MaxTokens
          /\ issued' = issued + 1 /\ token' = issued' /\ live' = live \cup {issued'}
          /\ call' = [call EXCEPT ![t].pc = "get", ![t].token = issued', ![t].waits = 0]
       \/ End(t, "failed") /\ UNCHANGED <<token, issued, live>>
    /\ UNCHANGED <<slots, died>>

\* Mutant: a wait for the rate limit is not counted.
WaitAgainUncounted(t) == call' = [call EXCEPT ![t].pc = "get"]
\* 429: the thread waits and asks again, a bounded number of times per attempt.
WaitAgain(t) ==
    IF call[t].waits >= RateRetries THEN End(t, "failed")
    ELSE call' = [call EXCEPT ![t].pc = "get", ![t].waits = @ + 1]

\* One exchange with the provider.
GetTvdb(t) ==
    /\ call[t].pc = "get" /\ Acquire
    /\ IF call[t].token \notin live
       THEN IF call[t].attempt = 1 THEN End(t, "drop") ELSE End(t, "refused")
       ELSE WaitAgain(t) \/ End(t, "answered") \/ End(t, "failed")
    /\ UNCHANGED <<token, issued, live, lock, died>>

\* Mutant: the refused token is kept when another thread's request runs.
DropTokenAlone(t) ==
    /\ call[t].pc = "drop" /\ lock = Nobody
    /\ token' = IF Running = {t} THEN 0 ELSE token
    /\ call' = [call EXCEPT ![t].pc = "ensure", ![t].attempt = 2]
    /\ UNCHANGED <<issued, live, lock, slots, died>>
\* _drop_token: the shared token goes, whichever it is by now.
DropToken(t) ==
    /\ call[t].pc = "drop" /\ lock = Nobody
    /\ token' = 0
    /\ call' = [call EXCEPT ![t].pc = "ensure", ![t].attempt = 2]
    /\ UNCHANGED <<issued, live, lock, slots, died>>

\* The provider no longer takes a token.
Expire ==
    /\ \E k \in live : live' = live \ {k}
    /\ died' = [t \in Threads |-> died[t] \/ t \in Running]
    /\ UNCHANGED <<token, issued, lock, slots, call>>

-----------------------------------------------------------------------------
(* TMDB.                                                                   *)

AskTmdb(t) ==
    /\ t \notin Running
    /\ call' = [call EXCEPT ![t] = [pc |-> "try", attempt |-> 0]]
    /\ died' = [died EXCEPT ![t] = FALSE]
    /\ UNCHANGED <<token, issued, live, lock, slots>>

\* A network error, a rate limit and a server error use up the same attempts;
\* any other refusal ends the request.
GetTmdb(t) ==
    /\ call[t].pc = "try" /\ Acquire
    /\ \/ IF call[t].attempt < Retries
          THEN call' = [call EXCEPT ![t].attempt = @ + 1] ELSE End(t, "failed")
       \/ End(t, "answered") \/ End(t, "failed")
    /\ UNCHANGED <<token, issued, live, lock, died>>

-----------------------------------------------------------------------------

ThreadStep(t) == EnsureToken(t) \/ Login(t) \/ GetTvdb(t) \/ DropToken(t) \/ GetTmdb(t)

RequestsNext ==
    \/ \E t \in Threads : AskTvdb(t) \/ AskTmdb(t) \/ ThreadStep(t)
    \/ Expire \/ Refill

\* A thread's step is not put off for ever: exchanges have timeouts, the lock is
\* released with every login and the limiter refills with time.
RequestsSpec ==
    /\ RequestsInit /\ [][RequestsNext]_requestVars
    /\ \A t \in Threads : SF_requestVars(ThreadStep(t))
    /\ WF_requestVars(Refill)

-----------------------------------------------------------------------------
(* Properties.                                                             *)

\* A token that died before a request began never fails it, whatever the other
\* threads drop and renew meanwhile: the second attempt has a token that was
\* accepted at some time during the request.
OldTokenNeverRefuses ==
    \A t \in Threads : call[t].pc = "refused" => died[t]

\* Every request ends: the waits and retries are counted, and nobody keeps the
\* login lock.
RequestsEnd == \A t \in Threads : (t \in Running) ~> (t \notin Running)
=============================================================================
