-------------------------- MODULE TimestampProfiler --------------------------
(***************************************************************************)
(* TimestampProfiler of cubecl-runtime (timestamp_profiler.rs): tokens     *)
(* mapped to a start instant or to an error in a HashMap, a counter for    *)
(* fresh token ids, and start / stop / error, called one at a time by the *)
(* server that owns the profiler.  Instants are abstracted to "Start":    *)
(* the duration returned by a successful stop is not modelled, only       *)
(* whether stop succeeds and with which error it fails.                    *)
(*                                                                         *)
(* `broadcast` and `stopped` are history variables, not program state:    *)
(* the last error broadcast while each token was open, and the tokens     *)
(* already stopped.  `lastStop` records the outcome of the latest stop.   *)
(***************************************************************************)
EXTENDS Naturals, FiniteSets, Functions, TLC

CONSTANTS
  Errors,       \* ProfileError values a device failure may report
  NotRegistered,\* ProfileError::NotRegistered
  Ok,           \* the Ok(duration) outcome of stop
  None,         \* no error broadcast / no stop yet
  MaxTokens     \* bound: tokens started over a run

ASSUME NotRegistered \notin Errors

VARIABLES
  state,        \* HashMap<ProfilingToken, State>: token id -> "Start" or an error
  counter,      \* next token id
  lastStop,     \* [token, result] of the latest stop, or None
  broadcast,    \* history: token id -> last error broadcast while it was open
  stopped       \* history: token ids already stopped

vars == <<state, counter, lastStop, broadcast, stopped>>

Tokens == 0..(MaxTokens - 1)

\* Fault variant: the counter is not advanced, so a token id is handed out twice.
StartReusingId ==
  /\ counter < MaxTokens
  /\ state' = state @@ (counter :> "Start")
  /\ broadcast' = [broadcast EXCEPT ![counter] = None]
  /\ UNCHANGED <<counter, lastStop, stopped>>

\* start: a fresh token id, registered with the current instant.
Start ==
  /\ counter < MaxTokens
  /\ state' = state @@ (counter :> "Start")
  /\ counter' = counter + 1
  /\ broadcast' = [broadcast EXCEPT ![counter] = None]
  /\ UNCHANGED <<lastStop, stopped>>

\* stop: remove the token's entry; Ok for a start instant, the error it was
\* poisoned with, or NotRegistered when there is no entry.
StopResult(tok) ==
  IF tok \notin DOMAIN state THEN NotRegistered
  ELSE IF state[tok] = "Start" THEN Ok ELSE state[tok]

\* Fault variant: the error path returns before removing the entry.
StopKeepingErrors(tok) ==
  /\ state' = IF tok \in DOMAIN state /\ state[tok] # "Start" THEN state
              ELSE Restrict(state, DOMAIN state \ {tok})
  /\ lastStop' = [token |-> tok, result |-> StopResult(tok)]
  /\ stopped' = stopped \cup {tok}
  /\ UNCHANGED <<counter, broadcast>>

Stop(tok) ==
  /\ state' = Restrict(state, DOMAIN state \ {tok})
  /\ lastStop' = [token |-> tok, result |-> StopResult(tok)]
  /\ stopped' = stopped \cup {tok}
  /\ UNCHANGED <<counter, broadcast>>

\* error: every open token's state becomes the error.
Error(e) ==
  /\ state' = [tok \in DOMAIN state |-> e]
  /\ broadcast' = [tok \in Tokens |->
                     IF tok < counter /\ tok \notin stopped THEN e ELSE broadcast[tok]]
  /\ UNCHANGED <<counter, lastStop, stopped>>

Init ==
  /\ state = <<>>
  /\ counter = 0
  /\ lastStop = None
  /\ broadcast = [tok \in Tokens |-> None]
  /\ stopped = {}

\* Callers hold the tokens start gave them; stop may be called with any of
\* them, again after it was already stopped included.
Next ==
  \/ Start
  \/ \E tok \in 0..(counter - 1) : Stop(tok)
  \/ \E e \in Errors : Error(e)

Spec == Init /\ [][Next]_vars

-----------------------------------------------------------------------------

TypeOK ==
  /\ counter \in 0..MaxTokens
  /\ DOMAIN state \subseteq 0..(counter - 1)
  /\ \A tok \in DOMAIN state : state[tok] \in {"Start"} \cup Errors
  /\ lastStop \in {None} \cup [token : Tokens, result : {Ok, NotRegistered} \cup Errors]
  /\ broadcast \in [Tokens -> {None} \cup Errors]
  /\ stopped \subseteq Tokens

\* The profiling contract (spec 4.7, 7 and 8) for every stop: a token stopped
\* before answers NotRegistered; otherwise a token over whose lifetime an
\* error was broadcast answers the last such error, never a duration, and
\* only a token no failure touched answers Ok.  It relates the HashMap that
\* start, stop and error maintain to the history of the calls made.
ExpectedStop(tok) ==
  IF tok \in stopped THEN NotRegistered
  ELSE IF broadcast[tok] # None THEN broadcast[tok] ELSE Ok

StopObeysContract ==
  (lastStop' # lastStop \/ stopped' # stopped) =>
    lastStop'.result = ExpectedStop(lastStop'.token)

StopContract == [][StopObeysContract]_vars

=============================================================================
