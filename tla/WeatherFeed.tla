---------------------------- MODULE WeatherFeed ----------------------------
(***************************************************************************)
(* FastWeatherFeed (modules/fast_weather_feed.py): a polling task that     *)
(* fetches an observation with retries, validates, stores and publishes    *)
(* it, a monitor task that looks at the age of the last observation once a *)
(* second, and the caller's start() and stop().  A step is what a task     *)
(* does between two awaits.  The caller awaits one start() or stop()       *)
(* before the next.  Metrics that nothing reads are left out.              *)
(***************************************************************************)
EXTENDS Naturals, Sequences, FiniteSets

CONSTANTS
  Bodies,             (* answers with status 200: readings and time stamp   *)
  MaxRetries,         (* retries of one fetch after its first attempt       *)
  HeartbeatTimeout,   (* seconds without data before the monitor complains  *)
  BufferMax,          (* observations kept for audit                        *)
  NoObservation

Fields   == {"temp", "humidity", "wind", "pressure"}
Readings == {"absent", "text", "in", "out"}
States   == {"STOPPED", "RUNNING", "ERROR", "HEARTBEAT_TIMEOUT"}

ASSUME BodiesAssumption == Bodies \subseteq
  [temp : Readings, humidity : Readings, wind : Readings, pressure : Readings,
   epoch : BOOLEAN]
ASSUME BoundsAssumption ==
  MaxRetries \in Nat /\ HeartbeatTimeout \in Nat /\ BufferMax \in Nat \ {0}

VARIABLES
  state,       (* _state                                                    *)
  running,     (* _running                                                  *)
  session,     (* _session: "none" or "open"                                *)
  stopping,    (* what stop() awaits: "no", "poll", "heartbeat", "session"  *)
  poll,        (* what _poll_task awaits, "next" before a cycle             *)
  attempt,     (* attempt of _fetch_with_retry, from 0                      *)
  heartbeat,   (* _heartbeat_task: "dead", "asleep", "due"                  *)
  age,         (* seconds since last_heartbeat_ns, up to HeartbeatTimeout+1 *)
  last,        (* _last_observation                                         *)
  buffer,      (* _observation_buffer                                       *)
  api,         (* the provider: "up" answers well, "down" may do anything   *)
  limited      (* history: a 429 came and the task has not slept since      *)

lifeVars == <<running, session, stopping>>
dataVars == <<age, last, buffer>>
vars == <<state, lifeVars, poll, attempt, heartbeat, dataVars, api, limited>>

(* Mutant: only the temperature is validated.                              *)
ValidateTemperature(body) == body.temp = "in"

(* _validate_sensor_data.  A value of a wrong type returns False, one out  *)
(* of its range raises SensorValidationError: the loop treats them alike.  *)
Validate(body) ==
  /\ body.temp # "absent"
  /\ \A f \in Fields : body[f] \notin {"text", "out"}

Quality(body) ==
  IF Cardinality({f \in Fields : body[f] # "absent"}) < 3 THEN "low" ELSE "full"

(* _parse_observation, of a body whose time stamp is a number.             *)
ParseObservation(body) == [reading |-> [f \in Fields |-> body[f]],
                           quality |-> Quality(body)]

Observations == [reading : [Fields -> Readings], quality : {"low", "full"}]

ASSUME NoObservationAssumption == NoObservation \notin Observations

Good(body) == Validate(body) /\ body.epoch

Init ==
  /\ state = "STOPPED" /\ running = FALSE /\ session = "none" /\ stopping = "no"
  /\ poll = "dead" /\ attempt = 0 /\ heartbeat = "dead"
  /\ age = HeartbeatTimeout + 1      \* last_heartbeat_ns is 0
  /\ last = NoObservation /\ buffer = <<>>
  /\ api \in {"up", "down"} /\ limited = FALSE

(***************************************************************************)
(* The caller.                                                             *)
(***************************************************************************)
Start ==
  /\ ~running /\ stopping = "no"
  /\ running' = TRUE
  /\ state' = "RUNNING"              \* STARTING until the tasks exist
  /\ session' = "open"
  /\ poll' = "next" /\ heartbeat' = "asleep"
  /\ UNCHANGED <<stopping, attempt, dataVars, api, limited>>

Stop ==
  /\ stopping = "no"
  /\ running' = FALSE
  /\ state' = "STOPPED"
  /\ stopping' = "poll"              \* and _poll_task.cancel()
  /\ UNCHANGED <<session, poll, attempt, heartbeat, dataVars, api, limited>>

(* CancelledError ends the loop, wherever it was waiting.                  *)
PollCancelled ==
  /\ stopping = "poll" /\ poll # "dead"
  /\ poll' = "dead" /\ attempt' = 0 /\ limited' = FALSE
  /\ UNCHANGED <<state, lifeVars, heartbeat, dataVars, api>>

(* Mutant: stop() cancels the polling task and does not await it.          *)
StopHeartbeatAtOnce ==
  /\ stopping = "poll"
  /\ stopping' = "heartbeat"
  /\ UNCHANGED <<state, running, session, poll, attempt, heartbeat, dataVars,
                 api, limited>>

StopHeartbeat ==
  /\ stopping = "poll" /\ poll = "dead"
  /\ stopping' = "heartbeat"         \* and _heartbeat_task.cancel()
  /\ UNCHANGED <<state, running, session, poll, attempt, heartbeat, dataVars,
                 api, limited>>

HeartbeatCancelled ==
  /\ stopping = "heartbeat" /\ heartbeat # "dead"
  /\ heartbeat' = "dead"
  /\ UNCHANGED <<state, lifeVars, poll, attempt, dataVars, api, limited>>

StopSession ==
  /\ stopping = "heartbeat" /\ heartbeat = "dead"
  /\ stopping' = IF session = "open" THEN "session" ELSE "no"
  /\ UNCHANGED <<state, running, session, poll, attempt, heartbeat, dataVars,
                 api, limited>>

SessionClosed ==
  /\ stopping = "session"
  /\ session' = "none" /\ stopping' = "no"
  /\ UNCHANGED <<state, running, poll, attempt, heartbeat, dataVars, api, limited>>

(***************************************************************************)
(* The polling task: _run_loop, _fetch_with_retry, _fetch_once.            *)
(***************************************************************************)
At(place) == poll = place /\ stopping # "poll"

(* The rest of the interval is slept, or the cycle took longer than it.    *)
EndCycle == poll' \in {"interval", "next"} /\ attempt' = 0

(* Mutant: an unexpected exception ends the loop.                          *)
LoopEnds == state' = "ERROR" /\ poll' = "dead" /\ attempt' = 0

(* An exception that reaches _run_loop: ERROR and one second of sleep.     *)
LoopError == state' = "ERROR" /\ poll' = "error" /\ attempt' = 0

(* _calculate_backoff sleeps between attempts, not after the last one.     *)
CalculateBackoff ==
  IF attempt < MaxRetries THEN poll' = "backoff" /\ UNCHANGED attempt ELSE EndCycle

BeginCycle ==
  /\ At("next")
  /\ poll' = IF running THEN "request" ELSE "dead"
  /\ UNCHANGED <<state, lifeVars, attempt, heartbeat, dataVars, api, limited>>

(* A time-out, a connection error, a 5xx, or a body without 'current'.     *)
AttemptFailed ==
  /\ At("request") /\ (api = "down" \/ session = "none")
  /\ CalculateBackoff
  /\ UNCHANGED <<state, lifeVars, heartbeat, dataVars, api, limited>>

(* Any other status: the fetch gives up at once.                           *)
ClientRejected ==
  /\ At("request") /\ session = "open" /\ api = "down"
  /\ EndCycle
  /\ UNCHANGED <<state, lifeVars, heartbeat, dataVars, api, limited>>

RateLimited ==
  /\ At("request") /\ session = "open" /\ api = "down"
  /\ poll' = "limit" /\ limited' = TRUE
  /\ UNCHANGED <<state, lifeVars, attempt, heartbeat, dataVars, api>>

(* Mutant: a 429 uses the same backoff as the other errors.                *)
LimitBacksOff ==
  /\ At("limit")
  /\ CalculateBackoff
  /\ UNCHANGED <<state, lifeVars, heartbeat, dataVars, api, limited>>

(* The sleep after a 429 comes even after the last attempt.                *)
LimitCallbackReturned ==
  /\ At("limit")
  /\ poll' = "backoff"
  /\ UNCHANGED <<state, lifeVars, attempt, heartbeat, dataVars, api, limited>>

LimitCallbackRaised ==
  /\ At("limit")
  /\ LoopError
  /\ UNCHANGED <<lifeVars, heartbeat, dataVars, api, limited>>

(* Mutant: one retry too many.                                             *)
BackoffOverOffByOne ==
  /\ At("backoff")
  /\ limited' = FALSE
  /\ IF attempt <= MaxRetries THEN poll' = "request" /\ attempt' = attempt + 1
                              ELSE EndCycle
  /\ UNCHANGED <<state, lifeVars, heartbeat, dataVars, api>>

BackoffOver ==
  /\ At("backoff")
  /\ limited' = FALSE
  /\ IF attempt < MaxRetries THEN poll' = "request" /\ attempt' = attempt + 1
                             ELSE EndCycle
  /\ UNCHANGED <<state, lifeVars, heartbeat, dataVars, api>>

(* `continue` skips the sleep of the interval.                             *)
ReceiveInvalid(body) ==
  /\ At("request") /\ session = "open" /\ api = "down" /\ ~Validate(body)
  /\ poll' = "next" /\ attempt' = 0
  /\ UNCHANGED <<state, lifeVars, heartbeat, dataVars, api, limited>>

ReceiveUnparsable(body) ==
  /\ At("request") /\ session = "open" /\ api = "down"
  /\ Validate(body) /\ ~body.epoch
  /\ LoopError
  /\ UNCHANGED <<lifeVars, heartbeat, dataVars, api, limited>>

BufferAppend(buf, obs) ==
  LET longer == Append(buf, obs) IN
  IF Len(longer) > BufferMax THEN Tail(longer) ELSE longer

ReceiveValid(body) ==
  /\ At("request") /\ session = "open" /\ Good(body)
  /\ age' = 0
  /\ last' = ParseObservation(body)
  /\ buffer' = BufferAppend(buffer, last')
  /\ poll' = "notify" /\ attempt' = 0
  /\ UNCHANGED <<state, lifeVars, heartbeat, api, limited>>

(* The callbacks of _notify_callbacks have returned or failed, one by one. *)
CallbacksNotified ==
  /\ At("notify")
  /\ EndCycle
  /\ UNCHANGED <<state, lifeVars, heartbeat, dataVars, api, limited>>

IntervalOver ==
  /\ At("interval")
  /\ poll' = "next" /\ limited' = FALSE
  /\ UNCHANGED <<state, lifeVars, attempt, heartbeat, dataVars, api>>

(* After the emergency sleep the loop goes on to its usual interval.       *)
ErrorOver ==
  /\ At("error")
  /\ EndCycle /\ limited' = FALSE
  /\ UNCHANGED <<state, lifeVars, heartbeat, dataVars, api>>

(***************************************************************************)
(* The monitor task, time and the provider.                                *)
(***************************************************************************)
(* Mutant: the monitor waits for a first observation.                      *)
HeartbeatMonitorAfterData ==
  /\ heartbeat = "due" /\ stopping # "heartbeat"
  /\ state' = IF state = "RUNNING" /\ age > HeartbeatTimeout /\ last # NoObservation
              THEN "HEARTBEAT_TIMEOUT" ELSE state
  /\ heartbeat' = IF running THEN "asleep" ELSE "dead"
  /\ UNCHANGED <<lifeVars, poll, attempt, dataVars, api, limited>>

HeartbeatMonitor ==
  /\ heartbeat = "due" /\ stopping # "heartbeat"
  /\ state' = IF state = "RUNNING" /\ age > HeartbeatTimeout
              THEN "HEARTBEAT_TIMEOUT" ELSE state
  /\ heartbeat' = IF running THEN "asleep" ELSE "dead"
  /\ UNCHANGED <<lifeVars, poll, attempt, dataVars, api, limited>>

Tick ==
  /\ age <= HeartbeatTimeout \/ heartbeat = "asleep"
  /\ age' = IF age <= HeartbeatTimeout THEN age + 1 ELSE age
  /\ heartbeat' = IF heartbeat = "asleep" THEN "due" ELSE heartbeat
  /\ UNCHANGED <<state, lifeVars, poll, attempt, last, buffer, api, limited>>

ApiChanges ==
  /\ api' \in {"up", "down"} \ {api}
  /\ UNCHANGED <<state, lifeVars, poll, attempt, heartbeat, dataVars, limited>>

Poll ==
  \/ BeginCycle \/ AttemptFailed \/ ClientRejected
  \/ RateLimited \/ LimitCallbackReturned \/ LimitCallbackRaised \/ BackoffOver
  \/ \E body \in Bodies :
       ReceiveInvalid(body) \/ ReceiveUnparsable(body) \/ ReceiveValid(body)
  \/ CallbacksNotified \/ IntervalOver \/ ErrorOver

Stopping == PollCancelled \/ StopHeartbeat \/ HeartbeatCancelled
            \/ StopSession \/ SessionClosed

Next == Start \/ Stop \/ Stopping \/ Poll \/ HeartbeatMonitor \/ Tick \/ ApiChanges

Spec == Init /\ [][Next]_vars

(* The event loop runs what is ready; every request and callback ends.     *)
FairSpec ==
  Spec /\ WF_vars(Poll) /\ WF_vars(Stopping) /\ WF_vars(HeartbeatMonitor)
       /\ WF_vars(Tick)

(***************************************************************************)
(* Properties.                                                             *)
(***************************************************************************)
TypeOK ==
  /\ state \in States /\ running \in BOOLEAN /\ session \in {"none", "open"}
  /\ stopping \in {"no", "poll", "heartbeat", "session"}
  /\ poll \in {"dead", "next", "request", "limit", "backoff", "notify",
               "interval", "error"}
  /\ attempt \in 0..MaxRetries
  /\ heartbeat \in {"dead", "asleep", "due"}
  /\ age \in 0..(HeartbeatTimeout + 1)
  /\ last \in Observations \cup {NoObservation}
  /\ buffer \in Seq(Observations) /\ Len(buffer) <= BufferMax
  /\ api \in {"up", "down"} /\ limited \in BOOLEAN

(* A running feed has its session and both tasks, whatever went wrong in   *)
(* them; from the moment stop() begins the state reads STOPPED, although   *)
(* the tasks still run, and when it returns nothing of the feed is left.   *)
Lifecycle ==
  /\ running => /\ stopping = "no" /\ state # "STOPPED" /\ session = "open"
                /\ poll # "dead" /\ heartbeat # "dead"
  /\ ~running => /\ state = "STOPPED"
                 /\ stopping = "no" => /\ session = "none"
                                       /\ poll = "dead" /\ heartbeat = "dead"

(* After a 429 the feed sleeps before its next request, also when it was   *)
(* the last attempt and also when the rate-limit callback raised.          *)
RestAfterLimit == poll = "request" => ~limited

(* What the readers of the feed can see passed the validation: readings in *)
(* range, temperature present, full quality only with three of four; and   *)
(* the newest entry of the audit buffer is the last observation.           *)
Plausible(obs) ==
  /\ obs.reading["temp"] = "in"
  /\ \A f \in Fields : obs.reading[f] \in {"absent", "in"}
  /\ obs.quality = "full" =>
       \E f, g \in Fields \ {"temp"} : f # g /\ obs.reading[f] = "in" /\ obs.reading[g] = "in"

OnlyPlausible ==
  /\ \A i \in DOMAIN buffer : Plausible(buffer[i])
  /\ IF last = NoObservation THEN buffer = <<>>
                             ELSE buffer # <<>> /\ buffer[Len(buffer)] = last

(* A silence longer than the time-out does not stay hidden behind RUNNING. *)
OutageDetected ==
  (state = "RUNNING" /\ age > HeartbeatTimeout) ~> (state # "RUNNING" \/ age = 0)

(* With a provider that stays up, observations keep coming for as long as  *)
(* the feed is not stopped, even in ERROR and HEARTBEAT_TIMEOUT.           *)
KeepsObserving ==
  <>[](api = "up") => []<>(poll = "notify" \/ ~running)
=============================================================================
