------------------------- MODULE WeatherFeedProofs -------------------------
(***************************************************************************)
(* Proofs about WeatherFeed: its four invariants for every provider,       *)
(* number of retries, time-out and size of the audit buffer.               *)
(***************************************************************************)
EXTENDS WeatherFeed, FiniteSetTheorems, TLAPS

(* What the proof of Lifecycle needs: while stop() awaits one thing, what  *)
(* it awaited before is over.                                              *)
StopOrder ==
  /\ stopping \in {"heartbeat", "session"} => poll = "dead"
  /\ stopping = "session" => heartbeat = "dead"

(* Where a 429 may still be remembered: asleep for it, or ended by it.     *)
LimitRemembered == limited => poll \in {"limit", "backoff", "error"}

IInv == TypeOK /\ Lifecycle /\ StopOrder /\ LimitRemembered /\ OnlyPlausible

(***************************************************************************)
(* The observations.                                                       *)
(***************************************************************************)
LEMMA ReadingsTyped ==
  ASSUME NEW body \in Bodies
  PROVE  /\ \A f \in Fields : body[f] \in Readings
         /\ ParseObservation(body) \in Observations
<1>1. body \in [temp : Readings, humidity : Readings, wind : Readings,
                pressure : Readings, epoch : BOOLEAN]
  BY BodiesAssumption
<1>2. \A f \in Fields : body[f] \in Readings
  BY <1>1 DEF Fields
<1>3. [f \in Fields |-> body[f]] \in [Fields -> Readings]
  BY <1>2
<1>4. Quality(body) \in {"low", "full"}
  BY DEF Quality
<1> QED
  BY <1>2, <1>3, <1>4 DEF ParseObservation, Observations

(* Two elements have at most two elements.                                 *)
LEMMA PairCardinality ==
  ASSUME NEW x, NEW y
  PROVE  IsFiniteSet({x, y}) /\ Cardinality({x, y}) <= 2
<1>1. IsFiniteSet({x}) /\ Cardinality({x}) = 1
  BY FS_Singleton
<1>2. /\ IsFiniteSet({x} \cup {y})
      /\ Cardinality({x} \cup {y}) = Cardinality({x})
         \/ Cardinality({x} \cup {y}) = Cardinality({x}) + 1
  BY <1>1, FS_AddElement
<1>3. {x, y} = {x} \cup {y}
  OBVIOUS
<1> QED
  BY <1>1, <1>2, <1>3

(* A quality of "full" needs two readings beside the temperature.          *)
LEMMA FullQuality ==
  ASSUME NEW body, Quality(body) = "full"
  PROVE  \E f, g \in Fields \ {"temp"} :
            f # g /\ body[f] # "absent" /\ body[g] # "absent"
<1> DEFINE present == {f \in Fields : body[f] # "absent"}
<1>1. ~(Cardinality(present) < 3)
  BY DEF Quality
<1> SUFFICES ASSUME \A f, g \in present \ {"temp"} : f = g
             PROVE  FALSE
  BY DEF Fields
<1>2. PICK x : present \subseteq {"temp", x}
  <2>1. CASE present \ {"temp"} = {}
    BY <2>1
  <2>2. CASE present \ {"temp"} # {}
    <3>1. PICK x : x \in present \ {"temp"}
      BY <2>2
    <3>2. present \subseteq {"temp", x}
      BY <3>1
    <3> QED
      BY <3>2
  <2> QED
    BY <2>1, <2>2
<1>3. IsFiniteSet({"temp", x}) /\ Cardinality({"temp", x}) <= 2
  BY PairCardinality
<1>4. IsFiniteSet(present) /\ Cardinality(present) <= Cardinality({"temp", x})
  BY <1>2, <1>3, FS_Subset
<1>5. Cardinality(present) \in Nat /\ Cardinality({"temp", x}) \in Nat
  BY <1>3, <1>4, FS_CardinalityType
<1> QED
  BY <1>1, <1>3, <1>4, <1>5

(* What passes the validation is plausible once parsed.                    *)
LEMMA GoodIsPlausible ==
  ASSUME NEW body \in Bodies, Validate(body)
  PROVE  Plausible(ParseObservation(body))
<1> DEFINE obs == ParseObservation(body)
<1>1. \A f \in Fields : obs.reading[f] = body[f]
  BY DEF ParseObservation
<1>2. obs.quality = Quality(body)
  BY DEF ParseObservation
<1>3. \A f \in Fields : body[f] \in {"absent", "in"}
  BY ReadingsTyped DEF Validate, Readings
<1>4. "temp" \in Fields /\ body["temp"] = "in"
  BY <1>3 DEF Validate, Fields
<1>5. ASSUME obs.quality = "full"
      PROVE  \E f, g \in Fields \ {"temp"} :
               f # g /\ obs.reading[f] = "in" /\ obs.reading[g] = "in"
  <2>1. PICK f \in Fields \ {"temp"}, g \in Fields \ {"temp"} :
            f # g /\ body[f] # "absent" /\ body[g] # "absent"
    BY <1>2, <1>5, FullQuality
  <2>2. obs.reading[f] = "in" /\ obs.reading[g] = "in"
    BY <1>1, <1>3, <2>1
  <2> QED
    BY <2>1, <2>2
<1> QED
  BY <1>1, <1>3, <1>4, <1>5 DEF Plausible

(* The audit buffer keeps its bound, its newest entry and old entries.     *)
LEMMA BufferAppended ==
  ASSUME NEW buf \in Seq(Observations), Len(buf) <= BufferMax,
         NEW obs \in Observations,
         NEW new, new = BufferAppend(buf, obs)
  PROVE  /\ new \in Seq(Observations) /\ Len(new) <= BufferMax
         /\ Len(new) > 0 /\ new[Len(new)] = obs
         /\ \A i \in 1..Len(new) : new[i] = obs \/ \E j \in 1..Len(buf) : new[i] = buf[j]
<1> DEFINE longer == Append(buf, obs)
<1>1. /\ longer \in Seq(Observations) /\ Len(longer) = Len(buf) + 1 /\ Len(buf) \in Nat
      /\ longer[Len(longer)] = obs
      /\ \A i \in 1..Len(buf) : longer[i] = buf[i]
  OBVIOUS
<1>2. CASE Len(longer) > BufferMax
  <2>1. BufferAppend(buf, obs) = Tail(longer)
    BY <1>2 DEF BufferAppend
  <2>2. Len(longer) >= 2
    BY <1>1, <1>2, BoundsAssumption
  <2> HIDE DEF longer
  <2>3. /\ Tail(longer) \in Seq(Observations) /\ Len(Tail(longer)) = Len(buf)
        /\ \A i \in 1..Len(buf) : Tail(longer)[i] = longer[i + 1]
    BY <1>1, <2>2
  <2>4. Len(buf) >= 1 /\ Tail(longer)[Len(buf)] = obs
    BY <1>1, <2>2, <2>3
  <2>5. \A i \in 1..Len(buf) : Tail(longer)[i] = obs
                                 \/ \E j \in 1..Len(buf) : Tail(longer)[i] = buf[j]
    <3>1. TAKE i \in 1..Len(buf)
    <3>2. CASE i = Len(buf)
      BY <2>4, <3>2
    <3>3. CASE i # Len(buf)
      <4>1. i + 1 \in 1..Len(buf)
        BY <1>1, <3>3
      <4>2. Tail(longer)[i] = buf[i + 1]
        BY <1>1, <2>3, <4>1
      <4> QED
        BY <4>1, <4>2
    <3> QED
      BY <3>2, <3>3
  <2> QED
    BY <1>1, <2>1, <2>3, <2>4, <2>5
<1>3. CASE ~(Len(longer) > BufferMax)
  <2>1. BufferAppend(buf, obs) = longer
    BY <1>3 DEF BufferAppend
  <2>2. Len(longer) <= BufferMax
    BY <1>1, <1>3, BoundsAssumption
  <2> HIDE DEF longer
  <2>3. \A i \in 1..Len(longer) : longer[i] = obs
                                    \/ \E j \in 1..Len(buf) : longer[i] = buf[j]
    BY <1>1
  <2> QED
    BY <1>1, <2>1, <2>2, <2>3
<1> QED
  BY <1>2, <1>3

(***************************************************************************)
(* The inductive invariant.                                                *)
(***************************************************************************)
(* Before start() the feed is at rest and empty.                           *)
LEMMA InitIInv == Init => IInv
<1> SUFFICES ASSUME Init PROVE IInv
  OBVIOUS
<1>1. TypeOK
  <2>1. buffer \in Seq(Observations) /\ Len(buffer) = 0
    BY DEF Init
  <2>2. attempt \in 0..MaxRetries /\ age \in 0..(HeartbeatTimeout + 1) /\ 0 <= BufferMax
    BY BoundsAssumption DEF Init
  <2> QED
    BY <2>1, <2>2 DEF Init, TypeOK, States
<1>2. Lifecycle /\ StopOrder /\ LimitRemembered
  BY DEF Init, Lifecycle, StopOrder, LimitRemembered
<1>3. OnlyPlausible
  BY DEF Init, OnlyPlausible
<1> QED
  BY <1>1, <1>2, <1>3 DEF IInv

(* Everything but the observations, which only ReceiveValid touches.       *)
Control == /\ state \in States /\ running \in BOOLEAN /\ session \in {"none", "open"}
           /\ stopping \in {"no", "poll", "heartbeat", "session"}
           /\ poll \in {"dead", "next", "request", "limit", "backoff", "notify",
                        "interval", "error"}
           /\ attempt \in 0..MaxRetries
           /\ heartbeat \in {"dead", "asleep", "due"}
           /\ age \in 0..(HeartbeatTimeout + 1)
           /\ api \in {"up", "down"} /\ limited \in BOOLEAN
           /\ Lifecycle /\ StopOrder /\ LimitRemembered

Data == /\ last \in Observations \cup {NoObservation}
        /\ buffer \in Seq(Observations) /\ Len(buffer) <= BufferMax
        /\ OnlyPlausible

(* The invariant splits into what the callers, the poll and the monitor may*)
(* do and what is known of the observations.                               *)
LEMMA IInvParts == IInv <=> Control /\ Data
  BY DEF IInv, TypeOK, Control, Data

(* A step that leaves the observations alone keeps what is known of them.  *)
LEMMA DataUnchanged == Data /\ UNCHANGED <<last, buffer>> => Data'
  BY DEF Data, OnlyPlausible

(* The caller's steps, and those of a stop() that is going on.             *)
LEMMA CallerControl == Control /\ (Start \/ Stop \/ Stopping) => Control' /\ UNCHANGED <<last, buffer>>
<1> SUFFICES ASSUME Control, Start \/ Stop \/ Stopping
             PROVE  Control' /\ UNCHANGED <<last, buffer>>
  OBVIOUS
<1> USE BoundsAssumption DEF Control, States, Lifecycle, StopOrder, LimitRemembered, dataVars
<1>1. CASE Start
  BY <1>1 DEF Start
<1>2. CASE Stop
  BY <1>2 DEF Stop
<1>3. CASE PollCancelled
  <2>1. attempt' \in 0..MaxRetries
    BY <1>3 DEF PollCancelled
  <2> QED
    BY <1>3, <2>1 DEF PollCancelled, lifeVars
<1>4. CASE StopHeartbeat
  BY <1>4 DEF StopHeartbeat
<1>5. CASE HeartbeatCancelled
  BY <1>5 DEF HeartbeatCancelled, lifeVars
<1>6. CASE StopSession
  BY <1>6 DEF StopSession
<1>7. CASE SessionClosed
  BY <1>7 DEF SessionClosed
<1> QED
  BY <1>1, <1>2, <1>3, <1>4, <1>5, <1>6, <1>7 DEF Stopping

(* The steps of the polling task that receive no valid observation.        *)
PollWithoutData ==
  \/ BeginCycle \/ AttemptFailed \/ ClientRejected
  \/ RateLimited \/ LimitCallbackReturned \/ LimitCallbackRaised \/ BackoffOver
  \/ \E body \in Bodies : ReceiveInvalid(body) \/ ReceiveUnparsable(body)
  \/ CallbacksNotified \/ IntervalOver \/ ErrorOver

(* The steps of the poll that store no observation.                        *)
LEMMA PollControl == Control /\ PollWithoutData => Control' /\ UNCHANGED <<last, buffer>>
<1> SUFFICES ASSUME Control, PollWithoutData
             PROVE  Control' /\ UNCHANGED <<last, buffer>>
  OBVIOUS
<1> USE BoundsAssumption DEF Control, States, Lifecycle, StopOrder, LimitRemembered,
        dataVars, lifeVars, At, EndCycle, LoopError, CalculateBackoff
<1>1. CASE BeginCycle
  BY <1>1 DEF BeginCycle
<1>2. CASE AttemptFailed
  BY <1>2 DEF AttemptFailed
<1>3. CASE ClientRejected
  BY <1>3 DEF ClientRejected
<1>4. CASE RateLimited
  BY <1>4 DEF RateLimited
<1>5. CASE LimitCallbackReturned
  BY <1>5 DEF LimitCallbackReturned
<1>6. CASE LimitCallbackRaised
  BY <1>6 DEF LimitCallbackRaised
<1>7. CASE BackoffOver
  <2>1. attempt' \in 0..MaxRetries
    BY <1>7 DEF BackoffOver
  <2> QED
    BY <1>7, <2>1 DEF BackoffOver
<1>8. ASSUME NEW body \in Bodies, ReceiveInvalid(body)
      PROVE  Control' /\ UNCHANGED <<last, buffer>>
  BY <1>8 DEF ReceiveInvalid
<1>9. ASSUME NEW body \in Bodies, ReceiveUnparsable(body)
      PROVE  Control' /\ UNCHANGED <<last, buffer>>
  BY <1>9 DEF ReceiveUnparsable
<1>10. CASE CallbacksNotified
  BY <1>10 DEF CallbacksNotified
<1>11. CASE IntervalOver
  BY <1>11 DEF IntervalOver
<1>12. CASE ErrorOver
  <2>1. attempt' \in 0..MaxRetries
    BY <1>12 DEF ErrorOver
  <2> QED
    BY <1>12, <2>1 DEF ErrorOver
<1> HIDE DEF Control, States, Lifecycle, StopOrder, LimitRemembered,
             dataVars, lifeVars, At, EndCycle, LoopError, CalculateBackoff
<1>13. CASE \E body \in Bodies : ReceiveInvalid(body) \/ ReceiveUnparsable(body)
  BY <1>8, <1>9, <1>13
<1> QED
  BY <1>1, <1>2, <1>3, <1>4, <1>5, <1>6, <1>7, <1>10, <1>11, <1>12, <1>13
  DEF PollWithoutData

(* The monitor, time and the provider.                                     *)
LEMMA EnvironmentControl ==
  Control /\ (HeartbeatMonitor \/ Tick \/ ApiChanges) => Control' /\ UNCHANGED <<last, buffer>>
<1> SUFFICES ASSUME Control, HeartbeatMonitor \/ Tick \/ ApiChanges
             PROVE  Control' /\ UNCHANGED <<last, buffer>>
  OBVIOUS
<1> USE BoundsAssumption DEF Control, States, Lifecycle, StopOrder, LimitRemembered,
        dataVars, lifeVars
<1>1. CASE HeartbeatMonitor
  BY <1>1 DEF HeartbeatMonitor
<1>2. CASE Tick
  BY <1>2 DEF Tick
<1>3. CASE ApiChanges
  BY <1>3 DEF ApiChanges
<1> QED
  BY <1>1, <1>2, <1>3

(* A valid observation is stored, and the buffer stays plausible.          *)
LEMMA ReceiveValidIInv ==
  ASSUME Control, Data, NEW body \in Bodies, ReceiveValid(body)
  PROVE  Control' /\ Data'
<1> DEFINE obs == ParseObservation(body)
<1>1. Control'
  BY BoundsAssumption
  DEF ReceiveValid, Control, States, Lifecycle, StopOrder, LimitRemembered, lifeVars, At
<1>2. obs \in Observations /\ obs # NoObservation
  BY ReadingsTyped, NoObservationAssumption
<1>3. Plausible(obs)
  BY GoodIsPlausible DEF ReceiveValid, Good
<1>4. last' = obs /\ buffer' = BufferAppend(buffer, obs)
  BY DEF ReceiveValid
<1> HIDE DEF obs
<1>5. /\ buffer' \in Seq(Observations) /\ Len(buffer') <= BufferMax
      /\ Len(buffer') > 0 /\ buffer'[Len(buffer')] = obs
      /\ \A i \in 1..Len(buffer') :
           buffer'[i] = obs \/ \E j \in 1..Len(buffer) : buffer'[i] = buffer[j]
  <2>1. buffer \in Seq(Observations) /\ Len(buffer) <= BufferMax
    BY DEF Data
  <2> DEFINE new == BufferAppend(buffer, obs)
  <2>2. /\ new \in Seq(Observations) /\ Len(new) <= BufferMax
        /\ Len(new) > 0 /\ new[Len(new)] = obs
        /\ \A i \in 1..Len(new) : new[i] = obs \/ \E j \in 1..Len(buffer) : new[i] = buffer[j]
    <3>1. obs \in Observations
      BY <1>2
    <3> QED
      BY <2>1, <3>1, BufferAppended
  <2>3. buffer' = new
    BY <1>4
  <2> HIDE DEF new
  <2> QED
    BY <2>2, <2>3
<1>6. DOMAIN buffer = 1..Len(buffer) /\ DOMAIN buffer' = 1..Len(buffer')
  BY <1>5 DEF Data
<1>7. \A i \in DOMAIN buffer' : Plausible(buffer'[i])
  BY <1>3, <1>5, <1>6 DEF Data, OnlyPlausible
<1>8. buffer' # <<>>
  BY <1>5
<1>9. OnlyPlausible'
  BY <1>2, <1>4, <1>5, <1>7, <1>8 DEF OnlyPlausible
<1> QED
  BY <1>1, <1>2, <1>4, <1>5, <1>9 DEF Data

(* Every step of the feed, its callers and the provider keeps the          *)
(* invariant.                                                              *)
LEMMA StepIInv == IInv /\ [Next]_vars => IInv'
<1> SUFFICES ASSUME Control, Data, [Next]_vars PROVE Control' /\ Data'
  BY IInvParts, PTL
<1>1. CASE Start \/ Stop \/ Stopping
  BY <1>1, CallerControl, DataUnchanged
<1>2. CASE PollWithoutData
  BY <1>2, PollControl, DataUnchanged
<1>3. CASE \E body \in Bodies : ReceiveValid(body)
  BY <1>3, ReceiveValidIInv
<1>4. CASE HeartbeatMonitor \/ Tick \/ ApiChanges
  BY <1>4, EnvironmentControl, DataUnchanged
<1>5. CASE UNCHANGED vars
  <2>1. UNCHANGED <<last, buffer>>
    BY <1>5 DEF vars, dataVars
  <2>2. Control'
    BY <1>5 DEF vars, dataVars, lifeVars, Control, Lifecycle, StopOrder, LimitRemembered
  <2> QED
    BY <2>1, <2>2, DataUnchanged
<1> QED
  BY <1>1, <1>2, <1>3, <1>4, <1>5 DEF Next, Poll, PollWithoutData

(* The invariant holds in every state the feed can reach.                  *)
THEOREM Invariance == Spec => []IInv
  BY InitIInv, StepIInv, PTL DEF Spec

(***************************************************************************)
(* The results.                                                            *)
(***************************************************************************)
(* The variables of FastWeatherFeed keep their ranges; in particular no    *)
(* fetch makes more attempts than max_retries + 1 and the audit buffer     *)
(* keeps its bound.                                                        *)
THEOREM TypeCorrect == Spec => []TypeOK
<1>1. IInv => TypeOK
  BY DEF IInv
<1> QED
  BY <1>1, Invariance, PTL

(* start() and stop() leave the feed whole or wholly stopped.              *)
THEOREM LifecycleHolds == Spec => []Lifecycle
<1>1. IInv => Lifecycle
  BY DEF IInv
<1> QED
  BY <1>1, Invariance, PTL

(* A 429 is followed by a sleep, whatever the callback does.               *)
THEOREM RestAfterLimitHolds == Spec => []RestAfterLimit
<1>1. IInv => RestAfterLimit
  BY DEF IInv, LimitRemembered, RestAfterLimit
<1> QED
  BY <1>1, Invariance, PTL

(* Readers of the feed see validated readings only.                        *)
THEOREM OnlyPlausibleHolds == Spec => []OnlyPlausible
<1>1. IInv => OnlyPlausible
  BY DEF IInv
<1> QED
  BY <1>1, Invariance, PTL
=============================================================================
