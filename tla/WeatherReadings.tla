---------------------------- MODULE WeatherReadings ----------------------------
(***************************************************************************)
(* One place's weather: web reads the shared cache and asks a Celery       *)
(* worker, the worker asks the Composer agent through files, or calls the  *)
(* provider itself when the agent does not offer the call                  *)
(* (dlux/weather.py, relay.py, views/weather.py).                          *)
(*                                                                         *)
(* The agent is external: it answers a request, in time or not.  A search  *)
(* for a place waits in the same way for one answer of its own and is left *)
(* out, and so is the development server, which calls the provider itself. *)
(***************************************************************************)
EXTENDS Naturals

CONSTANTS
  MaxVisits,    \* requests of the widget at a time
  MaxWorkers,   \* workers at a time
  MaxTasks,     \* bound on messages waiting
  MaxTroubles   \* bound on what goes wrong or out of date

Visits == 1..MaxVisits
Workers == 1..MaxWorkers

VARIABLES
  reading,   \* the cached reading
  lease,     \* the reading's ":refresh" mark: somebody has asked
  error,     \* its ":error" mark: the last attempt failed
  reached,   \* the cached answer whether a worker can be reached
  running,   \* a worker can be reached
  tasks,     \* weather_refresh messages
  visits,    \* what each request of the widget is about to do
  workers,   \* where each refresh_reading is
  shown,     \* what the widget was told last
  troubles

weather == <<reading, lease, error, reached, running, tasks, visits, workers,
             shown, troubles>>

Readings == {"none", "fresh", "stale"}
Answers == {"nothing", "pending", "unavailable", "stale", "fresh"}

Init ==
  /\ reading = "none" /\ lease = FALSE /\ error = FALSE
  /\ reached = "unasked" /\ running \in BOOLEAN
  /\ tasks = 0
  /\ visits = [v \in Visits |-> "off"] /\ workers = [w \in Workers |-> "off"]
  /\ shown = "nothing" /\ troubles = 0

Trouble == troubles < MaxTroubles /\ troubles' = troubles + 1

-----------------------------------------------------------------------------
(* current_weather: a fresh reading is served; otherwise the first to take *)
(* the lease asks a worker, and everyone gets what there is.               *)

Read(v) ==
  /\ visits[v] = "off"
  /\ IF reading = "fresh"
       THEN shown' = "fresh" /\ UNCHANGED visits
       ELSE visits' = [visits EXCEPT ![v] = reading] /\ UNCHANGED shown
  /\ UNCHANGED <<reading, lease, error, reached, running, tasks, workers, troubles>>

Leave(v, answer) == visits' = [visits EXCEPT ![v] = "off"] /\ shown' = answer
Had(v) == visits[v] = "stale"

Wait(v) ==
  /\ visits[v] \in Readings /\ lease
  /\ Leave(v, IF Had(v) THEN "stale" ELSE IF error THEN "unavailable" ELSE "pending")
  /\ UNCHANGED <<reading, lease, error, reached, running, tasks, workers, troubles>>

TakeLease(v) ==
  /\ visits[v] \in Readings /\ ~lease
  /\ lease' = TRUE
  /\ visits' = [visits EXCEPT ![v] = IF Had(v) THEN "asking again" ELSE "asking"]
  /\ UNCHANGED <<reading, error, reached, running, tasks, workers, shown, troubles>>

Asks(v) == visits[v] \in {"asking", "asking again"}

(* weather_worker_available: a worker's answer is kept for a minute.       *)
Ping(v) ==
  /\ Asks(v) /\ reached = "unasked"
  /\ reached' = IF running THEN "yes" ELSE "no"
  /\ UNCHANGED <<reading, lease, error, running, tasks, visits, workers, shown, troubles>>

Dispatch(v) ==
  /\ Asks(v) /\ reached = "yes" /\ tasks < MaxTasks
  /\ Leave(v, IF visits[v] = "asking again" THEN "stale" ELSE "pending")
  /\ tasks' = tasks + 1
  /\ UNCHANGED <<reading, lease, error, reached, running, workers, troubles>>

GiveUp(v) ==
  /\ Asks(v)
  /\ \/ reached = "no" /\ UNCHANGED troubles
     \/ reached = "yes" /\ Trouble                  \* the broker refuses
  /\ error' = TRUE
  /\ Leave(v, IF visits[v] = "asking again" THEN "stale" ELSE "unavailable")
  /\ UNCHANGED <<reading, lease, reached, running, tasks, workers>>

-----------------------------------------------------------------------------
(* refresh_reading, in a worker: relay.fetch when the agent offers it.     *)

Move(w, at) == workers' = [workers EXCEPT ![w] = at]

Begin(w) ==
  /\ running /\ tasks > 0 /\ workers[w] = "off"
  /\ tasks' = tasks - 1 /\ \E by \in {"agent", "itself"} : Move(w, by)
  /\ UNCHANGED <<reading, lease, error, reached, running, visits, shown, troubles>>

(* External: the agent's result, which relay.wait reads and removes.       *)
Answer(w) ==
  /\ workers[w] \in {"agent", "itself"} /\ Move(w, "answered")
  /\ UNCHANGED <<reading, lease, error, reached, running, tasks, visits, shown, troubles>>

(* A time-out, a refusal, or an answer without the fields asked for.       *)
Fail(w) ==
  /\ workers[w] \in {"agent", "itself"} /\ Trouble
  /\ error' = TRUE /\ Move(w, "off")
  /\ UNCHANGED <<reading, lease, reached, running, tasks, visits, shown>>

Keep(w) ==
  /\ workers[w] = "answered"
  /\ reading' = "fresh" /\ Move(w, "kept")
  /\ UNCHANGED <<lease, error, reached, running, tasks, visits, shown, troubles>>

Clear(w) ==
  /\ workers[w] = "kept" /\ error' = FALSE /\ Move(w, "off")
  /\ UNCHANGED <<reading, lease, reached, running, tasks, visits, shown, troubles>>

-----------------------------------------------------------------------------
(* Marks expire, after 30 seconds and a minute.                            *)

ExpireLease ==
  /\ lease /\ lease' = FALSE
  /\ UNCHANGED <<reading, error, reached, running, tasks, visits, workers, shown, troubles>>

ExpireError ==
  /\ error /\ error' = FALSE
  /\ UNCHANGED <<reading, lease, reached, running, tasks, visits, workers, shown, troubles>>

ForgetReached ==
  /\ reached # "unasked" /\ reached' = "unasked"
  /\ UNCHANGED <<reading, lease, error, running, tasks, visits, workers, shown, troubles>>

(* A reading is fresh for a quarter of an hour and kept for a day.         *)
Age ==
  /\ Trouble
  /\ \/ reading = "fresh" /\ reading' = "stale"
     \/ reading = "stale" /\ reading' = "none"
  /\ UNCHANGED <<lease, error, reached, running, tasks, visits, workers, shown>>

(* Workers stop, or a message is lost.                                     *)
Disturb ==
  /\ Trouble
  /\ \/ running /\ running' = FALSE /\ workers' = [w \in Workers |-> "off"]
        /\ UNCHANGED tasks
     \/ tasks > 0 /\ tasks' = tasks - 1 /\ UNCHANGED <<running, workers>>
  /\ UNCHANGED <<reading, lease, error, reached, visits, shown>>

Start ==
  /\ ~running /\ running' = TRUE
  /\ UNCHANGED <<reading, lease, error, reached, tasks, visits, workers, shown, troubles>>

Serve == \E v \in Visits : Wait(v) \/ TakeLease(v) \/ Ping(v) \/ Dispatch(v) \/ GiveUp(v)
Refresh == \E w \in Workers : Begin(w) \/ Answer(w) \/ Keep(w) \/ Clear(w)
Visit == \E v \in Visits : Read(v)
Expire == ExpireLease \/ ExpireError \/ ForgetReached

Next ==
  \/ Serve \/ Refresh \/ Visit \/ Expire \/ Age \/ Disturb \/ Start
  \/ \E w \in Workers : Fail(w)

-----------------------------------------------------------------------------
WeatherTypeOK ==
  /\ reading \in Readings /\ shown \in Answers
  /\ {lease, error, running} \subseteq BOOLEAN
  /\ reached \in {"unasked", "yes", "no"}
  /\ visits \in [Visits -> {"off", "asking", "asking again"} \cup Readings]
  /\ workers \in [Workers -> {"off", "agent", "itself", "answered", "kept"}]
  /\ tasks \in 0..MaxTasks /\ troubles \in 0..MaxTroubles

(* Once nothing goes wrong any more the widget shows a fresh reading: no   *)
(* lease, error or answer about the worker outlives its cause for good.    *)
Shows == shown = "fresh"
=============================================================================
