--------------------------- MODULE CircuitBreaker ---------------------------
(***************************************************************************)
(* The circuit breaker of one campaign: two sorted sets in Redis, one of   *)
(* failed and one of successful outcomes, that every worker which learns   *)
(* of an outcome trims to a sliding window, adds to and counts in one      *)
(* script.  What surrounds the script is not atomic: the state of the      *)
(* campaign is read before, the clock is read before, and the pause is     *)
(* written after it, while the orchestrator makes its own check and the    *)
(* user pauses and resumes.                                                *)
(*                                                                         *)
(* An outcome and the task that records it have one name.  The code names  *)
(* the members of the sets by their time, a float of microseconds: here no *)
(* two outcomes share one.                                                 *)
(***************************************************************************)
EXTENDS Integers, FiniteSets

CONSTANTS
  Outcomes,     \* of the calls of the campaign
  Window,       \* window_seconds
  Buffer,       \* what a key outlives the window by, 60 s
  MinCalls,     \* min_calls_in_window
  Percent,      \* failure_threshold in percent
  RedisFails,   \* the commands of the breaker may raise
  WritesFail,   \* the update that pauses the campaign may raise
  MaxClock,     \* bound on time
  MaxResumes    \* bound on resumes

ASSUME WindowAssumption == Window \in Nat /\ Buffer \in Nat
ASSUME LimitAssumption == MinCalls \in Nat \ {0} /\ Percent \in Nat
ASSUME FaultAssumption == RedisFails \in BOOLEAN /\ WritesFail \in BOOLEAN
ASSUME BoundAssumption == MaxClock \in Nat /\ MaxResumes \in Nat

VARIABLES
  clock,
  state,      \* of the campaign, running or paused
  failures,   \* the sorted set cb_failures; the score of an outcome is at[o]
  successes,  \* the sorted set cb_successes
  expires,    \* when the two keys expire, together
  task,       \* where record_and_evaluate stands
  at,         \* the time it has read
  failed,     \* is_failure
  check,      \* where the check of the orchestrator stands
  since,      \* the time it has read
  resetting,  \* resume_campaign has written the state and not yet reset the breaker
  resumes,    \* how many there were
  told,       \* outcomes recorded since the last reset: for the properties only
  missed      \* a pause or a reset has failed and no verdict was given since: likewise

redisVars == <<failures, successes, expires>>
taskVars == <<task, at, failed>>
checkVars == <<check, since>>
resumeVars == <<resetting, resumes>>
history == <<told, missed>>
vars == <<clock, state, redisVars, taskVars, checkVars, resumeVars, history>>

TypeOK ==
  /\ clock \in Nat /\ state \in {"running", "paused"}
  /\ failures \subseteq Outcomes /\ successes \subseteq Outcomes /\ told \subseteq Outcomes
  /\ expires \in Nat
  /\ task \in [Outcomes -> {"none", "clock", "eval", "trip", "done"}]
  /\ at \in [Outcomes -> Nat] /\ failed \in [Outcomes -> BOOLEAN]
  /\ check \in {"idle", "eval", "trip"} /\ since \in Nat
  /\ resetting \in BOOLEAN /\ resumes \in 0 .. MaxResumes
  /\ missed \in BOOLEAN

Init ==
  /\ clock = 0 /\ state = "running"
  /\ failures = {} /\ successes = {} /\ expires = 0
  /\ task = [o \in Outcomes |-> "none"]
  /\ at = [o \in Outcomes |-> 0] /\ failed = [o \in Outcomes |-> FALSE]
  /\ check = "idle" /\ since = 0
  /\ resetting = FALSE /\ resumes = 0
  /\ told = {} /\ missed = FALSE

-----------------------------------------------------------------------------
(* The scripts.  A definition named Slip... is the one that follows it with *)
(* a plausible mistake.                                                     *)

\* ZREMRANGEBYSCORE up to the start of the window, which is outside of it; keys
\* that have expired are empty.
SlipTrim(S, now) == IF clock < expires THEN {o \in S : at[o] + Window >= now} ELSE {}
Trim(S, now) == IF clock < expires THEN {o \in S : at[o] + Window > now} ELSE {}

\* failures / total >= threshold, of enough outcomes.
SlipTrips(bad, good) ==
  /\ Cardinality(bad) + Cardinality(good) > MinCalls
  /\ Cardinality(bad) * 100 >= Percent * (Cardinality(bad) + Cardinality(good))
Trips(bad, good) ==
  /\ Cardinality(bad) + Cardinality(good) >= MinCalls
  /\ Cardinality(bad) * 100 >= Percent * (Cardinality(bad) + Cardinality(good))

Lifetime == Window + Buffer

-----------------------------------------------------------------------------
(* record_and_evaluate. *)

\* Only an outcome of a running campaign is recorded.
Report(o) ==
  /\ task[o] = "none"
  /\ task' = [task EXCEPT ![o] = IF state = "running" THEN "clock" ELSE "done"]
  /\ failed' \in {[failed EXCEPT ![o] = b] : b \in BOOLEAN}
  /\ UNCHANGED <<clock, state, redisVars, at, checkVars, resumeVars, history>>

SlipNow == clock - Window
Now == clock

ReadClock(o) ==
  /\ task[o] = "clock"
  /\ task' = [task EXCEPT ![o] = "eval"]
  /\ at' = [at EXCEPT ![o] = Now]
  /\ UNCHANGED <<clock, state, redisVars, failed, checkVars, resumeVars, history>>

Record(o) ==
  LET bad  == Trim(failures, at[o]) \cup (IF failed[o] THEN {o} ELSE {})
      good == Trim(successes, at[o]) \cup (IF failed[o] THEN {} ELSE {o})
  IN  /\ task[o] = "eval"
      /\ failures' = bad /\ successes' = good
      /\ expires' = clock + Lifetime
      /\ task' = [task EXCEPT ![o] = IF Trips(bad, good) THEN "trip" ELSE "done"]
      /\ told' = told \cup {o} /\ missed' = FALSE
      /\ UNCHANGED <<clock, state, at, failed, checkVars, resumeVars>>

\* An error does not trip, and the outcome is not recorded.
RecordFails(o) ==
  /\ RedisFails
  /\ task[o] = "eval"
  /\ task' = [task EXCEPT ![o] = "done"]
  /\ UNCHANGED <<clock, state, redisVars, at, failed, checkVars, resumeVars, history>>

\* The state is written whatever it is by now, or the update raises and that is
\* all.  The event that follows is CampaignOrchestrator's.
WritePause ==
  \/ state' = "paused" /\ UNCHANGED missed
  \/ WritesFail /\ missed' = TRUE /\ UNCHANGED state

Trip(o) ==
  /\ task[o] = "trip"
  /\ task' = [task EXCEPT ![o] = "done"]
  /\ WritePause
  /\ UNCHANGED <<clock, redisVars, at, failed, checkVars, resumeVars, told>>

RecordAndEvaluate(o) ==
  \/ Report(o)
  \/ ReadClock(o)
  \/ Record(o)
  \/ RecordFails(o)
  \/ Trip(o)

-----------------------------------------------------------------------------
(* is_circuit_open, before the orchestrator schedules a batch.              *)

StartCheck ==
  /\ check = "idle" /\ state = "running"
  /\ check' = "eval" /\ since' = clock
  /\ UNCHANGED <<clock, state, redisVars, taskVars, resumeVars, history>>

CheckOpen ==
  /\ check = "eval"
  /\ failures' = Trim(failures, since) /\ successes' = Trim(successes, since)
  /\ check' = IF Trips(failures', successes') THEN "trip" ELSE "idle"
  /\ missed' = FALSE
  /\ UNCHANGED <<clock, state, expires, taskVars, since, resumeVars, told>>

CheckFails ==
  /\ RedisFails
  /\ check = "eval"
  /\ check' = "idle"
  /\ UNCHANGED <<clock, state, redisVars, taskVars, since, resumeVars, history>>

TripAtCheck ==
  /\ check = "trip"
  /\ check' = "idle"
  /\ WritePause
  /\ UNCHANGED <<clock, redisVars, taskVars, since, resumeVars, told>>

Check ==
  \/ StartCheck
  \/ CheckOpen
  \/ CheckFails
  \/ TripAtCheck

-----------------------------------------------------------------------------
(* The user, and time. *)

PauseCampaign ==
  /\ state = "running"
  /\ state' = "paused"
  /\ UNCHANGED <<clock, redisVars, taskVars, checkVars, resumeVars, history>>

\* The state comes first, the clean slate after it.
ResumeCampaign ==
  /\ state = "paused" /\ ~resetting
  /\ resumes < MaxResumes
  /\ state' = "running"
  /\ resetting' = TRUE /\ resumes' = resumes + 1
  /\ UNCHANGED <<clock, redisVars, taskVars, checkVars, history>>

\* An error leaves the outcomes where they are.
Reset ==
  /\ resetting
  /\ resetting' = FALSE
  /\ \/ failures' = {} /\ successes' = {} /\ told' = {} /\ UNCHANGED missed
     \/ RedisFails /\ missed' = TRUE /\ UNCHANGED <<failures, successes, told>>
  /\ UNCHANGED <<clock, state, expires, taskVars, checkVars, resumes>>

Tick ==
  /\ clock < MaxClock
  /\ clock' = clock + 1
  /\ UNCHANGED <<state, redisVars, taskVars, checkVars, resumeVars, history>>

Next ==
  \/ \E o \in Outcomes : RecordAndEvaluate(o)
  \/ Check \/ PauseCampaign \/ ResumeCampaign \/ Reset \/ Tick

Spec == Init /\ [][Next]_vars

-----------------------------------------------------------------------------
(* Properties. *)

Recent(now) == {o \in told : at[o] + Window > now}

\* No outcome leaves the sets while it is in the window: not by the trimming of
\* a worker whose clock is ahead, not by the check, not by the expiry of a key.
Retained ==
  \A o \in Recent(clock) :
    clock < expires /\ o \in (IF failed[o] THEN failures ELSE successes)

\* A verdict is about the window: it counts all that is in it now, and nothing
\* that has left it when the worker read the clock or has been reset.
CountsTheWindow ==
  [][\A o \in Outcomes : o \in told' \ told =>
       Recent(clock) \subseteq failures' \cup successes'
       /\ failures' \cup successes' \subseteq {p \in told' : at[p] + Window > at[o]} \cup {o}]_vars

Overloaded ==
  LET bad == {o \in told : failed[o]}
      good == {o \in told : ~failed[o]}
  IN  /\ Cardinality(bad) + Cardinality(good) >= MinCalls
      /\ Cardinality(bad) * 100 >= Percent * (Cardinality(bad) + Cardinality(good))

\* A running campaign all of whose recorded outcomes are in the window, too many
\* of them failed, is about to be paused: by a worker, by the check, or it has
\* been resumed and is about to be reset.  A pause or a reset that raised is made
\* up for by the next verdict, of an outcome or of the check, whatever else was
\* under way: nothing but that verdict is missing.
OverloadIsSeen ==
  /\ state = "running" /\ Recent(clock) = told
  /\ Overloaded
  => \/ \E o \in Outcomes : task[o] = "trip"
     \/ check = "trip" \/ resetting \/ missed
=============================================================================
