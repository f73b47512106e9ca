------------------------ MODULE CircuitBreaker_proofs ------------------------
(***************************************************************************)
(* Theorems about CircuitBreaker for every set of outcomes, every window,  *)
(* threshold and least number of calls, and every bound.                   *)
(***************************************************************************)
EXTENDS CircuitBreaker, FiniteSetTheorems, TLAPS

USE DEF redisVars, taskVars, checkVars, resumeVars, history

LEMMA TypeInit == Init => TypeOK
<1> SUFFICES ASSUME Init PROVE TypeOK
  OBVIOUS
<1>1. resumes \in 0 .. MaxResumes /\ clock \in Nat /\ since \in Nat /\ expires \in Nat
  BY BoundAssumption DEF Init
<1>2. /\ task \in [Outcomes -> {"none", "clock", "eval", "trip", "done"}]
      /\ at \in [Outcomes -> Nat] /\ failed \in [Outcomes -> BOOLEAN]
  BY DEF Init
<1>3. QED
  BY <1>1, <1>2 DEF Init, TypeOK

LEMMA TypeStep ==
  ASSUME TypeOK, [Next]_vars
  PROVE  TypeOK'
<1> USE WindowAssumption, BoundAssumption DEF TypeOK
<1>1. ASSUME NEW o \in Outcomes, Report(o) PROVE TypeOK'
  BY <1>1 DEF Report
<1>2. ASSUME NEW o \in Outcomes, ReadClock(o) PROVE TypeOK'
  BY <1>2 DEF ReadClock, Now
<1>3. ASSUME NEW o \in Outcomes, Record(o) PROVE TypeOK'
  <2>1. missed' \in BOOLEAN
    BY <1>3 DEF Record
  <2>2. QED
    BY <1>3, <2>1 DEF Record, Trim, Lifetime
<1>4. ASSUME NEW o \in Outcomes, RecordFails(o) PROVE TypeOK'
  BY <1>4 DEF RecordFails
<1>5. ASSUME NEW o \in Outcomes, Trip(o) PROVE TypeOK'
  BY <1>5 DEF Trip, WritePause
<1>6. CASE StartCheck
  BY <1>6 DEF StartCheck
<1>7. CASE CheckOpen
  BY <1>7 DEF CheckOpen, Trim
<1>8. CASE CheckFails
  BY <1>8 DEF CheckFails
<1>9. CASE TripAtCheck
  BY <1>9 DEF TripAtCheck, WritePause
<1>10. CASE PauseCampaign
  BY <1>10 DEF PauseCampaign
<1>11. CASE ResumeCampaign
  BY <1>11 DEF ResumeCampaign
<1>12. CASE Reset
  BY <1>12 DEF Reset
<1>13. CASE Tick
  BY <1>13 DEF Tick
<1>14. CASE UNCHANGED vars
  BY <1>14 DEF vars
<1>15. QED
  BY <1>1, <1>2, <1>3, <1>4, <1>5, <1>6, <1>7, <1>8, <1>9, <1>10, <1>11, <1>12, <1>13, <1>14
     DEF Next, RecordAndEvaluate, Check

\* Every variable keeps its type.
THEOREM TypeCorrect == Spec => []TypeOK
  BY TypeInit, TypeStep, PTL DEF Spec

-----------------------------------------------------------------------------
(* The sets of Redis hold recorded outcomes, each in the set of its kind,   *)
(* all that are in the window, and for as long.                             *)

Inv ==
  /\ TypeOK
  /\ failures \subseteq told /\ successes \subseteq told
  /\ \A o \in failures : failed[o]
  /\ \A o \in successes : ~failed[o]
  /\ \A o \in told : task[o] \in {"trip", "done"} /\ at[o] + Window <= expires
  /\ \A o \in Outcomes : at[o] <= clock
  /\ since <= clock /\ (resetting => resumes > 0)
  /\ expires <= clock + Window + Buffer

Kept == \A o \in Recent(clock) : o \in (IF failed[o] THEN failures ELSE successes)

LEMMA InvInit == Init => Inv /\ Kept /\ OverloadIsSeen
<1> SUFFICES ASSUME Init PROVE Inv /\ Kept /\ OverloadIsSeen
  OBVIOUS
<1>1. Inv /\ Kept
  BY TypeInit, WindowAssumption DEF Init, Inv, Kept, Recent
<1>2. ~Overloaded
  <2>1. {o \in told : failed[o]} = {} /\ {o \in told : ~failed[o]} = {}
    BY DEF Init
  <2>2. Cardinality({}) = 0
    BY FS_EmptySet
  <2>3. QED
    BY <2>1, <2>2, LimitAssumption DEF Overloaded
<1>3. QED
  BY <1>1, <1>2 DEF OverloadIsSeen

LEMMA InvStep ==
  ASSUME Inv, [Next]_vars
  PROVE  Inv'
<1> USE WindowAssumption, BoundAssumption DEF Inv, TypeOK
<1>1. ASSUME NEW o \in Outcomes, Report(o) PROVE Inv'
  BY <1>1 DEF Report
<1>2. ASSUME NEW o \in Outcomes, ReadClock(o) PROVE Inv'
  BY <1>2 DEF ReadClock, Now
<1>3. ASSUME NEW o \in Outcomes, Record(o) PROVE Inv'
  <2>1. missed' \in BOOLEAN
    BY <1>3 DEF Record
  <2>2. QED
    BY <1>3, <2>1 DEF Record, Trim, Lifetime
<1>4. ASSUME NEW o \in Outcomes, RecordFails(o) PROVE Inv'
  BY <1>4 DEF RecordFails
<1>5. ASSUME NEW o \in Outcomes, Trip(o) PROVE Inv'
  BY <1>5 DEF Trip, WritePause
<1>6. CASE StartCheck
  BY <1>6 DEF StartCheck
<1>7. CASE CheckOpen
  BY <1>7 DEF CheckOpen, Trim
<1>8. CASE CheckFails
  BY <1>8 DEF CheckFails
<1>9. CASE TripAtCheck
  BY <1>9 DEF TripAtCheck, WritePause
<1>10. CASE PauseCampaign
  BY <1>10 DEF PauseCampaign
<1>11. CASE ResumeCampaign
  BY <1>11 DEF ResumeCampaign
<1>12. CASE Reset
  BY <1>12 DEF Reset
<1>13. CASE Tick
  BY <1>13 DEF Tick
<1>14. CASE UNCHANGED vars
  BY <1>14 DEF vars
<1>15. QED
  BY <1>1, <1>2, <1>3, <1>4, <1>5, <1>6, <1>7, <1>8, <1>9, <1>10, <1>11, <1>12, <1>13, <1>14
     DEF Next, RecordAndEvaluate, Check

LEMMA KeptStep ==
  ASSUME Inv, Kept, [Next]_vars
  PROVE  Kept'
<1> USE WindowAssumption, BoundAssumption DEF Inv, TypeOK, Kept, Recent
<1>1. ASSUME NEW o \in Outcomes, Report(o) PROVE Kept'
  BY <1>1 DEF Report
<1>2. ASSUME NEW o \in Outcomes, ReadClock(o) PROVE Kept'
  BY <1>2 DEF ReadClock, Now
<1>3. ASSUME NEW o \in Outcomes, Record(o) PROVE Kept'
  BY <1>3 DEF Record, Trim, Lifetime
<1>4. ASSUME NEW o \in Outcomes, RecordFails(o) PROVE Kept'
  BY <1>4 DEF RecordFails
<1>5. ASSUME NEW o \in Outcomes, Trip(o) PROVE Kept'
  BY <1>5 DEF Trip, WritePause
<1>6. CASE StartCheck
  BY <1>6 DEF StartCheck
<1>7. CASE CheckOpen
  BY <1>7 DEF CheckOpen, Trim
<1>8. CASE CheckFails
  BY <1>8 DEF CheckFails
<1>9. CASE TripAtCheck
  BY <1>9 DEF TripAtCheck, WritePause
<1>10. CASE PauseCampaign
  BY <1>10 DEF PauseCampaign
<1>11. CASE ResumeCampaign
  BY <1>11 DEF ResumeCampaign
<1>12. CASE Reset
  BY <1>12 DEF Reset
<1>13. CASE Tick
  BY <1>13 DEF Tick
<1>14. CASE UNCHANGED vars
  BY <1>14 DEF vars
<1>15. QED
  BY <1>1, <1>2, <1>3, <1>4, <1>5, <1>6, <1>7, <1>8, <1>9, <1>10, <1>11, <1>12, <1>13, <1>14
     DEF Next, RecordAndEvaluate, Check

\* An outcome in the window is in its set, and the key has not expired.
LEMMA KeptRetained ==
  ASSUME Inv, Kept
  PROVE  Retained
  BY WindowAssumption DEF Inv, TypeOK, Kept, Retained, Recent

\* No outcome of the window is lost.
THEOREM WindowIsRetained == Spec => []Retained
<1>1. Init => Inv /\ Kept
  BY InvInit
<1>2. Inv /\ Kept /\ [Next]_vars => Inv' /\ Kept'
  BY InvStep, KeptStep
<1>3. Inv /\ Kept => Retained
  BY KeptRetained
<1>4. QED
  BY <1>1, <1>2, <1>3, PTL DEF Spec

-----------------------------------------------------------------------------
(* What a worker counts. *)

\* Only Record adds to what is recorded.
LEMMA RecordedBy ==
  ASSUME Inv, [Next]_vars, NEW o \in Outcomes, o \in told' \ told
  PROVE  Record(o)
<1> USE DEF Inv, TypeOK
<1>1. ASSUME NEW p \in Outcomes, Record(p) PROVE Record(o)
  BY <1>1 DEF Record
<1>2. ASSUME NEW p \in Outcomes, Report(p) \/ ReadClock(p) \/ RecordFails(p) \/ Trip(p) PROVE FALSE
  BY <1>2 DEF Report, ReadClock, RecordFails, Trip
<1>3. CASE StartCheck \/ CheckOpen \/ CheckFails \/ TripAtCheck
  BY <1>3 DEF StartCheck, CheckOpen, CheckFails, TripAtCheck
<1>4. CASE PauseCampaign \/ ResumeCampaign \/ Reset \/ Tick \/ UNCHANGED vars
  BY <1>4 DEF PauseCampaign, ResumeCampaign, Reset, Tick, vars
<1>5. QED
  BY <1>1, <1>2, <1>3, <1>4 DEF Next, RecordAndEvaluate, Check

Counted ==
  \A o \in Outcomes : o \in told' \ told =>
    Recent(clock) \subseteq failures' \cup successes'
    /\ failures' \cup successes' \subseteq {p \in told' : at[p] + Window > at[o]} \cup {o}

LEMMA CountedStep ==
  ASSUME Inv, Kept, [Next]_vars
  PROVE  Counted
<1> SUFFICES ASSUME NEW o \in Outcomes, o \in told' \ told
             PROVE  /\ Recent(clock) \subseteq failures' \cup successes'
                    /\ failures' \cup successes' \subseteq
                         {p \in told' : at[p] + Window > at[o]} \cup {o}
  BY DEF Counted
<1>1. Record(o)
  BY RecordedBy
<1>2. Retained
  BY KeptRetained
<1>3. \A p \in Recent(clock) : clock < expires /\ at[p] + Window > at[o] /\ p \in failures \cup successes
  BY <1>2, WindowAssumption DEF Retained, Recent, Inv, TypeOK
<1>4. Recent(clock) \subseteq failures' \cup successes'
  BY <1>1, <1>3 DEF Record, Trim
<1>5. failures' \cup successes' \subseteq {p \in told' : at[p] + Window > at[o]} \cup {o}
  BY <1>1 DEF Record, Trim, Inv
<1>6. QED
  BY <1>4, <1>5

\* A verdict counts all that is in the window when it is given and nothing that
\* had left it when the worker read the clock.
THEOREM VerdictCountsTheWindow == Spec => CountsTheWindow
<1>1. Init => Inv /\ Kept
  BY InvInit
<1>2. Inv /\ Kept /\ [Next]_vars => Inv' /\ Kept'
  BY InvStep, KeptStep
<1>3. Inv /\ Kept /\ [Next]_vars => [Counted]_vars
  BY CountedStep
<1>4. QED
  BY <1>1, <1>2, <1>3, PTL DEF Spec, CountsTheWindow, Counted

-----------------------------------------------------------------------------
(* Too many failures are seen. *)

\* The worker that records the last outcome of an overload counts all of them.
LEMMA OverloadTrips ==
  ASSUME Inv, Kept, NEW o \in Outcomes, Record(o), (Recent(clock) = told)', Overloaded'
  PROVE  task'[o] = "trip"
<1> DEFINE bad == {p \in told' : failed'[p]}
           good == {p \in told' : ~failed'[p]}
<1>1. told' = told \cup {o} /\ UNCHANGED <<clock, at, failed>>
  BY DEF Record
<1>2. o \notin told /\ Retained
  BY KeptRetained DEF Record, Inv
<1>3. \A p \in told : at[p] + Window > clock
  BY <1>1 DEF Recent, Inv, TypeOK
<1>4. \A p \in told : clock < expires /\ at[p] + Window > at[o]
                     /\ p \in (IF failed[p] THEN failures ELSE successes)
  BY <1>2, <1>3, WindowAssumption DEF Retained, Recent, Inv, TypeOK
<1>5. failures' = bad /\ successes' = good
  BY <1>1, <1>4 DEF Record, Trim, Inv, TypeOK
<1>6. Trips(bad, good)
  BY DEF Overloaded, Trips
<1>7. QED
  BY <1>5, <1>6 DEF Record, Inv, TypeOK

LEMMA NothingOverloads ==
  ASSUME told' = {}
  PROVE  ~Overloaded'
<1>1. {o \in told' : failed'[o]} = {} /\ {o \in told' : ~failed'[o]} = {}
  OBVIOUS
<1>2. Cardinality({}) = 0
  BY FS_EmptySet
<1>3. QED
  BY <1>1, <1>2, LimitAssumption DEF Overloaded

\* So does the check, which may have read the clock earlier.
LEMMA OverloadOpens ==
  ASSUME Inv, Kept, CheckOpen, (Recent(clock) = told)', Overloaded'
  PROVE  check' = "trip"
<1> DEFINE bad == {p \in told' : failed'[p]}
           good == {p \in told' : ~failed'[p]}
<1>1. UNCHANGED <<told, clock, at, failed>>
  BY DEF CheckOpen
<1>2. Retained
  BY KeptRetained
<1>3. \A p \in told : at[p] + Window > clock
  BY <1>1 DEF Recent, Inv, TypeOK
<1>4. \A p \in told : clock < expires /\ at[p] + Window > since
                     /\ p \in (IF failed[p] THEN failures ELSE successes)
  BY <1>2, <1>3, WindowAssumption DEF Retained, Recent, Inv, TypeOK
<1>5. failures' = bad /\ successes' = good
  BY <1>1, <1>4 DEF CheckOpen, Trim, Inv, TypeOK
<1>6. Trips(bad, good)
  BY DEF Overloaded, Trips
<1>7. QED
  BY <1>5, <1>6 DEF CheckOpen

PausePending ==
  (\E p \in Outcomes : task[p] = "trip") \/ check = "trip" \/ resetting \/ missed

\* An overload that no step has recorded was there before it.
LEMMA OverloadWas ==
  ASSUME Inv, OverloadIsSeen,
         (state = "running" /\ Recent(clock) = told)', Overloaded',
         UNCHANGED <<told, state>>, clock' \in Nat, clock <= clock',
         \A p \in told : failed'[p] = failed[p] /\ at'[p] = at[p]
  PROVE  PausePending
<1>1. /\ {p \in told' : failed'[p]} = {p \in told : failed[p]}
      /\ {p \in told' : ~failed'[p]} = {p \in told : ~failed[p]}
  OBVIOUS
<1>2. Overloaded
  BY <1>1 DEF Overloaded
<1>3. \A p \in told : at[p] + Window > clock
  BY WindowAssumption DEF Recent, Inv, TypeOK
<1>4. Recent(clock) = told
  BY <1>3 DEF Recent
<1>5. QED
  BY <1>2, <1>4 DEF OverloadIsSeen, PausePending

LEMMA OverloadStep ==
  ASSUME Inv, Kept, OverloadIsSeen, [Next]_vars
  PROVE  OverloadIsSeen'
<1> SUFFICES ASSUME (state = "running" /\ Recent(clock) = told)', Overloaded',
                    ~((check = "trip" \/ resetting \/ missed)')
             PROVE  \E p \in Outcomes : task'[p] = "trip"
  BY DEF OverloadIsSeen
<1> USE DEF Inv, TypeOK
<1>1. ASSUME NEW o \in Outcomes, Report(o) PROVE \E p \in Outcomes : task'[p] = "trip"
  <2>1. PausePending
    BY <1>1, OverloadWas DEF Report
  <2>2. QED
    BY <1>1, <2>1, BoundAssumption DEF Report, PausePending
<1>2. ASSUME NEW o \in Outcomes, ReadClock(o) PROVE \E p \in Outcomes : task'[p] = "trip"
  <2>1. PausePending
    BY <1>2, OverloadWas DEF ReadClock, Now
  <2>2. QED
    BY <1>2, <2>1, BoundAssumption DEF ReadClock, Now, PausePending
<1>3. ASSUME NEW o \in Outcomes, Record(o) PROVE \E p \in Outcomes : task'[p] = "trip"
  BY <1>3, OverloadTrips
<1>4. ASSUME NEW o \in Outcomes, RecordFails(o) PROVE \E p \in Outcomes : task'[p] = "trip"
  <2>1. PausePending
    BY <1>4, OverloadWas DEF RecordFails
  <2>2. QED
    BY <1>4, <2>1, BoundAssumption DEF RecordFails, PausePending
<1>5. ASSUME NEW o \in Outcomes, Trip(o) PROVE \E p \in Outcomes : task'[p] = "trip"
  BY <1>5 DEF Trip, WritePause
<1>6. CASE StartCheck
  <2>1. PausePending
    BY <1>6, OverloadWas DEF StartCheck
  <2>2. QED
    BY <1>6, <2>1, BoundAssumption DEF StartCheck, PausePending
<1>7. CASE CheckOpen
  BY <1>7, OverloadOpens
<1>8. CASE CheckFails
  <2>1. PausePending
    BY <1>8, OverloadWas DEF CheckFails
  <2>2. QED
    BY <1>8, <2>1, BoundAssumption DEF CheckFails, PausePending
<1>9. CASE TripAtCheck
  BY <1>9 DEF TripAtCheck, WritePause
<1>10. CASE PauseCampaign
  BY <1>10 DEF PauseCampaign
<1>11. CASE ResumeCampaign
  BY <1>11 DEF ResumeCampaign
<1>12. CASE Reset
  BY <1>12, NothingOverloads, BoundAssumption DEF Reset
<1>13. CASE Tick
  <2>1. PausePending
    BY <1>13, OverloadWas DEF Tick
  <2>2. QED
    BY <1>13, <2>1, BoundAssumption DEF Tick, PausePending
<1>14. CASE UNCHANGED vars
  <2>1. PausePending
    BY <1>14, OverloadWas DEF vars
  <2>2. QED
    BY <1>14, <2>1, BoundAssumption DEF vars, PausePending
<1>15. QED
  BY <1>1, <1>2, <1>3, <1>4, <1>5, <1>6, <1>7, <1>8, <1>9, <1>10, <1>11, <1>12, <1>13, <1>14
     DEF Next, RecordAndEvaluate, Check

\* An overload of a running campaign is about to end in a pause, or the last pause
\* or reset has raised and the next verdict will see it again.
THEOREM OverloadSeen == Spec => []OverloadIsSeen
<1>1. Init => Inv /\ Kept /\ OverloadIsSeen
  BY InvInit
<1>2. Inv /\ Kept /\ OverloadIsSeen /\ [Next]_vars => Inv' /\ Kept' /\ OverloadIsSeen'
  BY InvStep, KeptStep, OverloadStep
<1>3. QED
  BY <1>1, <1>2, PTL DEF Spec
=============================================================================
