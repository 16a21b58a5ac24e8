-------------------------- MODULE SchedulerProofs --------------------------
(***************************************************************************)
(* Proofs about Scheduler for every set of monitors, every plan's          *)
(* intervals and every choice of the timing constants: IInv is inductive,  *)
(* and with it the safety properties of the runs follow.                   *)
(***************************************************************************)
EXTENDS Scheduler, TLAPS

USE DEF Jobs, Phases, Ages, Never, NoRow, database, tickVars

LEMMA JobsBeforeFacts ==
    /\ JobsBefore["purge"] = 0
    /\ JobsBefore["digest"] = MaxJob
    /\ JobsBefore["rollup"] = MaxJob + MaxJob
    /\ JobsBefore["sleep"] = MaxJob + MaxJob + MaxJob
    /\ DOMAIN JobsBefore = {"purge", "digest", "rollup", "sleep"}
BY DEF JobsBefore

LEMMA AfterFacts ==
    /\ After["purge"] = "digest"
    /\ After["digest"] = "rollup"
    /\ After["rollup"] = "sleep"
BY DEF After

\* A monitor that is due stays due as its last result ages.
LEMMA DueStaysDue ==
    ASSUME NEW m \in Monitors, NEW i \in Intervals, NEW a \in Ages, IsDue(m, a, i)
    PROVE  IsDue(m, Older(a), i)
BY TimeAssumption, OffsetAssumption, HorizonAssumption DEF IsDue, Older

LEMMA OlderType == \A a \in Ages : Older(a) \in Ages
BY HorizonAssumption DEF Older

-----------------------------------------------------------------------------

LEMMA InitIInv == Init => IInv
<1> SUFFICES ASSUME Init PROVE IInv
  OBVIOUS
<1> USE TimeAssumption, HorizonAssumption DEF Init
<1>1. TypeOK
  <2>1. status \in [Monitors -> {"absent", "active", "paused", "deleted"}] OBVIOUS
  <2>2. interval \in [Monitors -> Intervals \union {NoRow}] OBVIOUS
  <2>3. age \in [Monitors -> Ages] OBVIOUS
  <2>4. pc \in Phases /\ running \in BOOLEAN /\ phaseTime \in Nat OBVIOUS
  <2>5. rows \in [Monitors -> Intervals \union {NoRow}] BY DEF NoRows
  <2>6. toScan \subseteq Monitors /\ due \subseteq Monitors OBVIOUS
  <2>7. inFlight \in [Monitors -> 0..1] OBVIOUS
  <2>8. jobAge \in [Jobs -> Nat] OBVIOUS
  <2>9. faults \in 0..MaxFaults OBVIOUS
  <2>10. overdue \in [Monitors -> Nat] OBVIOUS
  <2> QED BY <2>1, <2>2, <2>3, <2>4, <2>5, <2>6, <2>7, <2>8, <2>9, <2>10 DEF TypeOK
<1>2. LoopShape
  BY DEF LoopShape
<1>3. TickLocals
  BY DEF TickLocals, NoRows
<1>4. RowsOfMonitors
  BY DEF RowsOfMonitors
<1>5. Waiting
  BY DEF Waiting, MaxLoop
<1>6. Timers
  BY JobsBeforeFacts DEF Timers, SinceEvaluated, Evaluated, SinceDispatch
<1> QED
  BY <1>1, <1>2, <1>3, <1>4, <1>5, <1>6 DEF IInv

LEMMA CreateIInv ==
    ASSUME IInv, NEW m \in Monitors, NEW i \in Intervals, Create(m, i)
    PROVE  IInv'
<1> USE TimeAssumption, OffsetAssumption, HorizonAssumption, JobsBeforeFacts, AfterFacts DEF IInv, Create
<1>1. TypeOK'
  BY DEF TypeOK, NoRows, Idle
<1>2. LoopShape'
  BY DEF LoopShape, TypeOK, Idle, PhaseLimit, After
<1>3. TickLocals'
  BY DEF TickLocals, LoopShape, TypeOK, RowsOfMonitors, IsDue, Idle, NoRows
<1>4. RowsOfMonitors'
  BY DEF RowsOfMonitors, TypeOK
<1>5. Waiting'
  BY DEF Waiting, TypeOK, LoopShape, TickLocals, RowsOfMonitors, IsDue, SinceDispatch, MaxLoop, Idle
<1>6. Timers'
  BY DEF Timers, TypeOK, LoopShape, SinceEvaluated, Evaluated, SinceDispatch
<1> QED
  BY <1>1, <1>2, <1>3, <1>4, <1>5, <1>6

LEMMA EditIInv ==
    ASSUME IInv, NEW m \in Monitors, NEW i \in Intervals, Edit(m, i)
    PROVE  IInv'
<1> USE TimeAssumption, OffsetAssumption, HorizonAssumption, JobsBeforeFacts, AfterFacts DEF IInv, Edit
<1>1. TypeOK'
  BY DEF TypeOK, NoRows, Idle
<1>2. LoopShape'
  BY DEF LoopShape, TypeOK, Idle, PhaseLimit, After
<1>3. TickLocals'
  BY DEF TickLocals, LoopShape, TypeOK, RowsOfMonitors, IsDue, Idle, NoRows
<1>4. RowsOfMonitors'
  BY DEF RowsOfMonitors, TypeOK
<1>5. Waiting'
  BY DEF Waiting, TypeOK, LoopShape, TickLocals, RowsOfMonitors, IsDue, SinceDispatch, MaxLoop, Idle
<1>6. Timers'
  BY DEF Timers, TypeOK, LoopShape, SinceEvaluated, Evaluated, SinceDispatch
<1> QED
  BY <1>1, <1>2, <1>3, <1>4, <1>5, <1>6

LEMMA DeleteIInv ==
    ASSUME IInv, NEW m \in Monitors, Delete(m)
    PROVE  IInv'
<1> USE TimeAssumption, OffsetAssumption, HorizonAssumption, JobsBeforeFacts, AfterFacts DEF IInv, Delete
<1>1. TypeOK'
  BY DEF TypeOK, NoRows, Idle
<1>2. LoopShape'
  BY DEF LoopShape, TypeOK, Idle, PhaseLimit, After
<1>3. TickLocals'
  BY DEF TickLocals, LoopShape, TypeOK, RowsOfMonitors, IsDue, Idle, NoRows
<1>4. RowsOfMonitors'
  BY DEF RowsOfMonitors, TypeOK
<1>5. Waiting'
  BY DEF Waiting, TypeOK, LoopShape, TickLocals, RowsOfMonitors, IsDue, SinceDispatch, MaxLoop, Idle
<1>6. Timers'
  BY DEF Timers, TypeOK, LoopShape, SinceEvaluated, Evaluated, SinceDispatch
<1> QED
  BY <1>1, <1>2, <1>3, <1>4, <1>5, <1>6

LEMMA FindActiveMonitorsIInv ==
    ASSUME IInv, FindActiveMonitors
    PROVE  IInv'
<1> USE TimeAssumption, OffsetAssumption, HorizonAssumption, JobsBeforeFacts, AfterFacts DEF IInv, FindActiveMonitors
<1>1. TypeOK'
  BY DEF TypeOK, NoRows, Idle
<1>2. LoopShape'
  BY DEF LoopShape, TypeOK, Idle, PhaseLimit, After
<1>3. TickLocals'
  BY DEF TickLocals, LoopShape, TypeOK, RowsOfMonitors, IsDue, Idle, NoRows
<1>4. RowsOfMonitors'
  BY DEF RowsOfMonitors, TypeOK
<1>5. Waiting'
  BY DEF Waiting, TypeOK, LoopShape, TickLocals, RowsOfMonitors, IsDue, SinceDispatch, MaxLoop, Idle
<1>6. Timers'
  BY DEF Timers, TypeOK, LoopShape, SinceEvaluated, Evaluated, SinceDispatch
<1> QED
  BY <1>1, <1>2, <1>3, <1>4, <1>5, <1>6

LEMMA GetLastCheckIInv ==
    ASSUME IInv, NEW m \in Monitors, GetLastCheck(m)
    PROVE  IInv'
<1> USE TimeAssumption, OffsetAssumption, HorizonAssumption, JobsBeforeFacts, AfterFacts DEF IInv, GetLastCheck
<1>1. TypeOK'
  BY DEF TypeOK, NoRows, Idle
<1>2. LoopShape'
  BY DEF LoopShape, TypeOK, Idle, PhaseLimit, After
<1>3. TickLocals'
  BY DEF TickLocals, LoopShape, TypeOK, RowsOfMonitors, IsDue, Idle, NoRows
<1>4. RowsOfMonitors'
  BY DEF RowsOfMonitors, TypeOK
<1>5. Waiting'
  BY DEF Waiting, TypeOK, LoopShape, TickLocals, RowsOfMonitors, IsDue, SinceDispatch, MaxLoop, Idle
<1>6. Timers'
  BY DEF Timers, TypeOK, LoopShape, SinceEvaluated, Evaluated, SinceDispatch
<1> QED
  BY <1>1, <1>2, <1>3, <1>4, <1>5, <1>6

LEMMA DispatchIInv ==
    ASSUME IInv, Dispatch
    PROVE  IInv'
<1> USE TimeAssumption, OffsetAssumption, HorizonAssumption, JobsBeforeFacts, AfterFacts DEF IInv, Dispatch
<1>1. TypeOK'
  <2>1. inFlight' \in [Monitors -> 0..1]
    <3> SUFFICES ASSUME NEW m \in Monitors
                 PROVE  inFlight[m] + (IF m \in due THEN 1 ELSE 0) \in 0..1
      BY DEF TypeOK
    <3>1. inFlight[m] = 0
      BY DEF TypeOK, TickLocals
    <3> QED
      BY <3>1
  <2>2. overdue' \in [Monitors -> Nat]
    BY DEF TypeOK
  <2> QED
    BY <2>1, <2>2 DEF TypeOK
<1>2. LoopShape'
  BY DEF LoopShape, TypeOK, Idle, PhaseLimit, After
<1>3. TickLocals'
  BY DEF TickLocals, LoopShape, TypeOK, RowsOfMonitors, IsDue, Idle, NoRows
<1>4. RowsOfMonitors'
  BY DEF RowsOfMonitors, TypeOK
<1>5. Waiting'
  BY DEF Waiting, TypeOK, LoopShape, TickLocals, RowsOfMonitors, IsDue, SinceDispatch, MaxLoop, Idle
<1>6. Timers'
  BY DEF Timers, TypeOK, LoopShape, SinceEvaluated, Evaluated, SinceDispatch
<1> QED
  BY <1>1, <1>2, <1>3, <1>4, <1>5, <1>6

LEMMA TickFailsIInv ==
    ASSUME IInv, TickFails
    PROVE  IInv'
<1> USE TimeAssumption, OffsetAssumption, HorizonAssumption, JobsBeforeFacts, AfterFacts DEF IInv, TickFails
<1>1. TypeOK'
  BY DEF TypeOK, NoRows, Idle
<1>2. LoopShape'
  BY DEF LoopShape, TypeOK, Idle, PhaseLimit, After
<1>3. TickLocals'
  BY DEF TickLocals, LoopShape, TypeOK, RowsOfMonitors, IsDue, Idle, NoRows
<1>4. RowsOfMonitors'
  BY DEF RowsOfMonitors, TypeOK
<1>5. Waiting'
  BY DEF Waiting, TypeOK, LoopShape, TickLocals, RowsOfMonitors, IsDue, SinceDispatch, MaxLoop, Idle
<1>6. Timers'
  BY DEF Timers, TypeOK, LoopShape, SinceEvaluated, Evaluated, SinceDispatch
<1> QED
  BY <1>1, <1>2, <1>3, <1>4, <1>5, <1>6

LEMMA SaveCheckResultIInv ==
    ASSUME IInv, NEW m \in Monitors, SaveCheckResult(m)
    PROVE  IInv'
<1> USE TimeAssumption, OffsetAssumption, HorizonAssumption, JobsBeforeFacts, AfterFacts DEF IInv, SaveCheckResult
<1>1. TypeOK'
  BY DEF TypeOK, NoRows, Idle
<1>2. LoopShape'
  BY DEF LoopShape, TypeOK, Idle, PhaseLimit, After
<1>3. TickLocals'
  BY DEF TickLocals, LoopShape, TypeOK, RowsOfMonitors, IsDue, Idle, NoRows
<1>4. RowsOfMonitors'
  BY DEF RowsOfMonitors, TypeOK
<1>5. Waiting'
  BY DEF Waiting, TypeOK, LoopShape, TickLocals, RowsOfMonitors, IsDue, SinceDispatch, MaxLoop, Idle
<1>6. Timers'
  BY DEF Timers, TypeOK, LoopShape, SinceEvaluated, Evaluated, SinceDispatch
<1> QED
  BY <1>1, <1>2, <1>3, <1>4, <1>5, <1>6

LEMMA SaveOrphanIInv ==
    ASSUME IInv, NEW m \in Monitors, SaveOrphan(m)
    PROVE  IInv'
<1> USE TimeAssumption, OffsetAssumption, HorizonAssumption, JobsBeforeFacts, AfterFacts DEF IInv, SaveOrphan
<1>1. TypeOK'
  BY DEF TypeOK, NoRows, Idle
<1>2. LoopShape'
  BY DEF LoopShape, TypeOK, Idle, PhaseLimit, After
<1>3. TickLocals'
  BY DEF TickLocals, LoopShape, TypeOK, RowsOfMonitors, IsDue, Idle, NoRows
<1>4. RowsOfMonitors'
  BY DEF RowsOfMonitors, TypeOK
<1>5. Waiting'
  BY DEF Waiting, TypeOK, LoopShape, TickLocals, RowsOfMonitors, IsDue, SinceDispatch, MaxLoop, Idle
<1>6. Timers'
  BY DEF Timers, TypeOK, LoopShape, SinceEvaluated, Evaluated, SinceDispatch
<1> QED
  BY <1>1, <1>2, <1>3, <1>4, <1>5, <1>6

LEMMA SaveFailsIInv ==
    ASSUME IInv, NEW m \in Monitors, SaveFails(m)
    PROVE  IInv'
<1> USE TimeAssumption, OffsetAssumption, HorizonAssumption, JobsBeforeFacts, AfterFacts DEF IInv, SaveFails
<1>1. TypeOK'
  BY DEF TypeOK, NoRows, Idle
<1>2. LoopShape'
  BY DEF LoopShape, TypeOK, Idle, PhaseLimit, After
<1>3. TickLocals'
  BY DEF TickLocals, LoopShape, TypeOK, RowsOfMonitors, IsDue, Idle, NoRows
<1>4. RowsOfMonitors'
  BY DEF RowsOfMonitors, TypeOK
<1>5. Waiting'
  BY DEF Waiting, TypeOK, LoopShape, TickLocals, RowsOfMonitors, IsDue, SinceDispatch, MaxLoop, Idle
<1>6. Timers'
  BY DEF Timers, TypeOK, LoopShape, SinceEvaluated, Evaluated, SinceDispatch
<1> QED
  BY <1>1, <1>2, <1>3, <1>4, <1>5, <1>6

LEMMA GatherDoneIInv ==
    ASSUME IInv, GatherDone
    PROVE  IInv'
<1> USE TimeAssumption, OffsetAssumption, HorizonAssumption, JobsBeforeFacts, AfterFacts DEF IInv, GatherDone
<1>1. TypeOK'
  BY DEF TypeOK, NoRows, Idle
<1>2. LoopShape'
  BY DEF LoopShape, TypeOK, Idle, PhaseLimit, After
<1>3. TickLocals'
  BY DEF TickLocals, LoopShape, TypeOK, RowsOfMonitors, IsDue, Idle, NoRows
<1>4. RowsOfMonitors'
  BY DEF RowsOfMonitors, TypeOK
<1>5. Waiting'
  BY DEF Waiting, TypeOK, LoopShape, TickLocals, RowsOfMonitors, IsDue, SinceDispatch, MaxLoop, Idle
<1>6. Timers'
  BY DEF Timers, TypeOK, LoopShape, SinceEvaluated, Evaluated, SinceDispatch
<1> QED
  BY <1>1, <1>2, <1>3, <1>4, <1>5, <1>6

LEMMA SkipJobIInv ==
    ASSUME IInv, NEW j \in Jobs, SkipJob(j)
    PROVE  IInv'
<1> USE TimeAssumption, OffsetAssumption, HorizonAssumption, JobsBeforeFacts, AfterFacts DEF IInv, SkipJob
<1>1. TypeOK'
  BY DEF TypeOK, NoRows, Idle
<1>2. LoopShape'
  BY DEF LoopShape, TypeOK, Idle, PhaseLimit, After
<1>3. TickLocals'
  BY DEF TickLocals, LoopShape, TypeOK, RowsOfMonitors, IsDue, Idle, NoRows
<1>4. RowsOfMonitors'
  BY DEF RowsOfMonitors, TypeOK
<1>5. Waiting'
  BY DEF Waiting, TypeOK, LoopShape, TickLocals, RowsOfMonitors, IsDue, SinceDispatch, MaxLoop, Idle
<1>6. Timers'
  BY DEF Timers, TypeOK, LoopShape, SinceEvaluated, Evaluated, SinceDispatch
<1> QED
  BY <1>1, <1>2, <1>3, <1>4, <1>5, <1>6

LEMMA StartJobIInv ==
    ASSUME IInv, NEW j \in Jobs, StartJob(j)
    PROVE  IInv'
<1> USE TimeAssumption, OffsetAssumption, HorizonAssumption, JobsBeforeFacts, AfterFacts DEF IInv, StartJob
<1>1. TypeOK'
  BY DEF TypeOK, NoRows, Idle
<1>2. LoopShape'
  BY DEF LoopShape, TypeOK, Idle, PhaseLimit, After
<1>3. TickLocals'
  BY DEF TickLocals, LoopShape, TypeOK, RowsOfMonitors, IsDue, Idle, NoRows
<1>4. RowsOfMonitors'
  BY DEF RowsOfMonitors, TypeOK
<1>5. Waiting'
  BY DEF Waiting, TypeOK, LoopShape, TickLocals, RowsOfMonitors, IsDue, SinceDispatch, MaxLoop, Idle
<1>6. Timers'
  BY DEF Timers, TypeOK, LoopShape, SinceEvaluated, Evaluated, SinceDispatch
<1> QED
  BY <1>1, <1>2, <1>3, <1>4, <1>5, <1>6

LEMMA FinishJobIInv ==
    ASSUME IInv, NEW j \in Jobs, FinishJob(j)
    PROVE  IInv'
<1> USE TimeAssumption, OffsetAssumption, HorizonAssumption, JobsBeforeFacts, AfterFacts DEF IInv, FinishJob
<1>1. TypeOK'
  BY DEF TypeOK, NoRows, Idle
<1>2. LoopShape'
  BY DEF LoopShape, TypeOK, Idle, PhaseLimit, After
<1>3. TickLocals'
  BY DEF TickLocals, LoopShape, TypeOK, RowsOfMonitors, IsDue, Idle, NoRows
<1>4. RowsOfMonitors'
  BY DEF RowsOfMonitors, TypeOK
<1>5. Waiting'
  BY DEF Waiting, TypeOK, LoopShape, TickLocals, RowsOfMonitors, IsDue, SinceDispatch, MaxLoop, Idle
<1>6. Timers'
  BY DEF Timers, TypeOK, LoopShape, SinceEvaluated, Evaluated, SinceDispatch
<1> QED
  BY <1>1, <1>2, <1>3, <1>4, <1>5, <1>6

LEMMA ArchiveIInv ==
    ASSUME IInv, NEW m \in Monitors, Archive(m)
    PROVE  IInv'
<1> USE TimeAssumption, OffsetAssumption, HorizonAssumption, JobsBeforeFacts, AfterFacts DEF IInv, Archive
<1>1. TypeOK'
  BY DEF TypeOK, NoRows, Idle
<1>2. LoopShape'
  BY DEF LoopShape, TypeOK, Idle, PhaseLimit, After
<1>3. TickLocals'
  BY DEF TickLocals, LoopShape, TypeOK, RowsOfMonitors, IsDue, Idle, NoRows
<1>4. RowsOfMonitors'
  BY DEF RowsOfMonitors, TypeOK
<1>5. Waiting'
  BY DEF Waiting, TypeOK, LoopShape, TickLocals, RowsOfMonitors, IsDue, SinceDispatch, MaxLoop, Idle
<1>6. Timers'
  BY DEF Timers, TypeOK, LoopShape, SinceEvaluated, Evaluated, SinceDispatch
<1> QED
  BY <1>1, <1>2, <1>3, <1>4, <1>5, <1>6

LEMMA WakeIInv ==
    ASSUME IInv, Wake
    PROVE  IInv'
<1> USE TimeAssumption, OffsetAssumption, HorizonAssumption, JobsBeforeFacts, AfterFacts DEF IInv, Wake
<1>1. TypeOK'
  BY DEF TypeOK, NoRows, Idle
<1>2. LoopShape'
  BY DEF LoopShape, TypeOK, Idle, PhaseLimit, After
<1>3. TickLocals'
  BY DEF TickLocals, LoopShape, TypeOK, RowsOfMonitors, IsDue, Idle, NoRows
<1>4. RowsOfMonitors'
  BY DEF RowsOfMonitors, TypeOK
<1>5. Waiting'
  BY DEF Waiting, TypeOK, LoopShape, TickLocals, RowsOfMonitors, IsDue, SinceDispatch, MaxLoop, Idle
<1>6. Timers'
  BY DEF Timers, TypeOK, LoopShape, SinceEvaluated, Evaluated, SinceDispatch
<1> QED
  BY <1>1, <1>2, <1>3, <1>4, <1>5, <1>6

LEMMA CrashIInv ==
    ASSUME IInv, Crash
    PROVE  IInv'
<1> USE TimeAssumption, OffsetAssumption, HorizonAssumption, JobsBeforeFacts, AfterFacts DEF IInv, Crash
<1>1. TypeOK'
  <2>1. rows' \in [Monitors -> Intervals \union {NoRow}]
    BY DEF NoRows
  <2>2. inFlight' \in [Monitors -> 0..1] /\ overdue' \in [Monitors -> Nat]
    BY DEF Idle
  <2>3. jobAge' \in [Jobs -> Nat] /\ toScan' \subseteq Monitors /\ due' \subseteq Monitors
    OBVIOUS
  <2>4. faults' \in 0..MaxFaults
    BY DEF TypeOK
  <2>6. pc' \in Phases /\ running' \in BOOLEAN /\ phaseTime' \in Nat
    OBVIOUS
  <2>5. /\ status' \in [Monitors -> {"absent", "active", "paused", "deleted"}]
        /\ interval' \in [Monitors -> Intervals \union {NoRow}]
        /\ age' \in [Monitors -> Ages]
    BY DEF TypeOK
  <2> QED
    BY <2>1, <2>2, <2>3, <2>4, <2>5, <2>6 DEF TypeOK
<1>2. LoopShape'
  BY DEF LoopShape, TypeOK, Idle, PhaseLimit, After
<1>3. TickLocals'
  BY DEF TickLocals, LoopShape, TypeOK, RowsOfMonitors, IsDue, Idle, NoRows
<1>4. RowsOfMonitors'
  BY DEF RowsOfMonitors, TypeOK
<1>5. Waiting'
  BY DEF Waiting, TypeOK, LoopShape, TickLocals, RowsOfMonitors, IsDue, SinceDispatch, MaxLoop, Idle
<1>6. Timers'
  BY DEF Timers, TypeOK, LoopShape, SinceEvaluated, Evaluated, SinceDispatch
<1> QED
  BY <1>1, <1>2, <1>3, <1>4, <1>5, <1>6

LEMMA RestartIInv ==
    ASSUME IInv, Restart
    PROVE  IInv'
<1> USE TimeAssumption, OffsetAssumption, HorizonAssumption, JobsBeforeFacts, AfterFacts DEF IInv, Restart
<1>1. TypeOK'
  BY DEF TypeOK, NoRows, Idle
<1>2. LoopShape'
  BY DEF LoopShape, TypeOK, Idle, PhaseLimit, After
<1>3. TickLocals'
  BY DEF TickLocals, LoopShape, TypeOK, RowsOfMonitors, IsDue, Idle, NoRows
<1>4. RowsOfMonitors'
  BY DEF RowsOfMonitors, TypeOK
<1>5. Waiting'
  BY DEF Waiting, TypeOK, LoopShape, TickLocals, RowsOfMonitors, IsDue, SinceDispatch, MaxLoop, Idle
<1>6. Timers'
  BY DEF Timers, TypeOK, LoopShape, SinceEvaluated, Evaluated, SinceDispatch
<1> QED
  BY <1>1, <1>2, <1>3, <1>4, <1>5, <1>6

LEMMA TimePassesIInv ==
    ASSUME IInv, TimePasses
    PROVE  IInv'
<1> USE TimeAssumption, OffsetAssumption, HorizonAssumption, JobsBeforeFacts, AfterFacts DEF IInv, TimePasses
<1>1. TypeOK'
  <2>1. age' \in [Monitors -> Ages]
    BY OlderType DEF TypeOK
  <2>2. overdue' \in [Monitors -> Nat]
    BY DEF TypeOK
  <2>3. jobAge' \in [Jobs -> Nat] /\ phaseTime' \in Nat
    BY DEF TypeOK
  <2> QED
    BY <2>1, <2>2, <2>3 DEF TypeOK
<1>2. LoopShape'
  BY DEF LoopShape, TypeOK, Idle, PhaseLimit, After
<1>3. TickLocals'
  <2> SUFFICES ASSUME NEW m \in Monitors
               PROVE  /\ inFlight[m] > 0 => pc = "gather"
                      /\ m \in toScan \union due \/ inFlight[m] > 0 => rows[m] # NoRow
                      /\ m \in due \/ inFlight[m] > 0 => IsDue(m, age'[m], rows[m])
    BY DEF TickLocals, IsDue
  <2>1. CASE m \in due \/ inFlight[m] > 0
    <3>1. rows[m] \in Intervals /\ age[m] \in Ages /\ IsDue(m, age[m], rows[m])
      BY <2>1 DEF TickLocals, TypeOK
    <3>2. IsDue(m, Older(age[m]), rows[m])
      BY <3>1, DueStaysDue
    <3> QED
      BY <3>2 DEF TickLocals
  <2>2. CASE ~(m \in due \/ inFlight[m] > 0)
    BY <2>2 DEF TickLocals
  <2> QED
    BY <2>1, <2>2
<1>4. RowsOfMonitors'
  <2>1. \A m \in Monitors : age[m] = Never => age'[m] = Never
    BY DEF Older
  <2> QED
    BY <2>1 DEF RowsOfMonitors
<1>5. Waiting'
  <2> SUFFICES ASSUME NEW m \in Monitors
               PROVE  /\ overdue'[m] > 0 => /\ status[m] = "active"
                                            /\ IsDue(m, age'[m], interval[m])
                                            /\ inFlight[m] = 0
                                            /\ pc # "down"
                      /\ pc \in {"find", "scan"} => overdue'[m] <= MaxLoop
                      /\ pc = "scan" /\ m \notin toScan \union due => overdue'[m] = 0
                      /\ m \in toScan /\ rows[m] # interval[m] => overdue'[m] = 0
                      /\ pc \notin {"find", "scan"} => overdue'[m] <= SinceDispatch'
    BY DEF Waiting, IsDue
  <2>1. overdue'[m] > 0 => /\ status[m] = "active"
                          /\ IsDue(m, age'[m], interval[m])
                          /\ inFlight[m] = 0
                          /\ pc # "down"
    OBVIOUS
  <2>2. pc \notin {"find", "scan"}
    BY DEF PhaseLimit, LoopShape
  <2>3. toScan = {}
    BY <2>2 DEF LoopShape
  <2>4. CASE pc = "down"
    <3>1. overdue'[m] = 0 /\ SinceDispatch' = 0
      BY <2>4 DEF SinceDispatch
    <3> QED
      BY <2>1, <2>2, <2>3, <3>1
  <2>5. CASE pc # "down"
    <3>1. overdue'[m] <= overdue[m] + 1
      BY DEF TypeOK
    <3>2. overdue[m] <= SinceDispatch
      BY <2>2 DEF Waiting
    <3>3. SinceDispatch' = SinceDispatch + 1
      BY <2>2, <2>5 DEF SinceDispatch, TypeOK
    <3>4. SinceDispatch \in Nat /\ overdue[m] \in Nat /\ overdue'[m] \in Nat
      BY <1>1 DEF SinceDispatch, TypeOK
    <3> QED
      BY <2>1, <2>2, <2>3, <3>1, <3>2, <3>3, <3>4
  <2> QED
    BY <2>4, <2>5
<1>6. Timers'
  BY DEF Timers, TypeOK, LoopShape, SinceEvaluated, Evaluated, SinceDispatch
<1> QED
  BY <1>1, <1>2, <1>3, <1>4, <1>5, <1>6

LEMMA StutterIInv ==
    ASSUME IInv, UNCHANGED vars
    PROVE  IInv'
BY DEF vars, IInv, TypeOK, LoopShape, TickLocals, RowsOfMonitors, Waiting, Timers, IsDue,
       SinceDispatch, SinceEvaluated, Evaluated, MaxLoop

LEMMA NextIInv ==
    ASSUME IInv, [Next]_vars
    PROVE  IInv'
<1>1. ASSUME NEW m \in Monitors, GetLastCheck(m) PROVE IInv'
  BY <1>1, GetLastCheckIInv
<1>2. ASSUME NEW j \in Jobs, SkipJob(j) \/ StartJob(j) \/ FinishJob(j) PROVE IInv'
  BY <1>2, SkipJobIInv, StartJobIInv, FinishJobIInv
<1>3. ASSUME Loop PROVE IInv'
  BY <1>1, <1>2, <1>3, FindActiveMonitorsIInv, DispatchIInv, GatherDoneIInv, WakeIInv DEF Loop
<1>4. ASSUME Probes PROVE IInv'
  BY <1>4, SaveCheckResultIInv, SaveOrphanIInv DEF Probes
<1>5. ASSUME Requests PROVE IInv'
  BY <1>5, CreateIInv, EditIInv, DeleteIInv DEF Requests
<1>6. ASSUME NEW m \in Monitors, Archive(m) \/ SaveFails(m) PROVE IInv'
  BY <1>6, ArchiveIInv, SaveFailsIInv
<1>7. ASSUME TickFails \/ Crash \/ Restart \/ TimePasses PROVE IInv'
  BY <1>7, TickFailsIInv, CrashIInv, RestartIInv, TimePassesIInv
<1> QED
  BY <1>3, <1>4, <1>5, <1>6, <1>7, StutterIInv DEF Next

\* The inductive invariant, for every set of monitors, intervals, durations and faults.
THEOREM Invariance == Spec => []IInv
BY InitIInv, NextIInv, PTL DEF Spec

-----------------------------------------------------------------------------

\* Type correctness: _tick's locals and the tables keep their shape.
THEOREM TypeCorrect == Spec => []TypeOK
<1>1. IInv => TypeOK
  BY DEF IInv
<1> QED
  BY <1>1, Invariance, PTL

\* A monitor deleted while it is being probed leaves no check_results row behind.
THEOREM NoOrphans == Spec => []NoOrphanResults
<1>1. IInv => NoOrphanResults
  BY DEF IInv, RowsOfMonitors, NoOrphanResults
<1> QED
  BY <1>1, Invariance, PTL

\* The purge, the digests and the compaction never overlap a check.
THEOREM MaintenanceIsAlone == Spec => []MaintenanceAlone
<1>1. IInv => MaintenanceAlone
  <2> SUFFICES ASSUME IInv, running PROVE inFlight = Idle
    BY DEF MaintenanceAlone
  <2>1. \A m \in Monitors : inFlight[m] = 0
    BY DEF IInv, LoopShape, TickLocals, TypeOK
  <2> QED
    BY <2>1 DEF IInv, TypeOK, Idle
<1> QED
  BY <1>1, Invariance, PTL

\* A due monitor waits at most one turn of the loop for its probe.
THEOREM DispatchIsPrompt == Spec => []PromptDispatch
<1>1. IInv => PromptDispatch
  <2> SUFFICES ASSUME IInv, NEW m \in Monitors PROVE overdue[m] <= MaxLoop
    BY DEF PromptDispatch
  <2>1. CASE pc \in {"find", "scan"}
    BY <2>1 DEF IInv, Waiting
  <2>2. CASE pc \notin {"find", "scan"}
    <3>1. SinceDispatch <= MaxLoop
      BY <2>2, TimeAssumption, JobsBeforeFacts
      DEF IInv, LoopShape, TypeOK, SinceDispatch, MaxLoop
    <3>2. overdue[m] <= SinceDispatch
      BY <2>2 DEF IInv, Waiting
    <3>3. overdue[m] \in Nat /\ SinceDispatch \in Nat /\ MaxLoop \in Nat
      BY TimeAssumption, JobsBeforeFacts DEF IInv, TypeOK, SinceDispatch, MaxLoop
    <3> QED
      BY <3>1, <3>2, <3>3
  <2> QED
    BY <2>1, <2>2
<1> QED
  BY <1>1, Invariance, PTL

\* No result is recorded before the previous one is an interval and an offset old.
THEOREM ResultsAreSpaced == Spec => NeverEarly
<1>1. ASSUME IInv, IInv', Next
      PROVE  \A m \in Monitors :
               inFlight'[m] < inFlight[m] /\ age'[m] = 0
                 => rows[m] # NoRow /\ IsDue(m, age[m], rows[m])
  <2> SUFFICES ASSUME NEW m \in Monitors, inFlight'[m] < inFlight[m]
               PROVE  rows[m] # NoRow /\ IsDue(m, age[m], rows[m])
    OBVIOUS
  <2>1. inFlight[m] > 0
    BY <1>1 DEF IInv, TypeOK
  <2> QED
    BY <1>1, <2>1 DEF IInv, TickLocals
<1> QED
  BY <1>1, Invariance, NextIInv, PTL DEF Spec, NeverEarly

-----------------------------------------------------------------------------
(* The scheduler implements PeriodicJob for each of its jobs. *)

\* A step of the loop as the timer of job j sees it.
TimerStep(j) ==
    \/ /\ pc # "down" /\ pc' # "down"
       /\ jobAge[j] >= Period[j] /\ jobAge'[j] = 0
    \/ /\ pc # "down" /\ pc' # "down"
       /\ jobAge[j] < Period[j] + MaxLoop /\ jobAge'[j] = jobAge[j] + 1
    \/ pc # "down" /\ pc' = "down" /\ jobAge'[j] = Period[j]
    \/ pc = "down" /\ pc' # "down" /\ jobAge'[j] = Period[j]
    \/ (pc # "down" <=> pc' # "down") /\ jobAge'[j] = jobAge[j]

\* However the loop is placed, a job was evaluated at most one turn ago.
LEMMA EvaluatedRecently ==
    ASSUME IInv, NEW j \in Jobs
    PROVE  jobAge[j] <= Period[j] + MaxLoop
<1>1. SinceEvaluated(j) <= MaxLoop
  BY TimeAssumption, JobsBeforeFacts
  DEF IInv, TypeOK, LoopShape, SinceEvaluated, Evaluated, SinceDispatch, MaxLoop
<1>2. SinceEvaluated(j) \in Int /\ MaxLoop \in Int /\ Period[j] \in Int /\ jobAge[j] \in Int
  BY TimeAssumption, JobsBeforeFacts
  DEF IInv, TypeOK, LoopShape, SinceEvaluated, Evaluated, SinceDispatch, MaxLoop
<1> QED
  BY <1>1, <1>2 DEF IInv, Timers

LEMMA StepIsTimerStep ==
    ASSUME IInv, IInv', [Next]_vars, NEW j \in Jobs
    PROVE  TimerStep(j)
<1>1. CASE TimePasses
  <2>1. CASE pc = "down"
    BY <1>1, <2>1 DEF TimePasses, TimerStep
  <2>2. CASE pc # "down"
    <3>1. jobAge'[j] = jobAge[j] + 1 /\ pc' # "down"
      BY <1>1, <2>2 DEF TimePasses
    <3>2. jobAge'[j] <= Period[j] + MaxLoop
      BY EvaluatedRecently, TimeAssumption, IInv' DEF MaxLoop, IInv, TypeOK, Timers, LoopShape,
         SinceEvaluated, Evaluated, SinceDispatch, JobsBefore
    <3>3. jobAge[j] \in Int /\ Period[j] + MaxLoop \in Int
      BY TimeAssumption DEF IInv, TypeOK, MaxLoop
    <3> QED
      BY <2>2, <3>1, <3>2, <3>3 DEF TimerStep
  <2> QED
    BY <2>1, <2>2
<1>2. CASE Crash
  BY <1>2 DEF Crash, TimerStep
<1>3. CASE Restart
  BY <1>3 DEF Restart, TimerStep, IInv, Timers
<1>4. ASSUME NEW k \in Jobs, StartJob(k) PROVE TimerStep(j)
  BY <1>4 DEF StartJob, TimerStep, IInv, TypeOK
<1>5. ASSUME NEW k \in Jobs, SkipJob(k) \/ FinishJob(k) PROVE TimerStep(j)
  BY <1>5, AfterFacts DEF SkipJob, FinishJob, TimerStep
<1>6. CASE FindActiveMonitors \/ Dispatch \/ GatherDone \/ Wake \/ TickFails
  BY <1>6 DEF FindActiveMonitors, Dispatch, GatherDone, Wake, TickFails, TimerStep
<1>7. CASE \E m \in Monitors : GetLastCheck(m)
  BY <1>7 DEF GetLastCheck, TimerStep
<1>8. CASE Probes
  BY <1>8 DEF Probes, SaveCheckResult, SaveOrphan, TimerStep
<1>9. CASE Requests
  BY <1>9 DEF Requests, Create, Edit, Delete, TimerStep
<1>10. CASE \E m \in Monitors : Archive(m) \/ SaveFails(m)
  BY <1>10 DEF Archive, SaveFails, TimerStep
<1>11. CASE UNCHANGED vars
  BY <1>11 DEF vars, TimerStep
<1> QED
  BY <1>1, <1>2, <1>3, <1>4, <1>5, <1>6, <1>7, <1>8, <1>9, <1>10, <1>11 DEF Next, Loop

\* Purge, digests and compaction run at least a period and at most a period and one
\* turn of the loop apart.
THEOREM Periodic == Spec => JobsArePeriodic
<1>1. Init => PurgeTimer!Init /\ DigestTimer!Init /\ RollupTimer!Init
  BY DEF Init, PurgeTimer!Init, DigestTimer!Init, RollupTimer!Init
<1>2. ASSUME IInv, IInv', [Next]_vars PROVE [PurgeTimer!Next]_(PurgeTimer!vars)
  BY <1>2, StepIsTimerStep
  DEF TimerStep, PurgeTimer!Next, PurgeTimer!vars, PurgeTimer!Run, PurgeTimer!Wait,
      PurgeTimer!Stop, PurgeTimer!Start
<1>3. ASSUME IInv, IInv', [Next]_vars PROVE [DigestTimer!Next]_(DigestTimer!vars)
  BY <1>3, StepIsTimerStep
  DEF TimerStep, DigestTimer!Next, DigestTimer!vars, DigestTimer!Run, DigestTimer!Wait,
      DigestTimer!Stop, DigestTimer!Start
<1>4. ASSUME IInv, IInv', [Next]_vars PROVE [RollupTimer!Next]_(RollupTimer!vars)
  BY <1>4, StepIsTimerStep
  DEF TimerStep, RollupTimer!Next, RollupTimer!vars, RollupTimer!Run, RollupTimer!Wait,
      RollupTimer!Stop, RollupTimer!Start
<1> QED
  BY <1>1, <1>2, <1>3, <1>4, Invariance, NextIInv, PTL
  DEF Spec, JobsArePeriodic, PurgeTimer!Spec, DigestTimer!Spec, RollupTimer!Spec
=============================================================================
