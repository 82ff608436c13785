-------------------------- MODULE VectorEnvProofs --------------------------
(***************************************************************************)
(* What VectorEnv promises for every set of workers and actions, any       *)
(* number of calls and of failures.  done and last tell the worker's part  *)
(* of the handshake; Together says that no worker has been left behind by  *)
(* a call that raised, and once that is false it stays so, because the     *)
(* worker that is gone never answers again (LagInv).                       *)
(***************************************************************************)
EXTENDS VectorEnv, TLAPS

Base == IF mpc = "wait" THEN epoch - 1 ELSE epoch
Together == \A w \in Workers : done[w] >= Base

WorkerInv ==
    \A w \in Workers :
        /\ wpc[w] = "spin" => done[w] = last[w] /\ out[w].ep = last[w]
        /\ wpc[w] \in {"cmd", "run", "report"} => done[w] < last[w]
        /\ wpc[w] = "report" => out[w].ep = last[w]

DownInv ==
    \A w \in down : wpc[w] = "gone" /\ (mpc = "wait" => done[w] < epoch)

LagInv == Together \/ \E w \in Workers : wpc[w] = "gone" /\ done[w] < Base

CallInv ==
    /\ mpc \in {"raise", "wait"} => cmd = call
    /\ mpc \in {"issue", "raise", "wait"} /\ call = "step" =>
           \A w \in Workers : (IF useIdle THEN Idle ELSE slots[w]) = given[w]
    /\ mpc \in {"issue", "raise", "wait"} /\ call = "reset" => steps = 0

Answered(w) == wpc[w] = "report" \/ (wpc[w] = "spin" /\ done[w] = epoch)

\* Where a living worker's world is while nobody has been left behind.
InStep(w) ==
    /\ mpc = "open" => tick[w] = steps
    /\ mpc \in {"issue", "raise"} /\ call = "step" => tick[w] + 1 = steps
    /\ mpc = "wait" /\ call = "step" =>
        /\ Answered(w) => tick[w] = steps /\ out[w].act = given[w]
        /\ ~Answered(w) => tick[w] + 1 = steps
        /\ wpc[w] = "run" => doing[w] = [cmd |-> "step", act |-> given[w]]
    /\ mpc = "wait" /\ call = "reset" =>
        /\ Answered(w) => tick[w] = 0
        /\ wpc[w] = "run" => doing[w].cmd = "reset"

StepInv == Together => \A w \in Workers : wpc[w] # "gone" => InStep(w)

IInv == TypeOK /\ WorkerInv /\ DownInv /\ LagInv /\ CallInv /\ StepInv
            /\ ResultsOfThisCall /\ ActionsArrive /\ FailureIsNoticed

-----------------------------------------------------------------------------
(* The types first: a step keeps every variable in its set, and nobody     *)
(* ahead of the epoch.                                                     *)
LEMMA Ranges ==
    ASSUME TypeOK
    PROVE  /\ epoch \in Nat
           /\ \A w \in Workers : /\ done[w] \in Nat /\ done[w] =< epoch
                                  /\ last[w] \in Nat /\ last[w] =< epoch
  BY DEF TypeOK

\* A worker that has not seen the epoch is behind it.
LEMMA Behind ==
    ASSUME TypeOK, NEW w \in Workers
    PROVE  /\ done[w] # epoch => done[w] < epoch /\ ~(done[w] >= epoch)
           /\ last[w] # epoch => last[w] < epoch
           /\ done[w] < last[w] /\ done[w] >= epoch - 1 => last[w] = epoch
<1>1. done[w] \in Nat /\ last[w] \in Nat /\ epoch \in Nat /\ done[w] =< epoch /\ last[w] =< epoch
  BY Ranges
<1> QED
  BY <1>1

LEMMA TypeStep ==
    TypeOK /\ [Next]_vars => TypeOK'
<1> SUFFICES ASSUME TypeOK, [Next]_vars PROVE TypeOK'
  OBVIOUS
<1> USE VectorAssumption DEF TypeOK, Calls, Result, Gone, caller, workers
<1>1. ASSUME NEW as \in [Workers -> Acts], Step(as) PROVE TypeOK'
  <2>1. useIdle' \in BOOLEAN /\ packedIdle' \in BOOLEAN
    BY <1>1, Zenon DEF Step, AllIdle
  <2>2. slots' \in [Workers -> Acts]
    BY <1>1 DEF Step
  <2>3. given' \in [Workers -> Acts] /\ call' \in {"reset", "step", "close"}
    BY <1>1 DEF Step
  <2>4. calls' \in Nat /\ steps' \in Nat /\ down' \in SUBSET Workers /\ mpc' = "issue"
    BY <1>1 DEF Step
  <2>5. UNCHANGED <<epoch, cmd, ret, done, out, wpc, last, doing, tick, fails>>
    BY <1>1 DEF Step
  <2> QED
    BY <2>1, <2>2, <2>3, <2>4, <2>5
<1>2. CASE Reset
  BY <1>2 DEF Reset
<1>3. CASE Close
  BY <1>3 DEF Close
<1>4. CASE Issue
  BY <1>4 DEF Issue
<1>5. CASE Return
  BY <1>5 DEF Return, Complete
<1>6. CASE Raise
  BY <1>6 DEF Raise, Missing
<1>7. CASE Join
  BY <1>7 DEF Join
<1>8. ASSUME NEW w \in Workers, Notice(w) PROVE TypeOK'
  BY <1>8 DEF Notice
<1>9. ASSUME NEW w \in Workers, Pick(w) PROVE TypeOK'
  BY <1>9 DEF Pick, Picked
<1>10. ASSUME NEW w \in Workers, Exit(w) PROVE TypeOK'
  BY <1>10 DEF Exit
<1>11. ASSUME NEW w \in Workers, Run(w) PROVE TypeOK'
  BY <1>11 DEF Run, Ran
<1>12. ASSUME NEW w \in Workers, Report(w) PROVE TypeOK'
  BY <1>12 DEF Report, Reported
<1>13. ASSUME NEW w \in Workers, Fail(w) PROVE TypeOK'
  BY <1>13 DEF Fail
<1>14. ASSUME NEW w \in Workers, Kill(w) PROVE TypeOK'
  BY <1>14 DEF Kill
<1>15. CASE UNCHANGED vars
  BY <1>15 DEF vars
<1> QED
  BY <1>1, <1>2, <1>3, <1>4, <1>5, <1>6, <1>7, <1>8,
     <1>9, <1>10, <1>11, <1>12, <1>13, <1>14, <1>15 DEF Next, Work

LEMMA WorkerStep ==
    TypeOK /\ WorkerInv /\ [Next]_vars => WorkerInv'
<1> SUFFICES ASSUME TypeOK, WorkerInv, [Next]_vars PROVE WorkerInv'
  OBVIOUS
<1>0. /\ epoch \in Nat
      /\ \A w \in Workers : /\ done[w] \in Nat /\ done[w] =< epoch
                             /\ last[w] \in Nat /\ last[w] =< epoch
  BY Ranges
<1> USE DEF TypeOK, WorkerInv, Result, Gone, caller, workers
<1>1. ASSUME NEW as \in [Workers -> Acts], Step(as) PROVE WorkerInv'
  BY <1>1 DEF Step, AllIdle
<1>2. CASE Reset
  BY <1>2 DEF Reset
<1>3. CASE Close
  BY <1>3 DEF Close
<1>4. CASE Issue
  BY <1>4 DEF Issue
<1>5. CASE Return
  BY <1>5 DEF Return, Complete
<1>6. CASE Raise
  BY <1>6 DEF Raise, Missing
<1>7. CASE Join
  BY <1>7 DEF Join
<1>8. ASSUME NEW w \in Workers, Notice(w) PROVE WorkerInv'
  <2>0. wpc[w] = "spin" /\ epoch # last[w]
    BY <1>8 DEF Notice
  <2>1. last[w] < epoch /\ done[w] = last[w]
    BY <2>0, Behind
  <2> SUFFICES ASSUME NEW v \in Workers
               PROVE  /\ wpc'[v] = "spin" => done'[v] = last'[v] /\ out'[v].ep = last'[v]
                      /\ wpc'[v] \in {"cmd", "run", "report"} => done'[v] < last'[v]
                      /\ wpc'[v] = "report" => out'[v].ep = last'[v]
    OBVIOUS
  <2>2. CASE v = w
    BY <1>8, <2>1, <2>2 DEF Notice
  <2>3. CASE v # w
    BY <1>8, <2>3 DEF Notice
  <2> QED
    BY <2>2, <2>3
<1>9. ASSUME NEW w \in Workers, Pick(w) PROVE WorkerInv'
  BY <1>9 DEF Pick, Picked
<1>10. ASSUME NEW w \in Workers, Exit(w) PROVE WorkerInv'
  BY <1>10 DEF Exit
<1>11. ASSUME NEW w \in Workers, Run(w) PROVE WorkerInv'
  BY <1>11 DEF Run, Ran
<1>12. ASSUME NEW w \in Workers, Report(w) PROVE WorkerInv'
  BY <1>12 DEF Report, Reported
<1>13. ASSUME NEW w \in Workers, Fail(w) PROVE WorkerInv'
  BY <1>13 DEF Fail
<1>14. ASSUME NEW w \in Workers, Kill(w) PROVE WorkerInv'
  BY <1>14 DEF Kill
<1>15. CASE UNCHANGED vars
  BY <1>15 DEF vars
<1> QED
  BY <1>1, <1>2, <1>3, <1>4, <1>5, <1>6, <1>7, <1>8,
     <1>9, <1>10, <1>11, <1>12, <1>13, <1>14, <1>15 DEF Next, Work

LEMMA DownStep ==
    TypeOK /\ DownInv /\ [Next]_vars => DownInv'
<1> SUFFICES ASSUME TypeOK, DownInv, [Next]_vars PROVE DownInv'
  OBVIOUS
<1> USE DEF TypeOK, DownInv, Gone, caller, workers
<1>1. ASSUME NEW as \in [Workers -> Acts], Step(as) PROVE DownInv'
  BY <1>1 DEF Step, AllIdle
<1>2. CASE Reset
  BY <1>2 DEF Reset
<1>3. CASE Close
  BY <1>3 DEF Close
<1>4. CASE Issue
  BY <1>4 DEF Issue
<1>5. CASE Return
  BY <1>5 DEF Return, Complete
<1>6. CASE Raise
  BY <1>6 DEF Raise, Missing
<1>7. CASE Join
  BY <1>7 DEF Join
<1>8. ASSUME NEW w \in Workers, Notice(w) PROVE DownInv'
  BY <1>8 DEF Notice
<1>9. ASSUME NEW w \in Workers, Pick(w) PROVE DownInv'
  BY <1>9 DEF Pick, Picked
<1>10. ASSUME NEW w \in Workers, Exit(w) PROVE DownInv'
  BY <1>10 DEF Exit
<1>11. ASSUME NEW w \in Workers, Run(w) PROVE DownInv'
  BY <1>11 DEF Run, Ran
<1>12. ASSUME NEW w \in Workers, Report(w) PROVE DownInv'
  BY <1>12 DEF Report, Reported
<1>13. ASSUME NEW w \in Workers, Fail(w) PROVE DownInv'
  BY <1>13 DEF Fail
<1>14. ASSUME NEW w \in Workers, Kill(w) PROVE DownInv'
  BY <1>14 DEF Kill
<1>15. CASE UNCHANGED vars
  BY <1>15 DEF vars
<1> QED
  BY <1>1, <1>2, <1>3, <1>4, <1>5, <1>6, <1>7, <1>8,
     <1>9, <1>10, <1>11, <1>12, <1>13, <1>14, <1>15 DEF Next, Work

LEMMA LagStep ==
    TypeOK /\ WorkerInv /\ LagInv /\ [Next]_vars => LagInv'
<1> SUFFICES ASSUME TypeOK, WorkerInv, LagInv, [Next]_vars PROVE LagInv'
  OBVIOUS
<1> USE DEF TypeOK, WorkerInv, LagInv, Together, Base, Gone, caller, workers
<1>1. ASSUME NEW as \in [Workers -> Acts], Step(as) PROVE LagInv'
  BY <1>1 DEF Step, AllIdle
<1>2. CASE Reset
  BY <1>2 DEF Reset
<1>3. CASE Close
  BY <1>3 DEF Close
<1>4. CASE Issue
  BY <1>4 DEF Issue
<1>5. CASE Return
  BY <1>5 DEF Return, Complete
<1>6. CASE Raise
  BY <1>6 DEF Raise, Missing
<1>7. CASE Join
  BY <1>7 DEF Join
<1>8. ASSUME NEW w \in Workers, Notice(w) PROVE LagInv'
  BY <1>8 DEF Notice
<1>9. ASSUME NEW w \in Workers, Pick(w) PROVE LagInv'
  BY <1>9 DEF Pick, Picked
<1>10. ASSUME NEW w \in Workers, Exit(w) PROVE LagInv'
  BY <1>10 DEF Exit
<1>11. ASSUME NEW w \in Workers, Run(w) PROVE LagInv'
  BY <1>11 DEF Run, Ran
<1>12. ASSUME NEW w \in Workers, Report(w) PROVE LagInv'
  BY <1>12 DEF Report, Reported
<1>13. ASSUME NEW w \in Workers, Fail(w) PROVE LagInv'
  BY <1>13 DEF Fail
<1>14. ASSUME NEW w \in Workers, Kill(w) PROVE LagInv'
  BY <1>14 DEF Kill
<1>15. CASE UNCHANGED vars
  BY <1>15 DEF vars
<1> QED
  BY <1>1, <1>2, <1>3, <1>4, <1>5, <1>6, <1>7, <1>8,
     <1>9, <1>10, <1>11, <1>12, <1>13, <1>14, <1>15 DEF Next, Work

LEMMA CallStep ==
    TypeOK /\ CallInv /\ [Next]_vars => CallInv'
<1> SUFFICES ASSUME TypeOK, CallInv, [Next]_vars PROVE CallInv'
  OBVIOUS
<1> USE DEF TypeOK, CallInv, Calls, caller, workers
<1>1. ASSUME NEW as \in [Workers -> Acts], Step(as) PROVE CallInv'
  BY <1>1 DEF Step, AllIdle
<1>2. CASE Reset
  BY <1>2 DEF Reset
<1>3. CASE Close
  BY <1>3 DEF Close
<1>4. CASE Issue
  BY <1>4 DEF Issue
<1>5. CASE Return
  BY <1>5 DEF Return, Complete
<1>6. CASE Raise
  BY <1>6 DEF Raise, Missing
<1>7. CASE Join
  BY <1>7 DEF Join
<1>8. ASSUME NEW w \in Workers, Notice(w) PROVE CallInv'
  BY <1>8 DEF Notice
<1>9. ASSUME NEW w \in Workers, Pick(w) PROVE CallInv'
  BY <1>9 DEF Pick, Picked
<1>10. ASSUME NEW w \in Workers, Exit(w) PROVE CallInv'
  BY <1>10 DEF Exit
<1>11. ASSUME NEW w \in Workers, Run(w) PROVE CallInv'
  BY <1>11 DEF Run, Ran
<1>12. ASSUME NEW w \in Workers, Report(w) PROVE CallInv'
  BY <1>12 DEF Report, Reported
<1>13. ASSUME NEW w \in Workers, Fail(w) PROVE CallInv'
  BY <1>13 DEF Fail
<1>14. ASSUME NEW w \in Workers, Kill(w) PROVE CallInv'
  BY <1>14 DEF Kill
<1>15. CASE UNCHANGED vars
  BY <1>15 DEF vars
<1> QED
  BY <1>1, <1>2, <1>3, <1>4, <1>5, <1>6, <1>7, <1>8,
     <1>9, <1>10, <1>11, <1>12, <1>13, <1>14, <1>15 DEF Next, Work

LEMMA StepStep ==
    TypeOK /\ WorkerInv /\ LagInv /\ CallInv /\ StepInv /\ [Next]_vars => StepInv'
<1> SUFFICES ASSUME TypeOK, WorkerInv, LagInv, CallInv, StepInv, [Next]_vars PROVE StepInv'
  OBVIOUS
<1>0. /\ epoch \in Nat
      /\ \A w \in Workers : /\ done[w] \in Nat /\ done[w] =< epoch
                             /\ last[w] \in Nat /\ last[w] =< epoch
  BY Ranges
<1> USE DEF TypeOK, WorkerInv, LagInv, CallInv, StepInv, InStep, Answered, Together, Base, Result, Calls, Gone, caller, workers
<1>1. ASSUME NEW as \in [Workers -> Acts], Step(as) PROVE StepInv'
  BY <1>1 DEF Step, AllIdle
<1>2. CASE Reset
  BY <1>2 DEF Reset
<1>3. CASE Close
  BY <1>3 DEF Close
<1>4. CASE Issue
  BY <1>4 DEF Issue
<1>5. CASE Return
  <2> SUFFICES ASSUME NEW v \in Workers, wpc'[v] # "gone" PROVE InStep(v)'
    OBVIOUS
  <2>1. done[v] = epoch /\ Answered(v) /\ InStep(v)
    BY <1>5 DEF Return, Complete
  <2>2. mpc' = "open" => call \in {"step", "reset"}
    BY <1>5 DEF Return
  <2>3. mpc' = "open" => tick[v] = steps
    BY <1>5, <2>1, <2>2 DEF Return
  <2> QED
    BY <1>5, <2>3 DEF Return
<1>6. CASE Raise
  <2>1. PICK v \in Workers : done[v] # epoch
    BY <1>6 DEF Raise, Missing
  <2>2. done'[v] = done[v] /\ epoch' = epoch /\ mpc' # "wait"
    BY <1>6 DEF Raise
  <2>3. ~(done'[v] >= epoch')
    BY <2>1, <2>2, Behind
  <2> QED
    BY <2>2, <2>3
<1>7. CASE Join
  BY <1>7 DEF Join
<1>8. ASSUME NEW w \in Workers, Notice(w) PROVE StepInv'
  BY <1>8 DEF Notice
<1>9. ASSUME NEW w \in Workers, Pick(w) PROVE StepInv'
  BY <1>9 DEF Pick, Picked
<1>10. ASSUME NEW w \in Workers, Exit(w) PROVE StepInv'
  <2>1. Together' => Together
    <3> SUFFICES ASSUME ~Together PROVE ~Together'
      OBVIOUS
    <3>1. PICK v \in Workers : wpc[v] = "gone" /\ done[v] < Base
      OBVIOUS
    <3>2. done'[v] = done[v] /\ Base' = Base /\ Base \in Int
      BY <1>10, <3>1 DEF Exit
    <3> QED
      BY <3>1, <3>2, <1>0
  <2> SUFFICES ASSUME Together', NEW v \in Workers, wpc'[v] # "gone" PROVE InStep(v)'
    OBVIOUS
  <2>2. InStep(v) /\ WorkerInv
    BY <1>10, <2>1 DEF Exit
  <2>3. CASE v = w
    BY <1>10, <2>2, <2>3 DEF Exit
  <2>4. CASE v # w
    BY <1>10, <2>2, <2>4 DEF Exit
  <2> QED
    BY <2>3, <2>4
<1>11. ASSUME NEW w \in Workers, Run(w) PROVE StepInv'
  BY <1>11 DEF Run, Ran
<1>12. ASSUME NEW w \in Workers, Report(w) PROVE StepInv'
  <2>1. Together' => Together
    <3> SUFFICES ASSUME ~Together PROVE ~Together'
      OBVIOUS
    <3>1. PICK v \in Workers : wpc[v] = "gone" /\ done[v] < Base
      OBVIOUS
    <3>2. done'[v] = done[v] /\ Base' = Base /\ Base \in Int
      BY <1>12, <3>1 DEF Report
    <3> QED
      BY <3>1, <3>2, <1>0
  <2> SUFFICES ASSUME Together', NEW v \in Workers, wpc'[v] # "gone" PROVE InStep(v)'
    OBVIOUS
  <2>2. InStep(v) /\ WorkerInv
    BY <1>12, <2>1 DEF Report, Reported
  <2>3. CASE v = w /\ mpc = "wait"
    <3>1. last[w] = epoch
      <4>1. done[w] < last[w] /\ done[w] >= epoch - 1
        BY <1>12, <2>1, <2>3 DEF Report
      <4> QED
        BY <4>1, Behind
    <3>2. Answered(w) /\ Answered(w)'
      BY <1>12, <3>1 DEF Report, Reported
    <3> QED
      BY <1>12, <2>2, <2>3, <3>2 DEF Report
  <2>5. CASE mpc # "wait"
    BY <1>12, <2>2, <2>5 DEF Report
  <2>4. CASE v # w
    BY <1>12, <2>2, <2>4 DEF Report, Reported
  <2> QED
    BY <2>3, <2>4, <2>5
<1>13. ASSUME NEW w \in Workers, Fail(w) PROVE StepInv'
  <2>1. Together' => Together
    <3> SUFFICES ASSUME ~Together PROVE ~Together'
      OBVIOUS
    <3>1. PICK v \in Workers : wpc[v] = "gone" /\ done[v] < Base
      OBVIOUS
    <3>2. done'[v] = done[v] /\ Base' = Base /\ Base \in Int
      BY <1>13, <3>1 DEF Fail
    <3> QED
      BY <3>1, <3>2, <1>0
  <2> SUFFICES ASSUME Together', NEW v \in Workers, wpc'[v] # "gone" PROVE InStep(v)'
    OBVIOUS
  <2>2. InStep(v) /\ WorkerInv
    BY <1>13, <2>1 DEF Fail
  <2>3. CASE v = w
    BY <1>13, <2>2, <2>3 DEF Fail
  <2>4. CASE v # w
    BY <1>13, <2>2, <2>4 DEF Fail
  <2> QED
    BY <2>3, <2>4
<1>14. ASSUME NEW w \in Workers, Kill(w) PROVE StepInv'
  BY <1>14 DEF Kill
<1>15. CASE UNCHANGED vars
  BY <1>15 DEF vars
<1> QED
  BY <1>1, <1>2, <1>3, <1>4, <1>5, <1>6, <1>7, <1>8,
     <1>9, <1>10, <1>11, <1>12, <1>13, <1>14, <1>15 DEF Next, Work

LEMMA ResultStep ==
    TypeOK /\ WorkerInv /\ ResultsOfThisCall /\ [Next]_vars => ResultsOfThisCall'
<1> SUFFICES ASSUME TypeOK, WorkerInv, ResultsOfThisCall, [Next]_vars PROVE ResultsOfThisCall'
  OBVIOUS
<1>0. /\ epoch \in Nat
      /\ \A w \in Workers : /\ done[w] \in Nat /\ done[w] =< epoch
                             /\ last[w] \in Nat /\ last[w] =< epoch
  BY Ranges
<1> USE DEF TypeOK, WorkerInv, ResultsOfThisCall, Result, Gone, caller, workers
<1>1. ASSUME NEW as \in [Workers -> Acts], Step(as) PROVE ResultsOfThisCall'
  BY <1>1 DEF Step, AllIdle
<1>2. CASE Reset
  BY <1>2 DEF Reset
<1>3. CASE Close
  BY <1>3 DEF Close
<1>4. CASE Issue
  BY <1>4 DEF Issue
<1>5. CASE Return
  <2> SUFFICES ASSUME call # "close", NEW w \in Workers, wpc[w] # "gone"
               PROVE  out[w].ep = epoch
    BY <1>5 DEF Return
  <2>1. done[w] = epoch
    BY <1>5 DEF Return, Complete
  <2>2. wpc[w] = "spin"
    BY <1>0, <2>1
  <2> QED
    BY <2>1, <2>2
<1>6. CASE Raise
  BY <1>6 DEF Raise, Missing
<1>7. CASE Join
  BY <1>7 DEF Join
<1>8. ASSUME NEW w \in Workers, Notice(w) PROVE ResultsOfThisCall'
  BY <1>8 DEF Notice
<1>9. ASSUME NEW w \in Workers, Pick(w) PROVE ResultsOfThisCall'
  BY <1>9 DEF Pick, Picked
<1>10. ASSUME NEW w \in Workers, Exit(w) PROVE ResultsOfThisCall'
  BY <1>10 DEF Exit
<1>11. ASSUME NEW w \in Workers, Run(w) PROVE ResultsOfThisCall'
  BY <1>11 DEF Run, Ran
<1>12. ASSUME NEW w \in Workers, Report(w) PROVE ResultsOfThisCall'
  BY <1>12 DEF Report, Reported
<1>13. ASSUME NEW w \in Workers, Fail(w) PROVE ResultsOfThisCall'
  BY <1>13 DEF Fail
<1>14. ASSUME NEW w \in Workers, Kill(w) PROVE ResultsOfThisCall'
  BY <1>14 DEF Kill
<1>15. CASE UNCHANGED vars
  BY <1>15 DEF vars
<1> QED
  BY <1>1, <1>2, <1>3, <1>4, <1>5, <1>6, <1>7, <1>8,
     <1>9, <1>10, <1>11, <1>12, <1>13, <1>14, <1>15 DEF Next, Work

LEMMA ActionStep ==
    TypeOK /\ WorkerInv /\ CallInv /\ StepInv /\ ActionsArrive /\ [Next]_vars => ActionsArrive'
<1> SUFFICES ASSUME TypeOK, WorkerInv, CallInv, StepInv, ActionsArrive, [Next]_vars PROVE ActionsArrive'
  OBVIOUS
<1> USE DEF TypeOK, WorkerInv, StepInv, InStep, Answered, Together, Base, ActionsArrive, Result, Gone, caller, workers
<1>1. ASSUME NEW as \in [Workers -> Acts], Step(as) PROVE ActionsArrive'
  BY <1>1 DEF Step, AllIdle
<1>2. CASE Reset
  BY <1>2 DEF Reset
<1>3. CASE Close
  BY <1>3 DEF Close
<1>4. CASE Issue
  BY <1>4 DEF Issue
<1>5. CASE Return
  <2> SUFFICES ASSUME ret'.ok, ret'.call = "step", NEW v \in Workers \ Gone'
               PROVE  ret'.res[v].act = ret'.given[v]
    OBVIOUS
  <2>1. CASE call = "close"
    BY <1>5, <2>1 DEF Return
  <2>2. CASE call # "close"
    <3>1. ret'.res = out /\ ret'.given = given /\ call = "step"
      BY <1>5, <2>2 DEF Return
    <3>2. done[v] = epoch /\ Answered(v) /\ InStep(v)
      BY <1>5 DEF Return, Complete
    <3> QED
      BY <1>5, <3>1, <3>2 DEF Return
  <2> QED
    BY <2>1, <2>2
<1>6. CASE Raise
  BY <1>6 DEF Raise, Missing
<1>7. CASE Join
  BY <1>7 DEF Join
<1>8. ASSUME NEW w \in Workers, Notice(w) PROVE ActionsArrive'
  BY <1>8 DEF Notice
<1>9. ASSUME NEW w \in Workers, Pick(w) PROVE ActionsArrive'
  BY <1>9 DEF Pick, Picked
<1>10. ASSUME NEW w \in Workers, Exit(w) PROVE ActionsArrive'
  BY <1>10 DEF Exit
<1>11. ASSUME NEW w \in Workers, Run(w) PROVE ActionsArrive'
  BY <1>11 DEF Run, Ran
<1>12. ASSUME NEW w \in Workers, Report(w) PROVE ActionsArrive'
  BY <1>12 DEF Report, Reported
<1>13. ASSUME NEW w \in Workers, Fail(w) PROVE ActionsArrive'
  BY <1>13 DEF Fail
<1>14. ASSUME NEW w \in Workers, Kill(w) PROVE ActionsArrive'
  BY <1>14 DEF Kill
<1>15. CASE UNCHANGED vars
  BY <1>15 DEF vars
<1> QED
  BY <1>1, <1>2, <1>3, <1>4, <1>5, <1>6, <1>7, <1>8,
     <1>9, <1>10, <1>11, <1>12, <1>13, <1>14, <1>15 DEF Next, Work

LEMMA NoticeStep ==
    TypeOK /\ DownInv /\ FailureIsNoticed /\ [Next]_vars => FailureIsNoticed'
<1> SUFFICES ASSUME TypeOK, DownInv, FailureIsNoticed, [Next]_vars PROVE FailureIsNoticed'
  OBVIOUS
<1>0. /\ epoch \in Nat
      /\ \A w \in Workers : /\ done[w] \in Nat /\ done[w] =< epoch
                             /\ last[w] \in Nat /\ last[w] =< epoch
  BY Ranges
<1> USE DEF TypeOK, DownInv, FailureIsNoticed, Gone, caller, workers
<1>1. ASSUME NEW as \in [Workers -> Acts], Step(as) PROVE FailureIsNoticed'
  BY <1>1 DEF Step, AllIdle
<1>2. CASE Reset
  BY <1>2 DEF Reset
<1>3. CASE Close
  BY <1>3 DEF Close
<1>4. CASE Issue
  BY <1>4 DEF Issue
<1>5. CASE Return
  <2> SUFFICES ASSUME call # "close" PROVE down = {}
    BY <1>5 DEF Return
  <2>1. \A v \in down : done[v] < epoch /\ v \in Workers
    BY <1>5 DEF Return
  <2>2. \A v \in Workers : done[v] = epoch
    BY <1>5 DEF Return, Complete
  <2> QED
    BY <2>1, <2>2, <1>0
<1>6. CASE Raise
  BY <1>6 DEF Raise, Missing
<1>7. CASE Join
  BY <1>7 DEF Join
<1>8. ASSUME NEW w \in Workers, Notice(w) PROVE FailureIsNoticed'
  BY <1>8 DEF Notice
<1>9. ASSUME NEW w \in Workers, Pick(w) PROVE FailureIsNoticed'
  BY <1>9 DEF Pick, Picked
<1>10. ASSUME NEW w \in Workers, Exit(w) PROVE FailureIsNoticed'
  BY <1>10 DEF Exit
<1>11. ASSUME NEW w \in Workers, Run(w) PROVE FailureIsNoticed'
  BY <1>11 DEF Run, Ran
<1>12. ASSUME NEW w \in Workers, Report(w) PROVE FailureIsNoticed'
  BY <1>12 DEF Report, Reported
<1>13. ASSUME NEW w \in Workers, Fail(w) PROVE FailureIsNoticed'
  BY <1>13 DEF Fail
<1>14. ASSUME NEW w \in Workers, Kill(w) PROVE FailureIsNoticed'
  BY <1>14 DEF Kill
<1>15. CASE UNCHANGED vars
  BY <1>15 DEF vars
<1> QED
  BY <1>1, <1>2, <1>3, <1>4, <1>5, <1>6, <1>7, <1>8,
     <1>9, <1>10, <1>11, <1>12, <1>13, <1>14, <1>15 DEF Next, Work

-----------------------------------------------------------------------------
LEMMA InitIInv == Init => IInv
<1> SUFFICES ASSUME Init PROVE IInv
  OBVIOUS
<1> USE VectorAssumption DEF Init
<1>1. TypeOK
  BY DEF TypeOK, Calls, Result
<1>2. WorkerInv /\ DownInv /\ LagInv /\ CallInv
  BY DEF WorkerInv, DownInv, LagInv, Together, Base, CallInv
<1>3. StepInv
  BY DEF StepInv, InStep
<1>4. ResultsOfThisCall /\ ActionsArrive /\ FailureIsNoticed
  BY DEF ResultsOfThisCall, ActionsArrive, FailureIsNoticed
<1> QED
  BY <1>1, <1>2, <1>3, <1>4 DEF IInv

LEMMA Inductive == Spec => []IInv
<1>1. IInv /\ [Next]_vars => IInv'
  BY TypeStep, WorkerStep, DownStep, LagStep, CallStep, StepStep, ResultStep,
     ActionStep, NoticeStep DEF IInv
<1> QED
  BY InitIInv, <1>1, PTL DEF Spec

\* Every variable keeps its type, and no worker is ahead of the caller.
THEOREM TypeCorrect == Spec => []TypeOK
<1>1. IInv => TypeOK
  BY DEF IInv
<1> QED
  BY Inductive, <1>1, PTL

\* What a call returns for a worker that runs was seen in this call.
THEOREM OfThisCall == Spec => []ResultsOfThisCall
<1>1. IInv => ResultsOfThisCall
  BY DEF IInv
<1> QED
  BY Inductive, <1>1, PTL

\* A step that returns has run in every worker the action given for it.
THEOREM ActionsReach == Spec => []ActionsArrive
<1>1. IInv => ActionsArrive
  BY DEF IInv
<1> QED
  BY Inductive, <1>1, PTL

\* No call issued while a worker is gone returns a result.
THEOREM Noticed == Spec => []FailureIsNoticed
<1>1. IInv => FailureIsNoticed
  BY DEF IInv
<1> QED
  BY Inductive, <1>1, PTL

\* While all workers run, their worlds are at the same tick between calls.
THEOREM InStepTogether == Spec => []TicksTogether
<1>1. IInv => TicksTogether
  <2> SUFFICES ASSUME IInv, mpc = "open", Gone = {}, NEW w \in Workers
               PROVE  tick[w] = steps
    BY DEF TicksTogether
  <2>1. \A v \in Workers : wpc[v] # "gone"
    BY DEF Gone
  <2>2. Together
    BY <2>1 DEF IInv, LagInv
  <2> QED
    BY <2>1, <2>2 DEF IInv, StepInv, InStep
<1> QED
  BY Inductive, <1>1, PTL

\* What a call returns is of this call, of the actions it was given and of workers
\* that are all there, for any number of workers and calls.
THEOREM CallsAreTrueCorrect == Spec => []CallsAreTrue
<1>1. TypeOK /\ ResultsOfThisCall /\ ActionsArrive /\ FailureIsNoticed /\ TicksTogether
        => CallsAreTrue
  BY DEF CallsAreTrue
<1> QED  BY <1>1, TypeCorrect, OfThisCall, ActionsReach, Noticed, InStepTogether, PTL
=============================================================================
