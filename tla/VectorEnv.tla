----------------------------- MODULE VectorEnv -----------------------------
(***************************************************************************)
(* The vector of environments of sdk/vector_env.py: one process that calls *)
(* reset, step and close, and one spawned worker for each environment.     *)
(*                                                                         *)
(* They share memory without a lock.  The caller packs the actions, writes *)
(* the command, raises the epoch and spins until every worker's done has   *)
(* the epoch; a worker spins until the epoch is not the last it saw, reads *)
(* the command and its action, runs its environment, writes what it saw    *)
(* and puts the epoch into done.  A worker whose environment raises puts   *)
(* the epoch into done as well, and exits: the call that failed returns    *)
(* what the worker wrote before, and only the next one finds it gone.      *)
(***************************************************************************)
EXTENDS Integers, FiniteSets

CONSTANTS
    Workers,
    Acts,                   \* what an environment may be told to do
    Idle,                   \* idle_action: no order, every lever masked
    MaxCalls,               \* bound on the calls of reset and step
    MaxFails                \* bound on the workers that raise or are killed

ASSUME VectorAssumption ==
    Idle \in Acts /\ MaxCalls \in Nat /\ MaxFails \in Nat

VARIABLES
    mpc,                    \* where the caller is
    call,                   \* the call it makes
    given,                  \* the actions it was given
    packedIdle,             \* _packed_idle
    epoch, cmd, useIdle,    \* _Ctrl, written by the caller
    slots,                  \* act_inst .. act_mask of each worker
    done, out,              \* _Ctrl, written by the workers
    wpc, last,              \* where each worker is, and the epoch it saw last
    doing,                  \* the command and the action it picked up
    tick,                   \* the clock of its world
    ret,                    \* what the last call returned
    down,                   \* the workers that were gone when it was issued
    steps,                  \* the steps since the last reset
    calls, fails

caller == <<mpc, call, given, packedIdle, epoch, cmd, useIdle, slots, ret, down, steps, calls>>
workers == <<done, out, wpc, last, doing, tick, fails>>
vars == <<caller, workers>>

Calls == {"reset", "step", "close"}
Result == [ep : Nat, tick : Nat, act : Acts]

Gone == {w \in Workers : wpc[w] = "gone"}

Init ==
    /\ mpc = "open" /\ call = "reset" /\ given = [w \in Workers |-> Idle]
    /\ packedIdle = TRUE /\ epoch = 0 /\ cmd = "none" /\ useIdle = TRUE
    /\ slots = [w \in Workers |-> Idle]
    /\ done = [w \in Workers |-> 0]
    /\ out = [w \in Workers |-> [ep |-> 0, tick |-> 0, act |-> Idle]]
    /\ wpc = [w \in Workers |-> "spin"] /\ last = [w \in Workers |-> 0]
    /\ doing = [w \in Workers |-> [cmd |-> "reset", act |-> Idle]]
    /\ tick = [w \in Workers |-> 0]
    /\ ret = [ok |-> FALSE, of |-> 0, call |-> "reset", given |-> given, res |-> out, down |-> {}]
    /\ down = {} /\ steps = 0 /\ calls = 0 /\ fails = 0

-----------------------------------------------------------------------------
(* The caller.                                                             *)

AllIdle(as) == \A w \in Workers : as[w] = Idle

\* Idle actions are not packed again over idle actions.
Step(as) ==
    /\ mpc = "open" /\ calls < MaxCalls
    /\ mpc' = "issue" /\ call' = "step" /\ given' = as /\ calls' = calls + 1
    /\ useIdle' = AllIdle(as)
    /\ packedIdle' = AllIdle(as)
    /\ slots' = IF AllIdle(as) /\ packedIdle THEN slots ELSE as
    /\ down' = Gone /\ steps' = steps + 1
    /\ UNCHANGED <<epoch, cmd, ret, workers>>

Reset ==
    /\ mpc = "open" /\ calls < MaxCalls
    /\ mpc' = "issue" /\ call' = "reset" /\ calls' = calls + 1
    /\ down' = Gone /\ steps' = 0
    /\ UNCHANGED <<given, packedIdle, epoch, cmd, useIdle, slots, ret, workers>>

\* close issues the command only if a worker is alive.
Close ==
    /\ mpc = "open"
    /\ call' = "close" /\ down' = Gone
    /\ mpc' = IF Gone # Workers THEN "issue" ELSE "join"
    /\ UNCHANGED <<given, packedIdle, epoch, cmd, useIdle, slots, ret, steps, calls, workers>>

Issue ==
    /\ \/ /\ mpc = "issue" /\ mpc' = "raise"
          /\ cmd' = call /\ UNCHANGED epoch
       \/ /\ mpc = "raise" /\ mpc' = "wait"
          /\ epoch' = epoch + 1 /\ UNCHANGED cmd
    /\ UNCHANGED <<call, given, packedIdle, useIdle, slots, ret, down, steps, calls, workers>>

\* Faulty: one worker that is done is enough.
Complete_One == \E w \in Workers : done[w] = epoch

Complete == \A w \in Workers : done[w] = epoch

Return ==
    /\ mpc = "wait" /\ Complete
    /\ mpc' = IF call = "close" THEN "join" ELSE "open"
    /\ ret' = IF call = "close" THEN ret
              ELSE [ok |-> TRUE, of |-> epoch, call |-> call, given |-> given,
                    res |-> out, down |-> down]
    /\ UNCHANGED <<call, given, packedIdle, epoch, cmd, useIdle, slots, down, steps, calls, workers>>

\* Faulty: the liveness of the workers is not looked at.
Missing_Never == {}
Missing == {w \in Gone : done[w] # epoch}

\* The other workers may still be running; close swallows the exception.
Raise ==
    /\ mpc = "wait" /\ Missing # {}
    /\ mpc' = IF call = "close" THEN "join" ELSE "open"
    /\ ret' = [ret EXCEPT !.ok = FALSE]
    /\ UNCHANGED <<call, given, packedIdle, epoch, cmd, useIdle, slots, down, steps, calls, workers>>

\* Joined, or terminated when the time is over.
Join ==
    /\ mpc = "join" /\ mpc' = "closed"
    /\ wpc' = [w \in Workers |-> "gone"]
    /\ UNCHANGED <<call, given, packedIdle, epoch, cmd, useIdle, slots, ret, down, steps, calls>>
    /\ UNCHANGED <<done, out, last, doing, tick, fails>>

-----------------------------------------------------------------------------
(* A worker.                                                               *)

Notice(w) ==
    /\ wpc[w] = "spin" /\ epoch # last[w]
    /\ last' = [last EXCEPT ![w] = epoch]
    /\ wpc' = [wpc EXCEPT ![w] = "cmd"]
    /\ UNCHANGED <<done, out, doing, tick, fails, caller>>

\* What the shared memory says when the worker reads it.
Picked(w) == [cmd |-> cmd, act |-> IF useIdle THEN Idle ELSE slots[w]]

Pick(w) ==
    /\ wpc[w] = "cmd" /\ cmd # "close"
    /\ doing' = [doing EXCEPT ![w] = Picked(w)]
    /\ wpc' = [wpc EXCEPT ![w] = "run"]
    /\ UNCHANGED <<done, out, last, tick, fails, caller>>

Exit(w) ==
    /\ wpc[w] = "cmd" /\ cmd = "close"
    /\ done' = [done EXCEPT ![w] = last[w]]
    /\ wpc' = [wpc EXCEPT ![w] = "gone"]
    /\ UNCHANGED <<out, last, doing, tick, fails, caller>>

\* A reset rewinds the world to tick 0; a step past the horizon goes on.
Ran(w) == IF doing[w].cmd = "reset" THEN 0 ELSE tick[w] + 1

Run(w) ==
    /\ wpc[w] = "run"
    /\ tick' = [tick EXCEPT ![w] = Ran(w)]
    /\ out' = [out EXCEPT ![w] = [ep |-> last[w], tick |-> Ran(w), act |-> doing[w].act]]
    /\ wpc' = [wpc EXCEPT ![w] = "report"]
    /\ UNCHANGED <<done, last, doing, fails, caller>>

Reported(w) == last[w]

Report(w) ==
    /\ wpc[w] = "report"
    /\ done' = [done EXCEPT ![w] = Reported(w)]
    /\ wpc' = [wpc EXCEPT ![w] = "spin"]
    /\ UNCHANGED <<out, last, doing, tick, fails, caller>>

\* The environment raises: the call counts as done and the worker is gone.
Fail(w) ==
    /\ wpc[w] = "run" /\ fails < MaxFails
    /\ done' = [done EXCEPT ![w] = last[w]]
    /\ wpc' = [wpc EXCEPT ![w] = "gone"]
    /\ fails' = fails + 1
    /\ UNCHANGED <<out, last, doing, tick, caller>>

\* The process ends at any time: the system takes it away.
Kill(w) ==
    /\ wpc[w] # "gone" /\ fails < MaxFails
    /\ wpc' = [wpc EXCEPT ![w] = "gone"]
    /\ fails' = fails + 1
    /\ UNCHANGED <<done, out, last, doing, tick, caller>>

Work(w) == Notice(w) \/ Pick(w) \/ Exit(w) \/ Run(w) \/ Report(w)

Next ==
    \/ \E as \in [Workers -> Acts] : Step(as)
    \/ Reset \/ Close \/ Issue \/ Return \/ Raise \/ Join
    \/ \E w \in Workers : Work(w) \/ Fail(w) \/ Kill(w)

Spec == Init /\ [][Next]_vars

\* The caller spins and the workers run: nobody holds a lock.
FairSpec ==
    /\ Spec
    /\ WF_vars(Issue \/ Return \/ Raise)
    /\ \A w \in Workers : WF_vars(Work(w))

-----------------------------------------------------------------------------
(* Nobody is ahead of the epoch the caller has issued.                     *)
TypeOK ==
    /\ mpc \in {"open", "issue", "raise", "wait", "join", "closed"}
    /\ call \in Calls /\ given \in [Workers -> Acts] /\ packedIdle \in BOOLEAN
    /\ epoch \in Nat /\ cmd \in Calls \cup {"none"} /\ useIdle \in BOOLEAN
    /\ slots \in [Workers -> Acts]
    /\ done \in [Workers -> 0 .. epoch] /\ last \in [Workers -> 0 .. epoch]
    /\ out \in [Workers -> Result]
    /\ wpc \in [Workers -> {"spin", "cmd", "run", "report", "gone"}]
    /\ doing \in [Workers -> [cmd : Calls \cup {"none"}, act : Acts]]
    /\ tick \in [Workers -> Nat]
    /\ ret \in [ok : BOOLEAN, of : Nat, call : Calls, given : [Workers -> Acts],
                res : [Workers -> Result], down : SUBSET Workers]
    /\ down \in SUBSET Workers
    /\ steps \in Nat /\ calls \in Nat /\ fails \in Nat

\* Of a worker that still runs, a call that returns gives what that worker
\* saw in this call, and never what an earlier call had left in memory.
ResultsOfThisCall ==
    ret.ok => \A w \in Workers \ Gone : ret.res[w].ep = ret.of

\* A step that returns has run, in every worker that still runs, the action
\* this step was given for it: neither the one packed before nor a neighbour's.
ActionsArrive ==
    ret.ok /\ ret.call = "step" =>
        \A w \in Workers \ Gone : ret.res[w].act = ret.given[w]

\* A worker that was gone when a call was issued is noticed: that call raises.
FailureIsNoticed == ret.ok => ret.down = {}

\* While every worker runs, the environments are reset and stepped together:
\* between two calls each has seen every step since the last reset.
TicksTogether ==
    mpc = "open" /\ Gone = {} => \A w \in Workers : tick[w] = steps

\* A call ends, in a result or an exception, even if a worker fails in it.
CallsEnd == mpc = "wait" ~> mpc # "wait"

\* A call that returns gives results of this call: of the actions it was given, by
\* workers that are all there and all at the same tick.
CallsAreTrue == TypeOK /\ ResultsOfThisCall /\ ActionsArrive /\ FailureIsNoticed /\ TicksTogether
=============================================================================
