----------------------------- MODULE Simulation -----------------------------
(***************************************************************************)
(* An authorized simulation (routers/simulations.py, worker.py): the row   *)
(* of simulation_runs, committed before its task is sent to the broker,    *)
(* and the task in the worker, which commits the start and the end.        *)
(*                                                                         *)
(* Celery acknowledges a task when it starts (the default; worker.py sets  *)
(* nothing else): one that waits is delivered again after the worker has   *)
(* died, one that has started is gone.                                     *)
(***************************************************************************)
VARIABLES
    run,   \* the status of the run, "none" before the request
    task   \* "none", "unsent", "sent", "claimed", "started", "finished",
           \* "done", or "lost"

simulation == <<run, task>>

SimulationInit == run = "none" /\ task = "none"

\* The request: the run is committed ...
CreateRun ==
    /\ run = "none"
    /\ run' = "queued" /\ task' = "unsent"

\* ... and then its task is sent, or the broker cannot be reached.
Send == task = "unsent" /\ task' = "sent" /\ UNCHANGED run

LoseTask == task = "unsent" /\ task' = "lost" /\ UNCHANGED run

\* The worker begins the task and selects the row.
Claim == task = "sent" /\ task' = "claimed" /\ UNCHANGED run

StartRun == task = "claimed" /\ run' = "running" /\ task' = "started"

\* Mutant: the second commit is forgotten.
FinishUncommitted == task = "started" /\ task' = "finished" /\ UNCHANGED run

FinishRun == task = "started" /\ run' = "completed" /\ task' = "finished"

\* The counter of runs is incremented and the task returns.
Return == task = "finished" /\ task' = "done" /\ UNCHANGED run

\* The worker has the task in one of its slots.
Executing == task \in {"claimed", "started", "finished"}

\* Mutant: tasks are acknowledged when they return.
DroppedLate == IF Executing THEN "sent" ELSE task

\* What is left of the task when the worker dies.
Dropped == IF task = "finished" THEN "done" ELSE IF Executing THEN "lost" ELSE task

DropTask == task' = Dropped /\ UNCHANGED run
=============================================================================
