------------------------------ MODULE WorkerTasks ------------------------------
(* The tasks a worker process runs at once, page:render and document:split. *)
EXTENDS Integers, FiniteSets

CONSTANT Task

ASSUME TaskAssumption == IsFiniteSet(Task)
==============================================================================
