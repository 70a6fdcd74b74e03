-------------------------------- MODULE Supervisor --------------------------------
(***************************************************************************)
(* The process supervisor of core/src/runtime/supervisor.rs: a task per    *)
(* child process that restarts it with a backoff when it exits and kills   *)
(* it when told to stop.                                                   *)
(*                                                                         *)
(* Covered: start, stop, drop, the two selects of the monitor (the outer   *)
(* one looks at the stop flag first, the inner one at whichever is ready), *)
(* the restart budget, a respawn that fails, an exit at any moment.        *)
(* Abstracted: how long the backoff is; the PID, which is there exactly    *)
(* while the child is not "none".  The abort of a monitor takes effect at  *)
(* one of its awaits, after the step that is being polled.                 *)
(***************************************************************************)
EXTENDS Integers

CONSTANTS
    Supervisors,    \* every supervisor that is ever started, numbers
    MaxRestarts,    \* MAX_RESTARTS
    MaxExits        \* bound on the unexpected exits of all the children

ASSUME SupervisorsAssumption == Supervisors \subseteq Nat
ASSUME BudgetAssumption      == MaxRestarts \in Nat /\ MaxExits \in Nat

VARIABLES
    sup,      \* a supervisor: its task, its child, the flags and what it reports
    exits     \* how many children have exited by themselves

supervision == <<sup, exits>>

Supervision ==
    [monitor : {"none", "watch", "exited", "backoff", "killing", "done"},
     child : {"none", "alive", "dead"},
     stop : BOOLEAN, abort : BOOLEAN,
     restarts : 0 .. MaxRestarts + 1,
     state : {"unborn", "running", "restarting", "stopped", "gave_up"}]

Unborn == [monitor |-> "none", child |-> "none", stop |-> FALSE, abort |-> FALSE,
           restarts |-> 0, state |-> "unborn"]

InitSupervisors == sup = [s \in Supervisors |-> Unborn] /\ exits = 0

-------------------------------------------------------------------------------
(* What an adapter does with a supervisor *)

\* RuntimeSupervisor::start
Started == [Unborn EXCEPT !.monitor = "watch", !.child = "alive", !.state = "running"]

\* RuntimeSupervisor::stop, which then awaits the monitor: see HasStopped
Stopping(r) == [r EXCEPT !.stop = TRUE]
HasStopped(r) == r.monitor = "done"

\* The Drop: the flag, and the abort of the monitor
Dropped(r) == [r EXCEPT !.stop = TRUE, !.abort = TRUE]

-------------------------------------------------------------------------------
(* The monitor *)

Set(s, r) == sup' = [sup EXCEPT ![s] = r]
End(r, state) == [r EXCEPT !.monitor = "done", !.child = "none", !.state = state]

\* Mutant: the flag is looked at only while the child lives.
SeeStopAlive(s) ==
    /\ sup[s].monitor = "watch" /\ sup[s].stop /\ sup[s].child = "alive"
    /\ Set(s, [sup[s] EXCEPT !.monitor = "killing"])
    /\ UNCHANGED exits

\* The stop branch of the outer select: start_kill, then the wait
SeeStop(s) ==
    /\ sup[s].monitor = "watch" /\ sup[s].stop
    /\ Set(s, [sup[s] EXCEPT !.monitor = "killing"])
    /\ UNCHANGED exits

Killed(s) ==
    /\ sup[s].monitor = "killing"
    /\ Set(s, End(sup[s], "stopped"))
    /\ UNCHANGED exits

\* The exit branch: taken only when the stop flag was not up at the poll
SeeExit(s) ==
    /\ sup[s].monitor = "watch" /\ sup[s].child = "dead" /\ ~sup[s].stop
    /\ Set(s, [sup[s] EXCEPT !.monitor = "exited", !.child = "none"])
    /\ UNCHANGED exits

\* Mutant: one restart too many.
JudgeExitLate(s) ==
    LET r == [sup[s] EXCEPT !.restarts = @ + 1] IN
    /\ sup[s].monitor = "exited"
    /\ Set(s, IF sup[s].stop THEN End(sup[s], "stopped")
              ELSE IF r.restarts > MaxRestarts + 1 THEN End(r, "gave_up")
              ELSE [r EXCEPT !.monitor = "backoff", !.state = "restarting"])
    /\ UNCHANGED exits

\* ... which looks at the flag again, then counts the restart
JudgeExit(s) ==
    LET r == [sup[s] EXCEPT !.restarts = @ + 1] IN
    /\ sup[s].monitor = "exited"
    /\ Set(s, IF sup[s].stop THEN End(sup[s], "stopped")
              ELSE IF r.restarts > MaxRestarts THEN End(r, "gave_up")
              ELSE [r EXCEPT !.monitor = "backoff", !.state = "restarting"])
    /\ UNCHANGED exits

BackoffStopped(s) ==
    /\ sup[s].monitor = "backoff" /\ sup[s].stop
    /\ Set(s, End(sup[s], "stopped"))
    /\ UNCHANGED exits

\* The inner select is not biased: the timer may win over a stop
Respawn(s) ==
    /\ sup[s].monitor = "backoff"
    /\ \/ Set(s, [sup[s] EXCEPT !.monitor = "watch", !.child = "alive", !.state = "running"])
       \/ Set(s, End(sup[s], "gave_up"))
    /\ UNCHANGED exits

\* The aborted task is dropped at an await; kill_on_drop takes the child along
Aborted(s) ==
    /\ sup[s].abort /\ sup[s].monitor \in {"watch", "backoff", "killing"}
    /\ Set(s, End(sup[s], sup[s].state))
    /\ UNCHANGED exits

Monitor(s) ==
    \/ SeeStop(s) \/ Killed(s) \/ SeeExit(s) \/ JudgeExit(s)
    \/ BackoffStopped(s) \/ Respawn(s) \/ Aborted(s)

\* A crash of the child
ChildExits(s) ==
    /\ sup[s].child = "alive" /\ exits < MaxExits
    /\ Set(s, [sup[s] EXCEPT !.child = "dead"])
    /\ exits' = exits + 1

===================================================================================
