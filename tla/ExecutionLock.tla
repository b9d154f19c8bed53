---------------------------- MODULE ExecutionLock -----------------------------
(***************************************************************************)
(* execution/system/execution_lock.py and execution_window.py: the two      *)
(* small objects every order path consults, as operators on their state.   *)
(*                                                                         *)
(* A lock is [owner, phase]; owner 0 is ExecutionState.IDLE, any other      *)
(* number is the execution_id acquire() drew (ids are drawn in increasing   *)
(* order, which stands for uuid4 never repeating).  A window is             *)
(* [state, exec].                                                          *)
(***************************************************************************)
EXTENDS Naturals

ActivePhases == {"PLANNING", "CLOSING", "OPENING", "CONFIRMING"}

IdleLock == [owner |-> 0, phase |-> "NONE"]

IsIdle(lock) == lock.owner = 0

(* acquire(); the caller checks IsIdle, otherwise ExecutionBusy is raised. *)
Acquired(exec) == [owner |-> exec, phase |-> "PLANNING"]

(***************************************************************************)
(* guard(): ExecutionBreach when nothing runs, ExecutionHijack when         *)
(* another execution does.                                                 *)
(***************************************************************************)
GuardIgnoresBreach(lock, exec) == lock.owner \in {0, exec}
Guard(lock, exec) == lock.owner = exec

(* update_phase() behind its guard. *)
InPhase(lock, phase) == [lock EXCEPT !.phase = phase]

(* abort() has no owner check: it resets whoever holds the lock. *)
AbortKeepsPhase(lock) ==
  IF IsIdle(lock) THEN lock ELSE [lock EXCEPT !.owner = 0]
Abort(lock) == IF IsIdle(lock) THEN lock ELSE IdleLock

(* release() behind its guard; a release by anyone else raises. *)
ReleaseNever(lock, exec) == lock
Release(lock, exec) == IF Guard(lock, exec) THEN IdleLock ELSE lock

-----------------------------------------------------------------------------

ClosedWindow == [state |-> "CLOSED", exec |-> 0]

IsClosed(window) == window.state = "CLOSED"

OpenedFor(exec) == [state |-> "OPEN", exec |-> exec]

(* mark_closing() and close() ignore an execution that is not the window's. *)
MarkClosing(window, exec) ==
  IF window.exec = exec THEN [window EXCEPT !.state = "CLOSING"] ELSE window

Close(window, exec) == IF window.exec = exec THEN ClosedWindow ELSE window

ForceCloseNever(window) == window
ForceClose(window) == ClosedWindow

=============================================================================
