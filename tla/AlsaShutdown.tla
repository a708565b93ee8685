---------------------------- MODULE AlsaShutdown ----------------------------
(***************************************************************************)
(* AlsaSinkManager with its destructor.  BoWWServer's destructor has       *)
(* joined the ticker and the io loop has returned, so no group calls any   *)
(* more: only the worker runs beside the destructor, which takes           *)
(* device_mutex, closes the handle and joins the worker, in that order and *)
(* under the mutex.                                                        *)
(***************************************************************************)
EXTENDS AlsaSinkManager

VARIABLE dtor  \* "no", "locked" (holds device_mutex), "returned"

\* The steps of the worker that take no lock.
WorkerWithoutLock == WriteTrigger

\* The destructor takes the mutex and closes the handle, which stays dangling.
EnterDestructor ==
  /\ dtor = "no"
  /\ caller = "ready"
  /\ dtor' = "locked"
  /\ UNCHANGED vars

\* worker_thread.join(), if joinable, returns.
LeaveDestructor ==
  /\ dtor = "locked"
  /\ worker \in {"none", "done"}
  /\ worker' = "none"
  /\ dtor' = "returned"
  /\ UNCHANGED <<deviceVars, audio, left, caller, groupVars, fileVars, heard>>

ShutdownInit == Init /\ dtor = "no"

ShutdownNext ==
  \/ dtor = "no" /\ Next /\ UNCHANGED dtor
  \/ dtor = "locked" /\ WorkerWithoutLock /\ UNCHANGED dtor
  \/ EnterDestructor
  \/ LeaveDestructor

ShutdownVars == <<vars, dtor>>

ShutdownSpec ==
  /\ ShutdownInit
  /\ [][ShutdownNext]_ShutdownVars
  /\ WF_ShutdownVars(Worker /\ dtor = "no" /\ UNCHANGED dtor)
  /\ WF_ShutdownVars(WorkerWithoutLock /\ UNCHANGED dtor)
  /\ WF_ShutdownVars((ProcessQueue \/ JoinAndSpawn) /\ UNCHANGED dtor)
  /\ WF_ShutdownVars(LeaveDestructor)

\* main.cpp: a signal stops the server gracefully.  The destructor of the
\* manager returns, whatever the worker is doing when it is called.
DestructorReturns == dtor = "locked" ~> dtor = "returned"
=============================================================================
