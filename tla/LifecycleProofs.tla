-------------------------- MODULE LifecycleProofs --------------------------
(***************************************************************************)
(* Proofs about the executor, the machine calls and the session of         *)
(* Lifecycle, for every capacity of the input ring and every plan.         *)
(*                                                                         *)
(* The invariant has four parts beside the shapes of the records:          *)
(*  - who owns the synchronous request in flight and what its caller may   *)
(*    find when it wakes (Terminating, RequestOwned, Fresh);               *)
(*  - where the worker is while the machine says RUNNING or PAUSED         *)
(*    (Parked);                                                            *)
(*  - to which run the events and the input under way belong (BegunHere,   *)
(*    BegunQueue, PushOfRun);                                              *)
(*  - what holds the input back while a save has its capture               *)
(*    (CaptureHeld).                                                       *)
(***************************************************************************)
EXTENDS Lifecycle, TLAPS

Requests == {"read", "write", "debug", "media"}

(* The worker's locals.                                                    *)
WorkerShape ==
  /\ DOMAIN w = {"pc", "ok", "fact", "next", "term", "told", "ret", "sup"}
  /\ w.pc \in WorkerPCs
  /\ w.fact \in {"none", "byState", "ifError", "STOPPED", "ERROR"}
  /\ w.next \in {"wait", "restart", "exit", "gone"}
  /\ w.term \in States

(* The control thread's locals: only the calls that name a request reach   *)
(* its registration.                                                       *)
CallShape ==
  /\ DOMAIN c = {"pc", "op", "then", "ok", "cold", "gen"}
  /\ c.pc \in ControlPCs
  /\ c.gen \in Nat
  /\ c.pc # "idle" => c.then \in {"dispatch", "message", "observe", "peek", "go",
                                  "quit", "exit", "shutdown", "key"}
  /\ c.pc = "acquire" => c.op = "debug"
  /\ c.pc \in {"submit", "await"} => c.op \in Requests

FifoEvents == [kind : {"fact", "line", "window"},
               val : Facts \cup AllCommands \cup AllInputs, gen : Nat]

QueueShape ==
  /\ runGen \in Nat /\ uiGen \in Nat
  /\ inq \in Seq(Nat)
  /\ fifo \in Seq(FifoEvents)

(* The flags of a request the executor has not let go of.                  *)
Pending == {"read", "ready", "write", "waiting", "debug", "media"}

(* A worker that ends has refused the requests to come.                    *)
Terminating == w.pc = "gone" \/ w.next = "gone" => "terminate" \in req

(* A request under way is the one its blocked caller named, and one that   *)
(* waits for the machine to park has its result already.                   *)
RequestOwned ==
  w.pc # "gone" =>
    /\ req \cap Pending # {} => c.pc \in {"await", "join"} /\ c.op \in Requests
    /\ req \cap Requests \subseteq {c.op}
    /\ "waiting" \in req => c.op = "write" /\ "write" \notin req /\ status # "none"
    /\ "ready" \in req => {"read", "pause"} \subseteq req /\ status # "none"

(* A caller whose event is signalled finds its result and no request left. *)
Fresh ==
  c.pc = "await" /\ Completion(c.op) \in ev /\ "cancel" \notin ev
    => status # "none" /\ req \cap Pending = {}

(* Where the worker is outside a run, and where it stands still in one.    *)
Outside == {"wait", "serve", "dispatch", "driverReset", "stopCheck", "launch",
            "restart", "notify", "exit", "gone"}
ParkedPCs == {"cbFact", "cbComplete", "parkTest", "parkWait", "parkMedia",
              "parkDebug", "parkRead", "parkRest", "unpark"}

(* RUNNING and PAUSED are said only inside a run, and PAUSED only by a     *)
(* parked worker, unless it has been asked to stop or to go on to a        *)
(* checkpoint.                                                             *)
Parked ==
  /\ state \in {"RUNNING", "PAUSED"} => w.pc \notin Outside
  /\ w.pc \in {"finish", "finishStore"} => w.term \notin {"RUNNING", "PAUSED"}
  /\ state = "PAUSED" /\ req \cap {"stop", "continuing"} = {}
       => w.pc \in ParkedPCs \/ (w.pc = "cbPark" /\ w.sup)

Started == {"RUNNING", "PAUSED", "RESET_COMPLETED"}
Idlers == {"wait", "serve", "dispatch", "exit", "gone", "finish", "finishStore",
           "notify"}

(* Whoever speaks of a run speaks of one that has begun: generation 0,     *)
(* which the session accepts without comparing, is never stamped on input. *)
BegunHere ==
  /\ w.pc \notin Idlers => runGen > 0
  /\ w.next = "restart" => runGen > 0
  /\ "start" \in req => runGen > 0
  /\ monitor \in {"RUNNING", "PAUSED"} => uiGen > 0
  /\ c.pc = "idle" /\ runGen > 0 => uiGen > 0
  /\ uiGen <= runGen

BegunQueue ==
  \A i \in 1 .. Len(fifo) :
    /\ fifo[i].kind = "fact" /\ fifo[i].val \in Started => runGen > 0
    /\ fifo[i].kind = "window" => fifo[i].gen > 0

(* Input on its way into the ring is of this run, or the ring stays closed *)
(* until the call is over: the run that began meanwhile is to be paused.   *)
PushOfRun ==
  c.pc = "push" =>
    \/ c.gen = runGen
    \/ /\ "pause" \in req /\ ~open /\ w.pc # "readmit"
       /\ w.pc = "unpark" => "stop" \in req

(* Where the executor callback is, from the driver's call to its return.   *)
CallbackPCs == ParkedPCs \cup {"cbDebug", "cbRead", "cbInput", "cbPublish",
                               "cbPause", "cbPark", "readmit", "cbDone"}

(* A capture's result lives inside one callback, and there the pause it    *)
(* asked for, or a stop, keeps input from the devices: a save is armed     *)
(* only while it is requested, and a machine told to end while a caller    *)
(* waits has been told to stop.                                            *)
CaptureHeld ==
  /\ w.pc # "gone" /\ "armed" \in req => "read" \in req
  /\ "result" \in drv => w.pc \in CallbackPCs
  /\ /\ "terminate" \in req /\ c.pc \in {"await", "join"}
     /\ w.pc \notin Idlers \cup {"restart"}
     => "stop" \in req
  /\ w.pc = "cbInput" /\ "armed" \in req /\ "result" \in drv
       => req \cap {"pause", "stop"} # {}

(* The worker announces s.                                                 *)
FactQueued(s) ==
  /\ s \in Started => runGen > 0
  /\ fifo' = Append(fifo, [kind |-> "fact", val |-> s, gen |-> runGen])

(***************************************************************************)
(* Record steps that the action proofs share.                              *)
(***************************************************************************)

(* A run that has ended is stopped, failed or restarted; the fact follows  *)
(* the outcome.                                                            *)
LEMMA UnwoundEnds ==
  ASSUME Unwound, WorkerShape
  PROVE  /\ w.pc = "unwound" /\ w'.pc = "finish" /\ ~open' /\ WorkerShape'
         /\ \/ w'.next = "wait" /\ w'.term \in {"STOPPED", "ERROR"} /\ req' = req
            \/ w'.next = "restart" /\ w'.term = "STARTING" /\ req' = req \ {"reset"}
         /\ UNCHANGED <<state, runGen, pubGen, ev, inq, restore, status, c, fifo, faults>>
<1> USE DEF WorkerShape, WorkerPCs, States
<1> DEFINE ok == w.ok /\ state # "ERROR"
<1>1. CASE ok /\ "reset" \in req
  BY <1>1, Zenon DEF Unwound
<1>2. CASE ~(ok /\ "reset" \in req)
  <2>1. PICK t, e : /\ w' = [w EXCEPT !.pc = "finish", !.term = e, !.fact = e,
                                      !.next = "wait", !.told = t]
                    /\ e \in {"STOPPED", "ERROR"}
    BY <1>2, Zenon DEF Unwound
  <2> QED BY <2>1, <1>2 DEF Unwound
<1> QED BY <1>1, <1>2

(* Leaving the guest loop, by whichever path, touches the driver alone.    *)
LEMMA GuestLeaves ==
  ASSUME RunRestored \/ RunExit \/ CallbackReturn, WorkerShape
  PROVE  /\ w.pc \in {"run", "cbDone"} /\ w'.pc \in {"run", "loop", "cbDebug"}
         /\ w'.next = w.next /\ w'.term = w.term /\ WorkerShape'
         /\ UNCHANGED <<state, runGen, pubGen, lease, req, ev, inq, open, status, c, fifo,
                        faults>>
<1> USE DEF WorkerShape, WorkerPCs, Goto
<1>1. CASE RunRestored
  BY <1>1, Zenon DEF RunRestored
<1>2. CASE RunExit
  BY <1>2, Zenon DEF RunExit, Unwind
<1>3. CASE CallbackReturn
  BY <1>3, ZenonT(30) DEF CallbackReturn, Unwind
<1> QED BY <1>1, <1>2, <1>3

(* A session that has no call open is well formed.                         *)
LEMMA IdleCall ==
  ASSUME CallShape, Idle
  PROVE  CallShape' /\ c'.pc \notin {"await", "join"}
  BY DEF Idle, CallShape, ControlPCs

(* So is one that opens a call on the machine.                             *)
LEMMA NewCall ==
  ASSUME CallShape, NEW op, NEW pc \in {"check", "debugCancel", "acquire", "submit"},
         NEW then \in {"dispatch", "message", "observe", "peek", "go", "quit", "exit"},
         pc = "acquire" => op = "debug", pc = "submit" => op \in Requests,
         Call(op, pc, then)
  PROVE  CallShape' /\ c'.pc \notin {"await", "join"}
  BY DEF Call, CallShape, ControlPCs

(***************************************************************************)
(* The worker.                                                             *)
(***************************************************************************)

(* What the two threads agree on survives every step of the worker.        *)
LEMMA ExecutorKeepsControl ==
  ASSUME WorkerShape, CallShape, Terminating, RequestOwned, Fresh, Parked,
         BegunHere, PushOfRun, state \in States, runGen \in Nat, uiGen \in Nat,
         UNCHANGED <<sessionVars, plan>>,
         Executor \/ RunFails
  PROVE  /\ WorkerShape' /\ CallShape' /\ Terminating' /\ RequestOwned' /\ Fresh'
         /\ Parked' /\ BegunHere' /\ PushOfRun' /\ state' \in States
<1>1. CASE WaitCommand
  <2>1. WorkerShape' /\ state' \in States
    BY <1>1, ZenonT(30) DEF WaitCommand, Goto, FailSync, WorkerShape, WorkerPCs, States
  <2>2. Terminating'
    BY <1>1, Zenon DEF WaitCommand, Goto, FailSync, WorkerShape, Terminating
  <2>7. RequestOwned'
    BY <1>1
       DEF WaitCommand, Goto, FailSync, WorkerShape, RequestOwned, Pending,
           Requests
  <2>3. Fresh'
    BY <1>1
       DEF WaitCommand, Goto, FailSync, WorkerShape, RequestOwned, Fresh,
           Pending
  <2>4. Parked'
    BY <1>1, Zenon
       DEF WaitCommand, Goto, FailSync, WorkerShape, Parked, Outside,
           ParkedPCs, RequestOwned, Pending
  <2>5. CallShape'
    BY <1>1 DEF WaitCommand, CallShape
  <2>8. BegunHere'
    <3>1. UNCHANGED <<c, runGen, monitor, uiGen>>
      BY <1>1 DEF WaitCommand, sessionVars
    <3>2. /\ w'.pc \in {"exit", "serve", "finish"}
          /\ w'.next = w.next \/ w'.next = "exit"
          /\ "start" \in req' => "start" \in req
      BY <1>1, Zenon DEF WaitCommand, Goto, FailSync, WorkerShape
    <3> QED BY <3>1, <3>2 DEF BegunHere, Idlers
  <2>6. PushOfRun'
    BY <1>1, Zenon DEF WaitCommand, Goto, FailSync, WorkerShape, PushOfRun
  <2> QED BY <2>1, <2>2, <2>3, <2>4, <2>5, <2>6, <2>7, <2>8
<1>2. CASE DriverReset
  <2>1. WorkerShape' /\ state' \in States
    BY <1>2, Zenon DEF DriverReset, Goto, FailSync, WorkerShape, WorkerPCs, States
  <2>2. Terminating' /\ RequestOwned'
    BY <1>2, Zenon
       DEF DriverReset, Goto, FailSync, WorkerShape, Terminating,
           RequestOwned, Pending
  <2>3. Fresh'
    BY <1>2
       DEF DriverReset, Goto, FailSync, WorkerShape, RequestOwned, Fresh,
           Pending
  <2>4. Parked'
    BY <1>2, Zenon
       DEF DriverReset, Goto, FailSync, WorkerShape, Parked, Outside,
           ParkedPCs, RequestOwned, Pending
  <2>5. CallShape' /\ BegunHere'
    BY <1>2
       DEF DriverReset, Goto, FailSync, WorkerShape, CallShape, BegunHere,
           Idlers, sessionVars
  <2>6. PushOfRun'
    BY <1>2, Zenon DEF DriverReset, Goto, FailSync, WorkerShape, PushOfRun
  <2> QED BY <2>1, <2>2, <2>3, <2>4, <2>5, <2>6
<1>3. CASE Admit
  <2>1. WorkerShape' /\ state' \in States
    BY <1>3 DEF Admit, Goto, FailSync, WorkerShape, WorkerPCs, States
  <2>2. Terminating' /\ RequestOwned'
    BY <1>3
       DEF Admit, Goto, FailSync, WorkerShape, Terminating, RequestOwned,
           Pending
  <2>3. Fresh'
    BY <1>3 DEF Admit, Goto, FailSync, WorkerShape, RequestOwned, Fresh, Pending
  <2>4. Parked'
    BY <1>3
       DEF Admit, Goto, FailSync, WorkerShape, Parked, Outside, ParkedPCs,
           RequestOwned, Pending
  <2>5. CallShape' /\ BegunHere'
    BY <1>3
       DEF Admit, Goto, FailSync, WorkerShape, CallShape, BegunHere, Idlers,
           sessionVars
  <2>6. PushOfRun'
    BY <1>3, Zenon DEF Admit, Goto, FailSync, WorkerShape, PushOfRun
  <2> QED BY <2>1, <2>2, <2>3, <2>4, <2>5, <2>6
<1>4. CASE CallbackPause
  <2>1. WorkerShape' /\ state' \in States
    BY <1>4, Zenon DEF CallbackPause, Goto, FailSync, WorkerShape, WorkerPCs, States
  <2>2. Terminating' /\ RequestOwned'
    BY <1>4, Zenon
       DEF CallbackPause, Goto, FailSync, WorkerShape, Terminating,
           RequestOwned, Pending
  <2>3. Fresh'
    BY <1>4
       DEF CallbackPause, Goto, FailSync, WorkerShape, RequestOwned, Fresh,
           Pending
  <2>4. Parked'
    BY <1>4, ZenonT(30)
       DEF CallbackPause, Goto, FailSync, WorkerShape, Parked, Outside,
           ParkedPCs, RequestOwned, Pending
  <2>5. CallShape' /\ BegunHere'
    BY <1>4
       DEF CallbackPause, Goto, FailSync, WorkerShape, CallShape, BegunHere,
           Idlers, sessionVars
  <2>6. PushOfRun'
    BY <1>4, Zenon DEF CallbackPause, Goto, FailSync, WorkerShape, PushOfRun
  <2> QED BY <2>1, <2>2, <2>3, <2>4, <2>5, <2>6
<1> USE DEF WorkerShape, CallShape, Terminating, RequestOwned, Fresh, Parked,
       BegunHere, PushOfRun, WorkerPCs, Requests, Pending, Captured, Outside,
       ParkedPCs, Idlers, Completion, sessionVars, States
<1>5. CASE Serve
  BY <1>5 DEF Serve, ServiceDebug, Signal, Goto, FailSync
<1>6. CASE Dispatch
  BY <1>6 DEF Dispatch, ServiceMedia, ServiceStateWrite, Signal, Goto, FailSync
<1>7. CASE StopCheck
  BY <1>7 DEF StopCheck, Goto, FailSync
<1>8. CASE Launch
  BY <1>8 DEF Launch, Goto, FailSync
<1>9. CASE Announce
  BY <1>9 DEF Announce, Goto, FailSync
<1>10. CASE RunRestored
  BY <1>10, GuestLeaves
<1>11. CASE RunExit
  BY <1>11, GuestLeaves
<1>12. CASE RunCallback
  BY <1>12 DEF RunCallback, Goto, FailSync
<1>13. CASE RunCapture
  BY <1>13 DEF RunCapture, Goto, FailSync
<1>14. CASE CallbackDebug
  BY <1>14 DEF CallbackDebug, Goto, FailSync
<1>15. CASE CallbackRead
  BY <1>15 DEF CallbackRead, StateRead, Goto, FailSync
<1>16. CASE CallbackInput
  BY <1>16 DEF CallbackInput, Goto, FailSync
<1>17. CASE CallbackPublish
  BY <1>17 DEF CallbackPublish, Goto, FailSync
<1>18. CASE CallbackPark
  BY <1>18 DEF CallbackPark, Goto, FailSync
<1>19. CASE CallbackFact
  BY <1>19 DEF CallbackFact, Goto, FailSync
<1>20. CASE CallbackComplete
  BY <1>20 DEF CallbackComplete, Signal, Goto, FailSync
<1>21. CASE ParkTest
  BY <1>21 DEF ParkTest, Goto, FailSync
<1>22. CASE ParkWait
  BY <1>22 DEF ParkWait, Goto, FailSync
<1>23. CASE ParkMedia
  BY <1>23 DEF ParkMedia, ServiceMedia, Signal, Goto, FailSync
<1>24. CASE ParkDebug
  BY <1>24 DEF ParkDebug, ServiceDebug, Signal, Goto, FailSync
<1>25. CASE ParkRead
  BY <1>25 DEF ParkRead, StateRead, Goto, FailSync
<1>26. CASE ParkRest
  BY <1>26 DEF ParkRest, Signal, Goto, FailSync
<1>27. CASE Unpark
  BY <1>27 DEF Unpark, Goto, FailSync
<1>28. CASE Readmit
  BY <1>28 DEF Readmit, Goto, FailSync
<1>29. CASE CallbackReturn
  BY <1>29, GuestLeaves
<1>30. CASE Loop
  BY <1>30 DEF Loop, Goto, FailSync
<1>31. CASE Unwound
  BY <1>31, UnwoundEnds
<1>32. CASE FinishLoad
  BY <1>32 DEF FinishLoad, Goto, FailSync
<1>33. CASE FinishStore
  BY <1>33 DEF FinishStore, Completion, Goto, FailSync
<1>34. CASE NotifyOutcome
  BY <1>34 DEF NotifyOutcome, Goto, FailSync
<1>35. CASE Restart
  BY <1>35 DEF Restart, ColdRun, Goto, FailSync
<1>36. CASE Exit
  BY <1>36 DEF Exit, Goto, FailSync
<1>37. CASE RunFails
  BY <1>37 DEF RunFails, Goto, FailSync
<1> QED
  BY <1>1, <1>2, <1>3, <1>4, <1>5, <1>6, <1>7, <1>8, <1>9, <1>10, <1>11, <1>12,
     <1>13, <1>14, <1>15, <1>16, <1>17, <1>18, <1>19, <1>20, <1>21, <1>22,
     <1>23, <1>24, <1>25, <1>26, <1>27, <1>28, <1>29, <1>30, <1>31, <1>32,
     <1>33, <1>34, <1>35, <1>36, <1>37, ZenonT(30) DEF Executor

(* The worker empties the ring when a run begins, delivers from it only in *)
(* the callback with no pause or stop pending, and queues facts of its own *)
(* run.                                                                    *)
LEMMA ExecutorQueues ==
  ASSUME WorkerShape, runGen \in Nat, BegunHere, Executor \/ RunFails
  PROVE  /\ runGen' \in {runGen, runGen + 1}
         /\ \/ inq' = <<>> /\ w.pc \in {"dispatch", "restart"}
            \/ runGen' = runGen /\ inq' = inq
            \/ /\ runGen' = runGen /\ inq # <<>> /\ inq' = Tail(inq)
               /\ w.pc = "cbInput" /\ req \cap {"pause", "stop"} = {}
         /\ fifo' = fifo \/ \E s \in Facts : FactQueued(s)
<1>1. CASE WaitCommand \/ DriverReset \/ StopCheck \/ Launch \/ Admit \/ Exit
  BY <1>1 DEF WaitCommand, DriverReset, StopCheck, Launch, Admit, Exit
<1>2. CASE Serve \/ ParkMedia \/ ParkDebug
  BY <1>2 DEF Serve, ServiceDebug, ParkMedia, ServiceMedia, ParkDebug
<1>3. CASE RunRestored \/ RunExit \/ RunCallback \/ RunCapture \/ RunFails \/
       CallbackReturn \/ Loop \/ Unwound
  BY <1>3
     DEF RunRestored, RunExit, RunCallback, RunCapture, RunFails,
         CallbackReturn, Loop, Unwound
<1>4. CASE CallbackDebug \/ CallbackRead \/ CallbackPublish \/ CallbackPause \/
       CallbackPark \/ CallbackComplete
  BY <1>4, Zenon
     DEF CallbackDebug, CallbackRead, CallbackPublish, CallbackPause,
         CallbackPark, CallbackComplete
<1>5. CASE ParkTest \/ ParkWait \/ ParkRead \/ ParkRest \/ Unpark \/ FinishLoad
       \/ FinishStore
  BY <1>5
     DEF ParkTest, ParkWait, ParkRead, ParkRest, Unpark, FinishLoad,
         FinishStore
<1>6. CASE Dispatch
  BY <1>6 DEF Dispatch, ServiceMedia, ServiceStateWrite
<1>7. CASE CallbackInput
  BY <1>7 DEF CallbackInput
<1>8. CASE Restart
  BY <1>8 DEF Restart, ColdRun
<1> USE DEF WorkerShape, BegunHere, Idlers, FactQueued, Notify, Facts, Started
<1>9. CASE Announce
  BY <1>9 DEF Announce
<1>10. CASE CallbackFact
  BY <1>10 DEF CallbackFact
<1>11. CASE Readmit
  BY <1>11 DEF Readmit
<1>12. CASE NotifyOutcome
  BY <1>12 DEF NotifyOutcome
<1> QED
  BY <1>1, <1>2, <1>3, <1>4, <1>5, <1>6, <1>7, <1>8, <1>9, <1>10, <1>11, <1>12
     DEF Executor

(***************************************************************************)
(* The machine calls of the control thread.                                *)
(***************************************************************************)

(* What the two threads agree on survives every step of a machine call.    *)
LEMMA CallsKeepControl ==
  ASSUME WorkerShape, CallShape, Terminating, RequestOwned, Fresh, Parked,
         BegunHere, PushOfRun, state \in States, runGen \in Nat, uiGen \in Nat,
         UNCHANGED <<sessionVars, plan>>,
         Calls
  PROVE  /\ WorkerShape' /\ CallShape' /\ Terminating' /\ RequestOwned' /\ Fresh'
         /\ Parked' /\ BegunHere' /\ PushOfRun' /\ state' \in States
<1>1. CASE CheckState
  <2>1. WorkerShape' /\ state' \in States
    BY <1>1 DEF CheckState, Step, Ret, WorkerShape, States
  <2>2. CallShape'
    BY <1>1, ZenonT(30) DEF CheckState, Step, Ret, CallShape, ControlPCs, Requests
  <2>3. Terminating' /\ RequestOwned' /\ Fresh'
    BY <1>1, Zenon
       DEF CheckState, Step, Ret, CallShape, Terminating, RequestOwned,
           Fresh, Pending, Requests, Completion
  <2>4. Parked'
    BY <1>1
       DEF CheckState, Step, Ret, Parked, Outside, ParkedPCs, RequestOwned,
           Pending, CallShape, Requests
  <2>5. BegunHere'
    BY <1>1, Zenon
       DEF CheckState, Step, Ret, CallShape, BegunHere, Idlers, sessionVars,
           Requests
  <2>6. PushOfRun'
    BY <1>1, Zenon DEF CheckState, Step, Ret, CallShape, PushOfRun
  <2> QED BY <2>1, <2>2, <2>3, <2>4, <2>5, <2>6
<1>2. CASE WakeResume
  <2>1. WorkerShape' /\ state' \in States
    BY <1>2 DEF WakeResume, Step, Ret, FailSync, WorkerShape, States
  <2>2. CallShape'
    BY <1>2, Zenon DEF WakeResume, Step, Ret, FailSync, CallShape, ControlPCs, Requests
  <2>3. Terminating' /\ RequestOwned' /\ Fresh'
    BY <1>2, Zenon
       DEF WakeResume, Step, Ret, FailSync, CallShape, Terminating,
           RequestOwned, Fresh, Pending, Requests, Completion
  <2>4. Parked'
    BY <1>2
       DEF WakeResume, Step, Ret, FailSync, Parked, Outside, ParkedPCs,
           RequestOwned, Pending, CallShape, Requests
  <2>5. BegunHere'
    BY <1>2, Zenon
       DEF WakeResume, Step, Ret, FailSync, CallShape, BegunHere, Idlers,
           sessionVars, Requests
  <2>6. PushOfRun'
    BY <1>2, Zenon DEF WakeResume, Step, Ret, FailSync, CallShape, PushOfRun
  <2> QED BY <2>1, <2>2, <2>3, <2>4, <2>5, <2>6
<1>3. CASE ScheduleColdRun
  <2>1. WorkerShape' /\ state' \in States
    BY <1>3 DEF ScheduleColdRun, Step, Ret, ColdRun, WorkerShape, States
  <2>2. CallShape'
    BY <1>3, Zenon DEF ScheduleColdRun, Step, Ret, ColdRun, CallShape, ControlPCs,
        Requests
  <2>3. Terminating' /\ RequestOwned' /\ Fresh'
    BY <1>3, Zenon
       DEF ScheduleColdRun, Step, Ret, ColdRun, CallShape, Terminating,
           RequestOwned, Fresh, Pending, Requests, Completion
  <2>4. Parked'
    BY <1>3
       DEF ScheduleColdRun, Step, Ret, ColdRun, Parked, Outside, ParkedPCs,
           RequestOwned, Pending, CallShape, Requests
  <2>5. BegunHere'
    <3> USE DEF CallShape, BegunHere, Idlers, sessionVars
    <3>1. CASE state = "STOPPED"
      BY <1>3, <3>1 DEF ScheduleColdRun, Step, ColdRun
    <3>2. CASE state # "STOPPED"
      BY <1>3, <3>2, Zenon DEF ScheduleColdRun, Ret
    <3> QED BY <3>1, <3>2
  <2>6. PushOfRun'
    BY <1>3, Zenon DEF ScheduleColdRun, Step, Ret, ColdRun, CallShape, PushOfRun
  <2> QED BY <2>1, <2>2, <2>3, <2>4, <2>5, <2>6
<1>4. CASE SignalCommand
  <2>1. WorkerShape' /\ state' \in States
    BY <1>4 DEF SignalCommand, Step, Ret, FailSync, WorkerShape, States
  <2>2. CallShape'
    BY <1>4, Zenon DEF SignalCommand, Step, Ret, FailSync, CallShape, ControlPCs,
        Requests
  <2>3. Terminating' /\ RequestOwned' /\ Fresh'
    BY <1>4, Zenon
       DEF SignalCommand, Step, Ret, FailSync, CallShape, Terminating,
           RequestOwned, Fresh, Pending, Requests, Completion
  <2>4. Parked'
    BY <1>4
       DEF SignalCommand, Step, Ret, FailSync, Parked, Outside, ParkedPCs,
           RequestOwned, Pending, CallShape, Requests
  <2>5. BegunHere'
    BY <1>4, Zenon
       DEF SignalCommand, Step, Ret, FailSync, CallShape, BegunHere, Idlers,
           sessionVars, Requests
  <2>6. PushOfRun'
    BY <1>4, Zenon DEF SignalCommand, Step, Ret, FailSync, CallShape, PushOfRun
  <2> QED BY <2>1, <2>2, <2>3, <2>4, <2>5, <2>6
<1>5. CASE DebugAcquire
  <2>1. WorkerShape' /\ state' \in States
    BY <1>5 DEF DebugAcquire, Step, Ret, WorkerShape, States
  <2>2. CallShape'
    BY <1>5, Zenon DEF DebugAcquire, Step, Ret, CallShape, ControlPCs, Requests
  <2>3. Terminating' /\ RequestOwned' /\ Fresh'
    BY <1>5, Zenon
       DEF DebugAcquire, Step, Ret, CallShape, Terminating, RequestOwned,
           Fresh, Pending, Requests, Completion
  <2>4. Parked'
    BY <1>5
       DEF DebugAcquire, Step, Ret, Parked, Outside, ParkedPCs, RequestOwned,
           Pending, CallShape, Requests
  <2>5. BegunHere'
    BY <1>5, Zenon
       DEF DebugAcquire, Step, Ret, CallShape, BegunHere, Idlers,
           sessionVars, Requests
  <2>6. PushOfRun'
    BY <1>5, Zenon DEF DebugAcquire, Step, Ret, CallShape, PushOfRun
  <2> QED BY <2>1, <2>2, <2>3, <2>4, <2>5, <2>6
<1>6. CASE SubmitRequest
  <2>1. WorkerShape' /\ state' \in States
    BY <1>6 DEF SubmitRequest, Step, Ret, Allowed, WorkerShape, States
  <2>2. CallShape'
    BY <1>6, Zenon DEF SubmitRequest, Step, Ret, Allowed, CallShape, ControlPCs,
        Requests
  <2>3. Terminating' /\ RequestOwned' /\ Fresh'
    BY <1>6, Zenon
       DEF SubmitRequest, Step, Ret, Allowed, CallShape, Terminating,
           RequestOwned, Fresh, Pending, Requests, Completion
  <2>4. Parked'
    BY <1>6
       DEF SubmitRequest, Step, Ret, Allowed, Parked, Outside, ParkedPCs,
           RequestOwned, Pending, CallShape, Requests
  <2>5. BegunHere'
    BY <1>6, Zenon
       DEF SubmitRequest, Step, Ret, Allowed, CallShape, BegunHere, Idlers,
           sessionVars, Requests
  <2>6. PushOfRun'
    BY <1>6, Zenon DEF SubmitRequest, Step, Ret, Allowed, CallShape, PushOfRun
  <2> QED BY <2>1, <2>2, <2>3, <2>4, <2>5, <2>6
<1>7. CASE AwaitRequest
  <2>1. WorkerShape' /\ state' \in States
    BY <1>7 DEF AwaitRequest, Step, Ret, FailSync, WorkerShape, States
  <2>2. CallShape'
    BY <1>7, Zenon DEF AwaitRequest, Step, Ret, FailSync, CallShape, ControlPCs,
        Requests
  <2>3. Terminating' /\ RequestOwned' /\ Fresh'
    BY <1>7
       DEF AwaitRequest, Step, Ret, FailSync, CallShape, Terminating,
           RequestOwned, Fresh, Pending, Requests, Completion
  <2>4. Parked'
    BY <1>7
       DEF AwaitRequest, Step, Ret, FailSync, Parked, Outside, ParkedPCs,
           RequestOwned, Pending, CallShape, Requests
  <2>5. BegunHere'
    BY <1>7, Zenon
       DEF AwaitRequest, Step, Ret, FailSync, CallShape, BegunHere, Idlers,
           sessionVars, Requests
  <2>6. PushOfRun'
    BY <1>7, Zenon DEF AwaitRequest, Step, Ret, FailSync, CallShape, PushOfRun
  <2> QED BY <2>1, <2>2, <2>3, <2>4, <2>5, <2>6
<1> USE DEF WorkerShape, CallShape, Terminating, RequestOwned, Fresh, Parked,
       BegunHere, PushOfRun, ControlPCs, Requests, Pending, Outside, ParkedPCs,
       Idlers, Completion, sessionVars, States
<1>8. CASE SetPause
  BY <1>8 DEF SetPause, Step, Ret, FailSync
<1>9. CASE ResetActive
  BY <1>9 DEF ResetActive, Step, Ret, FailSync
<1>10. CASE ResetFlag
  BY <1>10 DEF ResetFlag, Step, Ret, FailSync
<1>11. CASE StopFlag
  BY <1>11 DEF StopFlag, Step, Ret, FailSync
<1>12. CASE ClearPause
  BY <1>12 DEF ClearPause, Step, Ret, FailSync
<1>13. CASE RequestStop
  BY <1>13 DEF RequestStop, Step, Ret, FailSync
<1>14. CASE DebugCancel
  BY <1>14 DEF DebugCancel, Signal, Step, Ret, FailSync
<1>15. CASE JoinWorker
  BY <1>15 DEF JoinWorker, Step, Ret, FailSync
<1>16. CASE EnqueueInput
  BY <1>16 DEF EnqueueInput, Step, Ret, FailSync
<1>17. CASE Terminate
  BY <1>17 DEF Terminate, Step, Ret, FailSync
<1>18. CASE WakeAll
  BY <1>18 DEF WakeAll, Step, Ret, FailSync
<1>19. CASE DestroyWorker
  BY <1>19 DEF DestroyWorker, Step, Ret, FailSync
<1> QED
  BY <1>1, <1>2, <1>3, <1>4, <1>5, <1>6, <1>7, <1>8, <1>9, <1>10, <1>11, <1>12,
     <1>13, <1>14, <1>15, <1>16, <1>17, <1>18, <1>19, ZenonT(30) DEF Calls

(* A machine call empties the ring for a cold run or adds input of this    *)
(* run.                                                                    *)
LEMMA CallsQueues ==
  ASSUME CallShape, runGen \in Nat, PushOfRun, Calls
  PROVE  /\ runGen' \in {runGen, runGen + 1}
         /\ \/ inq' = <<>> /\ c.pc = "coldRun"
            \/ runGen' = runGen /\ (inq' = inq \/ inq' = Append(inq, runGen))
         /\ fifo' = fifo
<1>1. CASE CheckState \/ SetPause \/ ResetActive \/ ResetFlag \/ StopFlag \/
       ClearPause \/ WakeResume \/ RequestStop \/ SignalCommand
  BY <1>1, Zenon
     DEF CheckState, SetPause, ResetActive, ResetFlag, StopFlag, ClearPause,
         WakeResume, RequestStop, SignalCommand
<1>2. CASE DebugCancel \/ DebugAcquire \/ SubmitRequest \/ AwaitRequest \/
       JoinWorker \/ Terminate \/ WakeAll \/ DestroyWorker
  BY <1>2, Zenon
     DEF DebugCancel, DebugAcquire, SubmitRequest, AwaitRequest, JoinWorker,
         Terminate, WakeAll, DestroyWorker
<1>3. CASE ScheduleColdRun
  BY <1>3, Zenon DEF ScheduleColdRun, ColdRun
<1>4. CASE EnqueueInput
  BY <1>4 DEF EnqueueInput, PushOfRun
<1> QED BY <1>1, <1>2, <1>3, <1>4 DEF Calls

(* The worker keeps the capture's result inside its callback and the input *)
(* closed.                                                                 *)
LEMMA ExecutorHolds ==
  ASSUME WorkerShape, RequestOwned, CaptureHeld, Executor \/ RunFails
  PROVE  CaptureHeld'
<1> USE DEF WorkerShape, CaptureHeld, CallbackPCs, ParkedPCs, Idlers, Goto
<1>1. CASE WaitCommand
  BY <1>1, Zenon DEF WaitCommand, FailSync
<1>2. CASE Serve
  BY <1>2 DEF Serve, ServiceDebug, Signal, FailSync
<1>3. CASE Dispatch
  BY <1>3 DEF Dispatch, ServiceMedia, ServiceStateWrite, Signal, FailSync
<1>4. CASE DriverReset
  BY <1>4 DEF DriverReset
<1>5. CASE StopCheck
  BY <1>5 DEF StopCheck
<1>6. CASE Launch
  BY <1>6 DEF Launch
<1>7. CASE Admit
  BY <1>7 DEF Admit
<1>8. CASE Announce
  BY <1>8 DEF Announce
<1>9. CASE RunRestored
  BY <1>9 DEF RunRestored
<1>10. CASE RunExit
  BY <1>10 DEF RunExit, Unwind
<1>11. CASE RunCallback
  BY <1>11 DEF RunCallback
<1>12. CASE RunCapture
  BY <1>12 DEF RunCapture
<1>13. CASE CallbackDebug
  BY <1>13 DEF CallbackDebug
<1>14. CASE CallbackRead
  BY <1>14 DEF CallbackRead, StateRead, RequestOwned, Pending
<1>15. CASE CallbackInput
  BY <1>15 DEF CallbackInput
<1>16. CASE CallbackPublish
  BY <1>16 DEF CallbackPublish
<1>17. CASE CallbackPause
  BY <1>17, Zenon DEF CallbackPause
<1>18. CASE CallbackPark
  BY <1>18 DEF CallbackPark
<1>19. CASE CallbackFact
  BY <1>19 DEF CallbackFact
<1>20. CASE CallbackComplete
  BY <1>20 DEF CallbackComplete, Signal, FailSync, Captured
<1>21. CASE ParkTest
  BY <1>21 DEF ParkTest
<1>22. CASE ParkWait
  BY <1>22 DEF ParkWait, FailSync
<1>23. CASE ParkMedia
  BY <1>23 DEF ParkMedia, ServiceMedia, Signal, FailSync
<1>24. CASE ParkDebug
  BY <1>24 DEF ParkDebug, ServiceDebug, Signal, FailSync
<1>25. CASE ParkRead
  BY <1>25 DEF ParkRead, StateRead
<1>26. CASE ParkRest
  BY <1>26 DEF ParkRest, Signal, FailSync, Captured
<1>27. CASE Unpark
  BY <1>27 DEF Unpark
<1>28. CASE Readmit
  BY <1>28 DEF Readmit
<1>29. CASE CallbackReturn
  BY <1>29 DEF CallbackReturn, Unwind
<1>30. CASE Loop
  BY <1>30 DEF Loop
<1>31. CASE Unwound
  BY <1>31, UnwoundEnds DEF Unwound
<1>32. CASE FinishLoad
  BY <1>32 DEF FinishLoad
<1>33. CASE FinishStore
  BY <1>33 DEF FinishStore, Captured, FailSync
<1>34. CASE NotifyOutcome
  BY <1>34 DEF NotifyOutcome
<1>35. CASE Restart
  BY <1>35 DEF Restart, ColdRun, FailSync
<1>36. CASE Exit
  BY <1>36 DEF Exit
<1>37. CASE RunFails
  BY <1>37 DEF RunFails
<1> QED
  BY <1>1, <1>2, <1>3, <1>4, <1>5, <1>6, <1>7, <1>8, <1>9, <1>10, <1>11, <1>12,
     <1>13, <1>14, <1>15, <1>16, <1>17, <1>18, <1>19, <1>20, <1>21, <1>22,
     <1>23, <1>24, <1>25, <1>26, <1>27, <1>28, <1>29, <1>30, <1>31, <1>32,
     <1>33, <1>34, <1>35, <1>36, <1>37, ZenonT(30) DEF Executor

(* A machine call cannot reopen it: while a save is armed its caller       *)
(* waits.                                                                  *)
LEMMA CallsHold ==
  ASSUME CallShape, RequestOwned, CaptureHeld, Calls
  PROVE  CaptureHeld'
<1> USE DEF CallShape, RequestOwned, Pending, Requests, CaptureHeld, Step, Ret, FailSync,
       Signal
<1>1. CASE CheckState
  BY <1>1, Zenon DEF CheckState
<1>2. CASE SetPause
  BY <1>2 DEF SetPause
<1>3. CASE ResetActive
  BY <1>3 DEF ResetActive
<1>4. CASE ResetFlag
  BY <1>4 DEF ResetFlag
<1>5. CASE StopFlag
  BY <1>5 DEF StopFlag
<1>6. CASE ClearPause
  BY <1>6 DEF ClearPause
<1>7. CASE WakeResume
  BY <1>7, Zenon DEF WakeResume
<1>8. CASE RequestStop
  BY <1>8 DEF RequestStop
<1>9. CASE ScheduleColdRun
  BY <1>9, Zenon DEF ScheduleColdRun, ColdRun
<1>10. CASE SignalCommand
  BY <1>10, Zenon DEF SignalCommand
<1>11. CASE DebugCancel
  BY <1>11 DEF DebugCancel
<1>12. CASE DebugAcquire
  BY <1>12, Zenon DEF DebugAcquire
<1>13. CASE SubmitRequest
  BY <1>13, Zenon DEF SubmitRequest, Allowed
<1>14. CASE AwaitRequest
  BY <1>14 DEF AwaitRequest
<1>15. CASE JoinWorker
  BY <1>15 DEF JoinWorker
<1>16. CASE EnqueueInput
  BY <1>16 DEF EnqueueInput
<1>17. CASE Terminate
  BY <1>17 DEF Terminate
<1>18. CASE WakeAll
  BY <1>18 DEF WakeAll
<1>19. CASE DestroyWorker
  BY <1>19 DEF DestroyWorker
<1> QED
  BY <1>1, <1>2, <1>3, <1>4, <1>5, <1>6, <1>7, <1>8, <1>9, <1>10, <1>11, <1>12,
     <1>13, <1>14, <1>15, <1>16, <1>17, <1>18, <1>19 DEF Calls

(***************************************************************************)
(* The session.                                                            *)
(***************************************************************************)

(* The session handles an event without touching the machine.              *)
LEMMA SessionFrame ==
  ASSUME Session
  PROVE  /\ UNCHANGED <<state, runGen, pubGen, lease, req, ev, inq, open, drv,
                         restore, status, w, faults>>
         /\ c.pc \in {"idle", "ret"}
         /\ fifo' = fifo \/ (fifo # <<>> /\ fifo' = Tail(fifo))
  BY Zenon DEF Session, StaleFact, RuntimeFact, LifecycleLine, StateLine, OpenDebugger,
         OtherLine, DebugLine, ExitLine, DropWindowEvent, PauseToggle, WindowClose,
         GuestKey, Returned, MonitorLine, Taking

(* The session only opens calls the machine has, and waits in none itself. *)
LEMMA SessionCalls ==
  ASSUME CallShape, fifo # <<>> => Head(fifo).gen \in Nat,
         Session
  PROVE  CallShape' /\ c'.pc \notin {"await", "join"}
<1>1. CASE StaleFact
  BY <1>1 DEF StaleFact, CallShape, Taking
<1>2. CASE RuntimeFact
  BY <1>2, IdleCall, NewCall, Zenon DEF RuntimeFact
<1>3. CASE LifecycleLine
  BY <1>3, IdleCall, NewCall, Zenon DEF LifecycleLine, RequestLifecycle, Request, Prompt
<1>4. CASE StateLine
  <2>1. Idle \/ \E op \in Requests : Call(op, "submit", "message")
    BY <1>4, Zenon DEF StateLine, MonitorLine, Taking, Prompt, Requests
  <2> QED BY <2>1, IdleCall, NewCall
<1>5. CASE OpenDebugger
  BY <1>5, IdleCall, NewCall DEF OpenDebugger, Prompt
<1>6. CASE OtherLine
  BY <1>6, IdleCall, NewCall DEF OtherLine, Prompt
<1>7. CASE DebugLine
  BY <1>7, IdleCall, NewCall DEF DebugLine, MonitorLine, DebugCommands
<1>8. CASE ExitLine
  BY <1>8, IdleCall, NewCall DEF ExitLine
<1>9. CASE DropWindowEvent
  BY <1>9 DEF DropWindowEvent, CallShape, Taking
<1>10. CASE PauseToggle
  BY <1>10, IdleCall, NewCall, Zenon DEF PauseToggle, RequestLifecycle, Request, Prompt
<1>11. CASE WindowClose
  BY <1>11, IdleCall, NewCall DEF WindowClose, Request
<1>12. CASE GuestKey
  BY <1>12 DEF GuestKey, CallShape, ControlPCs, Taking
<1>13. CASE Returned
  <2>1. \/ Idle
        \/ Leave
        \/ Step("terminate")
        \/ Call("resume", "check", "dispatch")
    BY <1>13, Zenon DEF Returned, Prompt, Leave, ResumeRun, Request, CallShape
  <2>2. CASE Leave
    BY <2>2, <1>13 DEF Leave, Returned, CallShape, ControlPCs
  <2>3. CASE Step("terminate")
    BY <2>3, <1>13 DEF Step, Returned, CallShape, ControlPCs
  <2> QED BY <2>1, <2>2, <2>3, IdleCall, NewCall
<1> QED
  BY <1>1, <1>2, <1>3, <1>4, <1>5, <1>6, <1>7, <1>8, <1>9, <1>10, <1>11, <1>12,
     <1>13 DEF Session

(* The generation the session shows to the UI is one the machine has       *)
(* begun.                                                                  *)
LEMMA SessionStamps ==
  ASSUME CallShape, runGen \in Nat, uiGen \in Nat, BegunHere,
         fifo # <<>> /\ Head(fifo).kind = "fact" /\ Head(fifo).val \in Started
           => runGen > 0,
         Session
  PROVE  BegunHere' /\ uiGen' \in {uiGen, runGen}
<1> USE DEF CallShape, BegunHere, sessionVars, Started
<1>1. CASE StaleFact
  BY <1>1 DEF StaleFact, Taking, Prompt, Request, Settle, Idle, Call, Step
<1>2. CASE RuntimeFact
  BY <1>2 DEF RuntimeFact, Taking, Prompt, Request, Settle, Idle, Call, Step
<1>3. CASE LifecycleLine
  BY <1>3
     DEF LifecycleLine, MonitorLine, RequestLifecycle, Taking, Prompt, Request,
         Settle, Idle, Call, Step
<1>4. CASE StateLine
  <2>1. \/ c'.pc = "idle" /\ uiGen' = runGen
        \/ c'.pc = "submit" /\ uiGen' = uiGen
    BY <1>4, Zenon DEF StateLine, MonitorLine, Taking, Prompt, Settle, Idle, Call
  <2> QED BY <2>1, <1>4 DEF StateLine, MonitorLine, Taking
<1>5. CASE OpenDebugger
  BY <1>5
     DEF OpenDebugger, MonitorLine, Taking, Prompt, Request, Settle, Idle,
         Call, Step
<1>6. CASE OtherLine
  BY <1>6
     DEF OtherLine, MonitorLine, Taking, Prompt, Request, Settle, Idle, Call,
         Step
<1>7. CASE DebugLine
  BY <1>7
     DEF DebugLine, MonitorLine, Taking, Prompt, Request, Settle, Idle, Call,
         Step
<1>8. CASE ExitLine
  BY <1>8
     DEF ExitLine, MonitorLine, Taking, Prompt, Request, Settle, Idle, Call,
         Step
<1>9. CASE DropWindowEvent
  BY <1>9
     DEF DropWindowEvent, Accepted, Taking, Prompt, Request, Settle, Idle,
         Call, Step
<1>10. CASE PauseToggle
  BY <1>10
     DEF PauseToggle, RequestLifecycle, Taking, Prompt, Request, Settle, Idle,
         Call, Step
<1>11. CASE WindowClose
  BY <1>11 DEF WindowClose, Taking, Prompt, Request, Settle, Idle, Call, Step
<1>12. CASE GuestKey
  BY <1>12
     DEF GuestKey, Accepted, Taking, Prompt, Request, Settle, Idle, Call, Step
<1>13. CASE Returned
  <2>1. \/ c'.pc = "idle" /\ uiGen' = runGen
        \/ c'.pc # "idle" /\ uiGen' = uiGen
    BY <1>13, Zenon
       DEF Returned, Prompt, Settle, Idle, Leave, ResumeRun, Request, Call,
           Step
  <2> QED BY <2>1, <1>13 DEF Returned
<1> QED
  BY <1>1, <1>2, <1>3, <1>4, <1>5, <1>6, <1>7, <1>8, <1>9, <1>10, <1>11, <1>12,
     <1>13 DEF Session

(* A key is handed to the machine only with the generation of this run.    *)
LEMMA SessionPush ==
  ASSUME CallShape, runGen \in Nat,
         fifo # <<>> /\ Head(fifo).kind = "window" => Head(fifo).gen > 0,
         Session
  PROVE  c'.pc = "push" => c'.gen = runGen
<1> USE DEF CallShape, sessionVars
<1>1. CASE StaleFact
  BY <1>1 DEF StaleFact, Taking, Prompt, Request, Settle, Idle, Call, Step
<1>2. CASE RuntimeFact
  BY <1>2, Zenon
     DEF RuntimeFact, Announced, Taking, Prompt, Request, Settle, Idle, Call,
         Step
<1>3. CASE LifecycleLine
  BY <1>3, Zenon
     DEF LifecycleLine, MonitorLine, RequestLifecycle, Taking, Prompt, Request,
         Settle, Idle, Call, Step
<1>4. CASE StateLine
  BY <1>4, Zenon
     DEF StateLine, MonitorLine, Taking, Prompt, Request, Settle, Idle, Call,
         Step
<1>5. CASE OpenDebugger
  BY <1>5
     DEF OpenDebugger, MonitorLine, Taking, Prompt, Request, Settle, Idle,
         Call, Step
<1>6. CASE OtherLine
  BY <1>6
     DEF OtherLine, MonitorLine, Taking, Prompt, Request, Settle, Idle, Call,
         Step
<1>7. CASE DebugLine
  BY <1>7, Zenon
     DEF DebugLine, MonitorLine, Taking, Prompt, Request, Settle, Idle, Call,
         Step
<1>8. CASE ExitLine
  BY <1>8
     DEF ExitLine, MonitorLine, Taking, Prompt, Request, Settle, Idle, Call,
         Step
<1>9. CASE DropWindowEvent
  BY <1>9
     DEF DropWindowEvent, Accepted, Taking, Prompt, Request, Settle, Idle,
         Call, Step
<1>10. CASE PauseToggle
  BY <1>10, Zenon
     DEF PauseToggle, RequestLifecycle, Taking, Prompt, Request, Settle, Idle,
         Call, Step
<1>11. CASE WindowClose
  BY <1>11, Zenon DEF WindowClose, Taking, Prompt, Request, Settle, Idle, Call, Step
<1>12. CASE GuestKey
  BY <1>12
     DEF GuestKey, Accepted, Taking, Prompt, Request, Settle, Idle, Call, Step
<1>13. CASE Returned
  BY <1>13, Zenon
     DEF Returned, Leave, ResumeRun, Taking, Prompt, Request, Settle, Idle,
         Call, Step
<1> QED
  BY <1>1, <1>2, <1>3, <1>4, <1>5, <1>6, <1>7, <1>8, <1>9, <1>10, <1>11, <1>12,
     <1>13 DEF Session

(***************************************************************************)
(* The queues.                                                             *)
(***************************************************************************)

(* The event the session takes next.                                       *)
LEMMA NextEvent ==
  ASSUME QueueShape, BegunQueue, fifo # <<>>
  PROVE  /\ Head(fifo).gen \in Nat
         /\ Head(fifo).kind = "fact" /\ Head(fifo).val \in Started => runGen > 0
         /\ Head(fifo).kind = "window" => Head(fifo).gen > 0
<1>1. Len(fifo) > 0 /\ Head(fifo) = fifo[1] /\ fifo[1] \in FifoEvents
  BY DEF QueueShape
<1> QED BY <1>1 DEF BegunQueue, FifoEvents

(* Taking an event or queueing one that is in order keeps the FIFO so.     *)
LEMMA FifoKept ==
  ASSUME QueueShape, BegunQueue, runGen' \in Nat, runGen' >= runGen,
         \/ fifo' = fifo
         \/ fifo # <<>> /\ fifo' = Tail(fifo)
         \/ \E e \in FifoEvents : /\ fifo' = Append(fifo, e)
                                  /\ e.kind = "fact" /\ e.val \in Started => runGen > 0
                                  /\ e.kind = "window" => e.gen > 0
  PROVE  fifo' \in Seq(FifoEvents) /\ BegunQueue'
<1> USE DEF QueueShape
<1>1. CASE fifo' = fifo
  BY <1>1 DEF BegunQueue
<1>2. CASE fifo # <<>> /\ fifo' = Tail(fifo)
  <2>1. /\ fifo' \in Seq(FifoEvents) /\ Len(fifo') = Len(fifo) - 1
        /\ \A i \in 1 .. Len(fifo') : fifo'[i] = fifo[i + 1] /\ i + 1 \in 1 .. Len(fifo)
    BY <1>2
  <2>2. SUFFICES ASSUME NEW i \in 1 .. Len(fifo')
                 PROVE  /\ fifo'[i].kind = "fact" /\ fifo'[i].val \in Started => runGen' > 0
                        /\ fifo'[i].kind = "window" => fifo'[i].gen > 0
    BY <2>1 DEF BegunQueue
  <2>3. i + 1 \in 1 .. Len(fifo) /\ fifo'[i] = fifo[i + 1]
    BY <2>1
  <2> QED BY <2>3 DEF BegunQueue
<1>3. ASSUME NEW e \in FifoEvents, fifo' = Append(fifo, e),
             e.kind = "fact" /\ e.val \in Started => runGen > 0,
             e.kind = "window" => e.gen > 0
      PROVE  fifo' \in Seq(FifoEvents) /\ BegunQueue'
  <2>1. /\ fifo' \in Seq(FifoEvents) /\ Len(fifo') = Len(fifo) + 1
        /\ \A i \in 1 .. Len(fifo') :
             fifo'[i] = e \/ (i \in 1 .. Len(fifo) /\ fifo'[i] = fifo[i])
    BY <1>3
  <2> QED BY <1>3, <2>1 DEF BegunQueue
<1> QED BY <1>1, <1>2, <1>3

(* The ring is cleared whenever a run begins, and what is added is of the  *)
(* run.                                                                    *)
LEMMA RingKept ==
  ASSUME QueueShape, InputBelongsToRun,
         \/ inq' = <<>>
         \/ /\ runGen' = runGen
            /\ \/ inq' = inq
               \/ inq # <<>> /\ inq' = Tail(inq)
               \/ inq' = Append(inq, runGen)
  PROVE  inq' \in Seq(Nat) /\ InputBelongsToRun'
<1> USE DEF QueueShape, InputBelongsToRun
<1>1. CASE inq' = <<>>
  BY <1>1
<1>2. CASE runGen' = runGen /\ inq' = inq
  BY <1>2
<1>3. CASE runGen' = runGen /\ inq # <<>> /\ inq' = Tail(inq)
  <2>1. /\ inq' \in Seq(Nat) /\ Len(inq') = Len(inq) - 1
        /\ \A i \in 1 .. Len(inq') : inq'[i] = inq[i + 1] /\ i + 1 \in 1 .. Len(inq)
    BY <1>3
  <2>2. DOMAIN inq' = 1 .. Len(inq') /\ DOMAIN inq = 1 .. Len(inq)
    BY <2>1
  <2>3. \A i \in 1 .. Len(inq') : inq'[i] = runGen
    BY <2>1, <2>2, Zenon
  <2> QED BY <1>3, <2>1, <2>2, <2>3, Zenon
<1>4. CASE runGen' = runGen /\ inq' = Append(inq, runGen)
  <2>1. /\ inq' \in Seq(Nat) /\ Len(inq') = Len(inq) + 1
        /\ \A i \in 1 .. Len(inq') :
             inq'[i] = runGen \/ (i \in 1 .. Len(inq) /\ inq'[i] = inq[i])
    BY <1>4
  <2> QED BY <1>4, <2>1
<1> QED BY <1>1, <1>2, <1>3, <1>4

(***************************************************************************)
(* The invariant.                                                          *)
(***************************************************************************)

IInv ==
  /\ WorkerShape /\ CallShape /\ QueueShape /\ state \in States /\ plan \in Plans
  /\ Terminating /\ RequestOwned /\ Fresh
  /\ Parked /\ CaptureHeld
  /\ BegunHere /\ BegunQueue /\ PushOfRun /\ InputBelongsToRun

(* The invariant holds initially.                                          *)
LEMMA Initial == Init => IInv
<1> SUFFICES ASSUME Init PROVE IInv
  OBVIOUS
<1> USE DEF Init, MachineInit
<1>1. WorkerShape /\ CallShape /\ state \in States /\ plan \in Plans
  BY DEF WorkerShape, CallShape, WorkerPCs, ControlPCs, States
<1>2. QueueShape
  BY DEF QueueShape, FifoEvents, Facts
<1>3. Terminating /\ RequestOwned /\ Fresh /\ Parked /\ CaptureHeld
  BY DEF Terminating, RequestOwned, Fresh, Parked, Pending, Requests, CaptureHeld
<1>4. BegunHere /\ BegunQueue /\ PushOfRun /\ InputBelongsToRun
  BY DEF BegunHere, BegunQueue, PushOfRun, InputBelongsToRun, Idlers, Started
<1> QED BY <1>1, <1>2, <1>3, <1>4 DEF IInv

(* The worker keeps the invariant.                                         *)
LEMMA ExecutorKeeps ==
  ASSUME IInv, Executor \/ RunFails, UNCHANGED <<sessionVars, plan>>
  PROVE  IInv'
<1> USE DEF IInv
<1>1. /\ WorkerShape' /\ CallShape' /\ Terminating' /\ RequestOwned' /\ Fresh'
      /\ Parked' /\ BegunHere' /\ PushOfRun' /\ state' \in States
  BY ExecutorKeepsControl DEF QueueShape
<1>2. /\ runGen' \in {runGen, runGen + 1}
      /\ \/ inq' = <<>>
         \/ runGen' = runGen /\ (inq' = inq \/ (inq # <<>> /\ inq' = Tail(inq)))
      /\ fifo' = fifo \/ \E s \in Facts : FactQueued(s)
  BY ExecutorQueues DEF QueueShape
<1>3. fifo' = fifo \/ \E e \in FifoEvents :
        /\ fifo' = Append(fifo, e)
        /\ e.kind = "fact" /\ e.val \in Started => runGen > 0
        /\ e.kind = "window" => e.gen > 0
  <2>1. \A s \in Facts : [kind |-> "fact", val |-> s, gen |-> runGen] \in FifoEvents
    BY DEF FifoEvents, QueueShape
  <2> QED BY <1>2, <2>1, Zenon DEF FactQueued
<1>4. runGen' \in Nat /\ runGen' >= runGen
  BY <1>2 DEF QueueShape
<1>5. fifo' \in Seq(FifoEvents) /\ BegunQueue'
  BY <1>3, <1>4, FifoKept
<1>6. inq' \in Seq(Nat) /\ InputBelongsToRun'
  BY <1>2, RingKept
<1>7. QueueShape' /\ plan' \in Plans
  BY <1>4, <1>5, <1>6 DEF QueueShape, sessionVars
<1>8. CaptureHeld'
  BY ExecutorHolds
<1> QED BY <1>1, <1>5, <1>6, <1>7, <1>8

(* The machine calls keep the invariant.                                   *)
LEMMA CallsKeep ==
  ASSUME IInv, Calls, UNCHANGED <<sessionVars, plan>>
  PROVE  IInv'
<1> USE DEF IInv
<1>1. /\ WorkerShape' /\ CallShape' /\ Terminating' /\ RequestOwned' /\ Fresh'
      /\ Parked' /\ BegunHere' /\ PushOfRun' /\ state' \in States
  BY CallsKeepControl DEF QueueShape
<1>2. /\ runGen' \in {runGen, runGen + 1}
      /\ inq' = <<>> \/ (runGen' = runGen /\ (inq' = inq \/ inq' = Append(inq, runGen)))
      /\ fifo' = fifo
  BY CallsQueues DEF QueueShape
<1>3. runGen' \in Nat /\ runGen' >= runGen
  BY <1>2 DEF QueueShape
<1>4. fifo' \in Seq(FifoEvents) /\ BegunQueue'
  BY <1>2, <1>3, FifoKept
<1>5. inq' \in Seq(Nat) /\ InputBelongsToRun'
  BY <1>2, RingKept
<1>6. QueueShape' /\ plan' \in Plans
  BY <1>3, <1>4, <1>5 DEF QueueShape, sessionVars
<1>7. CaptureHeld'
  BY CallsHold
<1> QED BY <1>1, <1>4, <1>5, <1>6, <1>7

(* The session keeps the invariant.                                        *)
LEMMA SessionKeeps ==
  ASSUME IInv, Session, UNCHANGED plan
  PROVE  IInv'
<1> USE DEF IInv
<1>1. fifo # <<>> =>
        /\ Head(fifo).gen \in Nat
        /\ Head(fifo).kind = "fact" /\ Head(fifo).val \in Started => runGen > 0
        /\ Head(fifo).kind = "window" => Head(fifo).gen > 0
  BY NextEvent
<1>2. /\ UNCHANGED <<state, runGen, pubGen, lease, req, ev, inq, open, drv, restore,
                     status, w, faults>>
      /\ c.pc \in {"idle", "ret"}
      /\ fifo' = fifo \/ (fifo # <<>> /\ fifo' = Tail(fifo))
  BY SessionFrame
<1>3. CallShape' /\ c'.pc \notin {"await", "join"}
  BY <1>1, SessionCalls
<1>4. WorkerShape' /\ state' \in States /\ Parked' /\ Terminating' /\ plan' \in Plans
  BY <1>2 DEF WorkerShape, Parked, Terminating
<1>5. RequestOwned' /\ Fresh' /\ CaptureHeld'
  BY <1>2, <1>3 DEF RequestOwned, Fresh, Pending, Requests, CaptureHeld
<1>6. PushOfRun'
  BY <1>1, <1>2, SessionPush DEF PushOfRun, QueueShape
<1>7. BegunHere' /\ uiGen' \in {uiGen, runGen}
  BY <1>1, <1>2, SessionStamps DEF QueueShape
<1>8. fifo' \in Seq(FifoEvents) /\ BegunQueue'
  BY <1>2, FifoKept DEF QueueShape
<1>9. InputBelongsToRun'
  BY <1>2 DEF InputBelongsToRun
<1>10. QueueShape'
  BY <1>2, <1>7, <1>8 DEF QueueShape
<1> QED BY <1>3, <1>4, <1>5, <1>6, <1>7, <1>8, <1>9, <1>10

(* The operator's lines and Window events keep the invariant.              *)
LEMMA OperatorKeeps ==
  ASSUME IInv, TypeLine \/ UseWindow, UNCHANGED plan
  PROVE  IInv'
<1> USE DEF IInv
<1>1. UNCHANGED <<state, runGen, req, ev, inq, open, drv, status, w, c, monitor, uiGen,
                  plan>>
  BY DEF TypeLine, UseWindow
<1>2. plan.commands \subseteq AllCommands /\ plan.inputs \subseteq AllInputs
  BY LifecycleAssumption
<1>3. ASSUME TypeLine PROVE fifo' \in Seq(FifoEvents) /\ BegunQueue'
  <2>1. PICK cmd \in plan.commands :
          fifo' = Append(fifo, [kind |-> "line", val |-> cmd, gen |-> 0])
    BY <1>3 DEF TypeLine
  <2>2. [kind |-> "line", val |-> cmd, gen |-> 0] \in FifoEvents
    BY <1>2 DEF FifoEvents
  <2>3. runGen' \in Nat /\ runGen' >= runGen
    BY <1>1 DEF QueueShape
  <2> QED BY <2>1, <2>2, <2>3, FifoKept
<1>4. ASSUME UseWindow PROVE fifo' \in Seq(FifoEvents) /\ BegunQueue'
  <2>1. PICK i \in plan.inputs :
          fifo' = Append(fifo, [kind |-> "window", val |-> i, gen |-> uiGen])
    BY <1>4 DEF UseWindow
  <2>2. [kind |-> "window", val |-> i, gen |-> uiGen] \in FifoEvents /\ uiGen > 0
    BY <1>2, <1>4 DEF FifoEvents, UseWindow, BegunHere, QueueShape
  <2>3. runGen' \in Nat /\ runGen' >= runGen
    BY <1>1 DEF QueueShape
  <2> QED BY <2>1, <2>2, <2>3, FifoKept
<1>5. fifo' \in Seq(FifoEvents) /\ BegunQueue'
  BY <1>3, <1>4
<1>6. WorkerShape' /\ CallShape' /\ QueueShape' /\ state' \in States /\ plan' \in Plans
  BY <1>1, <1>5 DEF WorkerShape, CallShape, QueueShape
<1>7. /\ Terminating' /\ RequestOwned' /\ Fresh' /\ Parked' /\ CaptureHeld'
      /\ BegunHere' /\ PushOfRun'
  BY <1>1 DEF Terminating, RequestOwned, Fresh, Parked, CaptureHeld, BegunHere, PushOfRun
<1>8. InputBelongsToRun'
  BY <1>1 DEF InputBelongsToRun
<1> QED BY <1>5, <1>6, <1>7, <1>8

(* Every step of either thread or of the operator keeps the invariant.     *)
THEOREM Inductive == Spec => []IInv
<1>1. ASSUME IInv, [Next]_vars PROVE IInv'
  <2>1. CASE ExecutorStep /\ UNCHANGED plan
    BY <1>1, <2>1, ExecutorKeeps DEF ExecutorStep
  <2>2. CASE GuestFails /\ UNCHANGED plan
    BY <1>1, <2>2, ExecutorKeeps DEF GuestFails
  <2>3. CASE CallStep /\ UNCHANGED plan
    BY <1>1, <2>3, CallsKeep DEF CallStep
  <2>4. CASE Session /\ UNCHANGED plan
    BY <1>1, <2>4, SessionKeeps
  <2>5. CASE (TypeLine \/ UseWindow) /\ UNCHANGED plan
    BY <1>1, <2>5, OperatorKeeps
  <2>6. CASE UNCHANGED vars
    <3>1. UNCHANGED <<state, runGen, req, ev, inq, open, drv, status, w, c, fifo, monitor,
                      uiGen, plan>>
      BY <2>6 DEF vars, machineVars, sessionVars
    <3>2. (WorkerShape /\ CallShape /\ QueueShape)'
      BY <1>1, <3>1 DEF IInv, WorkerShape, CallShape, QueueShape
    <3>3. (Terminating /\ RequestOwned /\ Fresh)'
      BY <1>1, <3>1 DEF IInv, Terminating, RequestOwned, Fresh
    <3>4. (Parked /\ CaptureHeld)'
      BY <1>1, <3>1 DEF IInv, Parked, CaptureHeld
    <3>5. (BegunHere /\ BegunQueue /\ PushOfRun /\ InputBelongsToRun)'
      BY <1>1, <3>1 DEF IInv, BegunHere, BegunQueue, PushOfRun, InputBelongsToRun
    <3>6. state' \in States /\ plan' \in Plans
      BY <1>1, <3>1 DEF IInv
    <3> QED
      BY <3>2, <3>3, <3>4, <3>5, <3>6, Zenon DEF IInv, States
  <2> QED BY <1>1, <2>1, <2>2, <2>3, <2>4, <2>5, <2>6 DEF Next, Finished
<1> QED BY <1>1, Initial, PTL DEF Spec

(* A caller that wakes on its completion event reads the result of its own *)
(* request (wait_request, the services and finish_requests), however the   *)
(* two threads interleave and whichever synchronization calls fail.        *)
THEOREM ResultsAreFresh == Spec => []ResultIsFresh
<1>1. IInv => ResultIsFresh
  BY DEF IInv, Fresh, ResultIsFresh, CallShape, Requests, Pending
<1> QED BY <1>1, Inductive, PTL

(* No queued input was meant for an earlier run: the generation check of   *)
(* accept_kvm_event and the clearing of the ring at every cold run leave   *)
(* no gap, although the run may change while the input is being pushed.    *)
THEOREM InputIsOfItsRun == Spec => []InputBelongsToRun
<1>1. IInv => InputBelongsToRun
  BY DEF IInv
<1> QED BY <1>1, Inductive, PTL

(* While the machine says PAUSED and is not being stopped, the guest       *)
(* executes only for a state save that asked it to go on.                  *)
THEOREM PausedMeansParked == Spec => []PausedGuestIsParked
<1>1. IInv => PausedGuestIsParked
  BY DEF IInv, Parked, ParkedPCs, PausedGuestIsParked
<1> QED BY <1>1, Inductive, PTL

(* Between the finished capture of a save in flight and its rendezvous no  *)
(* step takes input off the ring: neither the callback that took the       *)
(* result, nor a run that begins meanwhile.                                *)
THEOREM CaptureKeepsInput == Spec => NoInputAfterCapture
<1> DEFINE Kept == {"result"} \subseteq drv \cap drv' /\ "armed" \in req
                     => Len(inq') >= Len(inq)
<1>1. ASSUME IInv, [Next]_vars PROVE [Kept]_vars
  <2> SUFFICES ASSUME "result" \in drv, "armed" \in req PROVE Len(inq') >= Len(inq)
    OBVIOUS
  <2>1. inq \in Seq(Nat)
    BY <1>1 DEF IInv, QueueShape
  <2>2. /\ w.pc \in CallbackPCs /\ "read" \in req
        /\ w.pc = "cbInput" => req \cap {"pause", "stop"} # {}
    BY <1>1 DEF IInv, CaptureHeld, CallbackPCs, ParkedPCs
  <2>3. c.pc \in {"await", "join"}
    BY <1>1, <2>2 DEF IInv, RequestOwned, Pending, CallbackPCs, ParkedPCs
  <2>4. inq' = inq \/ inq' = Append(inq, runGen)
    <3>1. CASE Executor \/ RunFails
      BY <1>1, <2>2, <3>1, ExecutorQueues DEF IInv, QueueShape, CallbackPCs, ParkedPCs
    <3>2. CASE Calls
      BY <1>1, <2>3, <3>2, CallsQueues DEF IInv, QueueShape
    <3>3. CASE Session
      BY <3>3, SessionFrame
    <3>4. CASE TypeLine \/ UseWindow
      BY <3>4 DEF TypeLine, UseWindow
    <3>5. CASE UNCHANGED vars
      BY <3>5 DEF vars, machineVars
    <3> QED BY <1>1, <3>1, <3>2, <3>3, <3>4, <3>5
               DEF Next, Finished, ExecutorStep, GuestFails, CallStep
  <2> QED BY <2>1, <2>4
<1> QED BY <1>1, Inductive, PTL DEF NoInputAfterCapture, Spec

=============================================================================
