------------------------------ MODULE Machine ------------------------------
(***************************************************************************)
(* The machine executor of src/emulator/machine/machine.c: the worker task *)
(* that owns the guest, the driver callback it runs inside the guest loop, *)
(* and the calls the control thread makes (start, pause, resume, stop,     *)
(* reset, removable media, state save and load, debugger, shutdown).       *)
(*                                                                         *)
(* The two threads share atomics, five manual-reset events and the worker  *)
(* task's cancellation.  Every shared load, store, exchange and            *)
(* compare-exchange whose order matters is a step of its own.  The driver  *)
(* (src/app-softpc/machine) is represented by its exit latch, heartbeat,   *)
(* debug plan and state capture.  Completed facts go to the control FIFO.  *)
(***************************************************************************)
EXTENDS Integers, Sequences

CONSTANT Capacity   \* usable places of the input ring

ASSUME MachineAssumption == Capacity \in Nat \ {0}

VARIABLES
  state,    \* machine->state
  runGen,   \* machine->run_generation
  pubGen,   \* machine->published_frame_run_generation (0: invalidated)
  lease,    \* the debugger's lease still carries machine->debug_generation
  req,      \* the request flags that are raised
  ev,       \* the events that are signalled, "cancel" being task cancellation
  inq,      \* accepted guest input: the run generation each item was meant for
  open,     \* input_queue.accepting
  drv,      \* what is set in the driver
  restore,  \* the driver's restored-state run: none, staged or live
  status,   \* result slot of the synchronous request in flight
  w,        \* the worker thread
  c,        \* the control thread
  fifo,     \* the session's control FIFO
  faults    \* native synchronization failures still to come

machineVars == <<state, runGen, pubGen, lease, req, ev, inq, open, drv,
                 restore, status, w, c, fifo, faults>>

States == {"STOPPED", "STARTING", "RUNNING", "PAUSED", "ERROR"}
Facts == {"STOPPED", "RUNNING", "PAUSED", "RESET_COMPLETED", "ERROR"}
Flags == {"pause", "stop", "start", "reset", "resetActive", "terminate",
          "media", "debug", "debugCancel", "read", "armed", "ready",
          "continuing", "write", "waiting", "restored"}
Events == {"command", "resume", "media", "debug", "state", "cancel"}
Driver == {"latch", "beat", "plan", "capture", "result", "broken"}

WorkerPCs == {"wait", "serve", "dispatch", "driverReset", "stopCheck",
              "launch", "admit", "announce", "run", "cbDebug", "cbRead",
              "cbInput", "cbPublish", "cbPause", "cbPark", "cbFact",
              "cbComplete", "parkTest", "parkWait", "parkMedia", "parkDebug",
              "parkRead", "parkRest", "unpark", "readmit", "cbDone", "loop", "unwound",
              "finish", "finishStore", "restart", "notify", "exit", "gone"}
ControlPCs == {"idle", "check", "resetActive", "resetFlag", "stopFlag",
               "clearPause", "wakeResume", "latch", "setPause", "coldRun",
               "signalCommand", "debugCancel", "acquire", "submit", "await",
               "join", "push", "ret", "terminate", "wakeAll", "destroy",
               "over"}

(* The event each synchronous request completes on.                        *)
Completion(q) == IF q \in {"read", "write"} THEN "state" ELSE q

MachineInit ==
  /\ state = "STOPPED" /\ runGen = 0 /\ pubGen = 0 /\ lease = FALSE
  /\ req = {} /\ ev = {} /\ inq = <<>> /\ open = FALSE
  /\ drv = {} /\ restore = "none" /\ status = "none"
  /\ w = [pc |-> "wait", ok |-> TRUE, fact |-> "none", next |-> "wait",
          term |-> "STOPPED", told |-> FALSE, ret |-> "run", sup |-> FALSE]

Goto(pc) == w' = [w EXCEPT !.pc = pc]

(***************************************************************************)
(* Shared pieces.                                                          *)
(***************************************************************************)

(* emulator_machine_notify_state: the fact is stamped with the generation  *)
(* that is current when it is sent.                                        *)
Notify(s) == fifo' = Append(fifo, [kind |-> "fact", val |-> s, gen |-> runGen])

(* One native synchronization call fails.                                  *)
Fault == faults > 0 /\ faults' = faults - 1

(* emulator_machine_fail_sync, on flags r, driver d and events e.          *)
FailSync(r, d, e) ==
  /\ state' = "ERROR" /\ open' = FALSE
  /\ req' = (r \ {"reset"}) \cup {"stop", "terminate"}
  /\ drv' = d \cup {"latch"}
  /\ ev' = e \cup {"cancel"}

(* Signal event e, or fail the machine when the signal fails               *)
(* (emulator_machine_complete_request and the calls that wake the worker). *)
Signal(e, r, d) ==
  \/ /\ ev' = ev \cup {e} /\ req' = r /\ drv' = d
     /\ UNCHANGED <<state, open, faults>>
  \/ Fault /\ FailSync(r, d, ev)

(* Mutant: a cold run keeps the queue of the run before.                   *)
ColdRunKeepsInput(pauseAfter, r) ==
  /\ lease' = FALSE /\ open' = FALSE /\ UNCHANGED inq /\ pubGen' = 0
  /\ state' = "STARTING" /\ runGen' = runGen + 1
  /\ req' = ((r \ {"stop", "pause"}) \cup {"start"})
             \cup (IF pauseAfter THEN {"pause"} ELSE {})

(* The state changes of emulator_machine_begin_cold_run.                   *)
ColdRun(pauseAfter, r) ==
  /\ lease' = FALSE /\ open' = FALSE /\ inq' = <<>> /\ pubGen' = 0
  /\ state' = "STARTING" /\ runGen' = runGen + 1
  /\ req' = ((r \ {"stop", "pause"}) \cup {"start"})
             \cup (IF pauseAfter THEN {"pause"} ELSE {})

(***************************************************************************)
(* Services the worker performs for a blocked caller.                      *)
(***************************************************************************)

(* emulator_machine_service_media.                                         *)
ServiceMedia(next) ==
  /\ Goto(next)
  /\ \/ /\ "media" \in req /\ "terminate" \notin req
        /\ status' \in {"ok", "failed"}
        /\ Signal("media", req \ {"media"}, drv)
     \/ /\ "media" \notin req \/ "terminate" \in req
        /\ UNCHANGED <<status, state, open, req, drv, ev, faults>>
  /\ UNCHANGED <<runGen, pubGen, lease, inq, restore, c, fifo>>

(* emulator_machine_service_debug: cancel, then execute only for a paused  *)
(* machine and a lease that no transition has invalidated.                 *)
ServiceDebug(next) ==
  LET d == IF "debugCancel" \in req THEN drv \ {"plan"} ELSE drv
      r == req \ {"debugCancel"}
      allowed == state = "PAUSED" /\ "pause" \in r /\ lease
  IN /\ Goto(next)
     /\ \/ /\ "debug" \in r /\ "terminate" \notin r
           /\ status' \in IF allowed THEN {"ok", "failed"} ELSE {"failed"}
           /\ \E p \in IF status' = "ok" THEN {d, d \cup {"plan"}} ELSE {d} :
                Signal("debug", r \ {"debug"}, p)
        \/ /\ "debug" \notin r \/ "terminate" \in r
           /\ req' = r /\ drv' = d
           /\ UNCHANGED <<status, state, open, ev, faults>>
     /\ UNCHANGED <<runGen, pubGen, lease, inq, restore, c, fifo>>

(* emulator_machine_service_state_read with the driver's begin_state_read  *)
(* and take_state_read_result.  A finished or refused capture asks for the *)
(* pause.                                                                  *)
StateRead ==
  LET begin == "armed" \notin req
      claimed == req \cup {"armed"}
  IN \/ /\ "read" \notin req \/ "terminate" \in req
        /\ UNCHANGED <<req, drv, status>>
     \/ /\ "read" \in req /\ "terminate" \notin req
        /\ \/ /\ begin /\ drv \cap {"capture", "broken"} = {}   \* it is accepted
              /\ drv' = (drv \ {"result"}) \cup {"capture"}
              /\ req' = claimed /\ UNCHANGED status
           \/ /\ begin                            \* or refused
              /\ status' = "failed" /\ req' = claimed \cup {"ready", "pause"}
              /\ UNCHANGED drv
           \/ /\ ~begin /\ "ready" \notin req /\ "result" \in drv
              /\ status' \in IF "broken" \in drv THEN {"failed"} ELSE {"ok", "failed"}
              /\ req' = claimed \cup {"ready", "pause"} /\ UNCHANGED drv
           \/ /\ ~begin /\ ("ready" \in req \/ "result" \notin drv)
              /\ req' = IF "ready" \in req THEN req \cup {"pause"} ELSE req
              /\ UNCHANGED <<drv, status>>

Captured == {"read", "armed", "ready"}

(***************************************************************************)
(* The worker's command loop (emulator_machine_worker).                    *)
(***************************************************************************)

WaitCommand ==
  /\ w.pc = "wait"
  /\ \/ /\ "cancel" \in ev /\ Goto("exit")
        /\ UNCHANGED <<state, open, req, drv, ev, faults>>
     \/ /\ "cancel" \notin ev /\ "command" \in ev
        /\ Goto("serve") /\ ev' = ev \ {"command"}
        /\ UNCHANGED <<state, open, req, drv, faults>>
     \/ /\ "cancel" \notin ev /\ "command" \in ev   \* the reset fails
        /\ Fault /\ Goto("exit") /\ FailSync(req, drv, ev)
     \/ /\ "cancel" \notin ev                       \* the wait fails
        /\ Fault
        /\ w' = [w EXCEPT !.pc = "finish", !.term = "ERROR",
                          !.fact = "ERROR", !.next = "exit", !.told = TRUE]
        /\ UNCHANGED <<state, open, req, drv, ev>>
  /\ UNCHANGED <<runGen, pubGen, lease, inq, restore, status, c, fifo>>

Serve ==
  /\ w.pc = "serve"
  /\ \/ /\ "terminate" \in req /\ Goto("exit")
        /\ UNCHANGED <<state, runGen, pubGen, lease, req, ev, inq, open, drv,
                       restore, status, c, fifo, faults>>
     \/ "terminate" \notin req /\ ServiceDebug("dispatch")

(* emulator_machine_service_state_write: an accepted state becomes a       *)
(* paused cold run whose caller waits until the machine has parked.        *)
ServiceStateWrite ==
  \/ /\ status' = "failed"
     /\ Signal("state", req \ {"write"}, drv)
     /\ UNCHANGED <<runGen, pubGen, lease, inq, restore>>
  \/ /\ status' = "ok" /\ restore' = "staged"
     /\ LET r == ((req \ {"write", "stop"})
                    \cup {"pause", "restored", "waiting", "start"})
        IN \/ /\ ev' = ev \cup {"command"} /\ req' = r /\ drv' = drv
              /\ state' = "STARTING"
              /\ UNCHANGED <<open, faults>>
           \/ Fault /\ FailSync(r, drv, ev)
     /\ lease' = FALSE /\ inq' = <<>> /\ pubGen' = 0 /\ runGen' = runGen + 1

Dispatch ==
  /\ w.pc = "dispatch"
  /\ \/ /\ "terminate" \in req /\ Goto("exit")
        /\ UNCHANGED <<state, runGen, pubGen, lease, req, ev, inq, open, drv,
                       restore, status, c, fifo, faults>>
     \/ /\ "terminate" \notin req /\ "media" \in req
        /\ ServiceMedia("wait")
     \/ /\ req \cap {"terminate", "media"} = {} /\ "write" \in req
        /\ ServiceStateWrite /\ Goto("wait")
        /\ UNCHANGED <<c, fifo>>
     \/ /\ req \cap {"terminate", "media", "write"} = {}
        /\ w' = [w EXCEPT !.pc = IF "start" \notin req THEN "wait"
                                 ELSE IF "restored" \in req THEN "stopCheck"
                                 ELSE "driverReset"]
        /\ status' = IF {"start", "restored"} \subseteq req THEN "ok" ELSE status
        /\ req' = req \ {"start", "restored"}
        /\ UNCHANGED <<state, runGen, pubGen, lease, ev, inq, open, drv,
                       restore, c, fifo, faults>>

(* driver.reset: softpc_machine_reset clears the exit latch, the debug     *)
(* plan goes with the old guest.                                           *)
DriverReset ==
  /\ w.pc = "driverReset"
  /\ drv' = drv \ {"latch", "plan"}
  /\ \/ Goto("stopCheck")
     \/ w' = [w EXCEPT !.pc = "finish", !.term = "ERROR", !.fact = "ERROR",
                       !.next = "wait", !.told = TRUE]
  /\ UNCHANGED <<state, runGen, pubGen, lease, req, ev, inq, open, restore,
                 status, c, fifo, faults>>

StopCheck ==
  /\ w.pc = "stopCheck"
  /\ w' = IF "stop" \in req
          THEN [w EXCEPT !.pc = "finish", !.term = "STOPPED",
                         !.fact = "byState", !.next = "wait"]
          ELSE [w EXCEPT !.pc = "launch"]
  /\ UNCHANGED <<state, runGen, pubGen, lease, req, ev, inq, open, drv,
                 restore, status, c, fifo, faults>>

Launch ==
  /\ w.pc = "launch"
  /\ \/ /\ state = "STARTING" /\ state' = "RUNNING" /\ Goto("admit")
        /\ drv' = drv \cup {"beat"}
     \/ /\ state # "STARTING" /\ Goto("exit")
        /\ drv' = drv \ {"beat"} /\ UNCHANGED state
  /\ UNCHANGED <<runGen, pubGen, lease, req, ev, inq, open, restore, status,
                 c, fifo, faults>>

Admit ==
  /\ w.pc = "admit"
  /\ open' = ("pause" \notin req) /\ Goto("announce")
  /\ UNCHANGED <<state, runGen, pubGen, lease, req, ev, inq, drv, restore,
                 status, c, fifo, faults>>

Announce ==
  /\ w.pc = "announce"
  /\ IF req \cap {"resetActive", "pause"} = {}
     THEN Notify("RUNNING") ELSE UNCHANGED fifo
  /\ Goto("run")
  /\ UNCHANGED <<state, runGen, pubGen, lease, req, ev, inq, open, drv,
                 restore, status, c, faults>>

(***************************************************************************)
(* The driver's run (vm_run and softpc_machine_run).                       *)
(***************************************************************************)

(* The guest loop leaves by its exit latch with driver d.  A plain run     *)
(* clears the latch; a restored run makes one more callback first and      *)
(* keeps it.  A capture that could not restart the clock fails the run.    *)
Unwind(d) ==
  \/ /\ restore = "live" /\ restore' = "none" /\ drv' = d
     /\ w' = [w EXCEPT !.pc = "cbDebug", !.ret = "loop"]
  \/ /\ restore = "none" /\ UNCHANGED restore /\ drv' = d \ {"latch"}
     /\ w' = [w EXCEPT !.pc = "loop", !.ok = "broken" \notin d]

(* A restored run resets the driver and restores the staged state before   *)
(* its first checkpoint, whose callback parks the machine.                 *)
RunRestored ==
  /\ w.pc = "run" /\ restore = "staged"
  /\ \/ /\ restore' = "live" /\ drv' = drv \ {"latch", "plan"}
        /\ Goto("cbDebug")
     \/ /\ restore' = "none" /\ drv' = drv \ {"latch", "plan"}
        /\ w' = [w EXCEPT !.pc = "loop", !.ok = FALSE]
  /\ UNCHANGED <<state, runGen, pubGen, lease, req, ev, inq, open, status, c,
                 fifo, faults>>

(* The guest loop sees the exit latch.                                     *)
RunExit ==
  /\ w.pc = "run" /\ restore # "staged" /\ "latch" \in drv
  /\ Unwind(drv)
  /\ UNCHANGED <<state, runGen, pubGen, lease, req, ev, inq, open, status, c,
                 fifo, faults>>

(* The heartbeat's timer path reaches the executor callback.               *)
RunCallback ==
  /\ w.pc = "run" /\ restore # "staged" /\ "beat" \in drv
  /\ Goto("cbDebug")
  /\ UNCHANGED <<state, runGen, pubGen, lease, req, ev, inq, open, drv,
                 restore, status, c, fifo, faults>>

(* An instruction checkpoint finishes (or times out) the requested capture *)
(* and calls back with its result; the clock may fail to restart.          *)
RunCapture ==
  /\ w.pc = "run" /\ restore # "staged" /\ "capture" \in drv
  /\ \E failure \in {{}, {"broken"}} :
       drv' = (drv \ {"capture"}) \cup {"result"} \cup failure
  /\ Goto("cbDebug")
  /\ UNCHANGED <<state, runGen, pubGen, lease, req, ev, inq, open, restore,
                 status, c, fifo, faults>>

(* The guest or a host device fails and driver.run returns false.          *)
RunFails ==
  /\ w.pc = "run" /\ restore # "staged"
  /\ w' = [w EXCEPT !.pc = "loop", !.ok = FALSE]
  /\ restore' = "none"
  /\ UNCHANGED <<state, runGen, pubGen, lease, req, ev, inq, open, drv,
                 status, c, fifo, faults>>

(***************************************************************************)
(* The executor callback (emulator_machine_executor_event).                *)
(***************************************************************************)

(* A debug stop asks for the pause unless the plan was just cancelled or a *)
(* pause is already under way.                                             *)
CallbackDebug ==
  /\ w.pc = "cbDebug"
  /\ \E hit \in {FALSE} \cup (IF "plan" \in drv THEN {TRUE} ELSE {}) :
       LET cancelled == req \cap {"debugCancel", "pause"} # {}
       IN /\ drv' = IF hit \/ cancelled THEN drv \ {"plan"} ELSE drv
          /\ req' = (req \ {"debugCancel"})
                      \cup (IF hit /\ ~cancelled THEN {"pause"} ELSE {})
  /\ Goto("cbRead")
  /\ UNCHANGED <<state, runGen, pubGen, lease, ev, inq, open, restore, status,
                 c, fifo, faults>>

CallbackRead ==
  /\ w.pc = "cbRead" /\ Goto("cbInput") /\ StateRead
  /\ UNCHANGED <<state, runGen, pubGen, lease, ev, inq, open, restore, c, fifo,
                 faults>>

(* Mutant: input is delivered although a pause is pending.                 *)
CallbackInputIgnoresPause ==
  /\ w.pc = "cbInput" /\ Goto("cbPublish") /\ UNCHANGED open
  /\ inq' = IF state = "RUNNING" /\ inq # <<>> THEN Tail(inq) ELSE inq
  /\ UNCHANGED <<state, runGen, pubGen, lease, req, ev, drv, restore, status, c,
                 fifo, faults>>

(* A pending pause or stop closes input; a running machine delivers one.   *)
CallbackInput ==
  /\ w.pc = "cbInput" /\ Goto("cbPublish")
  /\ \/ /\ req \cap {"pause", "stop"} # {} /\ open' = FALSE /\ UNCHANGED inq
     \/ /\ req \cap {"pause", "stop"} = {} /\ UNCHANGED open
        /\ inq' = IF state = "RUNNING" /\ inq # <<>> THEN Tail(inq) ELSE inq
  /\ UNCHANGED <<state, runGen, pubGen, lease, req, ev, drv, restore, status, c,
                 fifo, faults>>

(* emulator_machine_publish: nothing new, a frame of this run, or a        *)
(* failure that ends the machine.                                          *)
CallbackPublish ==
  /\ w.pc = "cbPublish"
  /\ \/ /\ pubGen' \in {pubGen, runGen} /\ Goto("cbPause")
        /\ UNCHANGED <<state, open, req, drv>>
     \/ /\ open' = FALSE /\ state' = "ERROR" /\ Goto("cbDone")
        /\ req' = (req \ {"reset"}) \cup {"stop"}
        /\ drv' = drv \cup {"latch"} /\ UNCHANGED pubGen
  /\ UNCHANGED <<runGen, lease, ev, inq, restore, status, c, fifo, faults>>

CallbackPause ==
  /\ w.pc = "cbPause"
  /\ LET sup == {"continuing", "ready"} \subseteq req
         r == IF sup THEN req \ {"continuing"} ELSE req
     IN /\ req' = r
        /\ \/ /\ "pause" \in r /\ "stop" \notin r /\ open' = FALSE
              /\ w' = [w EXCEPT !.pc = "cbPark", !.sup = sup]
           \/ /\ "pause" \notin r \/ "stop" \in r
              /\ Goto("cbDone") /\ UNCHANGED open
  /\ UNCHANGED <<state, runGen, pubGen, lease, ev, inq, drv, restore, status, c,
                 fifo, faults>>

(* Mutant: the callback says PAUSED and returns to the guest.              *)
CallbackParkReturns ==
  /\ w.pc = "cbPark" /\ Goto("cbDone") /\ drv' = drv
  /\ state' = IF "stop" \in req THEN state ELSE "PAUSED"
  /\ UNCHANGED <<runGen, pubGen, lease, req, ev, inq, open, restore, status, c,
                 fifo, faults>>

CallbackPark ==
  /\ w.pc = "cbPark"
  /\ \/ /\ "stop" \in req /\ Goto("cbDone") /\ UNCHANGED <<state, drv>>
     \/ /\ "stop" \notin req /\ drv' = drv \ {"beat"}
        /\ IF state = (IF w.sup THEN "PAUSED" ELSE "RUNNING")
           THEN state' = "PAUSED" /\ Goto("cbFact")
           ELSE Goto("cbDone") /\ UNCHANGED state
  /\ UNCHANGED <<runGen, pubGen, lease, req, ev, inq, open, restore, status, c,
                 fifo, faults>>

CallbackFact ==
  /\ w.pc = "cbFact" /\ Goto("cbComplete")
  /\ req' = req \ {"resetActive"}
  /\ IF "resetActive" \in req THEN Notify("RESET_COMPLETED")
     ELSE IF ~w.sup THEN Notify("PAUSED") ELSE UNCHANGED fifo
  /\ UNCHANGED <<state, runGen, pubGen, lease, ev, inq, open, drv, restore,
                 status, c, faults>>

(* The parked machine completes a save, or the load that started this run. *)
CallbackComplete ==
  /\ w.pc = "cbComplete"
  /\ w' = [w EXCEPT !.pc = "parkTest", !.sup = FALSE]
  /\ \/ /\ "ready" \in req /\ "read" \in req
        /\ Signal("state", req \ Captured, drv)
     \/ /\ "waiting" \in req /\ ~({"ready", "read"} \subseteq req)
        /\ Signal("state", req \ {"waiting"}, drv)
     \/ /\ "waiting" \notin req /\ ~({"ready", "read"} \subseteq req)
        /\ UNCHANGED <<state, open, req, drv, ev, faults>>
  /\ UNCHANGED <<runGen, pubGen, lease, inq, restore, status, c, fifo>>

ParkTest ==
  /\ w.pc = "parkTest"
  /\ Goto(IF "pause" \in req /\ "stop" \notin req THEN "parkWait" ELSE "unpark")
  /\ UNCHANGED <<state, runGen, pubGen, lease, req, ev, inq, open, drv, restore,
                 status, c, fifo, faults>>

(* base_sync_wait_any: cancellation first, then the resume event, then the *)
(* command event.                                                          *)
ParkWait ==
  /\ w.pc = "parkWait"
  /\ LET index == IF "resume" \in ev THEN "resume" ELSE "command"
         leave == /\ req' = (req \ {"reset"}) \cup {"stop"}
                  /\ drv' = drv \cup {"latch"}
                  /\ Goto("unpark") /\ UNCHANGED <<open, ev>>
     IN \/ "cancel" \in ev /\ leave /\ UNCHANGED <<state, faults>>
        \/ "cancel" \notin ev /\ Fault /\ leave /\ state' = "ERROR"
        \/ /\ "cancel" \notin ev /\ index \in ev
           /\ ev' = ev \ {index}
           /\ Goto(IF index = "resume" THEN "parkTest" ELSE "parkMedia")
           /\ UNCHANGED <<state, open, req, drv, faults>>
        \/ /\ "cancel" \notin ev /\ index \in ev
           /\ Fault /\ FailSync(req, drv, ev) /\ Goto("unpark")
  /\ UNCHANGED <<runGen, pubGen, lease, inq, restore, status, c, fifo>>

ParkMedia == w.pc = "parkMedia" /\ ServiceMedia("parkDebug")
ParkDebug == w.pc = "parkDebug" /\ ServiceDebug("parkRead")

ParkRead ==
  /\ w.pc = "parkRead" /\ Goto("parkRest") /\ StateRead
  /\ UNCHANGED <<state, runGen, pubGen, lease, ev, inq, open, restore, c, fifo,
                 faults>>

(* A refused save completes at once; an accepted one lets the guest go on  *)
(* to a checkpoint without leaving PAUSED.                                 *)
ParkRest ==
  /\ w.pc = "parkRest" /\ Goto("parkTest")
  /\ \/ /\ "read" \notin req
        /\ UNCHANGED <<state, open, req, drv, ev, faults>>
     \/ /\ {"read", "ready"} \subseteq req
        /\ Signal("state", req \ Captured, drv)
     \/ /\ "read" \in req /\ "ready" \notin req
        /\ req' = (req \ {"pause"}) \cup {"continuing"}
        /\ UNCHANGED <<state, open, drv, ev, faults>>
  /\ UNCHANGED <<runGen, pubGen, lease, inq, restore, status, c, fifo>>

Unpark ==
  /\ w.pc = "unpark"
  /\ \/ /\ "stop" \in req /\ Goto("cbDone") /\ UNCHANGED <<state, drv>>
     \/ /\ "stop" \notin req /\ "continuing" \in req /\ Goto("cbDone")
        /\ drv' = drv \cup {"beat"} /\ UNCHANGED state
     \/ /\ req \cap {"stop", "continuing"} = {} /\ state = "PAUSED"
        /\ state' = "RUNNING" /\ drv' = drv \cup {"beat"} /\ Goto("readmit")
     \/ /\ req \cap {"stop", "continuing"} = {} /\ state # "PAUSED"
        /\ drv' = drv \ {"beat"} /\ Goto("cbDone") /\ UNCHANGED state
  /\ UNCHANGED <<runGen, pubGen, lease, req, ev, inq, open, restore, status, c,
                 fifo, faults>>

Readmit ==
  /\ w.pc = "readmit" /\ open' = TRUE /\ Notify("RUNNING") /\ Goto("cbDone")
  /\ UNCHANGED <<state, runGen, pubGen, lease, req, ev, inq, drv, restore,
                 status, c, faults>>

(* The callback returns into the driver, which forgets the capture result, *)
(* leaves after a broken capture and honours the exit latch.               *)
CallbackReturn ==
  /\ w.pc = "cbDone"
  /\ LET d == (drv \ {"result"}) \cup
                (IF {"result", "broken"} \subseteq drv THEN {"latch"} ELSE {})
     IN \/ /\ w.ret = "loop" /\ drv' = d /\ UNCHANGED restore
           /\ w' = [w EXCEPT !.pc = "loop", !.ret = "run", !.ok = "broken" \notin d]
        \/ /\ w.ret = "run" /\ "latch" \notin d
           /\ drv' = d /\ Goto("run") /\ UNCHANGED restore
        \/ w.ret = "run" /\ "latch" \in d /\ Unwind(d)
  /\ UNCHANGED <<state, runGen, pubGen, lease, req, ev, inq, open, status, c,
                 fifo, faults>>

(***************************************************************************)
(* After the run: restart, stop or fail.                                   *)
(***************************************************************************)

Loop ==
  /\ w.pc = "loop"
  /\ Goto(IF w.ok /\ req \cap {"stop", "terminate"} = {} THEN "run" ELSE "unwound")
  /\ UNCHANGED <<state, runGen, pubGen, lease, req, ev, inq, open, drv, restore,
                 status, c, fifo, faults>>

(* Mutant: a run that failed is not reported.                              *)
UnwoundSilentError ==
  /\ w.pc = "unwound"
  /\ open' = FALSE /\ drv' = drv \ {"beat", "plan"} /\ lease' = FALSE
  /\ LET ok == w.ok /\ state # "ERROR"
     IN IF ok /\ "reset" \in req
        THEN /\ req' = req \ {"reset"}
             /\ w' = [w EXCEPT !.pc = "finish", !.term = "STARTING",
                               !.fact = "none", !.next = "restart"]
        ELSE /\ UNCHANGED req
             /\ w' = [w EXCEPT !.pc = "finish", !.next = "wait", !.told = ~ok,
                               !.term = IF ok THEN "STOPPED" ELSE "ERROR",
                               !.fact = IF ok THEN "STOPPED" ELSE "none"]
  /\ UNCHANGED <<state, runGen, pubGen, ev, inq, restore, status, c, fifo,
                 faults>>

Unwound ==
  /\ w.pc = "unwound"
  /\ open' = FALSE /\ drv' = drv \ {"beat", "plan"} /\ lease' = FALSE
  /\ LET ok == w.ok /\ state # "ERROR"
         end == IF ok THEN "STOPPED" ELSE "ERROR"
     IN IF ok /\ "reset" \in req
        THEN /\ req' = req \ {"reset"}
             /\ w' = [w EXCEPT !.pc = "finish", !.term = "STARTING",
                               !.fact = "none", !.next = "restart"]
        ELSE /\ UNCHANGED req
             /\ w' = [w EXCEPT !.pc = "finish", !.term = end, !.fact = end,
                               !.next = "wait", !.told = ~ok]
  /\ UNCHANGED <<state, runGen, pubGen, ev, inq, restore, status, c, fifo,
                 faults>>

(* emulator_machine_finish_requests: an ERROR already stored wins (the     *)
(* state is loaded, then stored), and every request still raised completes *)
(* with a failure.                                                         *)
FinishLoad ==
  /\ w.pc = "finish" /\ open' = FALSE
  /\ w' = [w EXCEPT !.pc = "finishStore",
                    !.term = IF state = "ERROR" THEN "ERROR" ELSE w.term]
  /\ UNCHANGED <<state, runGen, pubGen, lease, req, ev, inq, drv, restore,
                 status, c, fifo, faults>>

(* Mutant: a terminal path forgets the requests still raised.              *)
FinishForgetsRequests ==
  /\ w.pc = "finishStore" /\ state' = w.term
  /\ w' = [w EXCEPT !.pc = IF w.fact = "none" THEN w.next ELSE "notify"]
  /\ UNCHANGED <<runGen, pubGen, lease, req, ev, inq, open, drv, restore, status,
                 c, fifo, faults>>

FinishStore ==
  /\ w.pc = "finishStore"
  /\ LET raised == req \cap {"read", "write", "waiting", "debug", "media"}
         r == req \ ({"write", "waiting", "debug", "media"}
                \cup (IF "read" \in req THEN Captured \cup {"continuing"} ELSE {}))
         done == { Completion(IF q = "waiting" THEN "write" ELSE q) : q \in raised }
     IN /\ status' = IF raised # {} THEN "failed" ELSE status
        /\ \/ /\ state' = w.term /\ req' = r /\ ev' = ev \cup done
              /\ UNCHANGED <<open, drv, faults>>
           \/ raised # {} /\ Fault /\ FailSync(r, drv, ev)
  /\ w' = [w EXCEPT !.pc = IF w.fact = "none" THEN w.next ELSE "notify"]
  /\ UNCHANGED <<runGen, pubGen, lease, inq, restore, c, fifo>>

(* The fact is chosen by the path taken, except that a stop found before   *)
(* launch and the worker's exit look at the state again.                   *)
NotifyOutcome ==
  /\ w.pc = "notify"
  /\ LET failed == state = "ERROR"
         said == CASE w.fact = "byState" -> IF failed THEN "ERROR" ELSE "STOPPED"
                   [] w.fact = "ifError" -> IF failed /\ ~w.told THEN "ERROR" ELSE "none"
                   [] OTHER -> w.fact
     IN /\ IF said = "none" THEN UNCHANGED fifo ELSE Notify(said)
        /\ w' = [w EXCEPT !.pc = w.next, !.fact = "none", !.next = "wait",
                          !.term = "STOPPED",
                          !.told = IF w.fact = "byState" THEN failed ELSE w.told]
  /\ UNCHANGED <<state, runGen, pubGen, lease, req, ev, inq, open, drv, restore,
                 status, c, faults>>

(* The cold-reset stage the worker schedules for itself.                   *)
Restart ==
  /\ w.pc = "restart"
  /\ w' = [w EXCEPT !.pc = "wait", !.next = "wait", !.term = "STOPPED"]
  /\ \/ /\ ColdRun(TRUE, req) /\ ev' = ev \cup {"command"}
        /\ UNCHANGED <<drv, faults>>
     \/ /\ Fault /\ FailSync((req \ {"stop"}) \cup {"pause", "start"}, drv, ev)
        /\ lease' = FALSE /\ inq' = <<>> /\ pubGen' = 0 /\ runGen' = runGen + 1
  /\ UNCHANGED <<restore, status, c, fifo>>

Exit ==
  /\ w.pc = "exit"
  /\ req' = req \cup {"terminate"}
  /\ w' = [w EXCEPT !.pc = "finish", !.term = state, !.next = "gone",
                    !.fact = "ifError"]
  /\ UNCHANGED <<state, runGen, pubGen, lease, ev, inq, open, drv, restore,
                 status, c, fifo, faults>>

(* Every worker step but a failing guest run, which nothing obliges.       *)
Executor ==
  \/ WaitCommand \/ Serve \/ Dispatch \/ DriverReset \/ StopCheck \/ Launch
  \/ Admit \/ Announce \/ RunRestored \/ RunExit \/ RunCallback \/ RunCapture
  \/ CallbackDebug \/ CallbackRead \/ CallbackInput
  \/ CallbackPublish \/ CallbackPause \/ CallbackPark \/ CallbackFact
  \/ CallbackComplete \/ ParkTest \/ ParkWait \/ ParkMedia \/ ParkDebug
  \/ ParkRead \/ ParkRest \/ Unpark \/ Readmit \/ CallbackReturn \/ Loop
  \/ Unwound \/ FinishLoad \/ FinishStore \/ NotifyOutcome \/ Restart \/ Exit

(***************************************************************************)
(* The calls of the control thread.  c.op is the call, c.pc its next step; *)
(* a call ends at pc "ret" with its result in c.ok.                        *)
(***************************************************************************)

Step(pc) == c' = [c EXCEPT !.pc = pc]
Ret(ok) == c' = [c EXCEPT !.pc = "ret", !.ok = ok]

(* The state each lifecycle call loads before it acts.                     *)
CheckState ==
  /\ c.pc = "check"
  /\ \/ /\ c.op = "start"
        /\ IF state = "STOPPED" THEN Step("coldRun") ELSE Ret(FALSE)
     \/ /\ c.op = "pause"
        /\ IF state = "RUNNING" THEN Step("setPause") ELSE Ret(FALSE)
     \/ /\ c.op = "resume"
        /\ IF state = "PAUSED" THEN Step("clearPause") ELSE Ret(FALSE)
     \/ /\ c.op = "stop"
        /\ CASE state = "STOPPED" -> Ret(TRUE)
             [] state = "ERROR" -> Ret(FALSE)
             [] OTHER -> Step("stopFlag")
     \/ /\ c.op = "reset"
        /\ IF state \in {"STOPPED", "RUNNING", "PAUSED"}
           THEN c' = [c EXCEPT !.pc = "resetActive", !.cold = (state = "STOPPED")]
           ELSE Ret(FALSE)
  /\ UNCHANGED <<state, runGen, pubGen, lease, req, ev, inq, open, drv, restore,
                 status, w, fifo, faults>>

SetPause ==
  /\ c.pc = "setPause" /\ req' = req \cup {"pause"} /\ Ret(TRUE)
  /\ UNCHANGED <<state, runGen, pubGen, lease, ev, inq, open, drv, restore,
                 status, w, fifo, faults>>

ResetActive ==
  /\ c.pc = "resetActive" /\ req' = req \cup {"resetActive"}
  /\ lease' = IF c.cold THEN lease ELSE FALSE
  /\ Step(IF c.cold THEN "coldRun" ELSE "resetFlag")
  /\ UNCHANGED <<state, runGen, pubGen, ev, inq, open, drv, restore, status, w,
                 fifo, faults>>

ResetFlag ==
  /\ c.pc = "resetFlag" /\ req' = req \cup {"reset"} /\ Step("stopFlag")
  /\ UNCHANGED <<state, runGen, pubGen, lease, ev, inq, open, drv, restore,
                 status, w, fifo, faults>>

StopFlag ==
  /\ c.pc = "stopFlag" /\ req' = req \cup {"stop"} /\ lease' = FALSE
  /\ Step("clearPause")
  /\ UNCHANGED <<state, runGen, pubGen, ev, inq, open, drv, restore, status, w,
                 fifo, faults>>

ClearPause ==
  /\ c.pc = "clearPause" /\ req' = req \ {"pause"} /\ lease' = FALSE
  /\ Step("wakeResume")
  /\ UNCHANGED <<state, runGen, pubGen, ev, inq, open, drv, restore, status, w,
                 fifo, faults>>

(* Signal the resume event; a resume is done, a stop or reset goes on to   *)
(* the driver's exit latch.                                                *)
WakeResume ==
  /\ c.pc = "wakeResume"
  /\ \/ /\ ev' = ev \cup {"resume"}
        /\ IF c.op = "resume" THEN Ret(TRUE) ELSE Step("latch")
        /\ UNCHANGED <<state, open, req, drv, faults>>
     \/ Fault /\ FailSync(req, drv, ev) /\ Ret(FALSE)
  /\ UNCHANGED <<runGen, pubGen, lease, inq, restore, status, w, fifo>>

RequestStop ==
  /\ c.pc = "latch" /\ drv' = drv \cup {"latch"} /\ Ret(TRUE)
  /\ UNCHANGED <<state, runGen, pubGen, lease, req, ev, inq, open, restore,
                 status, w, fifo, faults>>

(* emulator_machine_schedule_cold_run checks the state again.              *)
ScheduleColdRun ==
  /\ c.pc = "coldRun"
  /\ \/ /\ state = "STOPPED" /\ ColdRun(c.op = "reset", req)
        /\ Step("signalCommand")
     \/ /\ state # "STOPPED" /\ req' = req \ {"resetActive"} /\ Ret(FALSE)
        /\ UNCHANGED <<state, runGen, pubGen, lease, inq, open>>
  /\ UNCHANGED <<ev, drv, restore, status, w, fifo, faults>>

SignalCommand ==
  /\ c.pc = "signalCommand"
  /\ \/ /\ ev' = ev \cup {"command"} /\ Ret(TRUE)
        /\ UNCHANGED <<state, open, req, drv, faults>>
     \/ Fault /\ FailSync(req \ {"resetActive"}, drv, ev) /\ Ret(FALSE)
  /\ UNCHANGED <<runGen, pubGen, lease, inq, restore, status, w, fifo>>

DebugCancel ==
  /\ c.pc = "debugCancel" /\ Ret(TRUE)
  /\ Signal("command", req \cup {"debugCancel"}, drv)
  /\ UNCHANGED <<runGen, pubGen, lease, inq, restore, status, w, fifo>>

(* emulator_machine_debug_acquire.                                         *)
DebugAcquire ==
  /\ c.pc = "acquire"
  /\ IF state = "PAUSED" /\ runGen > 0
     THEN lease' = TRUE /\ Step("submit")
     ELSE UNCHANGED lease /\ Ret(FALSE)
  /\ UNCHANGED <<state, runGen, pubGen, req, ev, inq, open, drv, restore, status,
                 w, fifo, faults>>

(* The states emulator_machine_submit_request admits a request in.         *)
Allowed(q) == CASE q = "media" -> {"STOPPED", "PAUSED"}
                [] q = "debug" -> {"PAUSED"}
                [] q = "read" -> {"RUNNING", "PAUSED"}
                [] q = "write" -> {"STOPPED"}

(* Mutant: the completion event of the request before stays signalled.     *)
SubmitKeepsEvent ==
  /\ c.pc = "submit"
  /\ IF "terminate" \notin req /\ state \in Allowed(c.op)
     THEN /\ status' = "none" /\ Step("await")
          /\ req' = req \cup {c.op} /\ ev' = ev \cup {"command"}
     ELSE Ret(FALSE) /\ UNCHANGED <<req, ev, status>>
  /\ UNCHANGED <<state, runGen, pubGen, lease, inq, open, drv, restore, w, fifo,
                 faults>>

(* Registration is one critical section of request_lock; the slot's old    *)
(* value is marked so that a stale result would be seen.                   *)
SubmitRequest ==
  /\ c.pc = "submit"
  /\ LET admitted == "terminate" \notin req /\ state \in Allowed(c.op)
     IN \/ /\ admitted /\ status' = "none" /\ Step("await")
           /\ req' = req \cup {c.op}
           /\ ev' = (ev \ {Completion(c.op)}) \cup {"command"}
           /\ UNCHANGED faults
        \/ ~admitted /\ Ret(FALSE) /\ UNCHANGED <<req, ev, status, faults>>
        \/ /\ admitted /\ Fault /\ Ret(FALSE)
           /\ ev' = ev \ {Completion(c.op)} /\ UNCHANGED <<req, status>>
  /\ UNCHANGED <<state, runGen, pubGen, lease, inq, open, drv, restore, w, fifo>>

(* emulator_machine_wait_request: a cancelled worker is joined instead.    *)
AwaitRequest ==
  /\ c.pc = "await"
  /\ \/ /\ "cancel" \in ev /\ Step("join")
        /\ UNCHANGED <<state, open, req, drv, ev, faults>>
     \/ /\ "cancel" \notin ev /\ Completion(c.op) \in ev /\ Ret(status = "ok")
        /\ UNCHANGED <<state, open, req, drv, ev, faults>>
     \/ /\ "cancel" \notin ev /\ Fault /\ FailSync(req, drv, ev) /\ Step("join")
  /\ UNCHANGED <<runGen, pubGen, lease, inq, restore, status, w, fifo>>

JoinWorker ==
  /\ c.pc = "join" /\ w.pc = "gone" /\ Ret(FALSE)
  /\ UNCHANGED <<state, runGen, pubGen, lease, req, ev, inq, open, drv, restore,
                 status, w, fifo, faults>>

(* emulator_machine_enqueue_input: a closed queue refuses quietly, a full  *)
(* one fails.                                                              *)
EnqueueInput ==
  /\ c.pc = "push"
  /\ inq' = IF open /\ Len(inq) < Capacity THEN Append(inq, c.gen) ELSE inq
  /\ Ret(~open \/ Len(inq) < Capacity)
  /\ UNCHANGED <<state, runGen, pubGen, lease, req, ev, open, drv, restore,
                 status, w, fifo, faults>>

(* emulator_machine_shutdown after its stop call: terminate, wake both     *)
(* waits, cancel and join the task.                                        *)
Terminate ==
  /\ c.pc = "terminate" /\ req' = req \cup {"terminate"} /\ Step("wakeAll")
  /\ UNCHANGED <<state, runGen, pubGen, lease, ev, inq, open, drv, restore,
                 status, w, fifo, faults>>

(* Mutant: only the parked executor is woken.                              *)
WakeAllParkedOnly ==
  /\ c.pc = "wakeAll" /\ Step("destroy") /\ ev' = ev \cup {"resume"}
  /\ UNCHANGED <<state, runGen, pubGen, lease, req, inq, open, drv, restore,
                 status, w, fifo, faults>>

WakeAll ==
  /\ c.pc = "wakeAll" /\ Step("destroy")
  /\ \/ ev' = ev \cup {"resume", "command", "cancel"} /\ UNCHANGED faults
     \/ ev' = ev \cup {"cancel"} /\ Fault
  /\ UNCHANGED <<state, runGen, pubGen, lease, req, inq, open, drv, restore,
                 status, w, fifo>>

DestroyWorker ==
  /\ c.pc = "destroy" /\ w.pc = "gone" /\ Step("over")
  /\ UNCHANGED <<state, runGen, pubGen, lease, req, ev, inq, open, drv, restore,
                 status, w, fifo, faults>>

Calls ==
  \/ CheckState \/ SetPause \/ ResetActive \/ ResetFlag \/ StopFlag
  \/ ClearPause \/ WakeResume \/ RequestStop \/ ScheduleColdRun
  \/ SignalCommand \/ DebugCancel \/ DebugAcquire \/ SubmitRequest
  \/ AwaitRequest \/ JoinWorker \/ EnqueueInput \/ Terminate \/ WakeAll
  \/ DestroyWorker

=============================================================================
