----------------------------- MODULE MCPcmStream -----------------------------
(* Plans for the PCM stream: a small ring, batch and endpoint buffer.      *)
EXTENDS PcmStream

APlan(calls, n, frames, cancels, failures) ==
  [calls |-> calls, count |-> n, frames |-> frames, cancels |-> cancels,
   failures |-> failures]

(* Submission against clear and flush; waits that another thread cancels;  *)
(* activation, the sink and destruction; and each call with a failure.     *)
CheckedPlans ==
  {APlan({"enqueue", "clear", "flush"}, 4, 2, 0, 0),
   APlan({"enqueue", "wait", "destroy"}, 3, 2, 1, 0),
   APlan({"enqueue", "on", "off", "destroy"}, 3, 2, 0, 0),
   APlan({"enqueue", "clear"}, 3, 2, 0, 1),
   APlan({"wait"}, 1, 1, 1, 1),
   APlan(Calls, 2, 2, 0, 1)}
=============================================================================
