---------------------------- MODULE MCIoqueueOps ----------------------------
(* Small instances of the operations on one ioqueue key. *)
EXTENDS IoqueueOps, TLC
CONSTANTS r1, r2, w1, w2, a1, a2

ThreadSymmetry == Permutations(Threads)

App(calls, ops, concurrent, datagram) ==
  [calls |-> calls, ops |-> ops, allow_concurrent |-> concurrent, datagram |-> datagram]

(* A stream that is written in parts and unregistered, a datagram socket,   *)
(* a listening one, a connecting one whose operations are also completed by *)
(* hand, and one that is cleared; then keys with concurrency, the default.   *)
(* A concurrent key that is written and unregistered is a run of its own.   *)
SafetyApplications ==
  {App({"send", "unregister"}, {w1, w2}, FALSE, FALSE),
   App({"recv", "unregister"}, {r1, r2}, FALSE, TRUE),
   App({"accept", "unregister"}, {a1, a2}, FALSE, FALSE),
   App({"connect", "send", "post"}, {w1}, TRUE, FALSE),
   App({"recv", "send", "clear", "unregister", "timeout"}, {r1, w1}, FALSE, TRUE),
   App({"recv", "unregister"}, {r1, r2}, TRUE, TRUE),
   App({"accept", "unregister"}, {a1, a2}, TRUE, FALSE),
   App({"send"}, {w1, w2}, TRUE, FALSE)}

LiveApplications ==
  {App({"recv"}, {r1, r2}, FALSE, TRUE),
   App({"send", "unregister"}, {w1, w2}, FALSE, FALSE),
   App({"recv", "send", "clear", "timeout"}, {r1, w1}, FALSE, TRUE)}

ConcurrentApplications == {App({"send", "unregister"}, {w1}, TRUE, FALSE)}
=============================================================================
