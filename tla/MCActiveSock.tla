---------------------------- MODULE MCActiveSock ----------------------------
(* Active sockets for TLC: readers, senders and listeners, each of them     *)
(* with closes that race it.                                                *)
EXTENDS ActiveSock

Quiet == [stream |-> TRUE, whole |-> TRUE, concurrent |-> FALSE, recvfrom |-> FALSE,
          errors |-> FALSE, overlap |-> FALSE, reads |-> {}, sends |-> {}, accepts |-> {}, connects |-> {},
          closers |-> {"c1"}, bytes |-> 3]

StreamReader == [Quiet EXCEPT !.reads = {"r1"}]
FailingReader == [StreamReader EXCEPT !.errors = TRUE]
DatagramReader == [Quiet EXCEPT !.stream = FALSE, !.whole = FALSE, !.concurrent = TRUE,
                                !.errors = TRUE, !.reads = {"r1", "r2"}, !.bytes = 2]
Sender == [Quiet EXCEPT !.sends = {"s1", "s2"}, !.closers = {"c1", "c2"}]
FailingSender == [Sender EXCEPT !.errors = TRUE, !.closers = {"c1"}]
PlainSender == [FailingSender EXCEPT !.whole = FALSE, !.overlap = TRUE, !.concurrent = TRUE]
Listener == [Quiet EXCEPT !.accepts = {"a1", "a2"}, !.errors = TRUE]

(* Applications that keep to one whole-data send at a time. *)
OrderlyApps ==
  {StreamReader, FailingReader, [DatagramReader EXCEPT !.reads = {"r1"}], [DatagramReader EXCEPT !.recvfrom = TRUE],
   Sender, FailingSender, PlainSender, [PlainSender EXCEPT !.stream = FALSE],
   Listener, [Listener EXCEPT !.whole = FALSE, !.concurrent = TRUE],
   [Quiet EXCEPT !.reads = {"r1"}, !.sends = {"s1"}, !.bytes = 1],
   [Quiet EXCEPT !.connects = {"x1"}, !.sends = {"s1"}]}

(* An application that sends the next message before the last one is over. *)
OverlappingSender == {[Sender EXCEPT !.overlap = TRUE, !.closers = {}]}
=============================================================================
