----------------------------- MODULE IoqueueOps -----------------------------
(***************************************************************************)
(* Operations on one ioqueue key (ioqueue_common_abs.c over select): the    *)
(* pending lists, the bits of the key in the ioqueue's fd_sets, dispatching *)
(* by several polling threads, the callbacks, which run without the key's   *)
(* lock (PJ_IOQUEUE_CALLBACK_NO_LOCK) and call back into the key, and       *)
(* unregistration with its drain of pending writes.                         *)
(*                                                                         *)
(* A section under the key's lock is one step.  A thread is a stack of      *)
(* frames: the function it is in on top, the callers below.                 *)
(***************************************************************************)
EXTENDS Integers, FiniteSets, Sequences, SequencesExt

CONSTANTS Threads, NULL,
          ReadOps, WriteOps, AcceptOps,  \* the operation keys of the application
          Applications,      \* see app
          WriteSize,         \* size of a write
          MaxData,           \* bound: messages (or connections) in the socket
          MaxDepth           \* bound: frames of one thread

Ops == ReadOps \cup WriteOps \cup AcceptOps
Bits == {"R", "W", "X"}

ASSUME OpsAssumption == /\ NULL \notin Threads
                        /\ ReadOps \cap WriteOps = {}
                        /\ AcceptOps \cap (ReadOps \cup WriteOps) = {}
                        /\ \A a \in Applications :
                             a.ops \subseteq Ops /\ {a.allow_concurrent, a.datagram} \subseteq BOOLEAN
                        /\ WriteSize \in Nat \ {0}

VARIABLES app,        \* [calls, ops, allow_concurrent, datagram]: which functions the
                      \* application calls with which operations, on what kind of key
          list,       \* list["R"], ["W"], ["A"]: read_list, write_list, accept_list
          cb_list,    \* read_cb_list and write_cb_list
          cb_thread,  \* read_callback_thread and write_callback_thread
          op,         \* op[o]: the operation key's op is not PJ_IOQUEUE_OP_NONE
          written,    \* written[o]: bytes of a write that were sent
          fdset,      \* the key's bits in rfdset, wfdset and xfdset
          connecting, closing,
          cb,         \* the callbacks are set (cleared by unregistration)
          lock,       \* who keeps the key's lock during a callback, or NULL
          stack,      \* stack[t]: the frames of t
          sock,       \* [rd, wr, conn]: what the socket is ready for
          owed,       \* history: operations that returned PJ_EPENDING, still without callback
          twice       \* history: operations called back when nothing was owed

kvars == <<app, list, cb_list, cb_thread, op, written, fdset, connecting, closing, cb, lock>>
vars == <<kvars, stack, sock, owed, twice>>

(* ioqueue_init_key. *)
Init == /\ app \in Applications
        /\ list = [d \in {"R", "W", "A"} |-> <<>>]
        /\ cb_list = [d \in {"R", "W"} |-> <<>>]
        /\ cb_thread = [d \in {"R", "W"} |-> NULL]
        /\ op = [o \in Ops |-> FALSE]
        /\ written = [o \in WriteOps |-> 0]
        /\ fdset = {}
        /\ connecting = FALSE /\ closing = FALSE /\ cb = TRUE
        /\ lock = NULL
        /\ stack = [t \in Threads |-> <<>>]
        /\ sock = [rd |-> 0, wr |-> FALSE, conn |-> FALSE]
        /\ owed = {} /\ twice = {}
-----------------------------------------------------------------------------
(* Frames. *)
PollFrame(events)  == [in |-> "poll", events |-> events]
SelectFrame(bits)  == [in |-> "select", bits |-> bits]
DeliverFrame(d, o) == [in |-> "deliver", d |-> d, o |-> o]
CallbackFrame(d, o) == [in |-> "callback", d |-> d, o |-> o]
DrainFrame(d)      == [in |-> "drain", d |-> d]
UnregFrame(at)     == [in |-> "unregister", at |-> at]
ClearFrame(d)      == [in |-> "clear", d |-> d]

In(t, f) == stack[t] # <<>> /\ stack[t][1].in = f
Top(t) == stack[t][1]
Goto(t, frames) == stack' = [stack EXCEPT ![t] = frames \o Tail(@)]
Call(t, frame) == stack' = [stack EXCEPT ![t] = <<frame>> \o @]

(* pj_ioqueue_lock_key succeeds: the lock is recursive. *)
Lockable(t) == lock \in {NULL, t}

(* What the application sees of a completion. *)
Complete(o) == /\ owed' = owed \ {o}
               /\ twice' = IF o \in owed THEN twice ELSE twice \cup {o}
Unobserved == UNCHANGED <<owed, twice>>

(* Mutant: the bit goes with the first operation that completes. *)
DropBitAlways(b, l) == fdset \ {b}

(* A bit is cleared with the last pending operation. *)
DropBit(b, l) == IF l = <<>> THEN fdset \ {b} ELSE fdset
-----------------------------------------------------------------------------
(* The application's calls, from outside or from a callback. *)
MayCall(t, what) == /\ what \in app.calls
                    /\ stack[t] = <<>> \/ In(t, "callback")
                    /\ Len(stack[t]) < MaxDepth

(* It passes an operation key that has nothing pending and no callback due. *)
MaySubmit(t, what, o) == MayCall(t, what) /\ o \in app.ops /\ ~op[o] /\ o \notin owed

(* Queued under the lock, after closing was checked again: PJ_EPENDING. *)
Submit(t, o, d, bit) ==
  /\ ~closing /\ Lockable(t)
  /\ op' = [op EXCEPT ![o] = TRUE]
  /\ list' = [list EXCEPT ![d] = Append(@, o)]
  /\ fdset' = fdset \cup {bit}
  /\ owed' = owed \cup {o}
  /\ UNCHANGED <<app, cb_list, cb_thread, connecting, closing, cb, lock, stack, twice>>

pj_ioqueue_recv(t, o) ==
  \/ /\ MaySubmit(t, "recv", o) /\ Submit(t, o, "R", "R")
     /\ UNCHANGED <<written, sock>>
  \/ /\ MaySubmit(t, "recv", o) /\ ~closing /\ sock.rd > 0      \* PJ_SUCCESS
     /\ sock' = [sock EXCEPT !.rd = @ - 1]
     /\ UNCHANGED <<kvars, stack, owed, twice>>

pj_ioqueue_accept(t, o) ==
  \/ /\ MaySubmit(t, "accept", o) /\ Submit(t, o, "A", "R")
     /\ UNCHANGED <<written, sock>>
  \/ /\ MaySubmit(t, "accept", o) /\ ~closing                   \* PJ_SUCCESS
     /\ list["A"] = <<>> /\ sock.rd > 0
     /\ sock' = [sock EXCEPT !.rd = @ - 1]
     /\ UNCHANGED <<kvars, stack, owed, twice>>

(* Data sent at once (the fast track) leaves the key alone. *)
pj_ioqueue_send(t, o) == /\ MaySubmit(t, "send", o) /\ Submit(t, o, "W", "W")
                         /\ ~connecting \/ "early" \in app.calls
                         /\ written' = [written EXCEPT ![o] = 0]
                         /\ UNCHANGED sock

pj_ioqueue_connect(t) ==
  /\ MayCall(t, "connect") /\ ~closing /\ ~connecting /\ ~sock.conn /\ Lockable(t)
  /\ list["W"] = <<>> \/ "early" \in app.calls
  /\ connecting' = TRUE
  /\ fdset' = fdset \cup {"W", "X"}
  /\ sock' = [sock EXCEPT !.wr = FALSE]
  /\ UNCHANGED <<app, list, cb_list, cb_thread, op, written, closing, cb, lock, stack,
                 owed, twice>>

(* An accept leaves its bit set. *)
PostedBits(d) == IF d = "A" THEN fdset ELSE fdset \ {d}

Unlinked(d, o) == SelectSeq(list[d], LAMBDA p : p # o)

(* Takes the operation out of whichever list it is in and calls back.  The *)
(* bit goes with it, also when other operations wait for it.               *)
pj_ioqueue_post_completion(t, o) ==
  /\ MayCall(t, "post") /\ Lockable(t)
  /\ \E d \in {"R", "W", "A"} :
       /\ o \in Range(list[d])
       /\ list' = [list EXCEPT ![d] = Unlinked(d, o)]
       /\ fdset' = PostedBits(d)
       /\ op' = [op EXCEPT ![o] = FALSE]
       /\ IF cb THEN Call(t, CallbackFrame("posted", o)) /\ Complete(o)
                ELSE UNCHANGED stack /\ Unobserved
  /\ UNCHANGED <<app, cb_list, cb_thread, written, connecting, closing, cb, lock, sock>>

(* PJ_EINVALIDOP, but a pending connect is cancelled. *)
PostCancelsConnect(t, o) ==
  /\ MayCall(t, "post") /\ Lockable(t)
  /\ \A d \in {"R", "W", "A"} : o \notin Range(list[d])
  /\ connecting
  /\ connecting' = FALSE
  /\ fdset' = fdset \ {"W", "X"}
  /\ UNCHANGED <<app, list, cb_list, cb_thread, op, written, closing, cb, lock, stack, sock,
                 owed, twice>>
-----------------------------------------------------------------------------
(* pj_ioqueue_poll: the fd_sets are copied, select() waits on the copies,   *)
(* and the key's events are collected from what it returns.                 *)
PollCopy(t) == /\ stack[t] = <<>> /\ fdset # {}
               /\ Call(t, SelectFrame(fdset))
               /\ UNCHANGED <<kvars, sock, owed, twice>>

Pending(b) == CASE b = "R" -> list["R"] # <<>> \/ list["A"] # <<>>
                [] b = "W" -> list["W"] # <<>> \/ connecting
                [] b = "X" -> connecting

Ready(b) == CASE b = "R" -> sock.rd > 0
              [] b = "W" -> sock.wr
              [] b = "X" -> sock.conn

(* A failed connect is reported as writable, as an exception or as both. *)
PollScan(t) ==
  /\ In(t, "select")
  /\ LET ready == {b \in Top(t).bits : Ready(b)} IN
     /\ ready # {}
     /\ \E s \in {ready, ready \ {"X"}} :
          Goto(t, <<PollFrame(SelectSeq(<<"W", "R", "X">>,
                                LAMBDA b : b \in s /\ Pending(b) /\ ~closing))>>)
  /\ UNCHANGED <<kvars, sock, owed, twice>>

(* select() returns on timeout, or because the socket was closed. *)
PollTimeout(t) == /\ In(t, "select")
                  /\ closing \/ \A b \in Top(t).bits : ~Ready(b)
                  /\ Goto(t, <<>>)
                  /\ UNCHANGED <<kvars, sock, owed, twice>>

PollDone(t) == /\ In(t, "poll") /\ Top(t).events = <<>>
               /\ Goto(t, <<>>)
               /\ UNCHANGED <<kvars, sock, owed, twice>>

AtEvent(t, b) == In(t, "poll") /\ Top(t).events # <<>> /\ Top(t).events[1] = b
NextEvent(t, frames) == Goto(t, frames \o <<PollFrame(Tail(Top(t).events))>>)

(* pj_ioqueue_trylock_key fails: another thread is in a locked section. *)
DispatchBusy(t) == /\ In(t, "poll") /\ Top(t).events # <<>>
                   /\ lock # t
                   /\ NextEvent(t, <<>>)
                   /\ UNCHANGED <<kvars, sock, owed, twice>>

(* The key is closing, or another thread has served the event. *)
DispatchNothing(t, b) == /\ AtEvent(t, b) /\ Lockable(t)
                         /\ closing \/ ~Pending(b)
                         /\ NextEvent(t, <<>>)
                         /\ UNCHANGED <<kvars, sock, owed, twice>>

ConnectedBits == fdset \ {"W", "X"}

(* Connected, or failed, seen as writable or as an exception.  Without      *)
(* concurrency the lock is kept during the callback of the latter.          *)
DispatchConnect(t, b) ==
  /\ AtEvent(t, b) /\ b \in {"W", "X"} /\ Lockable(t) /\ ~closing /\ connecting
  /\ connecting' = FALSE
  /\ fdset' = ConnectedBits
  /\ lock' = IF b = "X" /\ ~app.allow_concurrent THEN t ELSE lock
  /\ NextEvent(t, <<DeliverFrame("C", NULL)>>)
  /\ UNCHANGED <<app, list, cb_list, cb_thread, op, written, closing, cb, sock, owed, twice>>

(* Mutant: the key is unlocked before on_accept_complete. *)
AcceptUnlocks(t) == lock
LockKept(t) == IF app.allow_concurrent THEN lock ELSE t

DispatchAccept(t) ==
  LET o == list["A"][1] IN
  /\ AtEvent(t, "R") /\ Lockable(t) /\ ~closing /\ list["A"] # <<>>
  /\ list' = [list EXCEPT !["A"] = Tail(@)]
  /\ fdset' = DropBit("R", Tail(list["A"]))
  /\ op' = [op EXCEPT ![o] = FALSE]
  /\ lock' = LockKept(t)
  /\ sock' = [sock EXCEPT !.rd = IF @ = 0 THEN 0 ELSE @ - 1]
  /\ NextEvent(t, <<DeliverFrame("A", o)>>)
  /\ UNCHANGED <<app, cb_list, cb_thread, written, connecting, closing, cb, owed, twice>>

(* The completed operation goes to this thread's callback, or, without      *)
(* concurrency, behind the callback another thread is in.                   *)
Completed(t, d, o) ==
  IF ~app.allow_concurrent /\ cb_thread[d] # NULL
  THEN /\ cb_list' = [cb_list EXCEPT ![d] = Append(@, o)]
       /\ NextEvent(t, <<>>)
       /\ UNCHANGED cb_thread
  ELSE /\ cb_thread' = IF app.allow_concurrent THEN cb_thread ELSE [cb_thread EXCEPT ![d] = t]
       /\ NextEvent(t, <<DeliverFrame(d, o), DrainFrame(d)>>)
       /\ UNCHANGED cb_list

(* Without data in the socket, recv() fails, and that is reported as well. *)
ioqueue_dispatch_read_event(t) ==
  LET o == list["R"][1] IN
  /\ AtEvent(t, "R") /\ Lockable(t) /\ ~closing
  /\ list["A"] = <<>> /\ list["R"] # <<>>
  /\ list' = [list EXCEPT !["R"] = Tail(@)]
  /\ fdset' = DropBit("R", Tail(list["R"]))
  /\ op' = [op EXCEPT ![o] = FALSE]
  /\ sock' = [sock EXCEPT !.rd = IF @ = 0 THEN 0 ELSE @ - 1]
  /\ Completed(t, "R", o)
  /\ UNCHANGED <<app, written, connecting, closing, cb, lock, owed, twice>>

(* The write has ended: out of the list, to its callback. *)
EndWrite(t, o) ==
  /\ list' = [list EXCEPT !["W"] = Tail(@)]
  /\ fdset' = DropBit("W", Tail(list["W"]))
  /\ op' = [op EXCEPT ![o] = FALSE]
  /\ Completed(t, "W", o)

AtWrite(t) == /\ AtEvent(t, "W") /\ Lockable(t) /\ ~closing
              /\ ~connecting /\ list["W"] # <<>>

Unsent(o) == WriteSize - written[o]

(* send() takes n bytes of the first write, and may fill the socket. *)
ioqueue_dispatch_write_event(t) ==
  LET o == list["W"][1] IN
  /\ AtWrite(t) /\ sock.wr
  /\ \E n \in 1 .. Unsent(o), room \in BOOLEAN :
       /\ written' = [written EXCEPT ![o] = @ + n]
       /\ sock' = [sock EXCEPT !.wr = room]
       /\ IF app.datagram \/ written[o] + n = WriteSize
          THEN EndWrite(t, o)
          ELSE NextEvent(t, <<>>) /\ UNCHANGED <<list, fdset, op, cb_list, cb_thread>>
  /\ UNCHANGED <<app, connecting, closing, cb, lock, owed, twice>>

(* send() would block, because another thread used the room: an error. *)
WriteWouldBlock(t) ==
  LET o == list["W"][1] IN
  /\ AtWrite(t) /\ ~sock.wr
  /\ EndWrite(t, o)
  /\ UNCHANGED <<app, written, sock, connecting, closing, cb, lock, owed, twice>>
-----------------------------------------------------------------------------
(* Callbacks.  The key is unlocked, so the checks see the present state. *)
Unlocked(t) == IF lock = t THEN NULL ELSE lock

Callable(d) == IF d = "W" THEN cb ELSE cb /\ ~closing

Deliver(t) ==
  LET d == Top(t).d o == Top(t).o IN
  /\ In(t, "deliver") /\ Callable(d)
  /\ Goto(t, <<CallbackFrame(d, o)>>)
  /\ IF o = NULL THEN Unobserved ELSE Complete(o)
  /\ UNCHANGED <<kvars, sock>>

DeliverNothing(t) ==
  /\ In(t, "deliver") /\ ~Callable(Top(t).d)
  /\ Goto(t, <<>>)
  /\ lock' = IF Top(t).d \in {"A", "C"} THEN Unlocked(t) ELSE lock
  /\ UNCHANGED <<app, list, cb_list, cb_thread, op, written, fdset, connecting, closing, cb, sock,
                 owed, twice>>

CallbackReturns(t) ==
  /\ In(t, "callback")
  /\ Goto(t, <<>>)
  /\ lock' = IF Top(t).d \in {"A", "C"} THEN Unlocked(t) ELSE lock
  /\ UNCHANGED <<app, list, cb_list, cb_thread, op, written, fdset, connecting, closing, cb, sock,
                 owed, twice>>

(* Mutant: the queued write callbacks are dropped once the key is closing. *)
DrainableIfOpen(d) == cb_list[d] # <<>> /\ ~closing

(* Queued read callbacks are dropped once the key is closing; queued write *)
(* callbacks are not.                                                      *)
Drainable(d) == cb_list[d] # <<>> /\ (d = "W" \/ ~closing)

(* ioqueue_dispatch_read_event_no_lock, ..._write_event_no_lock. *)
DrainOne(t) ==
  LET d == Top(t).d o == cb_list[d][1] IN
  /\ In(t, "drain") /\ Lockable(t) /\ Drainable(d)
  /\ cb_list' = [cb_list EXCEPT ![d] = Tail(@)]
  /\ IF cb THEN Call(t, CallbackFrame(d, o)) /\ Complete(o)
           ELSE Goto(t, <<>>) /\ Unobserved
  /\ UNCHANGED <<app, list, cb_thread, op, written, fdset, connecting, closing, cb, lock, sock>>

DrainEnd(t) ==
  /\ In(t, "drain") /\ Lockable(t) /\ ~Drainable(Top(t).d)
  /\ cb_thread' = [cb_thread EXCEPT ![Top(t).d] = NULL]
  /\ Goto(t, <<>>)
  /\ UNCHANGED <<app, list, cb_list, op, written, fdset, connecting, closing, cb, lock, sock,
                 owed, twice>>
-----------------------------------------------------------------------------
(* pj_ioqueue_unregister: off the fd_sets and closed, both under the lock. *)
pj_ioqueue_unregister(t) ==
  /\ MayCall(t, "unregister") /\ Lockable(t) /\ ~closing
  /\ fdset' = {}
  /\ closing' = TRUE
  /\ Call(t, UnregFrame("drain"))
  /\ UNCHANGED <<app, list, cb_list, cb_thread, op, written, connecting, cb, lock, sock,
                 owed, twice>>

(* Mutant: the unregistering thread does not wait for the callback thread. *)
NeedNotWait(t) == TRUE

(* The write callback thread is another one: it is left to finish. *)
NoOtherInWriteCallback(t) == cb_thread["W"] \in {NULL, t}

(* ioqueue_drain_pending_writes, first the completed writes. *)
ioqueue_drain_pending_writes(t) ==
  /\ In(t, "unregister") /\ Top(t).at = "drain" /\ Lockable(t)
  /\ NoOtherInWriteCallback(t)
  /\ IF cb_thread["W"] = t /\ cb_list["W"] # <<>>
     THEN /\ cb_list' = [cb_list EXCEPT !["W"] = Tail(@)]
          /\ Call(t, CallbackFrame("W", cb_list["W"][1]))
          /\ Complete(cb_list["W"][1])
     ELSE /\ Goto(t, <<UnregFrame("walk")>>)
          /\ Unobserved /\ UNCHANGED cb_list
  /\ UNCHANGED <<app, list, cb_thread, op, written, fdset, connecting, closing, cb, lock, sock>>

(* "Timeout waiting for write callback to drain". *)
UnregisterTimeout(t) ==
  /\ In(t, "unregister") /\ Top(t).at = "drain" /\ Lockable(t)
  /\ "timeout" \in app.calls /\ cb_thread["W"] \notin {NULL, t}
  /\ Goto(t, <<UnregFrame("walk")>>)
  /\ UNCHANGED <<kvars, sock, owed, twice>>

(* Then the pending ones, cancelled, without the lock. *)
CancelPendingWrite(t) ==
  /\ In(t, "unregister") /\ Top(t).at = "walk" /\ list["W"] # <<>>
  /\ list' = [list EXCEPT !["W"] = Tail(@)]
  /\ Call(t, CallbackFrame("W", list["W"][1]))
  /\ Complete(list["W"][1])
  /\ UNCHANGED <<app, cb_list, cb_thread, op, written, fdset, connecting, closing, cb, lock, sock>>

UnregisterDone(t) ==
  /\ In(t, "unregister") /\ Top(t).at = "walk" /\ list["W"] = <<>>
  /\ cb' = FALSE
  /\ Goto(t, <<>>)
  /\ UNCHANGED <<app, list, cb_list, cb_thread, op, written, fdset, connecting, closing, lock, sock,
                 owed, twice>>
-----------------------------------------------------------------------------
(* pj_ioqueue_clear_key: every list is reset at once, then it waits for the *)
(* callbacks in progress and resets again what they queue.                  *)
BusyElsewhere(t, d) == cb_thread[d] \notin {NULL, t}

ClearStage(t, d) == CASE BusyElsewhere(t, d) -> d
                      [] ~BusyElsewhere(t, d) /\ d = "R" /\ BusyElsewhere(t, "W") -> "W"
                      [] OTHER -> "done"

(* Mutant: read_cb_list and write_cb_list are not reset. *)
KeptCallbacks == cb_list
ClearedCallbacks == [d \in {"R", "W"} |-> <<>>]

FinishClear == connecting' = FALSE /\ fdset' = {}

pj_ioqueue_clear_key(t) ==
  LET stage == ClearStage(t, "R") IN
  /\ MayCall(t, "clear") /\ Lockable(t)
  /\ list' = [d \in {"R", "W", "A"} |-> <<>>]
  /\ cb_list' = ClearedCallbacks
  /\ owed' = owed \ (UNION {Range(list[d]) : d \in DOMAIN list}
                       \cup UNION {Range(cb_list[d]) : d \in DOMAIN cb_list})
  /\ IF stage = "done" THEN FinishClear /\ UNCHANGED stack
     ELSE Call(t, ClearFrame(stage)) /\ UNCHANGED <<connecting, fdset>>
  /\ UNCHANGED <<app, cb_thread, op, written, closing, cb, lock, sock, twice>>

ClearAgain(t) ==
  LET d == Top(t).d stage == ClearStage(t, d) IN
  /\ In(t, "clear") /\ Lockable(t)
  /\ list' = [list EXCEPT ![d] = <<>>]
  /\ owed' = owed \ Range(list[d])
  /\ IF stage = "done" THEN FinishClear /\ Goto(t, <<>>)
     ELSE Goto(t, <<ClearFrame(stage)>>) /\ UNCHANGED <<connecting, fdset>>
  /\ UNCHANGED <<app, cb_list, cb_thread, op, written, closing, cb, lock, sock, twice>>

(* Mutant: clearing waits without a limit. *)
ClearWaits(t) == FALSE

(* "Timeout waiting for read callback to finish", and the same for writes. *)
ClearTimeout(t) ==
  LET d == Top(t).d IN
  /\ In(t, "clear") /\ Lockable(t) /\ "timeout" \in app.calls
  /\ list' = [list EXCEPT ![d] = <<>>]
  /\ owed' = owed \ Range(list[d])
  /\ IF d = "R" /\ BusyElsewhere(t, "W")
     THEN Goto(t, <<ClearFrame("W")>>) /\ UNCHANGED <<connecting, fdset>>
     ELSE FinishClear /\ Goto(t, <<>>)
  /\ UNCHANGED <<app, cb_list, cb_thread, op, written, closing, cb, lock, sock, twice>>

(* The application prepares a cancelled operation key for reuse. *)
pj_ioqueue_op_key_init(t, o) ==
  /\ MayCall(t, "clear") /\ op[o] /\ o \notin owed
  /\ op' = [op EXCEPT ![o] = FALSE]
  /\ UNCHANGED <<app, list, cb_list, cb_thread, written, fdset, connecting, closing, cb, lock,
                 stack, sock, owed, twice>>
-----------------------------------------------------------------------------
(* The socket. *)
Arrive == /\ sock.rd < MaxData /\ ~closing /\ app.calls \cap {"recv", "accept"} # {}
          /\ sock' = [sock EXCEPT !.rd = @ + 1]
          /\ UNCHANGED <<kvars, stack, owed, twice>>
RoomToSend == /\ ~sock.wr /\ "send" \in app.calls /\ (connecting => sock.conn)
              /\ sock' = [sock EXCEPT !.wr = TRUE]
              /\ UNCHANGED <<kvars, stack, owed, twice>>
ConnectEnds == /\ connecting /\ ~sock.conn
               /\ sock' = [sock EXCEPT !.conn = TRUE, !.wr = TRUE]
               /\ UNCHANGED <<kvars, stack, owed, twice>>

AppCall(t) == \/ \E o \in ReadOps : pj_ioqueue_recv(t, o)
              \/ \E o \in AcceptOps : pj_ioqueue_accept(t, o)
              \/ \E o \in WriteOps : pj_ioqueue_send(t, o)
              \/ pj_ioqueue_connect(t)
              \/ \E o \in Ops : \/ pj_ioqueue_post_completion(t, o)
                                 \/ PostCancelsConnect(t, o)
                                 \/ pj_ioqueue_op_key_init(t, o)
              \/ pj_ioqueue_unregister(t)
              \/ pj_ioqueue_clear_key(t)

(* What a thread does without being asked to: it goes on. *)
Dispatch(t) == \/ \E b \in Bits : DispatchNothing(t, b) \/ DispatchConnect(t, b)
               \/ DispatchAccept(t) \/ ioqueue_dispatch_read_event(t)
               \/ ioqueue_dispatch_write_event(t) \/ WriteWouldBlock(t)
Poll(t) == \/ PollCopy(t) \/ PollScan(t) \/ PollTimeout(t) \/ PollDone(t)
           \/ Deliver(t) \/ DeliverNothing(t) \/ CallbackReturns(t)
           \/ DrainOne(t) \/ DrainEnd(t)
Finish(t) == \/ ioqueue_drain_pending_writes(t) \/ UnregisterTimeout(t)
             \/ CancelPendingWrite(t) \/ UnregisterDone(t)
             \/ ClearAgain(t) \/ ClearTimeout(t)

Next == \/ \E t \in Threads : \/ AppCall(t) \/ Poll(t) \/ Dispatch(t) \/ DispatchBusy(t)
                              \/ Finish(t)
        \/ Arrive \/ RoomToSend \/ ConnectEnds

(* Threads keep polling and callbacks return.  A trylock does not fail for  *)
(* ever, and a thread that waits for the lock gets it.  The waits that  *)
(* count to 100 end.  The peer reads.                                       *)
Fairness == /\ \A t \in Threads : WF_vars(Poll(t)) /\ SF_vars(Dispatch(t)) /\ SF_vars(Finish(t))
                                /\ SF_vars(UnregisterTimeout(t)) /\ SF_vars(ClearTimeout(t))
            /\ WF_vars(RoomToSend) /\ WF_vars(ConnectEnds)

Spec == Init /\ [][Next]_vars
FairSpec == Spec /\ Fairness
-----------------------------------------------------------------------------
Clears == "clear" \in app.calls

(* No operation is called back twice, or without having been submitted. *)
CalledBackOnce == twice = {}

FramesOf(t) == Range(stack[t])
InCallback(t, d) == \E f \in FramesOf(t) : f.in = "callback" /\ f.d = d

(* Without concurrency, read callbacks never overlap, and neither do write  *)
(* or accept callbacks, however many threads poll, and none of them overlaps *)
(* the callbacks that unregistration makes for the writes it cancels.       *)
CallbacksDoNotOverlap ==
  ~app.allow_concurrent /\ "timeout" \notin app.calls =>
    \A d \in {"R", "W", "A"}, t, u \in Threads : InCallback(t, d) /\ InCallback(u, d) => t = u

(* Once unregistration has cleared the callbacks, no write is left without *)
(* its on_write_complete, unless its wait timed out.                       *)
WritesAnswered == ~cb /\ "timeout" \notin app.calls => owed \cap WriteOps = {}

(* A pending read is served once there is data for it. *)
ReadsServed == \A o \in ReadOps :
  o \in owed /\ sock.rd > 0 /\ ~Clears ~> o \notin owed \/ sock.rd = 0 \/ closing

(* A write that was queued is called back in the end. *)
WritesEnd == \A o \in WriteOps : o \in owed /\ ~Clears ~> o \notin owed

(* pj_ioqueue_clear_key and pj_ioqueue_unregister return, also when two     *)
(* threads wait for each other's callbacks.                                 *)
CallsReturn == \A t \in Threads :
  In(t, "clear") \/ In(t, "unregister") ~> In(t, "callback") \/ stack[t] = <<>>
=============================================================================
