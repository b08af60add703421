----------------------------- MODULE ActiveSock -----------------------------
(* Active sockets: src/pjproject/pjlib/src/pj/activesock.c.                 *)
(*                                                                          *)
(* One active socket over its ioqueue key.  The handlers of activesock.c    *)
(* (ioqueue_on_read_complete, ...) are cut at every call they make: a       *)
(* callback of the application, an operation on the key, a test of          *)
(* asock->shutdown.  at[o] is where the handler, or the call, that works on *)
(* operation o has got to.  Below it is the key as module IoqueueOps has it,*)
(* reduced to what a caller sees: an operation is answered at once, or it   *)
(* becomes pending and is completed later, one completion at a time when    *)
(* concurrency is off; a closing key answers PJ_ECANCELLED.                 *)
EXTENDS Integers, Sequences, FiniteSets, Functions

CONSTANTS ReadOps,     \* asock->read_op[], at most async_count of them used
          SendOps,     \* send_key of the application, one message each
          AcceptOps,   \* asock->accept_op[]
          ConnectOps,  \* the connect() of the key
          Closers,     \* threads that call pj_activesock_close
          MaxSize,     \* buff_size, and max_size of a read_op
          MsgLen,      \* bytes of one message
          MaxLoop,     \* PJ_ACTIVESOCK_MAX_LOOP
          MaxErrors,   \* PJ_ACTIVESOCK_MAX_CONSECUTIVE_ACCEPT_ERROR
          MaxConns,    \* bound: connections that arrive
          Apps         \* what the application does with the socket

ASSUME ActiveSockAssumption ==
  /\ ReadOps \cap (SendOps \cup AcceptOps \cup ConnectOps) = {}
  /\ SendOps \cap (AcceptOps \cup ConnectOps) = {} /\ AcceptOps \cap ConnectOps = {}
  /\ {MaxSize, MsgLen, MaxLoop, MaxErrors} \subseteq Nat \ {0}
  /\ MaxConns \in Nat
  /\ IsFiniteSet(AcceptOps)          \* asock->accept_op[0 .. async_count - 1]
  /\ \A a \in Apps :
       /\ {a.stream, a.whole, a.concurrent, a.recvfrom, a.errors, a.overlap} \subseteq BOOLEAN
       /\ a.bytes \in Nat            \* bound: bytes, or datagrams, that the peer sends
       /\ a.reads \subseteq ReadOps /\ a.sends \subseteq SendOps
       /\ a.accepts \subseteq AcceptOps /\ a.connects \subseteq ConnectOps
       /\ a.closers \subseteq Closers
       \* pj_activesock_create: whole_data turns concurrency off
       /\ a.whole => ~a.concurrent

Ops == ReadOps \cup SendOps \cup AcceptOps \cup ConnectOps

ERR == -1       \* an error other than the next ones
AGAIN == -2     \* EWOULDBLOCK, EINPROGRESS; for datagrams also ECONNRESET
PENDING == -3   \* PJ_EPENDING
EINVAL == -4    \* PJ_EINVAL: asock->key is NULL
CANCELLED == -5 \* PJ_ECANCELLED
SUCCESS == 0    \* PJ_SUCCESS of pj_ioqueue_accept

VARIABLES
  app,          \* the application
  shutdown,     \* asock->shutdown # SHUT_NONE
  key,          \* asock->key # NULL
  closing,      \* key->closing: the key is unregistered
  closer,       \* where each pj_activesock_close is
  at,           \* where the call or the handler of each operation is
  res,          \* bytes_read, bytes_sent or status in that handler
  size,         \* r->size
  pkt,          \* r->pkt: the numbers of the bytes in the buffer
  loop,         \* loop of ioqueue_on_read_complete
  net,          \* the peer: bytes arrived, bytes taken by recv(), hung up
  write_list,   \* key->write_list
  req,          \* what a pending write still has to send
  send_data,    \* asock->send_data
  asd,          \* send_key->activesock_data # NULL
  wire,         \* the bytes sent, as <<message, position>>
  err_counter, last_err,
  conns,        \* connections: waiting, and what became of the accepted ones
  consumed,     \* history: the bytes the application took, in order
  late,         \* history: read callbacks begun on a closing key
  eofs,         \* history: PJ_EEOF reported, with room left, before the peer hung up
  outcome,      \* history: what pj_activesock_send returned
  answers,      \* history: on_data_sent calls of each send
  unregs        \* history: calls of pj_ioqueue_unregister

keyvars == <<shutdown, key, closing, closer, unregs>>
readvars == <<size, pkt, loop, net, consumed, late, eofs>>
sendvars == <<write_list, req, send_data, asd, wire, outcome, answers>>
acceptvars == <<err_counter, last_err, conns>>
vars == <<app, keyvars, at, res, readvars, sendvars, acceptvars>>

NoReq == [of |-> "none", from |-> 0, len |-> 0, total |-> 0]
NoSendData == [of |-> "none", len |-> 0, sent |-> 0]

Init ==
  /\ app \in Apps
  /\ shutdown = FALSE /\ key = TRUE /\ closing = FALSE
  /\ closer = [c \in Closers |-> "none"]
  /\ at = [o \in Ops |-> "none"]
  /\ res = [o \in Ops |-> 0]
  /\ size = [o \in ReadOps |-> 0]
  /\ pkt = [o \in ReadOps |-> <<>>]
  /\ loop = [o \in ReadOps |-> 0]
  /\ net = [arrived |-> 0, taken |-> 0, hungup |-> FALSE]
  /\ write_list = <<>>
  /\ req = [o \in SendOps |-> NoReq]
  /\ send_data = NoSendData
  /\ asd = [o \in SendOps |-> FALSE]
  /\ wire = <<>>
  /\ err_counter = 0 /\ last_err = SUCCESS
  /\ conns = [waiting |-> 0, accepted |-> 0, handed |-> 0, closed |-> 0, leaked |-> 0]
  /\ consumed = <<>>
  /\ late = [o \in ReadOps |-> 0]
  /\ eofs = 0
  /\ outcome = [o \in SendOps |-> "none"]
  /\ answers = [o \in SendOps |-> 0]
  /\ unregs = 0

Go(o, place) == at' = [at EXCEPT ![o] = place]
GoWith(o, place, r) == Go(o, place) /\ res' = [res EXCEPT ![o] = r]

Resting == {"none", "pending", "done", "stopped", "failed", "dropped"}
Calling == {"send", "store", "resend"}          \* inside pj_activesock_send
InHandler(o) == at[o] \notin Resting \cup Calling
(* Past the queue of completed operations: the handler has been called. *)
Running(o) == InHandler(o) /\ at[o] # "entry"

(* Without concurrency one handler at a time is called for each direction. *)
MayRun(S, o) == app.concurrent \/ \A p \in S \ {o} : ~Running(p)
-----------------------------------------------------------------------------
(* Reading. *)

(* What recv() of `room' bytes can return now. *)
Received(room) ==
  LET there == net.arrived - net.taken IN
    (IF app.stream THEN {n \in 1 .. room : n <= there} ELSE {n \in {1} : n <= there})
    \cup {n \in {0} : IF app.stream THEN room = 0 \/ (net.hungup /\ there = 0) ELSE app.errors}
    \cup {n \in {ERR} : app.errors}

(* r->max_size - r->size. *)
Room(o) == MaxSize - size[o]

(* Mutant: what remained in the buffer is overwritten. *)
FillFromStart(o, n) ==
  IF n > 0 THEN /\ pkt' = [pkt EXCEPT ![o] = [i \in 1 .. size[o] + n |->
                                               IF i <= n THEN net.taken + i
                                               ELSE IF i <= size[o] THEN pkt[o][i] ELSE 0]]
                /\ net' = [net EXCEPT !.taken = @ + n]
  ELSE UNCHANGED <<pkt, net>>

(* n > 0 bytes go to r->pkt + r->size. *)
Fill(o, n) ==
  IF n > 0 THEN /\ pkt' = [pkt EXCEPT ![o] = SubSeq(@, 1, size[o])
                                             \o [i \in 1 .. n |-> net.taken + i]]
                /\ net' = [net EXCEPT !.taken = @ + n]
  ELSE UNCHANGED <<pkt, net>>

(* pj_activesock_start_read2, pj_activesock_start_recvfrom2. *)
pj_activesock_start_read(o) ==
  /\ o \in app.reads /\ at[o] = "none"
  /\ Go(o, IF key /\ ~closing THEN "pending" ELSE "done")
  /\ UNCHANGED <<app, keyvars, res, readvars, sendvars, acceptvars>>

(* The ioqueue completes a pending read; the handler is called later. *)
ReadReady(o) ==
  /\ at[o] = "pending" /\ ~closing
  /\ \E n \in Received(Room(o)) \cup {AGAIN} : GoWith(o, "entry", n) /\ Fill(o, n)
  /\ UNCHANGED <<app, keyvars, size, loop, consumed, late, eofs, sendvars, acceptvars>>

(* ioqueue_on_read_complete: ignored when the socket is shut down. *)
ioqueue_on_read_complete(o) ==
  /\ at[o] = "entry" /\ MayRun(ReadOps, o)
  /\ Go(o, IF shutdown THEN "done" ELSE "top")
  /\ UNCHANGED <<app, keyvars, res, readvars, sendvars, acceptvars>>

CallbackBegins(o) == late' = [late EXCEPT ![o] = @ + IF closing THEN 1 ELSE 0]

(* The data branch: on_data_read, on_data_recvfrom. *)
OnData(o) ==
  /\ at[o] = "top" /\ res[o] > 0
  /\ size' = [size EXCEPT ![o] = @ + res[o]]
  /\ Go(o, "data") /\ CallbackBegins(o)
  /\ UNCHANGED <<app, keyvars, res, pkt, loop, net, consumed, eofs, sendvars, acceptvars>>

(* The branch of errors and of the end of the stream. *)
OnError(o) ==
  /\ at[o] = "top" /\ res[o] \in {0, ERR}
  /\ ~(res[o] = 0 /\ app.recvfrom)
  /\ eofs' = eofs + IF res[o] = 0 /\ app.stream /\ ~net.hungup /\ Room(o) > 0 THEN 1 ELSE 0
  /\ Go(o, "error") /\ CallbackBegins(o)
  /\ UNCHANGED <<app, keyvars, res, size, pkt, loop, net, consumed, sendvars, acceptvars>>

(* An empty datagram of recvfrom() is not reported. *)
OnEmptyDatagram(o) ==
  /\ at[o] = "top" /\ res[o] = 0 /\ app.recvfrom
  /\ Go(o, IF shutdown THEN "done" ELSE "next")
  /\ size' = IF shutdown THEN size ELSE [size EXCEPT ![o] = 0]
  /\ UNCHANGED <<app, keyvars, res, pkt, loop, net, consumed, late, eofs, sendvars, acceptvars>>

(* Mutant: the handler returns on them. *)
IgnoredStops(o) ==
  /\ at[o] = "top" /\ res[o] = AGAIN
  /\ Go(o, "done")
  /\ UNCHANGED <<app, keyvars, res, readvars, sendvars, acceptvars>>

(* Errors that are ignored. *)
OnIgnored(o) ==
  /\ at[o] = "top" /\ res[o] = AGAIN
  /\ Go(o, "next")
  /\ UNCHANGED <<app, keyvars, res, readvars, sendvars, acceptvars>>

(* What a callback may leave: of a stream any part, moved to the front of   *)
(* the buffer, also one that fills it; of a datagram nothing.               *)
Remainders(o) == IF app.stream THEN 0 .. size[o] ELSE {0}

Keep(o, k) ==
  /\ consumed' = consumed \o SubSeq(pkt[o], 1, size[o] - k)
  /\ pkt' = [pkt EXCEPT ![o] = SubSeq(@, size[o] - k + 1, size[o])]
  /\ size' = [size EXCEPT ![o] = k]

(* The callback returns: PJ_FALSE when the application has closed the       *)
(* socket or no longer wants data.  Only the branch of errors looks at      *)
(* shutdown again.                                                          *)
CallbackReturns(o) ==
  /\ at[o] \in {"data", "error"}
  /\ \/ Go(o, "stopped") /\ UNCHANGED <<size, pkt, consumed>>
     \/ /\ \E k \in Remainders(o) : Keep(o, k)
        /\ Go(o, IF at[o] = "error" /\ shutdown THEN "done" ELSE "next")
  /\ UNCHANGED <<app, keyvars, res, loop, net, late, eofs, sendvars, acceptvars>>

(* Mutant: a closing key still reads. *)
ReadsUntilFreed(o) == FALSE

(* PJ_IOQUEUE_ALWAYS_ASYNC after max_loop immediate reads. *)
ForcedAsync(o) == loop[o] + 1 >= MaxLoop

(* pj_ioqueue_recv on the key that was passed to the handler. *)
RecvCancelled(o) == closing

(* recv() finds nothing. *)
WouldBlock(o) == \/ Received(Room(o)) \subseteq {ERR}
                 \/ ~app.stream /\ net.arrived = net.taken

ReadNext(o) ==
  /\ at[o] = "next"
  /\ \/ RecvCancelled(o) /\ Go(o, "done") /\ UNCHANGED <<res, pkt, net, loop>>
     \/ /\ ~RecvCancelled(o)
        /\ \/ /\ ForcedAsync(o) \/ WouldBlock(o)
              /\ Go(o, "pending") /\ loop' = [loop EXCEPT ![o] = 0]
              /\ UNCHANGED <<res, pkt, net>>
           \/ /\ ~ForcedAsync(o)
              /\ loop' = [loop EXCEPT ![o] = @ + 1]
              /\ \E n \in Received(Room(o)) : GoWith(o, "top", n) /\ Fill(o, n)
  /\ UNCHANGED <<app, keyvars, size, consumed, late, eofs, sendvars, acceptvars>>
-----------------------------------------------------------------------------
(* Sending. *)

(* pj_ioqueue_send of bytes from+1 .. from+len of message m, with result r. *)
IoqSend(o, m, from, len, r) ==
  /\ CASE ~key \/ closing -> r = ERR
       [] key /\ ~closing /\ write_list # <<>> -> r = PENDING
       [] OTHER -> \/ r = PENDING                       \* EWOULDBLOCK
                   \/ r = ERR /\ (app.errors \/ len < 0)
                   \/ r \in 0 .. len /\ (len > 0 => r > 0)
  /\ IF r = PENDING
     THEN /\ write_list' = Append(write_list, o)
          /\ req' = [req EXCEPT ![o] = [of |-> m, from |-> from, len |-> len, total |-> len]]
     ELSE UNCHANGED <<write_list, req>>
  /\ wire' = wire \o [i \in 1 .. r |-> <<m, from + i>>]

Results == {PENDING, ERR} \cup 0 .. MsgLen

Return(o, what) == outcome' = [outcome EXCEPT ![o] = what]

(* The application starts a send: after the last one is over, unless it is  *)
(* one that lets sends overlap.                                             *)
MaySend(o) ==
  /\ o \in app.sends /\ at[o] = "none"
  /\ \A p \in SendOps \ {o} : IF app.overlap THEN at[p] \notin Calling ELSE at[p] \in Resting \ {"pending"}

(* pj_activesock_send, up to the first pj_ioqueue_send. *)
pj_activesock_send(o) ==
  /\ MaySend(o)
  /\ IF shutdown THEN Go(o, "done") /\ Return(o, "error") /\ UNCHANGED asd
     ELSE Go(o, "send") /\ asd' = [asd EXCEPT ![o] = FALSE] /\ UNCHANGED outcome
  /\ UNCHANGED <<app, keyvars, res, readvars, write_list, req, send_data, wire, answers,
                 acceptvars>>

SendFirst(o) ==
  /\ at[o] = "send"
  /\ \E r \in Results :
       /\ IoqSend(o, o, 0, MsgLen, r)
       /\ CASE r = PENDING -> GoWith(o, "pending", 0) /\ Return(o, "pending")
            [] r = ERR -> GoWith(o, "done", 0) /\ Return(o, "error")
            [] r = MsgLen \/ (r >= 0 /\ ~app.whole) -> GoWith(o, "done", r) /\ Return(o, "success")
            [] OTHER -> GoWith(o, "store", r) /\ UNCHANGED outcome
  /\ UNCHANGED <<app, keyvars, readvars, send_data, asd, answers, acceptvars>>

(* "Data was partially sent": there is one asock->send_data. *)
StoreSendData(o) ==
  /\ at[o] = "store"
  /\ send_data' = [of |-> o, len |-> MsgLen, sent |-> res[o]]
  /\ asd' = [asd EXCEPT ![o] = TRUE]
  /\ Go(o, "resend")
  /\ UNCHANGED <<app, keyvars, res, readvars, write_list, req, wire, outcome, answers, acceptvars>>

(* Mutant: the rest is sent from the start of the data again. *)
RestFromStart == 0
(* sd->data + sd->sent. *)
RestFrom == send_data.sent

(* One turn of send_remaining, for the send or for the completion handler. *)
send_remaining(o) ==
  /\ at[o] \in {"resend", "again"}
  /\ \E r \in Results :
       LET sent == send_data.sent + (IF r > 0 THEN r ELSE 0)
           over == r >= 0 /\ sent >= send_data.len
       IN /\ IoqSend(o, send_data.of, RestFrom, send_data.len - send_data.sent, r)
          /\ send_data' = [send_data EXCEPT !.sent = sent]
          /\ CASE r = PENDING -> GoWith(o, "pending", 0)
               [] r = ERR -> GoWith(o, IF at[o] = "again" THEN "answer" ELSE "done", ERR)
               [] over -> GoWith(o, IF at[o] = "again" THEN "answer" ELSE "done", sent)
               [] OTHER -> UNCHANGED <<at, res>>
          /\ IF at[o] = "resend" /\ (r < 0 \/ over)
             THEN Return(o, CASE r = PENDING -> "pending" [] r = ERR -> "error" [] OTHER -> "success")
             ELSE UNCHANGED outcome
          /\ asd' = [asd EXCEPT ![o] = @ /\ ~(at[o] = "again" /\ (r = ERR \/ over))]
  /\ UNCHANGED <<app, keyvars, readvars, answers, acceptvars>>

(* The ioqueue sends some of the first pending write.  On a stream the rest *)
(* of it stays pending; the handler is called when all of it is sent.       *)
WriteReady(o) ==
  /\ write_list # <<>> /\ o = Head(write_list) /\ ~closing
  /\ \/ \E n \in 1 .. req[o].len :
          LET more == app.stream /\ n < req[o].len IN
          /\ wire' = wire \o [i \in 1 .. n |-> <<req[o].of, req[o].from + i>>]
          /\ req' = [req EXCEPT ![o].from = @ + n, ![o].len = @ - n]
          /\ write_list' = IF more THEN write_list ELSE Tail(write_list)
          /\ IF more THEN UNCHANGED <<at, res>>
                     ELSE GoWith(o, "entry", req[o].total - (req[o].len - n))
     \/ /\ app.errors
        /\ write_list' = Tail(write_list)
        /\ GoWith(o, "entry", ERR)
        /\ UNCHANGED <<wire, req>>
  /\ UNCHANGED <<app, keyvars, readvars, send_data, asd, outcome, answers, acceptvars>>

(* key->cb of an unregistered key is cleared after the drain.  The test of  *)
(* it and that of shutdown are one step here: shutdown comes first.         *)
CallbacksCleared == closing /\ \A c \in Closers : closer[c] # "drain"

(* With concurrency the drain does not wait for a thread that has taken a   *)
(* completed write off the list and not yet called its handler.             *)
WriteNotCalled(o) ==
  /\ at[o] = "entry" /\ MayRun(SendOps, o) /\ CallbacksCleared
  /\ Go(o, "dropped")
  /\ UNCHANGED <<app, keyvars, res, readvars, sendvars, acceptvars>>

(* Mutant: the handler of a socket that is shut down just returns. *)
SilentWhenShut(o) ==
  /\ at[o] = "entry" /\ MayRun(SendOps, o) /\ ~CallbacksCleared
  /\ Go(o, IF shutdown THEN "done" ELSE "count")
  /\ UNCHANGED <<app, keyvars, res, readvars, sendvars, acceptvars>>

(* ioqueue_on_write_complete: a socket that is shut down still reports. *)
ioqueue_on_write_complete(o) ==
  /\ at[o] = "entry" /\ MayRun(SendOps, o) /\ ~CallbacksCleared
  /\ Go(o, IF shutdown THEN "answer" ELSE "count")
  /\ UNCHANGED <<app, keyvars, res, readvars, sendvars, acceptvars>>

(* sd->sent += bytes_sent, when whole_data is requested. *)
CountSent(o) ==
  LET sent == send_data.sent + res[o] IN
  /\ at[o] = "count"
  /\ IF res[o] > 0 /\ asd[o]
     THEN /\ send_data' = [send_data EXCEPT !.sent = sent]
          /\ IF sent = send_data.len
             THEN GoWith(o, "answer", sent) /\ asd' = [asd EXCEPT ![o] = FALSE]
             ELSE Go(o, "again") /\ UNCHANGED <<res, asd>>
     ELSE Go(o, "answer") /\ UNCHANGED <<res, send_data, asd>>
  /\ UNCHANGED <<app, keyvars, readvars, write_list, req, wire, outcome, answers, acceptvars>>

(* on_data_sent. *)
OnDataSent(o) ==
  /\ at[o] \in {"answer", "cancelled"}
  /\ answers' = [answers EXCEPT ![o] = @ + 1]
  /\ Go(o, "done")
  /\ UNCHANGED <<app, keyvars, res, readvars, write_list, req, send_data, asd, wire, outcome,
                 acceptvars>>
-----------------------------------------------------------------------------
(* Closing. *)

(* An accept handler without concurrency holds the key's lock.  The lock is *)
(* recursive: the callback it is in may close the socket.                   *)
KeyLockFree == app.concurrent \/ \A o \in AcceptOps : at[o] \in Resting \cup {"callback"}

pj_activesock_close(c) ==
  /\ c \in app.closers /\ closer[c] = "none"
  /\ shutdown' = TRUE
  /\ closer' = [closer EXCEPT ![c] = IF key THEN "take" ELSE "done"]
  /\ UNCHANGED <<app, key, closing, unregs, at, res, readvars, sendvars, acceptvars>>

(* Mutant: asock->key is not looked at again under the lock. *)
TakeKeyUnchecked(c) ==
  /\ closer[c] = "take" /\ KeyLockFree
  /\ closer' = [closer EXCEPT ![c] = "unregister"]
  /\ key' = FALSE
  /\ UNCHANGED <<app, shutdown, closing, unregs, at, res, readvars, sendvars, acceptvars>>

(* Under the lock of the key: who finds asock->key unregisters it. *)
TakeKey(c) ==
  /\ closer[c] = "take" /\ KeyLockFree
  /\ closer' = [closer EXCEPT ![c] = IF key THEN "unregister" ELSE "done"]
  /\ key' = FALSE
  /\ UNCHANGED <<app, shutdown, closing, unregs, at, res, readvars, sendvars, acceptvars>>

(* pj_ioqueue_unregister: pending reads and accepts are forgotten, ... *)
Unregister(c) ==
  /\ closer[c] = "unregister" /\ KeyLockFree
  /\ closing' = TRUE
  /\ unregs' = unregs + 1
  /\ closer' = [closer EXCEPT ![c] = "drain"]
  /\ at' = [o \in Ops |-> IF at[o] = "pending" /\ o \notin SendOps THEN "done" ELSE at[o]]
  /\ UNCHANGED <<app, shutdown, key, res, readvars, sendvars, acceptvars>>

(* The handler that the drain itself called has returned; without           *)
(* concurrency, those of other threads too.                                 *)
WriteHandlersDone == \A o \in SendOps : IF app.concurrent THEN at[o] # "cancelled" ELSE ~InHandler(o)

(* Mutant: the pending writes are dropped, as the reads are. *)
DropWrites(c) ==
  /\ closer[c] = "drain" /\ WriteHandlersDone /\ write_list # <<>>
  /\ write_list' = <<>>
  /\ at' = [o \in Ops |-> IF o \in Range(write_list) THEN "done" ELSE at[o]]
  /\ UNCHANGED <<app, keyvars, res, readvars, req, send_data, asd, wire, outcome, answers,
                 acceptvars>>

(* ... pending writes are completed with PJ_ECANCELLED by the closing       *)
(* thread, whose handler finds shutdown and reports.                        *)
CancelWrite(c) ==
  /\ closer[c] = "drain" /\ WriteHandlersDone /\ write_list # <<>>
  /\ write_list' = Tail(write_list)
  /\ GoWith(Head(write_list), "cancelled", ERR)
  /\ UNCHANGED <<app, keyvars, readvars, req, send_data, asd, wire, outcome, answers, acceptvars>>

CloseReturns(c) ==
  /\ closer[c] = "drain" /\ WriteHandlersDone /\ write_list = <<>>
  /\ closer' = [closer EXCEPT ![c] = "done"]
  /\ UNCHANGED <<app, shutdown, key, closing, unregs, at, res, readvars, sendvars, acceptvars>>
-----------------------------------------------------------------------------
(* Accepting. *)

AcceptErrors == {s \in {ERR} : app.errors}
Accepted == {s \in {SUCCESS} : conns.waiting > 0}

Accept(s) == conns' = IF s = SUCCESS THEN [conns EXCEPT !.waiting = @ - 1, !.accepted = @ + 1]
                                  ELSE conns

(* The results of pj_ioqueue_accept on asock->key; it does not try at once  *)
(* when another accept is pending.                                          *)
IoqAccept(o) ==
  CASE ~key -> {EINVAL}
    [] key /\ closing -> {CANCELLED}
    [] OTHER -> IF \E p \in AcceptOps \ {o} : at[p] = "pending" THEN {PENDING}
                ELSE IF Accepted = {} THEN {PENDING} \cup AcceptErrors ELSE Accepted \cup AcceptErrors

(* pj_activesock_start_accept tests shutdown before its first accept only,  *)
(* closes a connection that is already there, and ends at an error.         *)
FirstAccept == conns.closed = 0 /\ \A p \in AcceptOps : at[p] = "none"

pj_activesock_start_accept(o) ==
  /\ o \in app.accepts /\ at[o] = "none"
  /\ \A p \in AcceptOps : at[p] # "failed"
  /\ IF shutdown /\ FirstAccept THEN Go(o, "failed") /\ UNCHANGED conns
     ELSE \E s \in IoqAccept(o) :
            CASE s = SUCCESS -> /\ conns' = [conns EXCEPT !.waiting = @ - 1, !.accepted = @ + 1,
                                                       !.closed = @ + 1]
                             /\ UNCHANGED at
              [] s = PENDING -> Go(o, "pending") /\ UNCHANGED conns
              [] OTHER -> Go(o, "failed") /\ UNCHANGED conns
  /\ UNCHANGED <<app, keyvars, res, readvars, sendvars, err_counter, last_err>>

(* The ioqueue completes a pending accept. *)
AcceptReady(o) ==
  /\ at[o] = "pending" /\ ~closing /\ MayRun(AcceptOps, o) /\ KeyLockFree
  /\ \E s \in Accepted \cup AcceptErrors : GoWith(o, "accepted", s) /\ Accept(s)
  /\ UNCHANGED <<app, keyvars, readvars, sendvars, err_counter, last_err>>

(* ioqueue_on_accept_complete: what was accepted is ignored when the socket *)
(* is shut down; nobody closes the connection.                              *)
ioqueue_on_accept_complete(o) ==
  /\ at[o] = "accepted"
  /\ Go(o, IF shutdown THEN "done" ELSE "judge")
  /\ conns' = [conns EXCEPT !.leaked = @ + IF shutdown /\ res[o] = SUCCESS THEN 1 ELSE 0]
  /\ UNCHANGED <<app, keyvars, res, readvars, sendvars, err_counter, last_err>>

(* status == asock->last_err && status != PJ_SUCCESS. *)
Repeats(o) == res[o] = last_err /\ res[o] # SUCCESS

(* Mutant: shutdown is looked at here, with a connection in hand. *)
JudgeOpenOnly(o) ==
  /\ at[o] = "judge"
  /\ IF Repeats(o) THEN err_counter' = err_counter + 1 /\ UNCHANGED last_err
                   ELSE err_counter' = 0 /\ last_err' = res[o]
  /\ conns' = [conns EXCEPT !.handed = @ + IF res[o] = SUCCESS /\ ~shutdown THEN 1 ELSE 0]
  /\ Go(o, CASE shutdown \/ (Repeats(o) /\ err_counter' >= MaxErrors) -> "done"
             [] res[o] = SUCCESS -> "callback"
             [] OTHER -> "check")
  /\ UNCHANGED <<app, keyvars, res, readvars, sendvars>>

(* The count of consecutive errors, and the callback of a connection. *)
Judge(o) ==
  /\ at[o] = "judge"
  /\ IF Repeats(o) THEN err_counter' = err_counter + 1 /\ UNCHANGED last_err
                   ELSE err_counter' = 0 /\ last_err' = res[o]
  /\ conns' = [conns EXCEPT !.handed = @ + IF res[o] = SUCCESS THEN 1 ELSE 0]
  /\ Go(o, CASE Repeats(o) /\ err_counter' >= MaxErrors -> "done"
             [] res[o] = SUCCESS -> "callback"
             [] OTHER -> "check")
  /\ UNCHANGED <<app, keyvars, res, readvars, sendvars>>

(* on_accept_complete returns: PJ_FALSE ends the accepts. *)
AcceptReturns(o) ==
  /\ at[o] = "callback"
  /\ Go(o, "check") \/ Go(o, "done")
  /\ UNCHANGED <<app, keyvars, res, readvars, sendvars, acceptvars>>

(* "Don't start another accept() if we've been shutdown". *)
CheckShutdown(o) ==
  /\ at[o] = "check"
  /\ Go(o, IF shutdown THEN "done" ELSE "reaccept")
  /\ UNCHANGED <<app, keyvars, res, readvars, sendvars, acceptvars>>

AcceptNext(o) ==
  /\ at[o] = "reaccept"
  /\ \E s \in IoqAccept(o) :
       /\ Accept(s)
       /\ CASE s = PENDING -> Go(o, "pending") /\ UNCHANGED res
            [] s = CANCELLED -> Go(o, "done") /\ UNCHANGED res
            [] OTHER -> GoWith(o, "judge", s)
  /\ UNCHANGED <<app, keyvars, readvars, sendvars, err_counter, last_err>>
-----------------------------------------------------------------------------
(* Connecting: pj_activesock_start_connect; the end of a pending connect(); *)
(* ioqueue_on_connect_complete and on_connect_complete.                     *)
pj_activesock_start_connect(o) ==
  /\ o \in app.connects /\ at[o] = "none"
  /\ Go(o, IF shutdown \/ ~key \/ closing THEN "done" ELSE "pending")
  /\ UNCHANGED <<app, keyvars, res, readvars, sendvars, acceptvars>>

ConnectReady(o) ==
  /\ at[o] = "pending" /\ ~closing
  /\ Go(o, "connected")
  /\ UNCHANGED <<app, keyvars, res, readvars, sendvars, acceptvars>>

ioqueue_on_connect_complete(o) ==
  /\ at[o] = "connected"
  /\ Go(o, IF shutdown THEN "done" ELSE "greet")
  /\ UNCHANGED <<app, keyvars, res, readvars, sendvars, acceptvars>>

ConnectReturns(o) ==
  /\ at[o] = "greet"
  /\ Go(o, "done")
  /\ UNCHANGED <<app, keyvars, res, readvars, sendvars, acceptvars>>
-----------------------------------------------------------------------------
(* The peer. *)
Arrive == /\ app.reads # {} /\ net.arrived < app.bytes /\ ~net.hungup
          /\ net' = [net EXCEPT !.arrived = @ + 1]
          /\ UNCHANGED <<app, keyvars, at, res, size, pkt, loop, consumed, late, eofs, sendvars,
                         acceptvars>>
HangUp == /\ app.reads # {} /\ app.stream /\ ~net.hungup
          /\ net' = [net EXCEPT !.hungup = TRUE]
          /\ UNCHANGED <<app, keyvars, at, res, size, pkt, loop, consumed, late, eofs, sendvars,
                         acceptvars>>
Connect == /\ app.accepts # {} /\ conns.waiting + conns.accepted < MaxConns
           /\ conns' = [conns EXCEPT !.waiting = @ + 1]
           /\ UNCHANGED <<app, keyvars, at, res, readvars, sendvars, err_counter, last_err>>

ReadHandler(o) == \/ ioqueue_on_read_complete(o) \/ OnData(o) \/ OnError(o) \/ OnEmptyDatagram(o)
                  \/ OnIgnored(o) \/ CallbackReturns(o) \/ ReadNext(o)
SendStep(o) == \/ SendFirst(o) \/ StoreSendData(o) \/ send_remaining(o)
               \/ ioqueue_on_write_complete(o) \/ WriteNotCalled(o) \/ CountSent(o)
               \/ OnDataSent(o)
AcceptHandler(o) == \/ ioqueue_on_accept_complete(o) \/ Judge(o) \/ AcceptReturns(o)
                    \/ CheckShutdown(o) \/ AcceptNext(o)
ConnectHandler(o) == ioqueue_on_connect_complete(o) \/ ConnectReturns(o)
CloseStep(c) == TakeKey(c) \/ Unregister(c) \/ CancelWrite(c) \/ CloseReturns(c)

Next == \/ \E o \in ReadOps : pj_activesock_start_read(o) \/ ReadReady(o) \/ ReadHandler(o)
        \/ \E o \in SendOps : pj_activesock_send(o) \/ WriteReady(o) \/ SendStep(o)
        \/ \E o \in AcceptOps : pj_activesock_start_accept(o) \/ AcceptReady(o) \/ AcceptHandler(o)
        \/ \E o \in ConnectOps : pj_activesock_start_connect(o) \/ ConnectReady(o)
                                 \/ ConnectHandler(o)
        \/ \E c \in Closers : pj_activesock_close(c) \/ CloseStep(c)
        \/ Arrive \/ HangUp \/ Connect

(* Threads keep polling, calls and callbacks return, the peer reads. *)
Fairness == /\ \A o \in ReadOps : WF_vars(ReadReady(o)) /\ WF_vars(ReadHandler(o))
            /\ \A o \in SendOps : WF_vars(WriteReady(o)) /\ WF_vars(SendStep(o))
            /\ \A o \in AcceptOps : WF_vars(AcceptReady(o)) /\ WF_vars(AcceptHandler(o))
            /\ \A o \in ConnectOps : WF_vars(ConnectHandler(o))
            /\ \A c \in Closers : WF_vars(CloseStep(c))

Spec == Init /\ [][Next]_vars
FairSpec == Spec /\ Fairness
-----------------------------------------------------------------------------
OwnBuffer(o) == SubSeq(pkt[o], 1, size[o])
JustRead(o) == IF at[o] \in {"entry", "top"} /\ res[o] > 0
               THEN SubSeq(pkt[o], size[o] + 1, size[o] + res[o]) ELSE <<>>

(* The application sees what came off the socket and nothing else.  Of a    *)
(* stream, what it has taken, followed by what is still in the read buffer, *)
(* is exactly what was read, in order: nothing is lost, repeated or         *)
(* reordered by remainders, immediate reads and errors, and the end is      *)
(* reported only after the peer hung up, or when the application's          *)
(* remainder left no room to read.  A datagram is shown alone and once,     *)
(* also when two reads are under way.                                       *)
DataIntact ==
  /\ app.stream /\ ~shutdown => \A o \in app.reads :
       consumed \o OwnBuffer(o) \o JustRead(o) = [i \in 1 .. net.taken |-> i]
  /\ eofs = 0
  /\ ~app.stream => /\ \A o \in ReadOps : size[o] <= 1
                    /\ IsInjective(consumed)

(* Once the key is unregistered at most one more read callback is made for  *)
(* each read operation: the one that was already past the test.             *)
OneLateRead == \A o \in ReadOps : late[o] <= 1

Complete(o) == outcome[o] = "success" \/ (answers[o] > 0 /\ res[o] > 0)

(* A whole-data send that is reported as complete, by its return value or   *)
(* by on_data_sent, has put every byte of its message on the wire exactly   *)
(* once and in order.                                                       *)
WholeDataSent ==
  app.whole /\ app.stream => \A o \in SendOps :
    Complete(o) => SelectSeq(wire, LAMBDA b : b[1] = o) = [i \in 1 .. MsgLen |-> <<o, i>>]

(* on_data_sent is called at most once for a send that returned PJ_EPENDING *)
(* and never for another one.  Without concurrency, a socket whose close    *)
(* has returned owes none; with it a completed write whose handler was not  *)
(* yet called is never reported.                                            *)
SendsAnsweredOnce ==
  /\ \A o \in SendOps : answers[o] <= IF outcome[o] = "pending" THEN 1 ELSE 0
  /\ ~app.concurrent /\ unregs > 0 /\ (\A c \in Closers : closer[c] \in {"none", "done"}) =>
       \A o \in SendOps : outcome[o] = "pending" => answers[o] = 1

(* However many threads close the socket, the key is unregistered once. *)
UnregisteredOnce == unregs <= 1

(* Every accepted connection is handed to the application or closed, but    *)
(* for one that a socket being closed had just accepted.                    *)
ConnectionsAccounted ==
  /\ conns.accepted = conns.handed + conns.closed + conns.leaked
       + Cardinality({o \in AcceptOps : at[o] \in {"accepted", "judge"} /\ res[o] = SUCCESS})
  /\ conns.leaked > 0 => shutdown

(* A send that returned PJ_EPENDING is answered in the end.  Without        *)
(* concurrency that holds also when the socket is closed; with it the       *)
(* answer is owed only while the socket stays open, as the close clears the *)
(* key's callbacks under a thread about to call one.                        *)
SendsAnswered ==
  \A o \in SendOps : outcome[o] = "pending" ~> answers[o] > 0 \/ (app.concurrent /\ closing)

(* The application's remainder fills the buffer. *)
LeftFull(o) == Room(o) = 0 /\ at[o] # "data"

(* While the socket is open, what arrives is read, unless the application   *)
(* stops reading or leaves its buffer full.                                 *)
DataDelivered ==
  ~app.errors /\ net.taken < net.arrived /\ (\E o \in ReadOps : at[o] = "pending")
    ~> \/ net.taken = net.arrived \/ shutdown
       \/ \E o \in app.reads : LeftFull(o)
       \/ \A o \in app.reads : at[o] \in {"none", "stopped"}

=============================================================================
