-------------------------- MODULE ActiveSockProofs --------------------------
(* Proofs about module ActiveSock: closing a socket from any number of      *)
(* threads unregisters its key once, a read operation makes at most one     *)
(* callback after that, and no accepted connection is lost.                 *)
EXTENDS ActiveSock, FiniteSetTheorems, TLAPS

(* Who may still unregister: nobody has while asock->key is set, and only   *)
(* the one thread that found it set may once it is NULL.                    *)
OneTaker ==
  /\ closer \in [Closers -> {"none", "take", "unregister", "drain", "done"}]
  /\ unregs \in Nat
  /\ key => unregs = 0 /\ \A c \in Closers : closer[c] # "unregister"
  /\ \A c \in Closers : closer[c] = "unregister" => unregs = 0
  /\ \A c, d \in Closers : closer[c] = "unregister" /\ closer[d] = "unregister" => c = d
  /\ unregs <= 1

LEMMA CloserSteps ==
  ASSUME OneTaker, [Next]_vars
  PROVE OneTaker'
<1>1. CASE \E c \in Closers : pj_activesock_close(c)
  BY <1>1 DEF OneTaker, pj_activesock_close
<1>2. CASE \E c \in Closers : TakeKey(c)
  BY <1>2 DEF OneTaker, TakeKey
<1>3. CASE \E c \in Closers : Unregister(c)
  BY <1>3 DEF OneTaker, Unregister
<1>4. CASE \E c \in Closers : CloseReturns(c)
  BY <1>4 DEF OneTaker, CloseReturns
<1>5. CASE \E c \in Closers : CancelWrite(c)
  BY <1>5 DEF OneTaker, CancelWrite, keyvars
<1>6. CASE UNCHANGED keyvars
  BY <1>6 DEF OneTaker, keyvars
<1>7. CASE \E o \in ReadOps : pj_activesock_start_read(o) \/ ReadReady(o) \/ ReadHandler(o)
  <2>1. UNCHANGED keyvars
    BY <1>7 DEF pj_activesock_start_read, ReadReady, ReadHandler, ioqueue_on_read_complete, OnData,
       OnError, OnEmptyDatagram, OnIgnored, CallbackReturns, ReadNext
  <2> QED BY <1>6, <2>1
<1>8. CASE \E o \in SendOps : pj_activesock_send(o) \/ WriteReady(o) \/ SendStep(o)
  <2>1. UNCHANGED keyvars
    BY <1>8 DEF pj_activesock_send, WriteReady, SendStep, SendFirst, StoreSendData, send_remaining,
       ioqueue_on_write_complete, WriteNotCalled, CountSent, OnDataSent
  <2> QED BY <1>6, <2>1
<1>9. CASE \E o \in AcceptOps : pj_activesock_start_accept(o) \/ AcceptReady(o) \/ AcceptHandler(o)
  <2>1. UNCHANGED keyvars
    BY <1>9 DEF pj_activesock_start_accept, AcceptReady, AcceptHandler, ioqueue_on_accept_complete,
       Judge, AcceptReturns, CheckShutdown, AcceptNext
  <2> QED BY <1>6, <2>1
<1>10. CASE \E o \in ConnectOps : \/ pj_activesock_start_connect(o) \/ ConnectReady(o)
                                  \/ ConnectHandler(o)
  <2>1. UNCHANGED keyvars
    BY <1>10 DEF pj_activesock_start_connect, ConnectReady, ConnectHandler,
       ioqueue_on_connect_complete, ConnectReturns
  <2> QED BY <1>6, <2>1
<1>11. CASE Arrive \/ HangUp \/ Connect
  BY <1>11, <1>6 DEF Arrive, HangUp, Connect
<1>12. CASE UNCHANGED vars
  BY <1>12, <1>6 DEF vars
<1> QED
  BY <1>1, <1>2, <1>3, <1>4, <1>5, <1>7, <1>8, <1>9, <1>10, <1>11, <1>12 DEF Next, CloseStep

(* Any number of threads may call pj_activesock_close at once: of all the   *)
(* calls, at most one goes on to pj_ioqueue_unregister.                     *)
THEOREM ClosedOnce == Spec => []UnregisteredOnce
<1>1. Init => OneTaker
  BY DEF Init, OneTaker
<1>2. OneTaker /\ [Next]_vars => OneTaker'
  BY CloserSteps
<1>3. OneTaker => UnregisteredOnce
  BY DEF OneTaker, UnregisteredOnce
<1> QED
  BY <1>1, <1>2, <1>3, PTL DEF Spec
-----------------------------------------------------------------------------
(* Reading after the close.                                                 *)

(* A closing key belongs to a socket that is shut down, and a read handler  *)
(* that made a callback on a closing key is on its way out.                 *)
Leaving == {"data", "error", "next", "done", "stopped"}

LateInv ==
  /\ late \in [ReadOps -> Nat]
  /\ DOMAIN at = Ops
  /\ DOMAIN closer = Closers
  /\ \A c \in Closers : closer[c] # "none" => shutdown = TRUE
  /\ closing = TRUE => shutdown = TRUE
  /\ closing \in BOOLEAN /\ shutdown \in BOOLEAN
  /\ \A o \in ReadOps : late[o] > 0 => closing = TRUE /\ late[o] = 1 /\ at[o] \in Leaving

(* A step that moves at[o] alone. *)
Moves(o) == /\ DOMAIN at' = Ops
            /\ \A q \in Ops \ {o} : at'[q] = at[q]
Same == UNCHANGED <<closing, closer, shutdown>>

LEMMA GoMoves ==
  ASSUME DOMAIN at = Ops, NEW o \in Ops, NEW p, Go(o, p)
  PROVE Moves(o) /\ at'[o] = p
BY DEF Go, Moves

LEMMA MovesKeepLate ==
  ASSUME LateInv, Same, UNCHANGED late, NEW o \in Ops, Moves(o),
         o \in ReadOps /\ late[o] > 0 => at'[o] \in Leaving
  PROVE LateInv'
<1>1. \A q \in ReadOps : q \in Ops
  BY DEF Ops
<1> QED
  BY <1>1 DEF LateInv, Same, Moves

(* A callback that begins on a closing key is the first such one. *)
LEMMA BeginsOnce ==
  ASSUME LateInv, Same, NEW o \in ReadOps, at[o] = "top", NEW p \in Leaving,
         at' = [at EXCEPT ![o] = p],
         late' = [late EXCEPT ![o] = @ + IF closing THEN 1 ELSE 0]
  PROVE LateInv'
<1>1. /\ \A q \in ReadOps : q \in Ops
      /\ late \in [ReadOps -> Nat] /\ DOMAIN at = Ops /\ closing \in BOOLEAN
  BY DEF Ops, LateInv
<1>2. late[o] = 0
  BY <1>1 DEF LateInv, Leaving
<1>3. late'[o] = (IF closing THEN 1 ELSE 0) /\ at'[o] = p
  BY <1>1, <1>2
<1>4. \A q \in ReadOps \ {o} : late'[q] = late[q] /\ at'[q] = at[q]
  BY <1>1
<1>5. late' \in [ReadOps -> Nat] /\ DOMAIN at' = Ops
  BY <1>1, <1>2
<1>6. \A q \in ReadOps : late'[q] > 0 => closing' = TRUE /\ late'[q] = 1 /\ at'[q] \in Leaving
  BY <1>3, <1>4, <1>1 DEF LateInv, Same
<1> QED
  BY <1>5, <1>6 DEF LateInv, Same

LEMMA ReadSteps ==
  ASSUME LateInv, NEW o \in ReadOps,
         pj_activesock_start_read(o) \/ ReadReady(o) \/ ReadHandler(o)
  PROVE LateInv'
<1>1. o \in Ops /\ DOMAIN at = Ops
  BY DEF Ops, LateInv
<1>2. CASE pj_activesock_start_read(o)
  <2>1. Same /\ UNCHANGED late /\ at[o] = "none"
    BY <1>2 DEF pj_activesock_start_read, Same, keyvars, readvars
  <2>2. Moves(o)
    BY <1>1, <1>2, GoMoves DEF pj_activesock_start_read
  <2>3. ~(late[o] > 0)
    BY <2>1 DEF LateInv, Leaving
  <2> QED BY <1>1, <2>1, <2>2, <2>3, MovesKeepLate
<1>3. CASE ReadReady(o)
  <2>1. Same /\ UNCHANGED late /\ at[o] = "pending"
    BY <1>3 DEF ReadReady, Same, keyvars, readvars
  <2>2. Moves(o)
    BY <1>1, <1>3, GoMoves DEF ReadReady, GoWith
  <2>3. ~(late[o] > 0)
    BY <2>1 DEF LateInv, Leaving
  <2> QED BY <1>1, <2>1, <2>2, <2>3, MovesKeepLate
<1>4. CASE ioqueue_on_read_complete(o)
  <2>1. Same /\ UNCHANGED late /\ at[o] = "entry"
    BY <1>4 DEF ioqueue_on_read_complete, Same, keyvars, readvars
  <2>2. Moves(o)
    BY <1>1, <1>4, GoMoves DEF ioqueue_on_read_complete
  <2>3. ~(late[o] > 0)
    BY <2>1 DEF LateInv, Leaving
  <2> QED BY <1>1, <2>1, <2>2, <2>3, MovesKeepLate
<1>5. CASE OnData(o)
  <2>1. Same /\ at[o] = "top" /\ at' = [at EXCEPT ![o] = "data"]
    BY <1>5 DEF OnData, Same, keyvars, Go
  <2>2. late' = [late EXCEPT ![o] = @ + IF closing THEN 1 ELSE 0]
    BY <1>5 DEF OnData, CallbackBegins
  <2> QED BY <1>1, <2>1, <2>2, BeginsOnce DEF Leaving
<1>6. CASE OnError(o)
  <2>1. Same /\ at[o] = "top" /\ at' = [at EXCEPT ![o] = "error"]
    BY <1>6 DEF OnError, Same, keyvars, Go
  <2>2. late' = [late EXCEPT ![o] = @ + IF closing THEN 1 ELSE 0]
    BY <1>6 DEF OnError, CallbackBegins
  <2> QED BY <1>1, <2>1, <2>2, BeginsOnce DEF Leaving
<1>7. CASE OnEmptyDatagram(o)
  <2>1. Same /\ UNCHANGED late /\ at[o] = "top"
    BY <1>7 DEF OnEmptyDatagram, Same, keyvars, readvars
  <2>2. Moves(o)
    BY <1>1, <1>7, GoMoves DEF OnEmptyDatagram
  <2>3. ~(late[o] > 0)
    BY <2>1 DEF LateInv, Leaving
  <2> QED BY <1>1, <2>1, <2>2, <2>3, MovesKeepLate
<1>8. CASE OnIgnored(o)
  <2>1. Same /\ UNCHANGED late /\ at[o] = "top"
    BY <1>8 DEF OnIgnored, Same, keyvars, readvars
  <2>2. Moves(o)
    BY <1>1, <1>8, GoMoves DEF OnIgnored
  <2>3. ~(late[o] > 0)
    BY <2>1 DEF LateInv, Leaving
  <2> QED BY <1>1, <2>1, <2>2, <2>3, MovesKeepLate
<1>9. CASE CallbackReturns(o)
  <2>1. Same /\ UNCHANGED late
    BY <1>9 DEF CallbackReturns, Same, keyvars
  <2>2. Moves(o) /\ at'[o] \in Leaving
    BY <1>1, <1>9, GoMoves DEF CallbackReturns, Leaving
  <2> QED BY <1>1, <2>1, <2>2, MovesKeepLate
<1>10. CASE ReadNext(o)
  <2>1. Same /\ UNCHANGED late
    BY <1>10 DEF ReadNext, Same, keyvars
  <2>2. Moves(o)
    BY <1>1, <1>10, GoMoves DEF ReadNext, GoWith
  <2>3. closing = TRUE => at'[o] = "done"
    BY <1>1, <1>10, GoMoves DEF ReadNext, RecvCancelled
  <2>4. late[o] > 0 => at'[o] \in Leaving
    BY <2>3 DEF LateInv, Leaving
  <2> QED BY <1>1, <2>1, <2>2, <2>4, MovesKeepLate
<1> QED
  BY <1>2, <1>3, <1>4, <1>5, <1>6, <1>7, <1>8, <1>9, <1>10 DEF ReadHandler

LEMMA SendSteps ==
  ASSUME LateInv, NEW o \in SendOps, pj_activesock_send(o) \/ WriteReady(o) \/ SendStep(o)
  PROVE LateInv'
<1>1. o \in Ops /\ o \notin ReadOps /\ DOMAIN at = Ops
  BY ActiveSockAssumption DEF Ops, LateInv
<1>2. Same /\ UNCHANGED late /\ (Moves(o) \/ UNCHANGED at)
  <2>1. CASE pj_activesock_send(o)
    BY <1>1, <2>1, GoMoves DEF pj_activesock_send, Same, keyvars, readvars
  <2>2. CASE WriteReady(o)
    BY <1>1, <2>2, GoMoves DEF WriteReady, GoWith, Same, keyvars, readvars
  <2>3. CASE SendFirst(o)
    BY <1>1, <2>3, GoMoves DEF SendFirst, GoWith, Same, keyvars, readvars
  <2>4. CASE StoreSendData(o)
    BY <1>1, <2>4, GoMoves DEF StoreSendData, Same, keyvars, readvars
  <2>5. CASE send_remaining(o)
    BY <1>1, <2>5, GoMoves DEF send_remaining, GoWith, Same, keyvars, readvars
  <2>6. CASE ioqueue_on_write_complete(o)
    BY <1>1, <2>6, GoMoves DEF ioqueue_on_write_complete, Same, keyvars, readvars
  <2>7. CASE CountSent(o)
    BY <1>1, <2>7, GoMoves DEF CountSent, GoWith, Same, keyvars, readvars
  <2>8. CASE OnDataSent(o)
    BY <1>1, <2>8, GoMoves DEF OnDataSent, Same, keyvars, readvars
  <2>9. CASE WriteNotCalled(o)
    BY <1>1, <2>9, GoMoves DEF WriteNotCalled, Same, keyvars, readvars
  <2> QED
    BY <2>1, <2>2, <2>3, <2>4, <2>5, <2>6, <2>7, <2>8, <2>9 DEF SendStep
<1>3. Moves(o)
  BY <1>1, <1>2 DEF Moves
<1> QED
  BY <1>1, <1>2, <1>3, MovesKeepLate

LEMMA AcceptSteps ==
  ASSUME LateInv, NEW o \in AcceptOps,
         pj_activesock_start_accept(o) \/ AcceptReady(o) \/ AcceptHandler(o)
  PROVE LateInv'
<1>1. o \in Ops /\ o \notin ReadOps /\ DOMAIN at = Ops
  BY ActiveSockAssumption DEF Ops, LateInv
<1>2. Same /\ UNCHANGED late /\ (Moves(o) \/ UNCHANGED at)
  <2>1. CASE pj_activesock_start_accept(o)
    BY <1>1, <2>1, GoMoves DEF pj_activesock_start_accept, Same, keyvars, readvars
  <2>2. CASE AcceptReady(o)
    BY <1>1, <2>2, GoMoves DEF AcceptReady, GoWith, Same, keyvars, readvars
  <2>3. CASE ioqueue_on_accept_complete(o)
    BY <1>1, <2>3, GoMoves DEF ioqueue_on_accept_complete, Same, keyvars, readvars
  <2>4. CASE Judge(o)
    BY <1>1, <2>4, GoMoves DEF Judge, Same, keyvars, readvars
  <2>5. CASE AcceptReturns(o)
    BY <1>1, <2>5, GoMoves DEF AcceptReturns, Same, keyvars, readvars
  <2>6. CASE CheckShutdown(o)
    BY <1>1, <2>6, GoMoves DEF CheckShutdown, Same, keyvars, readvars
  <2>7. CASE AcceptNext(o)
    BY <1>1, <2>7, GoMoves DEF AcceptNext, GoWith, Same, keyvars, readvars
  <2> QED
    BY <2>1, <2>2, <2>3, <2>4, <2>5, <2>6, <2>7 DEF AcceptHandler
<1>3. Moves(o)
  BY <1>1, <1>2 DEF Moves
<1> QED
  BY <1>1, <1>2, <1>3, MovesKeepLate

LEMMA ConnectSteps ==
  ASSUME LateInv, NEW o \in ConnectOps,
         pj_activesock_start_connect(o) \/ ConnectReady(o) \/ ConnectHandler(o)
  PROVE LateInv'
<1>1. o \in Ops /\ o \notin ReadOps /\ DOMAIN at = Ops
  BY ActiveSockAssumption DEF Ops, LateInv
<1>2. Same /\ UNCHANGED late /\ (Moves(o) \/ UNCHANGED at)
  <2>1. CASE pj_activesock_start_connect(o)
    BY <1>1, <2>1, GoMoves DEF pj_activesock_start_connect, Same, keyvars, readvars
  <2>2. CASE ConnectReady(o)
    BY <1>1, <2>2, GoMoves DEF ConnectReady, Same, keyvars, readvars
  <2>3. CASE ioqueue_on_connect_complete(o)
    BY <1>1, <2>3, GoMoves DEF ioqueue_on_connect_complete, Same, keyvars, readvars
  <2>4. CASE ConnectReturns(o)
    BY <1>1, <2>4, GoMoves DEF ConnectReturns, Same, keyvars, readvars
  <2> QED
    BY <2>1, <2>2, <2>3, <2>4 DEF ConnectHandler
<1>3. Moves(o)
  BY <1>1, <1>2 DEF Moves
<1> QED
  BY <1>1, <1>2, <1>3, MovesKeepLate

LEMMA CloseSteps ==
  ASSUME LateInv, write_list \in Seq(SendOps), NEW c \in Closers,
         pj_activesock_close(c) \/ CloseStep(c)
  PROVE LateInv'
<1>1. CASE pj_activesock_close(c)
  BY <1>1 DEF pj_activesock_close, readvars, LateInv
<1>2. CASE TakeKey(c)
  BY <1>2 DEF TakeKey, readvars, LateInv
<1>3. CASE CloseReturns(c)
  BY <1>3 DEF CloseReturns, readvars, LateInv
<1>4. CASE Unregister(c)
  <2>1. \A o \in ReadOps : o \in Ops /\ o \notin SendOps
    BY ActiveSockAssumption DEF Ops
  <2>2. /\ UNCHANGED <<late, shutdown>> /\ closing' = TRUE /\ shutdown = TRUE
        /\ closer' = [closer EXCEPT ![c] = "drain"]
    BY <1>4 DEF Unregister, readvars, LateInv
  <2>3. \A o \in ReadOps : at[o] \in Leaving => at'[o] \in Leaving
    BY <1>4, <2>1 DEF Unregister, Leaving
  <2>4. DOMAIN at' = Ops
    BY <1>4 DEF Unregister
  <2> QED BY <2>2, <2>3, <2>4 DEF LateInv
<1>5. CASE CancelWrite(c)
  <2> DEFINE o == Head(write_list)
  <2>1. o \in SendOps
    BY <1>5 DEF CancelWrite
  <2>2. o \in Ops /\ o \notin ReadOps /\ DOMAIN at = Ops
    BY <2>1, ActiveSockAssumption DEF Ops, LateInv
  <2>3. Same /\ UNCHANGED late /\ Go(o, "cancelled")
    BY <1>5 DEF CancelWrite, GoWith, Same, keyvars, readvars
  <2> HIDE DEF o
  <2>4. Moves(o)
    BY <2>2, <2>3, GoMoves
  <2> QED BY <2>2, <2>3, <2>4, MovesKeepLate
<1> QED
  BY <1>1, <1>2, <1>3, <1>4, <1>5 DEF CloseStep

(* Only sends are on the write list. *)
LEMMA WriteListTyped ==
  ASSUME write_list \in Seq(SendOps), [Next]_vars
  PROVE (write_list \in Seq(SendOps))'
<1>1. CASE UNCHANGED write_list
  BY <1>1
<1>2. CASE \E o \in SendOps : pj_activesock_send(o) \/ WriteReady(o) \/ SendStep(o)
  <2> PICK o \in SendOps : pj_activesock_send(o) \/ WriteReady(o) \/ SendStep(o)
    BY <1>2
  <2>1. CASE pj_activesock_send(o)
    BY <2>1, <1>1 DEF pj_activesock_send
  <2>2. CASE WriteReady(o)
    <3>1. write_list # <<>> /\ (write_list' = write_list \/ write_list' = Tail(write_list))
      BY <2>2 DEF WriteReady
    <3> QED BY <3>1
  <2>3. CASE SendFirst(o)
    <3>1. write_list' = Append(write_list, o) \/ UNCHANGED write_list
      BY <2>3 DEF SendFirst, IoqSend
    <3> QED BY <3>1
  <2>4. CASE send_remaining(o)
    <3>1. write_list' = Append(write_list, o) \/ UNCHANGED write_list
      BY <2>4 DEF send_remaining, IoqSend
    <3> QED BY <3>1
  <2>5. CASE \/ StoreSendData(o) \/ ioqueue_on_write_complete(o) \/ WriteNotCalled(o)
             \/ CountSent(o) \/ OnDataSent(o)
    BY <2>5, <1>1 DEF StoreSendData, ioqueue_on_write_complete, WriteNotCalled, CountSent, OnDataSent,
       sendvars
  <2> QED
    BY <2>1, <2>2, <2>3, <2>4, <2>5 DEF SendStep
<1>3. CASE \E o \in ReadOps : pj_activesock_start_read(o) \/ ReadReady(o) \/ ReadHandler(o)
  BY <1>3, <1>1 DEF pj_activesock_start_read, ReadReady, ReadHandler, ioqueue_on_read_complete, OnData,
     OnError, OnEmptyDatagram, OnIgnored, CallbackReturns, ReadNext, sendvars
<1>4. CASE \E o \in AcceptOps : pj_activesock_start_accept(o) \/ AcceptReady(o) \/ AcceptHandler(o)
  BY <1>4, <1>1 DEF pj_activesock_start_accept, AcceptReady, AcceptHandler, ioqueue_on_accept_complete,
     Judge, AcceptReturns, CheckShutdown, AcceptNext, sendvars
<1>5. CASE \E o \in ConnectOps : \/ pj_activesock_start_connect(o) \/ ConnectReady(o)
                                 \/ ConnectHandler(o)
  BY <1>5, <1>1 DEF pj_activesock_start_connect, ConnectReady, ConnectHandler,
     ioqueue_on_connect_complete, ConnectReturns, sendvars
<1>6. CASE \E c \in Closers : pj_activesock_close(c) \/ TakeKey(c) \/ Unregister(c) \/ CloseReturns(c)
  BY <1>6, <1>1 DEF pj_activesock_close, TakeKey, Unregister, CloseReturns, sendvars
<1>7. CASE \E c \in Closers : CancelWrite(c)
  <2>1. write_list # <<>> /\ write_list' = Tail(write_list)
    BY <1>7 DEF CancelWrite
  <2> QED BY <2>1
<1>8. CASE Arrive \/ HangUp \/ Connect
  BY <1>8, <1>1 DEF Arrive, HangUp, Connect, sendvars
<1>9. CASE UNCHANGED vars
  BY <1>9, <1>1 DEF vars, sendvars
<1> QED
  BY <1>2, <1>3, <1>4, <1>5, <1>6, <1>7, <1>8, <1>9 DEF Next, CloseStep

(* When pj_activesock_close has unregistered the key, every read operation  *)
(* makes at most one more callback, however many of them there are and      *)
(* whatever the other operations and the other closes do meanwhile.         *)
THEOREM LateReadsBounded == Spec => []OneLateRead
<1> DEFINE I == LateInv /\ write_list \in Seq(SendOps)
<1>1. Init => I
  <2> SUFFICES ASSUME Init PROVE I
    OBVIOUS
  <2>1. /\ late = [o \in ReadOps |-> 0] /\ DOMAIN at = Ops
        /\ closer = [c \in Closers |-> "none"] /\ shutdown = FALSE /\ closing = FALSE
        /\ write_list = <<>>
    BY DEF Init
  <2>2. \A o \in ReadOps : late[o] = 0 /\ ~(late[o] > 0)
    BY <2>1
  <2>3. late \in [ReadOps -> Nat] /\ DOMAIN closer = Closers
    BY <2>1
  <2>4. \A c \in Closers : closer[c] = "none"
    BY <2>1
  <2>5. write_list \in Seq(SendOps)
    BY <2>1
  <2> HIDE DEF I
  <2>6. LateInv
    BY <2>1, <2>2, <2>3, <2>4, Zenon DEF LateInv
  <2> QED BY <2>5, <2>6 DEF I
<1>2. I /\ [Next]_vars => I'
  <2> SUFFICES ASSUME I, [Next]_vars PROVE LateInv'
    BY WriteListTyped
  <2>1. CASE UNCHANGED vars
    BY <2>1 DEF vars, keyvars, readvars, LateInv
  <2>2. CASE Arrive \/ HangUp \/ Connect
    BY <2>2 DEF Arrive, HangUp, Connect, keyvars, readvars, LateInv
  <2> QED
    BY <2>1, <2>2, ReadSteps, SendSteps, AcceptSteps, ConnectSteps, CloseSteps DEF Next
<1>3. I => OneLateRead
  <2>1. ASSUME LateInv, NEW o \in ReadOps PROVE late[o] <= 1
    <3>1. late[o] \in Nat /\ (late[o] > 0 => late[o] = 1)
      BY <2>1 DEF LateInv
    <3> QED BY <3>1
  <2> QED BY <2>1 DEF OneLateRead
<1> QED
  BY <1>1, <1>2, <1>3, PTL DEF Spec
-----------------------------------------------------------------------------
(* The accepted connections.                                                *)

(* Handlers with a connection that is neither handed over nor dropped yet. *)
InHand == {o \in AcceptOps : at[o] \in {"accepted", "judge"} /\ res[o] = SUCCESS}

CountsTyped ==
  /\ DOMAIN conns = {"waiting", "accepted", "handed", "closed", "leaked"}
  /\ conns = [n \in DOMAIN conns |-> conns[n]]
  /\ conns.waiting \in Nat /\ conns.accepted \in Int /\ conns.handed \in Int
  /\ conns.closed \in Int /\ conns.leaked \in Nat

ConnsTyped ==
  /\ CountsTyped
  /\ DOMAIN at = Ops /\ DOMAIN res = Ops
  /\ shutdown \in BOOLEAN
  /\ write_list \in Seq(SendOps)

ConnInv == ConnsTyped /\ ConnectionsAccounted

(* The same connections are in the hands of the same handlers. *)
SameConns == UNCHANGED conns /\ InHand' = InHand /\ (shutdown => shutdown')

LEMMA InHandCounted == IsFiniteSet(InHand) /\ Cardinality(InHand) \in Nat
<1>1. InHand \in SUBSET AcceptOps
  BY DEF InHand
<1>2. IsFiniteSet(InHand)
  BY <1>1, ActiveSockAssumption, FS_Subset
<1> QED
  BY <1>2, FS_CardinalityType

LEMMA SameConnsKept ==
  ASSUME ConnInv, SameConns
  PROVE ConnectionsAccounted'
BY DEF ConnInv, SameConns, ConnectionsAccounted, InHand

(* A step that moves at[o] and res[o] alone, and where to. *)
MovesBoth(o) == /\ DOMAIN at' = Ops /\ DOMAIN res' = Ops
                /\ \A q \in Ops \ {o} : at'[q] = at[q] /\ res'[q] = res[q]

LEMMA GoMovesBoth ==
  ASSUME DOMAIN at = Ops, DOMAIN res = Ops, NEW o \in Ops, NEW p
  PROVE /\ Go(o, p) /\ UNCHANGED res => MovesBoth(o) /\ at'[o] = p /\ res'[o] = res[o]
        /\ \A r : GoWith(o, p, r) => MovesBoth(o) /\ at'[o] = p /\ res'[o] = r
        /\ UNCHANGED <<at, res>> => MovesBoth(o) /\ at'[o] = at[o] /\ res'[o] = res[o]
BY DEF Go, GoWith, MovesBoth

(* The steps of the other operations. *)
LEMMA OtherOpsConns ==
  ASSUME ConnsTyped, NEW o \in Ops, o \notin AcceptOps, MovesBoth(o), UNCHANGED <<conns, shutdown>>
  PROVE SameConns /\ DOMAIN at' = Ops /\ DOMAIN res' = Ops /\ shutdown' \in BOOLEAN
<1>1. \A q \in AcceptOps : at'[q] = at[q] /\ res'[q] = res[q]
  BY DEF MovesBoth, Ops
<1> QED
  BY <1>1 DEF SameConns, InHand, MovesBoth, ConnsTyped

LEMMA ReadConns ==
  ASSUME ConnInv, NEW o \in ReadOps, pj_activesock_start_read(o) \/ ReadReady(o) \/ ReadHandler(o)
  PROVE MovesBoth(o) /\ UNCHANGED <<conns, shutdown>>
<1>1. o \in Ops /\ DOMAIN at = Ops /\ DOMAIN res = Ops
  BY DEF Ops, ConnInv, ConnsTyped
<1>2. UNCHANGED <<conns, shutdown>>
  BY DEF pj_activesock_start_read, ReadReady, ReadHandler, ioqueue_on_read_complete, OnData,
     OnError, OnEmptyDatagram, OnIgnored, CallbackReturns, ReadNext, keyvars, acceptvars
<1>3. MovesBoth(o)
  <2>1. CASE pj_activesock_start_read(o)
    BY <1>1, <2>1, GoMovesBoth DEF pj_activesock_start_read
  <2>2. CASE ReadReady(o)
    BY <1>1, <2>2, GoMovesBoth DEF ReadReady
  <2>3. CASE ioqueue_on_read_complete(o)
    BY <1>1, <2>3, GoMovesBoth DEF ioqueue_on_read_complete
  <2>4. CASE OnData(o) \/ OnError(o) \/ OnEmptyDatagram(o) \/ OnIgnored(o)
    BY <1>1, <2>4, GoMovesBoth DEF OnData, OnError, OnEmptyDatagram, OnIgnored
  <2>5. CASE CallbackReturns(o)
    BY <1>1, <2>5, GoMovesBoth DEF CallbackReturns
  <2>6. CASE ReadNext(o)
    BY <1>1, <2>6, GoMovesBoth DEF ReadNext
  <2> QED
    BY <2>1, <2>2, <2>3, <2>4, <2>5, <2>6 DEF ReadHandler
<1> QED
  BY <1>2, <1>3

LEMMA SendConns ==
  ASSUME ConnInv, NEW o \in SendOps, pj_activesock_send(o) \/ WriteReady(o) \/ SendStep(o)
  PROVE MovesBoth(o) /\ UNCHANGED <<conns, shutdown>>
<1>1. o \in Ops /\ DOMAIN at = Ops /\ DOMAIN res = Ops
  BY DEF Ops, ConnInv, ConnsTyped
<1>2. UNCHANGED <<conns, shutdown>>
  BY DEF pj_activesock_send, WriteReady, SendStep, SendFirst, StoreSendData, send_remaining,
     ioqueue_on_write_complete, WriteNotCalled, CountSent, OnDataSent, keyvars, acceptvars
<1>3. MovesBoth(o)
  <2>1. CASE pj_activesock_send(o)
    BY <1>1, <2>1, GoMovesBoth DEF pj_activesock_send
  <2>2. CASE WriteReady(o)
    BY <1>1, <2>2, GoMovesBoth DEF WriteReady
  <2>3. CASE SendFirst(o)
    BY <1>1, <2>3, GoMovesBoth DEF SendFirst
  <2>4. CASE send_remaining(o)
    BY <1>1, <2>4, GoMovesBoth DEF send_remaining
  <2>5. CASE CountSent(o)
    BY <1>1, <2>5, GoMovesBoth DEF CountSent
  <2>6. CASE StoreSendData(o) \/ ioqueue_on_write_complete(o) \/ WriteNotCalled(o) \/ OnDataSent(o)
    BY <1>1, <2>6, GoMovesBoth DEF StoreSendData, ioqueue_on_write_complete, WriteNotCalled, OnDataSent
  <2> QED
    BY <2>1, <2>2, <2>3, <2>4, <2>5, <2>6 DEF SendStep
<1> QED
  BY <1>2, <1>3

LEMMA ConnectConns ==
  ASSUME ConnInv, NEW o \in ConnectOps,
         pj_activesock_start_connect(o) \/ ConnectReady(o) \/ ConnectHandler(o)
  PROVE MovesBoth(o) /\ UNCHANGED <<conns, shutdown>>
<1>1. o \in Ops /\ DOMAIN at = Ops /\ DOMAIN res = Ops
  BY DEF Ops, ConnInv, ConnsTyped
<1>2. UNCHANGED <<conns, shutdown>>
  BY DEF pj_activesock_start_connect, ConnectReady, ConnectHandler, ioqueue_on_connect_complete,
     ConnectReturns, keyvars, acceptvars
<1>3. MovesBoth(o)
  BY <1>1, GoMovesBoth DEF pj_activesock_start_connect, ConnectReady, ConnectHandler,
     ioqueue_on_connect_complete, ConnectReturns
<1> QED
  BY <1>2, <1>3

(* Closing takes no connection out of a handler's hands. *)
LEMMA CloseConns ==
  ASSUME ConnInv, NEW c \in Closers, pj_activesock_close(c) \/ CloseStep(c)
  PROVE SameConns /\ DOMAIN at' = Ops /\ DOMAIN res' = Ops /\ shutdown' \in BOOLEAN
<1>1. DOMAIN at = Ops /\ DOMAIN res = Ops /\ shutdown \in BOOLEAN /\ AcceptOps \subseteq Ops
  BY DEF Ops, ConnInv, ConnsTyped
<1>2. CASE pj_activesock_close(c) \/ TakeKey(c) \/ CloseReturns(c)
  <2>1. UNCHANGED <<conns, at, res>> /\ (shutdown => shutdown') /\ shutdown' \in BOOLEAN
    BY <1>1, <1>2 DEF pj_activesock_close, TakeKey, CloseReturns, acceptvars
  <2> QED BY <1>1, <2>1 DEF SameConns, InHand
<1>3. CASE Unregister(c)
  <2>1. /\ UNCHANGED <<conns, res, shutdown>>
        /\ at' = [o \in Ops |-> IF at[o] = "pending" /\ o \notin SendOps THEN "done" ELSE at[o]]
    BY <1>3 DEF Unregister, acceptvars
  <2>2. \A o \in AcceptOps : at'[o] \in {"accepted", "judge"} <=> at[o] \in {"accepted", "judge"}
    BY <1>1, <2>1
  <2> QED BY <1>1, <2>1, <2>2 DEF SameConns, InHand
<1>4. CASE CancelWrite(c)
  <2> DEFINE o == Head(write_list)
  <2>1. o \in SendOps
    BY <1>4 DEF CancelWrite, ConnInv, ConnsTyped
  <2>2. o \in Ops /\ o \notin AcceptOps
    BY <2>1, ActiveSockAssumption DEF Ops
  <2>3. UNCHANGED <<conns, shutdown>> /\ GoWith(o, "cancelled", ERR)
    BY <1>4 DEF CancelWrite, keyvars, acceptvars
  <2> HIDE DEF o
  <2>4. MovesBoth(o)
    BY <1>1, <2>2, <2>3, GoMovesBoth
  <2> QED BY <2>2, <2>3, <2>4, OtherOpsConns DEF ConnInv
<1> QED
  BY <1>2, <1>3, <1>4 DEF CloseStep

(* What a step of an accept operation does to the count. *)
LEMMA HandTaken ==
  ASSUME NEW o \in AcceptOps, MovesBoth(o), o \notin InHand, o \in InHand'
  PROVE Cardinality(InHand') = Cardinality(InHand) + 1
<1>1. \A q \in AcceptOps \ {o} : at'[q] = at[q] /\ res'[q] = res[q]
  BY DEF MovesBoth, Ops
<1>2. InHand' = InHand \cup {o}
  BY <1>1 DEF InHand
<1> QED
  BY <1>2, InHandCounted, FS_AddElement

LEMMA HandEmptied ==
  ASSUME NEW o \in AcceptOps, MovesBoth(o), o \in InHand, o \notin InHand'
  PROVE Cardinality(InHand') = Cardinality(InHand) - 1
<1>1. \A q \in AcceptOps \ {o} : at'[q] = at[q] /\ res'[q] = res[q]
  BY DEF MovesBoth, Ops
<1>2. InHand' = InHand \ {o}
  BY <1>1 DEF InHand
<1> QED
  BY <1>2, InHandCounted, FS_RemoveElement

LEMMA HandKept ==
  ASSUME NEW o \in AcceptOps, MovesBoth(o), o \in InHand <=> o \in InHand'
  PROVE InHand' = InHand
<1>1. \A q \in AcceptOps \ {o} : at'[q] = at[q] /\ res'[q] = res[q]
  BY DEF MovesBoth, Ops
<1> QED
  BY <1>1 DEF InHand

(* What a step adds to the numbers of connections waiting, accepted, handed *)
(* over, closed and dropped.                                                *)
Adds(w, a, h, d, l) ==
  /\ DOMAIN conns' = {"waiting", "accepted", "handed", "closed", "leaked"}
  /\ conns' = [n \in DOMAIN conns' |-> conns'[n]]
  /\ conns'.waiting = conns.waiting + w /\ conns'.accepted = conns.accepted + a
  /\ conns'.handed = conns.handed + h /\ conns'.closed = conns.closed + d
  /\ conns'.leaked = conns.leaked + l

LEMMA CountedConns ==
  ASSUME ConnInv, NEW w \in Int, NEW a \in Int, NEW h \in Int, NEW d \in Int, NEW l \in Nat,
         Adds(w, a, h, d, l), conns.waiting + w >= 0,
         Cardinality(InHand') = Cardinality(InHand) + (a - h - d - l),
         shutdown' = shutdown, l > 0 => shutdown
  PROVE CountsTyped' /\ ConnectionsAccounted'
<1>1. /\ conns.waiting \in Nat /\ conns.accepted \in Int /\ conns.handed \in Int
      /\ conns.closed \in Int /\ conns.leaked \in Nat
  BY DEF ConnInv, ConnsTyped, CountsTyped
<1>2. /\ conns'.waiting = conns.waiting + w /\ conns'.accepted = conns.accepted + a
      /\ conns'.handed = conns.handed + h /\ conns'.closed = conns.closed + d
      /\ conns'.leaked = conns.leaked + l
  BY DEF Adds
<1>3. /\ conns.accepted = conns.handed + conns.closed + conns.leaked + Cardinality(InHand)
      /\ conns.leaked > 0 => shutdown
  BY DEF ConnInv, ConnectionsAccounted, InHand
<1>4. Cardinality(InHand) \in Nat
  BY InHandCounted
<1>5. conns'.accepted = conns'.handed + conns'.closed + conns'.leaked + Cardinality(InHand')
  BY <1>1, <1>2, <1>3, <1>4
<1>6. conns'.leaked > 0 => shutdown'
  <2>1. conns'.leaked > 0 => conns.leaked > 0 \/ l > 0
    BY <1>1, <1>2
  <2> QED BY <1>3, <2>1
<1>7. ConnectionsAccounted'
  BY <1>5, <1>6 DEF ConnectionsAccounted, InHand
<1>8. /\ conns'.waiting \in Nat /\ conns'.accepted \in Int /\ conns'.handed \in Int
      /\ conns'.closed \in Int /\ conns'.leaked \in Nat
  BY <1>1, <1>2
<1>9. CountsTyped'
  BY <1>8 DEF CountsTyped, Adds
<1> QED
  BY <1>7, <1>9

(* The assignments to conns in the accept steps. *)
LEMMA ConnsRecord ==
  ASSUME CountsTyped
  PROVE /\ \A n \in Nat : conns' = [conns EXCEPT !.leaked = @ + n] => Adds(0, 0, 0, 0, n)
        /\ \A n \in Nat : conns' = [conns EXCEPT !.handed = @ + n] => Adds(0, 0, n, 0, 0)
        /\ conns' = [conns EXCEPT !.waiting = @ - 1, !.accepted = @ + 1] => Adds(-1, 1, 0, 0, 0)
        /\ conns' = [conns EXCEPT !.waiting = @ - 1, !.accepted = @ + 1, !.closed = @ + 1]
             => Adds(-1, 1, 0, 1, 0)
        /\ conns' = [conns EXCEPT !.waiting = @ + 1] => Adds(1, 0, 0, 0, 0)
<1> USE DEF CountsTyped, Adds
<1>1. ASSUME NEW n \in Nat, conns' = [conns EXCEPT !.leaked = @ + n] PROVE Adds(0, 0, 0, 0, n)
  BY <1>1
<1>2. ASSUME NEW n \in Nat, conns' = [conns EXCEPT !.handed = @ + n] PROVE Adds(0, 0, n, 0, 0)
  BY <1>2
<1>3. ASSUME conns' = [conns EXCEPT !.waiting = @ - 1, !.accepted = @ + 1]
      PROVE Adds(-1, 1, 0, 0, 0)
  <2>0. DOMAIN conns' = DOMAIN conns
    BY <1>3
  <2>1. DOMAIN conns' = DOMAIN conns /\ conns' = [n \in DOMAIN conns' |-> conns'[n]]
    BY <1>3, <2>0, Zenon
  <2>2. conns'.waiting = conns.waiting - 1 /\ conns'.accepted = conns.accepted + 1
    BY <1>3
  <2>3. conns'.handed = conns.handed /\ conns'.closed = conns.closed /\ conns'.leaked = conns.leaked
    BY <1>3
  <2> QED BY <2>1, <2>2, <2>3
<1>4. ASSUME conns' = [conns EXCEPT !.waiting = @ - 1, !.accepted = @ + 1, !.closed = @ + 1]
      PROVE Adds(-1, 1, 0, 1, 0)
  <2>0. DOMAIN conns' = DOMAIN conns
    BY <1>4
  <2>1. DOMAIN conns' = DOMAIN conns /\ conns' = [n \in DOMAIN conns' |-> conns'[n]]
    BY <1>4, <2>0, Zenon
  <2>2. conns'.waiting = conns.waiting - 1 /\ conns'.accepted = conns.accepted + 1
    BY <1>4
  <2>3. conns'.closed = conns.closed + 1
    BY <1>4
  <2>4. conns'.handed = conns.handed /\ conns'.leaked = conns.leaked
    BY <1>4
  <2> QED BY <2>1, <2>2, <2>3, <2>4
<1>5. ASSUME conns' = [conns EXCEPT !.waiting = @ + 1] PROVE Adds(1, 0, 0, 0, 0)
  BY <1>5
<1> HIDE DEF CountsTyped, Adds
<1> QED
  BY <1>1, <1>2, <1>3, <1>4, <1>5

(* A connection that pj_ioqueue_accept returned was waiting. *)
LEMMA AcceptedWaited ==
  ASSUME NEW o, NEW s \in IoqAccept(o) \cup Accepted \cup AcceptErrors, s = SUCCESS
  PROVE conns.waiting > 0
BY DEF IoqAccept, Accepted, AcceptErrors, SUCCESS, ERR, PENDING, EINVAL, CANCELLED

(* Every step of an accept operation accounts for the connection it has. *)
LEMMA AcceptConns ==
  ASSUME ConnInv, NEW o \in AcceptOps,
         pj_activesock_start_accept(o) \/ AcceptReady(o) \/ AcceptHandler(o)
  PROVE /\ CountsTyped'
        /\ ConnectionsAccounted' /\ MovesBoth(o) /\ UNCHANGED shutdown
<1>1. o \in Ops /\ DOMAIN at = Ops /\ DOMAIN res = Ops /\ CountsTyped /\ conns.waiting \in Nat
  BY DEF Ops, ConnInv, ConnsTyped, CountsTyped
<1>2. UNCHANGED shutdown
  BY DEF pj_activesock_start_accept, AcceptReady, AcceptHandler, ioqueue_on_accept_complete, Judge,
     AcceptReturns, CheckShutdown, AcceptNext, keyvars
<1>3. ASSUME UNCHANGED conns, MovesBoth(o), o \in InHand <=> o \in InHand'
      PROVE CountsTyped' /\ ConnectionsAccounted'
  <2>1. SameConns
    BY <1>2, <1>3, HandKept DEF SameConns
  <2> QED BY <1>1, <1>3, <2>1, SameConnsKept DEF CountsTyped
<1>4. ASSUME conns.waiting > 0, conns' = [conns EXCEPT !.waiting = @ - 1, !.accepted = @ + 1],
             MovesBoth(o), o \notin InHand, o \in InHand'
      PROVE CountsTyped' /\ ConnectionsAccounted'
  <2>1. Adds(-1, 1, 0, 0, 0)
    BY <1>1, <1>4, ConnsRecord
  <2>2. Cardinality(InHand') = Cardinality(InHand) + (1 - 0 - 0 - 0)
    BY <1>4, HandTaken
  <2>3. -1 \in Int /\ conns.waiting + (-1) >= 0
    BY <1>1, <1>4
  <2> QED BY <1>2, <2>1, <2>2, <2>3, CountedConns
<1>5. CASE pj_activesock_start_accept(o)
  <2>1. at[o] = "none" /\ o \notin InHand /\ UNCHANGED res
    BY <1>5 DEF pj_activesock_start_accept, InHand
  <2>2. CASE UNCHANGED conns /\ (Go(o, "failed") \/ Go(o, "pending"))
    <3>1. MovesBoth(o) /\ at'[o] \in {"failed", "pending"}
      BY <1>1, <2>1, <2>2, GoMovesBoth
    <3>2. o \notin InHand'
      BY <3>1 DEF InHand
    <3> QED BY <1>2, <1>3, <2>1, <2>2, <3>1, <3>2
  <2>3. CASE /\ conns.waiting > 0 /\ UNCHANGED at
             /\ conns' = [conns EXCEPT !.waiting = @ - 1, !.accepted = @ + 1, !.closed = @ + 1]
    <3>1. MovesBoth(o) /\ InHand' = InHand
      BY <1>1, <2>1, <2>3, GoMovesBoth DEF InHand
    <3>2. Cardinality(InHand') = Cardinality(InHand) + (1 - 0 - 1 - 0)
      BY <3>1, InHandCounted
    <3>3. -1 \in Int /\ conns.waiting + (-1) >= 0
      BY <1>1, <2>3
    <3>4. Adds(-1, 1, 0, 1, 0)
      BY <1>1, <2>3, ConnsRecord
    <3>5. CountsTyped' /\ ConnectionsAccounted'
      BY <1>2, <3>2, <3>3, <3>4, CountedConns
    <3> QED BY <1>2, <3>1, <3>5
  <2> QED
    BY <1>5, <2>2, <2>3, AcceptedWaited DEF pj_activesock_start_accept
<1>6. CASE AcceptReady(o)
  <2>1. PICK s \in Accepted \cup AcceptErrors : GoWith(o, "accepted", s) /\ Accept(s)
    BY <1>6 DEF AcceptReady
  <2>2. at[o] = "pending" /\ o \notin InHand
    BY <1>6 DEF AcceptReady, InHand
  <2>3. MovesBoth(o) /\ at'[o] = "accepted" /\ res'[o] = s
    BY <1>1, <2>1, GoMovesBoth
  <2>4. o \in InHand' <=> s = SUCCESS
    BY <2>3 DEF InHand
  <2>5. CASE s = SUCCESS
    <3>1. conns.waiting > 0
      BY <2>5, AcceptedWaited
    <3>2. conns' = [conns EXCEPT !.waiting = @ - 1, !.accepted = @ + 1]
      BY <2>1, <2>5 DEF Accept
    <3> QED BY <1>2, <1>4, <2>2, <2>3, <2>4, <2>5, <3>1, <3>2
  <2>6. CASE s # SUCCESS
    BY <1>2, <1>3, <2>1, <2>2, <2>3, <2>4, <2>6 DEF Accept
  <2> QED BY <2>5, <2>6
<1>7. CASE ioqueue_on_accept_complete(o)
  <2>1. MovesBoth(o) /\ at'[o] = (IF shutdown THEN "done" ELSE "judge") /\ res'[o] = res[o]
    BY <1>1, <1>7, GoMovesBoth DEF ioqueue_on_accept_complete
  <2>2. at[o] = "accepted"
    BY <1>7 DEF ioqueue_on_accept_complete
  <2>3. CASE shutdown /\ res[o] = SUCCESS
    <3>1. o \in InHand /\ o \notin InHand'
      BY <2>1, <2>2, <2>3 DEF InHand
    <3>2. Cardinality(InHand') = Cardinality(InHand) + (0 - 0 - 0 - 1)
      BY <2>1, <3>1, HandEmptied, InHandCounted
    <3>3. conns' = [conns EXCEPT !.leaked = @ + 1]
      BY <1>7, <2>3 DEF ioqueue_on_accept_complete
    <3>4. Adds(0, 0, 0, 0, 1)
      BY <1>1, <3>3, ConnsRecord
    <3>5. conns.waiting + 0 >= 0
      BY <1>1
    <3>6. CountsTyped' /\ ConnectionsAccounted'
      BY <1>2, <2>3, <3>2, <3>4, <3>5, CountedConns
    <3> QED BY <1>2, <2>1, <3>6
  <2>4. CASE ~(shutdown /\ res[o] = SUCCESS)
    <3>1. conns' = [conns EXCEPT !.leaked = @ + 0]
      BY <1>7, <2>4 DEF ioqueue_on_accept_complete
    <3>2. UNCHANGED conns
      BY <1>1, <3>1 DEF CountsTyped
    <3>3. o \in InHand <=> o \in InHand'
      BY <2>1, <2>2, <2>4 DEF InHand
    <3> QED BY <1>2, <1>3, <2>1, <3>2, <3>3
  <2> QED BY <2>3, <2>4
<1>8. CASE Judge(o)
  <2>1. /\ at[o] = "judge" /\ MovesBoth(o) /\ res'[o] = res[o]
        /\ at'[o] \in {"done", "callback", "check"}
    BY <1>1, <1>8, GoMovesBoth DEF Judge
  <2>2. o \notin InHand'
    BY <2>1 DEF InHand
  <2>3. CASE res[o] = SUCCESS
    <3>1. o \in InHand
      BY <2>1, <2>3 DEF InHand
    <3>2. Cardinality(InHand') = Cardinality(InHand) + (0 - 1 - 0 - 0)
      BY <2>1, <2>2, <3>1, HandEmptied, InHandCounted
    <3>3. conns' = [conns EXCEPT !.handed = @ + 1]
      BY <1>8, <2>3 DEF Judge
    <3>4. Adds(0, 0, 1, 0, 0)
      BY <1>1, <3>3, ConnsRecord
    <3>5. conns.waiting + 0 >= 0
      BY <1>1
    <3>6. CountsTyped' /\ ConnectionsAccounted'
      BY <1>2, <3>2, <3>4, <3>5, CountedConns
    <3> QED BY <1>2, <2>1, <3>6
  <2>4. CASE res[o] # SUCCESS
    <3>1. conns' = [conns EXCEPT !.handed = @ + 0]
      BY <1>8, <2>4 DEF Judge
    <3>2. UNCHANGED conns
      BY <1>1, <3>1 DEF CountsTyped
    <3>3. o \notin InHand
      BY <2>4 DEF InHand
    <3> QED BY <1>2, <1>3, <2>1, <2>2, <3>2, <3>3
  <2> QED BY <2>3, <2>4
<1>9. CASE AcceptReturns(o) \/ CheckShutdown(o)
  <2>1. UNCHANGED conns /\ at[o] \in {"callback", "check"}
    BY <1>9 DEF AcceptReturns, CheckShutdown, acceptvars
  <2>2. MovesBoth(o) /\ at'[o] \in {"check", "done", "reaccept"}
    BY <1>1, <1>9, GoMovesBoth DEF AcceptReturns, CheckShutdown
  <2>3. o \notin InHand /\ o \notin InHand'
    BY <2>1, <2>2 DEF InHand
  <2> QED BY <1>2, <1>3, <2>1, <2>2, <2>3
<1>10. CASE AcceptNext(o)
  <2>1. PICK s \in IoqAccept(o) :
          /\ Accept(s)
          /\ CASE s = PENDING -> Go(o, "pending") /\ UNCHANGED res
               [] s = CANCELLED -> Go(o, "done") /\ UNCHANGED res
               [] OTHER -> GoWith(o, "judge", s)
    BY <1>10 DEF AcceptNext
  <2>2. at[o] = "reaccept" /\ o \notin InHand
    BY <1>10 DEF AcceptNext, InHand
  <2>3. MovesBoth(o) /\ (at'[o] \in {"pending", "done"} \/ (at'[o] = "judge" /\ res'[o] = s))
    BY <1>1, <2>1, GoMovesBoth
  <2>4. CASE s = SUCCESS
    <3>1. conns.waiting > 0
      BY <2>4, AcceptedWaited
    <3>2. conns' = [conns EXCEPT !.waiting = @ - 1, !.accepted = @ + 1]
      BY <2>1, <2>4 DEF Accept
    <3>3. GoWith(o, "judge", s)
      BY <2>1, <2>4 DEF SUCCESS, PENDING, CANCELLED
    <3>4. o \in InHand'
      BY <1>1, <2>4, <3>3, GoMovesBoth DEF InHand
    <3> QED BY <1>2, <1>4, <2>2, <2>3, <3>1, <3>2, <3>4
  <2>5. CASE s # SUCCESS
    <3>1. UNCHANGED conns
      BY <2>1, <2>5 DEF Accept
    <3>2. o \notin InHand'
      BY <2>3, <2>5 DEF InHand
    <3> QED BY <1>2, <1>3, <2>2, <2>3, <3>1, <3>2
  <2> QED BY <2>4, <2>5
<1> QED
  BY <1>5, <1>6, <1>7, <1>8, <1>9, <1>10 DEF AcceptHandler

(* The inductive invariant of the accepted connections. *)
LEMMA ConnInvHolds == Spec => []ConnInv
<1>1. Init => ConnInv
  <2> SUFFICES ASSUME Init PROVE ConnInv
    OBVIOUS
  <2>0. /\ DOMAIN at = Ops /\ DOMAIN res = Ops /\ shutdown = FALSE /\ write_list = <<>>
        /\ conns = [waiting |-> 0, accepted |-> 0, handed |-> 0, closed |-> 0, leaked |-> 0]
    BY DEF Init
  <2>1. ConnsTyped
    <3>1. CountsTyped
      BY <2>0 DEF CountsTyped
    <3>2. write_list \in Seq(SendOps)
      BY <2>0
    <3>3. DOMAIN at = Ops /\ DOMAIN res = Ops /\ shutdown \in BOOLEAN
      BY <2>0
    <3> QED BY <3>1, <3>2, <3>3, Zenon DEF ConnsTyped
  <2>2. InHand = {}
    BY DEF Init, InHand, Ops
  <2>3. Cardinality(InHand) = 0
    BY <2>2, FS_EmptySet
  <2>4. ConnectionsAccounted
    BY <2>3 DEF Init, ConnectionsAccounted, InHand
  <2> QED BY <2>1, <2>4 DEF ConnInv
<1>2. ConnInv /\ [Next]_vars => ConnInv'
  <2> SUFFICES ASSUME ConnInv, [Next]_vars
               PROVE /\ CountsTyped'
                     /\ DOMAIN at' = Ops /\ DOMAIN res' = Ops /\ shutdown' \in BOOLEAN
                     /\ ConnectionsAccounted'
    BY WriteListTyped DEF ConnInv, ConnsTyped
  <2>1. ASSUME SameConns, DOMAIN at' = Ops, DOMAIN res' = Ops, shutdown' \in BOOLEAN
        PROVE /\ CountsTyped'
              /\ DOMAIN at' = Ops /\ DOMAIN res' = Ops /\ shutdown' \in BOOLEAN
              /\ ConnectionsAccounted'
    BY <2>1, SameConnsKept DEF SameConns, ConnInv, ConnsTyped, CountsTyped
  <2>2. CASE \E o \in ReadOps : pj_activesock_start_read(o) \/ ReadReady(o) \/ ReadHandler(o)
    <3>1. PICK o \in ReadOps : MovesBoth(o) /\ UNCHANGED <<conns, shutdown>>
      BY <2>2, ReadConns
    <3>2. o \in Ops /\ o \notin AcceptOps
      BY ActiveSockAssumption DEF Ops
    <3> QED BY <2>1, <3>1, <3>2, OtherOpsConns DEF ConnInv
  <2>3. CASE \E o \in SendOps : pj_activesock_send(o) \/ WriteReady(o) \/ SendStep(o)
    <3>1. PICK o \in SendOps : MovesBoth(o) /\ UNCHANGED <<conns, shutdown>>
      BY <2>3, SendConns
    <3>2. o \in Ops /\ o \notin AcceptOps
      BY ActiveSockAssumption DEF Ops
    <3> QED BY <2>1, <3>1, <3>2, OtherOpsConns DEF ConnInv
  <2>4. CASE \E o \in ConnectOps : \/ pj_activesock_start_connect(o) \/ ConnectReady(o)
                                   \/ ConnectHandler(o)
    <3>1. PICK o \in ConnectOps : MovesBoth(o) /\ UNCHANGED <<conns, shutdown>>
      BY <2>4, ConnectConns
    <3>2. o \in Ops /\ o \notin AcceptOps
      BY ActiveSockAssumption DEF Ops
    <3> QED BY <2>1, <3>1, <3>2, OtherOpsConns DEF ConnInv
  <2>5. CASE \E o \in AcceptOps : \/ pj_activesock_start_accept(o) \/ AcceptReady(o)
                                  \/ AcceptHandler(o)
    BY <2>5, AcceptConns DEF MovesBoth, ConnInv, ConnsTyped
  <2>6. CASE \E c \in Closers : pj_activesock_close(c) \/ CloseStep(c)
    BY <2>1, <2>6, CloseConns
  <2>7. CASE Arrive \/ HangUp \/ UNCHANGED vars
    <3>1. UNCHANGED <<conns, at, res, shutdown>>
      BY <2>7 DEF Arrive, HangUp, vars, keyvars, acceptvars
    <3> QED BY <2>1, <3>1 DEF SameConns, InHand, ConnInv, ConnsTyped
  <2>8. CASE Connect
    <3>1. conns' = [conns EXCEPT !.waiting = @ + 1] /\ UNCHANGED <<at, res, shutdown>>
      BY <2>8 DEF Connect, keyvars
    <3>2. Adds(1, 0, 0, 0, 0)
      BY <3>1, ConnsRecord DEF ConnInv, ConnsTyped
    <3>3. Cardinality(InHand') = Cardinality(InHand) + (0 - 0 - 0 - 0)
      BY <3>1, InHandCounted DEF InHand
    <3>4. conns.waiting + 1 >= 0
      BY DEF ConnInv, ConnsTyped, CountsTyped
    <3>5. /\ CountsTyped'
          /\ ConnectionsAccounted'
      <4>1. shutdown' = shutdown
        BY <3>1
      <4> QED BY <3>2, <3>3, <3>4, <4>1, CountedConns
    <3> QED BY <3>1, <3>5 DEF ConnInv, ConnsTyped
  <2> QED
    BY <2>2, <2>3, <2>4, <2>5, <2>6, <2>7, <2>8 DEF Next
<1> QED
  BY <1>1, <1>2, PTL DEF Spec

(* Every connection the socket accepted is handed over, closed, or in the   *)
(* hands of a handler; one is dropped unclosed only by a socket that is     *)
(* being closed.  For any number of accept operations and closing threads.  *)
THEOREM NoConnectionLost == Spec => []ConnectionsAccounted
<1>1. ConnInv => ConnectionsAccounted
  BY DEF ConnInv
<1> QED
  BY <1>1, ConnInvHolds, PTL
=============================================================================
