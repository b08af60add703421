------------------------ MODULE ActiveSockSendProofs ------------------------
(* Proofs about the sends of module ActiveSock: every send that returned    *)
(* PJ_EPENDING is answered at most once, and without concurrency exactly    *)
(* once, also when the socket is closed.                                    *)
EXTENDS ActiveSock, TLAPS

(* A step that moves at[o] alone, and where to. *)
Moves(o) == /\ DOMAIN at' = Ops
            /\ \A q \in Ops \ {o} : at'[q] = at[q]

LEMMA GoMoves ==
  ASSUME DOMAIN at = Ops, NEW o \in Ops, NEW p
  PROVE /\ Go(o, p) => Moves(o) /\ at'[o] = p
        /\ \A r : GoWith(o, p, r) => Moves(o) /\ at'[o] = p
        /\ UNCHANGED at => Moves(o) /\ at'[o] = at[o]
BY DEF Go, GoWith, Moves

(* Between PJ_EPENDING and on_data_sent. *)
InFlight == {"pending", "entry", "count", "again", "answer", "cancelled"}

(* Where a send is, what it returned, and how often it was answered. *)
Phase(a, c, n) ==
  \/ a \in {"none", "send", "store", "resend"} /\ c = "none" /\ n = 0
  \/ a \in InFlight /\ c = "pending" /\ n = 0
  \/ a = "done" /\ c = "pending" /\ n = 1
  \/ a = "done" /\ c # "pending" /\ n = 0
  \/ a = "dropped" /\ c = "pending" /\ n = 0

(* The pending writes of the sends, each of them once. *)
WritesListed ==
  /\ write_list \in Seq(SendOps)
  /\ \A i, j \in 1 .. Len(write_list) : write_list[i] = write_list[j] => i = j
  /\ \A i \in 1 .. Len(write_list) : at[write_list[i]] = "pending"
  /\ \A o \in SendOps : at[o] = "pending" => \E i \in 1 .. Len(write_list) : write_list[i] = o

(* pj_ioqueue_unregister has returned: no send is in flight, and as the key *)
(* is closing none will be.  So the clearing of the callbacks drops none.   *)
Drained ==
  ~app.concurrent =>
    /\ unregs > 0 /\ (\A c \in Closers : closer[c] # "drain") =>
         \A o \in SendOps : at[o] \notin InFlight
    /\ \A o \in SendOps : at[o] # "dropped"

Phases == /\ DOMAIN outcome = SendOps /\ DOMAIN answers = SendOps
          /\ \A o \in SendOps : Phase(at[o], outcome[o], answers[o])

SendInv == /\ DOMAIN at = Ops /\ Phases /\ WritesListed /\ Drained
           /\ unregs \in Nat /\ (unregs > 0 <=> closing) /\ DOMAIN closer = Closers

(* The write list of a step that adds o, takes the first one off, or        *)
(* leaves the list and what is pending alone.                               *)
ListStep(o) ==
  \/ UNCHANGED write_list /\ (at'[o] = "pending" <=> at[o] = "pending")
  \/ write_list' = Append(write_list, o) /\ at[o] # "pending" /\ at'[o] = "pending"
  \/ write_list # <<>> /\ o = Head(write_list) /\ write_list' = Tail(write_list)
     /\ at'[o] # "pending"

LEMMA ListKept ==
  ASSUME WritesListed, NEW o \in SendOps, Moves(o), ListStep(o)
  PROVE WritesListed'
<1>1. \A q \in SendOps \ {o} : at'[q] = at[q]
  BY DEF Moves, Ops
<1>2. CASE UNCHANGED write_list /\ (at'[o] = "pending" <=> at[o] = "pending")
  <2>1. \A q \in SendOps : at'[q] = "pending" <=> at[q] = "pending"
    BY <1>1, <1>2
  <2>2. \A i \in 1 .. Len(write_list) : write_list[i] \in SendOps
    BY DEF WritesListed
  <2> QED BY <1>2, <2>1, <2>2 DEF WritesListed
<1>3. CASE write_list' = Append(write_list, o) /\ at[o] # "pending" /\ at'[o] = "pending"
  <2> DEFINE n == Len(write_list)
  <2>1. /\ write_list' \in Seq(SendOps) /\ Len(write_list') = n + 1 /\ n \in Nat
        /\ \A i \in 1 .. n : write_list'[i] = write_list[i] /\ write_list[i] \in SendOps
        /\ write_list'[n + 1] = o
    BY <1>3 DEF WritesListed
  <2>2. \A i \in 1 .. n : write_list[i] # o /\ at[write_list[i]] = "pending"
    BY <1>3 DEF WritesListed
  <2>3. \A i, j \in 1 .. n : write_list[i] = write_list[j] => i = j
    BY DEF WritesListed
  <2>4. \A q \in SendOps : at[q] = "pending" => \E i \in 1 .. n : write_list[i] = q
    BY DEF WritesListed
  <2> HIDE DEF n
  <2>5. \A i \in 1 .. n + 1 : i \in 1 .. n \/ i = n + 1
    BY <2>1
  <2>6. \A i, j \in 1 .. n + 1 : write_list'[i] = write_list'[j] => i = j
    BY <2>1, <2>2, <2>3, <2>5
  <2>7. \A i \in 1 .. n + 1 : at'[write_list'[i]] = "pending"
    BY <1>1, <1>3, <2>1, <2>2, <2>5
  <2>8. \A q \in SendOps : at'[q] = "pending" => \E i \in 1 .. n + 1 : write_list'[i] = q
    <3> SUFFICES ASSUME NEW q \in SendOps, at'[q] = "pending"
                 PROVE \E i \in 1 .. n + 1 : write_list'[i] = q
      OBVIOUS
    <3>1. CASE q = o
      BY <2>1, <3>1
    <3>2. CASE q # o
      <4>1. PICK i \in 1 .. n : write_list[i] = q
        BY <1>1, <2>4, <3>2
      <4> QED BY <2>1, <4>1
    <3> QED BY <3>1, <3>2
  <2> QED BY <2>1, <2>6, <2>7, <2>8 DEF WritesListed
<1>4. CASE /\ write_list # <<>> /\ o = Head(write_list) /\ write_list' = Tail(write_list)
           /\ at'[o] # "pending"
  <2> DEFINE n == Len(write_list)
  <2>1. /\ write_list' \in Seq(SendOps) /\ Len(write_list') = n - 1 /\ n \in Nat /\ n > 0
        /\ \A i \in 1 .. n : write_list[i] \in SendOps
        /\ o = write_list[1]
    BY <1>4 DEF WritesListed
  <2>1a. \A i \in 1 .. n - 1 : write_list'[i] = write_list[i + 1]
    BY <1>4 DEF WritesListed
  <2>2. \A i, j \in 1 .. n : write_list[i] = write_list[j] => i = j
    BY DEF WritesListed
  <2>3. \A i \in 1 .. n : at[write_list[i]] = "pending"
    BY DEF WritesListed
  <2>4. \A q \in SendOps : at[q] = "pending" => \E i \in 1 .. n : write_list[i] = q
    BY DEF WritesListed
  <2> HIDE DEF n
  <2>5. \A i \in 1 .. n - 1 : i + 1 \in 1 .. n /\ i + 1 # 1
    BY <2>1
  <2>6. \A i, j \in 1 .. n - 1 : write_list'[i] = write_list'[j] => i = j
    <3> SUFFICES ASSUME NEW i \in 1 .. n - 1, NEW j \in 1 .. n - 1, write_list'[i] = write_list'[j]
                 PROVE i = j
      OBVIOUS
    <3>1. i + 1 = j + 1
      BY <2>1a, <2>2, <2>5
    <3> QED BY <3>1
  <2>7. \A i \in 1 .. n - 1 : at'[write_list'[i]] = "pending"
    <3> SUFFICES ASSUME NEW i \in 1 .. n - 1 PROVE at'[write_list'[i]] = "pending"
      OBVIOUS
    <3>1. write_list'[i] = write_list[i + 1] /\ i + 1 \in 1 .. n /\ 1 \in 1 .. n
      BY <2>1, <2>1a, <2>5
    <3>2. write_list[i + 1] # o
      BY <2>1, <2>2, <2>5, <3>1
    <3> QED BY <1>1, <2>1, <2>3, <3>1, <3>2
  <2>8. \A q \in SendOps : at'[q] = "pending" => \E i \in 1 .. n - 1 : write_list'[i] = q
    <3> SUFFICES ASSUME NEW q \in SendOps, at'[q] = "pending"
                 PROVE \E i \in 1 .. n - 1 : write_list'[i] = q
      OBVIOUS
    <3>1. q # o
      BY <1>4
    <3>2. PICK i \in 1 .. n : write_list[i] = q
      BY <1>1, <2>4, <3>1
    <3>3. i # 1
      BY <2>1, <3>1, <3>2
    <3>4. i - 1 \in 1 .. n - 1 /\ (i - 1) + 1 = i
      BY <2>1, <3>3
    <3>5. write_list'[i - 1] = q
      BY <2>1a, <3>2, <3>4
    <3> QED BY <3>4, <3>5
  <2> QED BY <2>1, <2>6, <2>7, <2>8 DEF WritesListed
<1> QED
  BY <1>2, <1>3, <1>4 DEF ListStep

(* On a closing key no send becomes pending. *)
LEMMA ClosingRefuses ==
  ASSUME NEW o, NEW m, NEW f, NEW n, NEW r, IoqSend(o, m, f, n, r)
  PROVE /\ closing => r = ERR
        /\ r = PENDING => write_list' = Append(write_list, o)
        /\ r # PENDING => UNCHANGED write_list
<1>1. closing => r = ERR
  BY DEF IoqSend
<1> QED
  BY <1>1 DEF IoqSend

LEMMA ResultKinds ==
  ASSUME NEW r \in Results
  PROVE /\ r \in Int /\ (r = PENDING \/ r = ERR \/ r >= 0)
        /\ r = PENDING => r # ERR /\ ~(r >= 0) /\ r < 0
        /\ r = ERR => r # PENDING /\ ~(r >= 0) /\ r < 0
        /\ r >= 0 => ~(r < 0) /\ r # PENDING /\ r # ERR
BY ActiveSockAssumption DEF Results, PENDING, ERR

(* One step of a send: how it moves on, and what it does to the write list. *)
SendMove(o) ==
  /\ Moves(o) /\ ListStep(o)
  /\ Phase(at'[o], outcome'[o], answers'[o])
  /\ DOMAIN outcome' = SendOps /\ DOMAIN answers' = SendOps
  /\ \A q \in SendOps \ {o} : outcome'[q] = outcome[q] /\ answers'[q] = answers[q]
  /\ closing /\ at[o] \notin InFlight => at'[o] \notin InFlight
  /\ at'[o] = "dropped" => app.concurrent

LEMMA SendFirstMove ==
  ASSUME SendInv, NEW o \in SendOps, SendFirst(o)
  PROVE SendMove(o)
<1>0. MsgLen >= 0
  BY ActiveSockAssumption
<1>1. o \in Ops /\ DOMAIN at = Ops /\ DOMAIN outcome = SendOps
  BY DEF Ops, SendInv, Phases
<1>2. at[o] = "send" /\ UNCHANGED answers /\ outcome[o] = "none" /\ answers[o] = 0
  BY DEF SendFirst, SendInv, Phases, Phase, InFlight
<1>3. PICK r \in Results :
        /\ IoqSend(o, o, 0, MsgLen, r)
        /\ CASE r = PENDING -> GoWith(o, "pending", 0) /\ Return(o, "pending")
             [] r = ERR -> GoWith(o, "done", 0) /\ Return(o, "error")
             [] r = MsgLen \/ (r >= 0 /\ ~app.whole) -> GoWith(o, "done", r) /\ Return(o, "success")
             [] OTHER -> GoWith(o, "store", r) /\ UNCHANGED outcome
  BY DEF SendFirst
<1>4. CASE r = PENDING
  <2>0. write_list' = Append(write_list, o) /\ ~closing
    BY <1>3, <1>4, ResultKinds, ClosingRefuses
  <2>1. GoWith(o, "pending", 0) /\ Return(o, "pending")
    BY <1>0, <1>3, <1>4, ResultKinds
  <2>2. Moves(o) /\ at'[o] = "pending"
    BY <1>1, <2>1, GoMoves
  <2>3. outcome'[o] = "pending" /\ DOMAIN outcome' = SendOps /\ \A q \in SendOps \ {o} : outcome'[q] = outcome[q]
    BY <1>1, <2>1 DEF Return
  <2> QED BY <1>2, <2>0, <2>2, <2>3 DEF SendMove, ListStep, Phase, InFlight, SendInv, Phases
<1>5. CASE r # PENDING
  <2>1. UNCHANGED write_list
    BY <1>3, <1>5, ClosingRefuses
  <2>2. \/ \E p \in Int : GoWith(o, "done", p) /\ (Return(o, "error") \/ Return(o, "success"))
        \/ GoWith(o, "store", r) /\ UNCHANGED outcome
    BY <1>3, <1>5, ResultKinds
  <2>3. CASE \E p \in Int : GoWith(o, "done", p) /\ (Return(o, "error") \/ Return(o, "success"))
    <3>1. Moves(o) /\ at'[o] = "done"
      BY <1>1, <2>3, GoMoves
    <3>2. /\ DOMAIN outcome' = SendOps /\ \A q \in SendOps \ {o} : outcome'[q] = outcome[q]
          /\ outcome'[o] \in {"error", "success"}
      BY <1>1, <2>3 DEF Return
    <3> QED BY <1>2, <2>1, <3>1, <3>2 DEF SendMove, ListStep, Phase, InFlight, SendInv, Phases
  <2>4. CASE GoWith(o, "store", r) /\ UNCHANGED outcome
    <3>1. Moves(o) /\ at'[o] = "store"
      BY <1>1, <2>4, GoMoves
    <3> QED BY <1>2, <2>1, <2>4, <3>1 DEF SendMove, ListStep, Phase, InFlight, SendInv, Phases
  <2> QED BY <2>2, <2>3, <2>4
<1> QED
  BY <1>4, <1>5

LEMMA RemainingMove ==
  ASSUME SendInv, NEW o \in SendOps, send_remaining(o)
  PROVE SendMove(o)
<1>1. o \in Ops /\ DOMAIN at = Ops /\ DOMAIN outcome = SendOps
  BY DEF Ops, SendInv, Phases
<1>2. /\ UNCHANGED answers /\ answers[o] = 0
      /\ \/ at[o] = "resend" /\ outcome[o] = "none"
         \/ at[o] = "again" /\ outcome[o] = "pending"
  BY DEF send_remaining, SendInv, Phases, Phase, InFlight
<1>3. PICK r \in Results :
        LET sent == send_data.sent + (IF r > 0 THEN r ELSE 0)
            over == r >= 0 /\ sent >= send_data.len
        IN /\ IoqSend(o, send_data.of, RestFrom, send_data.len - send_data.sent, r)
           /\ CASE r = PENDING -> GoWith(o, "pending", 0)
                [] r = ERR -> GoWith(o, IF at[o] = "again" THEN "answer" ELSE "done", ERR)
                [] over -> GoWith(o, IF at[o] = "again" THEN "answer" ELSE "done", sent)
                [] OTHER -> UNCHANGED <<at, res>>
           /\ IF at[o] = "resend" /\ (r < 0 \/ over)
              THEN Return(o, CASE r = PENDING -> "pending" [] r = ERR -> "error" [] OTHER -> "success")
              ELSE UNCHANGED outcome
  BY DEF send_remaining
<1> DEFINE sent == send_data.sent + (IF r > 0 THEN r ELSE 0)
           over == r >= 0 /\ sent >= send_data.len
<1>4. /\ IoqSend(o, send_data.of, RestFrom, send_data.len - send_data.sent, r)
      /\ CASE r = PENDING -> GoWith(o, "pending", 0)
           [] r = ERR -> GoWith(o, IF at[o] = "again" THEN "answer" ELSE "done", ERR)
           [] over -> GoWith(o, IF at[o] = "again" THEN "answer" ELSE "done", sent)
           [] OTHER -> UNCHANGED <<at, res>>
      /\ IF at[o] = "resend" /\ (r < 0 \/ over)
         THEN Return(o, CASE r = PENDING -> "pending" [] r = ERR -> "error" [] OTHER -> "success")
         ELSE UNCHANGED outcome
      /\ over => r >= 0
  BY <1>3
<1> HIDE DEF sent, over
<1>5. CASE r = PENDING
  <2>0. write_list' = Append(write_list, o) /\ ~closing
    BY <1>4, <1>5, ResultKinds, ClosingRefuses
  <2>1. GoWith(o, "pending", 0)
    BY <1>4, <1>5, ResultKinds
  <2>2. Moves(o) /\ at'[o] = "pending"
    BY <1>1, <2>1, GoMoves
  <2>3. outcome'[o] = "pending" /\ DOMAIN outcome' = SendOps /\ \A q \in SendOps \ {o} : outcome'[q] = outcome[q]
    BY <1>1, <1>2, <1>4, <1>5, ResultKinds DEF Return
  <2> QED BY <1>2, <2>0, <2>2, <2>3 DEF SendMove, ListStep, Phase, InFlight, SendInv, Phases
<1>6. CASE r # PENDING
  <2>1. UNCHANGED write_list
    BY <1>4, <1>6, ClosingRefuses
  <2>2. CASE r = ERR \/ over
    <3>1. \E p : GoWith(o, IF at[o] = "again" THEN "answer" ELSE "done", p)
      BY <1>4, <1>6, <2>2, ResultKinds
    <3>2. Moves(o) /\ at'[o] = (IF at[o] = "again" THEN "answer" ELSE "done")
      BY <1>1, <3>1, GoMoves
    <3>3. /\ DOMAIN outcome' = SendOps /\ \A q \in SendOps \ {o} : outcome'[q] = outcome[q]
          /\ at[o] = "again" => outcome'[o] = outcome[o]
          /\ at[o] = "resend" => outcome'[o] \in {"error", "success"}
      BY <1>1, <1>2, <1>4, <1>6, <2>2, ResultKinds DEF Return
    <3> QED BY <1>2, <2>1, <3>2, <3>3 DEF SendMove, ListStep, Phase, InFlight, SendInv, Phases
  <2>3. CASE ~(r = ERR \/ over)
    <3>1. UNCHANGED <<at, res, outcome>>
      BY <1>4, <1>6, <2>3, ResultKinds
    <3>2. Moves(o) /\ at'[o] = at[o]
      BY <1>1, <3>1, GoMoves
    <3> QED BY <1>2, <2>1, <3>1, <3>2 DEF SendMove, ListStep, SendInv, Phases
  <2> QED BY <2>2, <2>3
<1> QED
  BY <1>5, <1>6

LEMMA SendCallMove ==
  ASSUME SendInv, NEW o \in SendOps, pj_activesock_send(o)
  PROVE SendMove(o)
<1>1. o \in Ops /\ DOMAIN at = Ops /\ DOMAIN outcome = SendOps
  BY DEF Ops, SendInv, Phases
<1>2. /\ at[o] = "none" /\ UNCHANGED <<res, write_list, answers>>
      /\ outcome[o] = "none" /\ answers[o] = 0 /\ DOMAIN answers = SendOps
  BY DEF pj_activesock_send, MaySend, SendInv, Phases, Phase, InFlight
<1>3. CASE shutdown
  <2>1. Go(o, "done") /\ Return(o, "error")
    BY <1>3 DEF pj_activesock_send
  <2>2. Moves(o) /\ at'[o] = "done"
    BY <1>1, <1>2, <2>1, GoMoves
  <2>3. outcome'[o] = "error" /\ DOMAIN outcome' = SendOps /\ \A q \in SendOps \ {o} : outcome'[q] = outcome[q]
    BY <1>1, <2>1 DEF Return
  <2> QED BY <1>2, <2>2, <2>3 DEF SendMove, ListStep, Phase, InFlight
<1>4. CASE ~shutdown
  <2>1. Go(o, "send") /\ UNCHANGED outcome
    BY <1>4 DEF pj_activesock_send
  <2>2. Moves(o) /\ at'[o] = "send"
    BY <1>1, <1>2, <2>1, GoMoves
  <2> QED BY <1>1, <1>2, <2>1, <2>2 DEF SendMove, ListStep, Phase, InFlight
<1> QED
  BY <1>3, <1>4

LEMMA WriteReadyMove ==
  ASSUME SendInv, NEW o \in SendOps, WriteReady(o)
  PROVE SendMove(o)
<1>1. o \in Ops /\ DOMAIN at = Ops /\ DOMAIN outcome = SendOps /\ DOMAIN answers = SendOps
  BY DEF Ops, SendInv, Phases
<1>2. write_list # <<>> /\ o = Head(write_list) /\ UNCHANGED <<outcome, answers>>
  BY DEF WriteReady
<1>3. at[o] = "pending"
  <2>1. 1 \in 1 .. Len(write_list) /\ o = write_list[1]
    BY <1>2 DEF SendInv, WritesListed
  <2> QED BY <2>1 DEF SendInv, WritesListed
<1>4. outcome[o] = "pending" /\ answers[o] = 0
  BY <1>3 DEF SendInv, Phases, Phase, InFlight
<1>5. \/ UNCHANGED <<write_list, at, res>>
      \/ write_list' = Tail(write_list) /\ \E r : GoWith(o, "entry", r)
  BY DEF WriteReady
<1>6. CASE UNCHANGED <<write_list, at, res>>
  <2>1. Moves(o) /\ at'[o] = at[o]
    BY <1>1, <1>6, GoMoves
  <2> QED BY <1>1, <1>2, <1>3, <1>4, <1>6, <2>1 DEF SendMove, ListStep, Phase, InFlight
<1>7. CASE write_list' = Tail(write_list) /\ \E r : GoWith(o, "entry", r)
  <2>1. Moves(o) /\ at'[o] = "entry"
    BY <1>1, <1>7, GoMoves
  <2> QED BY <1>1, <1>2, <1>3, <1>4, <1>7, <2>1 DEF SendMove, ListStep, Phase, InFlight
<1> QED
  BY <1>5, <1>6, <1>7

(* The steps that do not touch the write list. *)
LEMMA HandlerMove ==
  ASSUME SendInv, NEW o \in SendOps,
         \/ StoreSendData(o) \/ ioqueue_on_write_complete(o) \/ WriteNotCalled(o)
         \/ CountSent(o) \/ OnDataSent(o)
  PROVE SendMove(o)
<1>1. o \in Ops /\ DOMAIN at = Ops /\ DOMAIN outcome = SendOps /\ DOMAIN answers = SendOps
  BY DEF Ops, SendInv, Phases
<1>2. UNCHANGED <<write_list, outcome>> /\ Phase(at[o], outcome[o], answers[o])
  BY DEF StoreSendData, ioqueue_on_write_complete, WriteNotCalled, CountSent, OnDataSent, sendvars,
     SendInv, Phases
<1>3. ASSUME UNCHANGED answers, NEW p, Moves(o), at'[o] = p,
             \/ at[o] = "store" /\ p = "resend"
             \/ at[o] \in {"entry", "count"} /\ p \in {"count", "again", "answer"}
      PROVE SendMove(o)
  BY <1>1, <1>2, <1>3 DEF SendMove, ListStep, Phase, InFlight
<1>4. CASE StoreSendData(o)
  <2>1. at[o] = "store" /\ UNCHANGED answers /\ Go(o, "resend") /\ UNCHANGED res
    BY <1>4 DEF StoreSendData
  <2>2. Moves(o) /\ at'[o] = "resend"
    BY <1>1, <2>1, GoMoves
  <2> QED BY <1>3, <2>1, <2>2
<1>5. CASE ioqueue_on_write_complete(o)
  <2>1. at[o] = "entry" /\ UNCHANGED answers /\ UNCHANGED res /\ (Go(o, "answer") \/ Go(o, "count"))
    BY <1>5 DEF ioqueue_on_write_complete, sendvars
  <2>2. Moves(o) /\ at'[o] \in {"answer", "count"}
    BY <1>1, <2>1, GoMoves
  <2> QED BY <1>3, <2>1, <2>2
<1>6. CASE CountSent(o)
  <2>1. /\ at[o] = "count" /\ UNCHANGED answers
        /\ \/ \E r : GoWith(o, "answer", r)
           \/ Go(o, "again") /\ UNCHANGED res
           \/ Go(o, "answer") /\ UNCHANGED res
    BY <1>6 DEF CountSent
  <2>2. Moves(o) /\ at'[o] \in {"answer", "again"}
    BY <1>1, <2>1, GoMoves
  <2> QED BY <1>3, <2>1, <2>2
<1>7. CASE OnDataSent(o)
  <2>1. /\ at[o] \in {"answer", "cancelled"} /\ Go(o, "done") /\ UNCHANGED res
        /\ answers' = [answers EXCEPT ![o] = @ + 1]
    BY <1>7 DEF OnDataSent
  <2>2. Moves(o) /\ at'[o] = "done"
    BY <1>1, <2>1, GoMoves
  <2>3. outcome[o] = "pending" /\ answers[o] = 0
    BY <1>2, <2>1 DEF Phase, InFlight
  <2>4a. answers' = [answers EXCEPT ![o] = 1]
    BY <2>1, <2>3
  <2>4. answers'[o] = 1 /\ DOMAIN answers' = SendOps /\ \A q \in SendOps \ {o} : answers'[q] = answers[q]
    BY <1>1, <2>4a, Zenon
  <2> QED BY <1>1, <1>2, <2>1, <2>2, <2>3, <2>4 DEF SendMove, ListStep, Phase, InFlight
<1>8. CASE WriteNotCalled(o)
  <2>1. at[o] = "entry" /\ UNCHANGED answers /\ UNCHANGED res /\ Go(o, "dropped") /\ CallbacksCleared
    BY <1>8 DEF WriteNotCalled, sendvars
  <2>2. Moves(o) /\ at'[o] = "dropped"
    BY <1>1, <2>1, GoMoves
  <2>3. app.concurrent
    BY <2>1 DEF CallbacksCleared, SendInv, Drained, InFlight
  <2>4. outcome[o] = "pending" /\ answers[o] = 0
    BY <1>2, <2>1 DEF Phase, InFlight
  <2> QED BY <1>1, <1>2, <2>1, <2>2, <2>3, <2>4 DEF SendMove, ListStep, Phase, InFlight
<1> QED
  BY <1>4, <1>5, <1>6, <1>7, <1>8

(* A send step keeps the invariant. *)
LEMMA MoveKeeps ==
  ASSUME SendInv, NEW o \in SendOps, SendMove(o), UNCHANGED <<app, closer, closing, unregs>>
  PROVE SendInv'
<1>1. \A q \in SendOps \ {o} : at'[q] = at[q]
  BY DEF SendMove, Moves, Ops
<1>2. Phases'
  BY <1>1 DEF SendMove, SendInv, Phases
<1>3. WritesListed'
  BY ListKept DEF SendMove, SendInv
<1>4. Drained'
  BY <1>1 DEF SendMove, SendInv, Drained
<1> QED
  BY <1>2, <1>3, <1>4 DEF SendInv, SendMove, Moves

LEMMA SendKeeps ==
  ASSUME SendInv, NEW o \in SendOps, pj_activesock_send(o) \/ WriteReady(o) \/ SendStep(o)
  PROVE SendInv'
<1>1. SendMove(o)
  BY SendCallMove, WriteReadyMove, SendFirstMove, RemainingMove, HandlerMove DEF SendStep
<1>2. UNCHANGED <<app, closer, closing, unregs>>
  BY DEF pj_activesock_send, WriteReady, SendStep, SendFirst, StoreSendData, send_remaining,
     ioqueue_on_write_complete, WriteNotCalled, CountSent, OnDataSent, keyvars
<1> QED
  BY <1>1, <1>2, MoveKeeps

(* A step that leaves the sends alone, of another operation or of none. *)
SendsLeft == /\ DOMAIN at' = Ops
             /\ UNCHANGED <<app, write_list, outcome, answers>>
             /\ \A q \in SendOps : at'[q] = at[q]

KeyLeft == UNCHANGED <<closer, closing, unregs>>

LEMMA LeftKeeps ==
  ASSUME SendInv, SendsLeft, unregs' \in Nat, unregs' > 0 <=> closing', DOMAIN closer' = Closers,
         Drained'
  PROVE SendInv'
<1>1. Phases'
  BY DEF SendsLeft, SendInv, Phases
<1>2. WritesListed'
  <2>1. write_list' = write_list /\ \A i \in 1 .. Len(write_list) : write_list[i] \in SendOps
    BY DEF SendsLeft, SendInv, WritesListed
  <2> QED BY <2>1 DEF SendsLeft, SendInv, WritesListed
<1> QED
  BY <1>1, <1>2 DEF SendInv, SendsLeft

LEMMA OthersKeep ==
  ASSUME SendInv, SendsLeft, KeyLeft
  PROVE SendInv'
<1>1. Drained'
  BY DEF SendsLeft, SendInv, Drained, KeyLeft
<1> QED
  BY <1>1, LeftKeeps DEF SendInv, KeyLeft

LEMMA OtherMoves ==
  ASSUME NEW o \in Ops \ SendOps, Moves(o), UNCHANGED <<app, write_list, outcome, answers>>
  PROVE SendsLeft
BY DEF SendsLeft, Moves, Ops

LEMMA ReadLeaves ==
  ASSUME SendInv, NEW o \in ReadOps, pj_activesock_start_read(o) \/ ReadReady(o) \/ ReadHandler(o)
  PROVE SendsLeft /\ KeyLeft
<1>1. o \in Ops \ SendOps /\ DOMAIN at = Ops
  BY ActiveSockAssumption DEF Ops, SendInv
<1>2. KeyLeft /\ UNCHANGED <<app, write_list, outcome, answers>>
  BY DEF pj_activesock_start_read, ReadReady, ReadHandler, ioqueue_on_read_complete, OnData,
     OnError, OnEmptyDatagram, OnIgnored, CallbackReturns, ReadNext, keyvars, sendvars, KeyLeft
<1>3. \E p : Go(o, p)
  <2>1. CASE pj_activesock_start_read(o) \/ ReadReady(o) \/ ioqueue_on_read_complete(o)
    BY <2>1 DEF pj_activesock_start_read, ReadReady, ioqueue_on_read_complete, GoWith
  <2>2. CASE OnData(o) \/ OnError(o) \/ OnEmptyDatagram(o) \/ OnIgnored(o)
    BY <2>2 DEF OnData, OnError, OnEmptyDatagram, OnIgnored
  <2>3. CASE CallbackReturns(o)
    BY <2>3 DEF CallbackReturns
  <2>4. CASE ReadNext(o)
    BY <2>4 DEF ReadNext, GoWith
  <2> QED BY <2>1, <2>2, <2>3, <2>4 DEF ReadHandler
<1> QED
  BY <1>1, <1>2, <1>3, GoMoves, OtherMoves

LEMMA AcceptLeaves ==
  ASSUME SendInv, NEW o \in AcceptOps,
         pj_activesock_start_accept(o) \/ AcceptReady(o) \/ AcceptHandler(o)
  PROVE SendsLeft /\ KeyLeft
<1>1. o \in Ops \ SendOps /\ DOMAIN at = Ops
  BY ActiveSockAssumption DEF Ops, SendInv
<1>2. KeyLeft /\ UNCHANGED <<app, write_list, outcome, answers>>
  BY DEF pj_activesock_start_accept, AcceptReady, AcceptHandler, ioqueue_on_accept_complete,
     Judge, AcceptReturns, CheckShutdown, AcceptNext, keyvars, sendvars, KeyLeft
<1>3. UNCHANGED at \/ \E p : Go(o, p)
  <2>1. CASE pj_activesock_start_accept(o)
    BY <2>1 DEF pj_activesock_start_accept
  <2>2. CASE AcceptReady(o) \/ ioqueue_on_accept_complete(o) \/ CheckShutdown(o) \/ AcceptReturns(o)
    BY <2>2 DEF AcceptReady, ioqueue_on_accept_complete, CheckShutdown, AcceptReturns, GoWith
  <2>3. CASE Judge(o)
    BY <2>3 DEF Judge
  <2>4. CASE AcceptNext(o)
    BY <2>4 DEF AcceptNext, GoWith
  <2> QED BY <2>1, <2>2, <2>3, <2>4 DEF AcceptHandler
<1> QED
  BY <1>1, <1>2, <1>3, GoMoves, OtherMoves

LEMMA ConnectLeaves ==
  ASSUME SendInv, NEW o \in ConnectOps,
         pj_activesock_start_connect(o) \/ ConnectReady(o) \/ ConnectHandler(o)
  PROVE SendsLeft /\ KeyLeft
<1>1. o \in Ops \ SendOps /\ DOMAIN at = Ops
  BY ActiveSockAssumption DEF Ops, SendInv
<1>2. KeyLeft /\ UNCHANGED <<app, write_list, outcome, answers>>
  BY DEF pj_activesock_start_connect, ConnectReady, ConnectHandler,
     ioqueue_on_connect_complete, ConnectReturns, keyvars, sendvars, KeyLeft
<1>3. \E p : Go(o, p)
  BY DEF pj_activesock_start_connect, ConnectReady, ConnectHandler,
     ioqueue_on_connect_complete, ConnectReturns
<1> QED
  BY <1>1, <1>2, <1>3, GoMoves, OtherMoves

(* Closing: pj_ioqueue_unregister returns when nothing is in flight. *)
LEMMA CloseKeeps ==
  ASSUME SendInv, NEW c \in Closers, pj_activesock_close(c) \/ CloseStep(c)
  PROVE SendInv'
<1>1. DOMAIN closer = Closers /\ unregs \in Nat /\ Drained /\ Phases /\ WritesListed
      /\ DOMAIN at = Ops /\ SendOps \subseteq Ops
  BY DEF SendInv, Ops
<1>2. CASE pj_activesock_close(c) \/ TakeKey(c)
  <2>1. /\ SendsLeft /\ UNCHANGED <<closing, unregs>> /\ closer[c] # "drain"
        /\ \E p : p # "drain" /\ closer' = [closer EXCEPT ![c] = p]
    BY <1>1, <1>2 DEF pj_activesock_close, TakeKey, SendsLeft, sendvars
  <2>2. DOMAIN closer' = Closers /\ \A d \in Closers : d # c => closer'[d] = closer[d]
    BY <1>1, <2>1
  <2>3. Drained'
    BY <1>1, <2>1, <2>2 DEF Drained, SendsLeft
  <2> QED BY <2>1, <2>2, <2>3, LeftKeeps DEF SendInv
<1>3. CASE Unregister(c)
  <2>1. /\ UNCHANGED <<app, write_list, outcome, answers>> /\ closing' = TRUE /\ unregs' = unregs + 1
        /\ closer' = [closer EXCEPT ![c] = "drain"]
        /\ at' = [o \in Ops |-> IF at[o] = "pending" /\ o \notin SendOps THEN "done" ELSE at[o]]
    BY <1>3 DEF Unregister, sendvars
  <2>2. SendsLeft
    BY <1>1, <2>1 DEF SendsLeft
  <2>3. DOMAIN closer' = Closers /\ closer'[c] = "drain" /\ unregs' \in Nat /\ unregs' > 0
    BY <1>1, <2>1
  <2>4. Drained'
    BY <1>1, <2>2, <2>3 DEF Drained, SendsLeft
  <2> QED BY <2>1, <2>2, <2>3, <2>4, LeftKeeps
<1>4. CASE CancelWrite(c)
  <2> DEFINE o == Head(write_list)
  <2>1. /\ UNCHANGED <<app, closer, closing, unregs, outcome, answers>> /\ closer[c] = "drain"
        /\ write_list # <<>> /\ write_list' = Tail(write_list) /\ GoWith(o, "cancelled", ERR)
    BY <1>4 DEF CancelWrite, keyvars
  <2>2. o \in SendOps /\ at[o] = "pending"
    <3>1. 1 \in 1 .. Len(write_list) /\ o = write_list[1]
      BY <1>1, <2>1 DEF WritesListed
    <3> QED BY <1>1, <3>1 DEF WritesListed
  <2>3. o = Head(write_list)
    OBVIOUS
  <2> HIDE DEF o
  <2>4. Moves(o) /\ at'[o] = "cancelled"
    BY <1>1, <2>1, <2>2, GoMoves
  <2>5. SendMove(o)
    BY <1>1, <2>1, <2>2, <2>3, <2>4 DEF SendMove, ListStep, Phases, Phase, InFlight
  <2> QED BY <2>1, <2>2, <2>5, MoveKeeps
<1>5. CASE CloseReturns(c)
  <2>1. /\ SendsLeft /\ UNCHANGED <<closing, unregs>> /\ write_list = <<>> /\ WriteHandlersDone
        /\ closer' = [closer EXCEPT ![c] = "done"]
    BY <1>1, <1>5 DEF CloseReturns, SendsLeft, sendvars
  <2>2. DOMAIN closer' = Closers
    BY <1>1, <2>1
  <2>2a. Len(write_list) = 0
    BY <2>1
  <2>3. \A q \in SendOps : at[q] # "pending"
    BY <1>1, <2>2a DEF WritesListed
  <2>4. ~app.concurrent => \A q \in SendOps : at[q] \notin InFlight
    BY <2>1, <2>3 DEF WriteHandlersDone, InHandler, Resting, Calling, InFlight
  <2>5. Drained'
    BY <1>1, <2>1, <2>4 DEF Drained, SendsLeft
  <2> QED BY <2>1, <2>2, <2>5, LeftKeeps DEF SendInv
<1> QED
  BY <1>2, <1>3, <1>4, <1>5 DEF CloseStep

(* on_data_sent is called at most once for a send that returned PJ_EPENDING *)
(* and never for another one; without concurrency none is owed once the     *)
(* close has returned.                                                      *)
THEOREM EverySendAnsweredOnce == Spec => []SendsAnsweredOnce
<1>1. Init => SendInv
  <2> SUFFICES ASSUME Init PROVE SendInv
    OBVIOUS
  <2>1. write_list = <<>> /\ unregs = 0 /\ closing = FALSE /\ DOMAIN closer = Closers
    BY DEF Init
  <2>2. Phases /\ \A o \in SendOps : at[o] = "none"
    BY DEF Init, Phases, Phase, Ops
  <2>3. WritesListed
    BY <2>1, <2>2 DEF WritesListed
  <2>4. DOMAIN at = Ops
    BY DEF Init
  <2> QED BY <2>1, <2>2, <2>3, <2>4 DEF SendInv, Drained
<1>2. SendInv /\ [Next]_vars => SendInv'
  <2> SUFFICES ASSUME SendInv, [Next]_vars PROVE SendInv'
    OBVIOUS
  <2>1. ASSUME NEW o \in ReadOps, pj_activesock_start_read(o) \/ ReadReady(o) \/ ReadHandler(o)
        PROVE SendInv'
    BY <2>1, ReadLeaves, OthersKeep
  <2>2. ASSUME NEW o \in SendOps, pj_activesock_send(o) \/ WriteReady(o) \/ SendStep(o)
        PROVE SendInv'
    BY <2>2, SendKeeps
  <2>3. ASSUME NEW o \in AcceptOps,
               pj_activesock_start_accept(o) \/ AcceptReady(o) \/ AcceptHandler(o)
        PROVE SendInv'
    BY <2>3, AcceptLeaves, OthersKeep
  <2>4. ASSUME NEW o \in ConnectOps,
               pj_activesock_start_connect(o) \/ ConnectReady(o) \/ ConnectHandler(o)
        PROVE SendInv'
    BY <2>4, ConnectLeaves, OthersKeep
  <2>5. ASSUME NEW c \in Closers, pj_activesock_close(c) \/ CloseStep(c)
        PROVE SendInv'
    BY <2>5, CloseKeeps
  <2>6. CASE Arrive \/ HangUp \/ Connect \/ UNCHANGED vars
    <3>1. SendsLeft /\ KeyLeft
      BY <2>6 DEF Arrive, HangUp, Connect, vars, keyvars, sendvars, SendsLeft, KeyLeft, SendInv
    <3> QED BY <3>1, OthersKeep
  <2> QED BY <2>1, <2>2, <2>3, <2>4, <2>5, <2>6 DEF Next
<1>3. SendInv => SendsAnsweredOnce
  <2> SUFFICES ASSUME SendInv PROVE SendsAnsweredOnce
    OBVIOUS
  <2>1. \A o \in SendOps : answers[o] <= IF outcome[o] = "pending" THEN 1 ELSE 0
    BY DEF SendInv, Phases, Phase
  <2>2. ASSUME ~app.concurrent, unregs > 0, \A c \in Closers : closer[c] \in {"none", "done"},
               NEW o \in SendOps, outcome[o] = "pending"
        PROVE answers[o] = 1
    <3>1. at[o] \notin InFlight
      BY <2>2 DEF SendInv, Drained
    <3> QED BY <2>2, <3>1 DEF SendInv, Phases, Phase, Drained
  <2> QED BY <2>1, <2>2 DEF SendsAnsweredOnce
<1> QED
  BY <1>1, <1>2, <1>3, PTL DEF Spec
=============================================================================
