--------------------------- MODULE WsClientProofs ---------------------------
(***************************************************************************)
(* Proofs about WsClient, for any set of calls and of hashes and any       *)
(* number of messages: type correctness, the safety invariants of the      *)
(* module, and that it implements BlockingCall.                            *)
(***************************************************************************)
EXTENDS WsClient, TLAPS

\* What the parsers return has its type, and says NoText only where the code
\* has None (parse_status, result_from_json_response).
LEMMA ParsersType ==
  ASSUME NEW m \in Msgs
  PROVE  /\ parse_status(m).text \in Texts
         /\ result_from_json_response(m).text \in Texts
         /\ result_to_string(m) \in Texts
  BY NoHashAssumption
     DEF Msgs, HashShapes, PlainShapes, Texts, Forms, Plain, NoText, Ok, Err,
         Panic, parse_status, result_from_json_response, result_to_string,
         into_extrinsic_err

\* Whatever the message, a handler has an effect of the right type.
LEMMA HandlerType ==
  ASSUME NEW k \in Kinds, NEW m \in Msgs
  PROVE  on_message_fn(k, m) \in Effects
  <1>1. /\ NoText \in Texts
        /\ EmptyText \in Texts
    BY DEF Texts, Forms, NoText, EmptyText, Plain
  <1>2. Keep \in Effects /\ Crash \in Effects
    BY <1>1 DEF Keep, Crash, Effects
  <1>3. \A t \in Texts : end_process(t) \in Effects
    BY <1>1 DEF end_process, Effects
  <1>4. \A S : on_extrinsic_msg_until(m, S) \in Effects
    BY <1>1, <1>2, <1>3, ParsersType DEF on_extrinsic_msg_until
  <1>5. on_extrinsic_msg_submit_only(m) \in Effects
    BY <1>1, <1>2, <1>3, ParsersType DEF on_extrinsic_msg_submit_only
  <1>6. on_get_request_msg(m) \in Effects
    BY <1>1, ParsersType DEF on_get_request_msg, Effects
  <1> QED
    BY <1>2, <1>4, <1>5, <1>6
       DEF on_message_fn, on_extrinsic_msg_until_finalized,
           on_extrinsic_msg_until_in_block, on_extrinsic_msg_until_broadcast,
           on_extrinsic_msg_until_ready

\* A handler sends a string exactly for the messages that end the wait, and
\* then it closes the socket, does not panic, and the caller makes of the
\* string the answer the abstract specification gives to the message.
LEMMA HandlerSpec ==
  ASSUME NEW k \in Kinds, NEW m \in Msgs
  PROVE  LET e == on_message_fn(k, m) IN
         /\ e.text # NoText <=> m.shape \in BC!Ends(k)
         /\ m.shape \in BC!Ends(k) =>
              /\ e.close
              /\ ~ e.panic
              /\ result_out(k, e.text) = BC!Answer(k, m)
  <1> USE NoHashAssumption
      DEF Msgs, HashShapes, PlainShapes, Plain, NoText, EmptyText, BC!Ends,
          BC!Answer, BC!PlainShapes, BC!HashShapes, BC!Plain, BC!NoText,
          BC!Some, BC!None, BC!Failed, Some, None, Failed, end_process,
          Keep, Crash, Ok, Err, Panic, into_extrinsic_err
  <1>0. \A x \in {"Finalized", "InBlock"} :
          result_out(x, EmptyText) = Failed("InvalidHexString")
    BY DEF result_out, from_hex
  <1>1. CASE k = "get"
    BY <1>1 DEF on_message_fn, on_get_request_msg, result_to_string,
                result_out, _get_request
  <1>2. CASE k = "Finalized"
    <2>1. CASE m.shape \in {"finalized", "inBlock"} /\ m.hash # NoHash
      BY <1>2, <2>1 DEF on_message_fn, on_extrinsic_msg_until_finalized,
                        on_extrinsic_msg_until, parse_status, result_out, from_hex
    <2>2. CASE m.shape \in {"finalized", "inBlock"} /\ m.hash = NoHash
      BY <1>2, <2>2 DEF on_message_fn, on_extrinsic_msg_until_finalized,
                        on_extrinsic_msg_until, parse_status, result_out, from_hex
    <2>3. CASE m.shape \notin {"finalized", "inBlock"}
      BY <1>0, <1>2, <2>3 DEF on_message_fn, on_extrinsic_msg_until_finalized,
                        on_extrinsic_msg_until, parse_status
    <2> QED
      BY <2>1, <2>2, <2>3
  <1>3. CASE k = "InBlock"
    <2>1. CASE m.shape \in {"finalized", "inBlock"} /\ m.hash # NoHash
      BY <1>3, <2>1 DEF on_message_fn, on_extrinsic_msg_until_in_block,
                        on_extrinsic_msg_until, parse_status, result_out, from_hex
    <2>2. CASE m.shape \in {"finalized", "inBlock"} /\ m.hash = NoHash
      BY <1>3, <2>2 DEF on_message_fn, on_extrinsic_msg_until_in_block,
                        on_extrinsic_msg_until, parse_status, result_out, from_hex
    <2>3. CASE m.shape \notin {"finalized", "inBlock"}
      BY <1>0, <1>3, <2>3 DEF on_message_fn, on_extrinsic_msg_until_in_block,
                        on_extrinsic_msg_until, parse_status
    <2> QED
      BY <2>1, <2>2, <2>3
  <1>4. CASE k = "Broadcast"
    BY <1>4 DEF on_message_fn, on_extrinsic_msg_until_broadcast,
                on_extrinsic_msg_until, parse_status, result_out, from_hex
  <1>5. CASE k = "Ready"
    BY <1>5 DEF on_message_fn, on_extrinsic_msg_until_ready,
                on_extrinsic_msg_until, parse_status, result_out, from_hex
  <1>6. CASE k = "SubmitOnly"
    BY <1>6 DEF on_message_fn, on_extrinsic_msg_submit_only,
                result_from_json_response,
                result_out
  <1>7. CASE k \in XtStatus \ Waitable
    BY <1>7 DEF on_message_fn, XtStatus, Waitable
  <1> QED
    BY <1>1, <1>2, <1>3, <1>4, <1>5, <1>6, <1>7 DEF Kinds, XtStatus, Waitable

----------------------------------------------------------------------------
\* The return values the client builds are return values.
LEMMA ReturnType ==
  /\ Pending \in Returns
  /\ \A e \in Errors : Failed(e) \in Returns
  /\ \A k \in Kinds, t \in Texts : result_out(k, t) \in Returns
  BY DEF Returns, Errors, Failed, Pending, Texts, Forms, NoText, Plain, Some,
         None, result_out, _get_request, from_hex

\* Starting the thread of a call keeps the types of what it changes.
LEMMA StartType ==
  ASSUME TypeOK, NEW c \in Calls, start_rpc_client_thread(c)
  PROVE  /\ caller' \in [Calls -> {"idle", "waiting", "done"}]
         /\ ret' \in [Calls -> Returns]
         /\ thread' \in [Calls -> ThreadStates]
  <1>1. CASE UNCHANGED ret
    BY <1>1 DEF start_rpc_client_thread, Finish, TypeOK, ThreadStates
  <1>2. CASE Finish(c, Failed("WebSocket")) /\ UNCHANGED thread
    BY <1>2, ReturnType DEF Finish, TypeOK, Errors
  <1> QED
    BY <1>1, <1>2 DEF start_rpc_client_thread

\* Every variable keeps its type: a channel holds strings, a call returns a
\* value of its ApiResult (all operations of WsRpcClient).
THEOREM TypeCorrect == Spec => []TypeOK
  <1>1. Init => TypeOK
    BY ReturnType DEF Init, TypeOK, Kinds, ThreadStates
  <1>2. TypeOK /\ [Next]_vars => TypeOK'
    <2> SUFFICES ASSUME TypeOK, [Next]_vars
                 PROVE  TypeOK'
      OBVIOUS
    <2> USE DEF TypeOK
    <2>0. <<>> \in Seq(Msgs)
      OBVIOUS
    <2>1. ASSUME NEW c \in Calls, get_request(c)
          PROVE  TypeOK'
      <3>1. kind' \in [Calls -> Kinds]
        BY <2>1 DEF get_request, Kinds
      <3> QED
        BY <2>1, <3>1, StartType DEF get_request
    <2>2. ASSUME NEW c \in Calls, NEW exit_on \in XtStatus,
                 send_extrinsic(c, exit_on)
          PROVE  TypeOK'
      <3>1. kind' \in [Calls -> Kinds]
        BY <2>2 DEF send_extrinsic, Kinds
      <3>2. CASE exit_on \in Waitable
        BY <2>2, <3>1, <3>2, StartType DEF send_extrinsic
      <3>3. CASE exit_on \notin Waitable
        BY <2>2, <3>1, <3>3, ReturnType DEF send_extrinsic, Finish, Errors
      <3> QED
        BY <3>2, <3>3
    <2>3. ASSUME NEW c \in Calls, on_open(c)
          PROVE  TypeOK'
      BY <2>3 DEF on_open, callVars, ThreadStates
    <2>4. ASSUME NEW c \in Calls, ConnectionFails(c) \/ CloseHandshake(c)
          PROVE  TypeOK'
      <3>1. inbox' = [inbox EXCEPT ![c] = <<>>]
        BY <2>4 DEF ConnectionFails, CloseHandshake, connect_returns
      <3>2. inbox' \in [Calls -> Seq(Msgs)]
        BY <2>0, <3>1
      <3> QED
        BY <2>4, <3>2 DEF ConnectionFails, CloseHandshake, connect_returns,
                          callVars, ThreadStates
    <2>5. ASSUME NEW c \in Calls, NEW m \in Msgs, NodeSends(c, m)
          PROVE  TypeOK'
      BY <2>5 DEF NodeSends, callVars
    <2>6. ASSUME NEW c \in Calls, on_message(c)
          PROVE  TypeOK'
      <3> DEFINE m == Head(inbox[c])
                 effect == on_message_fn(kind[c], m)
      <3>1. m \in Msgs /\ Tail(inbox[c]) \in Seq(Msgs)
        BY <2>6 DEF on_message
      <3>2. effect.text \in Texts
        BY <3>1, HandlerType DEF Effects
      <3>3. /\ heard' = [heard EXCEPT ![c] = Append(heard[c], m)]
            /\ \/ inbox' = [inbox EXCEPT ![c] = <<>>]
               \/ inbox' = [inbox EXCEPT ![c] = Tail(inbox[c])]
            /\ \E t \in ThreadStates : thread' = [thread EXCEPT ![c] = t]
            /\ \/ chan' = [chan EXCEPT ![c] = chan[c]]
               \/ chan' = [chan EXCEPT ![c] = Append(chan[c], effect.text)]
            /\ UNCHANGED callVars
        BY <2>6 DEF on_message, ThreadStates
      <3> HIDE DEF m, effect
      <3>4. inbox' \in [Calls -> Seq(Msgs)]
        <4>1. CASE inbox' = [inbox EXCEPT ![c] = <<>>]
          BY <2>0, <4>1
        <4>2. CASE inbox' = [inbox EXCEPT ![c] = Tail(inbox[c])]
          BY <3>1, <4>2
        <4> QED
          BY <3>3, <4>1, <4>2
      <3>5. heard' \in [Calls -> Seq(Msgs)]
        BY <3>1, <3>3
      <3>6. chan' \in [Calls -> Seq(Texts)]
        <4>1. CASE chan' = [chan EXCEPT ![c] = chan[c]]
          BY <4>1
        <4>2. CASE chan' = [chan EXCEPT ![c] = Append(chan[c], effect.text)]
          BY <3>2, <4>2
        <4> QED
          BY <3>3, <4>1, <4>2
      <3> QED
        BY <3>3, <3>4, <3>5, <3>6 DEF callVars
    <2>7. ASSUME NEW c \in Calls, recv(c)
          PROVE  TypeOK'
      BY <2>7, ReturnType DEF recv, Finish
    <2>8. ASSUME NEW c \in Calls, recv_disconnected(c)
          PROVE  TypeOK'
      BY <2>8, ReturnType DEF recv_disconnected, Finish, Errors
    <2>9. CASE UNCHANGED vars
      BY <2>9 DEF vars
    <2> QED
      BY <2>1, <2>2, <2>3, <2>4, <2>5, <2>6, <2>7, <2>8, <2>9
         DEF Next, Terminating
  <1> QED
    BY <1>1, <1>2, PTL DEF Spec

----------------------------------------------------------------------------
(***************************************************************************)
(* The inductive invariant.  NoLostWakeup alone is not inductive: to know  *)
(* that recv returns the answer to the decisive message one must know what *)
(* the head of the channel is, that a string is only in the channel of a   *)
(* caller that waits, and that its socket is being closed.                 *)
(***************************************************************************)
\* r is the answer to the message that ended the wait of c.
Answered(c, r) ==
  \E i \in DOMAIN heard[c] :
    BC!Decisive(c, i) /\ r = BC!Answer(kind[c], heard[c][i])

IdleInv(c) ==
  caller[c] = "idle" => thread[c] = "none" /\ heard[c] = <<>>

ChanInv(c) ==
  chan[c] # <<>> =>
    /\ caller[c] = "waiting"
    /\ thread[c] \in {"closing", "ended"}
    /\ Answered(c, result_out(kind[c], Head(chan[c])))

WaitInv(c) ==
  caller[c] = "waiting" /\ chan[c] = <<>> => BC!Undecided(c)

DoneInv(c) ==
  /\ caller[c] = "done" => thread[c] \in {"none", "closing", "ended"}
  /\ caller[c] # "done" => ret[c] = Pending
  /\ ret[c].res = "Some" => Answered(c, ret[c])

CallInv(c) == IdleInv(c) /\ ChanInv(c) /\ WaitInv(c) /\ DoneInv(c)

IInv == TypeOK /\ \A c \in Calls : CallInv(c)

\* A call that a step does not touch keeps its invariant.
LEMMA CallFrame ==
  ASSUME NEW c \in Calls, CallInv(c),
         caller'[c] = caller[c], kind'[c] = kind[c], ret'[c] = ret[c],
         thread'[c] = thread[c], chan'[c] = chan[c], heard'[c] = heard[c]
  PROVE  CallInv(c)'
  BY DEF CallInv, IdleInv, ChanInv, WaitInv, DoneInv, Answered, BC!Decisive,
         BC!Undecided

\* One more message: an answer stays the answer, and if nothing had ended the
\* wait the new message decides or leaves it undecided (RpcClient::on_message).
LEMMA HearOne ==
  ASSUME TypeOK, NEW c \in Calls, NEW m \in Msgs,
         kind'[c] = kind[c], heard'[c] = Append(heard[c], m)
  PROVE  /\ \A r : Answered(c, r) => Answered(c, r)'
         /\ BC!Undecided(c) /\ m.shape \notin BC!Ends(kind[c])
              => BC!Undecided(c)'
         /\ BC!Undecided(c) /\ m.shape \in BC!Ends(kind[c])
              => Answered(c, BC!Answer(kind[c], m))'
  <1>0. heard[c] \in Seq(Msgs) /\ Len(heard[c]) \in Nat
    BY DEF TypeOK
  <1>1. PICK n \in Nat : n = Len(heard[c]) /\ DOMAIN heard[c] = 1..n
    BY <1>0
  <1>2. /\ DOMAIN heard'[c] = 1..(n + 1)
        /\ \A i \in 1..n : heard'[c][i] = heard[c][i]
        /\ heard'[c][n + 1] = m
    BY <1>0, <1>1
  <1>3. ASSUME NEW i \in DOMAIN heard[c], BC!Decisive(c, i)
        PROVE  i \in DOMAIN heard'[c] /\ BC!Decisive(c, i)'
    <2>1. \A j \in 1..i : j \in 1..n
      BY <1>1
    <2>2. i \in 1..i /\ \A j \in 1..(i - 1) : j \in 1..i
      BY <1>1
    <2>3. i \in DOMAIN heard'[c]
      BY <1>1, <1>2
    <2> QED
      BY <1>2, <1>3, <2>1, <2>2, <2>3 DEF BC!Decisive
  <1>4. ASSUME NEW r, Answered(c, r)
        PROVE  Answered(c, r)'
    <2>1. PICK i \in DOMAIN heard[c] :
            BC!Decisive(c, i) /\ r = BC!Answer(kind[c], heard[c][i])
      BY <1>4 DEF Answered
    <2>2. heard'[c][i] = heard[c][i]
      BY <1>1, <1>2
    <2> QED
      BY <1>3, <2>1, <2>2 DEF Answered
  <1>5. ASSUME BC!Undecided(c), m.shape \notin BC!Ends(kind[c])
        PROVE  BC!Undecided(c)'
    <2> SUFFICES ASSUME NEW i \in 1..(n + 1)
                 PROVE  heard'[c][i].shape \notin BC!Ends(kind[c])
      BY <1>2 DEF BC!Undecided
    <2>1. i \in 1..n \/ i = n + 1
      BY <1>1
    <2> QED
      BY <1>1, <1>2, <1>5, <2>1 DEF BC!Undecided
  <1>6. ASSUME BC!Undecided(c), m.shape \in BC!Ends(kind[c])
        PROVE  Answered(c, BC!Answer(kind[c], m))'
    <2>1. n + 1 \in 1..(n + 1) /\ (n + 1) - 1 = n
      BY <1>1
    <2>2. \A j \in 1..n : heard'[c][j].shape \notin BC!Ends(kind[c])
      BY <1>1, <1>2, <1>6 DEF BC!Undecided
    <2>3. BC!Decisive(c, n + 1)'
      BY <1>2, <1>6, <2>1, <2>2 DEF BC!Decisive
    <2> QED
      BY <1>2, <2>1, <2>3 DEF Answered
  <1> QED
    BY <1>4, <1>5, <1>6

\* The invariant holds when nothing has been called.
LEMMA InitIInv == Init => IInv
  <1> SUFFICES ASSUME Init PROVE IInv
    OBVIOUS
  <1>1. TypeOK
    BY ReturnType DEF Init, TypeOK, Kinds, ThreadStates
  <1>2. ASSUME NEW c \in Calls PROVE CallInv(c)
    BY DEF Init, CallInv, IdleInv, ChanInv, WaitInv, DoneInv, Pending
  <1> QED
    BY <1>1, <1>2 DEF IInv

\* RpcClient::on_message keeps the invariant of its call.
LEMMA OnMessageInv ==
  ASSUME TypeOK, NEW c \in Calls, CallInv(c), on_message(c)
  PROVE  CallInv(c)'
  <1>0. Head(inbox[c]) \in Msgs /\ kind[c] \in Kinds
    BY DEF on_message, TypeOK
  <1>1. PICK m \in Msgs, k \in Kinds : m = Head(inbox[c]) /\ k = kind[c]
    BY <1>0
  <1> DEFINE effect == on_message_fn(k, m)
             ends == m.shape \in BC!Ends(k)
             send == effect.text # NoText /\ caller[c] = "waiting"
  <1>2. /\ effect.text # NoText <=> ends
        /\ ends => /\ effect.close
                   /\ ~ effect.panic
                   /\ result_out(k, effect.text) = BC!Answer(k, m)
        /\ effect.text \in Texts
    BY HandlerSpec, HandlerType DEF Effects
  <1>3. /\ caller'[c] = caller[c] /\ kind'[c] = k /\ ret'[c] = ret[c]
        /\ thread[c] \in {"open", "closing"}
        /\ heard'[c] = Append(heard[c], m)
        /\ thread'[c] = IF effect.panic THEN "ended"
                        ELSE IF effect.close THEN "closing" ELSE thread[c]
        /\ chan'[c] = IF send THEN Append(chan[c], effect.text) ELSE chan[c]
    BY <1>1 DEF on_message, callVars, TypeOK
  <1>4. /\ \A r : Answered(c, r) => Answered(c, r)'
        /\ BC!Undecided(c) /\ ~ ends => BC!Undecided(c)'
        /\ BC!Undecided(c) /\ ends => Answered(c, BC!Answer(k, m))'
    BY <1>1, <1>3, HearOne
  <1>5. chan[c] \in Seq(Texts)
    BY DEF TypeOK
  <1> HIDE DEF effect, ends
  <1>6. IdleInv(c)'
    BY <1>3 DEF CallInv, IdleInv
  <1>7. DoneInv(c)'
    <2>1. PICK r : r = ret[c]
      OBVIOUS
    <2>2. r.res = "Some" => Answered(c, r)'
      BY <1>4, <2>1 DEF CallInv, DoneInv
    <2>3. r = ret'[c]
      BY <1>3, <2>1
    <2> QED
      BY <1>3, <2>2, <2>3 DEF CallInv, DoneInv
  <1>8. WaitInv(c)'
    <2> SUFFICES ASSUME caller'[c] = "waiting", chan'[c] = <<>>
                 PROVE  BC!Undecided(c)'
      BY DEF WaitInv
    <2>1. ~ send /\ chan[c] = <<>>
      <3>1. Append(chan[c], effect.text) # <<>>
        BY <1>2, <1>5
      <3> QED
        BY <1>3, <3>1
    <2> QED
      BY <1>2, <1>3, <1>4, <2>1 DEF CallInv, WaitInv
  <1>9. ChanInv(c)'
    <2> SUFFICES ASSUME chan'[c] # <<>>
                 PROVE  /\ caller'[c] = "waiting"
                        /\ thread'[c] \in {"closing", "ended"}
                        /\ Answered(c, result_out(kind[c], Head(chan[c])))'
      BY DEF ChanInv
    <2>1. CASE chan[c] # <<>>
      <3>1. Head(chan'[c]) = Head(chan[c])
        BY <1>2, <1>3, <1>5, <2>1
      <3>2. PICK r : r = result_out(k, Head(chan[c]))
        OBVIOUS
      <3>3. Answered(c, r)'
        BY <1>1, <1>4, <2>1, <3>2 DEF CallInv, ChanInv
      <3>4. r = result_out(kind[c], Head(chan[c]))'
        BY <1>3, <3>1, <3>2
      <3> QED
        BY <1>3, <2>1, <3>3, <3>4 DEF CallInv, ChanInv
    <2>2. CASE chan[c] = <<>>
      <3>1. send /\ ends /\ Head(chan'[c]) = effect.text
        BY <1>2, <1>3, <1>5, <2>2
      <3>2. BC!Undecided(c)
        BY <2>2, <3>1 DEF CallInv, WaitInv
      <3>3. BC!Answer(k, m) = result_out(kind[c], Head(chan[c]))'
        BY <1>2, <1>3, <3>1
      <3> QED
        BY <1>2, <1>3, <1>4, <3>1, <3>2, <3>3
    <2> QED
      BY <2>1, <2>2
  <1> QED
    BY <1>6, <1>7, <1>8, <1>9 DEF CallInv

\* recv(): the head of the channel is the answer, so the call is answered.
LEMMA RecvInv ==
  ASSUME TypeOK, NEW c \in Calls, CallInv(c), recv(c)
  PROVE  CallInv(c)'
  <1>1. PICK r : r = result_out(kind[c], Head(chan[c]))
    OBVIOUS
  <1>2. /\ caller'[c] = "done" /\ ret'[c] = r /\ chan'[c] = <<>>
        /\ kind'[c] = kind[c] /\ thread'[c] = thread[c] /\ heard'[c] = heard[c]
        /\ chan[c] # <<>>
    BY <1>1 DEF recv, Finish, TypeOK
  <1>3. Answered(c, r)
    BY <1>1, <1>2 DEF CallInv, ChanInv
  <1>4. Answered(c, r)'
    BY <1>2, <1>3 DEF Answered, BC!Decisive
  <1> QED
    BY <1>2, <1>4 DEF CallInv, IdleInv, ChanInv, WaitInv, DoneInv

\* Every step of the client, the node or the network keeps the invariant.
LEMMA NextIInv == IInv /\ TypeOK' /\ [Next]_vars => IInv'
  <1> SUFFICES ASSUME IInv, TypeOK', [Next]_vars, NEW c \in Calls
               PROVE  CallInv(c)'
    BY DEF IInv
  <1> USE DEF TypeOK
  <1>0. TypeOK /\ CallInv(c)
    BY DEF IInv
  <1>1. ASSUME NEW d \in Calls,
               get_request(d) \/ \E x \in XtStatus : send_extrinsic(d, x)
        PROVE  CallInv(c)'
    <2>1. CASE c = d
      <3>1. /\ caller[c] = "idle" /\ heard'[c] = heard[c] /\ chan'[c] = chan[c]
            /\ \/ caller'[c] = "waiting" /\ ret'[c] = ret[c]
               \/ /\ caller'[c] = "done" /\ thread'[c] = thread[c]
                  /\ \E e \in Errors : ret'[c] = Failed(e)
        BY <1>0, <1>1, <2>1
           DEF get_request, send_extrinsic, start_rpc_client_thread, Finish,
               Errors
      <3>2. heard'[c] = <<>> /\ chan'[c] = <<>> /\ ret[c] = Pending
            /\ thread[c] = "none"
        BY <1>0, <3>1 DEF CallInv, IdleInv, ChanInv, DoneInv
      <3>3. ret'[c].res # "Some"
        BY <3>1, <3>2 DEF Pending, Failed, Errors
      <3> QED
        BY <3>1, <3>2, <3>3
           DEF CallInv, IdleInv, ChanInv, WaitInv, DoneInv, BC!Undecided
    <2>2. CASE c # d
      BY <1>0, <1>1, <2>2, CallFrame
         DEF get_request, send_extrinsic, start_rpc_client_thread, Finish
    <2> QED
      BY <2>1, <2>2
  <1>2. ASSUME NEW d \in Calls,
               \/ on_open(d) \/ ConnectionFails(d) \/ CloseHandshake(d)
               \/ \E m \in Msgs : NodeSends(d, m)
        PROVE  CallInv(c)'
    <2>1. /\ caller' = caller /\ kind' = kind /\ ret' = ret /\ chan' = chan
          /\ heard' = heard
          /\ \/ thread'[c] = thread[c]
             \/ thread[c] = "connecting" /\ thread'[c] = "open"
             \/ /\ thread[c] \in {"connecting", "open", "closing"}
                /\ thread'[c] = "ended"
      BY <1>0, <1>2
         DEF on_open, ConnectionFails, CloseHandshake, connect_returns,
             NodeSends, callVars
    <2>2. CASE thread'[c] = thread[c]
      BY <1>0, <2>1, <2>2, CallFrame
    <2>3. CASE thread'[c] # thread[c]
      <3>1. Answered(c, ret[c]) => Answered(c, ret[c])'
        BY <2>1 DEF Answered, BC!Decisive
      <3>2. ChanInv(c)'
        BY <1>0, <2>1, <2>3 DEF CallInv, ChanInv, Answered, BC!Decisive
      <3> QED
        BY <1>0, <2>1, <2>3, <3>1, <3>2
           DEF CallInv, IdleInv, WaitInv, DoneInv, BC!Undecided
    <2> QED
      BY <2>2, <2>3
  <1>3. ASSUME NEW d \in Calls, on_message(d)
        PROVE  CallInv(c)'
    <2>1. CASE c = d
      BY <1>0, <1>3, <2>1, OnMessageInv
    <2>2. CASE c # d
      BY <1>0, <1>3, <2>2, CallFrame DEF on_message, callVars
    <2> QED
      BY <2>1, <2>2
  <1>4. ASSUME NEW d \in Calls, recv(d)
        PROVE  CallInv(c)'
    <2>1. CASE c = d
      BY <1>0, <1>4, <2>1, RecvInv
    <2>2. CASE c # d
      BY <1>0, <1>4, <2>2, CallFrame DEF recv, Finish
    <2> QED
      BY <2>1, <2>2
  <1>5. ASSUME NEW d \in Calls, recv_disconnected(d)
        PROVE  CallInv(c)'
    <2>1. CASE c = d
      BY <1>0, <1>5, <2>1
         DEF recv_disconnected, Finish, Failed, CallInv, IdleInv, ChanInv,
             WaitInv, DoneInv
    <2>2. CASE c # d
      BY <1>0, <1>5, <2>2, CallFrame DEF recv_disconnected, Finish
    <2> QED
      BY <2>1, <2>2
  <1>6. CASE UNCHANGED vars
    BY <1>0, <1>6, CallFrame DEF vars
  <1> QED
    BY <1>1, <1>2, <1>3, <1>4, <1>5, <1>6 DEF Next, Terminating

\* The inductive invariant holds in every state of the client.
THEOREM Invariance == Spec => []IInv
  BY InitIInv, NextIInv, TypeCorrect, PTL DEF Spec

\* A caller blocked on an empty channel has missed no message that ends its
\* wait (end_process, on_get_request_msg).
THEOREM WakeupTheorem == Spec => []NoLostWakeup
  <1>1. IInv => NoLostWakeup
    BY DEF IInv, CallInv, WaitInv, NoLostWakeup
  <1> QED
    BY <1>1, Invariance, PTL

\* A call that is over leaves no open socket behind (out.close).
THEOREM SocketTheorem == Spec => []DoneClosesSocket
  <1>1. IInv => DoneClosesSocket
    BY DEF IInv, CallInv, DoneInv, DoneClosesSocket
  <1> QED
    BY <1>1, Invariance, PTL

\* A hash that send_extrinsic returns was reported by the node, with the
\* status that was asked for, before anything told the client to give up.
THEOREM HashTheorem == Spec => []HashIsReported
  <1>1. IInv => HashIsReported
    <2> SUFFICES ASSUME IInv, NEW c \in Calls, kind[c] \in XtStatus,
                        ret[c].res = "Some"
                 PROVE  \E i \in DOMAIN heard[c] :
                          /\ heard[c][i].hash = ret[c].text.hash
                          /\ \/ heard[c][i].shape = "finalized"
                             \/ heard[c][i].shape = "inBlock" /\ kind[c] = "InBlock"
                          /\ \A j \in 1..(i - 1) :
                               heard[c][j].shape \notin {"future", "error", "garbage"}
      BY DEF HashIsReported
    <2>1. PICK i \in DOMAIN heard[c] :
            BC!Decisive(c, i) /\ ret[c] = BC!Answer(kind[c], heard[c][i])
      BY DEF IInv, CallInv, DoneInv, Answered
    <2>2. kind[c] \in {"Finalized", "InBlock"}
      BY <2>1 DEF BC!Answer, BC!None, XtStatus
    <2>3. /\ heard[c][i].shape \in {"inBlock", "finalized"}
          /\ ret[c].text.hash = heard[c][i].hash
      BY <2>1, <2>2 DEF BC!Answer, BC!Some, BC!Failed
    <2>4. {"future", "error", "garbage"} \subseteq BC!Ends(kind[c])
          /\ (kind[c] = "Finalized" => "inBlock" \notin BC!Ends(kind[c]))
      BY <2>2 DEF BC!Ends
    <2> QED
      BY <2>1, <2>2, <2>3, <2>4 DEF BC!Decisive
  <1> QED
    BY <1>1, Invariance, PTL

\* A step of the client is a step of BlockingCall, or leaves what the caller
\* and the node have said to each other as it was.
LEMMA StepSimulation == IInv /\ [Next]_vars => [BC!Next]_(BC!vars)
  <1> SUFFICES ASSUME IInv, [Next]_vars
               PROVE  BC!Next \/ UNCHANGED BC!vars
    OBVIOUS
  <1> USE DEF TypeOK, BC!vars
  <1>0. TypeOK /\ \A c \in Calls : CallInv(c)
    BY DEF IInv
  <1>1. ASSUME NEW c \in Calls, get_request(c)
        PROVE  BC!Next
    <2>1. BC!Begin(c, "get")
      BY <1>1 DEF get_request, start_rpc_client_thread, Finish, BC!Begin,
                  BC!Failed, Failed, BC!Waitable, BC!NoText, NoText, BC!Plain,
                  Plain
    <2> QED
      BY <2>1 DEF BC!Next, BC!Kinds
  <1>2. ASSUME NEW c \in Calls, NEW x \in XtStatus, send_extrinsic(c, x)
        PROVE  BC!Next
    <2>1. BC!Begin(c, x)
      BY <1>2 DEF send_extrinsic, start_rpc_client_thread, Finish, BC!Begin,
                  BC!Failed, Failed, BC!Waitable, Waitable, XtStatus,
                  BC!NoText, NoText, BC!Plain, Plain
    <2> QED
      BY <2>1 DEF BC!Next, BC!Kinds, BC!XtStatus, XtStatus
  <1>3. ASSUME NEW c \in Calls,
               \/ on_open(c) \/ ConnectionFails(c) \/ CloseHandshake(c)
               \/ \E m \in Msgs : NodeSends(c, m)
        PROVE  UNCHANGED BC!vars
    BY <1>3 DEF on_open, ConnectionFails, CloseHandshake, connect_returns,
                NodeSends, callVars
  <1>4. ASSUME NEW c \in Calls, on_message(c)
        PROVE  BC!Next
    <2>1. Head(inbox[c]) \in Msgs
      BY <1>0, <1>4 DEF on_message
    <2>2. caller[c] # "idle"
      BY <1>0, <1>4 DEF on_message, CallInv, IdleInv
    <2>3. BC!Hear(c, Head(inbox[c]))
      BY <1>4, <2>2 DEF on_message, callVars, BC!Hear
    <2> QED
      BY <2>1, <2>3 DEF BC!Next, BC!Msgs, Msgs, BC!PlainShapes, PlainShapes,
                        BC!HashShapes, HashShapes
  <1>5. ASSUME NEW c \in Calls, recv(c)
        PROVE  BC!Next
    <2>1. Answered(c, result_out(kind[c], Head(chan[c])))
      BY <1>0, <1>5 DEF recv, CallInv, ChanInv
    <2>2. BC!Return(c)
      BY <1>5, <2>1 DEF recv, Finish, Answered, BC!Return
    <2> QED
      BY <2>2 DEF BC!Next
  <1>6. ASSUME NEW c \in Calls, recv_disconnected(c)
        PROVE  BC!Next
    <2>1. BC!Undecided(c)
      BY <1>0, <1>6 DEF recv_disconnected, CallInv, WaitInv
    <2>2. BC!Disconnect(c)
      BY <1>6, <2>1 DEF recv_disconnected, Finish, BC!Disconnect, BC!Failed,
                        Failed, BC!NoText, NoText, BC!Plain, Plain
    <2> QED
      BY <2>2 DEF BC!Next
  <1>7. CASE UNCHANGED vars
    BY <1>7 DEF vars
  <1> QED
    BY <1>1, <1>2, <1>3, <1>4, <1>5, <1>6, <1>7 DEF Next, Terminating

\* The threads, sockets and channels of WsRpcClient implement the blocking
\* call that BlockingCall describes.
THEOREM Refinement == Spec => ImplementsBlockingCall
  <1>1. Init => BC!Init
    BY DEF Init, BC!Init, Pending, BC!Pending, NoText, BC!NoText, Plain,
           BC!Plain
  <1> QED
    BY <1>1, StepSimulation, Invariance, PTL
       DEF Spec, ImplementsBlockingCall, BC!Spec
=============================================================================
