------------------------------ MODULE WsClient ------------------------------
(***************************************************************************)
(* The one-shot calls of WsRpcClient (src/std/rpc/ws_client): get_request  *)
(* and send_extrinsic.  A call makes an mpsc channel, spawns a thread that *)
(* opens a WebSocket of its own, and blocks in recv().  The thread sends   *)
(* the request when the socket opens and gives every message of the node   *)
(* to the handler chosen by the call; a handler may close the socket, send *)
(* a string to the caller, or panic.  The node and the network are free:   *)
(* any message, any order, a connection lost at any moment.                *)
(*                                                                         *)
(* The ws crate is modelled from how these files use it: out.close() only  *)
(* queues a close frame, so frames that arrive before the peer has         *)
(* answered it still reach on_message, and an Err of on_message that wraps *)
(* one of the client's own errors leaves the connection as it is.          *)
(***************************************************************************)
EXTENDS RpcMessages, Naturals, Sequences

CONSTANTS
  Calls,    \* the calls made through one or several Api values
  MaxMsgs   \* bound: the messages the node sends on one connection

ASSUME MaxMsgsAssumption == MaxMsgs \in Nat

VARIABLES
  caller,  \* caller[c]: "idle", "waiting" (in recv) or "done"
  kind,    \* kind[c]: "get" or the exit_on of send_extrinsic
  ret,     \* ret[c]: what the call returned
  thread,  \* thread[c]: state of the thread and of its socket
  inbox,   \* inbox[c]: messages of the node on their way to on_message
  chan,    \* chan[c]: the strings in the mpsc channel
  heard    \* heard[c]: history of the messages given to on_message

callVars == <<caller, kind, ret>>
vars == <<caller, kind, ret, thread, inbox, chan, heard>>

ThreadStates == {"none", "connecting", "open", "closing", "ended"}

(***************************************************************************)
(* What a handler does: whether it closes the socket, the string it sends  *)
(* (NoText: none) and whether it panics.                                   *)
(***************************************************************************)
Effects == [close : BOOLEAN, text : Texts, panic : BOOLEAN]

Keep  == [close |-> FALSE, text |-> NoText, panic |-> FALSE]
Crash == [close |-> FALSE, text |-> NoText, panic |-> TRUE]

\* Mutant: the answer is sent but the socket stays open.
end_process_keeps_socket(value) ==
  [close |-> FALSE,
   text  |-> IF value = NoText THEN EmptyText ELSE value,
   panic |-> FALSE]

\* value.unwrap_or_else(""), close, send.
end_process(value) ==
  [close |-> TRUE,
   text  |-> IF value = NoText THEN EmptyText ELSE value,
   panic |-> FALSE]

\* Mutant: an answer without a result closes the socket and sends nothing.
on_get_request_msg_skips_null(m) ==
  [close |-> TRUE,
   text  |-> IF m.shape \in {"result", "ack"} THEN result_to_string(m) ELSE NoText,
   panic |-> FALSE]

\* Closes first; as_text()? and from_str(..)? leave before anything is sent.
on_get_request_msg(m) ==
  [close |-> TRUE,
   text  |-> IF m.shape \in {"binary", "garbage"}
               THEN NoText ELSE result_to_string(m),
   panic |-> FALSE]

(***************************************************************************)
(* The four handlers of a watched extrinsic differ in the statuses that    *)
(* end the wait.  Finalized and InBlock pass on what parse_status found,   *)
(* the others None; an Err ends it too.                                    *)
(***************************************************************************)
on_extrinsic_msg_until(m, statuses) ==
  LET parsed == parse_status(m) IN
  CASE m.shape = "binary" \/ parsed.is = "panic" -> Crash
    [] parsed.is = "err" -> end_process(NoText)
    [] parsed.is = "ok" /\ parsed.status \in statuses ->
         end_process(IF parsed.status \in {"Finalized", "InBlock"}
                       THEN parsed.text ELSE NoText)
    [] OTHER -> Keep

\* Mutant: a block that is not final ends the wait for finality.
on_extrinsic_msg_until_finalized_early(m) ==
  on_extrinsic_msg_until(m, {"Finalized", "InBlock", "Future"})

on_extrinsic_msg_until_finalized(m) ==
  on_extrinsic_msg_until(m, {"Finalized", "Future"})

on_extrinsic_msg_until_in_block(m) ==
  on_extrinsic_msg_until(m, {"Finalized", "InBlock", "Future"})

on_extrinsic_msg_until_broadcast(m) ==
  on_extrinsic_msg_until(m, {"Finalized", "Broadcast", "Future"})

on_extrinsic_msg_until_ready(m) ==
  on_extrinsic_msg_until(m, {"Finalized", "Ready", "Future"})

on_extrinsic_msg_submit_only(m) ==
  LET parsed == result_from_json_response(m) IN
  CASE m.shape = "binary" \/ parsed.is = "panic" -> Crash
    [] parsed.is = "err" -> end_process(NoText)
    [] OTHER -> end_process(parsed.text)

\* The handler start_rpc_client_thread is given for a call of kind k.
on_message_fn(k, m) ==
  CASE k = "get"        -> on_get_request_msg(m)
    [] k = "Finalized"  -> on_extrinsic_msg_until_finalized(m)
    [] k = "InBlock"    -> on_extrinsic_msg_until_in_block(m)
    [] k = "Broadcast"  -> on_extrinsic_msg_until_broadcast(m)
    [] k = "Ready"      -> on_extrinsic_msg_until_ready(m)
    [] k = "SubmitOnly" -> on_extrinsic_msg_submit_only(m)
    [] OTHER            -> Keep

\* Api::_get_request: the string "null" is None.
_get_request(t) == IF t.form = "null" THEN None ELSE Some(t)

\* Mutant: the string itself instead of the Option made from it.
result_out_unwrapped(k, t) == t

\* What the caller makes of the string it received.
result_out(k, t) ==
  CASE k = "get" -> _get_request(t)
    [] k \in {"Finalized", "InBlock"} ->
         IF from_hex(t) = NoText
           THEN Failed("InvalidHexString") ELSE Some(from_hex(t))
    [] OTHER -> None

----------------------------------------------------------------------------
Init ==
  /\ caller = [c \in Calls |-> "idle"]
  /\ kind   = [c \in Calls |-> "get"]
  /\ ret    = [c \in Calls |-> Pending]
  /\ thread = [c \in Calls |-> "none"]
  /\ inbox  = [c \in Calls |-> <<>>]
  /\ chan   = [c \in Calls |-> <<>>]
  /\ heard  = [c \in Calls |-> <<>>]

Finish(c, r) ==
  /\ caller' = [caller EXCEPT ![c] = "done"]
  /\ ret' = [ret EXCEPT ![c] = r]

\* The spawn of the thread succeeds, or its io::Error is the call's error.
start_rpc_client_thread(c) ==
  \/ /\ thread' = [thread EXCEPT ![c] = "connecting"]
     /\ caller' = [caller EXCEPT ![c] = "waiting"]
     /\ UNCHANGED ret
  \/ /\ Finish(c, Failed("WebSocket"))
     /\ UNCHANGED thread

get_request(c) ==
  /\ caller[c] = "idle"
  /\ kind' = [kind EXCEPT ![c] = "get"]
  /\ start_rpc_client_thread(c)
  /\ UNCHANGED <<inbox, chan, heard>>

send_extrinsic(c, exit_on) ==
  /\ caller[c] = "idle"
  /\ kind' = [kind EXCEPT ![c] = exit_on]
  /\ \/ /\ exit_on \in Waitable
        /\ start_rpc_client_thread(c)
     \/ /\ exit_on \notin Waitable
        /\ Finish(c, Failed("UnsupportedXtStatus"))
        /\ UNCHANGED thread
  /\ UNCHANGED <<inbox, chan, heard>>

\* The handshake is over: the request is on its way to the node.
on_open(c) ==
  /\ thread[c] = "connecting"
  /\ thread' = [thread EXCEPT ![c] = "open"]
  /\ UNCHANGED <<callVars, inbox, chan, heard>>

\* connect() returns: it failed, the connection is lost, or the close
\* handshake is over.  The thread ends and drops its Sender.
connect_returns(c) ==
  /\ thread' = [thread EXCEPT ![c] = "ended"]
  /\ inbox' = [inbox EXCEPT ![c] = <<>>]
  /\ UNCHANGED <<callVars, chan, heard>>

ConnectionFails(c) == thread[c] \in {"connecting", "open"} /\ connect_returns(c)

CloseHandshake(c) == thread[c] = "closing" /\ connect_returns(c)

NodeSends(c, m) ==
  /\ thread[c] \in {"open", "closing"}
  /\ Len(heard[c]) + Len(inbox[c]) < MaxMsgs
  /\ inbox' = [inbox EXCEPT ![c] = Append(@, m)]
  /\ UNCHANGED <<callVars, thread, chan, heard>>

\* A send on a channel whose Receiver is gone is an Err that changes nothing.
on_message(c) ==
  /\ thread[c] \in {"open", "closing"}
  /\ inbox[c] # <<>>
  /\ LET m == Head(inbox[c])
         effect == on_message_fn(kind[c], m)
     IN /\ heard' = [heard EXCEPT ![c] = Append(@, m)]
        /\ inbox' = [inbox EXCEPT ![c] = IF effect.panic THEN <<>> ELSE Tail(@)]
        /\ thread' = [thread EXCEPT ![c] = IF effect.panic THEN "ended"
                                           ELSE IF effect.close THEN "closing"
                                           ELSE @]
        /\ chan' = [chan EXCEPT ![c] =
                      IF effect.text # NoText /\ caller[c] = "waiting"
                        THEN Append(@, effect.text) ELSE @]
  /\ UNCHANGED callVars

\* recv() takes the first string; the Receiver is dropped with the rest.
recv(c) ==
  /\ caller[c] = "waiting"
  /\ chan[c] # <<>>
  /\ Finish(c, result_out(kind[c], Head(chan[c])))
  /\ chan' = [chan EXCEPT ![c] = <<>>]
  /\ UNCHANGED <<kind, thread, inbox, heard>>

\* Mutant: the end of the thread is noticed before the string it left behind.
recv_disconnected_early(c) ==
  /\ caller[c] = "waiting"
  /\ thread[c] = "ended"
  /\ Finish(c, Failed("Disconnected"))
  /\ UNCHANGED <<kind, thread, inbox, chan, heard>>

\* Mutant: a recv() that fails is called again.
recv_disconnected_retries(c) ==
  /\ caller[c] = "waiting"
  /\ chan[c] = <<>>
  /\ thread[c] = "ended"
  /\ UNCHANGED vars

\* recv() on an empty channel whose Sender is gone.
recv_disconnected(c) ==
  /\ caller[c] = "waiting"
  /\ chan[c] = <<>>
  /\ thread[c] = "ended"
  /\ Finish(c, Failed("Disconnected"))
  /\ UNCHANGED <<kind, thread, inbox, chan, heard>>

\* Every call is over and every thread has ended: the program may rest.
Terminating ==
  /\ \A c \in Calls : caller[c] = "done" /\ thread[c] \in {"none", "ended"}
  /\ UNCHANGED vars

Next ==
  \/ \E c \in Calls :
       \/ get_request(c)
       \/ \E exit_on \in XtStatus : send_extrinsic(c, exit_on)
       \/ on_open(c)
       \/ ConnectionFails(c)
       \/ CloseHandshake(c)
       \/ \E m \in Msgs : NodeSends(c, m)
       \/ on_message(c)
       \/ recv(c)
       \/ recv_disconnected(c)
  \/ Terminating

Spec == Init /\ [][Next]_vars

(***************************************************************************)
(* The threads of the client run: a message that has arrived is handled, a *)
(* recv() that can return does.  Nothing is assumed of the node or of the  *)
(* network: the node may stay silent, a close handshake never end.         *)
(***************************************************************************)
Fairness ==
  \A c \in Calls :
    /\ WF_vars(on_message(c))
    /\ WF_vars(recv(c))
    /\ WF_vars(recv_disconnected(c))

FairSpec == Spec /\ Fairness

----------------------------------------------------------------------------
TypeOK ==
  /\ caller \in [Calls -> {"idle", "waiting", "done"}]
  /\ kind \in [Calls -> Kinds]
  /\ ret \in [Calls -> Returns]
  /\ thread \in [Calls -> ThreadStates]
  /\ inbox \in [Calls -> Seq(Msgs)]
  /\ chan \in [Calls -> Seq(Texts)]
  /\ heard \in [Calls -> Seq(Msgs)]

BC == INSTANCE BlockingCall

\* The client's calls keep the promise of module BlockingCall: a call returns
\* the answer to the first message that ends its wait, whatever the handlers,
\* the channel and later messages do (get_request and send_extrinsic).
ImplementsBlockingCall == BC!Spec

\* A caller blocked in recv() on an empty channel has missed nothing: no
\* message that ends its wait has gone through its handler (end_process and
\* on_get_request_msg send before the Receiver is dropped).
NoLostWakeup ==
  \A c \in Calls :
    caller[c] = "waiting" /\ chan[c] = <<>> => BC!Undecided(c)

\* A hash returned by send_extrinsic is one that the node reported as the
\* block of the extrinsic, as finalized if exit_on is Finalized, and no
\* message before that one told the client to give up.
HashIsReported ==
  \A c \in Calls :
    kind[c] \in XtStatus /\ ret[c].res = "Some" =>
      \E i \in DOMAIN heard[c] :
        /\ heard[c][i].hash = ret[c].text.hash
        /\ \/ heard[c][i].shape = "finalized"
           \/ heard[c][i].shape = "inBlock" /\ kind[c] = "InBlock"
        /\ \A j \in 1..(i - 1) :
             heard[c][j].shape \notin {"future", "error", "garbage"}

\* A call that has its answer leaves no socket open behind it: the thread
\* has begun to close it (out.close in end_process and on_get_request_msg).
DoneClosesSocket ==
  \A c \in Calls :
    caller[c] = "done" => thread[c] \in {"none", "closing", "ended"}

\* Once a message that ends the wait is in the socket of a call, or its
\* thread is over, the call returns.
DueCallReturns ==
  \A c \in Calls :
    (caller[c] = "waiting"
       /\ \/ thread[c] = "ended"
          \/ \E i \in DOMAIN inbox[c] : inbox[c][i].shape \in BC!Ends(kind[c]))
      ~> caller[c] = "done"
=============================================================================
