---------------------------- MODULE BlockingCall ----------------------------
(***************************************************************************)
(* What a call of the RpcClient trait (get_request, send_extrinsic)        *)
(* promises its caller, with no thread, socket or channel in sight: the    *)
(* caller blocks until the node has said something that ends the wait, and *)
(* then returns the answer to the FIRST such message; it may also learn    *)
(* that the connection is gone, but only while nothing that ends its wait  *)
(* has been heard.                                                         *)
(*                                                                         *)
(* The tables Ends and Answer are stated here from the caller's side and   *)
(* do not use the handlers of module WsClient, which implements this one.  *)
(***************************************************************************)
EXTENDS RpcMessages, Naturals, Sequences

CONSTANT Calls   \* the calls made through the API, concurrent or not

VARIABLES
  caller,  \* caller[c]: "idle", "waiting" or "done"
  kind,    \* kind[c]: what call c is
  ret,     \* ret[c]: what call c returned
  heard    \* heard[c]: the messages the node's side of c has said so far

vars == <<caller, kind, ret, heard>>

\* The messages that end the wait of a call of kind k.
Ends(k) ==
  CASE k = "get" -> (PlainShapes \cup HashShapes) \ {"binary", "garbage"}
    [] k = "Finalized"  -> {"finalized", "future", "error", "garbage"}
    [] k = "InBlock"    -> {"inBlock", "finalized", "future", "error", "garbage"}
    [] k = "Broadcast"  -> {"broadcast", "finalized", "future", "error", "garbage"}
    [] k = "Ready"      -> {"ready", "finalized", "future", "error", "garbage"}
    [] k = "SubmitOnly" -> {"result", "error", "garbage"}
    [] OTHER            -> {}

\* What a call of kind k returns when message m ends its wait.
Answer(k, m) ==
  CASE k = "get" /\ m.shape = "result" ->
         Some([form |-> "quoted", hash |-> m.hash])
    [] k = "get" /\ m.shape = "ack" -> Some(Plain("json"))
    [] k \in {"Finalized", "InBlock"} ->
         IF m.shape \in {"inBlock", "finalized"} /\ m.hash # NoHash
           THEN Some([form |-> "hash", hash |-> m.hash])
           ELSE Failed("InvalidHexString")
    [] OTHER -> None

\* heard[c][i] is the first message that ends the wait of c.
Decisive(c, i) ==
  /\ i \in DOMAIN heard[c]
  /\ heard[c][i].shape \in Ends(kind[c])
  /\ \A j \in 1..(i - 1) : heard[c][j].shape \notin Ends(kind[c])

Undecided(c) ==
  \A i \in DOMAIN heard[c] : heard[c][i].shape \notin Ends(kind[c])

----------------------------------------------------------------------------
Init ==
  /\ caller = [c \in Calls |-> "idle"]
  /\ kind   = [c \in Calls |-> "get"]
  /\ ret    = [c \in Calls |-> Pending]
  /\ heard  = [c \in Calls |-> <<>>]

\* The call starts waiting, or fails before anything is sent.
Begin(c, k) ==
  /\ caller[c] = "idle"
  /\ kind' = [kind EXCEPT ![c] = k]
  /\ \/ /\ k \in Waitable \cup {"get"}
        /\ caller' = [caller EXCEPT ![c] = "waiting"]
        /\ UNCHANGED ret
     \/ \E e \in {"UnsupportedXtStatus", "WebSocket"} :
          /\ e = "UnsupportedXtStatus" <=> k \notin Waitable \cup {"get"}
          /\ caller' = [caller EXCEPT ![c] = "done"]
          /\ ret' = [ret EXCEPT ![c] = Failed(e)]
  /\ UNCHANGED heard

Hear(c, m) ==
  /\ caller[c] # "idle"
  /\ heard' = [heard EXCEPT ![c] = Append(@, m)]
  /\ UNCHANGED <<caller, kind, ret>>

Return(c) ==
  /\ caller[c] = "waiting"
  /\ caller' = [caller EXCEPT ![c] = "done"]
  /\ \E i \in DOMAIN heard[c] :
       /\ Decisive(c, i)
       /\ ret' = [ret EXCEPT ![c] = Answer(kind[c], heard[c][i])]
  /\ UNCHANGED <<kind, heard>>

Disconnect(c) ==
  /\ caller[c] = "waiting"
  /\ Undecided(c)
  /\ caller' = [caller EXCEPT ![c] = "done"]
  /\ ret' = [ret EXCEPT ![c] = Failed("Disconnected")]
  /\ UNCHANGED <<kind, heard>>

Next ==
  \E c \in Calls :
    \/ \E k \in Kinds : Begin(c, k)
    \/ \E m \in Msgs : Hear(c, m)
    \/ Return(c)
    \/ Disconnect(c)

Spec == Init /\ [][Next]_vars
=============================================================================
