---------------------------- MODULE RpcMessages ----------------------------
(***************************************************************************)
(* What the WebSocket client can tell apart in a message of the node, and  *)
(* what its parsing functions make of it (src/std/rpc/ws_client/mod.rs and *)
(* src/utils.rs).                                                          *)
(*                                                                         *)
(* A message is a record: `shape' is the case of the parser it falls into, *)
(* `hash' the hash it carries (NoHash: a string that is not 32 hex bytes). *)
(***************************************************************************)
CONSTANTS
  Hashes,  \* block and extrinsic hashes
  NoHash   \* not a hash

ASSUME NoHashAssumption == NoHash \notin Hashes

(***************************************************************************)
(* Messages.                                                               *)
(*   binary     a frame that is not UTF-8: as_text() is an Err             *)
(*   garbage    a text that is not JSON                                    *)
(*   error      an "error" object with a string message and string data    *)
(*   badError   an "error" object with a member of another JSON type       *)
(*   ack        an answer whose "result" is no string (subscription id...) *)
(*   null       an answer whose "result" is null or missing                *)
(*   result     an answer whose "result" is a string                       *)
(*   ready, future, broadcast, inBlock, finalized   the extrinsic statuses *)
(*              the client knows                                           *)
(*   dropped    a status string it does not know (dropped, invalid)        *)
(*   retracted  a status object it does not know (retracted, usurped, ...) *)
(***************************************************************************)
HashShapes == {"result", "inBlock", "finalized"}

PlainShapes == {"binary", "garbage", "error", "badError", "ack", "null",
                "ready", "future", "broadcast", "dropped", "retracted"}

Msgs ==
  [shape : PlainShapes, hash : {NoHash}]
    \cup [shape : HashShapes, hash : Hashes \cup {NoHash}]

(***************************************************************************)
(* The strings that travel through the mpsc channel, by how they were      *)
(* produced: Value::to_string puts quotes around a JSON string, as_str     *)
(* does not.  NoText stands for "nothing is sent".                         *)
(***************************************************************************)
Forms == {"none", "empty", "quoted", "bare", "peers", "null", "json", "hash"}

Texts == [form : Forms, hash : Hashes \cup {NoHash}]

Plain(f)  == [form |-> f, hash |-> NoHash]
NoText    == Plain("none")
EmptyText == Plain("empty")

----------------------------------------------------------------------------
(***************************************************************************)
(* The calls of the RpcClient trait and what they can return.              *)
(***************************************************************************)
XtStatus == {"Finalized", "InBlock", "Broadcast", "Ready", "Future",
             "SubmitOnly", "Error", "Unknown"}

\* The statuses send_extrinsic can wait for.
Waitable == {"Finalized", "InBlock", "Broadcast", "Ready", "SubmitOnly"}

\* What a call can be: a get_request, or a send_extrinsic(exit_on).
Kinds == {"get"} \cup XtStatus

\* Return values: Ok(Some(text)), Ok(None), or an error by its name.
Errors == {"UnsupportedXtStatus", "WebSocket", "Disconnected",
           "InvalidHexString"}

Returns == [res : {"pending", "Some", "None"} \cup Errors, text : Texts]

Some(t)   == [res |-> "Some", text |-> t]
Failed(e) == [res |-> e, text |-> NoText]
Pending   == [res |-> "pending", text |-> NoText]
None      == [res |-> "None", text |-> NoText]

----------------------------------------------------------------------------
(***************************************************************************)
(* Results of the parsing functions: Ok((status, Option<String>)), Err(_), *)
(* or a panic of the thread (an unwrap on None).                           *)
(***************************************************************************)
Ok(status, text) == [is |-> "ok", status |-> status, text |-> text]
Err   == [is |-> "err", status |-> "", text |-> NoText]
Panic == [is |-> "panic", status |-> "", text |-> NoText]

\* as_object().unwrap() and the as_str()/as_i64().unwrap() of its members.
into_extrinsic_err(m) == IF m.shape = "error" THEN Err ELSE Panic

parse_status(m) ==
  CASE m.shape = "garbage"               -> Err
    [] m.shape \in {"error", "badError"} -> into_extrinsic_err(m)
    [] m.shape = "finalized" ->
         Ok("Finalized", [form |-> "quoted", hash |-> m.hash])
    [] m.shape = "inBlock" ->
         Ok("InBlock", [form |-> "quoted", hash |-> m.hash])
    [] m.shape = "broadcast" -> Ok("Broadcast", Plain("peers"))
    [] m.shape = "ready"     -> Ok("Ready", NoText)
    [] m.shape = "future"    -> Ok("Future", NoText)
    [] OTHER                 -> Ok("Unknown", NoText)

result_from_json_response(m) ==
  CASE m.shape = "garbage" -> Err
    [] m.shape = "result"  -> Ok("", [form |-> "bare", hash |-> m.hash])
    [] OTHER               -> into_extrinsic_err(m)

\* v["result"].to_string(): indexing a missing member yields Null.
result_to_string(m) ==
  CASE m.shape = "result" -> [form |-> "quoted", hash |-> m.hash]
    [] m.shape = "ack"    -> Plain("json")
    [] OTHER              -> Plain("null")

(***************************************************************************)
(* Hash::from_hex strips quotes and 0x, decodes, and wants 32 bytes; NoText*)
(* stands for its error.  The empty string decodes to no byte: an error.   *)
(***************************************************************************)
from_hex(t) ==
  IF t.form \in {"quoted", "bare"} /\ t.hash # NoHash
    THEN [form |-> "hash", hash |-> t.hash]
    ELSE NoText
=============================================================================
