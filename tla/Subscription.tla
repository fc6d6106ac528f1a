---------------------------- MODULE Subscription ----------------------------
(***************************************************************************)
(* A subscription of the Api (src/std/rpc/ws_client): subscribe_events or  *)
(* subscribe_finalized_heads start a thread that feeds the channel of the  *)
(* program, which reads it with wait_for_event, wait_for_raw_event or      *)
(* recv, and may drop its Receiver.  The calls return before the node has  *)
(* registered anything.                                                    *)
(***************************************************************************)
EXTENDS Naturals, Sequences

CONSTANTS
  EventNames,  \* (module, variant) pairs a program can wait for
  Payloads,    \* values of a subscription
  MaxMsgs      \* bound: the messages the node sends

VARIABLES
  method,    \* what is subscribed: "none", "events" or "heads"
  receiver,  \* the Receiver: "none", "held" or "dropped"
  thread,    \* the subscriber thread and its socket
  inbox,     \* messages of the node on their way to on_message
  chan,      \* the mpsc channel
  waiting,   \* the wait_for_(raw_)event in progress, or NoWait
  log,       \* history: every value sent into the channel
  taken,     \* history: how many values were taken out of it
  from,      \* history: taken when the wait in progress began
  outcome,   \* how the last wait ended
  sent       \* number of messages the node has sent

readVars == <<receiver, chan, waiting, log, taken, from, outcome>>
vars == <<method, receiver, thread, inbox, chan, waiting, log, taken, from,
          outcome, sent>>

\* The feed as its reader sees it: a wait in progress has consumed nothing.
Feed == INSTANCE EventFeed WITH
          pos <- IF waiting = [name |-> "", typed |-> FALSE] THEN taken ELSE from

NoWait == Feed!NoWait

ASSUME MaxMsgsAssumption == MaxMsgs \in Nat

\* A value is a hex string or not, decodes or not, and holds events; only a
\* Raw::Error has the name "error", and no event the empty name of NoWait.
ASSUME PayloadsAssumption ==
  /\ EventNames \cap {"error", ""} = {}
  /\ Payloads \subseteq [hex : BOOLEAN, decodes : BOOLEAN, events : Seq(Feed!Events)]

(***************************************************************************)
(* Messages: binary (not UTF-8), garbage (not JSON), answer (has a string  *)
(* id: the subscription was accepted, or an error), change and noChange    *)
(* (state_storage with or without a value), head (chain_finalizedHead) and *)
(* other (any other method).                                               *)
(***************************************************************************)
NoPayload == [hex |-> FALSE, decodes |-> FALSE, events |-> <<>>]

Msg(s, p) == [shape |-> s, payload |-> p]

\* What the node sends on a subscription of method m.  A head is JSON, not hex.
NodeMsgs(m) ==
  {Msg(s, NoPayload) : s \in {"binary", "garbage", "answer", "other"}}
    \cup IF m = "events"
           THEN {Msg("noChange", NoPayload)} \cup {Msg("change", p) : p \in Payloads}
           ELSE {Msg("head", p) : p \in {q \in Payloads : ~ q.hex}}

\* Mutant: a SendError is ignored.
on_subscription_msg_ignores_send_error(m) ==
  [send |-> m.shape \in {"change", "head"}, close |-> m.shape = "binary"]

(***************************************************************************)
(* The handler: a value is sent, and a SendError closes the socket; what   *)
(* has an id, no value or an unknown method is passed over; a text that is *)
(* not JSON is an Err that leaves the socket open, a frame that is not     *)
(* UTF-8 one for which the ws crate closes it.                             *)
(***************************************************************************)
on_subscription_msg(m) ==
  LET value == m.shape \in {"change", "head"} IN
  [send  |-> value,
   close |-> \/ m.shape = "binary"
             \/ value /\ receiver # "held"]

----------------------------------------------------------------------------
Init ==
  /\ method = "none" /\ receiver = "none" /\ thread = "none"
  /\ inbox = <<>> /\ chan = <<>> /\ log = <<>>
  /\ waiting = NoWait /\ outcome = Feed!NoOutcome
  /\ taken = 0 /\ from = 0 /\ sent = 0

\* The Sender moves into the thread; a spawn that fails drops it.
start_subscriber(m) ==
  /\ method = "none"
  /\ method' = m
  /\ receiver' = "held"
  /\ thread' \in {"connecting", "ended"}
  /\ UNCHANGED <<inbox, chan, waiting, log, taken, from, outcome, sent>>

subscribe_events == start_subscriber("events")

subscribe_finalized_heads == start_subscriber("heads")

on_open ==
  /\ thread = "connecting"
  /\ thread' = "open"
  /\ UNCHANGED <<method, inbox, readVars, sent>>

\* connect() returns: an error, a lost connection, or the end of a close.
connect_returns ==
  /\ thread' = "ended"
  /\ inbox' = <<>>
  /\ UNCHANGED <<method, readVars, sent>>

ConnectionFails == thread \in {"connecting", "open"} /\ connect_returns

CloseHandshake == thread = "closing" /\ connect_returns

NodeSends(m) ==
  /\ thread \in {"open", "closing"}
  /\ sent < MaxMsgs
  /\ sent' = sent + 1
  /\ inbox' = Append(inbox, m)
  /\ UNCHANGED <<method, thread, readVars>>

\* Mutant: the whole message is sent instead of the value in it.
on_message_sends_message ==
  /\ thread \in {"open", "closing"}
  /\ inbox # <<>>
  /\ LET m == Head(inbox)
         effect == on_subscription_msg(m)
     IN /\ inbox' = Tail(inbox)
        /\ thread' = IF effect.close THEN "closing" ELSE thread
        /\ IF effect.send /\ receiver = "held"
             THEN chan' = Append(chan, m) /\ log' = Append(log, m)
             ELSE UNCHANGED <<chan, log>>
  /\ UNCHANGED <<method, receiver, waiting, taken, from, outcome, sent>>

on_message ==
  /\ thread \in {"open", "closing"}
  /\ inbox # <<>>
  /\ LET m == Head(inbox)
         effect == on_subscription_msg(m)
     IN /\ inbox' = Tail(inbox)
        /\ thread' = IF effect.close THEN "closing" ELSE thread
        /\ IF effect.send /\ receiver = "held"
             THEN chan' = Append(chan, m.payload) /\ log' = Append(log, m.payload)
             ELSE UNCHANGED <<chan, log>>
  /\ UNCHANGED <<method, receiver, waiting, taken, from, outcome, sent>>

\* wait_for_event(name) or wait_for_raw_event(name) is called.
wait_for_event(w) ==
  /\ receiver = "held"
  /\ waiting = NoWait
  /\ waiting' = w
  /\ from' = taken
  /\ UNCHANGED <<method, receiver, thread, inbox, chan, log, taken, outcome, sent>>

Return(r, i) ==
  /\ waiting' = NoWait
  /\ outcome' = Feed!Outcome(r, taken', i)

\* Mutant: the last match of the block is returned.
ReturnLast(events, w) ==
  \E i \in DOMAIN events :
    /\ events[i].name = w.name
    /\ \A j \in (i + 1)..Len(events) : events[j].name # w.name
    /\ Return(IF w.typed /\ ~ events[i].ok THEN "StorageValueDecode" ELSE "Ok", i)

\* The for loop over the events of a block: the first match is returned.
ReturnFirst(events, w) ==
  \E i \in DOMAIN events :
    /\ events[i].name = w.name
    /\ \A j \in 1..(i - 1) : events[j].name # w.name
    /\ Return(IF w.typed /\ ~ events[i].ok THEN "StorageValueDecode" ELSE "Ok", i)

\* One turn of the loop of wait_for_raw_event.
wait_for_raw_event ==
  /\ waiting # NoWait
  /\ chan # <<>>
  /\ chan' = Tail(chan)
  /\ taken' = taken + 1
  /\ LET p == Head(chan)
         match == \E i \in DOMAIN p.events : p.events[i].name = waiting.name
     IN \/ ~ p.hex /\ Return("InvalidHexString", 0)
        \/ p.hex /\ p.decodes /\ match /\ ReturnFirst(p.events, waiting)
        \/ p.hex /\ ~ (p.decodes /\ match) /\ UNCHANGED <<waiting, outcome>>
  /\ UNCHANGED <<method, receiver, thread, inbox, log, from, sent>>

\* Mutant: a recv() that fails is called again.
recv_disconnected_retries ==
  /\ waiting # NoWait
  /\ chan = <<>>
  /\ thread = "ended"
  /\ UNCHANGED vars

\* receiver.recv()? on an empty channel whose Sender is gone.
recv_disconnected ==
  /\ waiting # NoWait
  /\ chan = <<>>
  /\ thread = "ended"
  /\ UNCHANGED <<method, receiver, thread, inbox, chan, log, taken, from, sent>>
  /\ Return("Disconnected", 0)

\* The program reads the channel itself, as one does with finalized heads.
recv ==
  /\ receiver = "held"
  /\ waiting = NoWait
  /\ chan # <<>>
  /\ chan' = Tail(chan)
  /\ taken' = taken + 1
  /\ UNCHANGED <<method, receiver, thread, inbox, waiting, log, from, outcome, sent>>

\* The program drops its Receiver, and with it what the channel still holds.
drop_receiver ==
  /\ receiver = "held"
  /\ waiting = NoWait
  /\ receiver' = "dropped"
  /\ chan' = <<>>
  /\ UNCHANGED <<method, thread, inbox, waiting, log, taken, from, outcome, sent>>

\* The Receiver is gone and the thread has ended.
Terminating == receiver = "dropped" /\ thread = "ended" /\ UNCHANGED vars

Next ==
  \/ subscribe_events
  \/ subscribe_finalized_heads
  \/ on_open
  \/ ConnectionFails
  \/ CloseHandshake
  \/ \E m \in NodeMsgs(method) : NodeSends(m)
  \/ on_message
  \/ \E w \in Feed!Waits : wait_for_event(w)
  \/ wait_for_raw_event
  \/ recv_disconnected
  \/ recv
  \/ drop_receiver
  \/ Terminating

Spec == Init /\ [][Next]_vars

\* The subscriber thread handles what has arrived, a wait goes on; nothing is
\* assumed of the node, the network, or the program outside its waits.
Fairness ==
  /\ WF_vars(on_message)
  /\ WF_vars(wait_for_raw_event)
  /\ WF_vars(recv_disconnected)

FairSpec == Spec /\ Fairness

----------------------------------------------------------------------------
Values == Payloads \cup {NoPayload}

TypeOK ==
  /\ method \in {"none", "events", "heads"}
  /\ receiver \in {"none", "held", "dropped"}
  /\ thread \in {"none", "connecting", "open", "closing", "ended"}
  /\ inbox \in Seq([shape : {"binary", "garbage", "answer", "other", "change",
                             "noChange", "head"}, payload : Values])
  /\ chan \in Seq(Payloads)
  /\ log \in Seq(Payloads)
  /\ waiting \in Feed!Waits \cup {NoWait}
  /\ outcome \in [res : {"none", "Ok", "InvalidHexString", "StorageValueDecode",
                         "Disconnected"}, at : Nat, idx : Nat]
  /\ taken \in Nat /\ from \in Nat /\ sent \in Nat

\* The loop of wait_for_raw_event, fed by another thread, acts as one step:
\* the wait returns the first match of the first value since the last return
\* that has one (or is not hex), and says Disconnected only if none is left.
ImplementsEventFeed == Feed!Spec

\* A wait whose event has arrived, or whose feed has ended, returns.
WaitReturns ==
  (waiting # NoWait
     /\ \/ thread = "ended"
        \/ \E i \in DOMAIN chan : Feed!EndsWait(chan[i], waiting.name)
        \/ \E i \in DOMAIN inbox :
             /\ inbox[i].shape \in {"change", "head"}
             /\ Feed!EndsWait(inbox[i].payload, waiting.name))
    ~> waiting = NoWait

\* Once the Receiver is dropped, the next value that arrives makes the thread
\* close its socket (the SendError branch of on_subscription_msg).
DropClosesSocket ==
  (receiver = "dropped"
     /\ \E i \in DOMAIN inbox : inbox[i].shape \in {"change", "head"})
    ~> thread \in {"closing", "ended"}
=============================================================================
