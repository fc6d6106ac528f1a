------------------------- MODULE SubscriptionProofs -------------------------
(***************************************************************************)
(* Theorems about Subscription, for all events and values and any number   *)
(* of messages: type correctness, and that it implements EventFeed.        *)
(***************************************************************************)
EXTENDS Subscription, TLAPS

(***************************************************************************)
(* The inductive invariant.  TypeOK is not inductive, since only some      *)
(* messages carry a value; the refinement needs to know that the channel   *)
(* is the rest of the log until the Receiver is dropped, and that the loop *)
(* of a wait has passed over nothing that ends it.                         *)
(***************************************************************************)
\* A message that the handler sends on carries a value.
InboxInv ==
  \A i \in DOMAIN inbox :
    inbox[i].shape \in {"change", "head"} => inbox[i].payload \in Payloads

ChanInv ==
  /\ method = "none" => receiver = "none"
  /\ taken <= Len(log)
  /\ receiver # "dropped" =>
       /\ Len(chan) = Len(log) - taken
       /\ \A i \in 1..Len(chan) : chan[i] = log[taken + i]

WaitInv ==
  waiting # NoWait =>
    /\ receiver = "held"
    /\ from <= taken
    /\ \A n \in (from + 1)..taken : ~ Feed!EndsWait(log[n], waiting.name)

IInv == TypeOK /\ InboxInv /\ ChanInv /\ WaitInv

\* A wait is never mistaken for NoWait.
LEMMA WaitsAreWaits == NoWait \notin Feed!Waits
  BY PayloadsAssumption DEF NoWait, Feed!NoWait, Feed!Waits

\* What the node sends has the type of a message, and carries a value if it
\* has a shape that does.
LEMMA NodeMsgsType ==
  ASSUME NEW m \in NodeMsgs(method)
  PROVE  /\ m \in [shape : {"binary", "garbage", "answer", "other", "change",
                            "noChange", "head"}, payload : Values]
         /\ m.shape \in {"change", "head"} => m.payload \in Payloads
  BY DEF NodeMsgs, Msg, Values

\* A value at the end of a sequence: the others stay where they are.
LEMMA AppendFacts ==
  ASSUME NEW S, NEW s \in Seq(S), NEW e \in S
  PROVE  /\ Append(s, e) \in Seq(S)
         /\ Len(s) \in Nat
         /\ Len(Append(s, e)) = Len(s) + 1
         /\ \A n \in 1..Len(s) : Append(s, e)[n] = s[n]
         /\ Append(s, e)[Len(s) + 1] = e
  OBVIOUS

\* The first value taken off: the others move up.
LEMMA TailFacts ==
  ASSUME NEW S, NEW s \in Seq(S), s # <<>>
  PROVE  /\ Tail(s) \in Seq(S)
         /\ Len(s) \in Nat \ {0}
         /\ Len(Tail(s)) = Len(s) - 1
         /\ \A n \in 1..Len(Tail(s)) : n + 1 \in 1..Len(s) /\ Tail(s)[n] = s[n + 1]
         /\ Head(s) = s[1] /\ s[1] \in S
  OBVIOUS

\* The invariant holds before anything is subscribed.
LEMMA InitIInv == Init => IInv
  <1> SUFFICES ASSUME Init PROVE IInv
    OBVIOUS
  <1>1. TypeOK
    BY DEF Init, TypeOK, Feed!NoOutcome, Feed!Outcome
  <1> QED
    BY <1>1 DEF Init, IInv, InboxInv, ChanInv, WaitInv

\* Steps that touch neither the channel nor what the program knows of it.
LEMMA ReadFrame ==
  ASSUME IInv, TypeOK', InboxInv', UNCHANGED <<method, readVars>>
  PROVE  IInv'
  BY DEF IInv, ChanInv, WaitInv, readVars, Feed!EndsWait, Feed!Found

\* RpcClient::on_message: a value goes to the end of the channel and of the
\* log, or both stay as they are.
LEMMA OnMessageCases ==
  ASSUME IInv, on_message
  PROVE  /\ inbox # <<>> /\ inbox' = Tail(inbox)
         /\ thread' \in {"closing", thread}
         /\ UNCHANGED <<method, receiver, waiting, taken, from, outcome, sent>>
         /\ \/ UNCHANGED <<chan, log>>
            \/ \E p \in Payloads :
                 /\ receiver = "held"
                 /\ chan' = Append(chan, p)
                 /\ log' = Append(log, p)
  <1> DEFINE m == Head(inbox)
  <1>1. inbox # <<>> /\ m = inbox[1] /\ 1 \in DOMAIN inbox
    BY DEF on_message, IInv, TypeOK
  <1>2. on_subscription_msg(m).send = (m.shape \in {"change", "head"})
    BY DEF on_subscription_msg
  <1>3. on_subscription_msg(m).send => m.payload \in Payloads
    BY <1>1, <1>2 DEF IInv, InboxInv
  <1> QED
    BY <1>1, <1>3 DEF on_message

LEMMA OnMessageIInv == IInv /\ on_message => IInv'
  <1> SUFFICES ASSUME IInv, on_message PROVE IInv'
    OBVIOUS
  <1>0. /\ inbox # <<>> /\ inbox' = Tail(inbox)
        /\ thread' \in {"closing", thread}
        /\ UNCHANGED <<method, receiver, waiting, taken, from, outcome, sent>>
    BY OnMessageCases
  <1>1. inbox' \in Seq([shape : {"binary", "garbage", "answer", "other", "change",
                                 "noChange", "head"}, payload : Values])
    BY <1>0, TailFacts DEF IInv, TypeOK
  <1>2. InboxInv'
    <2>1. \A i \in DOMAIN inbox' : i + 1 \in DOMAIN inbox /\ inbox'[i] = inbox[i + 1]
      BY <1>0 DEF IInv, TypeOK
    <2> QED
      BY <2>1 DEF IInv, InboxInv
  <1>3. CASE UNCHANGED <<chan, log>>
    <2>1. TypeOK'
      BY <1>0, <1>1, <1>3 DEF IInv, TypeOK, Values, NoWait
    <2> QED
      BY <1>0, <1>2, <1>3, <2>1, ReadFrame DEF readVars
  <1>4. ASSUME NEW p \in Payloads, receiver = "held",
               chan' = Append(chan, p), log' = Append(log, p)
        PROVE  IInv'
    <2>1. /\ log' \in Seq(Payloads)
          /\ Len(log') = Len(log) + 1 /\ Len(log) \in Nat
          /\ \A n \in 1..Len(log) : log'[n] = log[n]
          /\ log'[Len(log) + 1] = p
      BY <1>4, AppendFacts DEF IInv, TypeOK
    <2>2. /\ chan' \in Seq(Payloads)
          /\ Len(chan') = Len(chan) + 1 /\ Len(chan) \in Nat
          /\ \A n \in 1..Len(chan) : chan'[n] = chan[n]
          /\ chan'[Len(chan) + 1] = p
      BY <1>4, AppendFacts DEF IInv, TypeOK
    <2>3. TypeOK'
      BY <1>0, <1>1, <2>1, <2>2 DEF IInv, TypeOK, Values, NoWait
    <2>4. taken \in Nat /\ taken' = taken
      BY <1>0 DEF IInv, TypeOK
    <2>5. /\ method # "none"
          /\ Len(chan) = Len(log) - taken
          /\ taken <= Len(log)
          /\ \A i \in 1..Len(chan) : chan[i] = log[taken + i]
      BY <1>4 DEF IInv, ChanInv
    <2>6. ASSUME NEW i \in 1..Len(chan')
          PROVE  chan'[i] = log'[taken + i]
      <3>1. CASE i = Len(chan) + 1
        BY <2>1, <2>2, <2>4, <2>5, <3>1
      <3>2. CASE i \in 1..Len(chan)
        <4>1. taken + i \in 1..Len(log)
          BY <2>1, <2>2, <2>4, <2>5, <3>2
        <4> QED
          BY <2>1, <2>2, <2>5, <3>2, <4>1
      <3> QED
        BY <2>2, <3>1, <3>2
    <2>7. ChanInv'
      BY <1>0, <2>1, <2>2, <2>4, <2>5, <2>6 DEF ChanInv
    <2>8. WaitInv'
      <3> SUFFICES ASSUME waiting # NoWait, NEW n \in (from + 1)..taken
                   PROVE  ~ Feed!EndsWait(log'[n], waiting.name)
        BY <1>0, <1>4 DEF WaitInv, IInv, Feed!EndsWait, Feed!Found
      <3>1. n \in 1..Len(log)
        BY <2>1 DEF IInv, TypeOK, ChanInv
      <3> QED
        BY <2>1, <3>1 DEF IInv, WaitInv
    <2> QED
      BY <1>2, <2>3, <2>7, <2>8 DEF IInv
  <1> QED
    BY <1>3, <1>4, OnMessageCases

\* A value taken out of the channel is the next one of the log, and what is
\* left is still the rest of it.
LEMMA TakeFacts ==
  ASSUME IInv, receiver = "held", chan # <<>>,
         chan' = Tail(chan), taken' = taken + 1, UNCHANGED <<method, receiver, log>>
  PROVE  /\ chan' \in Seq(Payloads) /\ taken' \in Nat
         /\ ChanInv'
         /\ taken + 1 \in 1..Len(log) /\ taken + 1 \in DOMAIN log
         /\ Head(chan) = log[taken + 1]
         /\ Head(chan) \in Payloads
  <1>1. /\ chan' \in Seq(Payloads)
        /\ Len(chan) \in Nat \ {0}
        /\ Len(chan') = Len(chan) - 1
        /\ \A n \in 1..Len(chan') : n + 1 \in 1..Len(chan) /\ chan'[n] = chan[n + 1]
        /\ Head(chan) = chan[1] /\ chan[1] \in Payloads
    BY TailFacts DEF IInv, TypeOK
  <1>2. taken \in Nat /\ Len(log) \in Nat /\ DOMAIN log = 1..Len(log)
    BY DEF IInv, TypeOK
  <1>3. /\ method # "none"
        /\ Len(chan) = Len(log) - taken
        /\ taken <= Len(log)
        /\ \A i \in 1..Len(chan) : chan[i] = log[taken + i]
    BY DEF IInv, ChanInv
  <1>4. ASSUME NEW i \in 1..Len(chan')
        PROVE  chan'[i] = log[(taken + 1) + i]
    <2>1. chan'[i] = log[taken + (i + 1)]
      BY <1>1, <1>3
    <2>2. taken + (i + 1) = (taken + 1) + i
      BY <1>2
    <2> QED
      BY <2>1, <2>2
  <1>5. ChanInv'
    BY <1>1, <1>2, <1>3, <1>4 DEF ChanInv
  <1>6. 1 \in 1..Len(chan)
    BY <1>1
  <1> QED
    BY <1>1, <1>2, <1>3, <1>5, <1>6

\* One turn of the loop of wait_for_raw_event: the wait returns at the value
\* it took, which ends it, or goes on and has passed over one that does not.
LEMMA TurnCases ==
  ASSUME IInv, wait_for_raw_event
  PROVE  \/ /\ waiting' = NoWait
            /\ Feed!EndsWait(log[taken + 1], waiting.name)
            /\ Feed!Result(taken + 1, waiting, outcome')
         \/ /\ UNCHANGED <<waiting, outcome>>
            /\ ~ Feed!EndsWait(log[taken + 1], waiting.name)
  <1> DEFINE p == Head(chan)
  <1>1. p = log[taken + 1] /\ taken' = taken + 1
    BY TakeFacts DEF IInv, WaitInv, wait_for_raw_event
  <1>2. CASE ~ p.hex /\ Return("InvalidHexString", 0)
    BY <1>1, <1>2 DEF Return, Feed!EndsWait, Feed!Result
  <1>3. CASE p.hex /\ p.decodes /\ ReturnFirst(p.events, waiting)
    <2>1. PICK i \in DOMAIN p.events :
            /\ p.events[i].name = waiting.name
            /\ \A j \in 1..(i - 1) : p.events[j].name # waiting.name
            /\ Return(IF waiting.typed /\ ~ p.events[i].ok
                        THEN "StorageValueDecode" ELSE "Ok", i)
      BY <1>3 DEF ReturnFirst
    <2>2. Feed!EndsWait(p, waiting.name)
      BY <1>3, <2>1 DEF Feed!EndsWait, Feed!Found
    <2>3. /\ waiting' = NoWait
          /\ outcome' = Feed!Outcome(IF waiting.typed /\ ~ p.events[i].ok
                                       THEN "StorageValueDecode" ELSE "Ok",
                                     taken + 1, i)
      BY <1>1, <2>1 DEF Return
    <2>4. Feed!Result(taken + 1, waiting, outcome')
      BY <1>1, <1>3, <2>1, <2>3 DEF Feed!Result
    <2> QED
      BY <1>1, <2>2, <2>3, <2>4
  <1>4. CASE /\ p.hex
             /\ ~ (p.decodes /\ \E i \in DOMAIN p.events : p.events[i].name = waiting.name)
             /\ UNCHANGED <<waiting, outcome>>
    BY <1>1, <1>4 DEF Feed!EndsWait, Feed!Found
  <1> QED
    BY <1>2, <1>3, <1>4 DEF wait_for_raw_event

\* What a wait returns at a value of the log has the type of an outcome.
LEMMA ResultType ==
  ASSUME NEW n \in Nat, log[n] \in Payloads, NEW w, NEW o, Feed!Result(n, w, o)
  PROVE  o \in [res : {"none", "Ok", "InvalidHexString", "StorageValueDecode",
                       "Disconnected"}, at : Nat, idx : Nat]
  <1>1. log[n].events \in Seq(Feed!Events)
    BY PayloadsAssumption
  <1> QED
    BY <1>1 DEF Feed!Result, Feed!Outcome

LEMMA TurnIInv == IInv /\ wait_for_raw_event => IInv'
  <1> SUFFICES ASSUME IInv, wait_for_raw_event PROVE IInv'
    OBVIOUS
  <1>1. /\ waiting # NoWait /\ receiver = "held" /\ from <= taken
        /\ chan # <<>> /\ chan' = Tail(chan) /\ taken' = taken + 1
        /\ UNCHANGED <<method, receiver, thread, inbox, log, from, sent>>
    BY DEF IInv, WaitInv, wait_for_raw_event
  <1>2. /\ chan' \in Seq(Payloads) /\ taken' \in Nat /\ taken \in Nat /\ from \in Nat
        /\ ChanInv'
        /\ taken + 1 \in 1..Len(log)
        /\ log[taken + 1] \in Payloads
    BY <1>1, TakeFacts DEF IInv, TypeOK
  <1>3. InboxInv'
    BY <1>1 DEF IInv, InboxInv
  <1>4. TypeOK'
    <2>1. /\ waiting' \in Feed!Waits \cup {NoWait}
          /\ outcome' \in [res : {"none", "Ok", "InvalidHexString", "StorageValueDecode",
                                  "Disconnected"}, at : Nat, idx : Nat]
      BY <1>2, TurnCases, ResultType DEF IInv, TypeOK
    <2> QED
      BY <1>1, <1>2, <2>1 DEF IInv, TypeOK, Values, NoWait
  <1>5. WaitInv'
    <2>1. CASE waiting' = NoWait
      BY <2>1 DEF WaitInv, NoWait
    <2>2. CASE /\ UNCHANGED <<waiting, outcome>>
               /\ ~ Feed!EndsWait(log[taken + 1], waiting.name)
      <3>1. \A n \in (from + 1)..(taken + 1) : n \in (from + 1)..taken \/ n = taken + 1
        BY <1>2
      <3>2. \A n \in (from + 1)..(taken + 1) : ~ Feed!EndsWait(log[n], waiting.name)
        BY <1>1, <2>2, <3>1 DEF IInv, WaitInv
      <3>3. from <= taken + 1
        BY <1>1, <1>2
      <3> QED
        BY <1>1, <2>2, <3>2, <3>3 DEF WaitInv, Feed!EndsWait, Feed!Found
    <2> QED
      BY <2>1, <2>2, TurnCases
  <1> QED
    BY <1>2, <1>3, <1>4, <1>5 DEF IInv

\* The invariant is inductive.
LEMMA NextIInv == IInv /\ [Next]_vars => IInv'
  <1> SUFFICES ASSUME IInv, [Next]_vars PROVE IInv'
    OBVIOUS
  <1> USE DEF IInv
  <1>1. ASSUME NEW m \in {"events", "heads"}, start_subscriber(m) PROVE IInv'
    <2>1. TypeOK'
      BY <1>1 DEF start_subscriber, TypeOK, Values, NoWait
    <2>2. InboxInv'
      BY <1>1 DEF start_subscriber, InboxInv
    <2> QED
      <3>1. ChanInv'
        BY <1>1 DEF start_subscriber, ChanInv
      <3>2. WaitInv'
        BY <1>1 DEF start_subscriber, WaitInv, Feed!EndsWait, Feed!Found
      <3> QED
        BY <2>1, <2>2, <3>1, <3>2
  <1>2. CASE on_open
    <2>1. TypeOK' /\ InboxInv' /\ UNCHANGED <<method, readVars>>
      BY <1>2 DEF on_open, TypeOK, Values, NoWait, InboxInv, readVars
    <2> QED
      BY <2>1, ReadFrame
  <1>3. CASE connect_returns
    <2>1. TypeOK' /\ InboxInv' /\ UNCHANGED <<method, readVars>>
      BY <1>3 DEF connect_returns, TypeOK, Values, NoWait, InboxInv, readVars
    <2> QED
      BY <2>1, ReadFrame
  <1>4. ASSUME NEW m \in NodeMsgs(method), NodeSends(m) PROVE IInv'
    <2>1. UNCHANGED <<method, thread, readVars>> /\ inbox' = Append(inbox, m)
          /\ sent' = sent + 1
      BY <1>4 DEF NodeSends
    <2>2. /\ inbox' \in Seq([shape : {"binary", "garbage", "answer", "other", "change",
                                      "noChange", "head"}, payload : Values])
          /\ \A i \in DOMAIN inbox' : inbox'[i] = m \/ (i \in DOMAIN inbox /\ inbox'[i] = inbox[i])
      <3> DEFINE M == [shape : {"binary", "garbage", "answer", "other", "change",
                                "noChange", "head"}, payload : Values]
      <3>1. m \in M /\ inbox \in Seq(M)
        BY NodeMsgsType DEF TypeOK
      <3> HIDE DEF M
      <3>2. inbox' \in Seq(M)
        BY <2>1, <3>1
      <3>3. \A i \in DOMAIN inbox' : inbox'[i] = m \/ (i \in DOMAIN inbox /\ inbox'[i] = inbox[i])
        <4>1. /\ DOMAIN inbox = 1..Len(inbox) /\ DOMAIN inbox' = 1..(Len(inbox) + 1)
              /\ Len(inbox) \in Nat
              /\ \A i \in 1..Len(inbox) : inbox'[i] = inbox[i]
              /\ inbox'[Len(inbox) + 1] = m
          BY <2>1, <3>1
        <4> QED
          BY <4>1
      <3> QED
        BY <3>2, <3>3 DEF M
    <2>3. TypeOK'
      BY <2>1, <2>2 DEF TypeOK, Values, NoWait, readVars
    <2>4. InboxInv'
      BY <2>2, NodeMsgsType DEF InboxInv
    <2> QED
      BY <2>1, <2>3, <2>4, ReadFrame
  <1>5. CASE on_message
    BY <1>5, OnMessageIInv
  <1>6. ASSUME NEW w \in Feed!Waits, wait_for_event(w) PROVE IInv'
    <2>1. TypeOK'
      BY <1>6 DEF wait_for_event, TypeOK, Values, NoWait
    <2>2. InboxInv' /\ ChanInv'
      BY <1>6 DEF wait_for_event, InboxInv, ChanInv
    <2>3. WaitInv'
      BY <1>6 DEF wait_for_event, TypeOK, WaitInv
    <2> QED
      BY <2>1, <2>2, <2>3
  <1>7. CASE wait_for_raw_event
    BY <1>7, TurnIInv
  <1>8. CASE recv_disconnected
    <2>1. TypeOK'
      BY <1>8 DEF recv_disconnected, Return, TypeOK, Values, NoWait, Feed!Outcome
    <2>2. InboxInv' /\ ChanInv'
      BY <1>8 DEF recv_disconnected, InboxInv, ChanInv
    <2>3. WaitInv'
      BY <1>8 DEF recv_disconnected, Return, WaitInv, NoWait
    <2> QED
      BY <2>1, <2>2, <2>3
  <1>9. CASE recv
    <2>1. chan' \in Seq(Payloads) /\ taken' \in Nat /\ ChanInv'
      BY <1>9, TakeFacts DEF recv
    <2>2. TypeOK'
      BY <1>9, <2>1 DEF recv, TypeOK, Values, NoWait
    <2>3. InboxInv' /\ WaitInv'
      BY <1>9 DEF recv, InboxInv, WaitInv, NoWait
    <2> QED
      BY <2>1, <2>2, <2>3
  <1>10. CASE drop_receiver
    <2>1. TypeOK'
      BY <1>10 DEF drop_receiver, TypeOK, Values, NoWait
    <2>2. InboxInv' /\ WaitInv' /\ ChanInv'
      BY <1>10 DEF drop_receiver, InboxInv, WaitInv, ChanInv, NoWait
    <2> QED
      BY <2>1, <2>2
  <1>11. CASE UNCHANGED vars
    <2>1. TypeOK' /\ InboxInv' /\ UNCHANGED <<method, readVars>>
      BY <1>11 DEF vars, TypeOK, Values, NoWait, InboxInv, readVars
    <2> QED
      BY <2>1, ReadFrame
  <1> QED
    BY <1>1, <1>2, <1>3, <1>4, <1>5, <1>6, <1>7, <1>8, <1>9, <1>10, <1>11
    DEF Next, subscribe_events, subscribe_finalized_heads, ConnectionFails,
        CloseHandshake, Terminating

\* The subscriber thread, the node and the program keep the invariant in
\* every reachable state.
THEOREM Invariance == Spec => []IInv
  <1>1. Init => IInv
    BY InitIInv
  <1>2. IInv /\ [Next]_vars => IInv'
    BY NextIInv
  <1> QED
    BY <1>1, <1>2, PTL DEF Spec

\* Every variable of the subscription keeps its type, for all events, values
\* and numbers of messages; in particular only values reach the channel.
THEOREM TypeCorrect == Spec => []TypeOK
  <1>1. IInv => TypeOK
    BY DEF IInv
  <1> QED
    BY <1>1, Invariance, PTL

(***************************************************************************)
(* The refinement.  on_message publishes; a call of wait_for_event begins  *)
(* a wait, and the turn of the loop that returns ends it, at the value     *)
(* after all the turns that passed over one; recv takes a value.  All      *)
(* other steps leave the feed as it is.                                    *)
(***************************************************************************)
LEMMA InitSimulation == Init => Feed!Init
  BY DEF Init, NoWait, Feed!NoWait, Feed!Init

\* The returning turn of the loop is the one step of the abstract wait.
LEMMA TurnSimulation ==
  ASSUME IInv, wait_for_raw_event
  PROVE  (\E n \in DOMAIN log : Feed!EndWait(n, outcome')) \/ UNCHANGED Feed!vars
  <1>1. /\ waiting # NoWait /\ receiver = "held" /\ from <= taken
        /\ chan # <<>> /\ chan' = Tail(chan) /\ taken' = taken + 1
        /\ UNCHANGED <<method, receiver, log, from>>
    BY DEF IInv, WaitInv, wait_for_raw_event
  <1>2. /\ taken \in Nat /\ from \in Nat /\ Len(log) \in Nat
        /\ taken + 1 \in 1..Len(log) /\ taken + 1 \in DOMAIN log
    BY <1>1, TakeFacts DEF IInv, TypeOK
  <1>3. CASE UNCHANGED <<waiting, outcome>>
    BY <1>1, <1>3 DEF Feed!vars, NoWait, Feed!NoWait
  <1>4. CASE /\ waiting' = NoWait
             /\ Feed!EndsWait(log[taken + 1], waiting.name)
             /\ Feed!Result(taken + 1, waiting, outcome')
    <2>1. Feed!FirstEnd(taken + 1, waiting)
      <3>1. taken + 1 \in (from + 1)..Len(log)
        BY <1>1, <1>2
      <3>2. \A k \in (from + 1)..((taken + 1) - 1) : ~ Feed!EndsWait(log[k], waiting.name)
        BY <1>1, <1>2 DEF IInv, WaitInv
      <3> QED
        BY <1>1, <1>4, <3>1, <3>2 DEF Feed!FirstEnd, NoWait, Feed!NoWait
    <2>2. Feed!EndWait(taken + 1, outcome')
      BY <1>1, <1>4, <2>1 DEF Feed!EndWait, NoWait, Feed!NoWait
    <2> QED
      BY <1>2, <2>2
  <1> QED
    BY <1>3, <1>4, TurnCases

\* A channel whose Sender is gone and that is empty has nothing left to end
\* the wait.
LEMMA DisconnectSimulation ==
  ASSUME IInv, recv_disconnected
  PROVE  Feed!Broken
  <1>1. /\ waiting # NoWait /\ receiver = "held" /\ from <= taken
        /\ chan = <<>> /\ UNCHANGED <<log, taken>>
        /\ waiting' = NoWait
        /\ outcome' = Feed!Outcome("Disconnected", taken, 0)
    BY DEF IInv, WaitInv, recv_disconnected, Return
  <1>2. taken = Len(log)
    BY <1>1 DEF IInv, TypeOK, ChanInv
  <1>3. \A n \in (from + 1)..Len(log) : ~ Feed!EndsWait(log[n], waiting.name)
    BY <1>1, <1>2 DEF IInv, WaitInv
  <1> QED
    BY <1>1, <1>2, <1>3 DEF Feed!Broken, NoWait, Feed!NoWait

LEMMA StepSimulation == IInv /\ [Next]_vars => [Feed!Next]_(Feed!vars)
  <1> SUFFICES ASSUME IInv, [Next]_vars PROVE [Feed!Next]_(Feed!vars)
    OBVIOUS
  <1>1. ASSUME UNCHANGED <<waiting, log, taken, from, outcome>>
        PROVE  UNCHANGED Feed!vars
    BY <1>1 DEF Feed!vars
  <1>2. CASE on_message
    <2>1. UNCHANGED <<waiting, taken, from, outcome>>
      BY <1>2, OnMessageCases
    <2>2. CASE UNCHANGED log
      BY <1>1, <2>1, <2>2
    <2>3. ASSUME NEW p \in Payloads, log' = Append(log, p)
          PROVE  Feed!Next
      BY <2>1, <2>3 DEF Feed!Next, Feed!Publish
    <2> QED
      BY <1>2, <2>2, <2>3, OnMessageCases
  <1>3. ASSUME NEW w \in Feed!Waits, wait_for_event(w)
        PROVE  Feed!Next
    <2>1. waiting = NoWait /\ waiting' = w /\ from' = taken /\ UNCHANGED <<log, taken, outcome>>
      BY <1>3 DEF wait_for_event
    <2>2. w # NoWait
      BY WaitsAreWaits
    <2>3. Feed!BeginWait(w)
      BY <2>1, <2>2 DEF Feed!BeginWait, NoWait, Feed!NoWait
    <2> QED
      BY <2>3 DEF Feed!Next
  <1>4. CASE wait_for_raw_event
    BY <1>4, TurnSimulation DEF Feed!Next
  <1>5. CASE recv_disconnected
    BY <1>5, DisconnectSimulation DEF Feed!Next
  <1>6. CASE recv
    <2>1. /\ receiver = "held" /\ waiting = NoWait /\ chan # <<>>
          /\ chan' = Tail(chan) /\ taken' = taken + 1
          /\ UNCHANGED <<method, receiver, waiting, log, outcome>>
      BY <1>6 DEF recv
    <2>2. taken \in Nat /\ Len(log) \in Nat /\ taken < Len(log)
      BY <2>1, TakeFacts DEF IInv, TypeOK
    <2>3. Feed!Take
      BY <2>1, <2>2 DEF Feed!Take, NoWait, Feed!NoWait
    <2> QED
      BY <2>3 DEF Feed!Next
  <1>7. CASE \/ subscribe_events \/ subscribe_finalized_heads \/ on_open
             \/ ConnectionFails \/ CloseHandshake \/ drop_receiver
             \/ \E m \in NodeMsgs(method) : NodeSends(m)
             \/ Terminating \/ UNCHANGED vars
    <2>1. UNCHANGED <<waiting, log, taken, from, outcome>>
      BY <1>7 DEF subscribe_events, subscribe_finalized_heads, start_subscriber,
                  on_open, ConnectionFails, CloseHandshake, connect_returns,
                  NodeSends, drop_receiver, Terminating, readVars, vars
    <2> QED
      BY <1>1, <2>1
  <1> QED
    BY <1>2, <1>3, <1>4, <1>5, <1>6, <1>7 DEF Next

\* The subscriber thread and the loop of wait_for_raw_event implement the
\* feed: a wait acts as one step that returns the first match of the first
\* value that has one, and Disconnected only if none is left.
THEOREM Refinement == Spec => ImplementsEventFeed
  <1>1. Init => Feed!Init
    BY InitSimulation
  <1>2. IInv /\ [Next]_vars => [Feed!Next]_(Feed!vars)
    BY StepSimulation
  <1> QED
    BY <1>1, <1>2, Invariance, PTL DEF Spec, ImplementsEventFeed, Feed!Spec

=============================================================================
