--------------------------- MODULE SubmitAndWatch ---------------------------
(***************************************************************************)
(* The program the library is made for: it subscribes to events, sends an  *)
(* extrinsic with send_extrinsic(exit_on), and then waits for the event of *)
(* that extrinsic.  Three sockets and a chain that forks are involved, and *)
(* nothing ties the answers together: the subscription is registered some  *)
(* time after subscribe_events has returned, a value of the feed does not  *)
(* say which block it is from, and an event not which extrinsic.           *)
(*                                                                         *)
(* The parts are taken at their word: the subscription is an EventFeed     *)
(* (module Subscription implements it), the send a BlockingCall (module    *)
(* WsClient does).  The chain and the pool of the node are external.       *)
(***************************************************************************)
EXTENDS Naturals, Sequences, SequencesExt

CONSTANTS
  Contents,  \* what a block can hold: the extrinsic or not, events, decodable
  Exits,     \* the exit_on of the send
  MaxBlocks  \* bound: the blocks of the chain, on all forks

VARIABLES
  \* the node
  tree,      \* tree[b]: the block with hash b, on all forks
  best,      \* the best block
  final,     \* the last finalized block
  pool,      \* the extrinsic: "none", "in" (submitted) or "out" (dropped)
  \* the subscription
  sub,       \* "none", "connecting", "registered", "refused" or "ended"
  wire,      \* values on their way to the subscriber thread
  log, pos, waiting, outcome,   \* the feed
  \* the send
  statuses,  \* messages of the node on their way to the thread of the send
  caller, kind, ret, heard,     \* the call
  \* history
  got        \* the blocks whose event of the extrinsic a wait has returned

chainVars == <<tree, best, final, pool>>
feedVars  == <<log, pos, waiting, outcome>>
callVars  == <<caller, kind, ret, heard>>
vars == <<chainVars, sub, wire, feedVars, statuses, callVars, got>>

Blocks == 1..MaxBlocks
Xt     == "xt"

Feed == INSTANCE EventFeed WITH EventNames <- {"E"}, Payloads <- {}

Call == INSTANCE BlockingCall WITH Calls <- {Xt}, Hashes <- Blocks, NoHash <- 0

\* An event of the name the program waits for, caused by its extrinsic or not.
EventOf(own) == [name |-> "E", ok |-> TRUE, own |-> own]

ASSUME ContentsAssumption ==
  /\ MaxBlocks \in Nat \ {0}
  /\ Exits \subseteq {"Ready", "InBlock", "Finalized"}
  /\ Contents \subseteq
       [xt : BOOLEAN, decodes : BOOLEAN,
        events : Seq({EventOf(TRUE), EventOf(FALSE)})]
  /\ \A c \in Contents :
       (\E i \in DOMAIN c.events : c.events[i].own) => c.xt

\* line: the blocks from this one back to the first one, its own hash included;
\* seen: how the node told the subscriber of a block: "late" (imported before
\* the subscription, not told), "initial" (the best block when it was
\* registered), "live" (when imported), "side" (imported off the best chain
\* and not told).
Block(c, line, number, seen) ==
  [content |-> c, line |-> line, number |-> number, seen |-> seen]

\* The best block when the program begins has an event of the name, too.
First == [xt |-> FALSE, decodes |-> TRUE, events |-> <<EventOf(FALSE)>>]

\* The blocks from b back to the first one.
Chain(b) == tree[b].line

\* Those of them that hold the extrinsic: at most one.
Holders(blocks) == {b \in blocks : tree[b].content.xt}

\* The changes of a state_storage message: the events of a block, not its hash
\* (kept here to state the properties).
Value(b, c) == [hex |-> TRUE, decodes |-> c.decodes, events |-> c.events, block |-> b]

Status(s, b) == [shape |-> s, hash |-> b]

Watched == caller[Xt] = "waiting"

----------------------------------------------------------------------------
Init ==
  /\ tree = <<Block(First, {1}, 0, "late")>> /\ best = 1 /\ final = 1
  /\ pool = "none"
  /\ sub = "none" /\ wire = <<>> /\ statuses = <<>>
  /\ got = {}
  /\ Feed!Init
  /\ Call!Init

(***************************************************************************)
(* The subscription.                                                       *)
(***************************************************************************)
\* subscribe_events returns at once; a spawn that fails ends the feed.
subscribe_events ==
  /\ sub = "none"
  /\ sub' \in {"connecting", "ended"}
  /\ UNCHANGED <<chainVars, wire, feedVars, statuses, callVars, got>>

\* state_subscribeStorage reaches the node: it sends the value of the best
\* block, or refuses, which the client passes over.
Register ==
  /\ sub = "connecting"
  /\ \/ /\ sub' = "registered"
        /\ wire' = <<Value(best, tree[best].content)>>
        /\ tree' = [tree EXCEPT ![best].seen = "initial"]
     \/ /\ sub' = "refused"
        /\ UNCHANGED <<wire, tree>>
  /\ UNCHANGED <<best, final, pool, feedVars, statuses, callVars, got>>

SubscriptionLost ==
  /\ sub \in {"connecting", "registered", "refused"}
  /\ sub' = "ended"
  /\ wire' = <<>>
  /\ UNCHANGED <<chainVars, feedVars, statuses, callVars, got>>

\* Mutants: a value nobody waits for is not sent; the message is sent whole.
on_subscription_msg_if_waiting ==
  /\ wire # <<>>
  /\ wire' = Tail(wire)
  /\ IF waiting = Feed!NoWait THEN UNCHANGED feedVars ELSE Feed!Publish(Head(wire))
  /\ UNCHANGED <<chainVars, sub, statuses, callVars, got>>

on_subscription_msg_whole ==
  /\ wire # <<>>
  /\ wire' = Tail(wire)
  /\ Feed!Publish([Head(wire) EXCEPT !.hex = FALSE])
  /\ UNCHANGED <<chainVars, sub, statuses, callVars, got>>

on_subscription_msg ==
  /\ wire # <<>>
  /\ wire' = Tail(wire)
  /\ Feed!Publish(Head(wire))
  /\ UNCHANGED <<chainVars, sub, statuses, callVars, got>>

\* The program waits, once the send has returned, and may do so again.
wait_for_event ==
  /\ caller[Xt] = "done"
  /\ outcome.res # "Disconnected"
  /\ Feed!BeginWait([name |-> "E", typed |-> FALSE])
  /\ UNCHANGED <<chainVars, sub, wire, statuses, callVars, got>>

Returns(n, i) ==
  /\ Feed!EndWait(n, Feed!Outcome("Ok", n, i))
  /\ got' = IF log[n].events[i].own THEN got \cup {log[n].block} ELSE got
  /\ UNCHANGED <<chainVars, sub, wire, statuses, callVars>>

\* Mutant: the loop stays at a value it cannot decode.
wait_for_raw_event_stuck ==
  \E n \in DOMAIN log :
    /\ \A k \in (pos + 1)..n : log[k].decodes
    /\ \E i \in DOMAIN log[n].events : Returns(n, i)

wait_for_raw_event ==
  \E n \in DOMAIN log : \E i \in DOMAIN log[n].events : Returns(n, i)

recv_disconnected ==
  /\ sub = "ended"
  /\ Feed!Broken
  /\ UNCHANGED <<chainVars, sub, wire, statuses, callVars, got>>

(***************************************************************************)
(* The send.                                                               *)
(***************************************************************************)
send_extrinsic(k) ==
  /\ sub # "none"
  /\ Call!Begin(Xt, k)
  /\ UNCHANGED <<chainVars, sub, wire, feedVars, statuses, got>>

\* author_submitAndWatchExtrinsic reaches the node.  (A future extrinsic ends
\* the send as an error does, and is left out.)
Submit ==
  /\ Watched
  /\ pool = "none"
  /\ \E s \in {"ready", "error"} :
       /\ statuses' = <<Status(s, 0)>>
       /\ pool' = IF s = "error" THEN "out" ELSE "in"
  /\ UNCHANGED <<tree, best, final, sub, wire, feedVars, callVars, got>>

\* Mutant: statuses after a retracted are passed over.
on_extrinsic_msg_once ==
  /\ Watched
  /\ statuses # <<>>
  /\ statuses' = Tail(statuses)
  /\ Call!Hear(Xt, IF \E i \in DOMAIN heard[Xt] : heard[Xt][i].shape = "retracted"
                     THEN Status("dropped", 0) ELSE Head(statuses))
  /\ UNCHANGED <<chainVars, sub, wire, feedVars, got>>

on_extrinsic_msg ==
  /\ Watched
  /\ statuses # <<>>
  /\ statuses' = Tail(statuses)
  /\ Call!Hear(Xt, Head(statuses))
  /\ UNCHANGED <<chainVars, sub, wire, feedVars, got>>

\* Mutant: the first hash is returned, whatever was asked for.
send_returns_first_hash ==
  /\ \/ Call!Return(Xt)
     \/ /\ caller' = [caller EXCEPT ![Xt] = "done"]
        /\ \E i \in DOMAIN heard[Xt] :
             /\ heard[Xt][i].shape = "inBlock"
             /\ ret' = [ret EXCEPT ![Xt] = Call!Some([form |-> "hash",
                                                      hash |-> heard[Xt][i].hash])]
        /\ UNCHANGED <<kind, heard>>
  /\ statuses' = <<>>
  /\ UNCHANGED <<chainVars, sub, wire, feedVars, got>>

\* The send returns and its socket is closed.
send_returns ==
  /\ Call!Return(Xt)
  /\ statuses' = <<>>
  /\ UNCHANGED <<chainVars, sub, wire, feedVars, got>>

SendLost ==
  /\ Call!Disconnect(Xt)
  /\ statuses' = <<>>
  /\ UNCHANGED <<chainVars, sub, wire, feedVars, got>>

(***************************************************************************)
(* The chain.                                                              *)
(***************************************************************************)
\* What the watcher of the extrinsic is told when block b on parent is the new
\* best block.
Moves(b, parent, c) ==
  LET old == Chain(best)
      new == Chain(parent)
      in  == Holders(new \ old) \cup {d \in {b} : c.xt}
  IN SetToSeq({Status("retracted", 0) : d \in Holders(old \ new)})
       \o SetToSeq({Status("inBlock", d) : d \in in})

\* A block as high as the best one or higher, not behind the finalized one.  The
\* subscriber is told of a new best block, and perhaps of another one.
Import(parent, c) ==
  /\ sub # "none"
  /\ Len(tree) < MaxBlocks
  /\ tree[parent].number + 1 >= tree[best].number
  /\ final \in Chain(parent)
  /\ c.xt => pool = "in" /\ Holders(Chain(parent)) = {}
  /\ LET b      == Len(tree) + 1
         number == tree[parent].number + 1
         longer == number > tree[best].number
     IN \E seen \in {"late", "live", "side"} :
          /\ seen = "late" <=> sub # "registered"
          /\ seen = "side" => ~ longer
          /\ tree' = Append(tree, Block(c, Chain(parent) \cup {b}, number, seen))
          /\ wire' = IF seen = "live" THEN Append(wire, Value(b, c)) ELSE wire
          /\ best' = IF longer THEN b ELSE best
          /\ statuses' = IF longer /\ Watched THEN statuses \o Moves(b, parent, c)
                                              ELSE statuses
  /\ UNCHANGED <<final, pool, sub, feedVars, callVars, got>>

Finalize(b) ==
  /\ b \in Chain(best) \ Chain(final)
  /\ final' = b
  /\ statuses' = IF Watched
                   THEN statuses \o SetToSeq({Status("finalized", d) :
                                       d \in Holders(Chain(b) \ Chain(final))})
                   ELSE statuses
  /\ UNCHANGED <<tree, best, pool, sub, wire, feedVars, callVars, got>>

\* The pool gives the extrinsic up: dropped, usurped or invalid.
Drop ==
  /\ pool = "in"
  /\ Holders(Chain(best)) = {}
  /\ pool' = "out"
  /\ statuses' = IF Watched THEN Append(statuses, Status("dropped", 0)) ELSE statuses
  /\ UNCHANGED <<tree, best, final, sub, wire, feedVars, callVars, got>>

Next ==
  \/ subscribe_events \/ Register \/ SubscriptionLost
  \/ on_subscription_msg
  \/ wait_for_event \/ wait_for_raw_event \/ recv_disconnected
  \/ \E k \in Exits : send_extrinsic(k)
  \/ Submit \/ on_extrinsic_msg \/ send_returns \/ SendLost
  \/ \E parent \in DOMAIN tree, c \in Contents : Import(parent, c)
  \/ \E b \in DOMAIN tree : Finalize(b)
  \/ Drop

Spec == Init /\ [][Next]_vars

\* The threads of the client go on, and what was sent on a connection arrives
\* as long as it is not lost; nothing is assumed of the node.
Fairness ==
  /\ WF_vars(on_subscription_msg)
  /\ WF_vars(wait_for_raw_event)
  /\ WF_vars(recv_disconnected)
  /\ WF_vars(on_extrinsic_msg)
  /\ WF_vars(send_returns)

FairSpec == Spec /\ Fairness

----------------------------------------------------------------------------
Values == [hex : {TRUE}, decodes : BOOLEAN, events : {c.events : c \in Contents \cup {First}},
           block : Blocks]

TypeOK ==
  /\ tree \in Seq([content : Contents \cup {First}, line : SUBSET Blocks,
                   number : 0..MaxBlocks, seen : {"late", "initial", "live", "side"}])
  /\ best \in DOMAIN tree /\ final \in Chain(best)
  /\ pool \in {"none", "in", "out"}
  /\ sub \in {"none", "connecting", "registered", "refused", "ended"}
  /\ wire \in Seq(Values) /\ log \in Seq(Values) /\ pos \in 0..Len(log)
  /\ waiting \in Feed!Waits \cup {Feed!NoWait}
  /\ outcome.res \in {"none", "Ok", "Disconnected"}
  /\ statuses \in Seq([shape : Call!PlainShapes \cup Call!HashShapes, hash : 0..MaxBlocks])
  /\ caller[Xt] \in {"idle", "waiting", "done"}
  /\ ret[Xt] \in Call!Returns
  /\ got \subseteq Holders(DOMAIN tree)

\* The values the program has not read yet.
Unread == {log[n].block : n \in (pos + 1)..Len(log)}
            \cup {wire[n].block : n \in DOMAIN wire}

\* The first event of the name in block b is the one of the extrinsic.
OwnEventFirst(b) ==
  LET events == tree[b].content.events IN
  \E i \in DOMAIN events :
    /\ events[i] = EventOf(TRUE)
    /\ \A j \in 1..(i - 1) : events[j].name # "E"

\* While the subscription lasts, the event of the extrinsic is returned by a
\* wait or still to be read, unless the block came before the subscription was
\* registered and was not the best one then, came on a side chain, cannot be
\* decoded, or has an event of the same name before it (wait_for_raw_event
\* drops the rest of a block).  No order of the answers on the three sockets
\* loses one, and neither does a wait that returns somebody else's event.
MissedOnlyIfUnseen ==
  sub = "registered" =>
    \A b \in Holders(DOMAIN tree) :
      OwnEventFirst(b) /\ tree[b].content.decodes =>
        b \in got \cup Unread \/ tree[b].seen \in {"late", "side"}

\* The hash send_extrinsic returns is of a block with the extrinsic, and for
\* Finalized it is not one the chain has left or can leave again, though blocks
\* that held the extrinsic were reported before and retracted.
HashHoldsExtrinsic ==
  ret[Xt].res = "Some" =>
    ret[Xt].text.hash \in
      Holders(IF kind[Xt] = "Finalized" THEN Chain(final) ELSE DOMAIN tree)

\* A program that waits for the event of its extrinsic, in a block it was told
\* of, gets an answer, whatever it has to skip on the way.
EventArrives ==
  (waiting # Feed!NoWait
     /\ \E b \in Holders(Unread) : OwnEventFirst(b) /\ tree[b].content.decodes)
    ~> (waiting = Feed!NoWait \/ sub = "ended")

\* A send that waits for InBlock or Finalized returns once the extrinsic is
\* there, also after retractions; what parse_status does not know (dropped,
\* usurped, invalid) leaves it waiting, but never a block.
SendReturns ==
  (Watched /\ \/ kind[Xt] = "InBlock" /\ Holders(Chain(best)) # {}
              \/ kind[Xt] = "Finalized" /\ Holders(Chain(final)) # {})
    ~> ~ Watched
=============================================================================
