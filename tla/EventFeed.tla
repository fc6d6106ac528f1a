----------------------------- MODULE EventFeed -----------------------------
(***************************************************************************)
(* What a subscription promises the program that reads it: a feed of       *)
(* values in the order of the node, a position in it, and an operation     *)
(* that waits for an event and moves the position in ONE step, to the      *)
(* first value that ends the wait.  Everything before it is skipped, the   *)
(* other events of that value too; the feed may only be reported as broken *)
(* when nothing left in it ends the wait.                                  *)
(***************************************************************************)
EXTENDS Naturals, Sequences

CONSTANTS
  EventNames,  \* (module, variant) pairs a program can wait for
  Payloads     \* the values of the feed

(***************************************************************************)
(* A value of the feed is the hex string of System.Events in a block:      *)
(* whether it is hex, whether decode_events understands all of it, and the *)
(* events in it; ok says whether the data of an event decodes to the type  *)
(* the program asks for.  A Raw::Error has the name "error".               *)
(***************************************************************************)
Events == [name : EventNames \cup {"error"}, ok : BOOLEAN]

\* A wait asks for an event, raw or decoded to a type.
Waits  == [name : EventNames, typed : BOOLEAN]
NoWait == [name |-> "", typed |-> FALSE]

\* How a wait ended: with which result, at which value and event of the feed.
Outcome(r, n, i) == [res |-> r, at |-> n, idx |-> i]
NoOutcome == Outcome("none", 0, 0)

VARIABLES
  log,      \* the values fed so far
  pos,      \* how many of them have been consumed
  waiting,  \* the wait in progress, or NoWait
  outcome   \* how the last wait ended

vars == <<log, pos, waiting, outcome>>

Found(p, name) == p.decodes /\ \E i \in DOMAIN p.events : p.events[i].name = name

EndsWait(p, name) == ~ p.hex \/ Found(p, name)

\* log[n] is the first unread value that ends the wait w.
FirstEnd(n, w) ==
  /\ n \in (pos + 1)..Len(log)
  /\ EndsWait(log[n], w.name)
  /\ \A k \in (pos + 1)..(n - 1) : ~ EndsWait(log[k], w.name)

\* o is what wait w returns at value n.
Result(n, w, o) ==
  \/ ~ log[n].hex /\ o = Outcome("InvalidHexString", n, 0)
  \/ /\ log[n].hex
     /\ \E i \in DOMAIN log[n].events :
          /\ log[n].events[i].name = w.name
          /\ \A j \in 1..(i - 1) : log[n].events[j].name # w.name
          /\ o = Outcome(IF w.typed /\ ~ log[n].events[i].ok
                           THEN "StorageValueDecode" ELSE "Ok", n, i)

----------------------------------------------------------------------------
Init ==
  /\ log = <<>>
  /\ pos = 0
  /\ waiting = NoWait
  /\ outcome = NoOutcome

Publish(p) ==
  /\ log' = Append(log, p)
  /\ UNCHANGED <<pos, waiting, outcome>>

BeginWait(w) ==
  /\ waiting = NoWait
  /\ waiting' = w
  /\ UNCHANGED <<log, pos, outcome>>

EndWait(n, o) ==
  /\ waiting # NoWait
  /\ FirstEnd(n, waiting)
  /\ Result(n, waiting, o)
  /\ pos' = n
  /\ waiting' = NoWait
  /\ outcome' = o
  /\ UNCHANGED log

Broken ==
  /\ waiting # NoWait
  /\ \A n \in (pos + 1)..Len(log) : ~ EndsWait(log[n], waiting.name)
  /\ pos' = Len(log)
  /\ waiting' = NoWait
  /\ outcome' = Outcome("Disconnected", Len(log), 0)
  /\ UNCHANGED log

Take ==
  /\ waiting = NoWait
  /\ pos < Len(log)
  /\ pos' = pos + 1
  /\ UNCHANGED <<log, waiting, outcome>>

Next ==
  \/ \E p \in Payloads : Publish(p)
  \/ \E w \in Waits : BeginWait(w)
  \/ \E n \in DOMAIN log : EndWait(n, outcome')
  \/ Broken
  \/ Take

Spec == Init /\ [][Next]_vars
=============================================================================
