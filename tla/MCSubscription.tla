--------------------------- MODULE MCSubscription ---------------------------
(***************************************************************************)
(* Models of Subscription: one program, two events it can wait for, and    *)
(* the values that make a difference to the loop of wait_for_raw_event.    *)
(***************************************************************************)
EXTENDS Subscription

Good(name) == [name |-> name, ok |-> TRUE]
Bad(name)  == [name |-> name, ok |-> FALSE]

Block(events) == [hex |-> TRUE, decodes |-> TRUE, events |-> events]

MCEventNames == {"A", "B"}

MCPayloads ==
  { Block(<<Good("A")>>),                           \* one match
    Block(<<Good("B"), Good("A"), Good("A")>>),     \* two matches in a block
    Block(<<Good("error"), Bad("A")>>),             \* a match of another type
    [Block(<<Good("A")>>) EXCEPT !.decodes = FALSE],\* a match nobody can decode
    NoPayload }                                     \* not hex

=============================================================================
