-------------------------- MODULE MCSubmitAndWatch --------------------------
(***************************************************************************)
(* Models of SubmitAndWatch: what a block can hold.                        *)
(***************************************************************************)
EXTENDS SubmitAndWatch

Content(xt, decodes, events) == [xt |-> xt, decodes |-> decodes, events |-> events]

Own   == EventOf(TRUE)
Other == EventOf(FALSE)

MCContents ==
  { Content(FALSE, FALSE, <<Other>>),          \* a block of others
    Content(TRUE, TRUE, <<Own, Other>>),       \* the extrinsic first
    Content(TRUE, TRUE, <<Other, Own>>) }      \* or after another one
=============================================================================
