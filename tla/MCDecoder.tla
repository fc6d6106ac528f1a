------------------------------ MODULE MCDecoder ------------------------------
(***************************************************************************)
(* Models of Decoder: a metadata with a type of every definition, and the  *)
(* bytes that its runtime writes for events and calls, from an encoder     *)
(* that is stated independently of the decoder.                            *)
(***************************************************************************)
EXTENDS Decoder

CONSTANT Depth   \* bound: how deep the encodings of recursive types go

Var(name, index, fields) == [name |-> name, index |-> index, fields |-> fields]

Prim(p)       == [def |-> "Primitive", ident |-> "", prim |-> p]
Enum(id, vs)  == [def |-> "Variant", ident |-> id, variants |-> vs]
Struct(fs)    == [def |-> "Composite", ident |-> "", fields |-> fs]
Tup(fs)       == [def |-> "Tuple", ident |-> "", fields |-> fs]
Of(def, t)    == [def |-> def, ident |-> "", param |-> t, len |-> 2]

DispatchVariants ==
  [k \in 1..10 |-> Var(DispatchNames[k], k - 1,
                       CASE k = 4 -> <<0, 19>> [] k \in 8..10 -> <<0>> [] OTHER -> <<>>)]

SystemEvents ==
  << Var("ExtrinsicSuccess", 0, <<6>>), Var("ExtrinsicFailed", 1, <<10, 5>>),
     Var("CodeUpdated", 2, <<>>) >>

\* The indices of a pallet's events may have gaps.
AssetEvents ==
  << Var("Bytes", 0, <<4>>), Var("Pair", 2, <<8, 7>>), Var("List", 5, <<9>>),
     Var("Text", 6, <<3>>), Var("Gap", 7, <<11, 0>>), Var("Amount", 8, <<12>>),
     Var("Letter", 9, <<13>>), Var("Bits", 10, <<14>>), Var("Gone", 11, <<99>>),
     Var("Failed", 12, <<10>>) >>

TypeTable ==
  << Prim("U8"), Prim("Bool"), Prim("U16"), Prim("Str"), Of("Sequence", 2),
     Struct(<<0, 1>>), Enum("Option", <<Var("None", 0, <<>>), Var("Some", 1, <<5>>)>>),
     Of("Array", 0), Tup(<<1, 0>>),
     Enum("List", <<Var("Nil", 0, <<>>), Var("Cons", 1, <<1, 9>>)>>),
     Enum("DispatchError", DispatchVariants),
     Enum("Gaps", <<Var("A", 0, <<>>), Var("B", 2, <<0>>), Var("C", 3, <<2>>)>>),
     Of("Compact", 2), Prim("Char"), Of("BitSequence", 0),
     Enum("Event", SystemEvents), Enum("Event", AssetEvents),
     Enum("Error", <<Var("NoFunds", 0, <<>>), Var("Frozen", 2, <<>>)>>),
     Enum("Call", <<Var("remark", 0, <<4>>), Var("transfer", 1, <<0, 12>>), Var("set", 3, <<6, 8>>)>>),
     [Of("Array", 0) EXCEPT !.len = 4] >>

Types == [t \in 0..19 |-> TypeTable[t + 1]]

Pallet(name, index, calls, event_type, error_type) ==
  [name |-> name, index |-> index, calls |-> calls, event |-> event_type, error |-> error_type]

Meta(prefix, version, pallets) ==
  [prefix |-> prefix, version |-> version, types |-> Types, pallets |-> pallets]

System == Pallet("System", 0, <<>>, <<15>>, <<>>)
Assets == Pallet("Assets", 3, <<18>>, <<16>>, <<17>>)

Main == Meta("META", "V14", <<System, Assets>>)

----------------------------------------------------------------------------
(***************************************************************************)
(* What a runtime writes for a value of a type: the reference.             *)
(***************************************************************************)
Joined(A, B) == {a \o b : a \in A, b \in B}

PrimEncodings ==
  [U8 |-> {<<0>>, <<2>>}, Bool |-> {<<0>>, <<1>>}, U16 |-> {<<1, 0>>},
   Str |-> {<<0>>, <<8, 97, 98>>}, Char |-> {<<97, 0, 0, 0>>}]

RECURSIVE Encodings(_, _)
RECURSIVE AllOf(_, _)

AllOf(ts, d) ==
  IF ts = <<>> THEN {<<>>} ELSE Joined(Encodings(Head(ts), d), AllOf(Tail(ts), d))

Encodings(t, d) ==
  LET y == Types[t]
      Times(n) == AllOf([i \in 1..n |-> y.param], d)
  IN
  CASE t = 10 -> {<<2>>, <<0>>, <<3, 3, 2, 0, 0, 0>>, <<7, 6>>, <<9, 1>>}
    [] t # 10 /\ d = 0 -> {}
    [] t # 10 /\ d > 0 /\ y.def = "Primitive" -> PrimEncodings[y.prim]
    [] t # 10 /\ d > 0 /\ y.def \in {"Composite", "Tuple"} -> AllOf(y.fields, d - 1)
    [] t # 10 /\ d > 0 /\ y.def = "Variant" ->
         UNION {Joined({<<y.variants[k].index>>}, AllOf(y.variants[k].fields, d - 1)) :
                  k \in DOMAIN y.variants}
    [] t # 10 /\ d > 0 /\ y.def = "Sequence" -> {<<0>>} \cup Joined({<<8>>}, Times(2))
    [] t # 10 /\ d > 0 /\ y.def = "Array" -> Times(y.len)
    [] t # 10 /\ d > 0 /\ y.def = "Compact" -> {<<4>>, <<1, 1>>}
    [] t # 10 /\ d > 0 /\ y.def = "BitSequence" -> {<<4, 1>>}

NoTopics == <<0>>
OneTopic == <<4>> \o [i \in 1..32 |-> 7]

\* Records the runtime may write, and the entries that should come out.
Written(p, v, phase, topics, data, entry) ==
  [bytes |-> phase \o <<p.index, v.index>> \o data \o topics, entry |-> entry]

EventEntry(p, v, phase, data) ==
  [error |-> "", phase |-> phase, pallet |-> p.name, variant |-> v.name, data |-> data]

FailedEntry(phase, code) ==
  LET name == DispatchNames[code[1] + 1] IN
  IF name = "Module"
    THEN [error |-> "Module", phase |-> phase, pallet |-> "Assets", variant |-> "Frozen", data |-> <<>>]
    ELSE [error |-> IF name \in {"Other", "BadOrigin"} THEN name ELSE "Other",
          phase |-> phase, pallet |-> "", variant |-> "", data |-> <<>>]

Records(p, vs, phase, topics) ==
  UNION { IF p.name = "System" /\ v.name = "ExtrinsicFailed"
            THEN {Written(p, v, phase, topics, c \o d, FailedEntry(phase, c)) :
                    c \in Encodings(10, Depth), d \in Encodings(5, Depth)}
            ELSE {Written(p, v, phase, topics, d, EventEntry(p, v, phase, d)) :
                    d \in AllOf(v.fields, Depth)} :
          v \in {w \in Range(vs) : w.name # "Gone"} }

AllRecords(phase, topics) ==
  Records(System, SystemEvents, phase, topics) \cup Records(Assets, AssetEvents, phase, topics)

Apply == <<0, 1, 0, 0, 0>>
Final == <<1>>

Job(meta, op, source, bytes, result) ==
  [md |-> meta, op |-> op, source |-> source, bytes |-> bytes, result |-> result]

Block(recs) ==
  Job(Main, "events", "own",
      <<4 * Len(recs)>> \o FlattenSeq([i \in DOMAIN recs |-> recs[i].bytes]),
      [i \in DOMAIN recs |-> recs[i].entry])

Short == Records(System, SystemEvents, Apply, OneTopic)
           \cup Records(Assets, <<Var("Gap", 7, <<11, 0>>), Var("Text", 6, <<3>>)>>, Apply, NoTopics)

OwnJobs ==
  {Block(<<>>)} \cup {Block(<<x>>) : x \in AllRecords(Final, NoTopics)}
    \cup {Block(<<x, y>>) : x \in Short, y \in Short}
    \cup UNION {{Job(Main, "call", "own", <<3, v.index>> \o d, <<>>) : d \in AllOf(v.fields, Depth)} :
                  v \in Range(Types[18].variants)}

CutJobs ==
  UNION {{[j EXCEPT !.source = "cut", !.bytes = SubSeq(j.bytes, 1, n)] : n \in 0..(Len(j.bytes) - 1)} :
           j \in {Block(<<x>>) : x \in AllRecords(Final, NoTopics)}
                   \cup {Job(Main, "call", "own", <<3, 3>> \o d, <<>>) : d \in AllOf(<<6, 8>>, Depth)}}

Foreign(op, bytes) == Job(Main, op, "foreign", bytes, <<>>)

\* Other pallets, variants and errors; a Compact in a mode too wide for it; metadata
\* that TryFrom refuses.
ForeignJobs ==
  { Foreign("events", <<4, 9>>), Foreign("events", <<4, 1, 7, 0, 0>>),
    Foreign("events", <<4, 1, 0, 0, 2, 0>>), Foreign("events", <<5, 0>>),
    Foreign("events", <<3, 0, 0, 0, 64, 1, 0, 2, 0>>),
    Foreign("events", <<4, 1, 3, 5, 2>>), Foreign("events", <<4, 1, 3, 11, 1, 0>>),
    Foreign("events", <<4, 1, 0, 1, 3, 3, 1, 0, 0, 0, 0, 0, 0>>),
    Foreign("events", <<4, 1, 0, 1, 10, 0, 0, 0>>), Foreign("events", <<4, 1, 3, 2, 2, 0, 0>>),
    Foreign("events", <<8, 1, 0, 2, 0>>), Foreign("call", <<3, 2>>), Foreign("call", <<9, 0, 0>>) }
  \cup { Job(Meta("", "V14", <<>>), "events", "foreign", <<0>>, <<>>),
         Job(Meta("META", "V13", <<>>), "events", "foreign", <<0>>, <<>>),
         Job(Meta("META", "V14", <<System, Pallet("P", 1, <<0>>, <<>>, <<99>>)>>), "events", "foreign", <<0>>, <<>>),
         Job(Meta("META", "V14", <<Pallet("P", 1, <<>>, <<99>>, <<0>>)>>), "call", "foreign", <<0>>, <<>>) }

MCJobs == OwnJobs \cup CutJobs \cup ForeignJobs

=============================================================================
