------------------------------- MODULE Decoder -------------------------------
(***************************************************************************)
(* RuntimeDecoder of node-api/src/decoder.rs over the Metadata that        *)
(* TryFrom builds (node-api/src/metadata.rs): the bytes of System.Events,  *)
(* or of a call, are walked along the type registry of the metadata.       *)
(*                                                                         *)
(* The recursion of decode_type is a stack of types still to be decoded:   *)
(* every error is passed up with `?`, so nothing but the order of the      *)
(* types matters of the frames in between.  A step is a call of            *)
(* decode_type.                                                            *)
(***************************************************************************)
EXTENDS Integers, Sequences, SequencesExt

CONSTANTS
  Jobs   \* what is decoded: metadata, operation, bytes, and what they stand for

(***************************************************************************)
(* Metadata V14.  A type of the registry has a definition and the last     *)
(* segment of its path; a pallet has optional types (sequences of length   *)
(* 0 or 1) of its calls, events and errors.                                *)
(***************************************************************************)
Bytes == 0..255

Prims == {"Bool", "Char", "Str", "U8", "U16", "U32", "U64", "U128", "U256",
          "I8", "I16", "I32", "I64", "I128", "I256"}

\* Bytes of the primitives of fixed width that decode_type decodes.
Width == [Bool |-> 1, U8 |-> 1, U16 |-> 2, U32 |-> 4, U64 |-> 8, U128 |-> 16,
          I8 |-> 1, I16 |-> 2, I32 |-> 4, I64 |-> 8, I128 |-> 16]

\* Where the bytes come from: the runtime of this metadata, the same cut
\* short, or anything else (another runtime, another item of storage).
Sources == {"own", "cut", "foreign"}

Ops == {"events", "call"}

\* A type of the registry; ids are numbers.
TypeDef(t) ==
  /\ t.def = "Primitive" => t.prim \in Prims
  /\ t.def \in {"Composite", "Tuple"} => t.fields \in Seq(Nat)
  /\ t.def = "Variant" => \A i \in 1..Len(t.variants) : t.variants[i].fields \in Seq(Nat)
  /\ t.def \in {"Sequence", "Array"} => t.param \in Nat
  /\ t.def = "Array" => t.len \in Nat

\* A job: the result is what the runtime has put into the bytes.
ASSUME JobsAssumption ==
  \A j \in Jobs :
    /\ j.op \in Ops /\ j.source \in Sources /\ j.bytes \in Seq(Bytes)
    /\ \A t \in DOMAIN j.md.types : TypeDef(j.md.types[t])

VARIABLES
  job,      \* what is decoded
  pc,       \* "new", "ready", "record", "args"; "ok", "err" or "panic" at the end
  err,      \* the error returned
  input,    \* the bytes left
  left,     \* events left to decode
  rec,      \* the event in hand: phase, names, and where its data began
  work,     \* the types left to decode for it, innermost first
  output,   \* event_data
  errors,   \* event_errors
  r,        \* the result so far
  reached   \* history: the types decoded

vars == <<job, pc, err, input, left, rec, work, output, errors, r, reached>>

md    == job.md
types == job.md.types

Drop(s, n) == SubSeq(s, n + 1, Len(s))

\* How many bytes have been read.
Position == Len(job.bytes) - Len(input)

----------------------------------------------------------------------------
(***************************************************************************)
(* The index of the metadata.                                              *)
(***************************************************************************)
\* Where pallets name types of calls, events and errors, in the order in which
\* they are looked up: all calls first, then all events.
Kinds == <<"calls", "event", "error">>

IndexedTypes ==
  {u \in (DOMAIN Kinds) \X (DOMAIN md.pallets) : md.pallets[u[2]][Kinds[u[1]]] # <<>>}

TypeAt(u) == md.pallets[u[2]][Kinds[u[1]]][1]

Before(u, v) == u[1] < v[1] \/ (u[1] = v[1] /\ u[2] < v[2])

\* The error of get_type_def_variant, if any.
get_type_def_variant(t) ==
  IF t \notin DOMAIN types THEN "MissingType"
  ELSE IF types[t].def # "Variant" THEN "TypeDefNotVariant" ELSE ""

\* The entries of the maps calls, events and errors.  Indices are unique
\* within a runtime, so that no entry replaces another.
Entries(kind) ==
  UNION { LET vs == types[p[kind][1]].variants IN
          {[pallet |-> p.name, index |-> p.index, var |-> vs[k]] : k \in 1..Len(vs)} :
          p \in {q \in Range(md.pallets) : q[kind] # <<>>} }

\* Mutant: variants are taken by position here too.
Lookup_by_position(kind, pallet_index, variant_index) ==
  { e \in Entries(kind) :
      /\ e.index = pallet_index
      /\ \E t \in DOMAIN types :
           /\ types[t].def = "Variant" /\ variant_index + 1 \in DOMAIN types[t].variants
           /\ e.var = types[t].variants[variant_index + 1] }

Lookup(kind, pallet_index, variant_index) ==
  { e \in Entries(kind) : e.index = pallet_index /\ e.var.index = variant_index }

call(pallet_index, call_index)   == Lookup("calls", pallet_index, call_index)
event(pallet_index, event_index) == Lookup("event", pallet_index, event_index)
error(pallet_index, error_index) == Lookup("error", pallet_index, error_index)

----------------------------------------------------------------------------
(***************************************************************************)
(* The SCALE codec: what is decoded at the head of the input, or nothing.  *)
(***************************************************************************)
\* A number of at most four bytes, the low byte first.
LittleEndian(s) ==
  LET byte(i) == IF i <= Len(s) THEN s[i] ELSE 0
  IN byte(1) + 256 * byte(2) + 65536 * byte(3) + 16777216 * byte(4)

\* Compact<u32>: four modes, and a value is refused in a mode too wide for it.
CompactIn(in, mode) ==
  LET taken == <<1, 2, 4, 5>>[mode + 1]
      least == <<0, 64, 16384, 1073741824>>[mode + 1]
      value == IF mode = 3 THEN LittleEndian(SubSeq(in, 2, 5))
               ELSE LittleEndian(SubSeq(in, 1, taken)) \div 4
  IN IF Len(in) >= taken /\ value >= least /\ (mode = 3 => in[1] = 3)
       THEN {[taken |-> taken, value |-> value]} ELSE {}

Compact(in) == IF in = <<>> THEN {} ELSE CompactIn(in, in[1] % 4)

\* A vector of elements of n bytes: a length, then as many elements.
VecOf(in, n) == {c \in Compact(in) : c.value <= (Len(in) - c.taken) \div n}

\* UTF-8, of which the model has ASCII.
IsText(s) == \A i \in DOMAIN s : s[i] < 128

\* Mutant: a short read is not an error.
decode_raw_short(prim, in) ==
  IF prim = "Str" THEN {c.taken + c.value : c \in VecOf(in, 1)}
  ELSE {IF Width[prim] <= Len(in) THEN Width[prim] ELSE Len(in)}

\* The bytes decode_raw takes for a primitive and puts out again.
decode_raw(prim, in) ==
  IF prim = "Str"
    THEN {c.taken + c.value : c \in {d \in VecOf(in, 1) :
            IsText(SubSeq(in, d.taken + 1, d.taken + d.value))}}
    ELSE {n \in {Width[prim]} : n <= Len(in) /\ (prim = "Bool" => in[1] \in {0, 1})}

\* Phase: ApplyExtrinsic(u32), Finalization, Initialization; the bytes it takes.
Phase(in) ==
  IF in = <<>> THEN {}
  ELSE {n \in {<<5, 1, 1>>[k] : k \in {in[1] + 1} \cap (1..3)} : n <= Len(in)}

\* DispatchError as the client knows it: bytes after the index, and how many
\* values the first of them can have.
DispatchNames == <<"Other", "CannotLookup", "BadOrigin", "Module", "ConsumerRemaining",
                   "NoProviders", "TooManyConsumers", "Token", "Arithmetic", "Transactional">>
DispatchTail  == <<0, 0, 0, 5, 0, 0, 0, 1, 1, 1>>
DispatchRange == <<0, 0, 0, 256, 0, 0, 0, 7, 3, 2>>

DispatchError(in) ==
  IF in = <<>> THEN {}
  ELSE {1 + DispatchTail[k] : k \in {d \in {in[1] + 1} \cap DOMAIN DispatchNames :
          /\ 1 + DispatchTail[d] <= Len(in)
          /\ DispatchTail[d] > 0 => in[2] < DispatchRange[d]}}

RuntimeError(kind, pallet, name) == [kind |-> kind, pallet |-> pallet, error |-> name]

\* RuntimeError::from_dispatch of the error at the head of the input.
from_dispatch(in) ==
  LET name == DispatchNames[in[1] + 1] IN
  IF name = "Module"
    THEN {RuntimeError("Module", e.pallet, e.var.name) : e \in error(in[2], in[3])}
    ELSE {RuntimeError(IF name \in {"Token", "Arithmetic", "Transactional"} THEN "Other" ELSE name, "", "")}

----------------------------------------------------------------------------
NoRec == [phase |-> <<>>, pallet |-> "", variant |-> "", from |-> 0]

\* Mutant: the loop of an empty sequence runs once.
Items_once(t, n, arg) == <<[id |-> t, n |-> n, arg |-> arg]>>

\* A type to be decoded n times; arg: it is an argument of the event itself.
Items(t, n, arg) == IF n = 0 THEN <<>> ELSE <<[id |-> t, n |-> n, arg |-> arg]>>

Fields(ids, arg) == [i \in DOMAIN ids |-> [id |-> ids[i], n |-> 1, arg |-> arg]]

\* The work after one decoding of its head.
Rest == Items(work[1].id, work[1].n - 1, work[1].arg) \o Tail(work)

Init ==
  /\ job \in Jobs
  /\ pc = "new"
  /\ err = ""
  /\ input = job.bytes
  /\ left = 0
  /\ rec = NoRec
  /\ work = <<>> /\ output = <<>> /\ errors = <<>> /\ r = <<>>
  /\ reached = {}

\* Mutant: an error sends the loop round again.
Fail_again(e) == UNCHANGED <<job, pc, err, input, left, rec, work, output, errors, r>>

\* An error is returned: what was decoded before it is dropped.
Fail(e) ==
  /\ pc' = "err"
  /\ err' = e
  /\ UNCHANGED <<job, input, left, rec, work, output, errors, r>>

\* Metadata::try_from.
try_from ==
  LET bad == {u \in IndexedTypes : get_type_def_variant(TypeAt(u)) # ""} IN
  /\ pc = "new"
  /\ \/ md.prefix # "META" /\ Fail("InvalidPrefix")
     \/ md.prefix = "META" /\ md.version # "V14" /\ Fail("InvalidVersion")
     \/ /\ md.prefix = "META" /\ md.version = "V14"
        /\ \E u \in bad : /\ \A v \in bad \ {u} : Before(u, v)
                         /\ Fail(get_type_def_variant(TypeAt(u)))
     \/ /\ md.prefix = "META" /\ md.version = "V14" /\ bad = {}
        /\ pc' = "ready"
        /\ UNCHANGED <<job, err, input, left, rec, work, output, errors, r>>
  /\ UNCHANGED reached

\* decode_events up to its loop.
decode_events ==
  /\ pc = "ready" /\ job.op = "events"
  /\ \/ Compact(input) = {} /\ Fail("Codec")
     \/ \E c \in Compact(input) :
          /\ pc' = "record"
          /\ input' = Drop(input, c.taken)
          /\ left' = c.value
          /\ UNCHANGED <<job, err, rec, work, output, errors, r>>
  /\ UNCHANGED reached

\* The head of an EventRecord, and the metadata of its event.
decode_record ==
  LET head == {n \in Phase(input) : n + 2 <= Len(input)} IN
  /\ pc = "record" /\ left > 0
  /\ \/ head = {} /\ Fail("Codec")
     \/ \E n \in head :
          LET found == event(input[n + 1], input[n + 2]) IN
          \/ found = {} /\ Fail("EventNotFound")
          \/ \E e \in found :
               /\ pc' = "args"
               /\ rec' = [phase |-> SubSeq(input, 1, n), pallet |-> e.pallet,
                          variant |-> e.var.name, from |-> Position + n + 2]
               /\ work' = Fields(e.var.fields, TRUE)
               /\ input' = Drop(input, n + 2)
               /\ output' = <<>> /\ errors' = <<>>
               /\ UNCHANGED <<job, err, left, r>>
  /\ UNCHANGED reached

\* decode_call up to its loop.
decode_call ==
  LET found == IF Len(input) < 2 THEN {} ELSE call(input[1], input[2]) IN
  /\ pc = "ready" /\ job.op = "call"
  /\ \/ Len(input) < 2 /\ Fail("Codec")
     \/ Len(input) >= 2 /\ found = {} /\ Fail("CallableNotFound")
     \/ \E e \in found :
          /\ pc' = "args"
          /\ rec' = [phase |-> <<>>, pallet |-> e.pallet, variant |-> e.var.name,
                     from |-> Position + 2]
          /\ work' = Fields(e.var.fields, TRUE)
          /\ input' = Drop(input, 2)
          /\ output' = <<>>
          /\ UNCHANGED <<job, err, left, errors, r>>
  /\ UNCHANGED reached

----------------------------------------------------------------------------
\* The types decode_raw_event treats on its own.
IsDispatchArg ==
  /\ job.op = "events" /\ work[1].arg
  /\ rec.pallet = "System" /\ rec.variant = "ExtrinsicFailed"
  /\ types[work[1].id].ident = "DispatchError"

decode_dispatch_error ==
  LET taken == DispatchError(input) IN
  /\ pc = "args" /\ work # <<>> /\ work[1].id \in DOMAIN types /\ IsDispatchArg
  /\ \/ taken = {} /\ Fail("Codec")
     \/ taken # {} /\ from_dispatch(input) = {} /\ Fail("ErrorNotFound")
     \/ \E n \in taken : \E e \in from_dispatch(input) :
          /\ input' = Drop(input, n)
          /\ output' = output \o SubSeq(input, 1, n)
          /\ errors' = Append(errors, e)
          /\ work' = Rest
          /\ UNCHANGED <<job, pc, err, left, rec, r>>
  /\ reached' = reached \cup {work[1].id}

\* A call of decode_type on a type of definition def, ty being the type.
TypeStep(def) ==
  /\ pc = "args" /\ work # <<>> /\ work[1].id \in DOMAIN types /\ ~ IsDispatchArg
  /\ types[work[1].id].def = def
  /\ reached' = reached \cup {work[1].id}

ty == types[work[1].id]

\* The next n bytes go to the output, and the items in front of the rest.
Take(n, items) ==
  /\ input' = Drop(input, n)
  /\ output' = output \o SubSeq(input, 1, n)
  /\ work' = items \o Rest
  /\ UNCHANGED <<job, pc, err, left, rec, errors, r>>

type_not_found ==
  /\ pc = "args" /\ work # <<>> /\ work[1].id \notin DOMAIN types
  /\ Fail("TypeNotFound")
  /\ UNCHANGED reached

\* Composite and Tuple: their fields.
decode_composite == TypeStep("Composite") /\ Take(0, Fields(ty.fields, FALSE))
decode_tuple     == TypeStep("Tuple") /\ Take(0, Fields(ty.fields, FALSE))
decode_array     == TypeStep("Array") /\ Take(0, Items(ty.param, ty.len, FALSE))

\* The variant is taken by its position in the list, not by its index.
decode_variant ==
  /\ TypeStep("Variant")
  /\ \/ input = <<>> /\ Fail("Codec")
     \/ input # <<>> /\ input[1] >= Len(ty.variants) /\ Fail("VariantNotFound")
     \/ /\ input # <<>> /\ input[1] < Len(ty.variants)
        /\ Take(1, Fields(ty.variants[input[1] + 1].fields, FALSE))

\* Mutant: the length of a sequence is not put out.
decode_sequence_silent ==
  /\ TypeStep("Sequence")
  /\ \/ Compact(input) = {} /\ Fail("Codec")
     \/ \E c \in Compact(input) :
          /\ input' = Drop(input, c.taken)
          /\ work' = Items(ty.param, c.value, FALSE) \o Rest
          /\ UNCHANGED <<job, pc, err, left, rec, output, errors, r>>

decode_sequence ==
  /\ TypeStep("Sequence")
  /\ \/ Compact(input) = {} /\ Fail("Codec")
     \/ \E c \in Compact(input) : Take(c.taken, Items(ty.param, c.value, FALSE))

decode_primitive ==
  /\ TypeStep("Primitive")
  /\ \/ ty.prim \in {"Char", "U256", "I256"} /\ Fail("UnsupportedPrimitive")
     \/ /\ ty.prim \notin {"Char", "U256", "I256"}
        /\ \/ decode_raw(ty.prim, input) = {} /\ Fail("Codec")
           \/ \E n \in decode_raw(ty.prim, input) : Take(n, <<>>)

\* The inner type is resolved from the id of the Compact itself: it is a
\* Compact, and only the last arm of the match is ever taken.
decode_compact ==
  LET inner == types[work[1].id] IN
  /\ TypeStep("Compact")
  /\ inner.def \notin {"Primitive", "Composite"}
  /\ Fail("InvalidCompactType")

\* unimplemented!()
decode_bit_sequence ==
  /\ TypeStep("BitSequence")
  /\ pc' = "panic"
  /\ UNCHANGED <<job, err, input, left, rec, work, output, errors, r>>

decode_type ==
  \/ type_not_found
  \/ decode_composite
  \/ decode_variant
  \/ decode_sequence
  \/ decode_array
  \/ decode_tuple
  \/ decode_primitive
  \/ decode_compact
  \/ decode_bit_sequence

----------------------------------------------------------------------------
\* An entry of the result: an event, or a runtime error of the given kind.
Event(data) == [error |-> "", phase |-> rec.phase, pallet |-> rec.pallet,
                variant |-> rec.variant, data |-> data]
Error(e)    == [error |-> e.kind, phase |-> rec.phase, pallet |-> e.pallet,
                variant |-> e.error, data |-> <<>>]

\* Topics are skipped; an event with errors stands for its errors only.
push_event ==
  /\ pc = "args" /\ work = <<>> /\ job.op = "events"
  /\ \/ VecOf(input, 32) = {} /\ Fail("Codec")
     \/ \E c \in VecOf(input, 32) :
          /\ pc' = "record"
          /\ input' = Drop(input, c.taken + 32 * c.value)
          /\ left' = left - 1
          /\ r' = r \o (IF errors = <<>> THEN <<Event(output)>>
                        ELSE [i \in DOMAIN errors |-> Error(errors[i])])
          /\ UNCHANGED <<job, err, rec, work, output, errors>>
  /\ UNCHANGED reached

\* The loops end: decode_events returns r, decode_call returns nothing.
decode_returns ==
  /\ \/ pc = "record" /\ left = 0
     \/ pc = "args" /\ work = <<>> /\ job.op = "call"
  /\ pc' = "ok"
  /\ UNCHANGED <<job, err, input, left, rec, work, output, errors, r, reached>>

Terminating == pc \in {"ok", "err", "panic"} /\ UNCHANGED vars

Step ==
  \/ try_from
  \/ decode_events
  \/ decode_record
  \/ decode_call
  \/ decode_dispatch_error
  \/ decode_type
  \/ push_event
  \/ decode_returns

Next == Step \/ Terminating

Spec == Init /\ [][Next]_vars

\* Decoding is a sequential program: it goes on until it ends.
FairSpec == Spec /\ WF_vars(Step)

----------------------------------------------------------------------------
TypeOK ==
  /\ job \in Jobs
  /\ pc \in {"new", "ready", "record", "args", "ok", "err", "panic"}
  /\ input \in Seq(Bytes)
  /\ left \in Nat
  /\ rec.from \in Nat /\ rec.phase \in Seq(Bytes)
  /\ output \in Seq(Bytes)
  /\ \A i \in DOMAIN work : work[i].n \in Nat \ {0} /\ work[i].arg \in BOOLEAN

\* What is left of the input is its end, and while an event or a call is
\* decoded its data is exactly what was read since its indices: decode_raw
\* and the other arms put out every byte they take, in order.
DataIsTheInput ==
  /\ input = Drop(job.bytes, Position)
  /\ pc = "args" => /\ rec.from <= Position
                    /\ output = SubSeq(job.bytes, rec.from + 1, Position)

\* The types that decode_type can decode as the runtime encodes them.
Supported(t) ==
  /\ t.def \notin {"Compact", "BitSequence"}
  /\ t.def = "Primitive" => t.prim \notin {"Char", "U256", "I256"}
  /\ t.def = "Variant" => \A i \in DOMAIN t.variants : t.variants[i].index = i - 1

AllSupported == \A t \in reached : Supported(types[t])

\* Events and calls of the runtime of the metadata, with no type on the way
\* that decode_type cannot handle, never fail, and come out as they went in,
\* with nothing left over: in particular a Compact, a 256-bit integer, a
\* bit sequence or an enum with gaps is the only way to lose them.
OwnEventsAreDecoded ==
  job.source = "own" /\ AllSupported =>
    /\ pc \notin {"err", "panic"}
    /\ pc = "ok" => r = job.result /\ input = <<>>

\* decode_events never returns Ok for a block of events that was cut short:
\* it returns all the events or an error.
CutIsNoticed == job.source = "cut" /\ AllSupported => pc # "ok"

\* Decoding ends, also of what another runtime has written and for types
\* that contain themselves.
DecodingEnds == <>(pc \in {"ok", "err", "panic"})

\* "Variant {} not found" (decoder.rs:211) is returned only if the type has
\* no variant of that index.  Does not hold.
MissingVariantIsMissing ==
  pc = "err" /\ err = "VariantNotFound" =>
    \A i \in DOMAIN ty.variants : ty.variants[i].index # input[1]

\* "Compact type must be a primitive or a composite type" (decoder.rs:296)
\* is returned only for other types.  Does not hold.
RefusedCompactIsInvalid ==
  pc = "err" /\ err = "InvalidCompactType" =>
    types[ty.param].def \notin {"Primitive", "Composite"}

=============================================================================
