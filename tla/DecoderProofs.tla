---------------------------- MODULE DecoderProofs ----------------------------
(***************************************************************************)
(* Theorems about Decoder, for every registry, every set of pallets and    *)
(* every input: the data of an event is the part of the input that its     *)
(* decoding has read, whatever recursion over the types has read it, and   *)
(* the decoder keeps its types.                                            *)
(***************************************************************************)
EXTENDS Decoder, SequenceTheorems, TLAPS

\* The part of a sequence after position i, up to position j.
Part(b, i, j) == SubSeq(b, i + 1, j)

\* What a part of a sequence of bytes is.
LEMMA PartOf ==
  ASSUME NEW b \in Seq(Bytes), NEW j \in 0..Len(b), NEW i \in 0..j
  PROVE  /\ Part(b, i, j) \in Seq(Bytes)
         /\ Len(Part(b, i, j)) = j - i
         /\ \A k \in 1..(j - i) : Part(b, i, j)[k] = b[i + k]
PROOF
<1>1. Len(b) \in Nat
  BY LenProperties
<1>2. \A k \in (i + 1)..j : b[k] \in Bytes
  BY <1>1, ElementOfSeq
<1>3. i + 1 \in Int /\ j \in Int
  BY <1>1
<1>4. /\ SubSeq(b, i + 1, j) \in Seq(Bytes)
      /\ Len(SubSeq(b, i + 1, j)) = IF i + 1 <= j THEN j - (i + 1) + 1 ELSE 0
      /\ \A k \in 1..(j - (i + 1) + 1) : SubSeq(b, i + 1, j)[k] = b[i + 1 + k - 1]
  BY <1>2, <1>3, SubSeqProperties
<1>5. j - (i + 1) + 1 = j - i /\ \A k \in 1..(j - i) : i + 1 + k - 1 = i + k
  BY <1>1
<1>. QED  BY <1>1, <1>4, <1>5 DEF Part

\* A part of a part is a part.
LEMMA PartOfPart ==
  ASSUME NEW b \in Seq(Bytes), NEW p \in 0..Len(b), NEW q \in 0..(Len(b) - p),
         NEW n \in 0..q
  PROVE  Part(Part(b, p, Len(b)), n, q) = Part(b, p + n, p + q)
PROOF
<1>. DEFINE in == Part(b, p, Len(b))
<1>1. Len(b) \in Nat /\ p \in Nat /\ q \in Nat /\ n \in Nat
  BY LenProperties
<1>2. /\ in \in Seq(Bytes)
      /\ Len(in) = Len(b) - p
      /\ \A k \in 1..(Len(b) - p) : in[k] = b[p + k]
  <2>1. Len(b) \in 0..Len(b)
    BY <1>1
  <2>. QED  BY <2>1, PartOf
<1>. HIDE DEF in
<1>3. /\ Part(in, n, q) \in Seq(Bytes)
      /\ Len(Part(in, n, q)) = q - n
      /\ \A k \in 1..(q - n) : Part(in, n, q)[k] = in[n + k]
  <2>1. in \in Seq(Bytes) /\ q \in 0..Len(in)
    BY <1>2
  <2>. QED  BY <2>1, PartOf
<1>4. p + q \in 0..Len(b) /\ p + n \in 0..(p + q)
  BY <1>1
<1>5. /\ Part(b, p + n, p + q) \in Seq(Bytes)
      /\ Len(Part(b, p + n, p + q)) = (p + q) - (p + n)
      /\ \A k \in 1..((p + q) - (p + n)) : Part(b, p + n, p + q)[k] = b[p + n + k]
  BY <1>4, PartOf
<1>6. (p + q) - (p + n) = q - n
  BY <1>1
<1>7. ASSUME NEW k \in 1..(q - n)
      PROVE  Part(in, n, q)[k] = Part(b, p + n, p + q)[k]
  <2>1. n + k \in 1..(Len(b) - p) /\ p + (n + k) = p + n + k
    BY <1>1
  <2>2. Part(in, n, q)[k] = in[n + k] /\ in[n + k] = b[p + (n + k)]
    BY <1>2, <1>3, <2>1
  <2>. QED  BY <1>5, <1>6, <2>1, <2>2
<1>8. Part(in, n, q) = Part(b, p + n, p + q)
  BY <1>3, <1>5, <1>6, <1>7, SeqEqual
<1>. QED  BY <1>8 DEF in

\* Two adjacent parts make one.
LEMMA AdjacentParts ==
  ASSUME NEW b \in Seq(Bytes), NEW k \in 0..Len(b), NEW j \in 0..k, NEW i \in 0..j
  PROVE  Part(b, i, j) \o Part(b, j, k) = Part(b, i, k)
PROOF
<1>1. Len(b) \in Nat
  BY LenProperties
<1>2. /\ i + 1 \in 1..(Len(b) + 1)
      /\ j \in (i + 1 - 1)..Len(b)
      /\ k \in j..Len(b)
  BY <1>1
<1>3. SubSeq(b, i + 1, j) \o SubSeq(b, j + 1, k) = SubSeq(b, i + 1, k)
  BY <1>2, ConcatAdjacentSubSeq
<1>. QED  BY <1>3 DEF Part

\* Bytes are numbers.
LEMMA BytesAreNumbers == \A x \in Bytes : x \in Nat /\ x % 4 \in 0..3
PROOF BY DEF Bytes

\* No decoder of the codec takes more than the input has.
LEMMA CompactBound ==
  ASSUME NEW in \in Seq(Bytes), NEW c \in Compact(in)
  PROVE  c.taken \in 1..Len(in) /\ c.value \in Nat
PROOF
<1>1. in # <<>> /\ Len(in) \in Nat \ {0} /\ in[1] \in Bytes
  BY EmptySeq, LenProperties, ElementOfSeq DEF Compact
<1>2. in[1] % 4 \in 0..3
  BY <1>1, BytesAreNumbers
<1>4. PICK mode \in 0..3 : c \in CompactIn(in, mode)
  BY <1>1, <1>2 DEF Compact
<1>5. <<1, 2, 4, 5>>[mode + 1] \in {1, 2, 4, 5}
  OBVIOUS
<1>6. ASSUME NEW s \in Seq(Bytes)
      PROVE  LittleEndian(s) \in Nat
  <2>1. \A i \in 1..Len(s) : s[i] \in Nat
    <3>1. \A i \in 1..Len(s) : s[i] \in Bytes
      BY ElementOfSeq
    <3>. QED  BY <3>1, BytesAreNumbers
  <2>2. Len(s) \in Nat
    BY LenProperties
  <2>. DEFINE byte(i) == IF i <= Len(s) THEN s[i] ELSE 0
  <2>3. \A i \in 1..4 : byte(i) \in Nat
    BY <2>1, <2>2
  <2>. DEFINE w == byte(1)
              x == byte(2)
              y == byte(3)
              z == byte(4)
  <2>4. w \in Nat /\ x \in Nat /\ y \in Nat /\ z \in Nat
    BY <2>3
  <2>5. LittleEndian(s) = w + 256 * x + 65536 * y + 16777216 * z
    BY DEF LittleEndian
  <2>. HIDE DEF byte, w, x, y, z
  <2>. QED  BY <2>4, <2>5, SMT
<1>. DEFINE taken == <<1, 2, 4, 5>>[mode + 1]
            value == IF mode = 3 THEN LittleEndian(SubSeq(in, 2, 5))
                     ELSE LittleEndian(SubSeq(in, 1, taken)) \div 4
<1>7. c = [taken |-> taken, value |-> value] /\ Len(in) >= taken
  BY <1>4 DEF CompactIn
<1>8. taken \in 1..Len(in)
  BY <1>1, <1>5, <1>7
<1>9. value \in Nat
  <2>1. CASE mode = 3
    <3>1. taken = 5
      BY <2>1
    <3>2. \A i \in 2..5 : in[i] \in Bytes
      BY <1>1, <1>7, <3>1, ElementOfSeq
    <3>3. SubSeq(in, 2, 5) \in Seq(Bytes)
      BY <3>2, SubSeqProperties
    <3>. QED  BY <1>6, <2>1, <3>3
  <2>2. CASE mode # 3
    <3>1. \A i \in 1..taken : in[i] \in Bytes
      BY <1>1, <1>8, ElementOfSeq
    <3>2. SubSeq(in, 1, taken) \in Seq(Bytes)
      BY <3>1, <1>8, <1>1, SubSeqProperties
    <3>3. LittleEndian(SubSeq(in, 1, taken)) \in Nat
      BY <1>6, <3>2
    <3>4. value = LittleEndian(SubSeq(in, 1, taken)) \div 4
      BY <2>2
    <3>. HIDE DEF value, taken
    <3>. QED  BY <3>3, <3>4
  <2>. QED  BY <2>1, <2>2
<1>. HIDE DEF taken, value
<1>. QED  BY <1>7, <1>8, <1>9

\* Vectors: the length and the elements fit into the input.
LEMMA VecBound ==
  ASSUME NEW in \in Seq(Bytes)
  PROVE  /\ \A c \in VecOf(in, 1) : c.taken + c.value \in 0..Len(in)
         /\ \A c \in VecOf(in, 32) : c.taken + 32 * c.value \in 0..Len(in)
PROOF
<1>1. Len(in) \in Nat
  BY LenProperties
<1>2. \A c \in Compact(in) : c.taken \in 1..Len(in) /\ c.value \in Nat
  BY CompactBound
<1>3. ASSUME NEW c \in VecOf(in, 1)
      PROVE  c.taken + c.value \in 0..Len(in)
  <2>1. c \in Compact(in) /\ c.value <= (Len(in) - c.taken) \div 1
    BY DEF VecOf
  <2>2. c.taken \in 1..Len(in) /\ c.value \in Nat
    BY <1>2, <2>1
  <2>3. \A x \in Nat : x \div 1 = x
    OBVIOUS
  <2>4. Len(in) - c.taken \in Nat
    BY <1>1, <2>2
  <2>5. c.value <= Len(in) - c.taken
    BY <2>1, <2>3, <2>4
  <2>. QED  BY <1>1, <2>2, <2>5
<1>4. ASSUME NEW c \in VecOf(in, 32)
      PROVE  c.taken + 32 * c.value \in 0..Len(in)
  <2>1. c \in Compact(in) /\ c.value <= (Len(in) - c.taken) \div 32
    BY DEF VecOf
  <2>2. c.taken \in 1..Len(in) /\ c.value \in Nat
    BY <1>2, <2>1
  <2>3. \A x \in Nat : x \div 32 \in Nat /\ 32 * (x \div 32) <= x
    OBVIOUS
  <2>4. Len(in) - c.taken \in Nat
    BY <1>1, <2>2
  <2>5. 32 * ((Len(in) - c.taken) \div 32) <= Len(in) - c.taken
    BY <2>3, <2>4
  <2>6. 32 * c.value <= Len(in) - c.taken
    <3>. DEFINE q == (Len(in) - c.taken) \div 32
    <3>1. q \in Nat /\ c.value <= q /\ 32 * q <= Len(in) - c.taken
      BY <2>1, <2>3, <2>4, <2>5
    <3>. HIDE DEF q
    <3>. QED  BY <1>1, <2>2, <2>4, <3>1
  <2>. QED  BY <1>1, <2>2, <2>6
<1>. QED  BY <1>3, <1>4

\* The primitives that decode_raw handles fit into the input.
LEMMA RawBound ==
  ASSUME NEW in \in Seq(Bytes), NEW prim \in Prims \ {"Char", "U256", "I256"},
         NEW n \in decode_raw(prim, in)
  PROVE  n \in 0..Len(in)
PROOF
<1>1. Len(in) \in Nat
  BY LenProperties
<1>2. CASE prim = "Str"
  BY <1>2, VecBound DEF decode_raw
<1>3. CASE prim # "Str"
  <2>1. prim \in DOMAIN Width /\ Width[prim] \in Nat
    BY <1>3 DEF Width, Prims
  <2>. QED  BY <1>1, <1>3, <2>1 DEF decode_raw
<1>. QED  BY <1>2, <1>3

\* The Phase of an EventRecord fits into the input.
LEMMA PhaseBound ==
  ASSUME NEW in \in Seq(Bytes), NEW n \in Phase(in)
  PROVE  n \in 0..Len(in)
PROOF
<1>1. Len(in) \in Nat
  BY LenProperties
<1>2. PICK k \in 1..3 : n = <<5, 1, 1>>[k] /\ n <= Len(in)
  BY DEF Phase
<1>3. n \in {1, 5}
  BY <1>2
<1>. QED  BY <1>1, <1>2, <1>3

\* A DispatchError fits into the input.
LEMMA DispatchBound ==
  ASSUME NEW in \in Seq(Bytes), NEW n \in DispatchError(in)
  PROVE  n \in 0..Len(in)
PROOF
<1>1. Len(in) \in Nat
  BY LenProperties
<1>2. PICK k \in 1..10 : n = 1 + DispatchTail[k] /\ n <= Len(in)
  BY DEF DispatchError, DispatchNames
<1>3. DispatchTail[k] \in {0, 1, 5}
  BY DEF DispatchTail
<1>. QED  BY <1>1, <1>2, <1>3

----------------------------------------------------------------------------
(***************************************************************************)
(* The inductive invariant: DataIsTheInput with the types it needs.        *)
(***************************************************************************)
DataInv ==
  /\ job \in Jobs
  /\ input \in Seq(Bytes)
  /\ Len(input) <= Len(job.bytes)
  /\ input = Part(job.bytes, Position, Len(job.bytes))
  /\ pc = "args" => /\ rec.from \in 0..Position
                    /\ output = Part(job.bytes, rec.from, Position)

\* Where the decoding stands in the input.
LEMMA WhereWeAre ==
  ASSUME DataInv
  PROVE  /\ job.bytes \in Seq(Bytes)
         /\ Len(job.bytes) \in Nat /\ Len(input) \in Nat
         /\ Position \in 0..Len(job.bytes)
         /\ Len(input) = Len(job.bytes) - Position
PROOF
<1>1. job.bytes \in Seq(Bytes)
  BY JobsAssumption DEF DataInv
<1>2. Len(job.bytes) \in Nat /\ Len(input) \in Nat
  BY <1>1, LenProperties DEF DataInv
<1>. QED  BY <1>1, <1>2 DEF DataInv, Position

\* Nothing has been read.
LEMMA InitData == Init => DataInv
PROOF
<1>. SUFFICES ASSUME Init PROVE DataInv
  OBVIOUS
<1>1. job \in Jobs /\ input = job.bytes /\ pc = "new"
  BY DEF Init
<1>2. job.bytes \in Seq(Bytes)
  BY <1>1, JobsAssumption
<1>3. Len(job.bytes) \in Nat
  BY <1>2, LenProperties
<1>4. Position = 0
  BY <1>1, <1>3 DEF Position
<1>5. input = Part(job.bytes, Position, Len(job.bytes))
  BY <1>1, <1>2, <1>3, <1>4, SubSeqFull DEF Part
<1>. QED  BY <1>1, <1>2, <1>3, <1>5 DEF DataInv

\* A step that reads n bytes leaves a rest of the input.
LEMMA ReadBytes ==
  ASSUME DataInv, NEW n \in 0..Len(input), input' = Drop(input, n), job' = job
  PROVE  /\ input' \in Seq(Bytes)
         /\ Len(input') <= Len(job.bytes)
         /\ input' = Part(job.bytes, Position', Len(job.bytes))
         /\ Position' = Position + n
         /\ Position' \in 0..Len(job.bytes)
         /\ SubSeq(input, 1, n) = Part(job.bytes, Position, Position + n)
PROOF
<1>. DEFINE b == job.bytes
            P == Position
            L == Len(job.bytes)
<1>1. /\ b \in Seq(Bytes) /\ L = Len(b)
      /\ L \in Nat /\ Len(input) \in Nat
      /\ P \in 0..L /\ Len(input) = L - P
      /\ input = Part(b, P, L) /\ input \in Seq(Bytes)
  BY WhereWeAre DEF DataInv
<1>2. Position' = L - Len(input')
  BY DEF Position
<1>. HIDE DEF b, P, L
<1>3. n \in Nat /\ n <= L - P
  BY <1>1
<1>4. Drop(input, n) = Part(input, n, L - P) /\ SubSeq(input, 1, n) = Part(input, 0, n)
  BY <1>1 DEF Drop, Part
<1>5. L - P \in 0..(L - P) /\ n \in 0..(L - P) /\ 0 \in 0..n /\ P + (L - P) = L /\ P + 0 = P
  BY <1>1, <1>3
<1>6. Part(input, n, L - P) = Part(b, P + n, L)
  <2>1. Part(Part(b, P, L), n, L - P) = Part(b, P + n, P + (L - P))
    BY <1>1, <1>5, PartOfPart
  <2>. QED  BY <1>1, <1>5, <2>1
<1>7. Part(input, 0, n) = Part(b, P, P + n)
  <2>1. Part(Part(b, P, L), 0, n) = Part(b, P + 0, P + n)
    BY <1>1, <1>5, PartOfPart
  <2>. QED  BY <1>1, <1>5, <2>1
<1>8. input' \in Seq(Bytes) /\ Len(input') = (L - P) - n
  <2>1. L - P \in 0..Len(input)
    BY <1>1
  <2>2. Part(input, n, L - P) \in Seq(Bytes) /\ Len(Part(input, n, L - P)) = (L - P) - n
    BY <1>1, <1>5, <2>1, PartOf
  <2>. QED  BY <1>4, <2>2
<1>9. Position' = P + n
  BY <1>1, <1>2, <1>3, <1>8
<1>. QED  BY <1>1, <1>3, <1>4, <1>6, <1>7, <1>8, <1>9 DEF b, P, L

\* A step that also puts out what it reads extends the data.
LEMMA ExtendData ==
  ASSUME DataInv, pc = "args", NEW n \in 0..Len(input),
         input' = Drop(input, n), output' = output \o SubSeq(input, 1, n),
         job' = job, rec' = rec
  PROVE  DataInv'
PROOF
<1>. DEFINE b == job.bytes
            P == Position
            f == rec.from
<1>1. /\ b \in Seq(Bytes) /\ Len(b) \in Nat
      /\ P \in 0..Len(b) /\ Len(input) = Len(b) - P
  BY WhereWeAre
<1>2. f \in 0..P /\ output = Part(b, f, P)
  BY DEF DataInv
<1>3. /\ input' \in Seq(Bytes) /\ Len(input') <= Len(b)
      /\ input' = Part(b, Position', Len(b))
      /\ Position' = P + n
      /\ SubSeq(input, 1, n) = Part(b, P, P + n)
  BY ReadBytes
<1>4. job' \in Jobs /\ b' = b /\ f' = f
  BY DEF DataInv
<1>5. output' = Part(b, f, P) \o Part(b, P, P + n)
  BY <1>2, <1>3
<1>. HIDE DEF b, P, f
<1>6. P + n \in 0..Len(b) /\ P \in 0..(P + n)
  BY <1>1
<1>7. Part(b, f, P) \o Part(b, P, P + n) = Part(b, f, P + n)
  BY <1>1, <1>2, <1>6, AdjacentParts
<1>8. f \in 0..(P + n)
  BY <1>1, <1>2
<1>9. rec'.from \in 0..Position' /\ output' = Part(job'.bytes, rec'.from, Position')
  BY <1>3, <1>4, <1>5, <1>7, <1>8 DEF b, f
<1>. QED  BY <1>3, <1>4, <1>9 DEF DataInv, b

\* A step that reads n bytes and begins the data of an event, or ends it.
LEMMA MoveOn ==
  ASSUME DataInv, NEW n \in 0..Len(input), input' = Drop(input, n), job' = job,
         \/ pc' # "args"
         \/ rec'.from = Position + n /\ output' = <<>>
  PROVE  DataInv'
PROOF
<1>1. /\ input' \in Seq(Bytes) /\ Len(input') <= Len(job.bytes)
      /\ input' = Part(job.bytes, Position', Len(job.bytes))
      /\ Position' = Position + n
      /\ Position' \in 0..Len(job.bytes)
  BY ReadBytes
<1>2. job' \in Jobs /\ Len(job.bytes) \in Nat
  BY WhereWeAre DEF DataInv
<1>3. ASSUME rec'.from = Position + n, output' = <<>>
      PROVE  rec'.from \in 0..Position' /\ output' = Part(job.bytes, rec'.from, Position')
  <2>. DEFINE Q == Position'
  <2>1. rec'.from = Q /\ Q \in Nat
    BY <1>1, <1>2, <1>3
  <2>. HIDE DEF Q
  <2>2. SubSeq(job.bytes, Q + 1, Q) = <<>>
    BY <2>1, SubSeqEmpty
  <2>3. Q \in 0..Q
    BY <2>1
  <2>. QED  BY <1>3, <2>1, <2>2, <2>3 DEF Part, Q
<1>. QED  BY <1>1, <1>2, <1>3 DEF DataInv

\* A step that reads nothing and leaves the data alone, or ends the decoding.
LEMMA KeepData ==
  ASSUME DataInv, UNCHANGED <<job, input>>,
         pc' # "args" \/ UNCHANGED <<pc, rec, output>>
  PROVE  DataInv'
PROOF BY DEF DataInv, Position

\* An error reads nothing and ends the decoding.
LEMMA FailData ==
  ASSUME DataInv, NEW e, Fail(e)
  PROVE  DataInv'
PROOF BY KeepData DEF Fail

\* What every arm of decode_type that succeeds does.
LEMMA TakeData ==
  ASSUME DataInv, pc = "args", NEW n \in 0..Len(input), NEW items, Take(n, items)
  PROVE  DataInv'
PROOF BY ExtendData DEF Take

\* A step of decode_type, whatever the type, keeps the data in step with
\* the input.
LEMMA TypeData ==
  ASSUME DataInv, decode_type
  PROVE  DataInv'
PROOF
<1>0. /\ Len(input) \in Nat /\ 0 \in 0..Len(input) /\ input \in Seq(Bytes)
      /\ job \in Jobs
  BY WhereWeAre DEF DataInv
<1>1. CASE type_not_found
  BY <1>1, FailData DEF type_not_found
<1>2. CASE decode_composite
  BY <1>0, <1>2, TakeData DEF decode_composite, TypeStep
<1>3. CASE decode_variant
  <2>1. CASE input = <<>> /\ Fail("Codec")
    BY <2>1, FailData
  <2>2. CASE Fail("VariantNotFound")
    BY <2>2, FailData
  <2>3. CASE input # <<>> /\ Take(1, Fields(ty.variants[input[1] + 1].fields, FALSE))
    <3>1. 1 \in 0..Len(input)
      BY <1>0, <2>3, EmptySeq
    <3>. QED  BY <1>3, <2>3, <3>1, TakeData DEF decode_variant, TypeStep
  <2>. QED  BY <1>3, <2>1, <2>2, <2>3 DEF decode_variant
<1>4. CASE decode_sequence
  <2>1. CASE Fail("Codec")
    BY <2>1, FailData
  <2>2. ASSUME NEW c \in Compact(input), Take(c.taken, Items(ty.param, c.value, FALSE))
        PROVE  DataInv'
    <3>1. c.taken \in 0..Len(input)
      BY <1>0, <2>2, CompactBound
    <3>. QED  BY <1>4, <2>2, <3>1, TakeData DEF decode_sequence, TypeStep
  <2>. QED  BY <1>4, <2>1, <2>2 DEF decode_sequence
<1>5. CASE decode_array
  BY <1>0, <1>5, TakeData DEF decode_array, TypeStep
<1>6. CASE decode_tuple
  BY <1>0, <1>6, TakeData DEF decode_tuple, TypeStep
<1>7. CASE decode_primitive
  <2>1. CASE Fail("UnsupportedPrimitive") \/ Fail("Codec")
    BY <2>1, FailData
  <2>2. ASSUME ty.prim \notin {"Char", "U256", "I256"},
               NEW n \in decode_raw(ty.prim, input), Take(n, <<>>)
        PROVE  DataInv'
    <3>1. ty.prim \in Prims
      BY <1>0, <1>7, JobsAssumption DEF decode_primitive, TypeStep, ty, types, TypeDef
    <3>2. ty.prim \in Prims \ {"Char", "U256", "I256"}
      BY <2>2, <3>1
    <3>3. n \in 0..Len(input)
      BY <1>0, <2>2, <3>2, RawBound
    <3>. QED  BY <1>7, <2>2, <3>3, TakeData DEF decode_primitive, TypeStep
  <2>. QED  BY <1>7, <2>1, <2>2 DEF decode_primitive
<1>8. CASE decode_compact
  BY <1>8, FailData DEF decode_compact
<1>9. CASE decode_bit_sequence
  BY <1>9, KeepData DEF decode_bit_sequence
<1>. QED  BY <1>1, <1>2, <1>3, <1>4, <1>5, <1>6, <1>7, <1>8, <1>9 DEF decode_type

\* Every step keeps the invariant, one case per action.
LEMMA NextData == DataInv /\ [Next]_vars => DataInv'
PROOF
<1>. SUFFICES ASSUME DataInv, [Next]_vars PROVE DataInv'
  OBVIOUS
<1>0. Len(input) \in Nat /\ input \in Seq(Bytes)
  BY WhereWeAre DEF DataInv
<1>1. CASE try_from
  <2>1. ASSUME NEW e, Fail(e) PROVE DataInv'
    BY <2>1, FailData
  <2>2. CASE pc' = "ready" /\ UNCHANGED <<job, input>>
    BY <2>2, KeepData
  <2>. QED  BY <1>1, <2>1, <2>2 DEF try_from
<1>2. CASE decode_events
  <2>1. CASE Fail("Codec")
    BY <2>1, FailData
  <2>2. ASSUME NEW c \in Compact(input), pc' = "record",
               input' = Drop(input, c.taken), job' = job
        PROVE  DataInv'
    <3>1. c.taken \in 0..Len(input)
      BY <1>0, <2>2, CompactBound
    <3>. QED  BY <2>2, <3>1, MoveOn
  <2>. QED  BY <1>2, <2>1, <2>2 DEF decode_events
<1>3. CASE decode_record
  <2>1. CASE Fail("Codec") \/ Fail("EventNotFound")
    BY <2>1, FailData
  <2>2. ASSUME NEW n \in Phase(input), n + 2 <= Len(input), NEW e,
               rec' = [phase |-> SubSeq(input, 1, n), pallet |-> e.pallet,
                       variant |-> e.var.name, from |-> Position + n + 2],
               input' = Drop(input, n + 2), output' = <<>>, job' = job
        PROVE  DataInv'
    <3>1. n + 2 \in 0..Len(input) /\ n \in Nat
      BY <1>0, <2>2, PhaseBound
    <3>2. Position \in Nat
      BY WhereWeAre
    <3>3. rec'.from = Position + (n + 2)
      BY <2>2, <3>1, <3>2
    <3>. QED  BY <2>2, <3>1, <3>3, MoveOn
  <2>. QED  BY <1>3, <2>1, <2>2 DEF decode_record
<1>4. CASE decode_call
  <2>1. CASE Fail("Codec") \/ Fail("CallableNotFound")
    BY <2>1, FailData
  <2>2. ASSUME NEW e \in call(input[1], input[2]), ~ Len(input) < 2,
               rec' = [phase |-> <<>>, pallet |-> e.pallet, variant |-> e.var.name,
                       from |-> Position + 2],
               input' = Drop(input, 2), output' = <<>>, job' = job
        PROVE  DataInv'
    <3>1. 2 \in 0..Len(input)
      BY <1>0, <2>2
    <3>2. rec'.from = Position + 2
      BY <2>2
    <3>. QED  BY <2>2, <3>1, <3>2, MoveOn
  <2>. QED  BY <1>4, <2>1, <2>2 DEF decode_call
<1>5. CASE decode_dispatch_error
  <2>1. CASE Fail("Codec") \/ Fail("ErrorNotFound")
    BY <2>1, FailData
  <2>2. ASSUME NEW n \in DispatchError(input), input' = Drop(input, n),
               output' = output \o SubSeq(input, 1, n), UNCHANGED <<job, rec>>
        PROVE  DataInv'
    <3>1. n \in 0..Len(input)
      BY <1>0, <2>2, DispatchBound
    <3>2. pc = "args"
      BY <1>5 DEF decode_dispatch_error
    <3>. QED  BY <2>2, <3>1, <3>2, ExtendData
  <2>. QED  BY <1>5, <2>1, <2>2 DEF decode_dispatch_error
<1>6. CASE decode_type
  BY <1>6, TypeData
<1>7. CASE push_event
  <2>1. CASE Fail("Codec")
    BY <2>1, FailData
  <2>2. ASSUME NEW c \in VecOf(input, 32), pc' = "record",
               input' = Drop(input, c.taken + 32 * c.value), job' = job
        PROVE  DataInv'
    <3>1. c.taken + 32 * c.value \in 0..Len(input)
      BY <1>0, <2>2, VecBound
    <3>. QED  BY <2>2, <3>1, MoveOn
  <2>. QED  BY <1>7, <2>1, <2>2 DEF push_event
<1>8. CASE decode_returns
  BY <1>8, KeepData DEF decode_returns
<1>9. CASE UNCHANGED vars
  BY <1>9, KeepData DEF vars
<1>. QED  BY <1>1, <1>2, <1>3, <1>4, <1>5, <1>6, <1>7, <1>8, <1>9
          DEF Next, Step, Terminating

\* The data of an event or a call in progress is the part of the input that
\* was read since its indices, for every metadata and every input of
\* decode_events and decode_call: no arm of decode_type, however deep the
\* recursion, drops, adds or reorders a byte.
THEOREM DataTheorem == Spec => []DataIsTheInput
PROOF
<1>1. DataInv => DataIsTheInput
  <2>. SUFFICES ASSUME DataInv PROVE DataIsTheInput
    OBVIOUS
  <2>1. Position \in Nat
    BY WhereWeAre
  <2>2. pc = "args" => rec.from <= Position
    BY <2>1 DEF DataInv
  <2>. QED  BY <2>2 DEF DataInv, DataIsTheInput, Part, Drop
<1>. QED  BY <1>1, InitData, NextData, PTL DEF Spec

----------------------------------------------------------------------------
(***************************************************************************)
(* Type correctness.  The stack of types left to decode is fed from the    *)
(* registry, and from the variants that Metadata::try_from has indexed:    *)
(* that the latter are variants at all is what try_from has checked.       *)
(***************************************************************************)
Item == [id : Nat, n : Nat \ {0}, arg : BOOLEAN]

\* try_from has refused no type of the index.
IsIndexed == \A u \in IndexedTypes : get_type_def_variant(TypeAt(u)) = ""

TypeInv ==
  /\ DataInv
  /\ pc \in {"new", "ready", "record", "args", "ok", "err", "panic"}
  /\ left \in Nat
  /\ rec.from \in Nat /\ rec.phase \in Seq(Bytes)
  /\ output \in Seq(Bytes)
  /\ work \in Seq(Item)
  /\ pc \in {"ready", "record", "args"} => IsIndexed
  /\ pc = "args" /\ job.op = "events" => left > 0

\* The fields of a type or a variant are items of work.
LEMMA FieldsAreItems ==
  ASSUME NEW ids \in Seq(Nat), NEW arg \in BOOLEAN
  PROVE  Fields(ids, arg) \in Seq(Item)
PROOF
<1>1. Len(ids) \in Nat /\ DOMAIN ids = 1..Len(ids)
  BY LenProperties
<1>2. ASSUME NEW i \in 1..Len(ids)
      PROVE  [id |-> ids[i], n |-> 1, arg |-> arg] \in Item
  <2>1. ids[i] \in Nat
    BY ElementOfSeq
  <2>. QED  BY <2>1 DEF Item
<1>3. Fields(ids, arg) \in [1..Len(ids) -> Item]
  BY <1>1, <1>2 DEF Fields
<1>. QED  BY <1>1, <1>3, SeqDef

\* So is a type that is decoded any number of times.
LEMMA ItemsAreItems ==
  ASSUME NEW t \in Nat, NEW n \in Nat, NEW arg \in BOOLEAN
  PROVE  Items(t, n, arg) \in Seq(Item)
PROOF
<1>1. CASE n = 0
  BY <1>1 DEF Items
<1>2. CASE n # 0
  <2>1. [id |-> t, n |-> n, arg |-> arg] \in Item
    BY <1>2 DEF Item
  <2>2. \A x \in Item : <<x>> \in Seq(Item)
    OBVIOUS
  <2>. QED  BY <1>2, <2>1, <2>2 DEF Items
<1>. QED  BY <1>1, <1>2

\* The head of the work, and the work that is left after one decoding of it.
LEMMA RestIsWork ==
  ASSUME work \in Seq(Item), work # <<>>
  PROVE  /\ work[1] \in Item
         /\ Rest \in Seq(Item)
PROOF
<1>1. work[1] \in Item /\ Tail(work) \in Seq(Item)
  BY HeadTailProperties
<1>2. work[1].id \in Nat /\ work[1].n \in Nat /\ work[1].n - 1 \in Nat /\ work[1].arg \in BOOLEAN
  BY <1>1 DEF Item
<1>3. Items(work[1].id, work[1].n - 1, work[1].arg) \in Seq(Item)
  BY <1>2, ItemsAreItems
<1>. QED  BY <1>1, <1>3, ConcatProperties DEF Rest

\* A type that the registry has is well formed.  An id that decode_type is called
\* on need not be in the registry: type_not_found.
LEMMA RegistryTypes ==
  ASSUME job \in Jobs, NEW t \in DOMAIN types
  PROVE  TypeDef(types[t])
PROOF BY JobsAssumption DEF types

\* What the index of the metadata finds is a variant of the registry.
LEMMA FoundVariants ==
  ASSUME job \in Jobs, IsIndexed, NEW kind \in {"calls", "event"},
         NEW x, NEW y, NEW e \in Lookup(kind, x, y)
  PROVE  e.var.fields \in Seq(Nat)
PROOF
<1>1. e \in Entries(kind)
  BY DEF Lookup
<1>2. PICK p \in Range(md.pallets) :
        /\ p[kind] # <<>>
        /\ \E k \in 1..Len(types[p[kind][1]].variants) :
             e.var = types[p[kind][1]].variants[k]
  BY <1>1 DEF Entries
<1>3. PICK i \in DOMAIN md.pallets : p = md.pallets[i]
  BY DEF Range
<1>4. PICK c \in 1..3 : Kinds[c] = kind
  <2>1. Kinds[1] = "calls" /\ Kinds[2] = "event"
    BY DEF Kinds
  <2>. QED  BY <2>1
<1>5. DOMAIN Kinds = 1..3
  BY DEF Kinds
<1>. DEFINE u == <<c, i>>
            t == p[kind][1]
<1>6. u \in IndexedTypes /\ TypeAt(u) = t
  BY <1>2, <1>3, <1>4, <1>5 DEF IndexedTypes, TypeAt
<1>7. get_type_def_variant(t) = ""
  BY <1>6 DEF IsIndexed
<1>. HIDE DEF u, t
<1>8. t \in DOMAIN types /\ types[t].def = "Variant"
  BY <1>7 DEF get_type_def_variant
<1>9. \A k \in 1..Len(types[t].variants) : types[t].variants[k].fields \in Seq(Nat)
  BY <1>8, RegistryTypes DEF TypeDef
<1>. QED  BY <1>2, <1>9 DEF t

\* The data of an event or a call, after a step, is bytes.
LEMMA DataAreBytes ==
  ASSUME DataInv', pc' = "args"
  PROVE  output' \in Seq(Bytes) /\ rec'.from \in Nat
PROOF
<1>. DEFINE b == job'.bytes
            P == Position'
            f == rec'.from
<1>1. b \in Seq(Bytes) /\ input' \in Seq(Bytes) /\ Len(input') <= Len(b)
  BY JobsAssumption DEF DataInv
<1>2. Len(b) \in Nat /\ Len(input') \in Nat
  BY <1>1, LenProperties
<1>3. P = Len(b) - Len(input')
  BY DEF Position
<1>4. f \in 0..P /\ output' = Part(b, f, P)
  BY DEF DataInv
<1>. HIDE DEF b, P, f
<1>5. P \in 0..Len(b) /\ f \in Nat
  BY <1>1, <1>2, <1>3, <1>4
<1>6. Part(b, f, P) \in Seq(Bytes)
  BY <1>1, <1>4, <1>5, PartOf
<1>. QED  BY <1>4, <1>5, <1>6 DEF f

\* An error leaves everything as it was.
LEMMA FailType ==
  ASSUME TypeInv, NEW e, Fail(e), DataInv'
  PROVE  TypeInv'
PROOF BY DEF TypeInv, Fail

\* The index does not change: the metadata is part of the job.
LEMMA IndexStays ==
  ASSUME job' = job, IsIndexed
  PROVE  IsIndexed'
PROOF BY DEF IsIndexed, IndexedTypes, TypeAt, get_type_def_variant, md, types

\* What every arm of decode_type that succeeds does.
LEMMA TakeType ==
  ASSUME TypeInv, pc = "args", work # <<>>, NEW n, NEW items \in Seq(Item),
         Take(n, items), DataInv'
  PROVE  TypeInv'
PROOF
<1>1. work' \in Seq(Item)
  <2>1. Rest \in Seq(Item)
    BY RestIsWork DEF TypeInv
  <2>. QED  BY <2>1, ConcatProperties DEF Take
<1>2. pc' = "args"
  BY DEF Take
<1>3. output' \in Seq(Bytes)
  BY <1>2, DataAreBytes
<1>4. IsIndexed'
  BY IndexStays DEF TypeInv, Take
<1>. QED  BY <1>1, <1>2, <1>3, <1>4 DEF TypeInv, Take

\* A step of decode_type keeps the types of the variables: it puts ids on the
\* stack, of types the registry may lack, or it fails.
LEMMA TypeType ==
  ASSUME TypeInv, decode_type, DataInv'
  PROVE  TypeInv'
PROOF
<1>0. /\ Len(input) \in Nat /\ input \in Seq(Bytes) /\ job \in Jobs /\ work \in Seq(Item)
  BY WhereWeAre DEF DataInv, TypeInv
<1>1. CASE type_not_found
  BY <1>1, FailType DEF type_not_found
<1>2. ASSUME NEW def, TypeStep(def)
      PROVE  /\ pc = "args" /\ work # <<>> /\ ty.def = def /\ TypeDef(ty)
  BY <1>0, <1>2, RegistryTypes DEF TypeStep, ty
<1>3. ASSUME decode_composite \/ decode_tuple PROVE TypeInv'
  <2>1. PICK def \in {"Composite", "Tuple"} :
          TypeStep(def) /\ Take(0, Fields(ty.fields, FALSE))
    BY <1>3 DEF decode_composite, decode_tuple
  <2>2. pc = "args" /\ work # <<>> /\ ty.def = def /\ TypeDef(ty)
    BY <1>2, <2>1
  <2>3. Fields(ty.fields, FALSE) \in Seq(Item)
    BY <2>2, FieldsAreItems DEF TypeDef
  <2>. QED  BY <2>1, <2>2, <2>3, TakeType
<1>4. CASE decode_variant
  <2>1. CASE Fail("Codec") \/ Fail("VariantNotFound")
    BY <2>1, FailType
  <2>2. CASE /\ input # <<>> /\ input[1] < Len(ty.variants)
             /\ Take(1, Fields(ty.variants[input[1] + 1].fields, FALSE))
    <3>1. pc = "args" /\ work # <<>> /\ ty.def = "Variant" /\ TypeDef(ty)
      BY <1>2, <1>4 DEF decode_variant
    <3>. DEFINE k == input[1] + 1
                vs == ty.variants
    <3>2. input[1] \in Nat
      <4>1. input[1] \in Bytes
        BY <1>0, <2>2, HeadTailProperties
      <4>. QED  BY <4>1, BytesAreNumbers
    <3>3. \A i \in 1..Len(vs) : vs[i].fields \in Seq(Nat)
      BY <3>1 DEF TypeDef
    <3>4. k \in 1..Len(vs)
      BY <2>2, <3>2
    <3>5. Fields(vs[k].fields, FALSE) \in Seq(Item)
      BY <3>3, <3>4, FieldsAreItems
    <3>. QED  BY <2>2, <3>1, <3>5, TakeType
  <2>. QED  BY <1>4, <2>1, <2>2 DEF decode_variant
<1>5. CASE decode_sequence
  <2>1. CASE Fail("Codec")
    BY <2>1, FailType
  <2>2. ASSUME NEW c \in Compact(input), Take(c.taken, Items(ty.param, c.value, FALSE))
        PROVE  TypeInv'
    <3>1. pc = "args" /\ work # <<>> /\ ty.def = "Sequence" /\ TypeDef(ty)
      BY <1>2, <1>5 DEF decode_sequence
    <3>2. c.value \in Nat /\ ty.param \in Nat
      BY <1>0, <2>2, <3>1, CompactBound DEF TypeDef
    <3>3. Items(ty.param, c.value, FALSE) \in Seq(Item)
      BY <3>2, ItemsAreItems
    <3>. QED  BY <2>2, <3>1, <3>3, TakeType
  <2>. QED  BY <1>5, <2>1, <2>2 DEF decode_sequence
<1>6. CASE decode_array
  <2>1. pc = "args" /\ work # <<>> /\ ty.def = "Array" /\ TypeDef(ty)
    BY <1>2, <1>6 DEF decode_array
  <2>2. Items(ty.param, ty.len, FALSE) \in Seq(Item)
    BY <2>1, ItemsAreItems DEF TypeDef
  <2>. QED  BY <1>6, <2>1, <2>2, TakeType DEF decode_array
<1>7. CASE decode_primitive
  <2>1. CASE Fail("UnsupportedPrimitive") \/ Fail("Codec")
    BY <2>1, FailType
  <2>2. ASSUME NEW n, Take(n, <<>>)
        PROVE  TypeInv'
    <3>1. pc = "args" /\ work # <<>>
      BY <1>2, <1>7 DEF decode_primitive
    <3>2. <<>> \in Seq(Item)
      OBVIOUS
    <3>. QED  BY <2>2, <3>1, <3>2, TakeType
  <2>. QED  BY <1>7, <2>1, <2>2 DEF decode_primitive
<1>8. CASE decode_compact
  BY <1>8, FailType DEF decode_compact
<1>9. CASE decode_bit_sequence
  BY <1>9 DEF decode_bit_sequence, TypeInv
<1>. QED  BY <1>1, <1>3, <1>4, <1>5, <1>6, <1>7, <1>8, <1>9 DEF decode_type

\* Nothing has been decoded.
LEMMA InitType == Init => TypeInv
PROOF
<1>. SUFFICES ASSUME Init PROVE TypeInv
  OBVIOUS
<1>1. <<>> \in Seq(Bytes) /\ <<>> \in Seq(Item)
  OBVIOUS
<1>2. pc = "new" /\ left = 0 /\ work = <<>> /\ output = <<>>
  BY DEF Init
<1>3. rec.from = 0 /\ rec.phase = <<>>
  BY DEF Init, NoRec
<1>. QED  BY <1>1, <1>2, <1>3, InitData DEF TypeInv

\* Every step keeps the types, one case per action.
LEMMA NextType == TypeInv /\ [Next]_vars => TypeInv'
PROOF
<1>. SUFFICES ASSUME TypeInv, [Next]_vars PROVE TypeInv'
  OBVIOUS
<1>0. /\ DataInv' /\ job \in Jobs
      /\ Len(input) \in Nat /\ input \in Seq(Bytes)
      /\ <<>> \in Seq(Bytes)
  BY NextData, WhereWeAre DEF TypeInv, DataInv
<1>1. CASE try_from
  <2>1. ASSUME NEW e, Fail(e) PROVE TypeInv'
    BY <1>0, <2>1, FailType
  <2>2. CASE /\ {u \in IndexedTypes : get_type_def_variant(TypeAt(u)) # ""} = {}
             /\ pc' = "ready"
             /\ UNCHANGED <<job, err, input, left, rec, work, output, errors, r>>
    <3>1. IsIndexed'
      <4>1. IsIndexed
        BY <2>2 DEF IsIndexed
      <4>. QED  BY <2>2, <4>1, IndexStays
    <3>. QED  BY <1>0, <2>2, <3>1 DEF TypeInv
  <2>. QED  BY <1>1, <2>1, <2>2 DEF try_from
<1>2. CASE decode_events
  <2>1. CASE Fail("Codec")
    BY <1>0, <2>1, FailType
  <2>2. ASSUME NEW c \in Compact(input), pc' = "record", left' = c.value,
               UNCHANGED <<job, rec, work, output>>
        PROVE  TypeInv'
    <3>1. c.value \in Nat
      BY <1>0, <2>2, CompactBound
    <3>2. IsIndexed'
      BY <1>2, <2>2, IndexStays DEF TypeInv, decode_events
    <3>. QED  BY <1>0, <2>2, <3>1, <3>2 DEF TypeInv
  <2>. QED  BY <1>2, <2>1, <2>2 DEF decode_events
<1>3. CASE decode_record
  <2>1. CASE Fail("Codec") \/ Fail("EventNotFound")
    BY <1>0, <2>1, FailType
  <2>2. ASSUME NEW n \in Phase(input), NEW e \in event(input[n + 1], input[n + 2]),
               pc' = "args",
               rec' = [phase |-> SubSeq(input, 1, n), pallet |-> e.pallet,
                       variant |-> e.var.name, from |-> Position + n + 2],
               work' = Fields(e.var.fields, TRUE), UNCHANGED <<job, left>>
        PROVE  TypeInv'
    <3>1. pc = "record" /\ left > 0 /\ IsIndexed
      BY <1>3 DEF decode_record, TypeInv
    <3>2. e.var.fields \in Seq(Nat)
      BY <1>0, <2>2, <3>1, FoundVariants DEF event
    <3>3. work' \in Seq(Item)
      BY <2>2, <3>2, FieldsAreItems
    <3>4. rec'.phase \in Seq(Bytes)
      <4>1. n \in 0..Len(input)
        BY <1>0, <2>2, PhaseBound
      <4>2. \A i \in 1..n : input[i] \in Bytes
        BY <1>0, <4>1, ElementOfSeq
      <4>3. SubSeq(input, 1, n) \in Seq(Bytes)
        BY <1>0, <4>1, <4>2, SubSeqProperties
      <4>. QED  BY <2>2, <4>3
    <3>5. output' \in Seq(Bytes) /\ rec'.from \in Nat
      BY <1>0, <2>2, DataAreBytes
    <3>6. IsIndexed'
      BY <2>2, <3>1, IndexStays
    <3>7. left' \in Nat /\ left' > 0 /\ pc' = "args"
      BY <2>2, <3>1 DEF TypeInv
    <3>. QED  BY <1>0, <3>3, <3>4, <3>5, <3>6, <3>7 DEF TypeInv
  <2>. QED  BY <1>3, <2>1, <2>2 DEF decode_record
<1>4. CASE decode_call
  <2>1. CASE Fail("Codec") \/ Fail("CallableNotFound")
    BY <1>0, <2>1, FailType
  <2>2. ASSUME NEW e \in call(input[1], input[2]),
               pc' = "args",
               rec' = [phase |-> <<>>, pallet |-> e.pallet, variant |-> e.var.name,
                       from |-> Position + 2],
               work' = Fields(e.var.fields, TRUE), UNCHANGED <<job, left>>
        PROVE  TypeInv'
    <3>1. pc = "ready" /\ job.op = "call" /\ IsIndexed
      BY <1>4 DEF decode_call, TypeInv
    <3>2. e.var.fields \in Seq(Nat)
      BY <1>0, <2>2, <3>1, FoundVariants DEF call
    <3>3. work' \in Seq(Item)
      BY <2>2, <3>2, FieldsAreItems
    <3>4. rec'.phase \in Seq(Bytes)
      BY <1>0, <2>2
    <3>5. output' \in Seq(Bytes) /\ rec'.from \in Nat
      BY <1>0, <2>2, DataAreBytes
    <3>6. IsIndexed'
      BY <2>2, <3>1, IndexStays
    <3>7. left' \in Nat /\ job'.op # "events" /\ pc' = "args"
      BY <2>2, <3>1 DEF TypeInv
    <3>. QED  BY <1>0, <3>3, <3>4, <3>5, <3>6, <3>7 DEF TypeInv
  <2>. QED  BY <1>4, <2>1, <2>2 DEF decode_call
<1>5. CASE decode_dispatch_error
  <2>1. CASE Fail("Codec") \/ Fail("ErrorNotFound")
    BY <1>0, <2>1, FailType
  <2>2. ASSUME work' = Rest, UNCHANGED <<job, pc, left, rec>>
        PROVE  TypeInv'
    <3>1. pc = "args" /\ work # <<>>
      BY <1>5 DEF decode_dispatch_error
    <3>2. work' \in Seq(Item)
      BY <2>2, <3>1, RestIsWork DEF TypeInv
    <3>3. output' \in Seq(Bytes)
      BY <1>0, <2>2, <3>1, DataAreBytes
    <3>4. IsIndexed'
      BY <2>2, <3>1, IndexStays DEF TypeInv
    <3>. QED  BY <1>0, <2>2, <3>2, <3>3, <3>4 DEF TypeInv
  <2>. QED  BY <1>5, <2>1, <2>2 DEF decode_dispatch_error
<1>6. CASE decode_type
  BY <1>0, <1>6, TypeType
<1>7. CASE push_event
  <2>1. CASE Fail("Codec")
    BY <1>0, <2>1, FailType
  <2>2. CASE pc' = "record" /\ left' = left - 1 /\ UNCHANGED <<job, rec, work, output>>
    <3>1. left' \in Nat
      BY <1>7, <2>2 DEF push_event, TypeInv
    <3>2. IsIndexed'
      BY <1>7, <2>2, IndexStays DEF TypeInv, push_event
    <3>. QED  BY <1>0, <2>2, <3>1, <3>2 DEF TypeInv
  <2>. QED  BY <1>7, <2>1, <2>2 DEF push_event
<1>8. CASE decode_returns
  BY <1>0, <1>8 DEF decode_returns, TypeInv
<1>9. CASE UNCHANGED vars
  <2>1. IsIndexed => IsIndexed'
    BY <1>9, IndexStays DEF vars
  <2>. QED  BY <1>0, <1>9, <2>1 DEF vars, TypeInv
<1>. QED  BY <1>1, <1>2, <1>3, <1>4, <1>5, <1>6, <1>7, <1>8, <1>9
          DEF Next, Step, Terminating

\* The decoder keeps its types, for every metadata and every input: the
\* events left to decode_events never go below zero, what it puts out is
\* bytes, and decode_type is only ever called for a positive number of
\* elements, also for empty sequences and arrays of length 0.
THEOREM TypeCorrect == Spec => []TypeOK
PROOF
<1>1. TypeInv => TypeOK
  <2>. SUFFICES ASSUME TypeInv PROVE TypeOK
    OBVIOUS
  <2>1. \A i \in DOMAIN work : work[i] \in Item
    BY ElementOfSeq, LenProperties DEF TypeInv
  <2>2. \A i \in DOMAIN work : work[i].n \in Nat \ {0} /\ work[i].arg \in BOOLEAN
    BY <2>1 DEF Item
  <2>. QED  BY <2>2 DEF TypeInv, DataInv, TypeOK
<1>. QED  BY <1>1, InitType, NextType, PTL DEF Spec

=============================================================================
