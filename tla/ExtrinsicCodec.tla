--------------------------- MODULE ExtrinsicCodec ---------------------------
(***************************************************************************)
(* How an extrinsic becomes text and bytes again (primitives/src/          *)
(* extrinsics.rs, compose_extrinsic_offline): the client signs a payload,  *)
(* encodes extrinsic and length prefix and sends hex; the node, or a       *)
(* client, decodes it; the node rebuilds the payload from what it knows    *)
(* itself and verifies the signature.                                      *)
(*                                                                         *)
(* Bytes are bytes.  Keys and hashes are 32 equal bytes.  A signature is   *)
(* the number of the entry of `signed' that says who signed what, so that  *)
(* nobody can make one up.                                                 *)
(***************************************************************************)
EXTENDS Naturals, Sequences, SequencesExt

CONSTANT Jobs  \* what programs compose: see JobsAssumption

Byte == 0..255

\* MultiSignature: the index of a scheme and the size of its signatures.
Index == [ed25519 |-> 0, sr25519 |-> 1, ecdsa |-> 2]
Size  == [ed25519 |-> 64, sr25519 |-> 64, ecdsa |-> 65]

Unsigned == [account |-> 0, scheme |-> "none"]
Signers  == {Unsigned} \cup [account : Byte, scheme : DOMAIN Index]

\* An era of period 2^(log + 1), log > 0, and a phase less than that;
\* Immortal has log 0.
Immortal == [log |-> 0, phase |-> 0]
Period(log) == 2 ^ (log + 1)
Eras == {Immortal} \cup {e \in [log : 1..11, phase : 0..4095] : e.phase < Period(e.log)}

\* Integers of 32 bits.
U32s == {n \in Nat : n \div 65536 < 65536}

\* The facts an extrinsic is signed for.
Chains == [spec : U32s, tx : U32s, genesis : Byte, checkpoint : Byte]

\* A call has an index, and the length of its extrinsic fits 32 bits.
Calls == {c \in Seq(Byte) : c # <<>> /\ Len(c) \div 65536 < 65535}

\* size: size_of of the extrinsic, which depends on the type of the call but not
\* on the length of what it points to; client: what the Api value has kept;
\* node: what is so when it arrives; cuts: how many characters may be missing.
ASSUME JobsAssumption ==
  \A j \in Jobs :
    /\ j.signer \in Signers /\ j.call \in Calls /\ j.era \in Eras
    /\ j.nonce \in U32s /\ j.size \in Nat
    /\ j.client \in Chains /\ j.node \in Chains
    /\ j.cuts \subseteq Nat

VARIABLES
  job,     \* the job
  signed,  \* history: [scheme, account, message] of the signatures made
  xt,      \* the UncheckedExtrinsicV4, or NoXt
  text,    \* its hex text, or what arrives of it
  result   \* what decoding gave: nothing yet, an error, or an extrinsic

vars == <<job, signed, xt, text, result>>

NoXt == [signature |-> <<>>, function |-> <<>>]

Pending  == [res |-> "pending", xt |-> NoXt]
Error    == [res |-> "Err", xt |-> NoXt]
Ok(x)    == [res |-> "Ok", xt |-> x]

----------------------------------------------------------------------------
(***************************************************************************)
(* The SCALE codec (external): integers, Compact, Era.  A decoder takes a  *)
(* set of [out, rest] (the fields read so far, the input left; no element  *)
(* after an error) and gives another.                                      *)
(***************************************************************************)
Fill(b, n) == [i \in 1..n |-> b]

U32(n) == <<n % 256, (n \div 256) % 256, (n \div 65536) % 256, n \div 16777216>>

Compact(n) ==
  IF n < 64 THEN <<4 * n>>
  ELSE IF n < 16384 THEN <<4 * (n % 64) + 1, n \div 64>>
  ELSE IF n < 1073741824
         THEN <<4 * (n % 64) + 2, (n \div 64) % 256, (n \div 16384) % 256, n \div 4194304>>
  ELSE <<3>> \o U32(n)

Era(e) == IF e = Immortal THEN <<0>>
          ELSE <<e.log + 16 * (e.phase % 16), e.phase \div 16>>

Start(input) == {[out |-> <<>>, rest |-> input]}

\* s after a field of value v that takes n bytes.
After(s, v, n) == [out |-> Append(s.out, v), rest |-> SubSeq(s.rest, n + 1, Len(s.rest))]

Bytes(n, S) == {After(s, SubSeq(s.rest, 1, n), n) : s \in {t \in S : Len(t.rest) >= n}}

FromU32(b) == b[1] + 256 * b[2] + 65536 * b[3] + 16777216 * b[4]

\* The values are those that the encoder gives the fewest bytes.
DecodeCompact(S) ==
  LET Mode(k) == {s \in S : s.rest # <<>> /\ Head(s.rest) % 4 = k}
      Long(k, n) == {s \in Mode(k) : Len(s.rest) >= n}
  IN {After(s, s.rest[1] \div 4, 1) : s \in Mode(0)}
       \cup {After(s, (s.rest[1] \div 4) + 64 * s.rest[2], 2) :
               s \in {t \in Long(1, 2) : t.rest[2] > 0}}
       \cup {After(s, (s.rest[1] \div 4) + 64 * s.rest[2] + 16384 * s.rest[3]
                        + 4194304 * s.rest[4], 4) :
               s \in {t \in Long(2, 4) : t.rest[3] > 0 \/ t.rest[4] > 0}}
       \cup {After(s, FromU32(SubSeq(s.rest, 2, 5)), 5) :
               s \in {t \in Long(3, 5) : t.rest[1] = 3 /\ t.rest[5] >= 64}}

DecodeEra(S) ==
  {After(s, Immortal, 1) : s \in {t \in S : t.rest # <<>> /\ Head(t.rest) = 0}}
    \cup {After(s, [log |-> s.rest[1] % 16, phase |-> (s.rest[1] \div 16) + 16 * s.rest[2]], 2) :
            s \in {t \in S : /\ Len(t.rest) >= 2
                             /\ t.rest[1] % 16 > 0
                             /\ (t.rest[1] \div 16) + 16 * t.rest[2] < Period(t.rest[1] % 16)}}

\* MultiAddress::Id; the client makes no other.
Address(account) == <<0>> \o Fill(account, 32)

DecodeAddress(S) ==
  {After(s, s.rest[2], 33) : s \in {t \in S : Len(t.rest) >= 33 /\ Head(t.rest) = 0}}

Signature(scheme, n) == <<Index[scheme]>> \o Fill(n, Size[scheme])

DecodeSignature(S) ==
  UNION {{After(s, [scheme |-> c, n |-> s.rest[2]], Size[c] + 1) :
            s \in {t \in S : Len(t.rest) > Size[c] /\ Head(t.rest) = Index[c]}} :
         c \in DOMAIN Index}

----------------------------------------------------------------------------
(***************************************************************************)
(* extrinsics.rs.                                                          *)
(***************************************************************************)
\* Mutant: the nonce is taken for the tip, too.
GenericExtra_twice(era, nonce) ==
  [era |-> era, nonce |-> nonce, tip |-> nonce]

\* GenericExtra::new, and what it encodes to: era, nonce and a tip of 0.
GenericExtra(era, nonce) ==
  [era |-> era, nonce |-> nonce, tip |-> 0]

EncodeExtra(e) == Era(e.era) \o Compact(e.nonce) \o Compact(e.tip)

DecodeExtra(S) == DecodeCompact(DecodeCompact(DecodeEra(S)))

\* AdditionalSigned.
Additional(c) ==
  U32(c.spec) \o U32(c.tx) \o Fill(c.genesis, 32) \o Fill(c.checkpoint, 32)

\* Mutant: a payload of 256 bytes is hashed, too.
SignedPayload_off_by_one(call, extra, c) ==
  LET payload == call \o EncodeExtra(extra) \o Additional(c)
  IN [hashed |-> Len(payload) >= 256, bytes |-> payload]

\* What is signed: a long payload is hashed first.
SignedPayload(call, extra, c) ==
  LET payload == call \o EncodeExtra(extra) \o Additional(c)
  IN [hashed |-> Len(payload) > 256, bytes |-> payload]

\* The bytes kept free for the prefix.
Reserve(size) == IF size < 64 THEN 1 ELSE IF size < 16384 THEN 2 ELSE 4

\* Mutant: the prefix is written over the reserved bytes.
encode_with_vec_prefix_in_place(size, body) ==
  LET v      == Fill(0, Reserve(size)) \o body
      length == Compact(Len(v) - Reserve(size))
  IN [i \in DOMAIN v |-> IF i \in DOMAIN length THEN length[i] ELSE v[i]]

\* splice puts the prefix in the place of the reserved bytes, as long as it is.
encode_with_vec_prefix(size, body) ==
  LET v      == Fill(0, Reserve(size)) \o body
      length == Compact(Len(v) - Reserve(size))
  IN length \o SubSeq(v, Reserve(size) + 1, Len(v))

\* Mutant: the call comes before the signature.
encode_call_first(x) ==
  encode_with_vec_prefix(job.size,
    IF x.signature = <<>>
      THEN <<4>> \o x.function
      ELSE LET s == x.signature[1] IN
           <<4 + 128>> \o x.function \o Address(s.account) \o Signature(s.scheme, s.n)
             \o EncodeExtra(s.extra))

encode(x) ==
  encode_with_vec_prefix(job.size,
    IF x.signature = <<>>
      THEN <<4>> \o x.function
      ELSE LET s == x.signature[1] IN
           <<4 + 128>> \o Address(s.account) \o Signature(s.scheme, s.n)
             \o EncodeExtra(s.extra) \o x.function)

Hex == <<"0", "1", "2", "3", "4", "5", "6", "7", "8", "9", "a", "b", "c", "d", "e", "f">>

hex_encode(x) ==
  LET bytes == encode(x) IN
  <<"0", "x">> \o [i \in 1..(2 * Len(bytes)) |->
                     LET b == bytes[(i + 1) \div 2]
                     IN Hex[(IF i % 2 = 1 THEN b \div 16 ELSE b % 16) + 1]]

\* version != V4 is an error.
CheckVersion(S) == {s \in S : Last(s.out)[1] % 128 = 4}

IsSigned(s) == Last(s.out)[1] >= 128

\* The length is read and not used; the call is of a type of n bytes.
decode(input, n) ==
  LET S == CheckVersion(Bytes(1, DecodeCompact(Start(input))))
      signature == DecodeExtra(DecodeSignature(DecodeAddress({s \in S : IsSigned(s)})))
  IN {[signature |-> <<>>, function |-> s.out[3]] :
        s \in Bytes(n, {t \in S : ~ IsSigned(t)})}
       \cup {[signature |-> <<[account |-> s.out[3], scheme |-> s.out[4].scheme,
                               n |-> s.out[4].n,
                               extra |-> [era |-> s.out[5], nonce |-> s.out[6],
                                          tip |-> s.out[7]]]>>,
              function |-> s.out[8]] :
               s \in Bytes(n, signature)}

\* Vec::from_hex of utils.rs: an odd number of digits is an error.
from_hex(t) ==
  LET digits == IF Len(t) >= 2 /\ t[2] = "x" THEN SubSeq(t, 3, Len(t)) ELSE t
      Digit(c) == (CHOOSE d \in 1..16 : Hex[d] = c) - 1
  IN IF Len(digits) % 2 = 1 THEN {}
     ELSE {[i \in 1..(Len(digits) \div 2) |->
              16 * Digit(digits[2 * i - 1]) + Digit(digits[2 * i])]}

----------------------------------------------------------------------------
Init ==
  /\ job \in Jobs
  /\ signed = <<>> /\ xt = NoXt /\ text = <<>> /\ result = Pending

\* compose_extrinsic_offline, or the unsigned extrinsic of compose_extrinsic.
compose_extrinsic ==
  /\ xt = NoXt
  /\ LET extra == GenericExtra(job.era, job.nonce) IN
     IF job.signer = Unsigned
       THEN xt' = [signature |-> <<>>, function |-> job.call] /\ UNCHANGED signed
       ELSE /\ signed' = Append(signed,
                 [scheme |-> job.signer.scheme, account |-> job.signer.account,
                  message |-> SignedPayload(job.call, extra, job.client)])
            /\ xt' = [signature |-> <<[account |-> job.signer.account,
                                       scheme |-> job.signer.scheme,
                                       n |-> Len(signed) + 1, extra |-> extra]>>,
                      function |-> job.call]
  /\ UNCHANGED <<job, text, result>>

send_extrinsic ==
  /\ xt # NoXt /\ text = <<>>
  /\ text' = hex_encode(xt)
  /\ UNCHANGED <<job, signed, xt, result>>

\* A text that lacks its last characters.
Cut(n) ==
  /\ text # <<>> /\ result = Pending
  /\ n \in 1..(Len(text) - 1)
  /\ text = hex_encode(xt)
  /\ text' = SubSeq(text, 1, Len(text) - n)
  /\ UNCHANGED <<job, signed, xt, result>>

Decode ==
  /\ text # <<>> /\ result = Pending
  /\ LET decoded == UNION {decode(b, Len(job.call)) : b \in from_hex(text)} IN
     result' = IF decoded = {} THEN Error ELSE Ok(CHOOSE x \in decoded : TRUE)
  /\ UNCHANGED <<job, signed, xt, text>>

Done == result # Pending /\ UNCHANGED vars

Next ==
  \/ compose_extrinsic
  \/ send_extrinsic
  \/ \E n \in job.cuts : Cut(n)
  \/ Decode
  \/ Done

Spec == Init /\ [][Next]_vars

----------------------------------------------------------------------------
Extras == [era : Eras, nonce : U32s, tip : {0}]

XtOK(x) ==
  /\ x.function \in Seq(Byte)
  /\ \A s \in Range(x.signature) :
       s \in [account : Byte, scheme : DOMAIN Index, n : {1}, extra : Extras]

TypeOK ==
  /\ job \in Jobs
  /\ \A s \in Range(signed) : s.scheme \in DOMAIN Index /\ s.account \in Byte
  /\ XtOK(xt) /\ XtOK(result.xt)
  /\ Range(text) \subseteq Range(Hex) \cup {"x"}
  /\ result.res \in {"pending", "Err", "Ok"}

\* Decoding gives back the extrinsic that was encoded, for a call, a nonce or a
\* signature of any length, and an error if anything at the end is missing:
\* what encode writes is what Decode reads, to the last byte.
DecodeIsExact ==
  result # Pending => result = IF text = hex_encode(xt) THEN Ok(xt) ELSE Error

\* The prefix counts the bytes that follow, as the node wants of a Vec<u8>,
\* although the bytes reserved for it were guessed from the size of a type and
\* Decode itself never looks at it (encode_with_vec_prefix).
PrefixCountsRest ==
  xt # NoXt =>
    \E s \in DecodeCompact(Start(encode(xt))) : s.out[1] = Len(s.rest)

\* What the node verifies, from its own runtime and chain.
Message(x, c) ==
  LET e == x.signature[1].extra
      payload == x.function \o Era(e.era) \o Compact(e.nonce) \o Compact(e.tip)
                   \o U32(c.spec) \o U32(c.tx) \o Fill(c.genesis, 32)
                   \o Fill(c.checkpoint, 32)
  IN [hashed |-> Len(payload) >= 257, bytes |-> payload]

Verifies(x, c) ==
  LET s == x.signature[1] IN
  signed[s.n] = [scheme |-> s.scheme, account |-> s.account, message |-> Message(x, c)]

\* The signature of what arrives verifies if and only if runtime version,
\* transaction version, genesis and checkpoint are those the client signed
\* for: at every length of the payload around the one from which it is hashed.
VerifiesIffSameChain ==
  result.res = "Ok" /\ result.xt.signature # <<>> =>
    (Verifies(result.xt, job.node) <=> job.client = job.node)
=============================================================================
