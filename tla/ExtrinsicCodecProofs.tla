------------------------ MODULE ExtrinsicCodecProofs ------------------------
(***************************************************************************)
(* Theorems about ExtrinsicCodec, for any calls, signers, eras, nonces,    *)
(* chains and cuts: type correctness, what encode writes is what Decode    *)
(* reads, the prefix counts what follows, and a signature verifies exactly *)
(* for the chain it was made for.                                          *)
(***************************************************************************)
EXTENDS ExtrinsicCodec, TLAPS

(***************************************************************************)
(* Sequences.                                                              *)
(***************************************************************************)
\* Where the items of a concatenation are.
LEMMA ConcatFacts ==
  ASSUME NEW S, NEW a \in Seq(S), NEW b \in Seq(S)
  PROVE  /\ a \o b \in Seq(S) /\ Len(a \o b) = Len(a) + Len(b)
         /\ \A i \in 1..Len(a) : (a \o b)[i] = a[i]
  OBVIOUS

\* The items of the second part.
LEMMA ConcatAt ==
  ASSUME NEW S, NEW a \in Seq(S), NEW b \in Seq(S), NEW i \in 1..Len(b)
  PROVE  (a \o b)[Len(a) + i] = b[i]
  OBVIOUS

\* Sequences of the same items are the same.
LEMMA SeqEqual ==
  ASSUME NEW S, NEW a \in Seq(S), NEW b \in Seq(S), Len(a) = Len(b),
         \A i \in 1..Len(a) : a[i] = b[i]
  PROVE  a = b
  OBVIOUS

\* Concatenation is associative.
LEMMA ConcatAssoc ==
  ASSUME NEW S, NEW a \in Seq(S), NEW b \in Seq(S), NEW c \in Seq(S)
  PROVE  (a \o b) \o c = a \o (b \o c)
  OBVIOUS

\* Two sequences with beginnings of the same length.
LEMMA SameCut ==
  ASSUME NEW S, NEW a \in Seq(S), NEW b \in Seq(S), NEW c \in Seq(S), NEW d \in Seq(S),
         a \o b = c \o d, Len(a) = Len(c)
  PROVE  a = c /\ b = d
  <1>1. Len(b) = Len(d)
    BY ConcatFacts
  <1>2. \A i \in 1..Len(a) : a[i] = c[i]
    BY ConcatFacts
  <1>3. ASSUME NEW i \in 1..Len(b) PROVE b[i] = d[i]
    <2>1. (a \o b)[Len(a) + i] = b[i]
      BY ConcatAt
    <2>2. (c \o d)[Len(c) + i] = d[i]
      BY <1>1, ConcatAt
    <2> QED
      BY <2>1, <2>2
  <1>4. a = c
    BY <1>2, SeqEqual
  <1>5. b = d
    BY <1>1, <1>3, SeqEqual
  <1> QED
    BY <1>4, <1>5

\* A byte and what follows it.
LEMMA FirstThen ==
  ASSUME NEW b \in Byte, NEW u \in Seq(Byte)
  PROVE  /\ <<b>> \o u \in Seq(Byte) /\ Len(<<b>> \o u) = 1 + Len(u)
         /\ (<<b>> \o u)[1] = b
         /\ \A i \in 1..Len(u) : (<<b>> \o u)[1 + i] = u[i]
  <1> DEFINE h == <<b>>
  <1>1. h \in Seq(Byte) /\ Len(h) = 1 /\ h[1] = b
    OBVIOUS
  <1> HIDE DEF h
  <1>2. /\ h \o u \in Seq(Byte) /\ Len(h \o u) = Len(h) + Len(u)
        /\ \A i \in 1..Len(h) : (h \o u)[i] = h[i]
    BY <1>1, ConcatFacts
  <1>3. ASSUME NEW i \in 1..Len(u) PROVE (h \o u)[Len(h) + i] = u[i]
    BY <1>1, ConcatAt
  <1> QED
    BY <1>1, <1>2, <1>3 DEF h

\* What is left of w after n.
Past(w, n) == SubSeq(w, n + 1, Len(w))

\* The items after the first n.
LEMMA PastFacts ==
  ASSUME NEW S, NEW w \in Seq(S), NEW n \in Nat, n <= Len(w)
  PROVE  /\ Past(w, n) \in Seq(S) /\ Len(Past(w, n)) = Len(w) - n
         /\ \A i \in 1..(Len(w) - n) : Past(w, n)[i] = w[n + i]
  BY DEF Past

\* w is the beginning of s, or all of it.
Begins(w, s) ==
  /\ w \in Seq(Byte) /\ s \in Seq(Byte)
  /\ Len(w) <= Len(s)
  /\ \A i \in 1..Len(w) : w[i] = s[i]

\* A beginning of two parts: cut within the first, or the first and a
\* beginning of the second.
LEMMA BeginsFacts ==
  ASSUME NEW a \in Seq(Byte), NEW b \in Seq(Byte), NEW w, Begins(w, a \o b)
  PROVE  /\ w \in Seq(Byte) /\ Len(w) \in Nat /\ Len(w) <= Len(a) + Len(b)
         /\ \A i \in 1..Len(a) : i <= Len(w) => w[i] = a[i]
         /\ Len(w) >= Len(a) => /\ Begins(Past(w, Len(a)), b)
                                /\ Len(Past(w, Len(a))) = Len(w) - Len(a)
  <1> DEFINE s == a \o b
  <1>1. s \in Seq(Byte) /\ Len(s) = Len(a) + Len(b) /\ \A i \in 1..Len(a) : s[i] = a[i]
    BY ConcatFacts
  <1>2. \A i \in 1..Len(b) : s[Len(a) + i] = b[i]
    BY ConcatAt
  <1>3. w \in Seq(Byte) /\ Len(w) \in Nat /\ Len(w) <= Len(s) /\ \A i \in 1..Len(w) : w[i] = s[i]
    BY DEF Begins
  <1> HIDE DEF s
  <1>4. ASSUME NEW i \in 1..Len(a), i <= Len(w) PROVE w[i] = a[i]
    BY <1>1, <1>3, <1>4
  <1>5. ASSUME Len(w) >= Len(a)
        PROVE  Begins(Past(w, Len(a)), b) /\ Len(Past(w, Len(a))) = Len(w) - Len(a)
    <2> DEFINE p == Past(w, Len(a))
    <2>1. /\ p \in Seq(Byte) /\ Len(p) = Len(w) - Len(a)
          /\ \A i \in 1..(Len(w) - Len(a)) : p[i] = w[Len(a) + i]
      BY <1>3, <1>5, PastFacts
    <2> HIDE DEF p
    <2>2. ASSUME NEW i \in 1..Len(p) PROVE p[i] = b[i]
      <3>1. Len(a) + i \in 1..Len(w) /\ i \in 1..Len(b)
        BY <1>1, <1>3, <1>5, <2>1
      <3> QED
        BY <1>2, <1>3, <2>1, <3>1
    <2>3. Len(p) <= Len(b)
      BY <1>1, <1>3, <2>1
    <2> QED
      BY <2>1, <2>2, <2>3 DEF Begins, p
  <1> QED
    BY <1>1, <1>3, <1>4, <1>5

----------------------------------------------------------------------------
(***************************************************************************)
(* The encodings of the fields.                                            *)
(***************************************************************************)
LEMMA FillFacts ==
  ASSUME NEW b \in Byte, NEW n \in Nat
  PROVE  /\ Fill(b, n) \in Seq(Byte) /\ Len(Fill(b, n)) = n
         /\ \A i \in 1..n : Fill(b, n)[i] = b
  BY DEF Fill

\* Four bytes tell a number of 32 bits.
LEMMA U32Facts ==
  ASSUME NEW n \in U32s
  PROVE  /\ U32(n) \in Seq(Byte) /\ Len(U32(n)) = 4 /\ FromU32(U32(n)) = n
         /\ n >= 1073741824 => U32(n)[4] >= 64
  <1> DEFINE b1 == n % 256
             b2 == (n \div 256) % 256
             b3 == (n \div 65536) % 256
             b4 == n \div 16777216
  <1>1. n \in Nat /\ n \div 65536 < 65536
    BY SMT DEF U32s
  <1>2. b1 \in Byte /\ b2 \in Byte /\ b3 \in Byte
    BY <1>1 DEF Byte
  <1>3. b4 \in Byte
    BY <1>1, SMT DEF Byte
  <1>4. b1 + 256 * b2 + 65536 * b3 + 16777216 * b4 = n
    BY <1>1, SMT
  <1>5. n >= 1073741824 => b4 >= 64
    BY <1>1, SMT
  <1>6. U32(n) = <<b1, b2, b3, b4>>
    BY SMT DEF U32
  <1> HIDE DEF b1, b2, b3, b4
  <1> QED
    BY <1>2, <1>3, <1>4, <1>5, <1>6, SMT DEF FromU32

\* A Compact has one, two, four or five bytes.
LEMMA CompactFacts ==
  ASSUME NEW n \in U32s
  PROVE  Compact(n) \in Seq(Byte) /\ Len(Compact(n)) \in {1, 2, 4, 5}
  <1>0. n \in Nat
    BY SMT DEF U32s
  <1>1. CASE n < 64
    <2>1. 4 * n \in Byte
      BY <1>0, <1>1 DEF Byte
    <2>2. Compact(n) = <<4 * n>>
      BY <1>1, SMT DEF Compact
    <2> QED
      BY <2>1, <2>2
  <1>2. CASE n >= 64 /\ n < 16384
    <2>1. 4 * (n % 64) + 1 \in Byte /\ n \div 64 \in Byte
      BY <1>0, <1>2 DEF Byte
    <2>2. Compact(n) = <<4 * (n % 64) + 1, n \div 64>>
      BY <1>0, <1>2, SMT DEF Compact
    <2> QED
      BY <2>1, <2>2
  <1>3. CASE n >= 16384 /\ n < 1073741824
    <2>1. /\ 4 * (n % 64) + 2 \in Byte /\ (n \div 64) % 256 \in Byte
          /\ (n \div 16384) % 256 \in Byte /\ n \div 4194304 \in Byte
      BY <1>0, <1>3, SMT DEF Byte
    <2>2. Compact(n) = <<4 * (n % 64) + 2, (n \div 64) % 256, (n \div 16384) % 256, n \div 4194304>>
      BY <1>0, <1>3, SMT DEF Compact
    <2> QED
      BY <2>1, <2>2, SMT
  <1>4. CASE n >= 1073741824
    <2> DEFINE b == 3
               u == U32(n)
    <2>1. Compact(n) = <<b>> \o u
      BY <1>0, <1>4, SMT DEF Compact
    <2>2. b \in Byte
      BY DEF Byte
    <2>3. u \in Seq(Byte) /\ Len(u) = 4
      BY U32Facts, SMT
    <2>4. u \in Seq(Byte)
      BY <2>3
    <2> HIDE DEF b, u
    <2>5. Compact(n) \in Seq(Byte) /\ Len(Compact(n)) = 1 + Len(u)
      BY <2>1, <2>2, <2>4, FirstThen
    <2> QED
      BY <2>3, <2>5
  <1> QED
    BY <1>0, <1>1, <1>2, <1>3, <1>4, SMT

----------------------------------------------------------------------------
(***************************************************************************)
(* The decoders.  Each takes its field off the input, or fails if the      *)
(* input ends before the field does.                                       *)
(***************************************************************************)
State(o, w) == [out |-> o, rest |-> w]

\* A decoder that takes n bytes is past n bytes.
LEMMA AfterFacts ==
  ASSUME NEW o, NEW w, NEW v, NEW n
  PROVE  After(State(o, w), v, n) = State(Append(o, v), Past(w, n))
  BY DEF After, State, Past

\* A decoder has nothing to decode after an error.
LEMMA NothingDecoded ==
  /\ DecodeCompact({}) = {} /\ DecodeEra({}) = {} /\ DecodeAddress({}) = {}
  /\ DecodeSignature({}) = {} /\ \A n : Bytes(n, {}) = {}
  <1>1. DecodeCompact({}) = {}
    BY SMT DEF DecodeCompact
  <1>2. DecodeEra({}) = {}
    BY DEF DecodeEra
  <1>3. DecodeAddress({}) = {}
    BY DEF DecodeAddress
  <1>4. DecodeSignature({}) = {}
    BY DEF DecodeSignature
  <1>5. \A n : Bytes(n, {}) = {}
    BY DEF Bytes
  <1> QED
    BY <1>1, <1>2, <1>3, <1>4, <1>5

\* The four modes of a Compact.
Two(w)  == (w[1] \div 4) + 64 * w[2]
Four(w) == (w[1] \div 4) + 64 * w[2] + 16384 * w[3] + 4194304 * w[4]
Five(w) == FromU32(SubSeq(w, 2, 5))

\* What the four modes of a Compact decode to.
LEMMA CompactModes ==
  ASSUME NEW o, NEW w \in Seq(Byte)
  PROVE  /\ w = <<>> => DecodeCompact({State(o, w)}) = {}
         /\ w # <<>> /\ w[1] % 4 = 0 =>
              DecodeCompact({State(o, w)}) = {State(Append(o, w[1] \div 4), Past(w, 1))}
         /\ w # <<>> /\ w[1] % 4 = 1 =>
              DecodeCompact({State(o, w)}) =
                IF Len(w) >= 2 /\ w[2] > 0 THEN {State(Append(o, Two(w)), Past(w, 2))} ELSE {}
         /\ w # <<>> /\ w[1] % 4 = 2 =>
              DecodeCompact({State(o, w)}) =
                IF Len(w) >= 4 /\ (w[3] > 0 \/ w[4] > 0)
                  THEN {State(Append(o, Four(w)), Past(w, 4))} ELSE {}
         /\ w # <<>> /\ w[1] % 4 = 3 =>
              DecodeCompact({State(o, w)}) =
                IF Len(w) >= 5 /\ w[1] = 3 /\ w[5] >= 64
                  THEN {State(Append(o, Five(w)), Past(w, 5))} ELSE {}
  <1> DEFINE s == State(o, w)
             m == Head(w) % 4
             A0 == After(s, w[1] \div 4, 1)
             A1 == After(s, Two(w), 2)
             A2 == After(s, Four(w), 4)
             A3 == After(s, Five(w), 5)
             P0 == w # <<>> /\ m = 0
             P1 == w # <<>> /\ m = 1 /\ Len(w) >= 2 /\ w[2] > 0
             P2 == w # <<>> /\ m = 2 /\ Len(w) >= 4 /\ (w[3] > 0 \/ w[4] > 0)
             P3 == w # <<>> /\ m = 3 /\ Len(w) >= 5 /\ w[1] = 3 /\ w[5] >= 64
             D  == DecodeCompact({State(o, w)})
  <1>1. s.rest = w
    BY DEF State
  <1> HIDE DEF s
  <1>2. DecodeCompact({s}) =
          (IF P0 THEN {A0} ELSE {}) \cup (IF P1 THEN {A1} ELSE {})
            \cup (IF P2 THEN {A2} ELSE {}) \cup (IF P3 THEN {A3} ELSE {})
    BY <1>1, SMT DEF DecodeCompact, Two, Four, Five
  <1>3. w # <<>> => Head(w) = w[1]
    OBVIOUS
  <1>4. /\ A0 = State(Append(o, w[1] \div 4), Past(w, 1))
        /\ A1 = State(Append(o, Two(w)), Past(w, 2))
        /\ A2 = State(Append(o, Four(w)), Past(w, 4))
        /\ A3 = State(Append(o, Five(w)), Past(w, 5))
    BY AfterFacts DEF s
  <1>5. w = <<>> => ~ P0 /\ ~ P1 /\ ~ P2 /\ ~ P3
    OBVIOUS
  <1>6. w # <<>> /\ w[1] % 4 = 0 => P0 /\ ~ P1 /\ ~ P2 /\ ~ P3
    BY <1>3
  <1>7. w # <<>> /\ w[1] % 4 = 1 =>
          ~ P0 /\ (P1 <=> Len(w) >= 2 /\ w[2] > 0) /\ ~ P2 /\ ~ P3
    BY <1>3
  <1>8. w # <<>> /\ w[1] % 4 = 2 =>
          ~ P0 /\ ~ P1 /\ (P2 <=> Len(w) >= 4 /\ (w[3] > 0 \/ w[4] > 0)) /\ ~ P3
    BY <1>3
  <1>9. w # <<>> /\ w[1] % 4 = 3 =>
          ~ P0 /\ ~ P1 /\ ~ P2 /\ (P3 <=> Len(w) >= 5 /\ w[1] = 3 /\ w[5] >= 64)
    BY <1>3
  <1> HIDE DEF A0, A1, A2, A3, P0, P1, P2, P3
  <1>10. D = (IF P0 THEN {A0} ELSE {}) \cup (IF P1 THEN {A1} ELSE {})
               \cup (IF P2 THEN {A2} ELSE {}) \cup (IF P3 THEN {A3} ELSE {})
    BY <1>2 DEF s
  <1> HIDE DEF D
  <1>11. /\ w = <<>> => D = {}
         /\ w # <<>> /\ w[1] % 4 = 0 => D = {A0}
         /\ w # <<>> /\ w[1] % 4 = 1 => D = IF Len(w) >= 2 /\ w[2] > 0 THEN {A1} ELSE {}
    BY <1>5, <1>6, <1>7, <1>10
  <1>12. w # <<>> /\ w[1] % 4 = 2 =>
           D = IF Len(w) >= 4 /\ (w[3] > 0 \/ w[4] > 0) THEN {A2} ELSE {}
    BY <1>8, <1>10
  <1>13. w # <<>> /\ w[1] % 4 = 3 =>
           D = IF Len(w) >= 5 /\ w[1] = 3 /\ w[5] >= 64 THEN {A3} ELSE {}
    BY <1>9, <1>10
  <1> QED
    BY <1>4, <1>11, <1>12, <1>13 DEF D

\* What DecodeCompact makes of a number, cut short or not.
LEMMA DecodesCompact ==
  ASSUME NEW n \in U32s, NEW z \in Seq(Byte), NEW w, Begins(w, Compact(n) \o z), NEW o
  PROVE  DecodeCompact({State(o, w)}) =
           IF Len(w) >= Len(Compact(n))
             THEN {State(Append(o, n), Past(w, Len(Compact(n))))} ELSE {}
  <1> DEFINE c == Compact(n)
             D == DecodeCompact({State(o, w)})
  <1>0. n \in Nat
    BY SMT DEF U32s
  <1>1. c \in Seq(Byte) /\ Len(c) \in {1, 2, 4, 5}
    BY CompactFacts
  <1>2. /\ w \in Seq(Byte) /\ Len(w) \in Nat
        /\ \A i \in 1..Len(c) : i <= Len(w) => w[i] = c[i]
    BY <1>1, BeginsFacts
  <1>3. w = <<>> <=> Len(w) = 0
    BY <1>2
  <1>4. CASE Len(w) = 0
    <2>1. D = {}
      BY <1>2, <1>3, <1>4, CompactModes
    <2>2. ~ (Len(w) >= Len(c))
      <3> HIDE DEF c
      <3> QED
        BY <1>1, <1>4
    <2> QED
      BY <2>1, <2>2, Zenon
  <1>5. ASSUME Len(w) >= 1 PROVE w # <<>> /\ w[1] = c[1]
    BY <1>1, <1>2, <1>5
  <1>6. CASE Len(w) >= 1 /\ n < 64
    <2>1. c = <<4 * n>>
      BY <1>6, SMT DEF Compact
    <2>2. Len(c) = 1 /\ c[1] = 4 * n
      BY <2>1
    <2>3. w # <<>> /\ w[1] = 4 * n
      BY <1>5, <1>6, <2>2
    <2>4. w[1] % 4 = 0 /\ w[1] \div 4 = n
      BY <1>0, <2>3
    <2>5. D = {State(Append(o, n), Past(w, 1))}
      BY <1>2, <2>3, <2>4, CompactModes
    <2> QED
      BY <1>6, <2>2, <2>5
  <1>7. CASE Len(w) >= 1 /\ n >= 64 /\ n < 16384
    <2>1. c = <<4 * (n % 64) + 1, n \div 64>>
      BY <1>0, <1>7, SMT DEF Compact
    <2>2. Len(c) = 2 /\ c[1] = 4 * (n % 64) + 1 /\ c[2] = n \div 64
      BY <2>1
    <2>3. w # <<>> /\ w[1] = 4 * (n % 64) + 1
      BY <1>5, <1>7, <2>2
    <2>4. w[1] % 4 = 1 /\ w[1] \div 4 = n % 64
      BY <1>0, <2>3
    <2>5. Len(w) >= 2 => w[2] = n \div 64
      BY <1>2, <2>2
    <2>6. n \div 64 > 0 /\ (n % 64) + 64 * (n \div 64) = n
      BY <1>0, <1>7
    <2>7. Len(w) >= 2 => w[2] > 0 /\ Two(w) = n
      BY <2>4, <2>5, <2>6 DEF Two
    <2>8. D = IF Len(w) >= 2 /\ w[2] > 0 THEN {State(Append(o, Two(w)), Past(w, 2))} ELSE {}
      BY <1>2, <2>3, <2>4, CompactModes
    <2> QED
      BY <2>2, <2>7, <2>8
  <1>8. CASE Len(w) >= 1 /\ n >= 16384 /\ n < 1073741824
    <2> DEFINE b1 == 4 * (n % 64) + 2
               b2 == (n \div 64) % 256
               b3 == (n \div 16384) % 256
               b4 == n \div 4194304
    <2>1. c = <<b1, b2, b3, b4>>
      BY <1>0, <1>8, SMT DEF Compact
    <2>2. b1 % 4 = 2 /\ b1 \div 4 = n % 64
      BY <1>0
    <2>3. (n % 64) + 64 * b2 + 16384 * b3 + 4194304 * b4 = n
      BY <1>0, SMT
    <2>4. b3 > 0 \/ b4 > 0
      BY <1>0, <1>8, SMT
    <2> HIDE DEF b1, b2, b3, b4
    <2>5. Len(c) = 4 /\ c[1] = b1 /\ c[2] = b2 /\ c[3] = b3 /\ c[4] = b4
      BY <2>1
    <2> HIDE DEF c
    <2>6. w # <<>> /\ w[1] = b1
      BY <1>5, <1>8, <2>5, SMT
    <2>7. Len(w) >= 4 => w[2] = b2 /\ w[3] = b3 /\ w[4] = b4
      BY <1>2, <2>5
    <2>8. Len(w) >= 4 => (w[3] > 0 \/ w[4] > 0) /\ Four(w) = n
      BY <2>2, <2>3, <2>4, <2>6, <2>7, SMT DEF Four
    <2>9. D = IF Len(w) >= 4 /\ (w[3] > 0 \/ w[4] > 0)
                THEN {State(Append(o, Four(w)), Past(w, 4))} ELSE {}
      BY <1>2, <2>2, <2>6, CompactModes
    <2> QED
      BY <2>5, <2>8, <2>9 DEF c
  <1>9. CASE Len(w) >= 1 /\ n >= 1073741824
    <2> DEFINE u == U32(n)
    <2>1. c = <<3>> \o u
      BY <1>0, <1>9, SMT DEF Compact
    <2>2. u \in Seq(Byte) /\ Len(u) = 4 /\ FromU32(u) = n /\ u[4] >= 64
      BY <1>9, U32Facts, SMT
    <2> HIDE DEF u
    <2>3. Len(c) = 5 /\ c[1] = 3 /\ c[2] = u[1] /\ c[3] = u[2] /\ c[4] = u[3] /\ c[5] = u[4]
      <3> DEFINE b == 3
      <3>1. b \in Byte /\ c = <<b>> \o u
        BY <2>1 DEF Byte
      <3>2. u \in Seq(Byte)
        BY <2>2
      <3> HIDE DEF b, c
      <3>3. Len(c) = 1 + Len(u) /\ c[1] = b /\ \A i \in 1..Len(u) : c[1 + i] = u[i]
        BY <3>1, <3>2, FirstThen
      <3>4. 1 \in 1..4 /\ 2 \in 1..4 /\ 3 \in 1..4 /\ 4 \in 1..4
        OBVIOUS
      <3> QED
        BY <2>2, <3>3, <3>4 DEF b
    <2> HIDE DEF c
    <2>4. w # <<>> /\ w[1] = 3
      BY <1>5, <1>9, <2>3, SMT
    <2>5. ASSUME Len(w) >= 5 PROVE w[5] >= 64 /\ Five(w) = n
      <3>1. w[2] = u[1] /\ w[3] = u[2] /\ w[4] = u[3] /\ w[5] = u[4]
        BY <1>2, <2>3, <2>5
      <3>2. SubSeq(w, 2, 5) = u
        BY <1>2, <2>2, <2>5, <3>1
      <3> QED
        BY <2>2, <3>1, <3>2 DEF Five
    <2>6. w[1] % 4 = 3
      BY <2>4
    <2>7. D = IF Len(w) >= 5 /\ w[1] = 3 /\ w[5] >= 64
                THEN {State(Append(o, Five(w)), Past(w, 5))} ELSE {}
      BY <1>2, <2>4, <2>6, CompactModes
    <2> QED
      BY <2>3, <2>4, <2>5, <2>7 DEF c
  <1>10. \/ Len(w) = 0
         \/ Len(w) >= 1 /\ n < 64
         \/ Len(w) >= 1 /\ n >= 64 /\ n < 16384
         \/ Len(w) >= 1 /\ n >= 16384 /\ n < 1073741824
         \/ Len(w) >= 1 /\ n >= 1073741824
    BY <1>0, <1>2, SMT
  <1> HIDE DEF c, D
  <1>11. D = IF Len(w) >= Len(c) THEN {State(Append(o, n), Past(w, Len(c)))} ELSE {}
    BY <1>4, <1>6, <1>7, <1>8, <1>9, <1>10, SMT DEF c, D
  <1> QED
    BY <1>11 DEF c, D

\* The era at the beginning of w, if it is mortal.
Mortal(w) == [log |-> w[1] % 16, phase |-> (w[1] \div 16) + 16 * w[2]]

\* An era is one zero byte, or two bytes with a phase within the period.
LEMMA EraModes ==
  ASSUME NEW o, NEW w \in Seq(Byte)
  PROVE  DecodeEra({State(o, w)}) =
           (IF w # <<>> /\ w[1] = 0 THEN {State(Append(o, Immortal), Past(w, 1))} ELSE {})
             \cup (IF Len(w) >= 2 /\ w[1] % 16 > 0 /\ Mortal(w).phase < Period(Mortal(w).log)
                     THEN {State(Append(o, Mortal(w)), Past(w, 2))} ELSE {})
  <1> DEFINE s == State(o, w)
             M == [log |-> w[1] % 16, phase |-> (w[1] \div 16) + 16 * w[2]]
             P == (w[1] \div 16) + 16 * w[2] < Period(w[1] % 16)
             A0 == After(s, Immortal, 1)
             A1 == After(s, M, 2)
  <1>1. s.rest = w
    BY DEF State
  <1>2. w # <<>> => Head(w) = w[1]
    OBVIOUS
  <1> HIDE DEF s
  <1>3. DecodeEra({s}) =
          (IF w # <<>> /\ Head(w) = 0 THEN {A0} ELSE {})
            \cup (IF Len(w) >= 2 /\ w[1] % 16 > 0 /\ P THEN {A1} ELSE {})
    BY <1>1 DEF DecodeEra
  <1>4. A0 = State(Append(o, Immortal), Past(w, 1)) /\ A1 = State(Append(o, M), Past(w, 2))
    BY AfterFacts DEF s
  <1>5. M = Mortal(w) /\ (P <=> Mortal(w).phase < Period(Mortal(w).log))
    BY DEF Mortal
  <1> HIDE DEF A0, A1, M, P
  <1>6. DecodeEra({s}) =
          (IF w # <<>> /\ w[1] = 0 THEN {A0} ELSE {})
            \cup (IF Len(w) >= 2 /\ w[1] % 16 > 0 /\ P THEN {A1} ELSE {})
    BY <1>2, <1>3
  <1> QED
    BY <1>4, <1>5, <1>6 DEF s

\* The two bytes of a mortal era.
Logs == 1..11
Phases == 0..4095

TwoBytes(log, phase) ==
  LET b == log + 16 * (phase % 16) IN
  /\ b \in Byte /\ phase \div 16 \in Byte
  /\ b % 16 = log /\ b \div 16 = phase % 16
  /\ (phase % 16) + 16 * (phase \div 16) = phase

\* The two bytes of a mortal era tell its period and its phase.
LEMMA EraBytes ==
  ASSUME NEW log \in Logs, NEW phase \in Phases
  PROVE  TwoBytes(log, phase)
  <1>1. log \in Nat /\ phase \in Nat /\ log >= 1 /\ log <= 11 /\ phase <= 4095
    BY SMT DEF Logs, Phases
  <1>2. log + 16 * (phase % 16) \in Byte /\ phase \div 16 \in Byte
    BY <1>1, SMT DEF Byte
  <1>3. (log + 16 * (phase % 16)) % 16 = log /\ (log + 16 * (phase % 16)) \div 16 = phase % 16
    BY <1>1, SMT
  <1>4. (phase % 16) + 16 * (phase \div 16) = phase
    BY <1>1, SMT
  <1> QED
    BY <1>2, <1>3, <1>4, SMT DEF TwoBytes

IsMortal(e) ==
  /\ e.log \in Logs /\ e.phase \in Phases /\ e.phase < Period(e.log)
  /\ e = [log |-> e.log, phase |-> e.phase]
  /\ Era(e) = <<e.log + 16 * (e.phase % 16), e.phase \div 16>>

\* What an era is encoded to.
LEMMA EraFacts ==
  ASSUME NEW e \in Eras
  PROVE  /\ Era(e) \in Seq(Byte) /\ Len(Era(e)) \in {1, 2}
         /\ e = Immortal => Era(e) = <<0>>
         /\ e # Immortal => IsMortal(e)
  <1>1. CASE e = Immortal
    BY <1>1 DEF Era, Byte
  <1>2. CASE e # Immortal
    <2>1. e \in [log : Logs, phase : Phases] /\ e.phase < Period(e.log)
      BY <1>2 DEF Eras, Logs, Phases
    <2>5. e.log \in Logs /\ e.phase \in Phases /\ e = [log |-> e.log, phase |-> e.phase]
      BY <2>1
    <2>2. e.log + 16 * (e.phase % 16) \in Byte /\ e.phase \div 16 \in Byte
      <3>1. TwoBytes(e.log, e.phase)
        BY <2>5, EraBytes, Zenon
      <3> QED
        BY <3>1 DEF TwoBytes
    <2>3. Era(e) = <<e.log + 16 * (e.phase % 16), e.phase \div 16>>
      BY <1>2 DEF Era
    <2>4. Era(e) \in Seq(Byte) /\ Len(Era(e)) = 2
      BY <2>2, <2>3
    <2> QED
      BY <1>2, <2>1, <2>3, <2>4, <2>5, SMT DEF IsMortal
  <1> QED
    BY <1>1, <1>2

\* What DecodeEra makes of an era, cut short or not.
LEMMA DecodesEra ==
  ASSUME NEW e \in Eras, NEW z \in Seq(Byte), NEW w, Begins(w, Era(e) \o z), NEW o
  PROVE  DecodeEra({State(o, w)}) =
           IF Len(w) >= Len(Era(e)) THEN {State(Append(o, e), Past(w, Len(Era(e))))} ELSE {}
  <1> DEFINE c == Era(e)
             D == DecodeEra({State(o, w)})
  <1>1. c \in Seq(Byte) /\ Len(c) \in {1, 2}
    BY EraFacts
  <1>2. /\ w \in Seq(Byte) /\ Len(w) \in Nat
        /\ \A i \in 1..Len(c) : i <= Len(w) => w[i] = c[i]
    BY <1>1, BeginsFacts
  <1>3. w = <<>> <=> Len(w) = 0
    BY <1>2
  <1>4. D = (IF w # <<>> /\ w[1] = 0 THEN {State(Append(o, Immortal), Past(w, 1))} ELSE {})
              \cup (IF Len(w) >= 2 /\ w[1] % 16 > 0 /\ Mortal(w).phase < Period(Mortal(w).log)
                      THEN {State(Append(o, Mortal(w)), Past(w, 2))} ELSE {})
    BY <1>2, EraModes
  <1>5. CASE e = Immortal
    <2>1. c = <<0>>
      BY <1>5, EraFacts
    <2>2. Len(c) = 1 /\ c[1] = 0
      BY <2>1
    <2> HIDE DEF c, D
    <2>3. Len(w) >= 1 => w # <<>> /\ w[1] = 0
      BY <1>2, <1>3, <2>2
    <2>4. Len(w) >= 1 => ~ (w[1] % 16 > 0)
      BY <2>3
    <2>5. D = IF Len(w) >= 1 THEN {State(Append(o, Immortal), Past(w, 1))} ELSE {}
      BY <1>2, <1>3, <1>4, <2>3, <2>4
    <2> QED
      BY <1>5, <2>2, <2>5 DEF c, D
  <1>6. CASE e # Immortal
    <2> DEFINE b1 == e.log + 16 * (e.phase % 16)
               b2 == e.phase \div 16
    <2>1. /\ e.log \in Logs /\ e.phase \in Phases /\ e.phase < Period(e.log)
          /\ e = [log |-> e.log, phase |-> e.phase] /\ c = <<b1, b2>>
      <3>1. IsMortal(e)
        BY <1>6, EraFacts, Zenon
      <3> QED
        BY <3>1, Zenon DEF IsMortal
    <2>2. Len(c) = 2 /\ c[1] = b1 /\ c[2] = b2
      BY <2>1
    <2>3. b1 % 16 = e.log /\ b1 \div 16 = e.phase % 16 /\ (e.phase % 16) + 16 * b2 = e.phase
      <3>1. TwoBytes(e.log, e.phase)
        BY <2>1, EraBytes, Zenon
      <3> QED
        BY <3>1 DEF TwoBytes
    <2>4. b1 % 16 > 0 /\ b1 # 0
      BY <2>1, <2>3 DEF Logs
    <2> HIDE DEF b1, b2, c, D
    <2>5. Len(w) >= 1 => w[1] = b1
      BY <1>2, <2>2
    <2>6. Len(w) >= 2 => w[2] = b2
      BY <1>2, <2>2
    <2>7. ~ (w # <<>> /\ w[1] = 0)
      BY <1>2, <1>3, <2>4, <2>5
    <2>8. ASSUME Len(w) >= 2
          PROVE  w[1] % 16 > 0 /\ Mortal(w) = e
      <3>1. w[1] = b1 /\ w[2] = b2
        BY <1>2, <2>5, <2>6, <2>8
      <3>2. w[1] % 16 = e.log /\ (w[1] \div 16) + 16 * w[2] = e.phase
        BY <2>3, <3>1
      <3> QED
        BY <2>1, <2>4, <3>1, <3>2, SMT DEF Mortal
    <2>9. D = IF Len(w) >= 2 THEN {State(Append(o, e), Past(w, 2))} ELSE {}
      BY <1>4, <2>1, <2>7, <2>8, SMT
    <2> QED
      BY <2>2, <2>9 DEF c, D
  <1> QED
    BY <1>5, <1>6

\* As many bytes as there are in the field.
LEMMA ReadsBytes ==
  ASSUME NEW a \in Seq(Byte), NEW z \in Seq(Byte), NEW w, Begins(w, a \o z), NEW o
  PROVE  Bytes(Len(a), {State(o, w)}) =
           IF Len(w) >= Len(a) THEN {State(Append(o, a), Past(w, Len(a)))} ELSE {}
  <1> DEFINE s == State(o, w)
             n == Len(a)
             A == After(s, SubSeq(w, 1, n), n)
  <1>1. s.rest = w
    BY DEF State
  <1>2. /\ w \in Seq(Byte) /\ Len(w) \in Nat
        /\ \A i \in 1..Len(a) : i <= Len(w) => w[i] = a[i]
    BY BeginsFacts
  <1>3. Len(w) >= n => SubSeq(w, 1, n) = a
    BY <1>2
  <1> HIDE DEF s
  <1>4. Bytes(n, {s}) = IF Len(w) >= n THEN {A} ELSE {}
    BY <1>1 DEF Bytes
  <1>5. A = State(Append(o, SubSeq(w, 1, n)), Past(w, n))
    BY AfterFacts DEF s
  <1> HIDE DEF A, n
  <1>6. Bytes(n, {s}) = IF Len(w) >= n THEN {State(Append(o, a), Past(w, n))} ELSE {}
    BY <1>3, <1>4, <1>5
  <1> QED
    BY <1>6 DEF s, n

\* An address is a zero byte and 32 bytes of the account.
LEMMA AddressFacts ==
  ASSUME NEW account \in Byte
  PROVE  /\ Address(account) \in Seq(Byte) /\ Len(Address(account)) = 33
         /\ Address(account)[1] = 0 /\ Address(account)[2] = account
  <1> DEFINE f == Fill(account, 32)
  <1>1. f \in Seq(Byte) /\ Len(f) = 32 /\ f[1] = account
    BY DEF Fill
  <1> DEFINE b == 0
  <1>2. b \in Byte
    BY DEF Byte
  <1>3. Address(account) = <<b>> \o f
    BY DEF Address
  <1>6. f \in Seq(Byte)
    BY <1>1
  <1> HIDE DEF f, b
  <1>4. /\ Address(account) \in Seq(Byte) /\ Len(Address(account)) = 1 + Len(f)
        /\ Address(account)[1] = b /\ \A i \in 1..Len(f) : Address(account)[1 + i] = f[i]
    BY <1>2, <1>3, <1>6, FirstThen
  <1>5. Address(account)[1 + 1] = account
    BY <1>1, <1>4
  <1> QED
    BY <1>1, <1>4, <1>5 DEF b

\* What is decoded of an address, cut short or not.
LEMMA DecodesAddress ==
  ASSUME NEW account \in Byte, NEW z \in Seq(Byte), NEW w, Begins(w, Address(account) \o z), NEW o
  PROVE  DecodeAddress({State(o, w)}) =
           IF Len(w) >= 33 THEN {State(Append(o, account), Past(w, 33))} ELSE {}
  <1> DEFINE s == State(o, w)
             a == Address(account)
             A == After(s, w[2], 33)
  <1>1. s.rest = w
    BY DEF State
  <1>2. a \in Seq(Byte) /\ Len(a) = 33 /\ a[1] = 0 /\ a[2] = account
    BY AddressFacts
  <1>0. Begins(w, a \o z)
    OBVIOUS
  <1>8. a \in Seq(Byte)
    BY <1>2
  <1> HIDE DEF a
  <1>3. /\ w \in Seq(Byte) /\ Len(w) \in Nat
        /\ \A i \in 1..Len(a) : i <= Len(w) => w[i] = a[i]
    BY <1>0, <1>8, BeginsFacts
  <1>4. Len(w) >= 33 => Head(w) = 0 /\ w[2] = account
    BY <1>2, <1>3
  <1> HIDE DEF s
  <1>5. DecodeAddress({s}) = IF Len(w) >= 33 /\ Head(w) = 0 THEN {A} ELSE {}
    BY <1>1 DEF DecodeAddress
  <1>6. A = State(Append(o, w[2]), Past(w, 33))
    BY AfterFacts DEF s
  <1> HIDE DEF A
  <1>7. DecodeAddress({s}) =
          IF Len(w) >= 33 THEN {State(Append(o, account), Past(w, 33))} ELSE {}
    BY <1>4, <1>5, <1>6
  <1> QED
    BY <1>7 DEF s

\* The first byte of a signature tells its scheme.
LEMMA SchemeFacts ==
  /\ DOMAIN Index = {"ed25519", "sr25519", "ecdsa"}
  /\ \A c \in DOMAIN Index : Index[c] \in Byte /\ Size[c] \in {64, 65}
  /\ \A c, d \in DOMAIN Index : Index[c] = Index[d] => c = d
  BY DEF Index, Size, Byte

\* A signature is that byte and 64 or 65 bytes.
LEMMA SignatureFacts ==
  ASSUME NEW c \in DOMAIN Index, NEW n \in Byte
  PROVE  /\ Signature(c, n) \in Seq(Byte) /\ Len(Signature(c, n)) = Size[c] + 1
         /\ Size[c] \in {64, 65}
         /\ Signature(c, n)[1] = Index[c] /\ Signature(c, n)[2] = n
  <1> DEFINE f == Fill(n, Size[c])
             b == Index[c]
  <1>0. Size[c] \in {64, 65} /\ b \in Byte
    BY SchemeFacts
  <1>1. f \in Seq(Byte) /\ Len(f) = Size[c] /\ f[1] = n
    BY <1>0 DEF Fill
  <1>3. Signature(c, n) = <<b>> \o f
    BY DEF Signature
  <1> HIDE DEF f, b
  <1>4. /\ Signature(c, n) \in Seq(Byte) /\ Len(Signature(c, n)) = 1 + Len(f)
        /\ Signature(c, n)[1] = b /\ \A i \in 1..Len(f) : Signature(c, n)[1 + i] = f[i]
    BY <1>0, <1>1, <1>3, FirstThen
  <1>5. Signature(c, n)[1 + 1] = n
    BY <1>0, <1>1, <1>4
  <1> QED
    BY <1>0, <1>1, <1>4, <1>5 DEF b

\* What is decoded of a signature, cut short or not.
LEMMA DecodesSignature ==
  ASSUME NEW c \in DOMAIN Index, NEW n \in Byte, NEW z \in Seq(Byte),
         NEW w, Begins(w, Signature(c, n) \o z), NEW o
  PROVE  DecodeSignature({State(o, w)}) =
           IF Len(w) >= Size[c] + 1
             THEN {State(Append(o, [scheme |-> c, n |-> n]), Past(w, Size[c] + 1))} ELSE {}
  <1> DEFINE s == State(o, w)
             a == Signature(c, n)
             A(d) == After(s, [scheme |-> d, n |-> w[2]], Size[d] + 1)
             P(d) == Len(w) > Size[d] /\ Head(w) = Index[d]
  <1>1. s.rest = w
    BY DEF State
  <1>2. a \in Seq(Byte) /\ Len(a) = Size[c] + 1 /\ a[1] = Index[c] /\ a[2] = n /\ Size[c] \in {64, 65}
    BY SignatureFacts
  <1>3. /\ w \in Seq(Byte) /\ Len(w) \in Nat
        /\ \A i \in 1..Len(a) : i <= Len(w) => w[i] = a[i]
    BY <1>2, BeginsFacts
  <1> HIDE DEF a
  <1>4. Len(w) >= 1 => Head(w) = Index[c]
    BY <1>2, <1>3
  <1>5. Len(w) >= 2 => w[2] = n
    BY <1>2, <1>3
  <1> HIDE DEF s
  <1>6. ASSUME NEW x
        PROVE  x \in DecodeSignature({s}) <=> \E d \in DOMAIN Index : P(d) /\ x = A(d)
    BY <1>1 DEF DecodeSignature
  <1>7. ASSUME NEW d \in DOMAIN Index
        PROVE  P(d) <=> d = c /\ Len(w) >= Size[c] + 1
    <2>1. Size[d] \in {64, 65}
      BY SchemeFacts
    <2>2. Len(w) > Size[d] => Len(w) >= 1
      BY <1>3, <2>1
    <2>3. Index[d] = Index[c] => d = c
      BY SchemeFacts
    <2>4. Len(w) > Size[c] <=> Len(w) >= Size[c] + 1
      BY <1>2, <1>3
    <2> QED
      BY <1>4, <2>2, <2>3, <2>4
  <1>8. DecodeSignature({s}) = IF Len(w) >= Size[c] + 1 THEN {A(c)} ELSE {}
    <2> HIDE DEF A, P
    <2> QED
      BY <1>6, <1>7
  <1>9. A(c) = State(Append(o, [scheme |-> c, n |-> w[2]]), Past(w, Size[c] + 1))
    BY AfterFacts DEF s
  <1>10. Len(w) >= Size[c] + 1 => w[2] = n
    BY <1>2, <1>3, <1>5
  <1> HIDE DEF A
  <1>11. DecodeSignature({s}) =
           IF Len(w) >= Size[c] + 1
             THEN {State(Append(o, [scheme |-> c, n |-> n]), Past(w, Size[c] + 1))} ELSE {}
    BY <1>8, <1>9, <1>10
  <1> QED
    BY <1>11 DEF s

----------------------------------------------------------------------------
(***************************************************************************)
(* One decoder after the other.  After some of the fields, S holds the one *)
(* state with the values o, and m bytes of what is encoded as z are left;  *)
(* or the input has ended, and m is negative.                              *)
(***************************************************************************)
Stage(S, o, z, m) ==
  /\ m < 0 => S = {}
  /\ m >= 0 => \E p : S = {State(o, p)} /\ Begins(p, z) /\ Len(p) = m

\* A decoder that reads a field, or fails where the field is cut, leads to the
\* next stage.
LEMMA StageFacts ==
  ASSUME NEW a \in Seq(Byte), NEW z \in Seq(Byte), NEW m \in Int, NEW o, NEW S,
         Stage(S, o, a \o z, m), NEW v, NEW T,
         S = {} => T = {},
         \A p : S = {State(o, p)} /\ Begins(p, a \o z) =>
           T = IF Len(p) >= Len(a) THEN {State(Append(o, v), Past(p, Len(a)))} ELSE {}
  PROVE  Stage(T, Append(o, v), z, m - Len(a))
  <1>0. Len(a) \in Nat
    OBVIOUS
  <1>1. CASE m < 0
    <2>1. T = {}
      BY <1>1 DEF Stage
    <2> QED
      BY <1>0, <1>1, <2>1 DEF Stage
  <1>2. CASE m >= 0
    <2>1. PICK p : S = {State(o, p)} /\ Begins(p, a \o z) /\ Len(p) = m
      BY <1>2 DEF Stage
    <2>2. T = IF Len(p) >= Len(a) THEN {State(Append(o, v), Past(p, Len(a)))} ELSE {}
      BY <2>1
    <2>3. Len(p) >= Len(a) => /\ Begins(Past(p, Len(a)), z)
                              /\ Len(Past(p, Len(a))) = Len(p) - Len(a)
      BY <2>1, BeginsFacts
    <2>4. CASE Len(p) >= Len(a)
      <3> DEFINE q == Past(p, Len(a))
      <3>1. T = {State(Append(o, v), q)} /\ Begins(q, z) /\ Len(q) = m - Len(a)
        BY <2>1, <2>2, <2>3, <2>4
      <3>2. ~ (m - Len(a) < 0)
        BY <1>0, <2>1, <2>4
      <3> HIDE DEF q
      <3> QED
        BY <3>1, <3>2 DEF Stage
    <2>5. CASE ~ (Len(p) >= Len(a))
      <3>1. T = {}
        BY <2>2, <2>5
      <3>2. m - Len(a) < 0
        BY <1>0, <2>1, <2>5
      <3> QED
        BY <1>0, <3>1, <3>2 DEF Stage
    <2> QED
      BY <2>4, <2>5
  <1> QED
    BY <1>1, <1>2

\* The stage behind a Compact.
LEMMA CompactStage ==
  ASSUME NEW n \in U32s, NEW z \in Seq(Byte), NEW m \in Int, NEW o, NEW S,
         Stage(S, o, Compact(n) \o z, m)
  PROVE  Stage(DecodeCompact(S), Append(o, n), z, m - Len(Compact(n)))
  <1> DEFINE a == Compact(n)
             T == DecodeCompact(S)
  <1>1. a \in Seq(Byte) /\ Stage(S, o, a \o z, m)
    BY CompactFacts
  <1>2. S = {} => T = {}
    BY NothingDecoded
  <1>3. \A p : S = {State(o, p)} /\ Begins(p, a \o z) =>
           T = IF Len(p) >= Len(a) THEN {State(Append(o, n), Past(p, Len(a)))} ELSE {}
    BY DecodesCompact
  <1> HIDE DEF a, T
  <1>4. Stage(T, Append(o, n), z, m - Len(a))
    BY <1>1, <1>2, <1>3, StageFacts
  <1> QED
    BY <1>4 DEF a, T

\* The stage behind an era.
LEMMA EraStage ==
  ASSUME NEW e \in Eras, NEW z \in Seq(Byte), NEW m \in Int, NEW o, NEW S,
         Stage(S, o, Era(e) \o z, m)
  PROVE  Stage(DecodeEra(S), Append(o, e), z, m - Len(Era(e)))
  <1> DEFINE a == Era(e)
             T == DecodeEra(S)
  <1>1. a \in Seq(Byte) /\ Stage(S, o, a \o z, m)
    BY EraFacts
  <1>2. S = {} => T = {}
    BY NothingDecoded
  <1>3. \A p : S = {State(o, p)} /\ Begins(p, a \o z) =>
           T = IF Len(p) >= Len(a) THEN {State(Append(o, e), Past(p, Len(a)))} ELSE {}
    BY DecodesEra
  <1> HIDE DEF a, T
  <1>4. Stage(T, Append(o, e), z, m - Len(a))
    BY <1>1, <1>2, <1>3, StageFacts
  <1> QED
    BY <1>4 DEF a, T

\* The stage behind an address.
LEMMA AddressStage ==
  ASSUME NEW account \in Byte, NEW z \in Seq(Byte), NEW m \in Int, NEW o, NEW S,
         Stage(S, o, Address(account) \o z, m)
  PROVE  Stage(DecodeAddress(S), Append(o, account), z, m - Len(Address(account)))
  <1> DEFINE a == Address(account)
             T == DecodeAddress(S)
  <1>1. a \in Seq(Byte) /\ Stage(S, o, a \o z, m)
    BY AddressFacts
  <1>0. Len(a) = 33
    BY AddressFacts
  <1>2. S = {} => T = {}
    BY NothingDecoded
  <1>3. \A p : S = {State(o, p)} /\ Begins(p, a \o z) =>
           T = IF Len(p) >= 33 THEN {State(Append(o, account), Past(p, 33))} ELSE {}
    BY DecodesAddress
  <1> HIDE DEF a, T
  <1>4. \A p : S = {State(o, p)} /\ Begins(p, a \o z) =>
           T = IF Len(p) >= Len(a) THEN {State(Append(o, account), Past(p, Len(a)))} ELSE {}
    BY <1>0, <1>3
  <1>5. Stage(T, Append(o, account), z, m - Len(a))
    BY <1>1, <1>2, <1>4, StageFacts
  <1> QED
    BY <1>5 DEF a, T

\* The stage behind a signature.
LEMMA SignatureStage ==
  ASSUME NEW c \in DOMAIN Index, NEW n \in Byte, NEW z \in Seq(Byte), NEW m \in Int, NEW o, NEW S,
         Stage(S, o, Signature(c, n) \o z, m)
  PROVE  Stage(DecodeSignature(S), Append(o, [scheme |-> c, n |-> n]), z,
               m - Len(Signature(c, n)))
  <1> DEFINE a == Signature(c, n)
             T == DecodeSignature(S)
             v == [scheme |-> c, n |-> n]
  <1>1. a \in Seq(Byte) /\ Stage(S, o, a \o z, m)
    BY SignatureFacts
  <1>0. Len(a) = Size[c] + 1
    BY SignatureFacts
  <1>2. S = {} => T = {}
    BY NothingDecoded
  <1>3. ASSUME NEW p, S = {State(o, p)}, Begins(p, a \o z)
        PROVE  T = IF Len(p) >= Size[c] + 1 THEN {State(Append(o, v), Past(p, Size[c] + 1))} ELSE {}
    <2>1. Begins(p, Signature(c, n) \o z)
      BY <1>3
    <2>2. DecodeSignature({State(o, p)}) =
            IF Len(p) >= Size[c] + 1
              THEN {State(Append(o, [scheme |-> c, n |-> n]), Past(p, Size[c] + 1))} ELSE {}
      BY <2>1, DecodesSignature
    <2> QED
      BY <1>3, <2>2
  <1> HIDE DEF a, T, v
  <1>4. \A p : S = {State(o, p)} /\ Begins(p, a \o z) =>
           T = IF Len(p) >= Len(a) THEN {State(Append(o, v), Past(p, Len(a)))} ELSE {}
    BY <1>0, <1>3
  <1>5. Stage(T, Append(o, v), z, m - Len(a))
    BY <1>1, <1>2, <1>4, StageFacts
  <1> QED
    BY <1>5 DEF a, T, v

\* The stage behind bytes of a known number.
LEMMA BytesStage ==
  ASSUME NEW a \in Seq(Byte), NEW z \in Seq(Byte), NEW m \in Int, NEW o, NEW S,
         Stage(S, o, a \o z, m)
  PROVE  Stage(Bytes(Len(a), S), Append(o, a), z, m - Len(a))
  <1> DEFINE T == Bytes(Len(a), S)
  <1>1. S = {} => T = {}
    BY NothingDecoded
  <1>2. \A p : S = {State(o, p)} /\ Begins(p, a \o z) =>
           T = IF Len(p) >= Len(a) THEN {State(Append(o, a), Past(p, Len(a)))} ELSE {}
    BY ReadsBytes
  <1> HIDE DEF T
  <1>3. Stage(T, Append(o, a), z, m - Len(a))
    BY <1>1, <1>2, StageFacts
  <1> QED
    BY <1>3 DEF T

----------------------------------------------------------------------------
(***************************************************************************)
(* What encode writes.                                                     *)
(***************************************************************************)
\* Whatever was reserved for it, the prefix is the length of the body.
LEMMA PrefixSplice ==
  ASSUME NEW size \in Nat, NEW body \in Seq(Byte)
  PROVE  encode_with_vec_prefix(size, body) = Compact(Len(body)) \o body
  <1> DEFINE r == Reserve(size)
             f == Fill(0, r)
             v == f \o body
             t == SubSeq(v, r + 1, Len(v))
  <1>1. r \in Nat
    BY DEF Reserve
  <1> HIDE DEF r
  <1>2. f \in Seq(Byte) /\ Len(f) = r
    <2>1. 0 \in Byte
      BY DEF Byte
    <2> QED
      BY <1>1, <2>1, FillFacts
  <1> HIDE DEF f
  <1>3. v \in Seq(Byte) /\ Len(v) = r + Len(body)
    BY <1>2, ConcatFacts
  <1>4. \A i \in 1..Len(body) : v[r + i] = body[i]
    BY <1>2, ConcatAt
  <1>5. t = Past(v, r)
    BY DEF Past
  <1> HIDE DEF v
  <1>6. t \in Seq(Byte) /\ Len(t) = Len(body) /\ \A i \in 1..Len(body) : t[i] = v[r + i]
    <2>1. Len(v) - r = Len(body) /\ r <= Len(v)
      BY <1>1, <1>3
    <2> QED
      BY <1>1, <1>3, <1>5, <2>1, PastFacts
  <1>7. t = body
    <2> HIDE DEF t
    <2>1. \A i \in 1..Len(t) : t[i] = body[i]
      BY <1>4, <1>6
    <2> QED
      BY <1>6, <2>1, SeqEqual
  <1>8. Len(v) - r = Len(body)
    BY <1>1, <1>3
  <1>9. encode_with_vec_prefix(size, body) = Compact(Len(v) - r) \o t
    BY DEF encode_with_vec_prefix, v, f, r
  <1> HIDE DEF t
  <1> QED
    BY <1>7, <1>8, <1>9

\* The version byte: 4, and the highest bit if there is a signature.
Bare   == 4
Signed == 132

\* A signed body, field by field.
SignedBody(a, s, e, n, t, f) == <<Signed>> \o (a \o (s \o (e \o (n \o (t \o f)))))

Assoc(a, b, c) == (a \o b) \o c = a \o (b \o c)

\* Parts of an encoding can be put together in any order.
LEMMA BytesAssoc ==
  \A a, b, c \in Seq(Byte) : Assoc(a, b, c)
  BY ConcatAssoc DEF Assoc

BodySize(a, s, e, n, t, f) ==
  /\ SignedBody(a, s, e, n, t, f) \in Seq(Byte)
  /\ Len(SignedBody(a, s, e, n, t, f)) =
       1 + Len(a) + Len(s) + Len(e) + Len(n) + Len(t) + Len(f)

\* The body of a signed extrinsic, field by field, and its length.
LEMMA SignedBodyFacts ==
  ASSUME NEW a \in Seq(Byte), NEW s \in Seq(Byte), NEW e \in Seq(Byte), NEW n \in Seq(Byte),
         NEW t \in Seq(Byte), NEW f \in Seq(Byte)
  PROVE  /\ <<4 + 128>> \o a \o s \o (e \o n \o t) \o f = SignedBody(a, s, e, n, t, f)
         /\ BodySize(a, s, e, n, t, f)
  <1> DEFINE v == <<Signed>>
             tf == t \o f
             ntf == n \o tf
             entf == e \o ntf
             sentf == s \o entf
             asentf == a \o sentf
             en == e \o n
             ent == en \o t
             va == v \o a
             vas == va \o s
  <1>1. v \in Seq(Byte) /\ Len(v) = 1 /\ <<4 + 128>> = v
    BY DEF Signed, Byte
  <1>16. v \in Seq(Byte)
    BY <1>1
  <1> HIDE DEF v
  <1>2. tf \in Seq(Byte) /\ Len(tf) = Len(t) + Len(f)
    BY ConcatFacts
  <1> HIDE DEF tf
  <1>3. ntf \in Seq(Byte) /\ Len(ntf) = Len(n) + Len(tf)
    BY <1>2, ConcatFacts
  <1> HIDE DEF ntf
  <1>4. entf \in Seq(Byte) /\ Len(entf) = Len(e) + Len(ntf)
    BY <1>3, ConcatFacts
  <1> HIDE DEF entf
  <1>5. sentf \in Seq(Byte) /\ Len(sentf) = Len(s) + Len(entf)
    BY <1>4, ConcatFacts
  <1> HIDE DEF sentf
  <1>6. asentf \in Seq(Byte) /\ Len(asentf) = Len(a) + Len(sentf)
    BY <1>5, ConcatFacts
  <1> HIDE DEF asentf
  <1>7. v \o asentf \in Seq(Byte) /\ Len(v \o asentf) = Len(v) + Len(asentf)
    BY <1>6, <1>16, ConcatFacts
  <1>8. SignedBody(a, s, e, n, t, f) = v \o asentf
    BY DEF SignedBody, v, asentf, sentf, entf, ntf, tf
  <1>9. en \in Seq(Byte) /\ ent \in Seq(Byte) /\ va \in Seq(Byte) /\ vas \in Seq(Byte)
    <2>1. en \in Seq(Byte) /\ va \in Seq(Byte)
      BY <1>16, ConcatFacts
    <2> HIDE DEF en, va
    <2>2. ent \in Seq(Byte) /\ vas \in Seq(Byte)
      BY <2>1, ConcatFacts
    <2> QED
      BY <2>1, <2>2
  <1> HIDE DEF en, va, ent, vas
  <1>10. /\ Assoc(en, t, f) /\ Assoc(e, n, tf) /\ Assoc(vas, ent, f)
         /\ Assoc(va, s, entf) /\ Assoc(v, a, sentf)
    BY <1>2, <1>4, <1>5, <1>9, <1>16, BytesAssoc
  <1>11. ent \o f = entf
    BY <1>10 DEF Assoc, ent, en, entf, ntf, tf
  <1>12. (vas \o ent) \o f = vas \o entf
    BY <1>10, <1>11 DEF Assoc
  <1>13. vas \o entf = v \o asentf
    BY <1>10 DEF Assoc, vas, va, asentf, sentf
  <1>14. <<4 + 128>> \o a \o s \o (e \o n \o t) \o f = (vas \o ent) \o f
    BY <1>1 DEF vas, va, ent, en
  <1>15. Len(v \o asentf) = 1 + Len(a) + Len(s) + Len(e) + Len(n) + Len(t) + Len(f)
    BY <1>1, <1>2, <1>3, <1>4, <1>5, <1>6, <1>7
  <1> QED
    BY <1>7, <1>8, <1>12, <1>13, <1>14, <1>15 DEF BodySize

\* The length of a body, for all fields.
LEMMA BodySizes ==
  \A a, s, e, n, t, f \in Seq(Byte) : BodySize(a, s, e, n, t, f)
  BY SignedBodyFacts

----------------------------------------------------------------------------
(***************************************************************************)
(* What decode makes of what encode writes, cut short or not.              *)
(***************************************************************************)
\* p is o and v.
Grows(o, v, p) ==
  /\ Len(p) = Len(o) + 1 /\ p[Len(o) + 1] = v
  /\ \A i \in 1..Len(o) : p[i] = o[i]

\* What is put out last is at the end, and nothing else changes.
LEMMA AppendFacts ==
  ASSUME NEW V, NEW o \in Seq(V), NEW v \in V
  PROVE  Append(o, v) \in Seq(V) /\ Grows(o, v, Append(o, v))
  BY DEF Grows

\* The values read, in the order in which they are read.
ThreeOut(a, b, c) == Append(Append(Append(<<>>, a), b), c)
EightOut(a, b, c, d, e, f, g, h) ==
  Append(Append(Append(Append(Append(ThreeOut(a, b, c), d), e), f), g), h)

\* Where the fields are in what is put out.
LEMMA OutFacts ==
  ASSUME NEW a, NEW b, NEW c, NEW d, NEW e, NEW f, NEW g, NEW h
  PROVE  /\ ThreeOut(a, b, c)[3] = c
         /\ EightOut(a, b, c, d, e, f, g, h)[3] = c
         /\ EightOut(a, b, c, d, e, f, g, h)[4] = d
         /\ EightOut(a, b, c, d, e, f, g, h)[5] = e
         /\ EightOut(a, b, c, d, e, f, g, h)[6] = f
         /\ EightOut(a, b, c, d, e, f, g, h)[7] = g
         /\ EightOut(a, b, c, d, e, f, g, h)[8] = h
  <1> DEFINE V == {a, b, c, d, e, f, g, h}
             o0 == <<>>
             o1 == Append(o0, a)
             o2 == Append(o1, b)
             o3 == Append(o2, c)
             o4 == Append(o3, d)
             o5 == Append(o4, e)
             o6 == Append(o5, f)
             o7 == Append(o6, g)
             o8 == Append(o7, h)
  <1>0. a \in V /\ b \in V /\ c \in V /\ d \in V /\ e \in V /\ f \in V /\ g \in V /\ h \in V
    OBVIOUS
  <1>1. o0 \in Seq(V) /\ Len(o0) = 0
    OBVIOUS
  <1> HIDE DEF V, o0
  <1>2. o1 \in Seq(V) /\ Grows(o0, a, o1)
    BY <1>0, <1>1, AppendFacts
  <1> HIDE DEF o1
  <1>3. o2 \in Seq(V) /\ Grows(o1, b, o2)
    BY <1>0, <1>2, AppendFacts
  <1> HIDE DEF o2
  <1>4. o3 \in Seq(V) /\ Grows(o2, c, o3)
    BY <1>0, <1>3, AppendFacts
  <1> HIDE DEF o3
  <1>5. o4 \in Seq(V) /\ Grows(o3, d, o4)
    BY <1>0, <1>4, AppendFacts
  <1> HIDE DEF o4
  <1>6. o5 \in Seq(V) /\ Grows(o4, e, o5)
    BY <1>0, <1>5, AppendFacts
  <1> HIDE DEF o5
  <1>7. o6 \in Seq(V) /\ Grows(o5, f, o6)
    BY <1>0, <1>6, AppendFacts
  <1> HIDE DEF o6
  <1>8. o7 \in Seq(V) /\ Grows(o6, g, o7)
    BY <1>0, <1>7, AppendFacts
  <1> HIDE DEF o7
  <1>9. o8 \in Seq(V) /\ Grows(o7, h, o8)
    BY <1>0, <1>8, AppendFacts
  <1> HIDE DEF o8
  <1>10. Len(o1) = 1 /\ Len(o2) = 2 /\ Len(o3) = 3 /\ o3[3] = c
    BY <1>1, <1>2, <1>3, <1>4 DEF Grows
  <1>11. Len(o4) = 4 /\ o4[3] = c /\ o4[4] = d
    BY <1>10, <1>5 DEF Grows
  <1>12. Len(o5) = 5 /\ o5[3] = c /\ o5[4] = d /\ o5[5] = e
    BY <1>11, <1>6 DEF Grows
  <1>13. Len(o6) = 6 /\ o6[3] = c /\ o6[4] = d /\ o6[5] = e /\ o6[6] = f
    BY <1>12, <1>7 DEF Grows
  <1>14. Len(o7) = 7 /\ o7[3] = c /\ o7[4] = d /\ o7[5] = e /\ o7[6] = f /\ o7[7] = g
    BY <1>13, <1>8 DEF Grows
  <1>15. Len(o8) = 8 /\ o8[3] = c /\ o8[4] = d /\ o8[5] = e /\ o8[6] = f /\ o8[7] = g /\ o8[8] = h
    BY <1>14, <1>9 DEF Grows
  <1>16. o3 = ThreeOut(a, b, c) /\ o8 = EightOut(a, b, c, d, e, f, g, h)
    BY DEF o0, o1, o2, o3, o4, o5, o6, o7, o8, ThreeOut, EightOut
  <1> QED
    BY <1>10, <1>15, <1>16

\* The version byte decides which of the two ways decode goes.
LEMMA VersionStage ==
  ASSUME NEW n, NEW b \in Byte, NEW z, NEW m \in Int, NEW S,
         Stage(S, Append(Append(<<>>, n), <<b>>), z, m), b % 128 = 4
  PROVE  /\ CheckVersion(S) = S
         /\ b >= 128 => {s \in S : IsSigned(s)} = S /\ {s \in S : ~ IsSigned(s)} = {}
         /\ b < 128  => {s \in S : IsSigned(s)} = {} /\ {s \in S : ~ IsSigned(s)} = S
  <1> DEFINE v == <<b>>
             V == {n, v}
             o0 == <<>>
             o1 == Append(o0, n)
             o2 == Append(o1, v)
  <1>0. v[1] = b
    OBVIOUS
  <1> HIDE DEF v
  <1>1. n \in V /\ v \in V /\ o0 \in Seq(V) /\ Len(o0) = 0
    OBVIOUS
  <1> HIDE DEF V, o0
  <1>2. o1 \in Seq(V) /\ Grows(o0, n, o1)
    BY <1>1, AppendFacts
  <1> HIDE DEF o1
  <1>3. o2 \in Seq(V) /\ Grows(o1, v, o2)
    BY <1>1, <1>2, AppendFacts
  <1> HIDE DEF o2
  <1>4. Stage(S, o2, z, m)
    BY DEF o2, o1, o0, v
  <1>5. Last(o2)[1] = b
    BY <1>0, <1>1, <1>2, <1>3 DEF Last, Grows
  <1>6. \A s \in S : s.out = o2
    BY <1>4 DEF Stage, State
  <1>7. \A s \in S : Last(s.out)[1] = b
    BY <1>5, <1>6
  <1>8. CheckVersion(S) = S
    BY <1>7 DEF CheckVersion
  <1>9. \A s \in S : IsSigned(s) <=> b >= 128
    BY <1>7 DEF IsSigned
  <1>10. b < 128 <=> ~ (b >= 128)
    BY DEF Byte
  <1> QED
    BY <1>8, <1>9, <1>10

\* All fields read: all of the input was needed.
LEMMA LastStage ==
  ASSUME NEW S, NEW o, NEW m \in Int, Stage(S, o, <<>>, m)
  PROVE  m <= 0 /\ S = IF m = 0 THEN {State(o, <<>>)} ELSE {}
  <1>1. CASE m < 0
    BY <1>1 DEF Stage
  <1>2. CASE m >= 0
    <2>1. PICK p : S = {State(o, p)} /\ Begins(p, <<>>) /\ Len(p) = m
      BY <1>2 DEF Stage
    <2>2. p \in Seq(Byte) /\ Len(p) <= 0
      BY <2>1 DEF Begins
    <2>3. p = <<>> /\ m = 0
      BY <2>1, <2>2
    <2> QED
      BY <2>1, <2>3
  <1> QED
    BY <1>1, <1>2

\* Before anything is read, all of it is left.
LEMMA FirstStage ==
  ASSUME NEW w, NEW s, Begins(w, s)
  PROVE  Stage(Start(w), <<>>, s, Len(w))
  <1>1. w \in Seq(Byte) /\ Len(w) >= 0
    BY DEF Begins
  <1>2. Start(w) = {State(<<>>, w)}
    BY DEF Start, State
  <1> QED
    BY <1>1, <1>2 DEF Stage

\* Nothing at the end changes nothing.
LEMMA ConcatEmpty ==
  ASSUME NEW S, NEW a \in Seq(S)
  PROVE  a \o <<>> = a
  OBVIOUS

\* The states after the length and the version, and what is made of the last ones.
Header(w)   == CheckVersion(Bytes(1, DecodeCompact(Start(w))))
BareOnes(w) == {s \in Header(w) : ~ IsSigned(s)}
SignedOnes(w) == {s \in Header(w) : IsSigned(s)}
BareOf(s)   == [signature |-> <<>>, function |-> s.out[3]]
SignedOf(s) == [signature |-> <<[account |-> s.out[3], scheme |-> s.out[4].scheme,
                                 n |-> s.out[4].n,
                                 extra |-> [era |-> s.out[5], nonce |-> s.out[6],
                                            tip |-> s.out[7]]]>>,
                function |-> s.out[8]]

\* decode goes the way of unsigned extrinsics, or the way of signed ones.
LEMMA DecodeTwoWays ==
  ASSUME NEW w, NEW n
  PROVE  decode(w, n) =
           {BareOf(s) : s \in Bytes(n, BareOnes(w))}
             \cup {SignedOf(s) :
                     s \in Bytes(n, DecodeExtra(DecodeSignature(DecodeAddress(SignedOnes(w)))))}
  BY DEF decode, Header, BareOnes, SignedOnes, BareOf, SignedOf

\* Behind length and version, only one of the two ways goes on.
LEMMA HeaderStage ==
  ASSUME NEW n \in U32s, NEW b \in Byte, b % 128 = 4, NEW z \in Seq(Byte),
         NEW w, Begins(w, Compact(n) \o (<<b>> \o z))
  PROVE  LET o == Append(Append(<<>>, n), <<b>>)
             m == Len(w) - Len(Compact(n)) - 1
         IN /\ b >= 128 => Stage(SignedOnes(w), o, z, m) /\ BareOnes(w) = {}
            /\ b < 128  => Stage(BareOnes(w), o, z, m) /\ SignedOnes(w) = {}
  <1> DEFINE v == <<b>>
             vz == v \o z
             c == Compact(n)
             o1 == Append(<<>>, n)
             o2 == Append(o1, v)
             S0 == Start(w)
             S1 == DecodeCompact(S0)
             S2 == Bytes(1, S1)
  <1>1. v \in Seq(Byte) /\ Len(v) = 1
    OBVIOUS
  <1>2. v \in Seq(Byte)
    BY <1>1
  <1>3. Begins(w, c \o vz)
    OBVIOUS
  <1> HIDE DEF v
  <1>4. vz \in Seq(Byte)
    BY <1>2, ConcatFacts
  <1>5. Len(w) \in Int /\ Len(c) \in Int
    <2>1. w \in Seq(Byte)
      BY DEF Begins
    <2>2. c \in Seq(Byte)
      BY CompactFacts
    <2> HIDE DEF c
    <2> QED
      BY <2>1, <2>2
  <1>6. Stage(S0, <<>>, c \o vz, Len(w))
    BY <1>3, FirstStage
  <1> HIDE DEF S0, vz
  <1>7. Stage(S1, o1, vz, Len(w) - Len(c))
    BY <1>4, <1>5, <1>6, CompactStage
  <1> HIDE DEF S1, c, o1
  <1>8. Stage(Bytes(Len(v), S1), o2, z, (Len(w) - Len(c)) - Len(v))
    <2>1. Stage(S1, o1, v \o z, Len(w) - Len(c))
      BY <1>7 DEF vz
    <2>2. Len(w) - Len(c) \in Int
      BY <1>5
    <2> QED
      BY <1>2, <2>1, <2>2, BytesStage
  <1>9. Stage(S2, o2, z, Len(w) - Len(c) - 1)
    BY <1>1, <1>8
  <1> DEFINE m == Len(w) - Len(c) - 1
  <1>10. m \in Int
    BY <1>5
  <1> HIDE DEF S2, m
  <1>11. Stage(S2, Append(Append(<<>>, n), <<b>>), z, m)
    BY <1>9 DEF o2, o1, v, m
  <1>12. /\ CheckVersion(S2) = S2
         /\ b >= 128 => {s \in S2 : IsSigned(s)} = S2 /\ {s \in S2 : ~ IsSigned(s)} = {}
         /\ b < 128  => {s \in S2 : IsSigned(s)} = {} /\ {s \in S2 : ~ IsSigned(s)} = S2
    BY <1>10, <1>11, VersionStage
  <1>13. Header(w) = S2
    BY <1>12 DEF Header, S2, S1, S0
  <1>14. /\ b >= 128 => SignedOnes(w) = S2 /\ BareOnes(w) = {}
         /\ b < 128  => SignedOnes(w) = {} /\ BareOnes(w) = S2
    BY <1>12, <1>13 DEF SignedOnes, BareOnes
  <1> QED
    BY <1>11, <1>14 DEF m, c

\* What decode makes of an unsigned extrinsic: nothing, unless it is whole.
LEMMA DecodesUnsigned ==
  ASSUME NEW f \in Seq(Byte), NEW n \in U32s,
         NEW w, Begins(w, Compact(n) \o (<<Bare>> \o f))
  PROVE  decode(w, Len(f)) =
           IF Len(w) = Len(Compact(n) \o (<<Bare>> \o f))
             THEN {[signature |-> <<>>, function |-> f]} ELSE {}
  <1> DEFINE o2 == Append(Append(<<>>, n), <<Bare>>)
             o3 == Append(o2, f)
             c == Compact(n)
             e == <<>>
             m == Len(w) - Len(c) - 1
             B == Bytes(Len(f), BareOnes(w))
  <1>1. Bare \in Byte /\ Bare % 128 = 4 /\ Bare < 128
    BY DEF Bare, Byte
  <1>2. Stage(BareOnes(w), o2, f, m) /\ SignedOnes(w) = {}
    BY <1>1, HeaderStage
  <1>3. w \in Seq(Byte)
    BY DEF Begins
  <1>4. c \in Seq(Byte)
    BY CompactFacts
  <1>5. Len(c \o (<<Bare>> \o f)) = Len(c) + 1 + Len(f)
    <2>1. <<Bare>> \o f \in Seq(Byte) /\ Len(<<Bare>> \o f) = 1 + Len(f)
      BY <1>1, FirstThen
    <2> DEFINE vf == <<Bare>> \o f
    <2> HIDE DEF vf, c
    <2>2. Len(c \o vf) = Len(c) + Len(vf)
      BY <1>4, <2>1, ConcatFacts DEF vf
    <2> QED
      BY <1>4, <2>1, <2>2 DEF vf
  <1>6. m \in Int
    <2> HIDE DEF c
    <2> QED
      BY <1>3, <1>4
  <1>7. e \in Seq(Byte) /\ f \o e = f
    BY ConcatEmpty
  <1> HIDE DEF m, o2, e
  <1>8. Stage(B, o3, e, m - Len(f))
    BY <1>2, <1>6, <1>7, BytesStage
  <1>9. B = IF m - Len(f) = 0 THEN {State(o3, <<>>)} ELSE {}
    <2>1. m - Len(f) \in Int
      BY <1>6
    <2> HIDE DEF B, o3
    <2> QED
      BY <1>8, <2>1, LastStage DEF e
  <1>10. Bytes(Len(f), DecodeExtra(DecodeSignature(DecodeAddress(SignedOnes(w))))) = {}
    BY <1>2, NothingDecoded DEF DecodeExtra
  <1>11. BareOf(State(o3, <<>>)) = [signature |-> <<>>, function |-> f]
    <2>1. o3[3] = f
      BY OutFacts DEF o2, ThreeOut
    <2> HIDE DEF o3
    <2> QED
      BY <2>1 DEF BareOf, State
  <1> DEFINE x == [signature |-> <<>>, function |-> f]
  <1> HIDE DEF o3, B, x
  <1>12. decode(w, Len(f)) = {BareOf(s) : s \in B}
    BY <1>10, DecodeTwoWays DEF B
  <1>13. decode(w, Len(f)) = IF m - Len(f) = 0 THEN {x} ELSE {}
    BY <1>9, <1>11, <1>12 DEF x
  <1>14. m - Len(f) = 0 <=> Len(w) = Len(c) + 1 + Len(f)
    <2> HIDE DEF c
    <2> QED
      BY <1>3, <1>4 DEF m
  <1> QED
    BY <1>5, <1>13, <1>14 DEF x

\* The fields of a signed extrinsic after the version.
LEMMA SignedStages ==
  ASSUME NEW account \in Byte, NEW c \in DOMAIN Index, NEW k \in Byte, NEW era \in Eras,
         NEW nonce \in U32s, NEW tip \in U32s, NEW f \in Seq(Byte),
         NEW S, NEW o, NEW m \in Int,
         Stage(S, o, Address(account) \o (Signature(c, k) \o
                       (Era(era) \o (Compact(nonce) \o (Compact(tip) \o f)))), m)
  PROVE  LET T == Bytes(Len(f), DecodeExtra(DecodeSignature(DecodeAddress(S))))
             p == Append(Append(Append(Append(Append(Append(o, account),
                    [scheme |-> c, n |-> k]), era), nonce), tip), f)
             l == Len(Address(account)) + Len(Signature(c, k)) + Len(Era(era))
                    + Len(Compact(nonce)) + Len(Compact(tip)) + Len(f)
         IN T = IF m = l THEN {State(p, <<>>)} ELSE {}
  <1> DEFINE a == Address(account)
             s == Signature(c, k)
             e == Era(era)
             n == Compact(nonce)
             t == Compact(tip)
             g == [scheme |-> c, n |-> k]
             z5 == t \o f
             z4 == n \o z5
             z3 == e \o z4
             z2 == s \o z3
             o1 == Append(o, account)
             o2 == Append(o1, g)
             o3 == Append(o2, era)
             o4 == Append(o3, nonce)
             o5 == Append(o4, tip)
             o6 == Append(o5, f)
             m1 == m - Len(a)
             m2 == m1 - Len(s)
             m3 == m2 - Len(e)
             m4 == m3 - Len(n)
             m5 == m4 - Len(t)
             m6 == m5 - Len(f)
             S1 == DecodeAddress(S)
             S2 == DecodeSignature(S1)
             S3 == DecodeEra(S2)
             S4 == DecodeCompact(S3)
             S5 == DecodeCompact(S4)
             S6 == Bytes(Len(f), S5)
  <1>0. Stage(S, o, a \o z2, m)
    OBVIOUS
  <1>1. a \in Seq(Byte) /\ s \in Seq(Byte) /\ e \in Seq(Byte) /\ n \in Seq(Byte) /\ t \in Seq(Byte)
    BY AddressFacts, SignatureFacts, EraFacts, CompactFacts
  <1> HIDE DEF a, s, e, n, t
  <1>2. z5 \in Seq(Byte)
    BY <1>1, ConcatFacts
  <1> HIDE DEF z5
  <1>3. z4 \in Seq(Byte)
    BY <1>1, <1>2, ConcatFacts
  <1> HIDE DEF z4
  <1>4. z3 \in Seq(Byte)
    BY <1>1, <1>3, ConcatFacts
  <1> HIDE DEF z3
  <1>5. z2 \in Seq(Byte)
    BY <1>1, <1>4, ConcatFacts
  <1> HIDE DEF z2
  <1>6. /\ m1 \in Int /\ m2 \in Int /\ m3 \in Int /\ m4 \in Int /\ m5 \in Int /\ m6 \in Int
        /\ m6 = m - (Len(a) + Len(s) + Len(e) + Len(n) + Len(t) + Len(f))
    <2>1. Len(a) \in Nat /\ Len(s) \in Nat /\ Len(e) \in Nat /\ Len(n) \in Nat /\ Len(t) \in Nat
          /\ Len(f) \in Nat
      BY <1>1
    <2> QED
      BY <2>1
  <1>7. Stage(S1, o1, z2, m1)
    BY <1>0, <1>5, AddressStage DEF a
  <1> HIDE DEF S1, o1, m1
  <1>8. Stage(S2, o2, z3, m2)
    <2>1. Stage(S1, o1, Signature(c, k) \o z3, m1)
      BY <1>7 DEF z2, s
    <2>2. Stage(S2, o2, z3, m1 - Len(Signature(c, k)))
      BY <1>4, <1>6, <2>1, SignatureStage
    <2> QED
      BY <2>2 DEF s
  <1> HIDE DEF S2, o2, m2, g
  <1>9. Stage(S3, o3, z4, m3)
    <2>1. Stage(S2, o2, Era(era) \o z4, m2)
      BY <1>8 DEF z3, e
    <2>2. Stage(S3, o3, z4, m2 - Len(Era(era)))
      BY <1>3, <1>6, <2>1, EraStage
    <2> QED
      BY <2>2 DEF e
  <1> HIDE DEF S3, o3, m3
  <1>10. Stage(S4, o4, z5, m4)
    <2>1. Stage(S3, o3, Compact(nonce) \o z5, m3)
      BY <1>9 DEF z4, n
    <2>2. Stage(S4, o4, z5, m3 - Len(Compact(nonce)))
      BY <1>2, <1>6, <2>1, CompactStage
    <2> QED
      BY <2>2 DEF n
  <1> HIDE DEF S4, o4, m4
  <1>11. Stage(S5, o5, f, m5)
    <2>1. Stage(S4, o4, Compact(tip) \o f, m4)
      BY <1>10 DEF z5, t
    <2>2. Stage(S5, o5, f, m4 - Len(Compact(tip)))
      BY <1>6, <2>1, CompactStage
    <2> QED
      BY <2>2 DEF t
  <1> HIDE DEF S5, o5, m5
  <1>12. Stage(S6, o6, <<>>, m6)
    <2> DEFINE y == <<>>
    <2>1. y \in Seq(Byte) /\ f \o y = f
      BY ConcatEmpty
    <2> HIDE DEF y
    <2>2. Stage(S6, o6, y, m6)
      BY <1>6, <1>11, <2>1, BytesStage
    <2> QED
      BY <2>2 DEF y
  <1> HIDE DEF S6, o6, m6
  <1>13. S6 = IF m6 = 0 THEN {State(o6, <<>>)} ELSE {}
    BY <1>6, <1>12, LastStage
  <1>14. m6 = 0 <=> m = Len(a) + Len(s) + Len(e) + Len(n) + Len(t) + Len(f)
    <2>1. Len(a) \in Nat /\ Len(s) \in Nat /\ Len(e) \in Nat /\ Len(n) \in Nat /\ Len(t) \in Nat
          /\ Len(f) \in Nat
      BY <1>1
    <2> QED
      BY <1>6, <2>1
  <1>15. S6 = Bytes(Len(f), DecodeExtra(DecodeSignature(DecodeAddress(S))))
    BY DEF S6, S5, S4, S3, S2, S1, DecodeExtra
  <1>16. o6 = Append(Append(Append(Append(Append(Append(o, account),
                [scheme |-> c, n |-> k]), era), nonce), tip), f)
    BY DEF o6, o5, o4, o3, o2, o1, g
  <1>17. S6 = IF m = Len(a) + Len(s) + Len(e) + Len(n) + Len(t) + Len(f)
                THEN {State(o6, <<>>)} ELSE {}
    BY <1>13, <1>14
  <1> QED
    BY <1>15, <1>16, <1>17, Zenon DEF a, s, e, n, t

\* An extrinsic with a signature.
XtOf(account, c, k, era, nonce, tip, f) ==
  [signature |-> <<[account |-> account, scheme |-> c, n |-> k,
                    extra |-> [era |-> era, nonce |-> nonce, tip |-> tip]]>>,
   function |-> f]

BodyOf(account, c, k, era, nonce, tip, f) ==
  SignedBody(Address(account), Signature(c, k), Era(era), Compact(nonce), Compact(tip), f)

\* What decode makes of a signed extrinsic: nothing, unless it is whole.
LEMMA DecodesSigned ==
  ASSUME NEW account \in Byte, NEW c \in DOMAIN Index, NEW k \in Byte, NEW era \in Eras,
         NEW nonce \in U32s, NEW tip \in U32s, NEW f \in Seq(Byte), NEW l \in U32s, NEW w,
         Begins(w, Compact(l) \o BodyOf(account, c, k, era, nonce, tip, f))
  PROVE  decode(w, Len(f)) =
           IF Len(w) = Len(Compact(l) \o BodyOf(account, c, k, era, nonce, tip, f))
             THEN {XtOf(account, c, k, era, nonce, tip, f)} ELSE {}
  <1> DEFINE a == Address(account)
             s == Signature(c, k)
             e == Era(era)
             n == Compact(nonce)
             t == Compact(tip)
             z == a \o (s \o (e \o (n \o (t \o f))))
             h == Compact(l)
             b == BodyOf(account, c, k, era, nonce, tip, f)
             g == [scheme |-> c, n |-> k]
             o2 == Append(Append(<<>>, l), <<Signed>>)
             o8 == Append(Append(Append(Append(Append(Append(o2, account), g), era), nonce), tip), f)
             m == Len(w) - Len(h) - 1
             r == Len(a) + Len(s) + Len(e) + Len(n) + Len(t) + Len(f)
             T == Bytes(Len(f), DecodeExtra(DecodeSignature(DecodeAddress(SignedOnes(w)))))
             x == XtOf(account, c, k, era, nonce, tip, f)
  <1>1. Signed \in Byte /\ Signed % 128 = 4 /\ Signed >= 128
    BY DEF Signed, Byte
  <1>2. /\ a \in Seq(Byte) /\ s \in Seq(Byte) /\ e \in Seq(Byte) /\ n \in Seq(Byte) /\ t \in Seq(Byte)
        /\ h \in Seq(Byte)
    BY AddressFacts, SignatureFacts, EraFacts, CompactFacts
  <1>3. b = <<Signed>> \o z
    BY DEF BodyOf, SignedBody
  <1>4. b \in Seq(Byte) /\ Len(b) = 1 + r
    <2>1. b = SignedBody(a, s, e, n, t, f)
      BY DEF BodyOf
    <2> HIDE DEF a, s, e, n, t, b
    <2>2. BodySize(a, s, e, n, t, f)
      BY <1>2, BodySizes, Zenon
    <2>3. /\ SignedBody(a, s, e, n, t, f) \in Seq(Byte)
          /\ Len(SignedBody(a, s, e, n, t, f)) =
              1 + Len(a) + Len(s) + Len(e) + Len(n) + Len(t) + Len(f)
      BY <2>2 DEF BodySize
    <2> QED
      BY <1>2, <2>1, <2>3
  <1>5. z \in Seq(Byte)
    <2> HIDE DEF a, s, e, n, t
    <2>1. t \o f \in Seq(Byte)
      BY <1>2, ConcatFacts
    <2>2. n \o (t \o f) \in Seq(Byte)
      BY <1>2, <2>1, ConcatFacts
    <2>3. e \o (n \o (t \o f)) \in Seq(Byte)
      BY <1>2, <2>2, ConcatFacts
    <2>4. s \o (e \o (n \o (t \o f))) \in Seq(Byte)
      BY <1>2, <2>3, ConcatFacts
    <2> QED
      BY <1>2, <2>4, ConcatFacts
  <1>6. w \in Seq(Byte) /\ Begins(w, h \o (<<Signed>> \o z))
    BY <1>3 DEF Begins
  <1> HIDE DEF z, b
  <1>7. Stage(SignedOnes(w), o2, z, m) /\ BareOnes(w) = {}
    BY <1>1, <1>5, <1>6, HeaderStage
  <1> HIDE DEF o2
  <1>8. m \in Int
    <2> HIDE DEF h
    <2> QED
      BY <1>2, <1>6
  <1> HIDE DEF m
  <1>9. T = IF m = r THEN {State(o8, <<>>)} ELSE {}
    <2>1. Stage(SignedOnes(w), o2, Address(account) \o (Signature(c, k) \o
                       (Era(era) \o (Compact(nonce) \o (Compact(tip) \o f)))), m)
      BY <1>7 DEF z
    <2> QED
      BY <1>8, <2>1, SignedStages
  <1>10. Bytes(Len(f), BareOnes(w)) = {}
    BY <1>7, NothingDecoded
  <1>11. SignedOf(State(o8, <<>>)) = x
    <2> DEFINE v == <<Signed>>
    <2>1. o8 = EightOut(l, v, account, g, era, nonce, tip, f)
      BY DEF o2, EightOut, ThreeOut
    <2>3. g.scheme = c /\ g.n = k
      OBVIOUS
    <2> HIDE DEF o8, g, v
    <2>2. /\ o8[3] = account /\ o8[4] = g /\ o8[5] = era /\ o8[6] = nonce /\ o8[7] = tip
          /\ o8[8] = f
      BY <2>1, OutFacts
    <2>4. State(o8, <<>>).out = o8
      BY DEF State
    <2> QED
      BY <2>2, <2>3, <2>4 DEF SignedOf, XtOf
  <1> HIDE DEF o8, T, x, r
  <1>12. decode(w, Len(f)) = {SignedOf(q) : q \in T}
    BY <1>10, DecodeTwoWays DEF T
  <1>13. decode(w, Len(f)) = IF m = r THEN {x} ELSE {}
    BY <1>9, <1>11, <1>12
  <1>14. m = r <=> Len(w) = Len(h \o b)
    <2> HIDE DEF h, a, s, e, n, t
    <2>1. Len(h \o b) = Len(h) + Len(b)
      BY <1>2, <1>4, ConcatFacts
    <2>2. r \in Nat
      BY <1>2 DEF r
    <2> QED
      BY <1>2, <1>4, <1>6, <2>1, <2>2 DEF m
  <1> QED
    BY <1>13, <1>14 DEF x, h, b

----------------------------------------------------------------------------
(***************************************************************************)
(* An extrinsic, encoded and decoded.                                      *)
(***************************************************************************)
BareXt(f) == [signature |-> <<>>, function |-> f]

\* The extrinsics with the call f that a program may compose.
Composed(x, f) ==
  \/ x = BareXt(f)
  \/ \E account \in Byte, c \in DOMAIN Index, era \in Eras, nonce \in U32s :
       x = XtOf(account, c, 1, era, nonce, 0, f)

\* The length of the call leaves room for the other fields.
LEMMA CallFacts ==
  ASSUME NEW f \in Calls
  PROVE  f \in Seq(Byte) /\ f # <<>>
  BY SMT DEF Calls

\* The length of an extrinsic has 32 bits.
LEMMA LengthFits ==
  ASSUME NEW f \in Calls, NEW l \in Nat, l <= Len(f) + 200
  PROVE  l \in U32s
  <1>1. Len(f) \in Nat /\ Len(f) \div 65536 < 65535
    BY SMT DEF Calls
  <1> QED
    BY <1>1, SMT DEF U32s

\* x is encoded as the length of its body and the body.
EncodedAs(x, body) ==
  /\ body \in Seq(Byte) /\ Len(body) \in U32s
  /\ encode(x) = Compact(Len(body)) \o body

\* What encode makes of an unsigned extrinsic, whatever is reserved for the
\* prefix.
LEMMA EncodesUnsigned ==
  ASSUME NEW f \in Calls, job.size \in Nat
  PROVE  EncodedAs(BareXt(f), <<Bare>> \o f)
  <1> DEFINE b == <<Bare>> \o f
  <1>1. f \in Seq(Byte) /\ Bare \in Byte /\ Bare = 4
    BY CallFacts DEF Bare, Byte
  <1>2. b \in Seq(Byte) /\ Len(b) = 1 + Len(f)
    BY <1>1, FirstThen
  <1>3. Len(b) \in U32s
    <2> HIDE DEF b
    <2>1. Len(f) \in Nat /\ Len(b) \in Nat
      BY <1>1, <1>2
    <2>2. Len(b) <= Len(f) + 200
      BY <1>2, <2>1
    <2> QED
      BY <2>1, <2>2, LengthFits
  <1>4. encode(BareXt(f)) = encode_with_vec_prefix(job.size, b)
    BY <1>1 DEF encode, BareXt
  <1> HIDE DEF b
  <1>5. encode(BareXt(f)) = Compact(Len(b)) \o b
    BY <1>2, <1>4, PrefixSplice
  <1> QED
    BY <1>2, <1>3, <1>5 DEF b, EncodedAs

\* What encode makes of a signed extrinsic, whatever is reserved for the
\* prefix.
LEMMA EncodesSigned ==
  ASSUME NEW account \in Byte, NEW c \in DOMAIN Index, NEW k \in Byte, NEW era \in Eras,
         NEW nonce \in U32s, NEW tip \in U32s, NEW f \in Calls, job.size \in Nat
  PROVE  EncodedAs(XtOf(account, c, k, era, nonce, tip, f),
                   BodyOf(account, c, k, era, nonce, tip, f))
  <1> DEFINE a == Address(account)
             s == Signature(c, k)
             e == Era(era)
             n == Compact(nonce)
             t == Compact(tip)
             x == XtOf(account, c, k, era, nonce, tip, f)
             b == BodyOf(account, c, k, era, nonce, tip, f)
             raw == <<4 + 128>> \o a \o s \o (e \o n \o t) \o f
  <1>0. f \in Seq(Byte)
    BY CallFacts
  <1>1. a \in Seq(Byte) /\ s \in Seq(Byte) /\ e \in Seq(Byte) /\ n \in Seq(Byte) /\ t \in Seq(Byte)
    BY AddressFacts, SignatureFacts, EraFacts, CompactFacts
  <1>2. Len(a) <= 33 /\ Len(s) <= 66 /\ Len(e) <= 2 /\ Len(n) <= 5 /\ Len(t) <= 5
    <2>1. Len(a) = 33
      BY AddressFacts
    <2>2. Len(s) = Size[c] + 1 /\ Size[c] \in {64, 65}
      BY SignatureFacts
    <2>3. Len(e) \in {1, 2}
      BY EraFacts
    <2>4. Len(n) \in {1, 2, 4, 5} /\ Len(t) \in {1, 2, 4, 5}
      BY CompactFacts
    <2> HIDE DEF a, s, e, n, t
    <2>5. Len(a) <= 33
      BY <2>1
    <2>6. Len(s) <= 66
      BY <2>2
    <2>9. (\A i \in {1, 2} : i <= 2) /\ (\A i \in {1, 2, 4, 5} : i <= 5)
      OBVIOUS
    <2>7. Len(e) <= 2
      BY <2>3, <2>9, Zenon
    <2>8. Len(n) <= 5 /\ Len(t) <= 5
      BY <2>4, <2>9, Zenon
    <2> QED
      BY <2>5, <2>6, <2>7, <2>8
  <1>3. b = SignedBody(a, s, e, n, t, f)
    BY DEF BodyOf
  <1>4. encode(x) = encode_with_vec_prefix(job.size, raw)
    <2> DEFINE extra == [era |-> era, nonce |-> nonce, tip |-> tip]
               g == [account |-> account, scheme |-> c, n |-> k, extra |-> extra]
    <2>1. x.signature = <<g>> /\ x.function = f
      BY DEF XtOf
    <2>2. x.signature # <<>> /\ x.signature[1] = g
      BY <2>1
    <2>3. g.account = account /\ g.scheme = c /\ g.n = k /\ g.extra = extra
      OBVIOUS
    <2>4. EncodeExtra(extra) = e \o n \o t
      BY DEF EncodeExtra
    <2> HIDE DEF x, g, extra
    <2> QED
      BY <2>1, <2>2, <2>3, <2>4, Zenon DEF encode
  <1> HIDE DEF a, s, e, n, t, b, x
  <1>5. raw = SignedBody(a, s, e, n, t, f) /\ BodySize(a, s, e, n, t, f)
    BY <1>0, <1>1, SignedBodyFacts
  <1> HIDE DEF raw
  <1>6. b \in Seq(Byte) /\ Len(b) = 1 + Len(a) + Len(s) + Len(e) + Len(n) + Len(t) + Len(f)
    BY <1>3, <1>5 DEF BodySize
  <1>7. Len(b) \in U32s
    <2>1. Len(f) \in Nat /\ Len(b) \in Nat
      BY <1>0, <1>6
    <2>3. Len(a) \in Nat /\ Len(s) \in Nat /\ Len(e) \in Nat /\ Len(n) \in Nat /\ Len(t) \in Nat
      BY <1>1
    <2>2. Len(b) <= Len(f) + 200
      BY <1>2, <1>6, <2>1, <2>3
    <2> QED
      BY <2>1, <2>2, LengthFits
  <1>8. encode(x) = Compact(Len(b)) \o b
    BY <1>3, <1>4, <1>5, <1>6, PrefixSplice
  <1> QED
    BY <1>6, <1>7, <1>8 DEF EncodedAs, x, b

\* The prefix of an encoded extrinsic counts what follows.
LEMMA PrefixRead ==
  ASSUME NEW x, NEW body, EncodedAs(x, body)
  PROVE  /\ encode(x) \in Seq(Byte) /\ Len(encode(x)) >= 1
         /\ \E s \in DecodeCompact(Start(encode(x))) : s.out[1] = Len(s.rest)
  <1> DEFINE l == Len(body)
             c == Compact(l)
             w == encode(x)
             S == DecodeCompact(Start(w))
             o0 == <<>>
             o1 == Append(o0, l)
  <1>1. body \in Seq(Byte) /\ l \in U32s /\ w = c \o body
    BY DEF EncodedAs
  <1>2. c \in Seq(Byte) /\ Len(c) >= 1
    BY <1>1, CompactFacts
  <1>3. w \in Seq(Byte) /\ Len(w) = Len(c) + l
    <2> HIDE DEF c, w
    <2> QED
      BY <1>1, <1>2, ConcatFacts
  <1>4. Begins(w, c \o body)
    <2> HIDE DEF c, w
    <2> QED
      BY <1>1, <1>3 DEF Begins
  <1>5. Stage(Start(w), o0, c \o body, Len(w))
    BY <1>4, FirstStage
  <1>6. Len(w) \in Int
    BY <1>3
  <1>7. Stage(S, o1, body, Len(w) - Len(c))
    <2> HIDE DEF w, o0
    <2> QED
      BY <1>1, <1>5, <1>6, CompactStage
  <1>8. Len(w) - Len(c) = l /\ l >= 0
    <2> HIDE DEF w, c
    <2> QED
      BY <1>1, <1>2, <1>3
  <1> HIDE DEF S, w, c
  <1>9. PICK p : S = {State(o1, p)} /\ Len(p) = l
    BY <1>7, <1>8 DEF Stage
  <1>10. o1[1] = l
    <2> HIDE DEF l
    <2> QED
      OBVIOUS
  <1>11. \E s \in S : s.out[1] = Len(s.rest)
    <2> HIDE DEF o1
    <2>1. State(o1, p).out = o1 /\ State(o1, p).rest = p
      BY DEF State
    <2> QED
      BY <1>9, <1>10, <2>1
  <1>12. Len(w) >= 1
    BY <1>1, <1>2, <1>3
  <1> QED
    BY <1>3, <1>11, <1>12 DEF S, w

\* Decoding gives back what was encoded, and nothing if anything is missing.
RoundTrip(x, f) ==
  \A w : Begins(w, encode(x)) =>
    decode(w, Len(f)) = IF Len(w) = Len(encode(x)) THEN {x} ELSE {}

\* An extrinsic that was composed comes back from its encoding, and from no
\* part of it.
LEMMA ComposedRoundTrip ==
  ASSUME NEW f \in Calls, job.size \in Nat, NEW x, Composed(x, f)
  PROVE  RoundTrip(x, f) /\ \E body : EncodedAs(x, body)
  <1>0. f \in Seq(Byte)
    BY CallFacts
  <1>1. CASE x = BareXt(f)
    <2> DEFINE b == <<Bare>> \o f
    <2>1. EncodedAs(x, b)
      BY <1>1, EncodesUnsigned
    <2>2. Len(b) \in U32s /\ encode(x) = Compact(Len(b)) \o b
      BY <2>1 DEF EncodedAs
    <2>3. ASSUME NEW w, Begins(w, encode(x))
          PROVE  decode(w, Len(f)) = IF Len(w) = Len(encode(x)) THEN {x} ELSE {}
      <3> DEFINE l == Len(b)
      <3>1. Begins(w, Compact(l) \o (<<Bare>> \o f)) /\ l \in U32s
        BY <2>2, <2>3
      <3> HIDE DEF l
      <3>2. decode(w, Len(f)) =
              IF Len(w) = Len(Compact(l) \o (<<Bare>> \o f)) THEN {BareXt(f)} ELSE {}
        BY <1>0, <3>1, DecodesUnsigned DEF BareXt
      <3> QED
        BY <1>1, <2>2, <3>2, Zenon DEF l
    <2> QED
      BY <2>1, <2>3 DEF RoundTrip
  <1>2. CASE x # BareXt(f)
    <2>1. PICK account \in Byte, c \in DOMAIN Index, era \in Eras, nonce \in U32s :
             x = XtOf(account, c, 1, era, nonce, 0, f)
      BY <1>2 DEF Composed
    <2> DEFINE b == BodyOf(account, c, 1, era, nonce, 0, f)
               l == Len(b)
    <2>2. 1 \in Byte /\ 0 \in U32s
      BY SMT DEF Byte, U32s
    <2>3. EncodedAs(x, b)
      BY <2>1, <2>2, EncodesSigned
    <2>4. l \in U32s /\ encode(x) = Compact(l) \o b
      BY <2>3 DEF EncodedAs
    <2>5. ASSUME NEW w, Begins(w, encode(x))
          PROVE  decode(w, Len(f)) = IF Len(w) = Len(encode(x)) THEN {x} ELSE {}
      <3> HIDE DEF l
      <3>1. Begins(w, Compact(l) \o b)
        BY <2>4, <2>5
      <3> QED
        BY <1>0, <2>1, <2>2, <2>4, <3>1, DecodesSigned
    <2> QED
      BY <2>3, <2>5 DEF RoundTrip
  <1> QED
    BY <1>1, <1>2

----------------------------------------------------------------------------
(***************************************************************************)
(* Hex text.                                                               *)
(***************************************************************************)
Chars == Range(Hex) \cup {"x"}

HexDigit(c) == (CHOOSE d \in 1..16 : Hex[d] = c) - 1

\* The i-th digit of bytes.
Nibble(bytes, i) ==
  LET b == bytes[(i + 1) \div 2] IN IF i % 2 = 1 THEN b \div 16 ELSE b % 16

HexOf(bytes) == <<"0", "x">> \o [i \in 1..(2 * Len(bytes)) |-> Hex[Nibble(bytes, i) + 1]]

\* Different digits are different characters.
LEMMA HexFacts ==
  /\ \A d \in 1..16 : Hex[d] \in Chars
  /\ \A d, e \in 1..16 : Hex[d] = Hex[e] => d = e
  /\ "0" \in Chars /\ "x" \in Chars
  <1>1. DOMAIN Hex = 1..16
    BY DEF Hex
  <1>2. Range(Hex) = {Hex[d] : d \in 1..16}
    BY <1>1 DEF Range
  <1>3. \A d \in 1..16 : Hex[d] \in Chars
    BY <1>2 DEF Chars
  <1>4. Hex[1] = "0"
    BY DEF Hex
  <1>5. ASSUME NEW d \in 1..16, NEW e \in 1..16, Hex[d] = Hex[e] PROVE d = e
    <2>1. /\ Hex[1] = "0" /\ Hex[2] = "1" /\ Hex[3] = "2" /\ Hex[4] = "3" /\ Hex[5] = "4"
          /\ Hex[6] = "5" /\ Hex[7] = "6" /\ Hex[8] = "7" /\ Hex[9] = "8" /\ Hex[10] = "9"
          /\ Hex[11] = "a" /\ Hex[12] = "b" /\ Hex[13] = "c" /\ Hex[14] = "d"
          /\ Hex[15] = "e" /\ Hex[16] = "f"
      BY DEF Hex
    <2> QED
      BY <1>5, <2>1, SMTT(30)
  <1>6. "0" \in Chars
    BY <1>3, <1>4
  <1> QED
    BY <1>3, <1>5, <1>6 DEF Chars

\* A digit comes back from its character.
LEMMA DigitFacts ==
  ASSUME NEW d \in 0..15
  PROVE  HexDigit(Hex[d + 1]) = d /\ Hex[d + 1] \in Chars
  <1>1. d + 1 \in 1..16
    OBVIOUS
  <1> DEFINE c == Hex[d + 1]
             e == CHOOSE y \in 1..16 : Hex[y] = c
  <1>2. e \in 1..16 /\ Hex[e] = c
    BY <1>1
  <1>3. e = d + 1
    BY <1>1, <1>2, HexFacts
  <1>4. HexDigit(c) = e - 1
    BY DEF HexDigit
  <1> HIDE DEF e
  <1> QED
    BY <1>1, <1>3, <1>4, HexFacts

\* A byte has two digits.
LEMMA ByteNibbles ==
  ASSUME NEW b \in Byte
  PROVE  b \div 16 \in 0..15 /\ b % 16 \in 0..15 /\ 16 * (b \div 16) + (b % 16) = b
  <1>1. b \in Nat /\ b < 256
    BY DEF Byte
  <1> QED
    BY <1>1

\* Nibbles are digits.
LEMMA NibbleFacts ==
  ASSUME NEW bytes \in Seq(Byte), NEW i \in 1..(2 * Len(bytes))
  PROVE  Nibble(bytes, i) \in 0..15
  <1> DEFINE k == (i + 1) \div 2
  <1>1. k \in 1..Len(bytes)
    OBVIOUS
  <1>2. bytes[k] \in Byte
    BY <1>1
  <1> DEFINE b == bytes[k]
  <1> HIDE DEF k, b
  <1>3. b \div 16 \in 0..15 /\ b % 16 \in 0..15
    <2>1. b \in Byte
      BY <1>2 DEF b
    <2> QED
      BY <2>1, ByteNibbles
  <1> QED
    BY <1>3 DEF Nibble, k, b

\* The two digits of a byte.
LEMMA ByteOfNibbles ==
  ASSUME NEW bytes \in Seq(Byte), NEW i \in 1..Len(bytes)
  PROVE  16 * Nibble(bytes, 2 * i - 1) + Nibble(bytes, 2 * i) = bytes[i]
  <1>1. (2 * i - 1 + 1) \div 2 = i /\ (2 * i + 1) \div 2 = i
    OBVIOUS
  <1>2. (2 * i - 1) % 2 = 1 /\ (2 * i) % 2 # 1
    OBVIOUS
  <1> DEFINE b == bytes[i]
  <1>3. b \in Byte
    OBVIOUS
  <1>4. Nibble(bytes, 2 * i - 1) = b \div 16 /\ Nibble(bytes, 2 * i) = b % 16
    BY <1>1, <1>2 DEF Nibble
  <1> HIDE DEF b
  <1>5. 16 * (b \div 16) + (b % 16) = b
    BY <1>3, ByteNibbles
  <1>6. 16 * Nibble(bytes, 2 * i - 1) + Nibble(bytes, 2 * i) = b
    BY <1>4, <1>5
  <1> QED
    BY <1>6 DEF b

\* Hex text is 0x and two characters for every byte.
LEMMA HexOfFacts ==
  ASSUME NEW bytes \in Seq(Byte)
  PROVE  /\ HexOf(bytes) \in Seq(Chars) /\ Len(HexOf(bytes)) = 2 + 2 * Len(bytes)
         /\ HexOf(bytes)[1] = "0" /\ HexOf(bytes)[2] = "x"
         /\ \A i \in 1..(2 * Len(bytes)) : HexOf(bytes)[2 + i] = Hex[Nibble(bytes, i) + 1]
  <1> DEFINE p == <<"0", "x">>
             n == 2 * Len(bytes)
             d == [i \in 1..n |-> Hex[Nibble(bytes, i) + 1]]
             t == HexOf(bytes)
  <1>1. p \in Seq(Chars)
    BY HexFacts
  <1>2. Len(p) = 2 /\ p[1] = "0" /\ p[2] = "x"
    OBVIOUS
  <1>3. n \in Nat
    OBVIOUS
  <1>4. ASSUME NEW i \in 1..n PROVE Hex[Nibble(bytes, i) + 1] \in Chars
    BY NibbleFacts, DigitFacts
  <1> HIDE DEF n
  <1>5. d \in Seq(Chars) /\ Len(d) = n /\ \A i \in 1..n : d[i] = Hex[Nibble(bytes, i) + 1]
    BY <1>3, <1>4
  <1>6. t = p \o d
    BY DEF HexOf, n
  <1> HIDE DEF p, d, t
  <1>7. t \in Seq(Chars) /\ Len(t) = Len(p) + Len(d) /\ \A i \in 1..Len(p) : t[i] = p[i]
    BY <1>1, <1>5, <1>6, ConcatFacts
  <1>8. ASSUME NEW i \in 1..Len(d) PROVE t[Len(p) + i] = d[i]
    BY <1>1, <1>5, <1>6, ConcatAt
  <1>9. t[1] = "0" /\ t[2] = "x"
    BY <1>2, <1>7
  <1>10. \A i \in 1..n : t[2 + i] = Hex[Nibble(bytes, i) + 1]
    BY <1>2, <1>5, <1>8
  <1> QED
    BY <1>2, <1>5, <1>7, <1>9, <1>10 DEF t, n

\* t is a beginning of the text of bytes, one character at least.
TextOf(t, bytes) ==
  /\ t \in Seq(Chars) /\ Len(t) >= 1 /\ Len(t) <= Len(HexOf(bytes))
  /\ \A i \in 1..Len(t) : t[i] = HexOf(bytes)[i]

\* The bytes of digits.
Unhex(g) ==
  [i \in 1..(Len(g) \div 2) |-> 16 * HexDigit(g[2 * i - 1]) + HexDigit(g[2 * i])]

\* from_hex refuses an odd number of digits, and passes over 0x.
LEMMA FromHexWays ==
  ASSUME NEW t
  PROVE  LET g == IF Len(t) >= 2 /\ t[2] = "x" THEN SubSeq(t, 3, Len(t)) ELSE t
         IN from_hex(t) = IF Len(g) % 2 = 1 THEN {} ELSE {Unhex(g)}
  BY DEF from_hex, Unhex, HexDigit

\* Text cut short is an error, or gives fewer of the bytes.
LEMMA FromHexCut ==
  ASSUME NEW bytes \in Seq(Byte), NEW t, TextOf(t, bytes)
  PROVE  \/ from_hex(t) = {} /\ t # HexOf(bytes)
         \/ \E w : /\ from_hex(t) = {w} /\ Begins(w, bytes)
                   /\ Len(w) = Len(bytes) <=> t = HexOf(bytes)
  <1> DEFINE T == HexOf(bytes)
             n == Len(bytes)
             m == Len(t)
             g == IF Len(t) >= 2 /\ t[2] = "x" THEN SubSeq(t, 3, Len(t)) ELSE t
  <1>1. /\ T \in Seq(Chars) /\ Len(T) = 2 + 2 * n /\ T[2] = "x"
        /\ \A i \in 1..(2 * n) : T[2 + i] = Hex[Nibble(bytes, i) + 1]
    BY HexOfFacts
  <1>2. n \in Nat
    OBVIOUS
  <1>3. /\ t \in Seq(Chars) /\ m \in Nat /\ m >= 1 /\ m <= Len(T)
        /\ \A i \in 1..m : t[i] = T[i]
    BY DEF TextOf
  <1>4. from_hex(t) = IF Len(g) % 2 = 1 THEN {} ELSE {Unhex(g)}
    BY FromHexWays
  <1> HIDE DEF T
  <1>5. t = T <=> m = Len(T)
    BY <1>1, <1>3, SeqEqual
  <1> HIDE DEF n, m
  <1>6. CASE m = 1
    <2>1. g = t /\ Len(g) = 1
      BY <1>6 DEF m
    <2>2. Len(T) # 1
      BY <1>1, <1>2
    <2> HIDE DEF g
    <2>3. from_hex(t) = {}
      BY <1>4, <2>1
    <2> QED
      BY <1>5, <1>6, <2>2, <2>3 DEF T
  <1>7. CASE m >= 2
    <2>1. t[2] = "x"
      BY <1>1, <1>3, <1>7
    <2>2. g = Past(t, 2)
      BY <1>7, <2>1 DEF m, Past
    <2>3. Len(g) = m - 2 /\ \A i \in 1..(m - 2) : g[i] = t[2 + i]
      <3> DEFINE two == 2
      <3>1. two \in Nat /\ two <= Len(t)
        BY <1>3, <1>7 DEF m
      <3>2. g = Past(t, two)
        BY <2>2
      <3>3. t \in Seq(Chars)
        BY <1>3
      <3> HIDE DEF g, two
      <3>4. /\ Len(Past(t, two)) = Len(t) - two
            /\ \A i \in 1..(Len(t) - two) : Past(t, two)[i] = t[two + i]
        BY <3>1, <3>3, PastFacts
      <3> QED
        BY <3>2, <3>4 DEF m, two
    <2> HIDE DEF g
    <2>4. CASE Len(g) % 2 = 1
      <3>1. from_hex(t) = {}
        BY <1>4, <2>4
      <3> DEFINE d == Len(g)
                 l == Len(T)
      <3>3. d = m - 2 /\ l = 2 + 2 * n /\ d % 2 = 1
        BY <1>1, <2>3, <2>4
      <3>4. m \in Nat
        BY <1>3
      <3> HIDE DEF d, l
      <3>5. m # l
        BY <1>2, <3>3, <3>4
      <3>2. m # Len(T)
        BY <3>5 DEF l
      <3> QED
        BY <1>5, <3>1, <3>2 DEF T
    <2>5. CASE Len(g) % 2 # 1
      <3> DEFINE w == Unhex(g)
                 k == Len(g) \div 2
      <3>1. from_hex(t) = {w}
        BY <1>4, <2>5
      <3>2. k \in Nat /\ 2 * k = Len(g) /\ Len(g) = m - 2 /\ k <= n
        <4> DEFINE d == Len(g)
                   l == Len(T)
        <4>1. d = m - 2 /\ l = 2 + 2 * n /\ d % 2 # 1 /\ m <= l
          BY <1>1, <1>3, <2>3, <2>5
        <4>2. m \in Nat
          BY <1>3
        <4> HIDE DEF d, l
        <4>3. d \div 2 \in Nat /\ 2 * (d \div 2) = d /\ d \div 2 <= n
          BY <1>2, <1>7, <4>1, <4>2
        <4> QED
          BY <4>1, <4>3 DEF d
      <3>3. w = [i \in 1..k |-> 16 * HexDigit(g[2 * i - 1]) + HexDigit(g[2 * i])]
        BY DEF Unhex
      <3> HIDE DEF w, k
      <3>4. ASSUME NEW i \in 1..k
            PROVE  16 * HexDigit(g[2 * i - 1]) + HexDigit(g[2 * i]) = bytes[i] /\ bytes[i] \in Byte
        <4> DEFINE i1 == 2 * i - 1
                   i2 == 2 * i
        <4>1. i1 \in 1..(2 * n) /\ i2 \in 1..(2 * n) /\ i1 \in 1..(m - 2) /\ i2 \in 1..(m - 2)
          BY <1>2, <3>2
        <4>2. 2 + i1 \in 1..m /\ 2 + i2 \in 1..m
          BY <1>3, <4>1
        <4> HIDE DEF i1, i2
        <4>3. g[i1] = Hex[Nibble(bytes, i1) + 1] /\ g[i2] = Hex[Nibble(bytes, i2) + 1]
          BY <1>1, <1>3, <2>3, <4>1, <4>2
        <4>4. Nibble(bytes, i1) \in 0..15 /\ Nibble(bytes, i2) \in 0..15
          BY <4>1, NibbleFacts DEF n
        <4>5. HexDigit(g[i1]) = Nibble(bytes, i1) /\ HexDigit(g[i2]) = Nibble(bytes, i2)
          BY <4>3, <4>4, DigitFacts
        <4>6. i \in 1..Len(bytes)
          BY <1>2, <3>2 DEF n
        <4>7. 16 * Nibble(bytes, i1) + Nibble(bytes, i2) = bytes[i]
          BY <4>6, ByteOfNibbles DEF i1, i2
        <4>8. bytes[i] \in Byte
          BY <4>6
        <4> QED
          BY <4>5, <4>7, <4>8 DEF i1, i2
      <3>5. w \in Seq(Byte) /\ Len(w) = k /\ \A i \in 1..k : w[i] = bytes[i]
        <4>1. w = [i \in 1..k |-> bytes[i]] /\ \A i \in 1..k : bytes[i] \in Byte
          BY <3>3, <3>4
        <4> QED
          BY <3>2, <4>1
      <3>6. Begins(w, bytes)
        BY <3>2, <3>5 DEF Begins, n
      <3>7. Len(w) = n <=> m = Len(T)
        BY <1>1, <1>2, <1>3, <3>2, <3>5
      <3> QED
        BY <1>5, <3>1, <3>6, <3>7 DEF T, n
    <2> QED
      BY <2>4, <2>5
  <1> QED
    BY <1>3, <1>6, <1>7

----------------------------------------------------------------------------
(***************************************************************************)
(* The payload.                                                            *)
(***************************************************************************)
\* Two chains that differ have different bytes to be signed.
LEMMA AdditionalFacts ==
  ASSUME NEW c \in Chains
  PROVE  /\ Additional(c) \in Seq(Byte)
         /\ \A d \in Chains : Additional(c) = Additional(d) => c = d
  <1> DEFINE A(x) == U32(x.spec)
             B(x) == U32(x.tx)
             G(x) == Fill(x.genesis, 32)
             K(x) == Fill(x.checkpoint, 32)
             AB(x) == A(x) \o B(x)
             ABG(x) == AB(x) \o G(x)
             ABGK(x) == ABG(x) \o K(x)
  <1>1. ASSUME NEW x \in Chains
        PROVE  /\ A(x) \in Seq(Byte) /\ B(x) \in Seq(Byte) /\ G(x) \in Seq(Byte) /\ K(x) \in Seq(Byte)
               /\ Len(A(x)) = 4 /\ Len(B(x)) = 4 /\ Len(G(x)) = 32 /\ Len(K(x)) = 32
    <2>1. x.spec \in U32s /\ x.tx \in U32s /\ x.genesis \in Byte /\ x.checkpoint \in Byte
      BY <1>1 DEF Chains
    <2>2. A(x) \in Seq(Byte) /\ B(x) \in Seq(Byte) /\ Len(A(x)) = 4 /\ Len(B(x)) = 4
      BY <2>1, U32Facts
    <2>3. G(x) \in Seq(Byte) /\ K(x) \in Seq(Byte) /\ Len(G(x)) = 32 /\ Len(K(x)) = 32
      <3> DEFINE n == 32
      <3>1. n \in Nat
        OBVIOUS
      <3> HIDE DEF n
      <3>2. /\ Fill(x.genesis, n) \in Seq(Byte) /\ Len(Fill(x.genesis, n)) = n
            /\ Fill(x.checkpoint, n) \in Seq(Byte) /\ Len(Fill(x.checkpoint, n)) = n
        BY <2>1, <3>1, FillFacts
      <3> QED
        BY <3>2 DEF n
    <2> QED
      BY <2>2, <2>3
  <1>2. ASSUME NEW x \in Chains, NEW y \in Chains, A(x) = A(y), B(x) = B(y), G(x) = G(y), K(x) = K(y)
        PROVE  x = y
    <2>1. /\ x.spec \in U32s /\ x.tx \in U32s /\ x.genesis \in Byte /\ x.checkpoint \in Byte
          /\ y.spec \in U32s /\ y.tx \in U32s /\ y.genesis \in Byte /\ y.checkpoint \in Byte
          /\ x = [spec |-> x.spec, tx |-> x.tx, genesis |-> x.genesis, checkpoint |-> x.checkpoint]
          /\ y = [spec |-> y.spec, tx |-> y.tx, genesis |-> y.genesis, checkpoint |-> y.checkpoint]
      BY <1>2 DEF Chains
    <2>2. FromU32(A(x)) = x.spec /\ FromU32(A(y)) = y.spec /\ FromU32(B(x)) = x.tx /\ FromU32(B(y)) = y.tx
      BY <2>1, U32Facts
    <2>3. x.spec = y.spec /\ x.tx = y.tx
      BY <1>2, <2>2
    <2>4. /\ G(x)[1] = x.genesis /\ G(y)[1] = y.genesis
          /\ K(x)[1] = x.checkpoint /\ K(y)[1] = y.checkpoint
      BY DEF Fill
    <2>5. x.genesis = y.genesis /\ x.checkpoint = y.checkpoint
      BY <1>2, <2>4
    <2> QED
      BY <2>1, <2>3, <2>5
  <1>3. \A x : Additional(x) = ABGK(x)
    BY DEF Additional
  <1> HIDE DEF A, B, G, K
  <1>4. ASSUME NEW x \in Chains
        PROVE  /\ A(x) \in Seq(Byte) /\ B(x) \in Seq(Byte) /\ G(x) \in Seq(Byte) /\ K(x) \in Seq(Byte)
               /\ AB(x) \in Seq(Byte) /\ ABG(x) \in Seq(Byte) /\ ABGK(x) \in Seq(Byte)
               /\ Len(AB(x)) = Len(A(x)) + Len(B(x)) /\ Len(ABG(x)) = Len(AB(x)) + Len(G(x))
    <2>1. A(x) \in Seq(Byte) /\ B(x) \in Seq(Byte) /\ G(x) \in Seq(Byte) /\ K(x) \in Seq(Byte)
      BY <1>1
    <2>2. AB(x) \in Seq(Byte) /\ Len(AB(x)) = Len(A(x)) + Len(B(x))
      BY <2>1, ConcatFacts
    <2> HIDE DEF AB
    <2>3. ABG(x) \in Seq(Byte) /\ Len(ABG(x)) = Len(AB(x)) + Len(G(x))
      BY <2>1, <2>2, ConcatFacts
    <2> HIDE DEF ABG
    <2>4. ABGK(x) \in Seq(Byte)
      BY <2>1, <2>3, ConcatFacts
    <2> QED
      BY <2>1, <2>2, <2>3, <2>4
  <1>5. ASSUME NEW d \in Chains, ABGK(c) = ABGK(d) PROVE c = d
    <2>1. Len(A(c)) = Len(A(d))
      BY <1>1
    <2>2. Len(AB(c)) = Len(AB(d))
      <3>1. Len(A(c)) = Len(A(d)) /\ Len(B(c)) = Len(B(d))
        BY <1>1
      <3> HIDE DEF AB
      <3> QED
        BY <1>4, <3>1
    <2>3. Len(ABG(c)) = Len(ABG(d))
      <3>1. Len(G(c)) = Len(G(d))
        BY <1>1
      <3> HIDE DEF AB, ABG
      <3> QED
        BY <1>4, <2>2, <3>1
    <2>4. ABG(c) = ABG(d) /\ K(c) = K(d)
      <3> HIDE DEF ABG
      <3> QED
        BY <1>4, <1>5, <2>3, SameCut
    <2>5. AB(c) = AB(d) /\ G(c) = G(d)
      <3> HIDE DEF AB
      <3> QED
        BY <1>4, <2>2, <2>4, SameCut
    <2>6. A(c) = A(d) /\ B(c) = B(d)
      BY <1>4, <2>1, <2>5, SameCut
    <2> QED
      BY <1>2, <2>4, <2>5, <2>6
  <1> HIDE DEF ABGK
  <1> QED
    BY <1>3, <1>4, <1>5

\* Fields of a chain after p, one by one or together.
LEMMA AdditionalAfter ==
  ASSUME NEW p \in Seq(Byte), NEW c \in Chains
  PROVE  p \o U32(c.spec) \o U32(c.tx) \o Fill(c.genesis, 32) \o Fill(c.checkpoint, 32) =
           p \o Additional(c)
  <1> DEFINE a == U32(c.spec)
             b == U32(c.tx)
             g == Fill(c.genesis, 32)
             k == Fill(c.checkpoint, 32)
             ab == a \o b
             abg == ab \o g
  <1>1. c.spec \in U32s /\ c.tx \in U32s /\ c.genesis \in Byte /\ c.checkpoint \in Byte
    BY DEF Chains
  <1>2. a \in Seq(Byte) /\ b \in Seq(Byte)
    BY <1>1, U32Facts
  <1>3. g \in Seq(Byte) /\ k \in Seq(Byte)
    BY <1>1, FillFacts
  <1>4. Additional(c) = abg \o k
    BY DEF Additional
  <1>5. p \o U32(c.spec) \o U32(c.tx) \o Fill(c.genesis, 32) \o Fill(c.checkpoint, 32) =
          (((p \o a) \o b) \o g) \o k
    OBVIOUS
  <1> HIDE DEF a, b, g, k
  <1>6. ab \in Seq(Byte)
    BY <1>2, ConcatFacts
  <1> HIDE DEF ab
  <1>7. abg \in Seq(Byte)
    BY <1>3, <1>6, ConcatFacts
  <1> HIDE DEF abg
  <1>8. Assoc(p, a, b) /\ Assoc(p, ab, g) /\ Assoc(p, abg, k)
    BY <1>2, <1>3, <1>6, <1>7, BytesAssoc
  <1>9. (((p \o a) \o b) \o g) \o k = p \o (abg \o k)
    BY <1>8 DEF Assoc, ab, abg
  <1> QED
    BY <1>4, <1>5, <1>9

\* What the client signs is what the node verifies, on the same chain and on no other.
LEMMA SameMessage ==
  ASSUME NEW f \in Seq(Byte), NEW era \in Eras, NEW nonce \in U32s, NEW account, NEW s, NEW k,
         NEW c \in Chains, NEW d \in Chains
  PROVE  SignedPayload(f, GenericExtra(era, nonce), c) =
           Message(XtOf(account, s, k, era, nonce, 0, f), d) <=> c = d
  <1> DEFINE e == Era(era)
             n == Compact(nonce)
             t == Compact(0)
             p == ((f \o e) \o n) \o t
             en == e \o n
             ent == en \o t
             x == XtOf(account, s, k, era, nonce, 0, f)
             A == Additional(c)
             D == Additional(d)
  <1>1. e \in Seq(Byte) /\ n \in Seq(Byte) /\ t \in Seq(Byte)
    <2>1. 0 \in U32s
      BY SMT DEF U32s
    <2>2. e \in Seq(Byte)
      BY EraFacts
    <2>3. n \in Seq(Byte)
      BY CompactFacts
    <2>4. t \in Seq(Byte)
      BY <2>1, CompactFacts
    <2> QED
      BY <2>2, <2>3, <2>4
  <1>2. EncodeExtra(GenericExtra(era, nonce)) = ent
    BY DEF EncodeExtra, GenericExtra
  <1>3. /\ x.function = f /\ x.signature[1].extra.era = era
        /\ x.signature[1].extra.nonce = nonce /\ x.signature[1].extra.tip = 0
    BY DEF XtOf
  <1>4. A \in Seq(Byte) /\ D \in Seq(Byte) /\ (A = D <=> c = d)
    BY AdditionalFacts
  <1> DEFINE l == (f \o ent) \o A
             r == p \o U32(d.spec) \o U32(d.tx) \o Fill(d.genesis, 32) \o Fill(d.checkpoint, 32)
  <1>5. SignedPayload(f, GenericExtra(era, nonce), c) = [hashed |-> Len(l) > 256, bytes |-> l]
    BY <1>2 DEF SignedPayload
  <1>6. Message(x, d) = [hashed |-> Len(r) >= 257, bytes |-> r]
    <2> HIDE DEF x
    <2> QED
      BY <1>3, ZenonT(40) DEF Message
  <1>7. p \in Seq(Byte)
    <2> HIDE DEF e, n, t
    <2>1. f \o e \in Seq(Byte)
      BY <1>1, ConcatFacts
    <2>2. (f \o e) \o n \in Seq(Byte)
      BY <1>1, <2>1, ConcatFacts
    <2> QED
      BY <1>1, <2>2, ConcatFacts
  <1>8. r = p \o D
    <2> HIDE DEF p
    <2> QED
      BY <1>7, AdditionalAfter
  <1> HIDE DEF A, D, e, n, t, x, r
  <1>9. en \in Seq(Byte)
    BY <1>1, ConcatFacts
  <1> HIDE DEF en
  <1>10. Assoc(f, e, n) /\ Assoc(f, en, t)
    BY <1>1, <1>9, BytesAssoc
  <1>11. f \o ent = p
    BY <1>10 DEF Assoc, en
  <1> HIDE DEF ent, p
  <1>12. l = p \o A
    BY <1>11
  <1> HIDE DEF l
  <1>13. l \in Seq(Byte) /\ r \in Seq(Byte)
    BY <1>4, <1>7, <1>8, <1>12, ConcatFacts
  <1>14. ASSUME l = r PROVE c = d
    <2>1. p \o A = p \o D
      BY <1>8, <1>12, <1>14
    <2>2. A = D
      BY <1>4, <1>7, <2>1, SameCut
    <2> QED
      BY <1>4, <2>2
  <1>15. ASSUME c = d PROVE l = r
    BY <1>4, <1>8, <1>12, <1>15
  <1> DEFINE y == Len(r)
  <1>16. y \in Nat
    BY <1>13
  <1> HIDE DEF y
  <1>17. (y > 256) = (y >= 257)
    BY <1>16
  <1> DEFINE hl == Len(l) > 256
             hr == Len(r) >= 257
  <1>18. l = r => hl = hr
    BY <1>17, Zenon DEF y
  <1> HIDE DEF hl, hr
  <1>19. [hashed |-> hl, bytes |-> l] = [hashed |-> hr, bytes |-> r] <=> l = r
    BY <1>18
  <1> QED
    BY <1>5, <1>6, <1>14, <1>15, <1>19, Zenon DEF x, hl, hr

----------------------------------------------------------------------------
(***************************************************************************)
(* The inductive invariant: what was composed for the job is encoded,      *)
(* sent and decoded.                                                       *)
(***************************************************************************)
SignedXt(j) ==
  XtOf(j.signer.account, j.signer.scheme, 1, j.era, j.nonce, 0, j.call)

Entry(j) ==
  [scheme |-> j.signer.scheme, account |-> j.signer.account,
   message |-> SignedPayload(j.call, GenericExtra(j.era, j.nonce), j.client)]

\* The extrinsic of the job, and who signed what.
Made ==
  \/ job.signer = Unsigned /\ xt = BareXt(job.call) /\ signed = <<>>
  \/ job.signer # Unsigned /\ xt = SignedXt(job) /\ signed = <<Entry(job)>>

IInv ==
  /\ job \in Jobs
  /\ xt = NoXt => signed = <<>> /\ text = <<>> /\ result = Pending
  /\ xt # NoXt => Made
  /\ text = <<>> => result = Pending
  /\ text # <<>> => xt # NoXt /\ TextOf(text, encode(xt))
  /\ DecodeIsExact

\* What there is to know of a job.
LEMMA JobFacts ==
  ASSUME NEW j \in Jobs
  PROVE  /\ j.call \in Calls /\ j.size \in Nat /\ j.era \in Eras /\ j.nonce \in U32s
         /\ j.client \in Chains /\ j.node \in Chains
         /\ j.signer # Unsigned => j.signer.account \in Byte /\ j.signer.scheme \in DOMAIN Index
  <1>1. j.signer \in Signers
    BY JobsAssumption, Zenon
  <1>2. j.signer # Unsigned => j.signer.account \in Byte /\ j.signer.scheme \in DOMAIN Index
    BY <1>1 DEF Signers
  <1> QED
    BY <1>2, JobsAssumption, Zenon

\* What was composed comes back, and its prefix counts what follows.
LEMMA MadeFacts ==
  ASSUME job \in Jobs, Made
  PROVE  /\ Composed(xt, job.call) /\ encode(xt) \in Seq(Byte)
         /\ RoundTrip(xt, job.call)
         /\ \E s \in DecodeCompact(Start(encode(xt))) : s.out[1] = Len(s.rest)
  <1>1. Composed(xt, job.call)
    BY JobFacts, Zenon DEF Made, Composed, SignedXt
  <1>2. job.call \in Calls /\ job.size \in Nat
    BY JobFacts, Zenon
  <1>3. RoundTrip(xt, job.call) /\ \E body : EncodedAs(xt, body)
    BY <1>1, <1>2, ComposedRoundTrip, Zenon
  <1>4. PICK body : EncodedAs(xt, body)
    BY <1>3
  <1>5. /\ encode(xt) \in Seq(Byte)
        /\ \E s \in DecodeCompact(Start(encode(xt))) : s.out[1] = Len(s.rest)
    BY <1>4, PrefixRead
  <1> QED
    BY <1>1, <1>3, <1>5

\* hex_encode is the hex text of the encoding.
LEMMA HexEncodeIs == ASSUME NEW x PROVE hex_encode(x) = HexOf(encode(x))
  BY DEF hex_encode, HexOf, Nibble

\* The whole text is text of the bytes.
LEMMA WholeText ==
  ASSUME NEW bytes \in Seq(Byte)
  PROVE  TextOf(HexOf(bytes), bytes) /\ HexOf(bytes) # <<>>
  <1> DEFINE t == HexOf(bytes)
  <1>1. t \in Seq(Chars) /\ Len(t) = 2 + 2 * Len(bytes)
    BY HexOfFacts
  <1>2. Len(bytes) \in Nat
    OBVIOUS
  <1> HIDE DEF t
  <1>3. Len(t) >= 1 /\ t # <<>>
    BY <1>1, <1>2
  <1> QED
    BY <1>1, <1>3 DEF TextOf, t

\* Text that is cut again is still text of the bytes.
LEMMA CutText ==
  ASSUME NEW bytes \in Seq(Byte), NEW t, TextOf(t, bytes), NEW n \in 1..(Len(t) - 1)
  PROVE  TextOf(SubSeq(t, 1, Len(t) - n), bytes)
  <1> DEFINE T == HexOf(bytes)
             l == Len(t) - n
             u == SubSeq(t, 1, l)
  <1>1. t \in Seq(Chars) /\ Len(t) <= Len(T) /\ \A i \in 1..Len(t) : t[i] = T[i]
    BY DEF TextOf
  <1>2. T \in Seq(Chars)
    BY HexOfFacts
  <1> HIDE DEF T
  <1>3. l \in Nat /\ l >= 1 /\ l <= Len(t)
    BY <1>1
  <1> HIDE DEF l
  <1>4. u \in Seq(Chars) /\ Len(u) = l /\ \A i \in 1..l : u[i] = t[i]
    BY <1>1, <1>3
  <1> HIDE DEF u
  <1>5. TextOf(u, bytes)
    BY <1>1, <1>2, <1>3, <1>4 DEF TextOf, T
  <1> QED
    BY <1>5 DEF u, l

\* Nothing has been composed.
LEMMA InitIInv == Init => IInv
  BY DEF Init, IInv, DecodeIsExact

\* What is composed is an extrinsic.
LEMMA XtIsSome ==
  ASSUME NEW j \in Jobs
  PROVE  BareXt(j.call) # NoXt /\ SignedXt(j) # NoXt
  <1>1. j.call # <<>>
    BY JobFacts, CallFacts
  <1>2. BareXt(j.call).function = j.call /\ NoXt.function = <<>> /\ NoXt.signature = <<>>
    BY DEF BareXt, NoXt
  <1>3. SignedXt(j).signature # <<>>
    BY DEF SignedXt, XtOf
  <1> QED
    BY <1>1, <1>2, <1>3

\* Whatever is decoded of a text of the extrinsic, or of a part of it.
LEMMA DecodesText ==
  ASSUME job \in Jobs, Made, TextOf(text, encode(xt))
  PROVE  UNION {decode(b, Len(job.call)) : b \in from_hex(text)} =
           IF text = hex_encode(xt) THEN {xt} ELSE {}
  <1> DEFINE bytes == encode(xt)
             n == Len(job.call)
             T == HexOf(bytes)
             D == UNION {decode(b, n) : b \in from_hex(text)}
  <1>1. bytes \in Seq(Byte) /\ RoundTrip(xt, job.call)
    BY MadeFacts
  <1>2. T = hex_encode(xt)
    BY HexEncodeIs
  <1>3. \/ from_hex(text) = {} /\ text # T
        \/ \E w : /\ from_hex(text) = {w} /\ Begins(w, bytes)
                  /\ Len(w) = Len(bytes) <=> text = T
    BY <1>1, FromHexCut
  <1>4. \A w : Begins(w, bytes) =>
          decode(w, n) = IF Len(w) = Len(bytes) THEN {xt} ELSE {}
    BY <1>1 DEF RoundTrip
  <1> HIDE DEF bytes, n, T
  <1>5. CASE from_hex(text) = {} /\ text # T
    <2>1. D = {}
      BY <1>5
    <2> QED
      BY <1>2, <1>5, <2>1, Zenon DEF n
  <1>6. CASE \E w : /\ from_hex(text) = {w} /\ Begins(w, bytes)
                    /\ Len(w) = Len(bytes) <=> text = T
    <2>1. PICK w : /\ from_hex(text) = {w} /\ Begins(w, bytes)
                   /\ Len(w) = Len(bytes) <=> text = T
      BY <1>6
    <2>2. D = decode(w, n)
      BY <2>1
    <2>3. decode(w, n) = IF Len(w) = Len(bytes) THEN {xt} ELSE {}
      BY <1>4, <2>1
    <2>4. D = IF text = T THEN {xt} ELSE {}
      BY <2>1, <2>2, <2>3, Zenon
    <2> QED
      BY <1>2, <2>4, Zenon DEF n
  <1> QED
    BY <1>3, <1>5, <1>6

\* Every step keeps the invariant, one case per action.
LEMMA NextIInv == IInv /\ [Next]_vars => IInv'
  <1> SUFFICES ASSUME IInv, [Next]_vars PROVE IInv'
    OBVIOUS
  <1>0. job \in Jobs /\ DecodeIsExact
    BY DEF IInv
  <1>1. ASSUME UNCHANGED <<job, xt>>
        PROVE  /\ encode(xt)' = encode(xt) /\ hex_encode(xt)' = hex_encode(xt)
               /\ NoXt' = NoXt /\ Pending' = Pending
    <2>1. encode(xt)' = encode(xt)
      BY <1>1 DEF encode
    <2>2. hex_encode(xt)' = hex_encode(xt)
      BY <1>1 DEF hex_encode, encode
    <2> QED
      BY <2>1, <2>2
  <1>2. ASSUME UNCHANGED <<job, xt, signed>>, Made PROVE Made'
    BY <1>2 DEF Made
  <1>3. CASE compose_extrinsic
    <2>1. /\ xt = NoXt /\ signed = <<>> /\ text = <<>> /\ result = Pending
          /\ job' = job /\ text' = <<>> /\ result' = Pending
      BY <1>3 DEF compose_extrinsic, IInv
    <2>2. Made'
      <3>1. CASE job.signer = Unsigned
        BY <1>3, <2>1, <3>1 DEF compose_extrinsic, Made, BareXt
      <3>2. CASE job.signer # Unsigned
        <4> DEFINE extra == GenericExtra(job.era, job.nonce)
                   e == [scheme |-> job.signer.scheme, account |-> job.signer.account,
                         message |-> SignedPayload(job.call, extra, job.client)]
        <4>1. /\ signed' = Append(signed, e)
              /\ xt' = [signature |-> <<[account |-> job.signer.account,
                                         scheme |-> job.signer.scheme,
                                         n |-> Len(signed) + 1, extra |-> extra]>>,
                        function |-> job.call]
          BY <1>3, <3>2, Zenon DEF compose_extrinsic
        <4>2. Len(signed) + 1 = 1
          BY <2>1
        <4>3. extra = [era |-> job.era, nonce |-> job.nonce, tip |-> 0]
          BY DEF GenericExtra
        <4>4. xt' = SignedXt(job)
          BY <4>1, <4>2, <4>3, Zenon DEF SignedXt, XtOf
        <4>5. e = Entry(job)
          BY DEF Entry
        <4> HIDE DEF e
        <4>6. Append(<<>>, e) = <<e>>
          OBVIOUS
        <4>7. signed' = <<Entry(job)>>
          BY <2>1, <4>1, <4>5, <4>6
        <4> QED
          BY <2>1, <3>2, <4>4, <4>7, Zenon DEF Made
      <3> QED
        BY <3>1, <3>2
    <2>3. xt' # NoXt
      <3>1. xt' = BareXt(job.call) \/ xt' = SignedXt(job)
        BY <2>1, <2>2 DEF Made
      <3> QED
        BY <1>0, <3>1, XtIsSome
    <2> QED
      BY <1>0, <2>1, <2>2, <2>3 DEF IInv, DecodeIsExact
  <1>4. CASE send_extrinsic
    <2>1. /\ xt # NoXt /\ text = <<>> /\ text' = hex_encode(xt)
          /\ UNCHANGED <<job, signed, xt, result>>
      BY <1>4 DEF send_extrinsic
    <2>2. Made
      BY <2>1 DEF IInv
    <2>3. encode(xt) \in Seq(Byte)
      BY <1>0, <2>2, MadeFacts
    <2>4. TextOf(text', encode(xt))
      BY <2>1, <2>3, HexEncodeIs, WholeText
    <2>5. result = Pending /\ text' # <<>>
      BY <2>1, <2>3, HexEncodeIs, WholeText DEF IInv
    <2> QED
      BY <1>0, <1>1, <1>2, <2>1, <2>2, <2>4, <2>5 DEF IInv, DecodeIsExact

  <1>5. ASSUME NEW n \in job.cuts, Cut(n) PROVE IInv'
    <2>1. /\ text # <<>> /\ result = Pending /\ n \in 1..(Len(text) - 1)
          /\ text' = SubSeq(text, 1, Len(text) - n)
          /\ UNCHANGED <<job, signed, xt, result>>
      BY <1>5 DEF Cut
    <2>2. xt # NoXt /\ TextOf(text, encode(xt)) /\ Made
      BY <2>1 DEF IInv
    <2>3. encode(xt) \in Seq(Byte)
      BY <1>0, <2>2, MadeFacts
    <2>4. TextOf(text', encode(xt))
      BY <2>1, <2>2, <2>3, CutText
    <2> QED
      BY <1>0, <1>1, <1>2, <2>1, <2>2, <2>4 DEF IInv, DecodeIsExact
  <1>6. CASE Decode
    <2> DEFINE D == UNION {decode(b, Len(job.call)) : b \in from_hex(text)}
    <2>1. /\ text # <<>> /\ result = Pending
          /\ result' = (IF D = {} THEN Error ELSE Ok(CHOOSE x \in D : TRUE))
          /\ UNCHANGED <<job, signed, xt, text>>
      BY <1>6 DEF Decode
    <2>2. xt # NoXt /\ TextOf(text, encode(xt)) /\ Made
      BY <2>1 DEF IInv
    <2>3. D = IF text = hex_encode(xt) THEN {xt} ELSE {}
      BY <1>0, <2>2, DecodesText
    <2> HIDE DEF D
    <2>4. (CHOOSE x \in {xt} : TRUE) = xt
      OBVIOUS
    <2>5. result' = IF text = hex_encode(xt) THEN Ok(xt) ELSE Error
      <3>1. CASE text = hex_encode(xt)
        <4>1. D = {xt}
          BY <2>3, <3>1
        <4> QED
          BY <2>1, <2>4, <3>1, <4>1
      <3>2. CASE text # hex_encode(xt)
        <4>1. D = {}
          BY <2>3, <3>2
        <4> QED
          BY <2>1, <3>2, <4>1
      <3> QED
        BY <3>1, <3>2
    <2>6. TextOf(text, encode(xt))' /\ hex_encode(xt)' = hex_encode(xt) /\ Made'
      BY <1>1, <1>2, <2>1, <2>2
    <2>7. DecodeIsExact'
      BY <2>1, <2>5, <2>6 DEF DecodeIsExact, Ok, Error
    <2> QED
      BY <1>0, <2>1, <2>2, <2>6, <2>7 DEF IInv
  <1>7. CASE UNCHANGED vars
    <2>1. UNCHANGED <<job, signed, xt, text, result>>
      BY <1>7 DEF vars
    <2>2. hex_encode(xt)' = hex_encode(xt) /\ encode(xt)' = encode(xt)
      BY <1>1, <2>1
    <2>3. DecodeIsExact'
      BY <1>0, <2>1, <2>2 DEF DecodeIsExact, Ok, Error
    <2> QED
      BY <1>2, <2>1, <2>2, <2>3 DEF IInv
  <1> QED
    BY <1>3, <1>4, <1>5, <1>6, <1>7 DEF Next, Done

\* The invariant holds in every reachable state.
LEMMA IInvHolds == Spec => []IInv
  BY InitIInv, NextIInv, PTL DEF Spec

----------------------------------------------------------------------------
(***************************************************************************)
(* Theorems.                                                               *)
(***************************************************************************)
LEMMA XtTyped ==
  ASSUME job \in Jobs, Made
  PROVE  XtOK(xt) /\ \A s \in Range(signed) : s.scheme \in DOMAIN Index /\ s.account \in Byte
  <1>1. job.call \in Seq(Byte) /\ job.era \in Eras /\ job.nonce \in U32s
    BY JobFacts, CallFacts
  <1>2. Range(<<>>) = {} /\ \A g : Range(<<g>>) = {g}
    BY DEF Range
  <1>3. CASE job.signer = Unsigned
    <2>1. xt.signature = <<>> /\ xt.function = job.call /\ signed = <<>>
      BY <1>3 DEF Made, BareXt
    <2> QED
      BY <1>1, <1>2, <2>1 DEF XtOK
  <1>4. CASE job.signer # Unsigned
    <2> DEFINE extra == [era |-> job.era, nonce |-> job.nonce, tip |-> 0]
               g == [account |-> job.signer.account, scheme |-> job.signer.scheme, n |-> 1,
                     extra |-> extra]
    <2>1. job.signer.account \in Byte /\ job.signer.scheme \in DOMAIN Index
      BY <1>4, JobFacts
    <2>2. xt = SignedXt(job) /\ signed = <<Entry(job)>>
      BY <1>4 DEF Made
    <2>3. xt.signature = <<g>> /\ xt.function = job.call
      BY <2>2 DEF SignedXt, XtOf
    <2>4. extra \in Extras
      BY <1>1 DEF Extras
    <2> HIDE DEF extra
    <2>5. g \in [account : Byte, scheme : DOMAIN Index, n : {1}, extra : Extras]
      BY <2>1, <2>4
    <2> HIDE DEF g
    <2>6. XtOK(xt)
      <3>1. Range(xt.signature) = {g}
        BY <1>2, <2>3, Zenon
      <3> QED
        BY <1>1, <2>3, <2>5, <3>1 DEF XtOK
    <2>7. Entry(job).scheme = job.signer.scheme /\ Entry(job).account = job.signer.account
      BY DEF Entry
    <2>8. Range(signed) = {Entry(job)}
      BY <1>2, <2>2, Zenon
    <2> QED
      BY <2>1, <2>6, <2>7, <2>8
  <1> QED
    BY <1>3, <1>4

\* The invariant implies the types.
LEMMA TypedByIInv == IInv => TypeOK
  <1> SUFFICES ASSUME IInv PROVE TypeOK
    OBVIOUS
  <1>1. XtOK(NoXt) /\ Range(<<>>) = {}
    BY DEF XtOK, NoXt, Range
  <1>2. job \in Jobs
    BY DEF IInv
  <1>3. XtOK(xt) /\ \A s \in Range(signed) : s.scheme \in DOMAIN Index /\ s.account \in Byte
    <2>1. CASE xt = NoXt
      BY <1>1, <2>1 DEF IInv
    <2>2. CASE xt # NoXt
      BY <1>2, <2>2, XtTyped DEF IInv
    <2> QED
      BY <2>1, <2>2
  <1>4. result = Pending \/ result = Error \/ result = Ok(xt)
    BY DEF IInv, DecodeIsExact
  <1>5. XtOK(result.xt) /\ result.res \in {"pending", "Err", "Ok"}
    BY <1>1, <1>3, <1>4 DEF Pending, Error, Ok
  <1>6. Range(text) \subseteq Range(Hex) \cup {"x"}
    <2>1. text \in Seq(Chars)
      <3>1. CASE text = <<>>
        BY <3>1
      <3>2. CASE text # <<>>
        BY <3>2 DEF IInv, TextOf
      <3> QED
        BY <3>1, <3>2
    <2>2. Range(text) \subseteq Chars
      BY <2>1 DEF Range
    <2> QED
      BY <2>2 DEF Chars
  <1> QED
    BY <1>2, <1>3, <1>5, <1>6 DEF TypeOK

\* Type correctness: jobs, signatures, extrinsics, text and results keep their
\* types from compose_extrinsic_offline to Decode.
THEOREM TypeCorrect == Spec => []TypeOK
  BY IInvHolds, TypedByIInv, PTL

\* UncheckedExtrinsicV4: what decode reads of the text that encode and the hex
\* of send_extrinsic make is the extrinsic, and an error if any characters at
\* its end are missing; for every call, signer, era, nonce and cut.
THEOREM DecodingIsExact == Spec => []DecodeIsExact
  <1>1. IInv => DecodeIsExact
    BY DEF IInv
  <1> QED
    BY <1>1, IInvHolds, PTL

\* encode_with_vec_prefix: whatever was reserved for it, the prefix counts the
\* bytes that follow.
THEOREM PrefixIsRight == Spec => []PrefixCountsRest
  <1>1. IInv => PrefixCountsRest
    BY MadeFacts DEF IInv, PrefixCountsRest
  <1> QED
    BY <1>1, IInvHolds, PTL

\* The invariant implies that a signature verifies exactly on its chain.
LEMMA VerifiedByIInv == IInv => VerifiesIffSameChain
  <1> SUFFICES ASSUME IInv, result.res = "Ok", result.xt.signature # <<>>
               PROVE  Verifies(result.xt, job.node) <=> job.client = job.node
    BY DEF VerifiesIffSameChain
  <1>1. job \in Jobs /\ DecodeIsExact
    BY DEF IInv
  <1>2. result = Ok(xt)
    BY <1>1 DEF DecodeIsExact, Pending, Error, Ok
  <1>3. result.xt = xt /\ xt.signature # <<>>
    BY <1>2 DEF Ok
  <1>4. xt # NoXt
    BY <1>3 DEF NoXt
  <1>5. xt = SignedXt(job) /\ signed = <<Entry(job)>>
    BY <1>3, <1>4 DEF IInv, Made, BareXt
  <1>6. /\ job.call \in Seq(Byte) /\ job.era \in Eras /\ job.nonce \in U32s
        /\ job.client \in Chains /\ job.node \in Chains
    BY <1>1, JobFacts, CallFacts
  <1>7. /\ xt.signature[1].n = 1 /\ xt.signature[1].scheme = job.signer.scheme
        /\ xt.signature[1].account = job.signer.account
    BY <1>5 DEF SignedXt, XtOf
  <1>8. signed[1] = Entry(job)
    BY <1>5
  <1> DEFINE p == SignedPayload(job.call, GenericExtra(job.era, job.nonce), job.client)
             q == Message(xt, job.node)
             sc == job.signer.scheme
             ac == job.signer.account
  <1>9. Verifies(xt, job.node) <=>
          [scheme |-> sc, account |-> ac, message |-> p]
            = [scheme |-> sc, account |-> ac, message |-> q]
    BY <1>7, <1>8, Zenon DEF Verifies, Entry
  <1>10. p = q <=> job.client = job.node
    BY <1>5, <1>6, SameMessage DEF SignedXt
  <1> HIDE DEF p, q, sc, ac
  <1>11. [scheme |-> sc, account |-> ac, message |-> p]
           = [scheme |-> sc, account |-> ac, message |-> q] <=> p = q
    OBVIOUS
  <1> QED
    BY <1>3, <1>9, <1>10, <1>11, Zenon

\* SignedPayload, GenericExtra and AdditionalSigned: the signature of what is
\* decoded verifies on a node if and only if the versions, the genesis and the
\* checkpoint are those it was made for, whether the payload is hashed or not.
THEOREM SignaturesBindTheChain == Spec => []VerifiesIffSameChain
  BY IInvHolds, VerifiedByIInv, PTL
=============================================================================
