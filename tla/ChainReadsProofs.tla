-------------------------- MODULE ChainReadsProofs --------------------------
(***************************************************************************)
(* Theorems about ChainReads, for any runtime storage and any number of    *)
(* blocks and forks: type correctness, that a read finds what it names and *)
(* a listing all there is, and what a program may believe of the blocks it *)
(* asks for by number while the best block changes.                        *)
(***************************************************************************)
EXTENDS ChainReads, WellFoundedInduction, NaturalsInduction, TLAPS

BlockRecords == [number : Nat, line : SUBSET Nat, state : SUBSET DOMAIN Items]

(***************************************************************************)
(* The inductive invariant.  The finalized block is on the best chain and  *)
(* the head of the program behind it; a hash that get_signed_block_by_num  *)
(* has got is of a block with the number, and behind the head if that is   *)
(* as high.  All of it survives a change of the best block.                *)
(***************************************************************************)
\* The blocks form a tree: a line holds the lines of the blocks on it, numbers
\* fall along it, and the lower of two blocks on one line is behind the other.
IsTree(t) ==
  \A b \in DOMAIN t :
    /\ b \in t[b].line /\ t[b].line \subseteq DOMAIN t
    /\ \A a \in t[b].line : t[a].line \subseteq t[b].line /\ t[a].number <= t[b].number
    /\ \A a, c \in t[b].line : t[a].number <= t[c].number => a \in t[c].line

ChainInv ==
  /\ tree \in Seq(BlockRecords) /\ IsTree(tree)
  /\ best \in Hashes /\ finalized \in tree[best].line

OpInv ==
  /\ op \in Ops
  /\ hash \in {0} \cup Hashes

\* b is a block of t with number n, and behind hd if that is as high.
Fits(t, hd, b, n) ==
  /\ b \in DOMAIN t /\ t[b].number = n
  /\ hd # 0 /\ n <= t[hd].number => b \in t[hd].line

HeadInv ==
  /\ head # 0 => head \in tree[finalized].line
  /\ answer.op.call = "finalizedHead" /\ ~ answer.error =>
       answer.values # {} /\ answer.values \subseteq tree[finalized].line

HashInv ==
  /\ op.call = "byNum" /\ op.at > 0 /\ hash # 0 => Fits(tree, head, hash, op.at - 1)
  /\ answer.op.call = "byNum" /\ answer.op.at > 0 /\ ~ answer.error =>
       \A b \in answer.values : Fits(tree, head, b, answer.op.at - 1)

\* What an answer holds, by the call.
ValuesOf(call) ==
  CASE call \in {"storage", "proof", "pairs"} -> DOMAIN Items
    [] call = "keys" -> Keys
    [] OTHER -> Hashes

AnswerInv ==
  /\ answer.op \in Ops /\ answer.from \in Hashes /\ answer.error \in BOOLEAN
  /\ answer.values \subseteq ValuesOf(answer.op.call)

\* A program does not read while it has an answer to use.
TurnInv == op = NoOp \/ answer = NoAnswer

----------------------------------------------------------------------------
\* The finalized block is a block, and a line holds blocks, its own first.
LEMMA ChainFacts ==
  ASSUME ChainInv
  PROVE  /\ finalized \in Hashes
         /\ \A b \in Hashes : b \in tree[b].line /\ tree[b].line \subseteq Hashes
         /\ \A b \in Hashes : tree[b] \in BlockRecords /\ b # 0 /\ tree[b].number \in Nat
         /\ Hashes = 1..Len(tree) /\ Len(tree) \in Nat
  <1>1. \A b \in Hashes : b \in tree[b].line /\ tree[b].line \subseteq Hashes
    BY DEF ChainInv, IsTree, Hashes
  <1>2. Hashes = 1..Len(tree) /\ Len(tree) \in Nat
    BY DEF ChainInv, Hashes
  <1>3. \A b \in Hashes : tree[b] \in BlockRecords /\ b # 0
    BY DEF ChainInv, Hashes
  <1>4. \A b \in Hashes : tree[b].number \in Nat
    BY <1>3 DEF BlockRecords
  <1> QED
    BY <1>1, <1>2, <1>3, <1>4 DEF ChainInv

\* Of two blocks on the line of b, the lower one is behind the other.
LEMMA LowerIsBehind ==
  ASSUME ChainInv, NEW b \in Hashes, NEW a \in tree[b].line, NEW c \in tree[b].line,
         tree[a].number <= tree[c].number
  PROVE  a \in tree[c].line
  BY DEF ChainInv, IsTree, Hashes

\* What is behind a block on a line is on that line.
LEMMA LinesNest ==
  ASSUME ChainInv, NEW b \in Hashes, NEW a \in tree[b].line
  PROVE  tree[a].line \subseteq tree[b].line
  BY DEF ChainInv, IsTree, Hashes

\* What a step may not do to the blocks.
Grows ==
  /\ Hashes \subseteq Hashes'
  /\ \A b \in Hashes : tree'[b] = tree[b]
  /\ tree[finalized].line \subseteq tree'[finalized'].line

\* An import adds a block with the line of its parent and itself, and changes
\* no other.
LEMMA ImportChain ==
  ASSUME ChainInv, NEW parent \in Hashes, NEW items \in Changes, Import(parent, items)
  PROVE  ChainInv' /\ Grows
  <1> DEFINE state == tree[parent].state
             n == Len(tree) + 1
             e == [number |-> tree[parent].number + 1, line |-> tree[parent].line \cup {n},
                   state  |-> (state \ items) \cup (items \ state)]
  <1>1. /\ tree' = Append(tree, e) /\ best' \in {best, n} /\ finalized' = finalized
        /\ finalized \in tree[parent].line
    BY DEF Import, Ancestor
  <1>2. /\ tree[parent] \in BlockRecords /\ parent \in Nat /\ tree \in Seq(BlockRecords)
        /\ n \in Nat /\ tree[parent].line \subseteq Hashes
    BY ChainFacts DEF ChainInv
  <1>3. items \subseteq DOMAIN Items
    BY ItemsAssumption
  <1>4. /\ e \in BlockRecords /\ e.line = tree[parent].line \cup {n}
        /\ e.number = tree[parent].number + 1
    BY <1>2, <1>3 DEF BlockRecords
  <1> HIDE DEF e
  <1>5. /\ tree' \in Seq(BlockRecords)
        /\ Hashes' = Hashes \cup {n} /\ n \notin Hashes /\ tree'[n] = e
        /\ \A b \in Hashes : tree'[b] = tree[b]
    BY <1>1, <1>2, <1>4 DEF Hashes
  <1>6. IsTree(tree')
    <2>1. ASSUME NEW b \in Hashes
          PROVE  /\ b \in tree'[b].line /\ tree'[b].line \subseteq Hashes'
                 /\ \A a \in tree'[b].line : /\ tree'[a].line \subseteq tree'[b].line
                                             /\ tree'[a].number <= tree'[b].number
                 /\ \A a, c \in tree'[b].line :
                      tree'[a].number <= tree'[c].number => a \in tree'[c].line
      BY <1>5, <2>1 DEF ChainInv, IsTree, Hashes
    <2>2. \A a \in tree[parent].line :
            /\ tree'[a] = tree[a] /\ tree[a].line \subseteq tree[parent].line
            /\ tree[a].number <= tree[parent].number /\ tree[a].number \in Nat
      BY <1>2, <1>5, ChainFacts DEF ChainInv, IsTree, Hashes
    <2>3. tree[parent].number \in Nat /\ tree'[n].number = tree[parent].number + 1
      BY <1>4, <1>5, ChainFacts
    <2>4. \A a, c \in tree[parent].line : tree[a].number <= tree[c].number => a \in tree[c].line
      BY DEF ChainInv, IsTree, Hashes
    <2>5. /\ n \in tree'[n].line /\ tree'[n].line \subseteq Hashes'
          /\ \A a \in tree'[n].line : /\ tree'[a].line \subseteq tree'[n].line
                                      /\ tree'[a].number <= tree'[n].number
      <3>1. tree'[n].line = tree[parent].line \cup {n}
        BY <1>4, <1>5
      <3>2. \A a \in tree[parent].line : tree'[a].number <= tree'[n].number
        BY <2>2, <2>3
      <3> QED
        BY <1>2, <1>5, <2>2, <2>3, <3>1, <3>2
    <2>6. ASSUME NEW a \in tree'[n].line, NEW c \in tree'[n].line,
                 tree'[a].number <= tree'[c].number
          PROVE  a \in tree'[c].line
      <3>1. CASE c = n
        BY <2>6, <3>1
      <3>2. CASE c \in tree[parent].line
        <4>1. tree'[c] = tree[c] /\ tree[c].number <= tree[parent].number /\ tree[c].number \in Nat
          BY <2>2, <3>2
        <4>2. a # n
          BY <2>3, <2>6, <4>1
        <4>3. a \in tree[parent].line
          BY <1>4, <1>5, <4>2
        <4> QED
          BY <2>2, <2>4, <2>6, <3>2, <4>1, <4>3
      <3> QED
        BY <1>4, <1>5, <3>1, <3>2
    <2> QED
      BY <1>5, <2>1, <2>5, <2>6 DEF IsTree, Hashes
  <1>7. best' \in Hashes' /\ finalized' \in tree'[best'].line
    BY <1>1, <1>4, <1>5 DEF ChainInv
  <1> QED
    BY <1>1, <1>5, <1>6, <1>7, ChainFacts DEF ChainInv, Grows

\* A higher block of the best chain has the last finalized one behind it.
LEMMA FinalizeChain ==
  ASSUME ChainInv, NEW h \in Hashes, Finalize(h)
  PROVE  ChainInv' /\ Grows
  <1>1. /\ tree' = tree /\ best' = best /\ finalized' = h
        /\ h \in tree[best].line /\ tree[finalized].number < tree[h].number
    BY DEF Finalize, Ancestor
  <1>2. tree[finalized].number \in Nat /\ tree[h].number \in Nat
    BY ChainFacts
  <1>3. finalized \in tree[h].line
    BY <1>1, <1>2, LowerIsBehind DEF ChainInv
  <1>4. tree[finalized].line \subseteq tree[h].line
    BY <1>3, LinesNest
  <1> QED
    BY <1>1, <1>4 DEF ChainInv, Grows, Hashes

\* Every step keeps the chain, and takes nothing of it back.
LEMMA ChainStep == ChainInv /\ [Next]_vars => ChainInv' /\ Grows
  <1> SUFFICES ASSUME ChainInv, [Next]_vars PROVE ChainInv' /\ Grows
    OBVIOUS
  <1>1. ASSUME UNCHANGED chain PROVE ChainInv' /\ Grows
    BY <1>1 DEF chain, ChainInv, Grows, Hashes
  <1>2. CASE BeginRead \/ get_request \/ get_signed_block \/ UseAnswer
    BY <1>1, <1>2 DEF BeginRead, get_request, get_signed_block, UseAnswer
  <1>3. CASE \E number \in 0..(MaxBlocks + 1) : get_block_hash(number)
    BY <1>1, <1>3 DEF get_block_hash
  <1>4. CASE UNCHANGED vars
    BY <1>1, <1>4 DEF vars
  <1> QED
    BY <1>2, <1>3, <1>4, ImportChain, FinalizeChain DEF Next

----------------------------------------------------------------------------
(***************************************************************************)
(* Operations, requests and answers.                                       *)
(***************************************************************************)
\* What there is to know of an operation: its blocks, and the kinds of entry.
LEMMA ReadOpFacts ==
  ASSUME NEW o \in ReadOps({0} \cup Hashes)
  PROVE  /\ o.call \in {"storage", "proof", "keys", "pairs", "header", "block", "finalizedHead"}
         /\ o.at \in {0} \cup Hashes
         /\ o.call \in {"keys", "pairs"} => o.of \in {"map", "doubleMap"}
  <1>1. CASE \E h \in {0} \cup Hashes : o = BlockOp("header", h) \/ o = BlockOp("block", h)
    BY <1>1 DEF NoOp, BlockOp
  <1>2. CASE o = BlockOp("finalizedHead", 0)
    BY <1>2 DEF NoOp, BlockOp
  <1>3. CASE \/ o \in EntryOps({"storage", "proof"}, {"value"}, {""}, {""}, {0} \cup Hashes)
             \/ o \in EntryOps({"storage", "proof"}, {"map"}, Keys, {""}, {0} \cup Hashes)
             \/ o \in EntryOps({"storage", "proof"}, {"doubleMap"}, Keys, Keys, {0} \cup Hashes)
    BY <1>3 DEF EntryOps
  <1>4. CASE \/ o \in EntryOps({"keys", "pairs"}, {"map"}, {""}, {""}, {0} \cup Hashes)
             \/ o \in EntryOps({"keys", "pairs"}, {"doubleMap"}, Keys, {""}, {0} \cup Hashes)
    BY <1>4 DEF EntryOps
  <1> QED
    BY <1>1, <1>2, <1>3, <1>4 DEF ReadOps

\* What there is to know of any operation, the reads by number included.
LEMMA OpFacts ==
  ASSUME NEW o \in Ops
  PROVE  /\ o.call \in {"none", "storage", "proof", "keys", "pairs", "header", "block",
                        "finalizedHead", "byNum"}
         /\ o.call = "byNum" => o.at \in 0..(MaxBlocks + 1)
         /\ o.call # "byNum" => o.at \in {0} \cup Hashes
         /\ o.call \in {"keys", "pairs"} => o.of \in {"map", "doubleMap"}
  <1>1. CASE o = NoOp
    BY <1>1 DEF NoOp
  <1>2. CASE o \in ReadOps({0} \cup Hashes)
    BY <1>2, ReadOpFacts
  <1>3. CASE \E n \in 0..(MaxBlocks + 1) : o = BlockOp("byNum", n)
    BY <1>3 DEF NoOp, BlockOp
  <1> QED
    BY <1>1, <1>2, <1>3 DEF Ops

\* An operation may be asked for again when the chain has grown.
LEMMA ReadOpsGrow ==
  ASSUME NEW A, NEW B, A \subseteq B
  PROVE  ReadOps(A) \subseteq ReadOps(B)
  <1>1. \A calls, of, firsts, seconds :
          EntryOps(calls, of, firsts, seconds, A) \subseteq EntryOps(calls, of, firsts, seconds, B)
    BY DEF EntryOps
  <1>2. /\ {BlockOp("header", h) : h \in A} \subseteq {BlockOp("header", h) : h \in B}
        /\ {BlockOp("block", h) : h \in A} \subseteq {BlockOp("block", h) : h \in B}
    OBVIOUS
  <1>3. /\ EntryOps({"storage", "proof"}, {"value"}, {""}, {""}, A)
             \subseteq EntryOps({"storage", "proof"}, {"value"}, {""}, {""}, B)
        /\ EntryOps({"storage", "proof"}, {"map"}, Keys, {""}, A)
             \subseteq EntryOps({"storage", "proof"}, {"map"}, Keys, {""}, B)
        /\ EntryOps({"storage", "proof"}, {"doubleMap"}, Keys, Keys, A)
             \subseteq EntryOps({"storage", "proof"}, {"doubleMap"}, Keys, Keys, B)
        /\ EntryOps({"keys", "pairs"}, {"map"}, {""}, {""}, A)
             \subseteq EntryOps({"keys", "pairs"}, {"map"}, {""}, {""}, B)
        /\ EntryOps({"keys", "pairs"}, {"doubleMap"}, Keys, {""}, A)
             \subseteq EntryOps({"keys", "pairs"}, {"doubleMap"}, Keys, {""}, B)
    BY <1>1
  <1> QED
    BY <1>2, <1>3 DEF ReadOps

\* Operations stay operations when blocks are added.
LEMMA OpsGrow ==
  ASSUME Hashes \subseteq Hashes'
  PROVE  Ops \subseteq Ops'
  <1>1. ReadOps({0} \cup Hashes) \subseteq ReadOps({0} \cup Hashes')
    BY ReadOpsGrow
  <1> QED
    BY <1>1 DEF Ops

\* A request asks for the block of its operation.
LEMMA RequestFacts ==
  ASSUME NEW o \in Ops, o.call \notin {"none", "byNum"}, NEW r \in Requests(o)
  PROVE  /\ o.call = "finalizedHead" =>
              r.method = "chain_getFinalizedHead" /\ Block(r) = finalized
         /\ o.call # "finalizedHead" => Block(r) = At(o.at)
         /\ o.call = "storage" => r.method = "state_getStorage"
         /\ o.call = "proof" => r.method = "state_getReadProof"
         /\ o.call = "keys" => r.method = "state_getKeys"
         /\ o.call = "pairs" => r.method = "state_getPairs"
         /\ o.call = "header" => r.method = "chain_getHeader"
         /\ o.call = "block" => r.method = "chain_getBlock"
  <1>1. o.call \in {"storage", "proof", "keys", "pairs", "header", "block", "finalizedHead"}
    BY OpFacts
  <1>2. \A a, b : Last(<<a, b>>) = b /\ Last(<<a>>) = a
    BY DEF Last
  <1>3. CASE o.call = "storage"
    <2>1. PICK key : r = [method |-> "state_getStorage", params |-> <<key, o.at>>]
      BY <1>3 DEF Requests, get_opaque_storage_by_key_hash, state_get_storage, json_req
    <2> QED
      BY <1>2, <1>3, <2>1 DEF Block
  <1>4. CASE o.call = "proof"
    <2>1. PICK key : r = [method |-> "state_getReadProof", params |-> <<{key}, o.at>>]
      BY <1>4 DEF Requests, get_storage_proof_by_keys, state_get_read_proof, json_req
    <2> QED
      BY <1>2, <1>4, <2>1 DEF Block
  <1>5. CASE o.call = "keys"
    <2>1. PICK key : r = [method |-> "state_getKeys", params |-> <<key, o.at>>]
      BY <1>5 DEF Requests, get_keys, state_get_keys, json_req
    <2> QED
      BY <1>2, <1>5, <2>1 DEF Block
  <1>6. CASE o.call = "pairs"
    <2>1. PICK key : r = [method |-> "state_getPairs", params |-> <<key, o.at>>]
      BY <1>6 DEF Requests, get_opaque_storage_pairs_by_key_hash, state_get_pairs, json_req
    <2> QED
      BY <1>2, <1>6, <2>1 DEF Block
  <1>7. CASE o.call = "header"
    <2>1. r = [method |-> "chain_getHeader", params |-> <<o.at>>]
      BY <1>7 DEF Requests, get_header, chain_get_header, json_req
    <2> QED
      BY <1>2, <1>7, <2>1 DEF Block
  <1>8. CASE o.call = "block"
    <2>1. r = [method |-> "chain_getBlock", params |-> <<o.at>>]
      BY <1>8 DEF Requests, get_block, chain_get_block, json_req
    <2> QED
      BY <1>2, <1>8, <2>1 DEF Block
  <1>9. CASE o.call = "finalizedHead"
    <2>1. r = [method |-> "chain_getFinalizedHead", params |-> <<>>]
      BY <1>9 DEF Requests, get_finalized_head, chain_get_finalized_head, json_req
    <2> QED
      BY <1>9, <2>1 DEF Block
  <1> QED
    BY <1>1, <1>3, <1>4, <1>5, <1>6, <1>7, <1>8, <1>9

\* What the node serves: items of the state of the block, or the block.
LEMMA ServeFacts ==
  ASSUME NEW r, Block(r) \in Hashes, tree[Block(r)].state \subseteq DOMAIN Items
  PROVE  /\ r.method \in {"state_getStorage", "state_getReadProof", "state_getPairs"} =>
              Serve(r) \subseteq DOMAIN Items
         /\ r.method \in {"chain_getHeader", "chain_getBlock", "chain_getFinalizedHead"} =>
              Serve(r) = {Block(r)}
  <1>1. ASSUME r.method = "state_getStorage" PROVE Serve(r) \subseteq DOMAIN Items
    BY <1>1 DEF Serve
  <1>2. ASSUME r.method = "state_getReadProof" PROVE Serve(r) \subseteq DOMAIN Items
    BY <1>2 DEF Serve
  <1>3. ASSUME r.method = "state_getPairs" PROVE Serve(r) \subseteq DOMAIN Items
    BY <1>3 DEF Serve
  <1>4. ASSUME r.method \in {"chain_getHeader", "chain_getBlock", "chain_getFinalizedHead"}
        PROVE  Serve(r) = {Block(r)}
    BY <1>4 DEF Serve
  <1> QED
    BY <1>1, <1>2, <1>3, <1>4

\* The identifiers read from keys are keys of the program.
LEMMA IdentifierFacts ==
  ASSUME NEW o, o.call = "keys", o.of \in {"map", "doubleMap"}, NEW values
  PROVE  Read(o, values) \subseteq Keys
  <1>1. \A input : decode(input) \subseteq Keys
    BY DEF decode
  <1>2. \A key : Identifiers(o, key) \subseteq Keys
    BY <1>1 DEF Identifiers, extract_map_identifier, extract_double_map_identifier
  <1> QED
    BY <1>2 DEF Read

----------------------------------------------------------------------------
(***************************************************************************)
(* Keys: what the client asks for is where the runtime keeps it.           *)
(***************************************************************************)
HashUnits ==
  {"twox", "blake2_128", "blake2_256"} \X {Enc[k] : k \in Keys} \X (1..4)

NameUnits ==
  {"twox"} \X ({Name(e.pallet) : e \in Entries} \cup {Name(e.name) : e \in Entries}) \X (1..4)

Units == (UNION {Range(Enc[k]) : k \in Keys}) \cup HashUnits \cup NameUnits

\* s is a and then b.
Joins(s, a, b) == s = a \o b

\* Where the items of a concatenation are.
LEMMA ConcatFacts ==
  ASSUME NEW S, NEW a \in Seq(S), NEW b \in Seq(S)
  PROVE  /\ a \o b \in Seq(S) /\ Len(a \o b) = Len(a) + Len(b)
         /\ \A i \in 1..Len(a) : (a \o b)[i] = a[i]
         /\ \A i \in 1..Len(b) : (a \o b)[Len(a) + i] = b[i]
         /\ SubSeq(a \o b, Len(a) + 1, Len(a \o b)) = b
         /\ a \o <<>> = a
  OBVIOUS

\* The items of the second part.
LEMMA ConcatAt ==
  ASSUME NEW S, NEW a \in Seq(S), NEW b \in Seq(S), NEW i \in 1..Len(b)
  PROVE  (a \o b)[Len(a) + i] = b[i]
  OBVIOUS

\* Sequences of the same items are the same.
LEMMA SeqEqual ==
  ASSUME NEW S, NEW a \in Seq(S), NEW b \in Seq(S), Len(a) = Len(b),
         \A i \in 1..Len(a) : a[i] = b[i]
  PROVE  a = b
  OBVIOUS

\* Sequences of one and of two.
IsOne(s, a) == s = <<a>>
IsTwo(s, a, b) == s = <<a, b>>

\* A sequence of one, by its length and its item.
LEMMA OneFacts ==
  ASSUME NEW S, NEW s \in Seq(S), NEW a
  PROVE  IsOne(s, a) <=> Len(s) = 1 /\ s[1] = a
  <1>1. ASSUME Len(s) = 1, s[1] = a PROVE s = <<a>>
    BY <1>1
  <1> QED
    BY <1>1 DEF IsOne

\* A sequence of two, by its length and its items.
LEMMA TwoFacts ==
  ASSUME NEW S, NEW s \in Seq(S), NEW a, NEW b
  PROVE  IsTwo(s, a, b) <=> Len(s) = 2 /\ s[1] = a /\ s[2] = b
  <1>1. ASSUME Len(s) = 2, s[1] = a, s[2] = b PROVE s = <<a, b>>
    BY <1>1
  <1> QED
    BY <1>1 DEF IsTwo

\* A sequence that has the items of two, one after the other, is their
\* concatenation.
LEMMA IsConcat ==
  ASSUME NEW S, NEW a \in Seq(S), NEW b \in Seq(S), NEW s \in Seq(S),
         Len(s) = Len(a) + Len(b),
         \A i \in 1..Len(a) : s[i] = a[i],
         \A i \in 1..Len(b) : s[Len(a) + i] = b[i]
  PROVE  s = a \o b
  <1> DEFINE t == a \o b
  <1>1. /\ t \in Seq(S) /\ Len(t) = Len(a) + Len(b)
        /\ \A i \in 1..Len(a) : t[i] = a[i]
    BY ConcatFacts
  <1>2. \A i \in 1..Len(b) : t[Len(a) + i] = b[i]
    BY ConcatAt
  <1> HIDE DEF t
  <1>3. ASSUME NEW i \in 1..Len(s) PROVE s[i] = t[i]
    <2>1. CASE i <= Len(a)
      BY <1>1, <2>1
    <2>2. CASE i > Len(a)
      <3>1. i - Len(a) \in 1..Len(b) /\ i = Len(a) + (i - Len(a))
        BY <2>2
      <3>2. s[Len(a) + (i - Len(a))] = t[Len(a) + (i - Len(a))]
        BY <1>2, <3>1
      <3> QED
        BY <3>1, <3>2
    <2> QED
      BY <2>1, <2>2
  <1>4. s = t
    BY <1>1, <1>3, SeqEqual
  <1> QED
    BY <1>4 DEF t

\* Two ways to cut one sequence.
LEMMA SameCut ==
  ASSUME NEW S, NEW a \in Seq(S), NEW b \in Seq(S), NEW c \in Seq(S), NEW d \in Seq(S),
         a \o b = c \o d, Len(a) = Len(c)
  PROVE  a = c /\ b = d
  <1>1. Len(b) = Len(d)
    BY ConcatFacts
  <1>2. \A i \in 1..Len(a) : a[i] = c[i]
    BY ConcatFacts
  <1>3. ASSUME NEW i \in 1..Len(b) PROVE b[i] = d[i]
    <2>1. (a \o b)[Len(a) + i] = b[i]
      BY ConcatAt
    <2>2. (c \o d)[Len(c) + i] = d[i]
      BY <1>1, ConcatAt
    <2> QED
      BY <2>1, <2>2
  <1>4. a = c
    BY <1>2, SeqEqual
  <1>5. b = d
    BY <1>1, <1>3, SeqEqual
  <1> QED
    BY <1>4, <1>5

\* A prefix is what can be continued to the whole.
LEMMA PrefixFacts ==
  ASSUME NEW S, NEW a \in Seq(S), NEW c \in Seq(S)
  PROVE  IsPrefix(a, c) <=> \E b \in Seq(S) : c = a \o b
  <1>1. ASSUME NEW b \in Seq(S), c = a \o b
        PROVE  IsPrefix(a, c)
    BY <1>1, ConcatFacts DEF IsPrefix
  <1>2. ASSUME IsPrefix(a, c)
        PROVE  \E b \in Seq(S) : c = a \o b
    <2>1. Len(a) <= Len(c) /\ \A i \in 1..Len(a) : a[i] = c[i]
      <3>1. Len(a) <= Len(c) /\ SubSeq(a, 1, Len(a)) = SubSeq(c, 1, Len(a))
        BY <1>2 DEF IsPrefix
      <3>2. ASSUME NEW i \in 1..Len(a) PROVE a[i] = c[i]
        <4>1. SubSeq(a, 1, Len(a))[i] = a[i] /\ SubSeq(c, 1, Len(a))[i] = c[i]
          BY <3>1
        <4> QED
          BY <3>1, <4>1
      <3> QED
        BY <3>1, <3>2
    <2> DEFINE b == SubSeq(c, Len(a) + 1, Len(c))
    <2>2. b \in Seq(S) /\ Len(b) = Len(c) - Len(a) /\ \A i \in 1..Len(b) : b[i] = c[Len(a) + i]
      BY <2>1
    <2> HIDE DEF b
    <2>3. c = a \o b
      <3>1. /\ Len(c) = Len(a) + Len(b)
            /\ \A i \in 1..Len(a) : c[i] = a[i]
            /\ \A i \in 1..Len(b) : c[Len(a) + i] = b[i]
        BY <2>1, <2>2
      <3> QED
        BY <2>2, <3>1, IsConcat
    <2> QED
      BY <2>2, <2>3
  <1> QED
    BY <1>1, <1>2

\* Of two beginnings of one sequence, the shorter begins the longer.
LEMMA ShorterIsPrefix ==
  ASSUME NEW S, NEW a \in Seq(S), NEW b \in Seq(S), NEW c \in Seq(S), NEW d \in Seq(S),
         a \o b = c \o d, Len(a) <= Len(c)
  PROVE  IsPrefix(a, c)
  <1>1. ASSUME NEW i \in 1..Len(a) PROVE a[i] = c[i]
    <2>1. i \in 1..Len(c)
      OBVIOUS
    <2>2. (a \o b)[i] = a[i]
      BY ConcatFacts
    <2>3. (c \o d)[i] = c[i]
      BY <2>1, ConcatFacts
    <2> QED
      BY <2>2, <2>3
  <1>2. SubSeq(a, 1, Len(a)) = SubSeq(c, 1, Len(a))
    BY <1>1
  <1> QED
    BY <1>2 DEF IsPrefix

----------------------------------------------------------------------------
\* A key has a non-empty encoding.
LEMMA EncFacts ==
  ASSUME NEW k \in Keys
  PROVE  /\ Enc[k] \in Seq(Units) /\ Enc[k] # <<>> /\ Len(Enc[k]) > 0
  <1>1. Enc[k] \in Seq(Range(Enc[k])) /\ Enc[k] # <<>>
    BY EncAssumption
  <1>2. Range(Enc[k]) \subseteq Units
    BY DEF Units
  <1> HIDE DEF Units
  <1> QED
    BY <1>1, <1>2

\* A hash has as many units as its width, and each of them tells its input.
LEMMA HashType ==
  ASSUME NEW a \in {"twox", "blake2_128", "blake2_256"}, NEW k \in Keys, NEW n \in 0..4
  PROVE  /\ Hash(a, Enc[k], n) \in Seq(Units) /\ Len(Hash(a, Enc[k], n)) = n
         /\ \A i \in 1..n : Hash(a, Enc[k], n)[i] = <<a, Enc[k], i>>
  <1>1. ASSUME NEW i \in 1..n PROVE <<a, Enc[k], i>> \in Units
    <2>1. i \in 1..4
      OBVIOUS
    <2>2. Enc[k] \in {Enc[l] : l \in Keys}
      OBVIOUS
    <2>3. <<a, Enc[k], i>> \in HashUnits
      BY <2>1, <2>2 DEF HashUnits
    <2> QED
      BY <2>3 DEF Units
  <1> HIDE DEF Units
  <1> QED
    BY <1>1 DEF Hash

\* What the runtime hashes a key to is what key_hash makes of it; all but
\* Identity begin with a hash.
LEMMA HashFacts ==
  ASSUME NEW h \in Hashers, NEW k \in Keys
  PROVE  /\ RuntimeHash(h, k) \in Seq(Units)
         /\ h # "Identity" => RuntimeHash(h, k)[1] = <<Algorithm(h), Enc[k], 1>>
         /\ h = "Identity" => RuntimeHash(h, k) = Enc[k]
         /\ Len(RuntimeHash(h, k)) > 0
         /\ key_hash(k, h) = RuntimeHash(h, k)
         /\ h = "Twox64Concat" => RuntimeHash(h, k) = Hash("twox", Enc[k], 1) \o Enc[k]
         /\ h = "Blake2_128Concat" => RuntimeHash(h, k) = Hash("blake2_128", Enc[k], 2) \o Enc[k]
  <1>1. Algorithm(h) \in {"twox", "blake2_128", "blake2_256"}
    BY DEF Algorithm
  <1>2. Width[h] \in 0..4 /\ (h # "Identity" => Width[h] >= 1) /\ (h = "Identity" => Width[h] = 0)
    BY DEF Width, Hashers
  <1> DEFINE s == Hash(Algorithm(h), Enc[k], Width[h])
             t == IF h \in Concat \cup {"Identity"} THEN Enc[k] ELSE <<>>
  <1>3. /\ s \in Seq(Units) /\ Len(s) = Width[h]
        /\ \A i \in 1..Width[h] : s[i] = <<Algorithm(h), Enc[k], i>>
    BY <1>1, <1>2, HashType
  <1>4. t \in Seq(Units) /\ (h = "Identity" => t = Enc[k])
    BY EncFacts
  <1>5. RuntimeHash(h, k) = s \o t
    BY DEF RuntimeHash
  <1> HIDE DEF s, t
  <1>6. /\ RuntimeHash(h, k) \in Seq(Units) /\ Len(RuntimeHash(h, k)) > 0
        /\ h # "Identity" => RuntimeHash(h, k)[1] = <<Algorithm(h), Enc[k], 1>>
        /\ h = "Identity" => RuntimeHash(h, k) = Enc[k]
    <2>1. RuntimeHash(h, k) \in Seq(Units) /\ Len(RuntimeHash(h, k)) = Width[h] + Len(t)
      BY <1>3, <1>4, <1>5
    <2>2. CASE h = "Identity"
      <3>1. Len(s) = 0 /\ t = Enc[k] /\ Len(t) > 0
        BY <1>2, <1>3, <1>4, <2>2, EncFacts
      <3>2. s \o t = t
        BY <1>3, <1>4, <3>1
      <3> QED
        BY <1>2, <1>5, <2>1, <2>2, <3>1, <3>2
    <2>3. CASE h # "Identity"
      <3>1. (s \o t)[1] = s[1]
        BY <1>2, <1>3, <1>4, <2>3, ConcatFacts
      <3>2. s[1] = <<Algorithm(h), Enc[k], 1>>
        BY <1>2, <1>3, <2>3
      <3>3. Len(t) \in Nat /\ Width[h] >= 1
        BY <1>2, <1>4, <2>3
      <3> QED
        BY <1>2, <1>5, <2>1, <2>3, <3>1, <3>2, <3>3
    <2> QED
      BY <2>2, <2>3
  <1>7. /\ h = "Twox64Concat" => RuntimeHash(h, k) = Hash("twox", Enc[k], 1) \o Enc[k]
        /\ h = "Blake2_128Concat" => RuntimeHash(h, k) = Hash("blake2_128", Enc[k], 2) \o Enc[k]
    <2>1. h = "Twox64Concat" => Width[h] = 1 /\ Algorithm(h) = "twox" /\ h \in Concat
      BY DEF Width, Algorithm, Concat
    <2>2. h = "Blake2_128Concat" => Width[h] = 2 /\ Algorithm(h) = "blake2_128" /\ h \in Concat
      BY DEF Width, Algorithm, Concat
    <2> QED
      BY <1>5, <2>1, <2>2 DEF s, t
  <1>8. key_hash(k, h) = RuntimeHash(h, k)
    <2>1. CASE h = "Identity"
      BY <1>6, <2>1 DEF key_hash
    <2>2. CASE h \in {"Blake2_128Concat", "Twox64Concat"}
      BY <1>7, <2>2 DEF key_hash
    <2>3. CASE h \in {"Blake2_128", "Blake2_256", "Twox128", "Twox256"}
      <3>1. s \o t = s /\ t = <<>>
        BY <1>3, <2>3 DEF Concat, t
      <3>2. key_hash(k, h) = s
        BY <2>3 DEF key_hash, s, Width, Algorithm
      <3> QED
        BY <1>5, <3>1, <3>2
    <2> QED
      BY <2>1, <2>2, <2>3 DEF Hashers
  <1> QED
    BY <1>6, <1>7, <1>8

\* A hashed key tells the key, whatever follows it.
LEMMA HashTellsKey ==
  ASSUME NEW h \in Hashers, NEW k \in Keys, NEW l \in Keys,
         NEW r \in Seq(Units), NEW t \in Seq(Units), NEW s,
         Joins(s, RuntimeHash(h, k), r), Joins(s, RuntimeHash(h, l), t)
  PROVE  k = l /\ r = t
  <1> DEFINE a == RuntimeHash(h, k)
             c == RuntimeHash(h, l)
  <1>1. /\ a \in Seq(Units) /\ c \in Seq(Units) /\ Len(a) > 0 /\ Len(c) > 0
    BY HashFacts
  <1>2. Enc[k] \in Seq(Units) /\ Enc[l] \in Seq(Units)
    BY EncFacts
  <1>3. IsPrefix(Enc[k], Enc[l]) \/ IsPrefix(Enc[l], Enc[k])
    <2>1. CASE h = "Identity"
      <3>1. a = Enc[k] /\ c = Enc[l]
        BY <2>1, HashFacts
      <3> HIDE DEF a, c
      <3>2. CASE Len(a) <= Len(c)
        BY <1>1, <3>1, <3>2, ShorterIsPrefix DEF a, c, Joins
      <3>3. CASE Len(c) <= Len(a)
        BY <1>1, <3>1, <3>3, ShorterIsPrefix DEF a, c, Joins
      <3> QED
        BY <1>1, <3>2, <3>3
    <2>2. CASE h # "Identity"
      <3>1. (a \o r)[1] = a[1] /\ (c \o t)[1] = c[1]
        BY <1>1, ConcatFacts
      <3>2. a[1] = <<Algorithm(h), Enc[k], 1>> /\ c[1] = <<Algorithm(h), Enc[l], 1>>
        BY <2>2, HashFacts
      <3>3. <<Algorithm(h), Enc[k], 1>> = <<Algorithm(h), Enc[l], 1>>
        BY <3>1, <3>2, Zenon DEF Joins
      <3>4. Enc[k] = Enc[l]
        BY <3>3
      <3> QED
        BY <1>2, <3>4 DEF IsPrefix
    <2> QED
      BY <2>1, <2>2
  <1>4. k = l
    BY <1>3, EncAssumption
  <1> QED
    BY <1>1, <1>4, SameCut DEF Joins

----------------------------------------------------------------------------
\* Induction over the natural numbers, for a set.
LEMMA SetInduction ==
  ASSUME NEW T, 0 \in T, \A n \in Nat : n \in T => n + 1 \in T
  PROVE  Nat \subseteq T
  <1> DEFINE R == {ss \in Nat \X Nat : ss[1] < ss[2]}
             Bad == {n \in Nat : n \notin T}
  <1>1. IsWellFoundedOn(R, Nat)
    BY NatLessThanWellFounded DEF OpToRel
  <1> HIDE DEF R
  <1>2. SUFFICES ASSUME Bad # {} PROVE FALSE
    OBVIOUS
  <1>3. PICK x \in Bad : \A y \in Bad : ~ (<<y, x>> \in R)
    BY <1>1, <1>2, WFMin
  <1>4. x # 0 /\ x \in Nat
    OBVIOUS
  <1>5. x - 1 \in Nat /\ x - 1 < x /\ (x - 1) + 1 = x
    BY <1>4
  <1>6. <<x - 1, x>> \in R
    BY <1>4, <1>5 DEF R
  <1>7. x - 1 \in T
    BY <1>3, <1>5, <1>6
  <1>8. x \in T
    BY <1>5, <1>7
  <1> QED
    BY <1>8

\* The definition of the recursive function, for a sequence of keys of any
\* length.
LEMMA HashedKeysDef ==
  ASSUME NEW e, NEW keys \in Seq(Keys)
  PROVE  HashedKeys(e, keys) =
           [n \in 0..Len(keys) |->
              IF n = 0 THEN <<>>
              ELSE RuntimeHash(e.hashers[(Len(keys) - n) + 1], keys[(Len(keys) - n) + 1])
                     \o HashedKeys(e, keys)[n - 1]]
  <1> DEFINE H(n) == RuntimeHash(e.hashers[(Len(keys) - n) + 1], keys[(Len(keys) - n) + 1])
             Good(f, m) == f = [n \in 0..m |-> IF n = 0 THEN <<>> ELSE H(n) \o f[n - 1]]
             T == {m \in Nat : \E f : Good(f, m)}
  <1> HIDE DEF H
  <1>1. 0 \in T
    <2>1. Good([n \in 0..0 |-> <<>>], 0)
      OBVIOUS
    <2> QED
      BY <2>1
  <1>2. ASSUME NEW m \in Nat, m \in T PROVE m + 1 \in T
    <2>1. PICK f : Good(f, m)
      BY <1>2
    <2> DEFINE g == [n \in 0..(m + 1) |-> IF n = m + 1 THEN H(m + 1) \o f[m] ELSE f[n]]
    <2>2. \A n \in 0..(m + 1) : g[n] = IF n = 0 THEN <<>> ELSE H(n) \o g[n - 1]
      <3>1. ASSUME NEW n \in 0..m PROVE g[n] = IF n = 0 THEN <<>> ELSE H(n) \o g[n - 1]
        <4>1. g[n] = f[n] /\ (n # 0 => g[n - 1] = f[n - 1])
          OBVIOUS
        <4>2. f[n] = IF n = 0 THEN <<>> ELSE H(n) \o f[n - 1]
          BY <2>1
        <4> QED
          BY <4>1, <4>2
      <3>2. g[m + 1] = H(m + 1) \o g[(m + 1) - 1] /\ m + 1 # 0
        OBVIOUS
      <3> HIDE DEF g
      <3>3. \A n \in 0..(m + 1) : n \in 0..m \/ n = m + 1
        OBVIOUS
      <3>4. g[m + 1] = IF m + 1 = 0 THEN <<>> ELSE H(m + 1) \o g[(m + 1) - 1]
        BY <3>2
      <3> QED
        BY <3>1, <3>3, <3>4, Zenon
    <2>3. g = [n \in 0..(m + 1) |-> g[n]]
      OBVIOUS
    <2> HIDE DEF g
    <2>4. Good(g, m + 1)
      BY <2>2, <2>3
    <2>5. m + 1 \in Nat
      OBVIOUS
    <2> HIDE DEF Good
    <2> QED
      BY <2>4, <2>5
  <1>3. Nat \subseteq T
    <2> HIDE DEF T
    <2> QED
      BY <1>1, <1>2, SetInduction
  <1>4. \E f : Good(f, Len(keys))
    <2> HIDE DEF T
    <2>1. Len(keys) \in T
      BY <1>3
    <2> USE DEF T
    <2> HIDE DEF Good
    <2> QED
      BY <2>1
  <1>5. HashedKeys(e, keys) = CHOOSE f : Good(f, Len(keys))
    BY DEF HashedKeys, H
  <1>6. Good(HashedKeys(e, keys), Len(keys))
    BY <1>4, <1>5
  <1> QED
    BY <1>6 DEF H

----------------------------------------------------------------------------
\* Concatenation is associative.
LEMMA ConcatAssoc ==
  ASSUME NEW S, NEW a \in Seq(S), NEW b \in Seq(S), NEW c \in Seq(S)
  PROVE  (a \o b) \o c = a \o (b \o c)
  OBVIOUS

\* The pallet and the name of an entry are in its prefix, 4 units long.
LEMMA PrefixType ==
  ASSUME NEW e \in Entries
  PROVE  /\ Prefix(e) \in Seq(Units) /\ Len(Prefix(e)) = 4
         /\ Prefix(e)[1] = <<"twox", Name(e.pallet), 1>>
         /\ Prefix(e)[3] = <<"twox", Name(e.name), 1>>
  <1> DEFINE P == twox_128(Name(e.pallet))
             N == twox_128(Name(e.name))
  <1>1. ASSUME NEW i \in 1..2
        PROVE  <<"twox", Name(e.pallet), i>> \in Units /\ <<"twox", Name(e.name), i>> \in Units
    <2>1. <<"twox", Name(e.pallet), i>> \in NameUnits /\ <<"twox", Name(e.name), i>> \in NameUnits
      BY DEF NameUnits
    <2> QED
      BY <2>1 DEF Units
  <1>2. /\ P \in Seq(Units) /\ Len(P) = 2 /\ P[1] = <<"twox", Name(e.pallet), 1>>
        /\ N \in Seq(Units) /\ Len(N) = 2 /\ N[1] = <<"twox", Name(e.name), 1>>
    BY <1>1 DEF twox_128, Hash
  <1>3. Prefix(e) = P \o N
    BY DEF Prefix
  <1> HIDE DEF P, N
  <1>4. 1 \in 1..Len(N) /\ 1 \in 1..Len(P) /\ Len(P) + 1 = 3
    BY <1>2
  <1>0. P \in Seq(Units) /\ N \in Seq(Units)
    BY <1>2
  <1>5. (P \o N)[Len(P) + 1] = N[1]
    BY <1>0, <1>4, ConcatAt
  <1>6. (P \o N)[1] = P[1] /\ P \o N \in Seq(Units) /\ Len(P \o N) = Len(P) + Len(N)
    BY <1>0, <1>4, ConcatFacts
  <1> QED
    BY <1>2, <1>3, <1>4, <1>5, <1>6

\* What begins with the prefix of an entry does not begin with that of
\* another.
LEMMA PrefixTellsEntry ==
  ASSUME NEW e \in Entries, NEW f \in Entries, NEW r \in Seq(Units), NEW t \in Seq(Units),
         Prefix(e) \o r = Prefix(f) \o t
  PROVE  e = f /\ r = t
  <1>1. Prefix(e) = Prefix(f) /\ r = t
    <2>1. /\ Prefix(e) \in Seq(Units) /\ Prefix(f) \in Seq(Units)
          /\ Len(Prefix(e)) = Len(Prefix(f))
      BY PrefixType
    <2> QED
      BY <2>1, SameCut
  <1>2. /\ <<"twox", Name(e.pallet), 1>> = <<"twox", Name(f.pallet), 1>>
        /\ <<"twox", Name(e.name), 1>> = <<"twox", Name(f.name), 1>>
    BY <1>1, PrefixType
  <1>3. Name(e.pallet) = Name(f.pallet) /\ Name(e.name) = Name(f.name)
    BY <1>2
  <1>4. \A m, n : Name(m) = Name(n) => m = n
    BY DEF Name
  <1> QED
    BY <1>1, <1>3, <1>4, EncAssumption

\* Where item i is kept, after the prefix: its last m keys.
KeyTail(i, m) == HashedKeys(Items[i].entry, Items[i].keys)[m]

\* An item has as many keys as its entry has hashers, and its key ends with
\* them hashed.
LEMMA ItemFacts ==
  ASSUME NEW i \in DOMAIN Items
  PROVE  LET e == Items[i].entry
             n == Len(Items[i].keys)
         IN /\ e \in Entries /\ e.hashers \in Seq(Hashers) /\ Len(e.hashers) = n /\ n \in Nat
            /\ \A m \in 1..n : e.hashers[m] \in Hashers /\ Items[i].keys[m] \in Keys
            /\ KeyTail(i, 0) = <<>>
            /\ \A m \in 1..n : KeyTail(i, m) = RuntimeHash(e.hashers[(n - m) + 1],
                                                       Items[i].keys[(n - m) + 1]) \o KeyTail(i, m - 1)
            /\ \A m \in 0..n : KeyTail(i, m) \in Seq(Units)
            /\ \A m \in 1..n : Len(KeyTail(i, m)) > 0
            /\ KeyOf[i] = Prefix(e) \o KeyTail(i, n)
  <1> DEFINE e == Items[i].entry
             n == Len(Items[i].keys)
             F == HashedKeys(e, Items[i].keys)
             H(m) == RuntimeHash(e.hashers[(n - m) + 1], Items[i].keys[(n - m) + 1])
  <1>1. e \in Entries /\ Items[i].keys \in Seq(Keys) /\ n = Len(e.hashers) /\ n \in Nat
    BY ItemsAssumption
  <1>2. e.hashers \in Seq(Hashers)
    BY <1>1, EncAssumption
  <1>3. \A m \in 1..n : e.hashers[m] \in Hashers /\ Items[i].keys[m] \in Keys
    BY <1>1, <1>2
  <1>4. F = [m \in 0..n |-> IF m = 0 THEN <<>> ELSE H(m) \o F[m - 1]]
    BY <1>1, HashedKeysDef
  <1>5. \A m \in 1..n : H(m) \in Seq(Units) /\ Len(H(m)) > 0
    <2> SUFFICES ASSUME NEW m \in 1..n PROVE H(m) \in Seq(Units) /\ Len(H(m)) > 0
      OBVIOUS
    <2>1. (n - m) + 1 \in 1..n
      BY <1>1
    <2> QED
      BY <1>3, <2>1, HashFacts
  <1> HIDE DEF F, H, n
  <1>6. F[0] = <<>> /\ \A m \in 1..n : F[m] = H(m) \o F[m - 1]
    BY <1>1, <1>4
  <1>7. \A m \in 0..n : F[m] \in Seq(Units)
    <2> DEFINE T == {m \in Nat : m <= n => F[m] \in Seq(Units)}
    <2>1. 0 \in T
      <3>1. <<>> \in Seq(Units)
        OBVIOUS
      <3> QED
        BY <1>6, <3>1
    <2>2. ASSUME NEW m \in Nat, m \in T PROVE m + 1 \in T
      <3>1. SUFFICES ASSUME m + 1 <= n PROVE F[m + 1] \in Seq(Units)
        OBVIOUS
      <3>2. m + 1 \in 1..n /\ (m + 1) - 1 = m /\ F[m] \in Seq(Units)
        BY <1>1, <2>2, <3>1
      <3>3. F[m + 1] = H(m + 1) \o F[m]
        BY <1>6, <3>2
      <3> QED
        BY <1>5, <3>2, <3>3, ConcatFacts
    <2> HIDE DEF T
    <2>3. Nat \subseteq T
      BY <2>1, <2>2, SetInduction
    <2> QED
      BY <1>1, <2>3 DEF T
  <1>8. \A m \in 1..n : Len(F[m]) > 0
    <2> SUFFICES ASSUME NEW m \in 1..n PROVE Len(F[m]) > 0
      OBVIOUS
    <2>1. m - 1 \in 0..n
      BY <1>1
    <2>2. Len(H(m) \o F[m - 1]) = Len(H(m)) + Len(F[m - 1]) /\ Len(F[m - 1]) \in Nat
      BY <1>5, <1>7, <2>1, ConcatFacts
    <2> QED
      BY <1>5, <1>6, <2>2
  <1>9. KeyOf[i] = Prefix(e) \o F[n]
    BY DEF KeyOf, RuntimeKey, Prefix, F, n
  <1> QED
    BY <1>1, <1>2, <1>3, <1>6, <1>7, <1>8, <1>9 DEF KeyTail, F, H, n

\* A storage key that begins with the prefix of an entry is of an item of that
\* entry.
LEMMA KeyBegins ==
  ASSUME NEW i \in DOMAIN Items, NEW e \in Entries, NEW r \in Seq(Units)
  PROVE  KeyOf[i] = Prefix(e) \o r
           <=> Items[i].entry = e /\ KeyTail(i, Len(Items[i].keys)) = r
  <1> DEFINE t == KeyTail(i, Len(Items[i].keys))
  <1>1. Len(Items[i].keys) \in 0..Len(Items[i].keys)
    BY ItemFacts
  <1>2. Items[i].entry \in Entries /\ t \in Seq(Units) /\ KeyOf[i] = Prefix(Items[i].entry) \o t
    BY <1>1, ItemFacts
  <1> HIDE DEF t
  <1>3. KeyOf[i] = Prefix(e) \o r => Items[i].entry = e /\ t = r
    BY <1>2, PrefixTellsEntry
  <1> QED
    BY <1>2, <1>3 DEF t

\* What follows begins with a hashed key exactly if that is the next key of
\* the item.
LEMMA TailBegins ==
  ASSUME NEW i \in DOMAIN Items, NEW m \in 1..Len(Items[i].keys), NEW k \in Keys, NEW r \in Seq(Units),
         NEW n \in Nat, n = (Len(Items[i].keys) - m) + 1
  PROVE  Joins(KeyTail(i, m), RuntimeHash(Items[i].entry.hashers[n], k), r)
           <=> Items[i].keys[n] = k /\ KeyTail(i, m - 1) = r
  <1> DEFINE h == Items[i].entry.hashers[n]
             l == Items[i].keys[n]
             t == KeyTail(i, m - 1)
  <1>1. n \in 1..Len(Items[i].keys) /\ m - 1 \in 0..Len(Items[i].keys)
    BY ItemFacts
  <1>2. h \in Hashers /\ l \in Keys /\ t \in Seq(Units)
    BY <1>1, ItemFacts
  <1>3. Joins(KeyTail(i, m), RuntimeHash(h, l), t)
    BY ItemFacts DEF Joins
  <1> HIDE DEF t, h, l
  <1>4. ASSUME Joins(KeyTail(i, m), RuntimeHash(h, k), r) PROVE l = k /\ t = r
    BY <1>2, <1>3, <1>4, HashTellsKey
  <1>5. Joins(KeyTail(i, m), RuntimeHash(h, k), r) <=> l = k /\ t = r
    BY <1>3, <1>4
  <1> QED
    BY <1>5 DEF h, l, t

\* The same for the first key.
LEMMA FirstKey ==
  ASSUME NEW i \in DOMAIN Items, NEW n, n = Len(Items[i].keys), n >= 1,
         NEW k \in Keys, NEW r \in Seq(Units)
  PROVE  Joins(KeyTail(i, n), RuntimeHash(Items[i].entry.hashers[1], k), r)
           <=> Items[i].keys[1] = k /\ KeyTail(i, n - 1) = r
  <1>1. n \in 1..Len(Items[i].keys) /\ 1 = (Len(Items[i].keys) - n) + 1 /\ 1 \in Nat
    BY ItemFacts
  <1> QED
    BY <1>1, TailBegins

\* The same for the second key.
LEMMA SecondKey ==
  ASSUME NEW i \in DOMAIN Items, NEW n, n = Len(Items[i].keys), n >= 2,
         NEW k \in Keys, NEW r \in Seq(Units)
  PROVE  Joins(KeyTail(i, n - 1), RuntimeHash(Items[i].entry.hashers[2], k), r)
           <=> Items[i].keys[2] = k /\ KeyTail(i, n - 2) = r
  <1>1. n - 1 \in 1..Len(Items[i].keys) /\ 2 = (Len(Items[i].keys) - (n - 1)) + 1 /\ 2 \in Nat
        /\ (n - 1) - 1 = n - 2
    BY ItemFacts
  <1> DEFINE m == n - 1
  <1>2. m - 1 = n - 2 /\ m \in 1..Len(Items[i].keys) /\ 2 = (Len(Items[i].keys) - m) + 1
    BY <1>1
  <1> HIDE DEF m
  <1>3. Joins(KeyTail(i, m), RuntimeHash(Items[i].entry.hashers[2], k), r)
           <=> Items[i].keys[2] = k /\ KeyTail(i, m - 1) = r
    BY <1>2, TailBegins
  <1> QED
    BY <1>2, <1>3 DEF m

\* Only no keys make nothing: every hashed key has a unit.
LEMMA TailIsEmpty ==
  ASSUME NEW i \in DOMAIN Items, NEW m \in 0..Len(Items[i].keys)
  PROVE  KeyTail(i, m) = <<>> <=> m = 0
  <1>1. CASE m = 0
    BY <1>1, ItemFacts
  <1>2. CASE m # 0
    <2>1. m \in 1..Len(Items[i].keys)
      BY <1>2
    <2>2. Len(KeyTail(i, m)) > 0
      BY <2>1, ItemFacts
    <2>3. Len(<<>>) = 0
      OBVIOUS
    <2> QED
      BY <1>2, <2>2, <2>3
  <1> QED
    BY <1>1, <1>2

----------------------------------------------------------------------------
IsNamed(o, i) == <<Items[i].entry.pallet, Items[i].entry.name>> = o.name

KeysAsked(o) ==
  CASE o.of = "value" -> <<>>
    [] o.of = "map"   -> <<o.first>>
    [] OTHER -> <<o.first, o.second>>

\* The entry an operation names.
LEMMA EntryFacts ==
  ASSUME NEW o, o.name \in Names
  PROVE  \E e \in Entries : /\ storage(o.name[1], o.name[2]) = {e}
                           /\ \A i \in DOMAIN Items : IsNamed(o, i) <=> Items[i].entry = e
  <1>1. PICK e \in Entries : o.name = <<e.pallet, e.name>>
    BY DEF Names
  <1>2. o.name[1] = e.pallet /\ o.name[2] = e.name
    BY <1>1
  <1>3. storage(o.name[1], o.name[2]) = {e}
    BY <1>2, EncAssumption DEF storage
  <1>4. ASSUME NEW i \in DOMAIN Items
        PROVE  IsNamed(o, i) <=> Items[i].entry = e
    <2>1. Items[i].entry \in Entries
      BY ItemsAssumption
    <2>2. IsNamed(o, i) => Items[i].entry.pallet = e.pallet /\ Items[i].entry.name = e.name
      BY <1>1 DEF IsNamed
    <2>3. IsNamed(o, i) => Items[i].entry = e
      BY <2>1, <2>2, EncAssumption
    <2> QED
      BY <1>1, <2>3 DEF IsNamed
  <1> QED
    BY <1>3, <1>4

\* What an operation on an entry has for arguments.
Asks(o) ==
  /\ o.name \in Names
  /\ o.of \in {"value", "map", "doubleMap"}
  /\ o.of \in {"map", "doubleMap"} => o.first \in Keys
  /\ o.of = "doubleMap" => o.second \in Keys

Lists(o) ==
  /\ o.name \in Names
  /\ o.of \in {"map", "doubleMap"}
  /\ o.of = "doubleMap" => o.first \in Keys

\* Reads of entries ask for an item, listings ask for the items of a map.
LEMMA EntryOpFacts ==
  ASSUME NEW blocks, NEW o \in ReadOps(blocks)
  PROVE  /\ o.call \in {"storage", "proof"} => Asks(o)
         /\ o.call \in {"keys", "pairs"} => Lists(o)
  <1>1. CASE \E h \in blocks : o = BlockOp("header", h) \/ o = BlockOp("block", h)
    BY <1>1 DEF NoOp, BlockOp
  <1>2. CASE o = BlockOp("finalizedHead", 0)
    BY <1>2 DEF NoOp, BlockOp
  <1>3. CASE \/ o \in EntryOps({"storage", "proof"}, {"value"}, {""}, {""}, blocks)
             \/ o \in EntryOps({"storage", "proof"}, {"map"}, Keys, {""}, blocks)
             \/ o \in EntryOps({"storage", "proof"}, {"doubleMap"}, Keys, Keys, blocks)
    BY <1>3 DEF EntryOps, Asks
  <1>4. CASE \/ o \in EntryOps({"keys", "pairs"}, {"map"}, {""}, {""}, blocks)
             \/ o \in EntryOps({"keys", "pairs"}, {"doubleMap"}, Keys, {""}, blocks)
    BY <1>4 DEF EntryOps, Lists
  <1> QED
    BY <1>1, <1>2, <1>3, <1>4 DEF ReadOps

\* The key of a value, a map or a double map is that of the item with the
\* arguments for its keys; without a key there is no such item.
LEMMA StorageKeyFinds ==
  ASSUME NEW o, Asks(o), NEW i \in DOMAIN Items
  PROVE  LET wanted == IsNamed(o, i) /\ Items[i].keys = KeysAsked(o) IN
         /\ \A key \in StorageKey(o) : KeyOf[i] = key <=> wanted
         /\ StorageKey(o) = {} => ~ wanted
  <1> DEFINE ks == Items[i].keys
  <1>0. ks \in Seq(Keys)
    BY ItemsAssumption
  <1>1. PICK e \in Entries : /\ storage(o.name[1], o.name[2]) = {e}
                             /\ IsNamed(o, i) <=> Items[i].entry = e
    BY EntryFacts DEF Asks
  <1>2. /\ ks \in Seq(Keys) /\ Len(ks) \in Nat /\ Len(Items[i].entry.hashers) = Len(ks)
        /\ e.hashers \in Seq(Hashers)
    BY ItemsAssumption, EncAssumption
  <1>3. \A r \in Seq(Units) : KeyOf[i] = Prefix(e) \o r
                               <=> IsNamed(o, i) /\ KeyTail(i, Len(ks)) = r
    BY <1>1, KeyBegins
  <1>4. Prefix(e) \in Seq(Units) /\ Prefix(e) = Prefix(e) \o <<>> /\ <<>> \in Seq(Units)
    BY PrefixType, ConcatFacts
  <1>5. CASE o.of = "value"
    <2>1. StorageKey(o) = get_value(e) /\ KeysAsked(o) = <<>>
      BY <1>1, <1>5 DEF StorageKey, storage_value_key, KeysAsked
    <2>2. IsNamed(o, i) => (ks = <<>> <=> e.hashers = <<>>)
      BY <1>1, <1>2
    <2>3. IsNamed(o, i) => (KeyTail(i, Len(ks)) = <<>> <=> ks = <<>>)
      <3>1. Len(ks) \in 0..Len(ks)
        BY <1>2
      <3> QED
        BY <1>2, <3>1, TailIsEmpty
    <2>4. CASE e.hashers = <<>>
      <3>1. StorageKey(o) = {Prefix(e)}
        BY <2>1, <2>4 DEF get_value
      <3>2. KeyOf[i] = Prefix(e) <=> IsNamed(o, i) /\ KeyTail(i, Len(ks)) = <<>>
        BY <1>3, <1>4
      <3> QED
        BY <2>1, <2>2, <2>3, <2>4, <3>1, <3>2
    <2>5. CASE e.hashers # <<>>
      BY <2>1, <2>2, <2>5 DEF get_value
    <2> QED
      BY <2>4, <2>5
  <1>6. CASE o.of = "map"
    <2>1. StorageKey(o) = get_map(e, o.first) /\ KeysAsked(o) = <<o.first>> /\ o.first \in Keys
      BY <1>1, <1>6 DEF StorageKey, storage_map_key, KeysAsked, Asks
    <2>2. CASE Len(e.hashers) >= 1
      <3> DEFINE h == RuntimeHash(e.hashers[1], o.first)
      <3>1. e.hashers[1] \in Hashers
        BY <1>2, <2>2
      <3>2. h \in Seq(Units) /\ h = key_hash(o.first, e.hashers[1]) /\ h = h \o <<>>
        <4>1. h \in Seq(Units) /\ h = key_hash(o.first, e.hashers[1])
          BY <2>1, <3>1, HashFacts
        <4> HIDE DEF h
        <4>2. h = h \o <<>>
          BY <4>1, ConcatFacts
        <4> QED
          BY <4>1, <4>2
      <3>3. StorageKey(o) = {Prefix(e) \o h}
        BY <2>1, <2>2, <3>2 DEF get_map
      <3>4. KeyOf[i] = Prefix(e) \o h <=> IsNamed(o, i) /\ Joins(KeyTail(i, Len(ks)), h, <<>>)
        BY <1>3, <3>2 DEF Joins
      <3>5. ASSUME IsNamed(o, i)
            PROVE  Joins(KeyTail(i, Len(ks)), h, <<>>) <=> ks[1] = o.first /\ Len(ks) = 1
        <4>1. Len(ks) >= 1 /\ Len(ks) - 1 \in 0..Len(ks)
          BY <1>1, <1>2, <2>2, <3>5
        <4>2. Items[i].entry = e
          BY <1>1, <3>5
        <4>3. Joins(KeyTail(i, Len(ks)), h, <<>>)
                <=> ks[1] = o.first /\ KeyTail(i, Len(ks) - 1) = <<>>
          <5>1. h = RuntimeHash(Items[i].entry.hashers[1], o.first)
            BY <4>2
          <5> HIDE DEF h
          <5> QED
            BY <1>4, <2>1, <4>1, <5>1, FirstKey
        <4>4. KeyTail(i, Len(ks) - 1) = <<>> <=> Len(ks) - 1 = 0
          BY <4>1, TailIsEmpty
        <4> QED
          BY <1>2, <4>3, <4>4
      <3> HIDE DEF h
      <3>6. IsOne(ks, o.first) <=> Len(ks) = 1 /\ ks[1] = o.first
        BY <1>0, OneFacts
      <3> QED
        BY <2>1, <3>3, <3>4, <3>5, <3>6 DEF IsOne
    <2>3. CASE ~ (Len(e.hashers) >= 1)
      <3>1. StorageKey(o) = {}
        BY <2>1, <2>3 DEF get_map
      <3>2. IsNamed(o, i) => Len(ks) # 1
        <4>1. IsNamed(o, i) => Len(e.hashers) = Len(ks)
          BY <1>1, <1>2
        <4>2. Len(e.hashers) # 1
          <5>1. 1 >= 1
            OBVIOUS
          <5> QED
            BY <2>3, <5>1, Zenon
        <4> QED
          BY <4>1, <4>2, Zenon
      <3>3. IsOne(ks, o.first) => Len(ks) = 1
        BY <1>0, OneFacts
      <3> QED
        BY <2>1, <3>1, <3>2, <3>3 DEF IsOne
    <2> QED
      BY <2>2, <2>3
  <1>7. CASE o.of = "doubleMap"
    <2>1. /\ StorageKey(o) = get_double_map(e, o.first, o.second)
          /\ KeysAsked(o) = <<o.first, o.second>> /\ o.first \in Keys /\ o.second \in Keys
      BY <1>1, <1>7 DEF StorageKey, storage_double_map_key, KeysAsked, Asks
    <2>2. CASE Len(e.hashers) >= 2
      <3> DEFINE h == RuntimeHash(e.hashers[1], o.first)
                 g == RuntimeHash(e.hashers[2], o.second)
      <3>1. e.hashers[1] \in Hashers /\ e.hashers[2] \in Hashers
        BY <1>2, <2>2
      <3>2. /\ h \in Seq(Units) /\ h = key_hash(o.first, e.hashers[1])
            /\ g \in Seq(Units) /\ g = key_hash(o.second, e.hashers[2])
        BY <2>1, <3>1, HashFacts
      <3>0. g = g \o <<>>
        BY <3>2, ConcatFacts
      <3>3. StorageKey(o) = {Prefix(e) \o h \o g}
        BY <2>1, <2>2, <3>2 DEF get_double_map
      <3>4. h \o g \in Seq(Units) /\ Prefix(e) \o h \o g = Prefix(e) \o (h \o g)
        BY <1>4, <3>2, ConcatFacts, ConcatAssoc
      <3>5. KeyOf[i] = Prefix(e) \o h \o g <=> IsNamed(o, i) /\ Joins(KeyTail(i, Len(ks)), h, g)
        BY <1>3, <3>4 DEF Joins
      <3>6. ASSUME IsNamed(o, i)
            PROVE  Joins(KeyTail(i, Len(ks)), h, g)
                     <=> ks[1] = o.first /\ ks[2] = o.second /\ Len(ks) = 2
        <4>0. o.first \in Keys /\ o.second \in Keys /\ g \in Seq(Units) /\ <<>> \in Seq(Units)
          BY <1>4, <2>1, <3>2
        <4>1. Len(ks) >= 1 /\ Len(ks) >= 2 /\ Len(ks) - 2 \in 0..Len(ks)
          BY <1>1, <1>2, <2>2, <3>6
        <4>2. Items[i].entry = e
          BY <1>1, <3>6
        <4>3. Joins(KeyTail(i, Len(ks)), h, g) <=> ks[1] = o.first /\ KeyTail(i, Len(ks) - 1) = g
          <5>1. h = RuntimeHash(Items[i].entry.hashers[1], o.first)
            BY <4>2
          <5> HIDE DEF h, g
          <5> QED
            BY <4>0, <4>1, <5>1, FirstKey
        <4>4. Joins(KeyTail(i, Len(ks) - 1), g, <<>>)
                <=> ks[2] = o.second /\ KeyTail(i, Len(ks) - 2) = <<>>
          <5>1. g = RuntimeHash(Items[i].entry.hashers[2], o.second)
            BY <4>2
          <5> HIDE DEF h, g
          <5> QED
            BY <4>0, <4>1, <5>1, SecondKey
        <4>5. KeyTail(i, Len(ks) - 2) = <<>> <=> Len(ks) - 2 = 0
          BY <4>1, TailIsEmpty
        <4> QED
          BY <1>2, <3>0, <4>3, <4>4, <4>5 DEF Joins
      <3> HIDE DEF h, g
      <3>7. IsTwo(ks, o.first, o.second) <=> Len(ks) = 2 /\ ks[1] = o.first /\ ks[2] = o.second
        BY <1>0, TwoFacts
      <3> QED
        BY <2>1, <3>3, <3>5, <3>6, <3>7 DEF IsTwo
    <2>3. CASE ~ (Len(e.hashers) >= 2)
      <3>1. StorageKey(o) = {}
        BY <2>1, <2>3 DEF get_double_map
      <3>2. IsNamed(o, i) => Len(ks) = Len(e.hashers)
        BY <1>1, <1>2
      <3>3. IsTwo(ks, o.first, o.second) => Len(ks) = 2
        BY <1>0, TwoFacts
      <3>4. Len(e.hashers) # 2
        <4>1. Len(e.hashers) \in Nat
          BY <1>2
        <4> QED
          BY <4>1, <2>3
      <3> QED
        BY <2>1, <3>1, <3>2, <3>3, <3>4 DEF IsTwo
    <2> QED
      BY <2>2, <2>3
  <1> QED
    BY <1>5, <1>6, <1>7 DEF Asks

----------------------------------------------------------------------------
\* Item i is among those a listing is about.
IsListed(o, i) ==
  /\ IsNamed(o, i) /\ Items[i].keys # <<>>
  /\ o.of = "doubleMap" => Items[i].keys[1] = o.first

\* A storage key is the prefix of its entry and then the hashed keys.
LEMMA KeyType ==
  ASSUME NEW i \in DOMAIN Items
  PROVE  /\ KeyOf[i] \in Seq(Units)
         /\ KeyTail(i, Len(Items[i].keys)) \in Seq(Units)
         /\ Items[i].entry \in Entries
         /\ Joins(KeyOf[i], Prefix(Items[i].entry), KeyTail(i, Len(Items[i].keys)))
         /\ Len(Items[i].keys) >= 1 =>
              /\ KeyTail(i, Len(Items[i].keys) - 1) \in Seq(Units)
              /\ Items[i].entry.hashers[1] \in Hashers /\ Items[i].keys[1] \in Keys
              /\ Joins(KeyTail(i, Len(Items[i].keys)),
                       RuntimeHash(Items[i].entry.hashers[1], Items[i].keys[1]),
                       KeyTail(i, Len(Items[i].keys) - 1))
         /\ Len(Items[i].keys) >= 2 =>
              /\ KeyTail(i, Len(Items[i].keys) - 2) \in Seq(Units)
              /\ Items[i].entry.hashers[2] \in Hashers /\ Items[i].keys[2] \in Keys
              /\ Joins(KeyTail(i, Len(Items[i].keys) - 1),
                       RuntimeHash(Items[i].entry.hashers[2], Items[i].keys[2]),
                       KeyTail(i, Len(Items[i].keys) - 2))
  <1> DEFINE n == Len(Items[i].keys)
  <1>1. n \in Nat /\ n \in 0..n
    BY ItemFacts
  <1>2. /\ KeyTail(i, n) \in Seq(Units) /\ Items[i].entry \in Entries
        /\ KeyOf[i] = Prefix(Items[i].entry) \o KeyTail(i, n)
    BY <1>1, ItemFacts
  <1>3. KeyOf[i] \in Seq(Units)
    BY <1>2, PrefixType, ConcatFacts
  <1>4. ASSUME n >= 1
        PROVE  /\ KeyTail(i, n - 1) \in Seq(Units)
               /\ Items[i].entry.hashers[1] \in Hashers /\ Items[i].keys[1] \in Keys
               /\ Joins(KeyTail(i, n), RuntimeHash(Items[i].entry.hashers[1], Items[i].keys[1]),
                        KeyTail(i, n - 1))
    <2>1. n - 1 \in 0..n /\ 1 \in 1..n
      BY <1>1, <1>4
    <2>2. /\ KeyTail(i, n - 1) \in Seq(Units)
          /\ Items[i].entry.hashers[1] \in Hashers /\ Items[i].keys[1] \in Keys
      BY <2>1, ItemFacts
    <2> QED
      BY <1>4, <2>2, FirstKey
  <1>5. ASSUME n >= 2
        PROVE  /\ KeyTail(i, n - 2) \in Seq(Units)
               /\ Items[i].entry.hashers[2] \in Hashers /\ Items[i].keys[2] \in Keys
               /\ Joins(KeyTail(i, n - 1), RuntimeHash(Items[i].entry.hashers[2], Items[i].keys[2]),
                        KeyTail(i, n - 2))
    <2>1. n - 2 \in 0..n /\ 2 \in 1..n
      BY <1>1, <1>5
    <2>2. /\ KeyTail(i, n - 2) \in Seq(Units)
          /\ Items[i].entry.hashers[2] \in Hashers /\ Items[i].keys[2] \in Keys
      BY <2>1, ItemFacts
    <2> QED
      BY <1>5, <2>2, SecondKey
  <1> QED
    BY <1>2, <1>3, <1>4, <1>5 DEF Joins

\* The prefix of a listing begins the keys of the items it is about, and no
\* others; without a prefix there are none.
LEMMA PrefixLists ==
  ASSUME NEW o, Lists(o), NEW i \in DOMAIN Items
  PROVE  /\ \A p \in KeyPrefix(o) : IsPrefix(p, KeyOf[i]) <=> IsListed(o, i)
         /\ KeyPrefix(o) = {} => ~ IsListed(o, i)
  <1> DEFINE ks == Items[i].keys
             t == KeyTail(i, Len(ks))
  <1>1. PICK e \in Entries : /\ storage(o.name[1], o.name[2]) = {e}
                             /\ IsNamed(o, i) <=> Items[i].entry = e
    BY EntryFacts DEF Lists
  <1>2. /\ ks \in Seq(Keys) /\ Len(ks) \in Nat /\ Len(Items[i].entry.hashers) = Len(ks)
        /\ e.hashers \in Seq(Hashers) /\ Len(e.hashers) \in Nat
    BY ItemsAssumption, EncAssumption
  <1>3. \A r \in Seq(Units) : KeyOf[i] = Prefix(e) \o r <=> IsNamed(o, i) /\ t = r
    BY <1>1, KeyBegins
  <1>4. Prefix(e) \in Seq(Units) /\ KeyOf[i] \in Seq(Units) /\ t \in Seq(Units)
    BY PrefixType, KeyType
  <1>5. IsNamed(o, i) => (ks # <<>> <=> Len(e.hashers) >= 1)
    <2>1. ks # <<>> <=> Len(ks) >= 1
      BY <1>2
    <2> QED
      BY <1>1, <1>2, <2>1
  <1> HIDE DEF t
  <1>6. CASE o.of = "map"
    <2>1. KeyPrefix(o) = get_map_prefix(e)
      BY <1>1, <1>6 DEF KeyPrefix, storage_map_key_prefix
    <2>2. IsPrefix(Prefix(e), KeyOf[i]) <=> IsNamed(o, i)
      <3>1. IsPrefix(Prefix(e), KeyOf[i]) <=> \E r \in Seq(Units) : KeyOf[i] = Prefix(e) \o r
        BY <1>4, PrefixFacts
      <3> QED
        BY <1>3, <1>4, <3>1
    <2>3. e.hashers = <<>> <=> ~ (Len(e.hashers) >= 1)
      BY <1>2
    <2> QED
      BY <1>5, <1>6, <2>1, <2>2, <2>3 DEF get_map_prefix, IsListed
  <1>7. CASE o.of = "doubleMap"
    <2>1. KeyPrefix(o) = get_map(e, o.first) /\ o.first \in Keys
      BY <1>1, <1>7 DEF KeyPrefix, storage_double_map_partial_key, get_double_map_prefix, Lists
    <2>2. CASE Len(e.hashers) >= 1
      <3> DEFINE h == RuntimeHash(e.hashers[1], o.first)
      <3>1. e.hashers[1] \in Hashers
        BY <1>2, <2>2
      <3>2. h \in Seq(Units) /\ h = key_hash(o.first, e.hashers[1])
        BY <2>1, <3>1, HashFacts
      <3>3. KeyPrefix(o) = {Prefix(e) \o h}
        BY <2>1, <2>2, <3>2 DEF get_map
      <3>0. h \in Seq(Units)
        BY <3>2
      <3>4. ASSUME IsNamed(o, i), NEW r \in Seq(Units)
            PROVE  Joins(t, h, r) <=> ks[1] = o.first /\ KeyTail(i, Len(ks) - 1) = r
        <4>1. h = RuntimeHash(Items[i].entry.hashers[1], o.first) /\ Len(ks) >= 1
          BY <1>1, <1>2, <2>2, <3>4
        <4> HIDE DEF h
        <4> QED
          BY <2>1, <4>1, FirstKey DEF t
      <3> HIDE DEF h
      <3>5. Prefix(e) \o h \in Seq(Units)
        BY <1>4, <3>0, ConcatFacts
      <3>6. IsPrefix(Prefix(e) \o h, KeyOf[i])
              <=> \E r \in Seq(Units) : KeyOf[i] = (Prefix(e) \o h) \o r
        <4> DEFINE q == Prefix(e) \o h
        <4>1. q \in Seq(Units)
          BY <3>5
        <4> HIDE DEF q
        <4>2. IsPrefix(q, KeyOf[i]) <=> \E r \in Seq(Units) : KeyOf[i] = q \o r
          BY <1>4, <4>1, PrefixFacts
        <4> QED
          BY <4>2 DEF q
      <3>7. ASSUME NEW r \in Seq(Units)
            PROVE  KeyOf[i] = (Prefix(e) \o h) \o r <=> IsNamed(o, i) /\ Joins(t, h, r)
        <4>0. h \o r \in Seq(Units)
          BY <3>0, ConcatFacts
        <4>1. (Prefix(e) \o h) \o r = Prefix(e) \o (h \o r)
          BY <1>4, <3>0, ConcatAssoc
        <4> QED
          BY <1>3, <4>0, <4>1 DEF Joins
      <3>8. IsNamed(o, i) => KeyTail(i, Len(ks) - 1) \in Seq(Units)
        BY <1>1, <1>2, <2>2, KeyType
      <3>9. (\E r \in Seq(Units) : KeyOf[i] = (Prefix(e) \o h) \o r)
              <=> IsNamed(o, i) /\ ks[1] = o.first
        BY <3>4, <3>7, <3>8
      <3> QED
        BY <1>5, <1>7, <2>2, <3>3, <3>6, <3>9 DEF IsListed
    <2>3. CASE ~ (Len(e.hashers) >= 1)
      <3>1. KeyPrefix(o) = {}
        BY <2>1, <2>3 DEF get_map
      <3> QED
        BY <1>5, <2>3, <3>1 DEF IsListed
    <2> QED
      BY <2>2, <2>3
  <1> QED
    BY <1>6, <1>7 DEF Lists

----------------------------------------------------------------------------
Leaves(n, s, b) == Skip(n, {s}) = {b}

\* Skipping as many units as a has leaves what follows a.
LEMMA SkipFacts ==
  ASSUME NEW a \in Seq(Units), NEW b \in Seq(Units), NEW s, Joins(s, a, b), NEW n, n = Len(a)
  PROVE  Leaves(n, s, b)
  <1>1. s = a \o b /\ Len(s) = Len(a) + Len(b) /\ SubSeq(s, Len(a) + 1, Len(s)) = b
    BY ConcatFacts DEF Joins
  <1>2. Len(s) >= n /\ SubSeq(s, n + 1, Len(s)) = b
    BY <1>1
  <1> QED
    BY <1>2 DEF Leaves, Skip

\* The ways to say that a begins s.
LEMMA JoinsFacts ==
  ASSUME NEW S, NEW a \in Seq(S), NEW b \in Seq(S), NEW s, Joins(s, a, b)
  PROVE  s \in Seq(S) /\ IsPrefix(a, s)
  <1>1. s = a \o b /\ s \in Seq(S)
    BY ConcatFacts DEF Joins
  <1> QED
    BY <1>1, PrefixFacts

\* What has a beginning has a rest.
LEMMA BeginningJoins ==
  ASSUME NEW S, NEW a \in Seq(S), NEW s \in Seq(S), IsPrefix(a, s)
  PROVE  \E b \in Seq(S) : Joins(s, a, b)
  BY PrefixFacts DEF Joins

\* Of two beginnings of one sequence, one begins the other.
LEMMA ShorterBegins ==
  ASSUME NEW S, NEW a \in Seq(S), NEW b \in Seq(S), NEW c \in Seq(S), NEW d \in Seq(S),
         NEW s, Joins(s, a, b), Joins(s, c, d)
  PROVE  IsPrefix(a, c) \/ IsPrefix(c, a)
  <1>1. a \o b = c \o d
    BY Zenon DEF Joins
  <1>2. CASE Len(a) <= Len(c)
    BY <1>1, <1>2, ShorterIsPrefix
  <1>3. CASE Len(c) <= Len(a)
    BY <1>1, <1>3, ShorterIsPrefix
  <1> QED
    BY <1>2, <1>3

\* Three parts, cut at the first or at the second end.
LEMMA JoinsAssoc ==
  ASSUME NEW S, NEW a \in Seq(S), NEW b \in Seq(S), NEW c \in Seq(S), NEW s, NEW d,
         Joins(d, a, b), Joins(s, d, c)
  PROVE  Joins(s, a, b \o c)
  <1>1. (a \o b) \o c = a \o (b \o c)
    BY ConcatAssoc
  <1> QED
    BY <1>1, Zenon DEF Joins

\* What comes first in a sequence of keys is the only key that decode finds.
LEMMA DecodeFacts ==
  ASSUME NEW k \in Keys, NEW r \in Seq(Units), NEW s, Joins(s, Enc[k], r)
  PROVE  decode({s}) = {k}
  <1>1. Enc[k] \in Seq(Units)
    BY EncFacts
  <1>2. s \in Seq(Units) /\ IsPrefix(Enc[k], s)
    BY <1>1, JoinsFacts
  <1>3. ASSUME NEW l \in Keys, IsPrefix(Enc[l], s)
        PROVE  l = k
    <2>1. Enc[l] \in Seq(Units)
      BY EncFacts
    <2>2. PICK t \in Seq(Units) : Joins(s, Enc[l], t)
      BY <1>2, <1>3, <2>1, BeginningJoins
    <2>3. IsPrefix(Enc[l], Enc[k]) \/ IsPrefix(Enc[k], Enc[l])
      BY <1>1, <2>1, <2>2, ShorterBegins
    <2> QED
      BY <2>3, EncAssumption
  <1> QED
    BY <1>2, <1>3 DEF decode

\* A hasher that keeps its key gives it back, and what follows it.
LEMMA ExtractFacts ==
  ASSUME NEW h \in Hashers, NEW k \in Keys, NEW r \in Seq(Units),
         NEW s, Joins(s, RuntimeHash(h, k), r)
  PROVE  extract_identifier_from_concated_key(h, {s}) =
           IF h \in Concat THEN {Enc[k] \o r} ELSE {}
  <1>1. Enc[k] \in Seq(Units) /\ Enc[k] \o r \in Seq(Units)
    BY EncFacts, ConcatFacts
  <1>2. CASE h = "Blake2_128Concat"
    <2> DEFINE w == Hash("blake2_128", Enc[k], 2)
    <2>1. w \in Seq(Units) /\ Len(w) = 2
      BY HashType
    <2>2. RuntimeHash(h, k) = w \o Enc[k]
      BY <1>2, HashFacts
    <2> HIDE DEF w
    <2>3. Joins(RuntimeHash(h, k), w, Enc[k])
      BY <2>2 DEF Joins
    <2>4. Joins(s, w, Enc[k] \o r)
      BY <1>1, <2>1, <2>3, JoinsAssoc
    <2>5. Leaves(2, s, Enc[k] \o r)
      BY <1>1, <2>1, <2>4, SkipFacts
    <2> QED
      BY <1>2, <2>5 DEF Leaves, extract_identifier_from_concated_key, Concat
  <1>3. CASE h = "Twox64Concat"
    <2> DEFINE w == Hash("twox", Enc[k], 1)
    <2>1. w \in Seq(Units) /\ Len(w) = 1
      BY HashType
    <2>2. RuntimeHash(h, k) = w \o Enc[k]
      BY <1>3, HashFacts
    <2> HIDE DEF w
    <2>3. Joins(RuntimeHash(h, k), w, Enc[k])
      BY <2>2 DEF Joins
    <2>4. Joins(s, w, Enc[k] \o r)
      BY <1>1, <2>1, <2>3, JoinsAssoc
    <2>5. Leaves(1, s, Enc[k] \o r)
      BY <1>1, <2>1, <2>4, SkipFacts
    <2> QED
      BY <1>3, <2>5 DEF Leaves, extract_identifier_from_concated_key, Concat
  <1>4. CASE h \notin Concat
    BY <1>4 DEF extract_identifier_from_concated_key, Concat
  <1> QED
    BY <1>2, <1>3, <1>4 DEF Concat

\* Nothing is found in nothing.
LEMMA NothingFound ==
  /\ decode({}) = {}
  /\ \A n : Skip(n, {}) = {}
  /\ \A h : extract_identifier_from_concated_key(h, {}) = {}
  <1>1. \A n : Skip(n, {}) = {}
    BY DEF Skip
  <1> QED
    BY <1>1 DEF decode, extract_identifier_from_concated_key

\* The identifier in a listed key: its first or its second key, if the hashers
\* up to there keep theirs.
LEMMA IdentifierFound ==
  ASSUME NEW o, Lists(o), NEW i \in DOMAIN Items, IsListed(o, i)
  PROVE  LET n == IF o.of = "map" THEN 1 ELSE 2 IN
         Identifiers(o, KeyOf[i]) =
           IF Len(Items[i].keys) >= n /\ \A m \in 1..n : Items[i].entry.hashers[m] \in Concat
             THEN {Items[i].keys[n]} ELSE {}
  <1> DEFINE ks == Items[i].keys
             e  == Items[i].entry
             s  == KeyTail(i, Len(ks))
             t  == KeyTail(i, Len(ks) - 1)
             u  == KeyTail(i, Len(ks) - 2)
  <1>1. storage(o.name[1], o.name[2]) = {e}
    BY EntryFacts DEF Lists, IsListed
  <1>2. ks \in Seq(Keys) /\ Len(ks) \in Nat /\ Len(e.hashers) = Len(ks) /\ ks # <<>>
    BY ItemsAssumption DEF IsListed
  <1>3. Len(ks) >= 1
    BY <1>2
  <1>4. /\ s \in Seq(Units) /\ e \in Entries /\ t \in Seq(Units)
        /\ e.hashers[1] \in Hashers /\ ks[1] \in Keys
        /\ Joins(KeyOf[i], Prefix(e), s) /\ Joins(s, RuntimeHash(e.hashers[1], ks[1]), t)
    BY <1>3, KeyType
  <1> HIDE DEF s, t, u
  <1>5. Skip(4, {KeyOf[i]}) = {s}
    <2>1. Prefix(e) \in Seq(Units) /\ 4 = Len(Prefix(e))
      BY <1>4, PrefixType
    <2>2. Leaves(4, KeyOf[i], s)
      BY <1>4, <2>1, SkipFacts
    <2> QED
      BY <2>2 DEF Leaves
  <1>6. extract_identifier_from_concated_key(e.hashers[1], {s}) =
          IF e.hashers[1] \in Concat THEN {Enc[ks[1]] \o t} ELSE {}
    BY <1>4, ExtractFacts
  <1>7. CASE o.of = "map"
    <2>1. Identifiers(o, KeyOf[i]) = extract_map_identifier(e.hashers[1], {KeyOf[i]})
      BY <1>1, <1>7 DEF Identifiers
    <2>2. extract_map_identifier(e.hashers[1], {KeyOf[i]}) =
            IF e.hashers[1] \in Concat THEN {ks[1]} ELSE {}
      <3>0. Joins(Enc[ks[1]] \o t, Enc[ks[1]], t)
        BY DEF Joins
      <3>1. decode({Enc[ks[1]] \o t}) = {ks[1]}
        BY <1>4, <3>0, DecodeFacts
      <3> QED
        BY <1>5, <1>6, <3>1, NothingFound DEF extract_map_identifier
    <2>3. \A m \in 1..1 : m = 1
      OBVIOUS
    <2> QED
      BY <1>3, <1>7, <2>1, <2>2, <2>3
  <1>8. CASE o.of = "doubleMap"
    <2>0. ks[1] = o.first
      BY <1>8 DEF IsListed
    <2>1. CASE Len(ks) >= 2
      <3>1. Identifiers(o, KeyOf[i]) =
              extract_double_map_identifier(e.hashers[1], e.hashers[2], o.first, {KeyOf[i]})
        BY <1>1, <1>2, <1>8, <2>1 DEF Identifiers
      <3>2. /\ u \in Seq(Units) /\ e.hashers[2] \in Hashers /\ ks[2] \in Keys
            /\ Joins(t, RuntimeHash(e.hashers[2], ks[2]), u)
        BY <2>1, KeyType DEF t, u
      <3>3. Skip(Len(Enc[o.first]), {Enc[ks[1]] \o t}) = {t}
        <4>1. Enc[ks[1]] \in Seq(Units)
          BY <1>4, EncFacts
        <4>2. Joins(Enc[ks[1]] \o t, Enc[ks[1]], t)
          BY DEF Joins
        <4>3. Leaves(Len(Enc[ks[1]]), Enc[ks[1]] \o t, t)
          BY <1>4, <4>1, <4>2, SkipFacts
        <4> QED
          BY <2>0, <4>3 DEF Leaves
      <3>4. extract_identifier_from_concated_key(e.hashers[2], {t}) =
              IF e.hashers[2] \in Concat THEN {Enc[ks[2]] \o u} ELSE {}
        BY <3>2, ExtractFacts
      <3>9. Joins(Enc[ks[2]] \o u, Enc[ks[2]], u)
        BY DEF Joins
      <3>5. decode({Enc[ks[2]] \o u}) = {ks[2]}
        BY <3>2, <3>9, DecodeFacts
      <3>6. extract_double_map_identifier(e.hashers[1], e.hashers[2], o.first, {KeyOf[i]}) =
              IF e.hashers[1] \in Concat /\ e.hashers[2] \in Concat THEN {ks[2]} ELSE {}
        BY <1>5, <1>6, <3>3, <3>4, <3>5, NothingFound DEF extract_double_map_identifier
      <3>7. (\A m \in 1..2 : e.hashers[m] \in Concat)
              <=> e.hashers[1] \in Concat /\ e.hashers[2] \in Concat
        <4>1. \A m \in 1..2 : m = 1 \/ m = 2
          OBVIOUS
        <4>2. 1 \in 1..2 /\ 2 \in 1..2
          OBVIOUS
        <4> QED
          BY <4>1, <4>2, Zenon
      <3> QED
        BY <1>8, <2>1, <3>1, <3>6, <3>7
    <2>2. CASE ~ (Len(ks) >= 2)
      <3>1. Identifiers(o, KeyOf[i]) = {}
        BY <1>1, <1>2, <1>8, <2>2 DEF Identifiers
      <3> QED
        BY <1>8, <2>2, <3>1
    <2> QED
      BY <2>1, <2>2
  <1> QED
    BY <1>7, <1>8 DEF Lists

----------------------------------------------------------------------------
(***************************************************************************)
(* Answers: what the node serves is what the operation asked for.          *)
(***************************************************************************)
\* The items of a state that a read, or a listing, is about, and the
\* identifiers of the latter.
ItemsAsked(o, state) == {i \in state : IsNamed(o, i) /\ Items[i].keys = KeysAsked(o)}

ItemsListed(o, state) == {i \in state : IsListed(o, i)}

Position(o) == IF o.of = "map" THEN 1 ELSE 2

KeepsKey(o, i) ==
  /\ Len(Items[i].keys) >= Position(o)
  /\ \A m \in 1..Position(o) : Items[i].entry.hashers[m] \in Concat

KeysListed(o, state) ==
  {Items[i].keys[Position(o)] : i \in {j \in ItemsListed(o, state) : KeepsKey(o, j)}}

IsRight(o, values, state) ==
  /\ o.call \in {"storage", "proof"} => values = ItemsAsked(o, state)
  /\ o.call = "pairs" => values = ItemsListed(o, state)
  /\ o.call = "keys" => values = KeysListed(o, state)

\* The node serves a read the value that was asked for, and no other.
LEMMA ServesAsked ==
  ASSUME NEW o, o.call \in {"storage", "proof"}, Asks(o), NEW r \in Requests(o),
         tree[Block(r)].state \subseteq DOMAIN Items
  PROVE  Serve(r) = ItemsAsked(o, tree[Block(r)].state)
  <1> DEFINE state == tree[Block(r)].state
  <1>1. ASSUME NEW key \in StorageKey(o), NEW i \in state
        PROVE  KeyOf[i] = key <=> IsNamed(o, i) /\ Items[i].keys = KeysAsked(o)
    BY StorageKeyFinds
  <1>2. CASE o.call = "storage"
    <2>1. PICK key \in StorageKey(o) : r = [method |-> "state_getStorage", params |-> <<key, o.at>>]
      BY <1>2 DEF Requests, get_opaque_storage_by_key_hash, state_get_storage, json_req
    <2>2. r.method = "state_getStorage" /\ r.params[1] = key
      BY <2>1
    <2>3. Serve(r) = {i \in state : KeyOf[i] = key}
      BY <2>2 DEF Serve
    <2> QED
      BY <1>1, <2>3 DEF ItemsAsked
  <1>3. CASE o.call = "proof"
    <2>1. PICK key \in StorageKey(o) :
            r = [method |-> "state_getReadProof", params |-> <<{key}, o.at>>]
      BY <1>3 DEF Requests, get_storage_proof_by_keys, state_get_read_proof, json_req
    <2>2. r.method = "state_getReadProof" /\ r.params[1] = {key}
      BY <2>1
    <2>3. Serve(r) = {i \in state : KeyOf[i] \in {key}}
      BY <2>2 DEF Serve
    <2> QED
      BY <1>1, <2>3 DEF ItemsAsked
  <1> QED
    BY <1>2, <1>3

\* The node serves a listing the items, or the keys of the items, under the
\* prefix.
LEMMA ServesListed ==
  ASSUME NEW o, o.call \in {"keys", "pairs"}, Lists(o), NEW r \in Requests(o),
         tree[Block(r)].state \subseteq DOMAIN Items
  PROVE  /\ o.call = "pairs" => Serve(r) = ItemsListed(o, tree[Block(r)].state)
         /\ o.call = "keys" => Serve(r) = {KeyOf[i] : i \in ItemsListed(o, tree[Block(r)].state)}
  <1> DEFINE state == tree[Block(r)].state
  <1>1. ASSUME NEW p \in KeyPrefix(o)
        PROVE  {i \in state : IsPrefix(p, KeyOf[i])} = ItemsListed(o, state)
    BY PrefixLists DEF ItemsListed
  <1>2. CASE o.call = "pairs"
    <2>1. PICK p \in KeyPrefix(o) : r = [method |-> "state_getPairs", params |-> <<p, o.at>>]
      BY <1>2 DEF Requests, get_opaque_storage_pairs_by_key_hash, state_get_pairs, json_req
    <2>2. r.method = "state_getPairs" /\ r.params[1] = p
      BY <2>1
    <2>3. Serve(r) = {i \in state : IsPrefix(p, KeyOf[i])}
      BY <2>2 DEF Serve
    <2> QED
      BY <1>1, <1>2, <2>3
  <1>3. CASE o.call = "keys"
    <2>1. PICK p \in KeyPrefix(o) : r = [method |-> "state_getKeys", params |-> <<p, o.at>>]
      BY <1>3 DEF Requests, get_keys, state_get_keys, json_req
    <2>2. r.method = "state_getKeys" /\ r.params[1] = p
      BY <2>1
    <2>3. Serve(r) = {KeyOf[i] : i \in {j \in state : IsPrefix(p, KeyOf[j])}}
      BY <2>2 DEF Serve
    <2> QED
      BY <1>1, <1>3, <2>3
  <1> QED
    BY <1>2, <1>3

\* What the program makes of the answer is what it has asked for.
LEMMA ReadIsRight ==
  ASSUME NEW o \in ReadOps({0} \cup Hashes), NEW r \in Requests(o),
         tree[Block(r)].state \subseteq DOMAIN Items
  PROVE  IsRight(o, Read(o, Serve(r)), tree[Block(r)].state)
  <1> DEFINE state == tree[Block(r)].state
  <1>1. CASE o.call \in {"storage", "proof"}
    <2>1. Asks(o)
      BY <1>1, EntryOpFacts
    <2>2. Serve(r) = ItemsAsked(o, state)
      BY <1>1, <2>1, ServesAsked
    <2> QED
      BY <1>1, <2>2 DEF IsRight, Read
  <1>2. CASE o.call = "pairs"
    <2>1. Lists(o)
      BY <1>2, EntryOpFacts
    <2>2. Serve(r) = ItemsListed(o, state)
      BY <1>2, <2>1, ServesListed
    <2> QED
      BY <1>2, <2>2 DEF IsRight, Read
  <1>3. CASE o.call = "keys"
    <2>1. Lists(o)
      BY <1>3, EntryOpFacts
    <2>2. Serve(r) = {KeyOf[i] : i \in ItemsListed(o, state)}
      BY <1>3, <2>1, ServesListed
    <2>3. ASSUME NEW i \in ItemsListed(o, state)
          PROVE  Identifiers(o, KeyOf[i]) =
                   IF KeepsKey(o, i) THEN {Items[i].keys[Position(o)]} ELSE {}
      <3>1. i \in DOMAIN Items /\ IsListed(o, i)
        BY DEF ItemsListed
      <3> QED
        BY <2>1, <3>1, IdentifierFound DEF KeepsKey, Position
    <2>4. Read(o, Serve(r)) = UNION {Identifiers(o, KeyOf[i]) : i \in ItemsListed(o, state)}
      BY <1>3, <2>2 DEF Read
    <2>5. Read(o, Serve(r)) = KeysListed(o, state)
      <3> HIDE DEF state
      <3>1. ASSUME NEW k
            PROVE  k \in Read(o, Serve(r)) <=>
                     \E i \in ItemsListed(o, state) : KeepsKey(o, i) /\ k = Items[i].keys[Position(o)]
        <4>1. k \in Read(o, Serve(r)) <=>
                \E i \in ItemsListed(o, state) : k \in Identifiers(o, KeyOf[i])
          BY <2>4
        <4>2. \A i \in ItemsListed(o, state) :
                k \in Identifiers(o, KeyOf[i]) <=> KeepsKey(o, i) /\ k = Items[i].keys[Position(o)]
          BY <2>3
        <4> QED
          BY <4>1, <4>2, Zenon
      <3>2. \A k : k \in KeysListed(o, state) <=>
                     \E i \in ItemsListed(o, state) : KeepsKey(o, i) /\ k = Items[i].keys[Position(o)]
        BY DEF KeysListed
      <3> QED
        BY <3>1, <3>2
    <2> QED
      BY <1>3, <2>5 DEF IsRight
  <1>4. CASE o.call \notin {"storage", "proof", "pairs", "keys"}
    BY <1>4 DEF IsRight
  <1> QED
    BY <1>1, <1>2, <1>3, <1>4

\* Without a key to ask for there is nothing to find.
LEMMA NoRequestIsRight ==
  ASSUME NEW o \in ReadOps({0} \cup Hashes), Requests(o) = {},
         NEW state, state \subseteq DOMAIN Items
  PROVE  IsRight(o, {}, state)
  <1>1. CASE o.call \in {"storage", "proof"}
    <2>1. Asks(o)
      BY <1>1, EntryOpFacts
    <2>2. StorageKey(o) = {}
      BY <1>1 DEF Requests, get_opaque_storage_by_key_hash, get_storage_proof_by_keys
    <2>3. ItemsAsked(o, state) = {}
      BY <2>1, <2>2, StorageKeyFinds DEF ItemsAsked
    <2> QED
      BY <1>1, <2>3 DEF IsRight
  <1>2. CASE o.call \in {"keys", "pairs"}
    <2>1. Lists(o)
      BY <1>2, EntryOpFacts
    <2>2. KeyPrefix(o) = {}
      BY <1>2 DEF Requests, get_keys, get_opaque_storage_pairs_by_key_hash
    <2>3. ItemsListed(o, state) = {}
      BY <2>1, <2>2, PrefixLists DEF ItemsListed
    <2> QED
      BY <1>2, <2>3 DEF IsRight, KeysListed
  <1>3. CASE o.call \notin {"storage", "proof", "pairs", "keys"}
    BY <1>3 DEF IsRight
  <1> QED
    BY <1>1, <1>2, <1>3

\* An answer that is no error is right for the state of the block it is from.
AnswerIsRight ==
  ~ answer.error => IsRight(answer.op, answer.values, tree[answer.from].state)

IInv == ChainInv /\ OpInv /\ AnswerInv /\ TurnInv /\ HeadInv /\ HashInv /\ AnswerIsRight

----------------------------------------------------------------------------
(***************************************************************************)
(* Every step keeps the invariant.                                         *)
(***************************************************************************)
\* A block keeps its number and its place when the chain grows.
LEMMA FitsGrow ==
  ASSUME ChainInv, Grows, head \in {0} \cup Hashes, NEW b, NEW n, Fits(tree, head, b, n)
  PROVE  Fits(tree', head, b, n)
  BY DEF Grows, Fits, Hashes

\* The head of the program is none, or a block.
LEMMA HeadType ==
  ASSUME ChainInv, HeadInv
  PROVE  head \in {0} \cup Hashes
  BY ChainFacts DEF HeadInv

\* The chain moves while the program waits or thinks.
LEMMA ChainMoves ==
  ASSUME IInv, ChainInv', Grows, UNCHANGED <<op, hash, answer, head>>
  PROVE  IInv'
  <1>0. ChainInv /\ OpInv /\ AnswerInv /\ TurnInv /\ HeadInv /\ HashInv /\ AnswerIsRight
    BY DEF IInv
  <1>1. Hashes \subseteq Hashes' /\ Ops \subseteq Ops'
    BY OpsGrow DEF Grows
  <1>2. OpInv' /\ TurnInv'
    BY <1>0, <1>1 DEF OpInv, TurnInv
  <1>3. AnswerInv'
    <2>1. ValuesOf(answer.op.call) \subseteq ValuesOf(answer.op.call)'
      BY <1>1 DEF ValuesOf
    <2> QED
      BY <1>0, <1>1, <2>1 DEF AnswerInv
  <1>4. HeadInv'
    BY <1>0 DEF HeadInv, Grows
  <1>5. HashInv'
    BY <1>0, FitsGrow, HeadType DEF HashInv
  <1>6. AnswerIsRight'
    <2>1. tree'[answer.from] = tree[answer.from]
      BY <1>0 DEF AnswerInv, Grows
    <2> QED
      BY <1>0, <2>1 DEF AnswerIsRight
  <1> QED
    BY <1>2, <1>3, <1>4, <1>5, <1>6 DEF IInv

\* A new operation has no answer yet.
LEMMA BeginReadIInv == IInv /\ BeginRead => IInv'
  <1> SUFFICES ASSUME IInv, BeginRead PROVE IInv'
    OBVIOUS
  <1>1. /\ op' \in ReadOps({0} \cup Hashes) /\ answer = NoAnswer
        /\ UNCHANGED <<tree, best, finalized, hash, answer, head>>
    BY DEF BeginRead, Idle, chain
  <1>2. op' \in Ops /\ op'.call # "byNum"
    BY <1>1, ReadOpFacts DEF Ops
  <1>3. Ops' = Ops /\ Hashes' = Hashes
    BY <1>1 DEF Ops, Hashes
  <1>4. AnswerIsRight'
    BY <1>1 DEF IInv, AnswerIsRight
  <1> QED
    BY <1>1, <1>2, <1>3, <1>4
       DEF IInv, ChainInv, OpInv, AnswerInv, TurnInv, HeadInv, HashInv, ValuesOf

\* The answer to a request in one step is right for the state it is from.
LEMMA GetRequestIInv == IInv /\ get_request => IInv'
  <1> SUFFICES ASSUME IInv, get_request PROVE IInv'
    OBVIOUS
  <1>0. ChainInv /\ OpInv /\ HeadInv /\ HashInv
    BY DEF IInv
  <1>1. /\ op.call \notin {"none", "byNum"} /\ op' = NoOp
        /\ UNCHANGED <<tree, best, finalized, hash, head>>
    BY DEF get_request, chain
  <1>2. Ops' = Ops /\ Hashes' = Hashes /\ NoOp \in Ops /\ op \in Ops
    BY <1>0, <1>1 DEF Ops, Hashes, OpInv
  <1>3. At(op.at) \in Hashes
    BY <1>0, <1>1, <1>2, OpFacts DEF At, ChainInv
  <1>10. op \in ReadOps({0} \cup Hashes)
    <2>1. NoOp.call = "none" /\ \A n : BlockOp("byNum", n).call = "byNum"
      BY DEF BlockOp, NoOp
    <2> QED
      BY <1>1, <1>2, <2>1 DEF Ops
  <1>4. ASSUME answer'.op = op, answer'.from \in Hashes, answer'.error \in BOOLEAN,
               answer'.values \subseteq ValuesOf(op.call),
               op.call = "finalizedHead" /\ ~ answer'.error =>
                 answer'.values # {} /\ answer'.values \subseteq tree[finalized].line,
               ~ answer'.error => IsRight(op, answer'.values, tree[answer'.from].state)
        PROVE  IInv'
    <2>1. AnswerInv'
      BY <1>2, <1>4 DEF AnswerInv, ValuesOf
    <2>2. HeadInv'
      BY <1>0, <1>1, <1>4 DEF HeadInv
    <2>3. HashInv'
      BY <1>1, <1>4 DEF HashInv, NoOp
    <2>4. AnswerIsRight'
      BY <1>1, <1>4 DEF AnswerIsRight
    <2> QED
      BY <1>0, <1>1, <1>2, <2>1, <2>2, <2>3, <2>4 DEF IInv, ChainInv, OpInv, TurnInv
  <1>5. ASSUME NEW r \in Requests(op)
        PROVE  /\ Block(r) \in Hashes
               /\ Read(op, Serve(r)) \subseteq ValuesOf(op.call)
               /\ op.call = "finalizedHead" => Read(op, Serve(r)) = {finalized}
               /\ IsRight(op, Read(op, Serve(r)), tree[Block(r)].state)
    <2>1. Block(r) \in Hashes
      BY <1>0, <1>1, <1>2, <1>3, RequestFacts, ChainFacts
    <2>2. tree[Block(r)].state \subseteq DOMAIN Items
      BY <1>0, <2>1, ChainFacts DEF BlockRecords
    <2>6. IsRight(op, Read(op, Serve(r)), tree[Block(r)].state)
      BY <1>10, <2>2, ReadIsRight
    <2>3. CASE op.call = "keys"
      BY <1>2, <2>1, <2>3, <2>6, OpFacts, IdentifierFacts DEF ValuesOf
    <2>4. CASE op.call \in {"storage", "proof", "pairs"}
      <3>1. Serve(r) \subseteq DOMAIN Items
        BY <1>1, <1>2, <2>1, <2>2, <2>4, RequestFacts, ServeFacts
      <3> QED
        BY <2>1, <2>4, <2>6, <3>1 DEF Read, ValuesOf
    <2>5. CASE op.call \in {"header", "block", "finalizedHead"}
      <3>1. Serve(r) = {Block(r)}
        BY <1>1, <1>2, <2>1, <2>2, <2>5, RequestFacts, ServeFacts
      <3>2. op.call = "finalizedHead" => Block(r) = finalized
        BY <1>1, <1>2, RequestFacts
      <3> QED
        BY <2>1, <2>5, <2>6, <3>1, <3>2 DEF Read, ValuesOf
    <2> QED
      BY <1>1, <1>2, <2>3, <2>4, <2>5, OpFacts
  <1>6. finalized \in tree[finalized].line
    BY <1>0, ChainFacts
  <1>7. ASSUME NEW r \in Requests(op), answer' = Answer(op, Read(op, Serve(r)), Block(r), FALSE)
        PROVE  IInv'
    <2>1. /\ answer'.op = op /\ answer'.from = Block(r) /\ answer'.error = FALSE
          /\ answer'.values = Read(op, Serve(r))
      BY <1>7 DEF Answer
    <2> QED
      BY <1>4, <1>5, <1>6, <2>1
  <1>8. ASSUME NEW r \in Requests(op), answer' = Answer(op, {}, Block(r), TRUE)
        PROVE  IInv'
    <2>1. /\ answer'.op = op /\ answer'.from = Block(r) /\ answer'.error = TRUE
          /\ answer'.values = {}
      BY <1>8 DEF Answer
    <2> QED
      BY <1>4, <1>5, <2>1
  <1>9. CASE Requests(op) = {} /\ answer' = Answer(op, {}, At(op.at), FALSE)
    <2>1. op.call # "finalizedHead"
      BY <1>9 DEF Requests, get_finalized_head
    <2>2. /\ answer'.op = op /\ answer'.from = At(op.at) /\ answer'.error = FALSE
          /\ answer'.values = {}
      BY <1>9 DEF Answer
    <2>3. tree[At(op.at)].state \subseteq DOMAIN Items
      BY <1>0, <1>3, ChainFacts DEF BlockRecords
    <2>4. IsRight(op, {}, tree[At(op.at)].state)
      BY <1>9, <1>10, <2>3, NoRequestIsRight
    <2> QED
      BY <1>3, <1>4, <2>1, <2>2, <2>4
  <1> QED
    BY <1>7, <1>8, <1>9 DEF get_request

\* The hash got for a number is of a block on the best chain, so behind the
\* finalized head if that is as high.
LEMMA GetBlockHashIInv ==
  ASSUME IInv, NEW number \in 0..(MaxBlocks + 1), get_block_hash(number)
  PROVE  IInv'
  <1>0. ChainInv /\ OpInv /\ HeadInv /\ HashInv /\ AnswerInv
    BY DEF IInv
  <1>1. /\ answer = NoAnswer /\ op' = BlockOp("byNum", number)
        /\ hash' = 0 \/ hash' \in ServeHash(chain_get_block_hash(number))
        /\ UNCHANGED <<tree, best, finalized, answer, head>>
    BY DEF get_block_hash, Idle, chain
  <1>2. Ops' = Ops /\ Hashes' = Hashes /\ op' \in Ops
    BY <1>1 DEF Ops, Hashes
  <1>3. op'.call = "byNum" /\ op'.at = number
    BY <1>1 DEF BlockOp, NoOp
  <1>4. chain_get_block_hash(number).params[1] = number
    BY DEF chain_get_block_hash, json_req
  <1>5. hash' # 0 => hash' \in tree[best].line /\ (number > 0 => tree[hash'].number = number - 1)
    <2>1. best \in tree[best].line
      BY <1>0, ChainFacts DEF ChainInv
    <2> QED
      BY <1>1, <1>4, <2>1 DEF ServeHash, Ancestor
  <1>6. hash' \in {0} \cup Hashes
    BY <1>0, <1>5, ChainFacts DEF ChainInv
  <1>7. ASSUME hash' # 0, number > 0
        PROVE  Fits(tree, head, hash', number - 1)
    <2>1. ASSUME head # 0, number - 1 <= tree[head].number
          PROVE  hash' \in tree[head].line
      <3>1. head \in tree[best].line
        BY <1>0, <2>1, LinesNest DEF HeadInv, ChainInv
      <3> QED
        BY <1>0, <1>5, <1>7, <2>1, <3>1, LowerIsBehind DEF ChainInv
    <2> QED
      BY <1>5, <1>6, <1>7, <2>1 DEF Fits, Hashes
  <1>8. HashInv'
    BY <1>1, <1>3, <1>7 DEF HashInv, NoAnswer, Answer, NoOp
  <1>9. AnswerInv' /\ HeadInv'
    BY <1>0, <1>1, <1>2 DEF AnswerInv, ValuesOf, HeadInv
  <1>10. AnswerIsRight'
    BY <1>1 DEF IInv, AnswerIsRight
  <1> QED
    BY <1>0, <1>1, <1>2, <1>6, <1>8, <1>9, <1>10 DEF IInv, ChainInv, OpInv, TurnInv

\* The block with the hash is the answer; without a hash it is marked.
LEMMA GetSignedBlockIInv == IInv /\ get_signed_block => IInv'
  <1> SUFFICES ASSUME IInv, get_signed_block PROVE IInv'
    OBVIOUS
  <1> DEFINE r == chain_get_block(hash)
  <1>0. ChainInv /\ OpInv /\ HeadInv /\ HashInv
    BY DEF IInv
  <1>1. /\ op.call = "byNum" /\ op' = NoOp /\ hash' = 0
        /\ UNCHANGED <<tree, best, finalized, head>>
        /\ \/ answer' = Answer(op, Serve(r), Block(r), hash = 0)
           \/ answer' = Answer(op, {}, Block(r), TRUE)
    BY DEF get_signed_block, chain
  <1>2. Ops' = Ops /\ Hashes' = Hashes /\ NoOp \in Ops /\ op \in Ops
    BY <1>0, <1>1 DEF Ops, Hashes, OpInv
  <1>3. r.method = "chain_getBlock" /\ Block(r) = At(hash)
    <2>1. r = [method |-> "chain_getBlock", params |-> <<hash>>]
      BY DEF chain_get_block, json_req
    <2>2. Last(<<hash>>) = hash
      BY DEF Last
    <2> QED
      BY <2>1, <2>2 DEF Block
  <1>4. Block(r) \in Hashes
    BY <1>0, <1>3 DEF At, OpInv, ChainInv
  <1>5. Serve(r) = {Block(r)}
    <2>1. tree[Block(r)].state \subseteq DOMAIN Items
      BY <1>0, <1>4, ChainFacts DEF BlockRecords
    <2> QED
      BY <1>3, <1>4, <2>1, ServeFacts
  <1> HIDE DEF r
  <1>6. /\ answer'.op = op /\ answer'.from = Block(r) /\ answer'.error \in BOOLEAN
        /\ answer'.values \subseteq {Block(r)}
        /\ ~ answer'.error => hash # 0
    <2>1. CASE answer' = Answer(op, Serve(r), Block(r), hash = 0)
      <3>1. /\ answer'.op = op /\ answer'.from = Block(r) /\ answer'.values = Serve(r)
            /\ answer'.error = (hash = 0)
        BY <2>1 DEF Answer
      <3>2. answer'.error \in BOOLEAN /\ (~ answer'.error => hash # 0)
        BY <3>1, Zenon
      <3> QED
        BY <1>5, <3>1, <3>2
    <2>2. CASE answer' = Answer(op, {}, Block(r), TRUE)
      BY <2>2 DEF Answer
    <2> QED
      BY <1>1, <2>1, <2>2
  <1>7. AnswerInv'
    BY <1>1, <1>2, <1>4, <1>6 DEF AnswerInv, ValuesOf
  <1>8. HashInv'
    <2>1. ASSUME op.at > 0, ~ answer'.error
          PROVE  \A b \in answer'.values : Fits(tree, head, b, op.at - 1)
      <3>1. Block(r) = hash /\ hash # 0
        BY <1>3, <1>6, <2>1 DEF At
      <3> QED
        BY <1>0, <1>1, <1>6, <2>1, <3>1 DEF HashInv
    <2> QED
      BY <1>1, <1>6, <2>1 DEF HashInv, NoOp
  <1>9. HeadInv'
    BY <1>0, <1>1, <1>6 DEF HeadInv
  <1>10. AnswerIsRight'
    BY <1>1, <1>6 DEF AnswerIsRight, IsRight
  <1> QED
    BY <1>0, <1>1, <1>2, <1>7, <1>8, <1>9, <1>10 DEF IInv, ChainInv, OpInv, TurnInv

\* The program keeps a finalized head: then it waits for nothing, and no
\* number has been looked up with the old one.
LEMMA UseAnswerIInv == IInv /\ UseAnswer => IInv'
  <1> SUFFICES ASSUME IInv, UseAnswer PROVE IInv'
    OBVIOUS
  <1>0. ChainInv /\ OpInv /\ HeadInv /\ HashInv /\ AnswerInv
    BY DEF IInv
  <1>1. /\ answer # NoAnswer /\ answer' = NoAnswer
        /\ UNCHANGED <<tree, best, finalized, op, hash>>
        /\ head' = IF answer.op.call = "finalizedHead" /\ ~ answer.error
                     THEN CHOOSE h \in answer.values : TRUE ELSE head
    BY DEF UseAnswer, chain
  <1>2. op = NoOp
    BY <1>1 DEF IInv, TurnInv
  <1>3. Ops' = Ops /\ Hashes' = Hashes /\ NoOp \in Ops
    BY <1>1 DEF Ops, Hashes
  <1>4. head' # 0 => head' \in tree[finalized].line
    BY <1>0, <1>1 DEF HeadInv
  <1>5. /\ answer'.op = NoOp /\ answer'.values = {} /\ answer'.from = 1
        /\ answer'.error = FALSE
    BY <1>1 DEF NoAnswer, Answer
  <1>6. 1 \in Hashes
    BY <1>0, ChainFacts DEF ChainInv
  <1>7. AnswerInv'
    BY <1>3, <1>5, <1>6 DEF AnswerInv
  <1>8. HeadInv' /\ HashInv'
    <2>0. op' = NoOp /\ NoOp.call = "none"
      BY <1>1, <1>2 DEF NoOp
    <2>1. answer'.op.call = "none" /\ op'.call = "none"
      BY <1>5, <2>0
    <2> QED
      BY <1>1, <1>4, <2>1 DEF HeadInv, HashInv
  <1>9. AnswerIsRight'
    <2>0. NoOp.call = "none"
      BY DEF NoOp
    <2>1. answer'.op.call = "none"
      BY <1>5, <2>0
    <2> QED
      BY <2>1 DEF AnswerIsRight, IsRight
  <1> QED
    BY <1>0, <1>1, <1>3, <1>7, <1>8, <1>9 DEF IInv, ChainInv, OpInv, TurnInv

\* There is one block, and nothing has been asked.
LEMMA InitIInv == Init => IInv
  <1> SUFFICES ASSUME Init PROVE IInv
    OBVIOUS
  <1> DEFINE e == [number |-> 0, line |-> {1}, state |-> {}]
  <1>1. e \in BlockRecords /\ e.number = 0 /\ e.line = {1}
    BY DEF BlockRecords
  <1>2. tree = <<e>> /\ best = 1 /\ finalized = 1 /\ op = NoOp /\ hash = 0
        /\ answer = NoAnswer /\ head = 0
    BY DEF Init
  <1> HIDE DEF e
  <1>3. tree \in Seq(BlockRecords) /\ DOMAIN tree = {1} /\ tree[1] = e
    BY <1>1, <1>2
  <1>4. IsTree(tree)
    BY <1>1, <1>3 DEF IsTree
  <1>5. 1 \in tree[1].line
    BY <1>1, <1>3
  <1>6. ChainInv
    BY <1>2, <1>3, <1>4, <1>5 DEF ChainInv, Hashes
  <1>7. OpInv /\ TurnInv
    BY <1>2 DEF OpInv, TurnInv, Ops
  <1>8. /\ answer.op = NoOp /\ answer.values = {} /\ answer.from = 1
        /\ answer.error = FALSE /\ NoOp.call = "none" /\ NoOp \in Ops
    BY <1>2 DEF NoAnswer, Answer, NoOp, Ops
  <1>9. AnswerInv
    BY <1>3, <1>8 DEF AnswerInv, Hashes
  <1>10. HeadInv /\ HashInv
    BY <1>2, <1>8 DEF HeadInv, HashInv
  <1>11. AnswerIsRight
    BY <1>8 DEF AnswerIsRight, IsRight
  <1> QED
    BY <1>6, <1>7, <1>9, <1>10, <1>11 DEF IInv

----------------------------------------------------------------------------
\* The invariant holds in every reachable state, for any storage and any
\* number of blocks.
THEOREM Invariance == Spec => []IInv
  <1>1. IInv /\ [Next]_vars => IInv'
    <2> SUFFICES ASSUME IInv, [Next]_vars PROVE IInv'
      OBVIOUS
    <2>1. ChainInv' /\ Grows
      BY ChainStep DEF IInv
    <2>2. CASE \/ UNCHANGED vars
               \/ \E parent \in Hashes, items \in Changes : Import(parent, items)
               \/ \E h \in Hashes : Finalize(h)
      <3>1. UNCHANGED <<op, hash, answer, head>>
        BY <2>2 DEF vars, Import, Finalize
      <3> QED
        BY <2>1, <3>1, ChainMoves
    <2> QED
      BY <2>2, BeginReadIInv, GetRequestIInv, GetBlockHashIInv, GetSignedBlockIInv,
         UseAnswerIInv DEF Next
  <1> QED
    BY <1>1, InitIInv, PTL DEF Spec

\* Type correctness: every answer is of the kind its operation promises, and
\* every hash in the program's hands is of a block.
THEOREM TypeCorrect == Spec => []TypeOK
  <1>1. IInv => TypeOK
    <2> SUFFICES ASSUME IInv PROVE TypeOK
      OBVIOUS
    <2>1. ChainInv /\ OpInv /\ AnswerInv /\ HeadInv
      BY DEF IInv
    <2>2. head \in {0} \cup Hashes /\ finalized \in Hashes
      BY <2>1, HeadType, ChainFacts
    <2>3. \A b \in DOMAIN tree :
            tree[b] \in [number : Nat, line : SUBSET Hashes, state : SUBSET DOMAIN Items]
      BY <2>1, ChainFacts DEF BlockRecords, Hashes
    <2>4. tree \in Seq([number : Nat, line : SUBSET Hashes, state : SUBSET DOMAIN Items])
      <3>1. \A S : (\A b \in DOMAIN tree : tree[b] \in S) => tree \in Seq(S)
        BY <2>1 DEF ChainInv
      <3> QED
        BY <2>3, <3>1
    <2> QED
      BY <2>1, <2>2, <2>4 DEF TypeOK, ChainInv, OpInv, AnswerInv, ValuesOf
  <1> QED
    BY <1>1, Invariance, PTL

\* A storage read returns the value of the entry and the keys it names, and no
\* other, and a proof is of the same: for any metadata, any hashers, any keys
\* and any state of the chain (key_hash and the storage_..._key functions).
THEOREM ReadsFindTheirItem == Spec => []ReadFindsItem
  <1>1. IInv => ReadFindsItem
    BY DEF IInv, AnswerIsRight, IsRight, ItemsAsked, ReadFindsItem, Named, IsNamed, KeysAsked
  <1> QED
    BY <1>1, Invariance, PTL

\* The keys listed under a prefix give back the identifiers of the map, all of
\* them and no others, if its hashers keep them, and the pairs are those of the
\* same items (get_keys, extract_map_identifier, extract_double_map_identifier).
THEOREM ListingsAreComplete == Spec => []ListingIsComplete
  <1>1. IInv => ListingIsComplete
    BY DEF IInv, AnswerIsRight, IsRight, ItemsListed, KeysListed, KeepsKey, Position,
           ListingIsComplete, Listed, Named, IsNamed, IsListed
  <1> QED
    BY <1>1, Invariance, PTL

\* get_signed_block_by_num returns a block with another number only if its
\* first request gave None, whatever the chain does between the two.
THEOREM NumberOfAnswer == Spec => []OtherNumberOnlyIfUnknown
  <1>1. IInv => OtherNumberOnlyIfUnknown
    BY DEF IInv, HashInv, Fits, OtherNumberOnlyIfUnknown
  <1> QED
    BY <1>1, Invariance, PTL

\* A number up to that of a finalized head the program has got always gives
\* the block behind that head: no change of the best block shows.
THEOREM FinalizedNumbers == Spec => []FinalizedNumberIsStable
  <1>1. IInv => FinalizedNumberIsStable
    BY DEF IInv, HashInv, Fits, FinalizedNumberIsStable, Ancestor
  <1> QED
    BY <1>1, Invariance, PTL

\* No step of the node forgets a block, moves one, or takes back a finalized
\* one.
THEOREM ChainOnlyGrows == Spec => [][Grows]_vars
  <1>1. IInv /\ [Next]_vars => Grows
    BY ChainStep DEF IInv
  <1> QED
    BY <1>1, Invariance, PTL DEF Spec
=============================================================================
