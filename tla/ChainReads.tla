----------------------------- MODULE ChainReads -----------------------------
(***************************************************************************)
(* The reads of Api (src/std/mod.rs): a program asks for storage values,   *)
(* their proofs, the keys or pairs of a map, headers and blocks, while the *)
(* chain grows, changes its best block and finalizes between the requests. *)
(* Each request (src/std/rpc/json_req.rs) is a blocking call (module       *)
(* BlockingCall); an RPC error, such as a state the node no longer has, is *)
(* read as None.                                                           *)
(***************************************************************************)
EXTENDS StorageKeys

CONSTANTS
  Items,      \* the values the runtime may keep: Items[i] has an entry and keys
  Changes,    \* the sets of i that a block may write or clear
  MaxBlocks   \* bound: the blocks of the chain, on all forks

\* An item has a key for every hasher of its entry.
ASSUME ItemsAssumption ==
  /\ MaxBlocks \in Nat \ {0}
  /\ Changes \subseteq SUBSET DOMAIN Items
  /\ \A i \in DOMAIN Items :
       /\ Items[i].entry \in Entries
       /\ Items[i].keys \in Seq(Keys)
       /\ Len(Items[i].keys) = Len(Items[i].entry.hashers)

VARIABLES
  tree,       \* tree[h]: the block with hash h: its number, line and state
  best,       \* hash of the best block
  finalized,  \* hash of the last finalized block
  op,         \* the operation of the program that waits for the node, or NoOp
  hash,       \* the hash get_signed_block_by_num has got, once it has one
  answer,     \* the operation that returned last, what it returned, and how
  head        \* the finalized head the program got last, or 0

chain == <<tree, best, finalized>>

vars == <<chain, op, hash, answer, head>>

\* The blocks of the node, on all forks.  The line of a block: the hashes from
\* it back to the first block, its own included.  (An optional hash of 0 is None.)
Hashes == DOMAIN tree

Names == {<<e.pallet, e.name>> : e \in Entries}

NoOp == [call |-> "none", of |-> "", name |-> <<"", "">>, first |-> "", second |-> "", at |-> 0]

\* The operations, with the blocks they can ask for: the value of an entry of
\* some kind or its proof; the keys or the pairs of a map, or of a double map
\* under a first key; a block.
EntryOps(calls, of, firsts, seconds, blocks) ==
  [call : calls, of : of, name : Names, first : firsts, second : seconds, at : blocks]

BlockOp(call, at) == [NoOp EXCEPT !.call = call, !.at = at]

ReadOps(blocks) ==
  EntryOps({"storage", "proof"}, {"value"}, {""}, {""}, blocks)
    \cup EntryOps({"storage", "proof"}, {"map"}, Keys, {""}, blocks)
    \cup EntryOps({"storage", "proof"}, {"doubleMap"}, Keys, Keys, blocks)
    \cup EntryOps({"keys", "pairs"}, {"map"}, {""}, {""}, blocks)
    \cup EntryOps({"keys", "pairs"}, {"doubleMap"}, Keys, {""}, blocks)
    \cup {BlockOp("header", h) : h \in blocks} \cup {BlockOp("block", h) : h \in blocks}
    \cup {BlockOp("finalizedHead", 0)}

\* from: the block whose state or body was returned; error: an RPC error was
\* read as None on the way.
Answer(o, values, from, error) ==
  [op |-> o, values |-> values, from |-> from, error |-> error]

NoAnswer == Answer(NoOp, {}, 1, FALSE)

\* The program waits for nothing and has used the last answer.
Idle == op = NoOp /\ answer = NoAnswer

At(h) == IF h = 0 THEN best ELSE h

----------------------------------------------------------------------------
(***************************************************************************)
(* json_req.rs: the requests.                                              *)
(***************************************************************************)
json_req(method, params) == [method |-> method, params |-> params]

state_get_storage(key, at)     == json_req("state_getStorage", <<key, at>>)
state_get_read_proof(keys, at) == json_req("state_getReadProof", <<keys, at>>)
state_get_keys(prefix, at)     == json_req("state_getKeys", <<prefix, at>>)
state_get_pairs(prefix, at)    == json_req("state_getPairs", <<prefix, at>>)
chain_get_block_hash(number)   == json_req("chain_getBlockHash", <<number>>)
chain_get_header(at)           == json_req("chain_getHeader", <<at>>)
chain_get_block(at)            == json_req("chain_getBlock", <<at>>)
chain_get_finalized_head       == json_req("chain_getFinalizedHead", <<>>)

----------------------------------------------------------------------------
(***************************************************************************)
(* The node.  The value of an item stands for itself, a proof for the      *)
(* values it proves, a header or a body for the hash of its block.         *)
(***************************************************************************)
\* The block with number n on the way from h to the first block, if any.
Ancestor(n, h) == {g \in tree[h].line : tree[g].number = n}

\* Where the runtime keeps an item.
KeyOf == [i \in DOMAIN Items |-> RuntimeKey(Items[i].entry, Items[i].keys)]

\* The block an answer is from: that of the last parameter.
Block(r) ==
  IF r.method = "chain_getFinalizedHead" THEN finalized ELSE At(Last(r.params))

Serve(r) ==
  LET Under(P(_)) == {i \in tree[Block(r)].state : P(KeyOf[i])}
      IsUnder(key) == IsPrefix(r.params[1], key)
  IN CASE r.method = "state_getStorage"   -> Under(LAMBDA key : key = r.params[1])
       [] r.method = "state_getReadProof" -> Under(LAMBDA key : key \in r.params[1])
       [] r.method = "state_getPairs"     -> Under(IsUnder)
       [] r.method = "state_getKeys"      ->
            {KeyOf[i] : i \in Under(IsUnder)}
       [] r.method \in {"chain_getHeader", "chain_getBlock", "chain_getFinalizedHead"} ->
            {Block(r)}

\* The answer to chain_get_block_hash: 0 is None, n + 1 is Some(n).
ServeHash(r) ==
  LET number == r.params[1] IN
  IF number = 0 THEN {best} ELSE Ancestor(number - 1, best)

----------------------------------------------------------------------------
(***************************************************************************)
(* The accessors of Api.                                                   *)
(***************************************************************************)
\* The key of get_storage_value, get_storage_map, get_storage_double_map and
\* of the proofs of the same.
StorageKey(o) ==
  CASE o.of = "value" -> storage_value_key(o.name[1], o.name[2])
    [] o.of = "map"   -> storage_map_key(o.name[1], o.name[2], o.first)
    [] o.of = "doubleMap" ->
         storage_double_map_key(o.name[1], o.name[2], o.first, o.second)

\* get_storage_map_key_prefix, get_storage_double_map_partial_prefix.
KeyPrefix(o) ==
  CASE o.of = "map" -> storage_map_key_prefix(o.name[1], o.name[2])
    [] o.of = "doubleMap" -> storage_double_map_partial_key(o.name[1], o.name[2], o.first)

get_opaque_storage_by_key_hash(o) ==
  {state_get_storage(key, o.at) : key \in StorageKey(o)}

get_storage_proof_by_keys(o) ==
  {state_get_read_proof({key}, o.at) : key \in StorageKey(o)}

get_keys(o) == {state_get_keys(p, o.at) : p \in KeyPrefix(o)}

get_opaque_storage_pairs_by_key_hash(o) ==
  {state_get_pairs(p, o.at) : p \in KeyPrefix(o)}

get_header(o) == {chain_get_header(o.at)}

get_block(o) == {chain_get_block(o.at)}

\* Mutant: the head of the best chain.
get_finalized_head_best(o) == {chain_get_header(0)}

get_finalized_head(o) == {chain_get_finalized_head}

\* The request of an operation, or none after an error of the metadata.
Requests(o) ==
  CASE o.call = "storage" -> get_opaque_storage_by_key_hash(o)
    [] o.call = "proof"   -> get_storage_proof_by_keys(o)
    [] o.call = "keys"    -> get_keys(o)
    [] o.call = "pairs"   -> get_opaque_storage_pairs_by_key_hash(o)
    [] o.call = "header"  -> get_header(o)
    [] o.call = "block"   -> get_block(o)
    [] o.call = "finalizedHead" -> get_finalized_head(o)

\* The identifiers that the extract functions find in a key of the entry.
Identifiers(o, key) ==
  LET Extract(e) ==
        CASE o.of = "map" -> extract_map_identifier(e.hashers[1], {key})
          [] o.of = "doubleMap" ->
               extract_double_map_identifier(e.hashers[1], e.hashers[2], o.first, {key})
  IN UNION {Extract(e) : e \in {f \in storage(o.name[1], o.name[2]) :
                                 o.of = "doubleMap" => Len(f.hashers) >= 2}}

\* What the program makes of an answer.
Read(o, values) ==
  IF o.call = "keys" THEN UNION {Identifiers(o, key) : key \in values} ELSE values

----------------------------------------------------------------------------
Init ==
  /\ tree = <<[number |-> 0, line |-> {1}, state |-> {}]>>
  /\ best = 1 /\ finalized = 1
  /\ op = NoOp
  /\ hash = 0
  /\ answer = NoAnswer
  /\ head = 0

\* The program begins a read, at a block it knows or at none.
BeginRead ==
  /\ Idle
  /\ \E o \in ReadOps({0} \cup Hashes) : op' = o
  /\ UNCHANGED <<chain, hash, answer, head>>

\* The answer of the node reaches the program, or none was asked for.
get_request ==
  /\ op.call \notin {"none", "byNum"}
  /\ \/ \E r \in Requests(op) :
          \/ answer' = Answer(op, Read(op, Serve(r)), Block(r), FALSE)
          \/ answer' = Answer(op, {}, Block(r), TRUE)
     \/ Requests(op) = {} /\ answer' = Answer(op, {}, At(op.at), FALSE)
  /\ op' = NoOp
  /\ UNCHANGED <<chain, hash, head>>

\* Mutant: the number is used as the hash.
get_block_hash_is_number(number) ==
  /\ Idle
  /\ op' = BlockOp("byNum", number)
  /\ hash' = number
  /\ UNCHANGED <<chain, answer, head>>

\* The first request of get_signed_block_by_num, with its answer.
get_block_hash(number) ==
  /\ Idle
  /\ op' = BlockOp("byNum", number)
  /\ \/ hash' \in ServeHash(chain_get_block_hash(number))
     \/ hash' = 0
  /\ UNCHANGED <<chain, answer, head>>

\* Mutant: the second request asks for the best block.
get_signed_block_best ==
  /\ op.call = "byNum"
  /\ LET r == chain_get_block(0) IN
     \/ answer' = Answer(op, Serve(r), Block(r), hash = 0)
     \/ answer' = Answer(op, {}, Block(r), TRUE)
  /\ op' = NoOp
  /\ hash' = 0
  /\ UNCHANGED <<chain, head>>

\* The second request: the block with that hash, and the best one for None.
get_signed_block ==
  /\ op.call = "byNum"
  /\ LET r == chain_get_block(hash) IN
     \/ answer' = Answer(op, Serve(r), Block(r), hash = 0)
     \/ answer' = Answer(op, {}, Block(r), TRUE)
  /\ op' = NoOp
  /\ hash' = 0
  /\ UNCHANGED <<chain, head>>

\* The program goes on, and keeps a finalized head it has got.
UseAnswer ==
  /\ answer # NoAnswer
  /\ answer' = NoAnswer
  /\ head' = IF answer.op.call = "finalizedHead" /\ ~ answer.error
               THEN CHOOSE h \in answer.values : TRUE ELSE head
  /\ UNCHANGED <<chain, op, hash>>

\* A block on one that leaves no finalized block; items appear or disappear in
\* its state.  It is the best block if its chain is longer.
Import(parent, items) ==
  /\ Len(tree) < MaxBlocks
  /\ finalized \in Ancestor(tree[finalized].number, parent)
  /\ LET state == tree[parent].state
         block == [number |-> tree[parent].number + 1,
                   line   |-> tree[parent].line \cup {Len(tree) + 1},
                   state  |-> (state \ items) \cup (items \ state)]
     IN /\ tree' = Append(tree, block)
        /\ best' = IF block.number > tree[best].number THEN Len(tree) + 1 ELSE best
  /\ UNCHANGED <<finalized, op, hash, answer, head>>

Finalize(h) ==
  /\ tree[h].number > tree[finalized].number
  /\ h \in Ancestor(tree[h].number, best)
  /\ finalized' = h
  /\ UNCHANGED <<tree, best, op, hash, answer, head>>

Next ==
  \/ BeginRead
  \/ get_request
  \/ \E number \in 0..(MaxBlocks + 1) : get_block_hash(number)
  \/ get_signed_block
  \/ UseAnswer
  \/ \E parent \in Hashes, items \in Changes : Import(parent, items)
  \/ \E h \in Hashes : Finalize(h)

Spec == Init /\ [][Next]_vars

----------------------------------------------------------------------------
Ops == {NoOp} \cup ReadOps({0} \cup Hashes)
         \cup {BlockOp("byNum", n) : n \in 0..(MaxBlocks + 1)}

TypeOK ==
  /\ tree \in Seq([number : Nat, line : SUBSET Hashes, state : SUBSET DOMAIN Items])
  /\ best \in Hashes /\ finalized \in Hashes
  /\ op \in Ops
  /\ hash \in {0} \cup Hashes /\ head \in {0} \cup Hashes
  /\ answer.op \in Ops /\ answer.from \in Hashes /\ answer.error \in BOOLEAN
  /\ answer.values \subseteq
       CASE answer.op.call \in {"storage", "proof", "pairs"} -> DOMAIN Items
         [] answer.op.call = "keys" -> Keys
         [] OTHER -> Hashes

\* The items of the block an answer is from that have the name it asked for.
Named ==
  {i \in tree[answer.from].state : <<Items[i].entry.pallet, Items[i].entry.name>> = answer.op.name}

\* A storage read returns the value of the entry and the keys it names in one
\* state of the chain, and no other value, and a proof is of the same: also
\* through an accessor of the wrong kind, and for every hasher (key_hash and the
\* storage_..._key functions).
ReadFindsItem ==
  answer.op.call \in {"storage", "proof"} /\ ~ answer.error =>
    answer.values =
      {i \in Named : Items[i].keys = CASE answer.op.of = "value" -> <<>>
                                       [] answer.op.of = "map"   -> <<answer.op.first>>
                                       [] OTHER -> <<answer.op.first, answer.op.second>>}

\* The items a listing is about: those of any map, or those under a first key.
Listed ==
  {i \in Named : /\ Items[i].keys # <<>>
                 /\ answer.op.of = "doubleMap" => Items[i].keys[1] = answer.op.first}

\* The keys listed under the prefix of a map give back its identifiers, all of
\* them and no others, or none if its hashers do not keep them: what the key
\* functions put into a key is what extract_..._identifier takes out.  The pairs
\* under the same prefix are those of the same items, whatever the hashers.
ListingIsComplete ==
  ~ answer.error =>
    /\ answer.op.call = "keys" =>
         LET n == IF answer.op.of = "map" THEN 1 ELSE 2 IN
         answer.values = {Items[i].keys[n] : i \in {j \in Listed :
                            /\ Len(Items[j].keys) >= n
                            /\ \A m \in 1..n : Items[j].entry.hashers[m] \in Concat}}
    /\ answer.op.call = "pairs" =>
         answer.values = Listed

\* get_signed_block_by_num may return a block of a fork left behind between its
\* two requests, but one with another number only if the first request gave
\* None (then it is the best block of another moment).
OtherNumberOnlyIfUnknown ==
  answer.op.call = "byNum" /\ answer.op.at > 0 /\ ~ answer.error =>
    \A h \in answer.values : tree[h].number = answer.op.at - 1

\* Once the program has a finalized head, a number up to that of the head
\* always gives the block on the way to it: neither a change of the best block
\* between requests nor one between the two requests of
\* get_signed_block_by_num shows.
FinalizedNumberIsStable ==
  /\ answer.op.call = "byNum" /\ answer.op.at > 0 /\ ~ answer.error
  /\ head # 0 /\ answer.op.at - 1 <= tree[head].number
  => answer.values \subseteq Ancestor(answer.op.at - 1, head)
=============================================================================
