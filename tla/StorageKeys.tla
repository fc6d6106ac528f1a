---------------------------- MODULE StorageKeys ----------------------------
(***************************************************************************)
(* The keys of runtime storage: how the client builds them from the        *)
(* metadata (node-api/src/storage.rs and metadata.rs) and how it reads     *)
(* identifiers back from them (node-api/src/decoder.rs).                   *)
(*                                                                         *)
(* A byte string is a sequence of units of 8 bytes.  A hash is as many     *)
(* units as its width, and tells its input: nobody computes collisions     *)
(* (the first unit of a twox hash does not depend on its width).           *)
(* A Result is a set with its value, or the empty set for its error.       *)
(***************************************************************************)
EXTENDS Naturals, Sequences, SequencesExt

CONSTANTS
  Enc,      \* Enc[k]: the SCALE encoding of map key k
  Entries   \* the storage entries of the runtime, as its metadata lists them

Keys == DOMAIN Enc

Hashers == {"Identity", "Blake2_128", "Blake2_128Concat", "Blake2_256",
            "Twox128", "Twox256", "Twox64Concat"}

\* SCALE encodings of one type are never empty and none begins another; a
\* plain entry has no hasher, and names are unique in a pallet.
ASSUME EncAssumption ==
  /\ \A k \in Keys : Enc[k] \in Seq(Range(Enc[k])) /\ Enc[k] # <<>>
  /\ \A k, l \in Keys : k # l => ~ IsPrefix(Enc[k], Enc[l])
  /\ \A e \in Entries : e.hashers \in Seq(Hashers)
  /\ \A e, f \in Entries : e.pallet = f.pallet /\ e.name = f.name => e = f

Hash(algorithm, bytes, units) == [i \in 1..units |-> <<algorithm, bytes, i>>]

\* The name of a pallet or an entry, as_bytes().
Name(n) == <<<<"name", n, 1>>>>

twox_128(bytes) == Hash("twox", bytes, 2)

----------------------------------------------------------------------------
(***************************************************************************)
(* Building a key.                                                         *)
(***************************************************************************)
key_hash(k, hasher) ==
  CASE hasher = "Identity"         -> Enc[k]
    [] hasher = "Blake2_128"       -> Hash("blake2_128", Enc[k], 2)
    [] hasher = "Blake2_128Concat" -> Hash("blake2_128", Enc[k], 2) \o Enc[k]
    [] hasher = "Blake2_256"       -> Hash("blake2_256", Enc[k], 4)
    [] hasher = "Twox128"          -> Hash("twox", Enc[k], 2)
    [] hasher = "Twox256"          -> Hash("twox", Enc[k], 4)
    [] hasher = "Twox64Concat"     -> Hash("twox", Enc[k], 1) \o Enc[k]

\* StorageValue::key, and the beginning of every other key: the prefix of the
\* storage of a pallet is taken to be its name.
Prefix(e) == twox_128(Name(e.pallet)) \o twox_128(Name(e.name))

\* GetStorage for an entry of the metadata: one of another kind is an error,
\* but any map has a first hasher.
get_value(e) == IF e.hashers = <<>> THEN {Prefix(e)} ELSE {}

get_map(e, k) ==
  IF Len(e.hashers) >= 1 THEN {Prefix(e) \o key_hash(k, e.hashers[1])} ELSE {}

\* Mutant: the keys are hashed in the other order.
get_double_map_swapped(e, first, second) ==
  IF Len(e.hashers) >= 2
    THEN {Prefix(e) \o key_hash(second, e.hashers[1]) \o key_hash(first, e.hashers[2])}
    ELSE {}

get_double_map(e, first, second) ==
  IF Len(e.hashers) >= 2
    THEN {Prefix(e) \o key_hash(first, e.hashers[1]) \o key_hash(second, e.hashers[2])}
    ELSE {}

get_map_prefix(e) == IF e.hashers = <<>> THEN {} ELSE {Prefix(e)}

get_double_map_prefix(e, first) == get_map(e, first)

\* Metadata::pallet(p)?.storage(n)?, and the keys of what it finds.
storage(p, n) == {e \in Entries : e.pallet = p /\ e.name = n}

storage_value_key(p, n) == UNION {get_value(e) : e \in storage(p, n)}

storage_map_key(p, n, k) == UNION {get_map(e, k) : e \in storage(p, n)}

storage_map_key_prefix(p, n) == UNION {get_map_prefix(e) : e \in storage(p, n)}

storage_double_map_key(p, n, first, second) ==
  UNION {get_double_map(e, first, second) : e \in storage(p, n)}

storage_double_map_partial_key(p, n, first) ==
  UNION {get_double_map_prefix(e, first) : e \in storage(p, n)}

----------------------------------------------------------------------------
(***************************************************************************)
(* Reading an identifier back.                                             *)
(***************************************************************************)
\* input.read(&mut [0; n]): an error if there is less.
Skip(n, input) ==
  {SubSeq(bytes, n + 1, Len(bytes)) : bytes \in {b \in input : Len(b) >= n}}

\* T::decode: reads one key and leaves the rest.
decode(input) == {k \in Keys : \E bytes \in input : IsPrefix(Enc[k], bytes)}

extract_identifier_from_concated_key(hasher, input) ==
  CASE hasher = "Blake2_128Concat" -> Skip(2, input)
    [] hasher = "Twox64Concat"     -> Skip(1, input)
    [] OTHER                       -> {}

extract_map_identifier(hasher, input) ==
  decode(extract_identifier_from_concated_key(hasher, Skip(4, input)))

\* Mutant: the first key is taken to be as long as a hash.
extract_double_map_identifier_fixed(hasher1, hasher2, first, input) ==
  decode(extract_identifier_from_concated_key(hasher2,
    Skip(1, extract_identifier_from_concated_key(hasher1, Skip(4, input)))))

extract_double_map_identifier(hasher1, hasher2, first, input) ==
  decode(extract_identifier_from_concated_key(hasher2,
    Skip(Len(Enc[first]),
         extract_identifier_from_concated_key(hasher1, Skip(4, input)))))

----------------------------------------------------------------------------
(***************************************************************************)
(* The runtime, external: where it keeps the value of an entry under a     *)
(* sequence of keys.                                                       *)
(***************************************************************************)
Algorithm(hasher) ==
  CASE hasher \in {"Blake2_128", "Blake2_128Concat"} -> "blake2_128"
    [] hasher = "Blake2_256" -> "blake2_256"
    [] OTHER -> "twox"

Width == [Identity |-> 0, Blake2_128 |-> 2, Blake2_128Concat |-> 2, Blake2_256 |-> 4,
          Twox128 |-> 2, Twox256 |-> 4, Twox64Concat |-> 1]

Concat == {"Blake2_128Concat", "Twox64Concat"}

RuntimeHash(hasher, k) ==
  Hash(Algorithm(hasher), Enc[k], Width[hasher])
    \o IF hasher \in Concat \cup {"Identity"} THEN Enc[k] ELSE <<>>

\* The last n of the keys, each with its hasher, one after the other.
HashedKeys(e, keys) ==
  LET last[n \in 0..Len(keys)] ==
        IF n = 0 THEN <<>>
        ELSE LET i == (Len(keys) - n) + 1
             IN RuntimeHash(e.hashers[i], keys[i]) \o last[n - 1]
  IN last

RuntimeKey(e, keys) ==
  twox_128(Name(e.pallet)) \o twox_128(Name(e.name)) \o HashedKeys(e, keys)[Len(keys)]
=============================================================================
