------------------------------ MODULE Keystore ------------------------------
(***************************************************************************)
(* LocalKeystore (client-keystore/src/lib.rs): several stores, each behind *)
(* a lock of its own, on one directory.  A key is one file; writing it is  *)
(* create (which truncates), set_permissions, three writes of the JSON     *)
(* string (quote, text, quote), flush.  The lock of a store covers all of  *)
(* them, but no lock covers the directory: stores interleave between these *)
(* steps, a write can fail at any of them, and a process can die.          *)
(*                                                                         *)
(* A file name holds the key type and the bytes of a public key, not its   *)
(* scheme: keys of the three schemes share the directory and the map.      *)
(***************************************************************************)
EXTENDS Naturals

CONSTANTS
  Stores,     \* LocalKeystore values, in one or several processes
  Schemes,    \* sr25519, ed25519 and ecdsa, by their CRYPTO_ID
  Long,       \* those with public keys of 33 bytes (ecdsa); the others have 32
  Phrases,    \* mnemonic phrases
  HexSeeds,   \* seeds written in hex: a password does not matter to them
  BadText,    \* a string that is no secret at all
  KeyTypes,   \* KeyTypeId
  Passwords,  \* passwords of stores
  NoPassword, \* a store without one
  MaxOps      \* bound: the writing operations begun

Texts == Phrases \cup HexSeeds \cup {BadText}
PasswordsOpt == Passwords \cup {NoPassword}

ASSUME KeystoreAssumption ==
  /\ Long \subseteq Schemes
  /\ Phrases \cap HexSeeds = {}
  /\ BadText \notin Phrases \cup HexSeeds
  /\ NoPassword \notin Passwords
  /\ MaxOps \in Nat

(***************************************************************************)
(* Pair::from_string of sp_core: the public key of a text under a          *)
(* password.  Different schemes, texts and passwords give different keys.  *)
(***************************************************************************)
NoPublic == <<BadText, BadText, NoPassword>>

from_string(scheme, text, password) ==
  IF text = BadText THEN NoPublic
  ELSE <<scheme, text, IF text \in HexSeeds THEN NoPassword ELSE password>>

Publics == {from_string(c, s, p) : c \in Schemes, s \in Texts \ {BadText},
                                   p \in PasswordsOpt}

\* Public::from_slice of a scheme takes the bytes of this public key.
from_slice(scheme, public) == scheme \in Long <=> public[1] \in Long

\* What identifies a key: the file name, and the key of the map in memory.
Keys == [type : KeyTypes, public : Publics]

(***************************************************************************)
(* A file: which of the three pieces of which text it holds since it was   *)
(* last truncated, and its mode.  It can be read when it holds one text    *)
(* whole; pieces of different texts overwrite each other.                  *)
(***************************************************************************)
Pieces == 1..3
Absent == [exists |-> FALSE, bytes |-> {}, mode |-> "default"]

Whole(text) == {text} \X Pieces

VARIABLES
  dir,         \* dir[k]: the file of key k
  store,       \* store[i]: [open, path, password, additional]
  writer,      \* writer[i]: the write_to_file in progress under the lock of i
  generated,   \* history: keys generate returned with Ok from a store with a path
  written,     \* history: <<key, text, operation>> of the writes begun
  interrupted, \* history: keys of writes that failed or died half way
  used,        \* history: phrases that generate has drawn
  ops          \* number of writing operations begun

histVars == <<generated, written, interrupted, used>>
vars == <<dir, store, writer, generated, written, interrupted, used, ops>>

Closed == [open |-> FALSE, path |-> FALSE, password |-> NoPassword,
           additional |-> {}]

NoWriter == [step |-> "none", key |-> "", text |-> "", op |-> ""]

(***************************************************************************)
(* Reading.  additional is the set of <<key, text>> of the map in memory;  *)
(* a reader holds the read lock, so these are read when writer[i] is none. *)
(***************************************************************************)
get_additional_pair(i, k) == {a \in store[i].additional : a[1] = k}

Text(t)  == [res |-> "Some", text |-> t]
Fail(r)  == [res |-> r, text |-> BadText]

key_phrase_by_type(i, k) ==
  CASE get_additional_pair(i, k) # {} ->
         Text((CHOOSE a \in get_additional_pair(i, k) : TRUE)[2])
    [] get_additional_pair(i, k) = {} /\ store[i].path /\ dir[k].exists ->
         IF \E t \in Texts : dir[k].bytes = Whole(t)
           THEN Text(CHOOSE t \in Texts : dir[k].bytes = Whole(t))
           ELSE Fail("Json")
    [] OTHER -> Fail("None")

Pair(public) == [res |-> "Some", public |-> public]
NoPair(r)    == [res |-> r, public |-> NoPublic]

\* Mutants: the phrase that was read is derived without the password; the pair
\* is not compared with the public key that was asked for.
key_pair_by_type_no_password(i, scheme, k) ==
  LET phrase == key_phrase_by_type(i, k)
      public == from_string(scheme, phrase.text, NoPassword)
  IN CASE phrase.res # "Some" -> NoPair(phrase.res)
       [] phrase.res = "Some" /\ public = NoPublic -> NoPair("InvalidPhrase")
       [] phrase.res = "Some" /\ public = k.public -> Pair(public)
       [] OTHER -> NoPair("PublicKeyMismatch")

key_pair_by_type_any(i, scheme, k) ==
  LET phrase == key_phrase_by_type(i, k)
      public == from_string(scheme, phrase.text, store[i].password)
  IN CASE phrase.res # "Some" -> NoPair(phrase.res)
       [] phrase.res = "Some" /\ public = NoPublic -> NoPair("InvalidPhrase")
       [] OTHER -> Pair(public)

key_pair_by_type(i, scheme, k) ==
  LET phrase == key_phrase_by_type(i, k)
      public == from_string(scheme, phrase.text, store[i].password)
  IN CASE phrase.res # "Some" -> NoPair(phrase.res)
       [] phrase.res = "Some" /\ public = NoPublic -> NoPair("InvalidPhrase")
       [] phrase.res = "Some" /\ public = k.public -> Pair(public)
       [] OTHER -> NoPair("PublicKeyMismatch")

raw_public_keys(i, t) ==
  {a[1].public : a \in {b \in store[i].additional : b[1].type = t}}
    \cup {k.public : k \in {l \in Keys : store[i].path /\ dir[l].exists /\ l.type = t}}

(***************************************************************************)
(* SyncCryptoStore, whose operations CryptoStore only wraps.               *)
(***************************************************************************)
\* Every key is listed under all three schemes.
keys(i, t) == Schemes \X raw_public_keys(i, t)

supported_keys(i, t, ks) == ks \cap keys(i, t)

\* sr25519_public_keys, ed25519_public_keys, ecdsa_public_keys and public_keys.
public_keys(i, scheme, t) == {p \in raw_public_keys(i, t) : from_slice(scheme, p)}

\* Mutant: all public keys are taken to be of 32 bytes.
sign_with_32(i, t, key) ==
  IF key[2][1] \in Long
    THEN NoPair("Corrupted public key")
    ELSE key_pair_by_type(i, key[1], [type |-> t, public |-> key[2]])

\* Who signs: key is a CryptoTypePublicPair.
sign_with(i, t, key) ==
  IF ~ from_slice(key[1], key[2])
    THEN NoPair("Corrupted public key")
    ELSE key_pair_by_type(i, key[1], [type |-> t, public |-> key[2]])

\* sr25519_vrf_sign and ecdsa_sign_prehashed, whose public key has the scheme.
sign_typed(i, t, scheme, public) ==
  key_pair_by_type(i, scheme, [type |-> t, public |-> public])

\* A read lock per key; an error counts as absent.
has_keys(i, ks) == \A k \in ks : key_phrase_by_type(i, k).res = "Some"

----------------------------------------------------------------------------
Init ==
  /\ dir = [k \in Keys |-> Absent]
  /\ store = [i \in Stores |-> Closed]
  /\ writer = [i \in Stores |-> NoWriter]
  /\ generated = {} /\ written = {} /\ interrupted = {} /\ used = {}
  /\ ops = 0

\* LocalKeystore::open and LocalKeystore::in_memory.
open(i, password) ==
  /\ ~ store[i].open
  /\ store' = [store EXCEPT ![i] =
       [open |-> TRUE, path |-> TRUE, password |-> password, additional |-> {}]]
  /\ UNCHANGED <<dir, writer, histVars, ops>>

in_memory(i) ==
  /\ ~ store[i].open
  /\ store' = [store EXCEPT ![i] =
       [open |-> TRUE, path |-> FALSE, password |-> NoPassword, additional |-> {}]]
  /\ UNCHANGED <<dir, writer, histVars, ops>>

\* The write lock of store i is free, and the operation is within the bound.
BeginOp(i) ==
  /\ store[i].open
  /\ writer[i] = NoWriter
  /\ ops < MaxOps
  /\ ops' = ops + 1

\* Mutant: the map is begun anew.
insert_ephemeral_pair_alone(i, k, text) ==
  store' = [store EXCEPT ![i].additional = {<<k, text>>}]

\* HashMap::insert: a later text of the same key replaces the earlier one.
insert_ephemeral_pair(i, k, text) ==
  store' = [store EXCEPT ![i].additional =
              (@ \ get_additional_pair(i, k)) \cup {<<k, text>>}]

StartWrite(i, k, text, op) ==
  /\ writer' = [writer EXCEPT ![i] =
       [step |-> "create", key |-> k, text |-> text, op |-> op]]
  /\ written' = written \cup {<<k, text, op>>}

\* generate, and ..._generate_new without a seed.  The phrase is drawn at random:
\* no other draw gave it.
generate_by_type(i, scheme, t, phrase) ==
  /\ BeginOp(i)
  /\ phrase \notin used
  /\ used' = used \cup {phrase}
  /\ LET k == [type |-> t, public |-> from_string(scheme, phrase, store[i].password)] IN
     IF store[i].path
       THEN StartWrite(i, k, phrase, "generate") /\ UNCHANGED store
       ELSE insert_ephemeral_pair(i, k, phrase) /\ UNCHANGED <<writer, written>>
  /\ UNCHANGED <<dir, generated, interrupted>>

\* Whatever text under whatever public key: nothing is checked.
insert_unknown(i, k, text) ==
  /\ BeginOp(i)
  /\ IF store[i].path
       THEN StartWrite(i, k, text, "insert")
       ELSE UNCHANGED <<writer, written>>
  /\ UNCHANGED <<dir, store, generated, interrupted, used>>

\* Mutant: a seed that does not parse is not refused.
insert_ephemeral_unchecked(i, scheme, t, seed) ==
  /\ BeginOp(i)
  /\ insert_ephemeral_pair(i, [type |-> t, public |-> from_string(scheme, seed, NoPassword)], seed)
  /\ UNCHANGED <<dir, writer, histVars>>

\* ..._generate_new with a seed: the public key is derived without the password
\* of the store.
insert_ephemeral_from_seed_by_type(i, scheme, t, seed) ==
  /\ BeginOp(i)
  /\ LET public == from_string(scheme, seed, NoPassword) IN
     IF public = NoPublic
       THEN UNCHANGED store
       ELSE insert_ephemeral_pair(i, [type |-> t, public |-> public], seed)
  /\ UNCHANGED <<dir, writer, histVars>>

(***************************************************************************)
(* write_to_file, step by step, under the write lock of store i.           *)
(***************************************************************************)
WriterStep(i, step, next) ==
  /\ writer[i].step = step
  /\ writer' = [writer EXCEPT ![i].step = next]
  /\ UNCHANGED <<store, histVars, ops>>

\* Mutant: the permissions are left as the umask gives them.
create_no_chmod(i) ==
  /\ WriterStep(i, "create", "quote")
  /\ dir' = [dir EXCEPT ![writer[i].key].exists = TRUE,
                        ![writer[i].key].bytes = {}]

create(i) ==
  /\ WriterStep(i, "create", "chmod")
  /\ dir' = [dir EXCEPT ![writer[i].key].exists = TRUE,
                        ![writer[i].key].bytes = {}]

set_permissions(i) ==
  /\ WriterStep(i, "chmod", "quote")
  /\ dir' = [dir EXCEPT ![writer[i].key].mode = "0600"]

WritePiece(i, n) == dir' = [dir EXCEPT ![writer[i].key].bytes = @ \cup {<<writer[i].text, n>>}]

\* Mutant: the last bytes are not written before Ok is returned.
to_writer_short(i) ==
  \/ WriterStep(i, "quote", "text") /\ WritePiece(i, 1)
  \/ WriterStep(i, "text", "flush") /\ WritePiece(i, 2)

to_writer(i) ==
  \/ WriterStep(i, "quote", "text") /\ WritePiece(i, 1)
  \/ WriterStep(i, "text", "unquote") /\ WritePiece(i, 2)
  \/ WriterStep(i, "unquote", "flush") /\ WritePiece(i, 3)

\* flush does nothing for a File; the operation returns Ok and the lock is free.
flush(i) ==
  /\ writer[i].step = "flush"
  /\ generated' = IF writer[i].op = "generate"
                    THEN generated \cup {writer[i].key} ELSE generated
  /\ writer' = [writer EXCEPT ![i] = NoWriter]
  /\ UNCHANGED <<dir, store, written, interrupted, used, ops>>

Interrupt(i) ==
  /\ writer' = [writer EXCEPT ![i] = NoWriter]
  /\ interrupted' = IF writer[i] = NoWriter THEN interrupted
                    ELSE interrupted \cup {writer[i].key}
  /\ UNCHANGED <<dir, generated, written, used, ops>>

\* A ? of write_to_file: the operation returns Err and the file stays as it is.
write_fails(i) ==
  /\ writer[i] # NoWriter
  /\ Interrupt(i)
  /\ UNCHANGED store

\* The store is dropped, or its process dies at any moment.
Crash(i) ==
  /\ store[i].open
  /\ Interrupt(i)
  /\ store' = [store EXCEPT ![i] = Closed]

Next ==
  \E i \in Stores :
    \/ \E p \in PasswordsOpt : open(i, p)
    \/ in_memory(i)
    \/ \E c \in Schemes, t \in KeyTypes, s \in Phrases : generate_by_type(i, c, t, s)
    \/ \E k \in Keys, s \in Texts : insert_unknown(i, k, s)
    \/ \E c \in Schemes, t \in KeyTypes, s \in Texts :
         insert_ephemeral_from_seed_by_type(i, c, t, s)
    \/ create(i)
    \/ set_permissions(i)
    \/ to_writer(i)
    \/ flush(i)
    \/ write_fails(i)
    \/ Crash(i)

Spec == Init /\ [][Next]_vars

----------------------------------------------------------------------------
\* Files, LocalKeystore values and writes in progress.
Files == [exists : BOOLEAN, bytes : SUBSET (Texts \X Pieces), mode : {"default", "0600"}]
LocalKeystores == [open : BOOLEAN, path : BOOLEAN, password : PasswordsOpt,
                   additional : SUBSET (Keys \X Texts)]
Writes == [step : {"create", "chmod", "quote", "text", "unquote", "flush"},
           key : Keys, text : Texts, op : {"generate", "insert"}]

TypeOK ==
  /\ dir \in [Keys -> Files]
  /\ store \in [Stores -> LocalKeystores]
  /\ writer \in [Stores -> {NoWriter} \cup Writes]
  /\ generated \subseteq Keys
  /\ written \subseteq Keys \X Texts \X {"generate", "insert"}
  /\ interrupted \subseteq Keys
  /\ used \subseteq Phrases
  /\ ops \in Nat

\* Store i can be read: it is open and no writer holds its lock.
Readable(i) == store[i].open /\ writer[i] = NoWriter

\* The file of k may be half written: a store is writing it, a write of it has
\* failed or died, or it was given two different texts.
MaybeTorn(k) ==
  \/ \E i \in Stores : writer[i] # NoWriter /\ writer[i].key = k
  \/ k \in interrupted
  \/ \E v, w \in written : v[1] = k /\ w[1] = k /\ v[2] # w[2]

\* A key that generate has returned is found again, listed and usable, by every
\* store on the directory with the same password: after crashes and restarts,
\* beside other writers, whatever is in memory, unless insert_unknown was
\* called for the same public key (generate_by_type, key_pair_by_type).
GeneratedKeySurvives ==
  \A i \in Stores, k \in generated :
    Readable(i) /\ store[i].path /\ store[i].password = k.public[3]
      /\ (\A w \in written : w[1] = k => w[3] # "insert")
      => /\ key_pair_by_type(i, k.public[1], k).res = "Some"
         /\ k.public \in raw_public_keys(i, k.type)

\* A file that cannot be read is one that a store is writing, one whose write
\* failed or died, or one that was given two different texts: two stores that
\* write the same text at once leave it whole (write_to_file).
TornOnlyIfInterrupted ==
  \A k \in Keys :
    dir[k].exists /\ (\A t \in Texts : dir[k].bytes # Whole(t)) => MaybeTorn(k)

\* No part of a secret is in a file that others may read: the mode is set
\* before the first write, also when stores write the same file at once.
SecretsArePrivate ==
  \A k \in Keys : (\E n \in Pieces, t \in Texts : <<t, n>> \in dir[k].bytes)
                    => dir[k].mode = "0600"

\* What sign_with returns is signed by the key and in the scheme it was asked
\* for, whatever insert_unknown has put under that public key and whoever
\* wrote the file; and what signs is among supported_keys and has_keys.
SignsAsListed ==
  \A i \in Stores, t \in KeyTypes, c \in Schemes, p \in Publics :
    \A signed \in {sign_with(i, t, <<c, p>>), sign_typed(i, t, c, p)} :
    Readable(i) /\ signed.res = "Some" =>
      /\ signed.public = p
      /\ p[1] = c
      /\ supported_keys(i, t, {<<c, p>>}) # {}
      /\ has_keys(i, {[type |-> t, public |-> p]})

\* A key that ..._public_keys lists for its scheme can be used to sign, unless
\* its file may be torn or a text stored for it does not derive it under the
\* password of this store: an insert_unknown of something else, a file of a
\* store with another password, a seed in a store with one.
ListedKeySigns ==
  \A i \in Stores, t \in KeyTypes, c \in Schemes : Readable(i) =>
    \A p \in public_keys(i, c, t) :
      LET k == [type |-> t, public |-> p]
          stored == {a[2] : a \in get_additional_pair(i, k)}
                      \cup {w[2] : w \in {v \in written : v[1] = k}}
      IN \/ sign_with(i, t, <<c, p>>).res = "Some"
         \/ p[1] # c
         \/ MaybeTorn(k)
         \/ \E text \in stored : from_string(c, text, store[i].password) # p

\* has_keys takes the lock once per key, and still its yes is right when it
\* returns: a store loses a key it has found only by closing, or when a store
\* is writing the file of that key.
FoundKeyStays ==
  [][\A i \in Stores, k \in Keys :
       store[i].open /\ has_keys(i, {k}) /\ store'[i].open =>
         has_keys(i, {k})' \/ \E j \in Stores : writer[j] # NoWriter /\ writer[j].key = k
    ]_vars

\* The documentation of key_pair: "`Ok(Some(_))` if the key exists".  A key
\* that insert_ephemeral_from_seed_by_type put in the store exists in it.
EphemeralKeyIsFound ==
  \A i \in Stores : Readable(i) =>
    \A a \in store[i].additional :
      key_pair_by_type(i, a[1].public[1], a[1]).res = "Some"
=============================================================================
