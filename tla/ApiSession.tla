----------------------------- MODULE ApiSession -----------------------------
(***************************************************************************)
(* Api values that compose and send extrinsics for one account             *)
(* (src/std/mod.rs, compose-macros/src/lib.rs) while the chain grows and   *)
(* its runtime is upgraded.  Api::new reads the genesis hash, the metadata *)
(* and the runtime version in three requests and keeps them for ever;      *)
(* compose_extrinsic reads the nonce from the state of the best block.     *)
(*                                                                         *)
(* Every request is a blocking call (module BlockingCall): its answer is a *)
(* value of the chain at one moment, an error of the connection, or, since *)
(* an RPC error is read as "null", None.  The chain is external.           *)
(***************************************************************************)
EXTENDS Naturals, Sequences

CONSTANTS
  Sessions,  \* Api values, in threads or processes of their own
  MaxSpec,   \* bound: the last runtime version
  MaxXts,    \* bound: the extrinsics composed
  MaxReorgs  \* bound: the blocks taken back

ASSUME BoundsAssumption == MaxSpec \in Nat /\ MaxXts \in Nat /\ MaxReorgs \in Nat

VARIABLES
  spec,      \* runtime version of the chain; an upgrade renumbers the calls
  nonce,     \* nonce of the account in the state of the best block
  pool,      \* valid extrinsics waiting for a block
  chain,     \* the best chain: a block holds an extrinsic or an upgrade
  reorgs,    \* number of blocks that were taken back
  api,       \* api[s]: the Api value and how far its construction is
  xt,        \* xt[s]: the extrinsic session s has composed, or NoXt
  phase,     \* phase[s]: what the thread of session s is doing
  rejected,  \* history: extrinsics the node refused, with the reason
  count      \* number of extrinsics composed

chainVars == <<spec, nonce, pool, chain, reorgs>>
vars == <<spec, nonce, pool, chain, reorgs, api, xt, phase, rejected, count>>

(***************************************************************************)
(* metadata and runtime_version by the runtime they come from (0: not      *)
(* read).                                                                  *)
(***************************************************************************)
NoApi == [signer |-> FALSE, metadata |-> 0, runtime_version |-> 0]

\* An extrinsic: what was signed, whose metadata gave the call index, and
\* three facts about its making: its Api has read metadata and version of
\* different runtimes (torn); the pool was empty and the nonce was read (clean);
\* nobody else has sent one and no block was taken back since (alone).
NoXt == [id |-> 0, signed |-> FALSE, nonce |-> 0, spec |-> 0, meta |-> 0,
         torn |-> FALSE, clean |-> FALSE, alone |-> FALSE]

Phases == {"none", "metadata", "runtime_version", "ready", "composed",
           "untilReady", "untilInBlock", "failed"}

Goto(s, p) == phase' = [phase EXCEPT ![s] = p]

----------------------------------------------------------------------------
Init ==
  /\ spec = 1 /\ nonce = 0 /\ pool = {} /\ chain = <<>> /\ reorgs = 0
  /\ api = [s \in Sessions |-> NoApi]
  /\ xt = [s \in Sessions |-> NoXt]
  /\ phase = [s \in Sessions |-> "none"]
  /\ rejected = {} /\ count = 0

(***************************************************************************)
(* Api::new, one action per request.                                       *)
(***************************************************************************)
_get_genesis_hash(s) ==
  /\ phase[s] = "none"
  /\ Goto(s, "metadata")
  /\ UNCHANGED <<chainVars, api, xt, rejected, count>>

_get_metadata(s) ==
  /\ phase[s] = "metadata"
  /\ api' = [api EXCEPT ![s].metadata = spec]
  /\ Goto(s, "runtime_version")
  /\ UNCHANGED <<chainVars, xt, rejected, count>>

_get_runtime_version(s) ==
  /\ phase[s] = "runtime_version"
  /\ api' = [api EXCEPT ![s].runtime_version = spec]
  /\ Goto(s, "ready")
  /\ UNCHANGED <<chainVars, xt, rejected, count>>

\* Err(Genesis), Err(MetadataFetch), Err(RuntimeVersion), Disconnected, or
\* text that does not parse: no Api value.
new_fails(s) ==
  /\ phase[s] \in {"none", "metadata", "runtime_version"}
  /\ Goto(s, "failed")
  /\ UNCHANGED <<chainVars, api, xt, rejected, count>>

set_signer(s) ==
  /\ phase[s] = "ready"
  /\ ~ api[s].signer
  /\ api' = [api EXCEPT ![s].signer = TRUE]
  /\ UNCHANGED <<chainVars, xt, phase, rejected, count>>

\* Mutants: the nonce of the last extrinsic that was applied, the one after the
\* next, and one that counts what is pending once too often.
get_nonce_last  == {[value |-> nonce - 1, read |-> TRUE]}
get_nonce_ahead == {[value |-> nonce + 1, read |-> TRUE]}
get_nonce_pending ==
  {[value |-> IF pool = {} THEN nonce ELSE nonce + 2, read |-> TRUE]}

\* get_account_info(..).map(acc_opt.map_or_else(0, nonce)): no account, and an
\* RPC error read as None, give nonce 0; read: nothing but the truth was read.
get_nonce == {[value |-> nonce, read |-> TRUE], [value |-> 0, read |-> nonce = 0]}

\* compose_call and compose_extrinsic_offline with nonce n and spec_version v.
compose_extrinsic_offline(s, n, v) ==
  [id     |-> count + 1,
   signed |-> TRUE,
   nonce  |-> n.value,
   spec   |-> v,
   meta   |-> api[s].metadata,
   torn   |-> api[s].metadata # api[s].runtime_version,
   clean  |-> pool = {} /\ n.read,
   alone  |-> TRUE]

\* Mutant: the runtime version is read again, the metadata is not.
compose_extrinsic_fresh_version(s) ==
  /\ phase[s] = "ready"
  /\ api[s].signer
  /\ count < MaxXts
  /\ count' = count + 1
  /\ \E n \in get_nonce : xt' = [xt EXCEPT ![s] = compose_extrinsic_offline(s, n, spec)]
  /\ Goto(s, "composed")
  /\ UNCHANGED <<chainVars, api, rejected>>

\* compose_extrinsic: the call from the kept metadata, the nonce from the node,
\* spec_version from the kept runtime_version; unsigned without a signer.
compose_extrinsic(s) ==
  /\ phase[s] = "ready"
  /\ count < MaxXts
  /\ count' = count + 1
  /\ \/ /\ api[s].signer
        /\ \E n \in get_nonce :
             xt' = [xt EXCEPT ![s] =
                      compose_extrinsic_offline(s, n, api[s].runtime_version)]
     \/ /\ ~ api[s].signer
        /\ xt' = [xt EXCEPT ![s] = [NoXt EXCEPT !.id = count + 1, !.meta = api[s].metadata]]
  /\ Goto(s, "composed")
  /\ UNCHANGED <<chainVars, api, rejected>>

\* pallet(..).unwrap() and calls.get(..).unwrap() of compose_call on a name the
\* kept metadata lacks, $api.get_nonce().unwrap() on an Err: the thread panics.
compose_panics(s) ==
  /\ phase[s] = "ready"
  /\ Goto(s, "failed")
  /\ UNCHANGED <<chainVars, api, xt, rejected, count>>

\* The node's check of a submitted extrinsic, and why it refuses one.
Refusals(x) ==
  {r \in {"unsigned", "version", "stale", "priority", "future"} :
     \/ r = "unsigned" /\ ~ x.signed
     \/ r = "version"  /\ x.signed /\ x.spec # spec
     \/ r = "stale"    /\ x.signed /\ x.spec = spec /\ x.nonce < nonce
     \/ r = "priority" /\ x.signed /\ x.spec = spec
                       /\ \E y \in pool : y.nonce = x.nonce
     \/ r = "future"   /\ x.signed /\ x.spec = spec
                       /\ \E n \in nonce..(x.nonce - 1) :
                            \A y \in pool : y.nonce # n }

\* Another session's extrinsic has come first.
NotAlone(s) ==
  xt' = [r \in Sessions |-> [xt[r] EXCEPT !.alone = @ /\ r = s]]

\* send_extrinsic: accepted, it waits for a status (Ready, Broadcast and
\* SubmitOnly end before the block, InBlock and Finalized after it); refused,
\* the call returns at once.
send_extrinsic(s) ==
  /\ phase[s] = "composed"
  /\ IF Refusals(xt[s]) = {}
       THEN /\ pool' = pool \cup {xt[s]}
            /\ NotAlone(s)
            /\ \/ Goto(s, "untilReady")
               \/ Goto(s, "untilInBlock")
            /\ UNCHANGED rejected
       ELSE /\ rejected' = rejected \cup {<<xt[s], r>> : r \in Refusals(xt[s])}
            /\ Goto(s, "ready")
            /\ UNCHANGED <<xt, pool>>
  /\ UNCHANGED <<spec, nonce, chain, reorgs, api, count>>

\* The wait ends: with the status asked for, or because the connection is lost.
send_returns(s) ==
  /\ \/ phase[s] = "untilReady"
     \/ phase[s] = "untilInBlock" /\ \E i \in DOMAIN chain : chain[i].xt.id = xt[s].id
  /\ Goto(s, "ready")
  /\ UNCHANGED <<chainVars, api, xt, rejected, count>>

send_disconnected(s) ==
  /\ phase[s] \in {"composed", "untilReady", "untilInBlock"}
  /\ Goto(s, "ready")
  /\ UNCHANGED <<chainVars, api, xt, rejected, count>>

(***************************************************************************)
(* The chain.                                                              *)
(***************************************************************************)
Author(x) ==
  /\ x.nonce = nonce
  /\ nonce' = nonce + 1
  /\ pool' = pool \ {x}
  /\ chain' = Append(chain, [xt |-> x, ran |-> spec])
  /\ UNCHANGED <<spec, reorgs, api, xt, phase, rejected, count>>

\* What was signed for the old runtime is no longer valid.
Upgrade ==
  /\ spec < MaxSpec
  /\ spec' = spec + 1
  /\ pool' = {}
  /\ chain' = Append(chain, [xt |-> NoXt, ran |-> spec])
  /\ UNCHANGED <<nonce, reorgs, api, xt, phase, rejected, count>>

\* The last block is not on the best chain any more; its extrinsic goes back
\* to the pool, its upgrade is undone.
Reorg ==
  /\ chain # <<>>
  /\ reorgs < MaxReorgs
  /\ reorgs' = reorgs + 1
  /\ LET last == chain[Len(chain)] IN
     IF last.xt = NoXt
       THEN spec' = spec - 1 /\ pool' = {} /\ UNCHANGED nonce
       ELSE nonce' = nonce - 1 /\ pool' = pool \cup {last.xt} /\ UNCHANGED spec
  /\ chain' = SubSeq(chain, 1, Len(chain) - 1)
  /\ xt' = [s \in Sessions |-> [xt[s] EXCEPT !.alone = FALSE]]
  /\ UNCHANGED <<api, phase, rejected, count>>

\* Every session has failed, or rests between two calls.
Resting ==
  /\ \A s \in Sessions : phase[s] \in {"ready", "failed"}
  /\ UNCHANGED vars

Next ==
  \/ \E s \in Sessions :
       \/ _get_genesis_hash(s) \/ _get_metadata(s) \/ _get_runtime_version(s)
       \/ new_fails(s)
       \/ set_signer(s)
       \/ compose_extrinsic(s) \/ compose_panics(s)
       \/ send_extrinsic(s) \/ send_returns(s) \/ send_disconnected(s)
  \/ \E x \in pool : Author(x)
  \/ Upgrade
  \/ Reorg
  \/ Resting

Spec == Init /\ [][Next]_vars

----------------------------------------------------------------------------
Xts == [id : Nat, signed : BOOLEAN, nonce : Nat, spec : Nat, meta : Nat,
        torn : BOOLEAN, clean : BOOLEAN, alone : BOOLEAN]

TypeOK ==
  /\ spec \in Nat /\ nonce \in Nat /\ count \in Nat
  /\ pool \subseteq Xts
  /\ chain \in Seq([xt : Xts, ran : Nat])
  /\ reorgs \in Nat
  /\ api \in [Sessions -> [signer : BOOLEAN, metadata : Nat, runtime_version : Nat]]
  /\ xt \in [Sessions -> Xts]
  /\ phase \in [Sessions -> Phases]
  /\ rejected \subseteq Xts \X {"unsigned", "version", "stale", "priority", "future"}

\* A call index can only run under another runtime than the one it was looked
\* up in if the runtime changed between the metadata and the runtime version
\* of Api::new: neither a long-lived Api nor a slow send does it.
WrongCallOnlyIfTorn ==
  \A i \in DOMAIN chain :
    chain[i].xt # NoXt /\ chain[i].xt.meta # chain[i].ran
      => chain[i].xt.torn

\* An extrinsic composed while none was pending, and sent before anyone else
\* sent one or a block was taken back, is never refused for its nonce: reading
\* it from the state is enough for a sender that waits for its block (get_nonce).
CleanSendKeepsNonce ==
  \A r \in rejected :
    r[1].clean /\ r[1].alone => r[2] \in {"unsigned", "version"}

\* get_nonce does not run ahead of the chain: only when blocks are taken back
\* can an extrinsic of this client land in the future queue of the node.
FutureOnlyAfterReorg == (\E r \in rejected : r[2] = "future") => reorgs > 0

\* The documentation of compose_extrinsic: "Generates an Unchecked extrinsic
\* for a given module and call".  What runs is the call that was named.
NamedCallRuns ==
  \A i \in DOMAIN chain : chain[i].xt # NoXt => chain[i].xt.meta = chain[i].ran
=============================================================================
