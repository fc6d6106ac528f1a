-------------------------- MODULE ApiSessionProofs --------------------------
(***************************************************************************)
(* Theorems about ApiSession, for any number of sessions, runtime          *)
(* versions, extrinsics and blocks taken back.                             *)
(***************************************************************************)
EXTENDS ApiSession, TLAPS

Apis == [signer : BOOLEAN, metadata : Nat, runtime_version : Nat]
Blocks == [xt : Xts, ran : Nat]
Reasons == {"unsigned", "version", "stale", "priority", "future"}

\* TypeOK by its parts, with the records left folded.
LEMMA TypeParts ==
  TypeOK <=>
    /\ spec \in Nat /\ nonce \in Nat /\ count \in Nat /\ reorgs \in Nat
    /\ pool \subseteq Xts
    /\ chain \in Seq(Blocks)
    /\ api \in [Sessions -> Apis]
    /\ xt \in [Sessions -> Xts]
    /\ phase \in [Sessions -> Phases]
    /\ rejected \subseteq Xts \X Reasons
  BY DEF TypeOK, Apis, Blocks, Reasons

(***************************************************************************)
(* The chain.  TypeOK is not inductive: Reorg takes one from the nonce or  *)
(* from the runtime version.  It needs that the nonces of the blocks grow  *)
(* and stay below the nonce of the state, and that each block ran under    *)
(* the runtime the one before it left.                                     *)
(***************************************************************************)
\* The runtime after block b.
After(b) == IF b.xt = NoXt THEN b.ran + 1 ELSE b.ran

ChainInv ==
  /\ \A i, j \in DOMAIN chain :
       i < j /\ chain[i].xt # NoXt /\ chain[j].xt # NoXt
         => chain[i].xt.nonce < chain[j].xt.nonce
  /\ \A i \in DOMAIN chain : chain[i].xt # NoXt => chain[i].xt.nonce < nonce
  /\ \A i, j \in DOMAIN chain : j = i + 1 => chain[j].ran = After(chain[i])
  /\ \A i \in DOMAIN chain : i = Len(chain) => spec = After(chain[i])

\* An extrinsic knows whether its Api is torn; one that is valid was signed
\* for the runtime of the chain, one in a block for the runtime that ran it.
TornKnown(x) == x.signed => (x.torn <=> x.meta # x.spec)

XtInv ==
  /\ \A s \in Sessions : TornKnown(xt[s])
  /\ \A x \in pool : x.signed /\ x.spec = spec /\ TornKnown(x)
  /\ \A i \in DOMAIN chain : chain[i].xt # NoXt =>
       chain[i].xt.spec = chain[i].ran /\ chain[i].xt.signed /\ TornKnown(chain[i].xt)

IInv == TypeOK /\ ChainInv /\ XtInv

LEMMA XtsFacts ==
  /\ NoXt \in Xts
  /\ \A x \in Xts : x.signed => x # NoXt
  /\ \A x \in Xts, b \in BOOLEAN : [x EXCEPT !.alone = b] \in Xts
  BY DEF NoXt, Xts

LEMMA AloneFacts ==
  ASSUME NEW x \in Xts, NEW b \in BOOLEAN, NEW y, y = [x EXCEPT !.alone = b]
  PROVE  /\ y \in Xts /\ y.alone = b
         /\ y.id = x.id /\ y.signed = x.signed /\ y.nonce = x.nonce /\ y.spec = x.spec
         /\ y.meta = x.meta /\ y.torn = x.torn /\ y.clean = x.clean
  BY DEF Xts

\* What compose_extrinsic makes.
LEMMA ComposedFacts ==
  ASSUME TypeOK, NEW s \in Sessions, NEW n \in get_nonce,
         NEW x, x = compose_extrinsic_offline(s, n, api[s].runtime_version)
  PROVE  /\ x \in Xts /\ TornKnown(x)
         /\ x.nonce <= nonce /\ x.alone
         /\ x.clean => pool = {} /\ x.nonce = nonce
  <1>1. /\ api[s].metadata \in Nat /\ api[s].runtime_version \in Nat
        /\ nonce \in Nat /\ count \in Nat
    BY TypeParts DEF Apis
  <1>2. n.value \in Nat /\ n.value <= nonce /\ (n.read => n.value = nonce)
    <2>1. CASE n = [value |-> nonce, read |-> TRUE]
      BY <1>1, <2>1
    <2>2. CASE n = [value |-> 0, read |-> nonce = 0]
      <3>1. n.value = 0 /\ n.read = (nonce = 0)
        BY <2>2
      <3>2. n.read => nonce = 0
        BY <3>1, Zenon
      <3> QED
        BY <1>1, <3>1, <3>2
    <2> QED
      BY <2>1, <2>2 DEF get_nonce
  <1>3. /\ x.id = count + 1 /\ x.signed = TRUE /\ x.nonce = n.value
        /\ x.spec = api[s].runtime_version /\ x.meta = api[s].metadata
        /\ x.torn = (api[s].metadata # api[s].runtime_version)
        /\ x.clean = (pool = {} /\ n.read)
        /\ x.alone = TRUE
    BY DEF compose_extrinsic_offline
  <1>4. x \in Xts
    BY <1>1, <1>2 DEF compose_extrinsic_offline, Xts
  <1> QED
    BY <1>2, <1>3, <1>4 DEF TornKnown

LEMMA UnsignedFacts ==
  ASSUME TypeOK, NEW s \in Sessions,
         NEW x, x = [NoXt EXCEPT !.id = count + 1, !.meta = api[s].metadata]
  PROVE  x \in Xts /\ ~ x.signed /\ TornKnown(x) /\ x.nonce = 0 /\ ~ x.clean
  <1>1. api[s].metadata \in Nat /\ count \in Nat
    BY TypeParts DEF Apis
  <1>2. x.signed = FALSE /\ x.nonce = 0 /\ x.clean = FALSE
    BY DEF NoXt
  <1>3. x \in Xts
    <2>1. \A y \in Xts, a, b \in Nat : [y EXCEPT !.id = a, !.meta = b] \in Xts
      BY DEF Xts
    <2>2. NoXt \in Xts /\ count + 1 \in Nat /\ api[s].metadata \in Nat
      BY <1>1, XtsFacts
    <2> QED
      BY <2>1, <2>2, Zenon
  <1> QED
    BY <1>2, <1>3 DEF TornKnown

(***************************************************************************)
(* The steps of a session.                                                 *)
(***************************************************************************)
\* Steps between two calls, or of Api::new, leave the chain and the
\* extrinsics alone.
Idle(s) ==
  \/ _get_genesis_hash(s) \/ _get_metadata(s) \/ _get_runtime_version(s)
  \/ new_fails(s) \/ set_signer(s) \/ compose_panics(s)
  \/ send_returns(s) \/ send_disconnected(s)

LEMMA IdleFacts ==
  ASSUME TypeOK, NEW s \in Sessions, Idle(s)
  PROVE  /\ TypeOK'
         /\ UNCHANGED <<chainVars, xt, rejected, count>>
         /\ \A r \in Sessions : phase'[r] = "composed" => phase[r] = "composed"
  <1>0. /\ spec \in Nat /\ api \in [Sessions -> Apis] /\ phase \in [Sessions -> Phases]
        /\ {"metadata", "runtime_version", "ready", "failed"} \subseteq Phases \ {"composed"}
    BY TypeParts DEF Phases
  <1>1. UNCHANGED <<chainVars, xt, rejected, count>>
    BY DEF Idle, _get_genesis_hash, _get_metadata, _get_runtime_version, new_fails,
           set_signer, compose_panics, send_returns, send_disconnected
  <1>2. /\ phase' \in [Sessions -> Phases]
        /\ \A r \in Sessions : phase'[r] = "composed" => phase[r] = "composed"
    <2>1. UNCHANGED phase \/ \E p \in Phases \ {"composed"} : Goto(s, p)
      BY <1>0 DEF Idle, _get_genesis_hash, _get_metadata, _get_runtime_version, new_fails,
                  set_signer, compose_panics, send_returns, send_disconnected
    <2>2. CASE UNCHANGED phase
      BY <1>0, <2>2
    <2>3. ASSUME NEW p \in Phases \ {"composed"}, Goto(s, p)
          PROVE  /\ phase' \in [Sessions -> Phases]
                 /\ \A r \in Sessions : phase'[r] = "composed" => phase[r] = "composed"
      BY <1>0, <2>3 DEF Goto
    <2> QED
      BY <2>1, <2>2, <2>3
  <1>3. api' \in [Sessions -> Apis]
    <2>1. \A a \in Apis : /\ [a EXCEPT !.metadata = spec] \in Apis
                          /\ [a EXCEPT !.runtime_version = spec] \in Apis
                          /\ [a EXCEPT !.signer = TRUE] \in Apis
      BY <1>0 DEF Apis
    <2>2. \/ api' = api
          \/ api' = [api EXCEPT ![s].metadata = spec]
          \/ api' = [api EXCEPT ![s].runtime_version = spec]
          \/ api' = [api EXCEPT ![s].signer = TRUE]
      BY DEF Idle, _get_genesis_hash, _get_metadata, _get_runtime_version, new_fails,
             set_signer, compose_panics, send_returns, send_disconnected
    <2> QED
      BY <1>0, <2>1, <2>2
  <1>4. TypeOK'
    BY <1>1, <1>2, <1>3, TypeParts DEF TypeOK, chainVars, Apis
  <1> QED
    BY <1>1, <1>2, <1>4

\* compose_extrinsic: a new extrinsic takes the place of the last one.
LEMMA ComposeFacts ==
  ASSUME TypeOK, NEW s \in Sessions, compose_extrinsic(s)
  PROVE  /\ TypeOK'
         /\ UNCHANGED <<chainVars, api, rejected>>
         /\ \A r \in Sessions \ {s} : xt'[r] = xt[r] /\ phase'[r] = phase[r]
         /\ TornKnown(xt'[s]) /\ xt'[s].nonce <= nonce
         /\ xt'[s].clean => pool = {} /\ xt'[s].nonce = nonce
  <1>0. /\ xt \in [Sessions -> Xts] /\ phase \in [Sessions -> Phases] /\ "composed" \in Phases
        /\ nonce \in Nat /\ count \in Nat
    BY TypeParts DEF Phases
  <1>1. /\ UNCHANGED <<chainVars, api, rejected>>
        /\ phase' = [phase EXCEPT ![s] = "composed"]
        /\ count' = count + 1
    BY DEF compose_extrinsic, Goto
  <1>2. \E x \in Xts :
          /\ xt' = [xt EXCEPT ![s] = x]
          /\ TornKnown(x) /\ x.nonce <= nonce
          /\ x.clean => pool = {} /\ x.nonce = nonce
    <2>1. ASSUME NEW n \in get_nonce,
                 xt' = [xt EXCEPT ![s] =
                          compose_extrinsic_offline(s, n, api[s].runtime_version)]
          PROVE  \E x \in Xts :
                   /\ xt' = [xt EXCEPT ![s] = x]
                   /\ TornKnown(x) /\ x.nonce <= nonce
                   /\ x.clean => pool = {} /\ x.nonce = nonce
      BY <2>1, ComposedFacts
    <2>2. ASSUME xt' = [xt EXCEPT ![s] =
                          [NoXt EXCEPT !.id = count + 1, !.meta = api[s].metadata]]
          PROVE  \E x \in Xts :
                   /\ xt' = [xt EXCEPT ![s] = x]
                   /\ TornKnown(x) /\ x.nonce <= nonce
                   /\ x.clean => pool = {} /\ x.nonce = nonce
      <3> DEFINE x == [NoXt EXCEPT !.id = count + 1, !.meta = api[s].metadata]
      <3>1. x \in Xts /\ TornKnown(x) /\ x.nonce = 0 /\ ~ x.clean
        BY UnsignedFacts
      <3>2. xt' = [xt EXCEPT ![s] = x]
        BY <2>2
      <3> HIDE DEF x
      <3>3. x.nonce <= nonce
        BY <1>0, <3>1
      <3> QED
        BY <3>1, <3>2, <3>3, Zenon
    <2> QED
      BY <2>1, <2>2 DEF compose_extrinsic
  <1>3. PICK x \in Xts :
          /\ xt' = [xt EXCEPT ![s] = x]
          /\ TornKnown(x) /\ x.nonce <= nonce
          /\ x.clean => pool = {} /\ x.nonce = nonce
    BY <1>2
  <1>4. /\ xt' \in [Sessions -> Xts] /\ xt'[s] = x
        /\ \A r \in Sessions \ {s} : xt'[r] = xt[r] /\ phase'[r] = phase[r]
        /\ phase' \in [Sessions -> Phases]
    BY <1>0, <1>1, <1>3
  <1>5. TypeOK'
    BY <1>0, <1>1, <1>4 DEF TypeOK, chainVars
  <1> QED
    BY <1>1, <1>3, <1>4, <1>5

\* The history of an extrinsic says nothing of what was signed.
LEMMA AloneXts ==
  ASSUME TypeOK, NEW f, \A r \in Sessions : f[r] \in BOOLEAN,
         xt' = [r \in Sessions |-> [xt[r] EXCEPT !.alone = f[r]]]
  PROVE  /\ xt' \in [Sessions -> Xts]
         /\ \A r \in Sessions :
              /\ xt'[r].alone = f[r] /\ xt'[r].nonce = xt[r].nonce
              /\ xt'[r].clean = xt[r].clean
              /\ TornKnown(xt[r]) => TornKnown(xt'[r])
  <1>1. ASSUME NEW r \in Sessions
        PROVE  /\ xt[r] \in Xts /\ f[r] \in BOOLEAN
               /\ xt'[r] = [xt[r] EXCEPT !.alone = f[r]]
    BY TypeParts
  <1>2. ASSUME NEW r \in Sessions
        PROVE  /\ xt'[r] \in Xts /\ xt'[r].alone = f[r]
               /\ xt'[r].signed = xt[r].signed /\ xt'[r].nonce = xt[r].nonce
               /\ xt'[r].spec = xt[r].spec /\ xt'[r].meta = xt[r].meta
               /\ xt'[r].torn = xt[r].torn /\ xt'[r].clean = xt[r].clean
    BY <1>1, AloneFacts
  <1>3. xt' \in [Sessions -> Xts]
    BY <1>2
  <1> QED
    BY <1>2, <1>3 DEF TornKnown

\* send_extrinsic: the node takes the extrinsic, or refuses it with a reason.
LEMMA SendFacts ==
  ASSUME TypeOK, NEW s \in Sessions, send_extrinsic(s)
  PROVE  /\ TypeOK'
         /\ UNCHANGED <<spec, nonce, chain, reorgs, api, count>>
         /\ phase[s] = "composed" /\ phase'[s] # "composed"
         /\ \A r \in Sessions \ {s} : phase'[r] = phase[r]
         /\ \/ /\ Refusals(xt[s]) = {}
               /\ pool' = pool \cup {xt[s]} /\ rejected' = rejected
               /\ \A r \in Sessions :
                    /\ r # s => ~ xt'[r].alone
                    /\ xt'[r].nonce = xt[r].nonce
                    /\ TornKnown(xt[r]) => TornKnown(xt'[r])
            \/ /\ UNCHANGED <<xt, pool>>
               /\ rejected' = rejected \cup {<<xt[s], r>> : r \in Refusals(xt[s])}
  <1>0. /\ xt \in [Sessions -> Xts] /\ phase \in [Sessions -> Phases] /\ xt[s] \in Xts
        /\ {"untilReady", "untilInBlock", "ready"} \subseteq Phases \ {"composed"}
    BY TypeParts DEF Phases
  <1>1. /\ UNCHANGED <<spec, nonce, chain, reorgs, api, count>>
        /\ phase[s] = "composed"
        /\ \E p \in Phases \ {"composed"} : Goto(s, p)
    BY <1>0 DEF send_extrinsic
  <1>2. /\ phase' \in [Sessions -> Phases] /\ phase'[s] # "composed"
        /\ \A r \in Sessions \ {s} : phase'[r] = phase[r]
    BY <1>0, <1>1 DEF Goto
  <1>3. CASE Refusals(xt[s]) = {}
    <2>1. /\ pool' = pool \cup {xt[s]} /\ rejected' = rejected /\ NotAlone(s)
      BY <1>3 DEF send_extrinsic
    <2> DEFINE f == [r \in Sessions |-> xt[r].alone /\ r = s]
    <2>2. \A r \in Sessions : f[r] \in BOOLEAN /\ f[r] = (xt[r].alone /\ r = s)
      OBVIOUS
    <2>3. xt' = [r \in Sessions |-> [xt[r] EXCEPT !.alone = f[r]]]
      BY <2>1 DEF NotAlone
    <2>4. \A r \in Sessions : r # s => ~ f[r]
      BY <2>2, Zenon
    <2> HIDE DEF f
    <2>5. /\ xt' \in [Sessions -> Xts]
          /\ \A r \in Sessions :
               /\ xt'[r].alone = f[r] /\ xt'[r].nonce = xt[r].nonce
               /\ xt'[r].clean = xt[r].clean
               /\ TornKnown(xt[r]) => TornKnown(xt'[r])
      BY <2>2, <2>3, AloneXts
    <2>6. TypeOK'
      BY <1>0, <1>1, <1>2, <2>1, <2>5 DEF TypeOK
    <2> QED
      BY <1>1, <1>2, <1>3, <2>1, <2>4, <2>5, <2>6
  <1>4. CASE Refusals(xt[s]) # {}
    <2>1. /\ UNCHANGED <<xt, pool>>
          /\ rejected' = rejected \cup {<<xt[s], r>> : r \in Refusals(xt[s])}
      BY <1>4 DEF send_extrinsic
    <2>2. rejected' \subseteq Xts \X Reasons
      BY <1>0, <2>1, TypeParts DEF Refusals, Reasons
    <2>3. TypeOK'
      BY <1>1, <1>2, <2>1, <2>2 DEF TypeOK, Reasons
    <2> QED
      BY <1>1, <1>2, <2>1, <2>3
  <1> QED
    BY <1>3, <1>4

(***************************************************************************)
(* The steps of the chain.                                                 *)
(***************************************************************************)
\* A block at the end of the chain.
LEMMA AppendBlock ==
  ASSUME chain \in Seq(Blocks), NEW b \in Blocks, chain' = Append(chain, b)
  PROVE  /\ chain' \in Seq(Blocks)
         /\ Len(chain) \in Nat /\ Len(chain') = Len(chain) + 1
         /\ DOMAIN chain = 1..Len(chain) /\ DOMAIN chain' = 1..(Len(chain) + 1)
         /\ \A i \in DOMAIN chain : chain'[i] = chain[i]
         /\ chain'[Len(chain) + 1] = b
  OBVIOUS

LEMMA BlockFacts ==
  ASSUME TypeOK, NEW i \in DOMAIN chain
  PROVE  /\ chain[i] \in Blocks /\ chain[i].xt \in Xts
         /\ chain[i].xt.nonce \in Nat /\ chain[i].ran \in Nat
  <1>1. chain \in Seq(Blocks)
    BY TypeParts
  <1>2. chain[i] \in Blocks
    BY <1>1
  <1>3. chain[i].xt \in Xts /\ chain[i].ran \in Nat
    BY <1>2 DEF Blocks
  <1> QED
    BY <1>2, <1>3 DEF Xts

LEMMA AppendKeepsChain ==
  ASSUME IInv, NEW b \in Blocks, chain' = Append(chain, b), b.ran = spec,
         spec' = After(b), nonce' \in Nat, nonce <= nonce',
         b.xt # NoXt => b.xt.nonce = nonce /\ nonce < nonce'
  PROVE  ChainInv'
  <1>1. /\ Len(chain) \in Nat /\ Len(chain') = Len(chain) + 1
        /\ DOMAIN chain = 1..Len(chain) /\ DOMAIN chain' = 1..(Len(chain) + 1)
        /\ \A i \in DOMAIN chain : chain'[i] = chain[i]
        /\ chain'[Len(chain) + 1] = b
        /\ nonce \in Nat
    BY AppendBlock, TypeParts DEF IInv
  <1>2. ASSUME NEW i \in DOMAIN chain
        PROVE  chain[i] \in Blocks /\ chain[i].xt \in Xts /\ chain[i].xt.nonce \in Nat
    BY BlockFacts DEF IInv
  <1>3. \A i \in DOMAIN chain' : i \in DOMAIN chain \/ i = Len(chain) + 1
    BY <1>1
  <1>4. ASSUME NEW i \in DOMAIN chain', NEW j \in DOMAIN chain', i < j,
               chain'[i].xt # NoXt, chain'[j].xt # NoXt
        PROVE  chain'[i].xt.nonce < chain'[j].xt.nonce
    <2>1. i \in DOMAIN chain
      BY <1>1, <1>4
    <2>2. CASE j \in DOMAIN chain
      BY <1>1, <1>4, <2>1, <2>2 DEF IInv, ChainInv
    <2>3. CASE j = Len(chain) + 1
      BY <1>1, <1>4, <2>1, <2>3 DEF IInv, ChainInv
    <2> QED
      BY <1>3, <2>2, <2>3
  <1>5. ASSUME NEW i \in DOMAIN chain', chain'[i].xt # NoXt
        PROVE  chain'[i].xt.nonce < nonce'
    <2>1. CASE i \in DOMAIN chain
      <3>1. chain'[i].xt.nonce < nonce /\ chain'[i].xt.nonce \in Nat
        BY <1>1, <1>2, <1>5, <2>1 DEF IInv, ChainInv
      <3> QED
        BY <1>1, <3>1
    <2>2. CASE i = Len(chain) + 1
      BY <1>1, <1>5, <2>2
    <2> QED
      BY <1>3, <2>1, <2>2
  <1>6. ASSUME NEW i \in DOMAIN chain', NEW j \in DOMAIN chain', j = i + 1
        PROVE  chain'[j].ran = After(chain'[i])
    <2>1. i \in DOMAIN chain
      BY <1>1, <1>6
    <2>2. CASE j \in DOMAIN chain
      BY <1>1, <1>6, <2>1, <2>2 DEF IInv, ChainInv
    <2>3. CASE j = Len(chain) + 1
      <3>1. i = Len(chain)
        BY <1>1, <1>6, <2>1, <2>3
      <3> QED
        BY <1>1, <2>1, <2>3, <3>1 DEF IInv, ChainInv
    <2> QED
      BY <1>3, <2>2, <2>3
  <1>7. \A i \in DOMAIN chain' : i = Len(chain') => spec' = After(chain'[i])
    BY <1>1
  <1> QED
    BY <1>4, <1>5, <1>6, <1>7 DEF ChainInv

LEMMA AppendKeepsXts ==
  ASSUME IInv, NEW b \in Blocks, chain' = Append(chain, b), UNCHANGED xt,
         b.xt # NoXt => b.xt.spec = b.ran /\ b.xt.signed /\ TornKnown(b.xt),
         \A x \in pool' : x \in pool /\ spec' = spec
  PROVE  XtInv'
  <1>1. /\ Len(chain) \in Nat
        /\ DOMAIN chain = 1..Len(chain) /\ DOMAIN chain' = 1..(Len(chain) + 1)
        /\ \A i \in DOMAIN chain : chain'[i] = chain[i]
        /\ chain'[Len(chain) + 1] = b
    BY AppendBlock, TypeParts DEF IInv
  <1>2. ASSUME NEW i \in DOMAIN chain', chain'[i].xt # NoXt
        PROVE  chain'[i].xt.spec = chain'[i].ran /\ chain'[i].xt.signed /\ TornKnown(chain'[i].xt)
    <2>1. CASE i \in DOMAIN chain
      BY <1>1, <1>2, <2>1 DEF IInv, XtInv
    <2>2. CASE i = Len(chain) + 1
      BY <1>1, <1>2, <2>2
    <2> QED
      BY <1>1, <2>1, <2>2
  <1>3. \A x \in pool' : x.signed /\ x.spec = spec' /\ TornKnown(x)
    BY DEF IInv, XtInv
  <1>4. \A s \in Sessions : TornKnown(xt'[s])
    BY DEF IInv, XtInv
  <1> QED
    BY <1>2, <1>3, <1>4 DEF XtInv

LEMMA AuthorIInv ==
  ASSUME IInv, NEW x \in pool, Author(x)
  PROVE  IInv'
  <1>1. /\ x.nonce = nonce /\ nonce' = nonce + 1 /\ pool' = pool \ {x}
        /\ chain' = Append(chain, [xt |-> x, ran |-> spec])
        /\ UNCHANGED <<spec, reorgs, api, xt, phase, rejected, count>>
    BY DEF Author
  <1> DEFINE b == [xt |-> x, ran |-> spec]
  <1>2. /\ x \in Xts /\ x # NoXt /\ nonce \in Nat /\ spec \in Nat
        /\ x.signed /\ x.spec = spec /\ TornKnown(x)
    BY TypeParts, XtsFacts DEF IInv, XtInv
  <1>3. b \in Blocks /\ b.xt = x /\ b.ran = spec
    BY <1>2 DEF Blocks
  <1> HIDE DEF b
  <1>4. ChainInv'
    BY <1>1, <1>2, <1>3, AppendKeepsChain DEF b, After
  <1>5. XtInv'
    BY <1>1, <1>2, <1>3, AppendKeepsXts DEF b
  <1>6. TypeOK'
    <2>1. chain' \in Seq(Blocks) /\ pool' \subseteq Xts
      BY <1>1, <1>3, AppendBlock, TypeParts DEF IInv, b
    <2> QED
      BY <1>1, <2>1 DEF IInv, TypeOK, Blocks
  <1> QED
    BY <1>4, <1>5, <1>6 DEF IInv

LEMMA UpgradeIInv ==
  ASSUME IInv, Upgrade
  PROVE  IInv'
  <1>1. /\ spec' = spec + 1 /\ pool' = {}
        /\ chain' = Append(chain, [xt |-> NoXt, ran |-> spec])
        /\ UNCHANGED <<nonce, reorgs, api, xt, phase, rejected, count>>
    BY DEF Upgrade
  <1> DEFINE b == [xt |-> NoXt, ran |-> spec]
  <1>2. nonce \in Nat /\ spec \in Nat
    BY TypeParts DEF IInv
  <1>3. b \in Blocks /\ b.xt = NoXt /\ b.ran = spec
    BY <1>2, XtsFacts DEF Blocks
  <1> HIDE DEF b
  <1>4. ChainInv'
    BY <1>1, <1>2, <1>3, AppendKeepsChain DEF b, After
  <1>5. XtInv'
    BY <1>1, <1>3, AppendKeepsXts DEF b
  <1>6. TypeOK'
    <2>1. chain' \in Seq(Blocks)
      BY <1>1, <1>3, AppendBlock, TypeParts DEF IInv, b
    <2> QED
      BY <1>1, <2>1 DEF IInv, TypeOK, Blocks
  <1> QED
    BY <1>4, <1>5, <1>6 DEF IInv

\* The last block is taken back: the nonce or the runtime goes back to what it
\* was before it, and an extrinsic that is valid again goes to the pool.
LEMMA ReorgFacts ==
  ASSUME IInv, Reorg
  PROVE  LET n == Len(chain) IN
         /\ n \in Nat \ {0} /\ n \in DOMAIN chain
         /\ chain' \in Seq(Blocks)
         /\ DOMAIN chain = 1..n /\ DOMAIN chain' = 1..(n - 1) /\ Len(chain') = n - 1
         /\ \A i \in DOMAIN chain' : i \in DOMAIN chain /\ chain'[i] = chain[i]
         /\ nonce' \in Nat /\ spec' \in Nat
         /\ chain[n].xt # NoXt => nonce' = nonce - 1
         /\ chain[n].xt = NoXt => nonce' = nonce
         /\ spec' = chain[n].ran
         /\ pool' = {} \/ (chain[n].xt # NoXt /\ spec' = spec /\ pool' = pool \cup {chain[n].xt})
  <1> DEFINE n == Len(chain)
  <1>1. chain \in Seq(Blocks) /\ chain # <<>> /\ nonce \in Nat /\ spec \in Nat
    BY TypeParts DEF IInv, Reorg
  <1>2. n \in Nat \ {0} /\ n \in DOMAIN chain /\ DOMAIN chain = 1..n
    BY <1>1
  <1>3. /\ chain' = SubSeq(chain, 1, n - 1)
        /\ IF chain[n].xt = NoXt
             THEN spec' = spec - 1 /\ pool' = {} /\ UNCHANGED nonce
             ELSE nonce' = nonce - 1 /\ pool' = pool \cup {chain[n].xt} /\ UNCHANGED spec
    BY DEF Reorg
  <1>4. /\ chain' \in Seq(Blocks)
        /\ DOMAIN chain' = 1..(n - 1) /\ Len(chain') = n - 1
        /\ \A i \in DOMAIN chain' : i \in DOMAIN chain /\ chain'[i] = chain[i]
    BY <1>1, <1>2, <1>3
  <1>5. /\ spec = After(chain[n]) /\ chain[n].ran \in Nat /\ chain[n].xt.nonce \in Nat
        /\ chain[n].xt # NoXt => chain[n].xt.nonce < nonce
    BY <1>2, BlockFacts DEF IInv, ChainInv
  <1> HIDE DEF n
  <1>6. CASE chain[n].xt = NoXt
    BY <1>1, <1>2, <1>3, <1>4, <1>5, <1>6 DEF After, n
  <1>7. CASE chain[n].xt # NoXt
    <2>1. nonce' = nonce - 1 /\ nonce' \in Nat
      BY <1>1, <1>3, <1>5, <1>7
    <2>2. spec' = spec /\ spec' = chain[n].ran /\ pool' = pool \cup {chain[n].xt}
      BY <1>3, <1>5, <1>7 DEF After
    <2> QED
      BY <1>1, <1>2, <1>4, <1>7, <2>1, <2>2 DEF n
  <1> QED
    BY <1>6, <1>7

LEMMA ReorgIInv ==
  ASSUME IInv, Reorg
  PROVE  IInv'
  <1> DEFINE n == Len(chain)
  <1>1. /\ n \in Nat \ {0} /\ n \in DOMAIN chain
        /\ chain' \in Seq(Blocks)
        /\ DOMAIN chain = 1..n /\ DOMAIN chain' = 1..(n - 1) /\ Len(chain') = n - 1
        /\ \A i \in DOMAIN chain' : i \in DOMAIN chain /\ chain'[i] = chain[i]
        /\ nonce' \in Nat /\ spec' \in Nat
        /\ chain[n].xt # NoXt => nonce' = nonce - 1
        /\ chain[n].xt = NoXt => nonce' = nonce
        /\ spec' = chain[n].ran
        /\ pool' = {} \/ (chain[n].xt # NoXt /\ spec' = spec /\ pool' = pool \cup {chain[n].xt})
    BY ReorgFacts
  <1>2. /\ xt' \in [Sessions -> Xts]
        /\ \A s \in Sessions : TornKnown(xt[s]) => TornKnown(xt'[s])
    <2> DEFINE f == [s \in Sessions |-> FALSE]
    <2>1. \A s \in Sessions : f[s] \in BOOLEAN
      OBVIOUS
    <2>2. xt' = [s \in Sessions |-> [xt[s] EXCEPT !.alone = f[s]]]
      BY DEF Reorg
    <2> HIDE DEF f
    <2> QED
      BY <2>1, <2>2, AloneXts DEF IInv
  <1>3. reorgs' = reorgs + 1 /\ UNCHANGED <<api, phase, rejected, count>>
    BY DEF Reorg
  <1> HIDE DEF n
  <1>4. ChainInv'
    <2>1. ASSUME NEW i \in DOMAIN chain', NEW j \in DOMAIN chain'
          PROVE  /\ i < j /\ chain'[i].xt # NoXt /\ chain'[j].xt # NoXt
                      => chain'[i].xt.nonce < chain'[j].xt.nonce
                 /\ j = i + 1 => chain'[j].ran = After(chain'[i])
      BY <1>1 DEF IInv, ChainInv
    <2>2. ASSUME NEW i \in DOMAIN chain', chain'[i].xt # NoXt
          PROVE  chain'[i].xt.nonce < nonce'
      <3>1. /\ i \in DOMAIN chain /\ chain'[i] = chain[i] /\ i < n
            /\ chain[i].xt.nonce \in Nat /\ chain[n].xt.nonce \in Nat /\ nonce \in Nat
        BY <1>1, BlockFacts, TypeParts DEF IInv
      <3>2. CASE chain[n].xt = NoXt
        BY <1>1, <2>2, <3>1, <3>2 DEF IInv, ChainInv
      <3>3. CASE chain[n].xt # NoXt
        <4>1. chain[i].xt.nonce < chain[n].xt.nonce /\ chain[n].xt.nonce < nonce
          BY <1>1, <2>2, <3>1, <3>3 DEF IInv, ChainInv
        <4> QED
          BY <1>1, <3>1, <3>3, <4>1
      <3> QED
        BY <3>2, <3>3
    <2>3. ASSUME NEW i \in DOMAIN chain', i = Len(chain')
          PROVE  spec' = After(chain'[i])
      <3>1. i \in DOMAIN chain /\ n = i + 1 /\ chain'[i] = chain[i]
        BY <1>1, <2>3
      <3> QED
        BY <1>1, <3>1 DEF IInv, ChainInv
    <2> QED
      BY <2>1, <2>2, <2>3 DEF ChainInv
  <1>5. XtInv'
    <2>1. \A x \in pool' : x.signed /\ x.spec = spec' /\ TornKnown(x)
      BY <1>1 DEF IInv, XtInv
    <2>2. \A i \in DOMAIN chain' : chain'[i].xt # NoXt =>
            chain'[i].xt.spec = chain'[i].ran /\ chain'[i].xt.signed /\ TornKnown(chain'[i].xt)
      BY <1>1 DEF IInv, XtInv
    <2>3. \A s \in Sessions : TornKnown(xt'[s])
      BY <1>2 DEF IInv, XtInv
    <2> QED
      BY <2>1, <2>2, <2>3 DEF XtInv
  <1>6. TypeOK'
    <2>1. pool' \subseteq Xts
      BY <1>1, BlockFacts, TypeParts DEF IInv
    <2> QED
      BY <1>1, <1>2, <1>3, <2>1 DEF IInv, TypeOK, Blocks
  <1> QED
    BY <1>4, <1>5, <1>6 DEF IInv

(***************************************************************************)
(* Type correctness, and what can make a wrong call run.                   *)
(***************************************************************************)
\* Steps that leave the chain alone and keep what is known of extrinsics.
LEMMA KeepChain ==
  ASSUME IInv, TypeOK', UNCHANGED <<spec, nonce, chain>>,
         \A s \in Sessions : TornKnown(xt'[s]),
         \A x \in pool' : x.signed /\ x.spec = spec /\ TornKnown(x)
  PROVE  IInv'
  <1>1. ChainInv'
    BY DEF IInv, ChainInv, After
  <1>2. XtInv'
    BY DEF IInv, XtInv, TornKnown
  <1> QED
    BY <1>1, <1>2 DEF IInv

\* The node takes only what was signed for its runtime.
LEMMA AcceptedFacts ==
  ASSUME NEW x, Refusals(x) = {}
  PROVE  x.signed /\ x.spec = spec
  <1>1. "unsigned" \notin Refusals(x) /\ "version" \notin Refusals(x)
    OBVIOUS
  <1> QED
    BY <1>1 DEF Refusals

LEMMA NextIInv == IInv /\ [Next]_vars => IInv'
  <1> SUFFICES ASSUME IInv, [Next]_vars PROVE IInv'
    OBVIOUS
  <1>1. ASSUME NEW s \in Sessions, Idle(s) PROVE IInv'
    <2>1. TypeOK' /\ UNCHANGED <<spec, nonce, chain, pool, xt>>
      BY <1>1, IdleFacts DEF IInv, chainVars
    <2> QED
      BY <2>1, KeepChain DEF IInv, XtInv
  <1>2. ASSUME NEW s \in Sessions, compose_extrinsic(s) PROVE IInv'
    <2>1. /\ TypeOK' /\ UNCHANGED <<spec, nonce, chain, pool>> /\ TornKnown(xt'[s])
          /\ \A r \in Sessions \ {s} : xt'[r] = xt[r]
      BY <1>2, ComposeFacts DEF IInv, chainVars
    <2>2. \A r \in Sessions : TornKnown(xt'[r])
      BY <2>1 DEF IInv, XtInv
    <2> QED
      BY <2>1, <2>2, KeepChain DEF IInv, XtInv
  <1>3. ASSUME NEW s \in Sessions, send_extrinsic(s) PROVE IInv'
    <2>1. /\ TypeOK' /\ UNCHANGED <<spec, nonce, chain>>
          /\ \/ /\ Refusals(xt[s]) = {} /\ pool' = pool \cup {xt[s]}
                /\ \A r \in Sessions : TornKnown(xt[r]) => TornKnown(xt'[r])
             \/ UNCHANGED <<xt, pool>>
      BY <1>3, SendFacts DEF IInv
    <2>2. \A r \in Sessions : TornKnown(xt'[r])
      BY <2>1 DEF IInv, XtInv
    <2>3. \A x \in pool' : x.signed /\ x.spec = spec /\ TornKnown(x)
      BY <2>1, AcceptedFacts DEF IInv, XtInv
    <2> QED
      BY <2>1, <2>2, <2>3, KeepChain
  <1>4. ASSUME NEW x \in pool, Author(x) PROVE IInv'
    BY <1>4, AuthorIInv
  <1>5. CASE Upgrade
    BY <1>5, UpgradeIInv
  <1>6. CASE Reorg
    BY <1>6, ReorgIInv
  <1>7. CASE UNCHANGED vars
    <2>1. TypeOK' /\ UNCHANGED <<spec, nonce, chain, pool, xt>>
      BY <1>7 DEF IInv, TypeOK, vars
    <2> QED
      BY <2>1, KeepChain DEF IInv, XtInv
  <1> QED
    BY <1>1, <1>2, <1>3, <1>4, <1>5, <1>6, <1>7 DEF Next, Idle, Resting

\* The sessions and the chain keep the invariant in every reachable state.
THEOREM Invariance == Spec => []IInv
  <1>1. Init => IInv
    <2> SUFFICES ASSUME Init PROVE IInv
      OBVIOUS
    <2>1. TypeOK
      <3>1. NoApi \in Apis /\ "none" \in Phases
        BY DEF NoApi, Apis, Phases
      <3> QED
        BY <3>1, XtsFacts, TypeParts DEF Init
    <2>2. ChainInv
      BY DEF Init, ChainInv
    <2>3. XtInv
      BY DEF Init, XtInv, TornKnown, NoXt
    <2> QED
      BY <2>1, <2>2, <2>3 DEF IInv
  <1> QED
    BY <1>1, NextIInv, PTL DEF Spec

\* Every variable keeps its type: in particular no number of blocks taken back
\* makes the nonce or the runtime version negative.
THEOREM TypeCorrect == Spec => []TypeOK
  <1>1. IInv => TypeOK
    BY DEF IInv
  <1> QED
    BY <1>1, Invariance, PTL

\* A call index runs under another runtime than the one it was looked up in
\* only if the runtime changed between the metadata and the runtime version
\* of Api::new, however long the Api lives and whatever the chain does.
THEOREM WrongCalls == Spec => []WrongCallOnlyIfTorn
  <1>1. IInv => WrongCallOnlyIfTorn
    BY DEF IInv, XtInv, TornKnown, WrongCallOnlyIfTorn
  <1> QED
    BY <1>1, Invariance, PTL

(***************************************************************************)
(* Nonces.  Without a block taken back no extrinsic is ahead of the chain; *)
(* one composed on an empty pool, and still alone, has the nonce the node  *)
(* expects.                                                                *)
(***************************************************************************)
AheadInv ==
  reorgs = 0 =>
    /\ \A s \in Sessions : xt[s].nonce <= nonce
    /\ \A r \in rejected : r[2] # "future"

CleanInv ==
  /\ \A s \in Sessions :
       phase[s] = "composed" /\ xt[s].clean /\ xt[s].alone
         => pool = {} /\ xt[s].nonce = nonce
  /\ CleanSendKeepsNonce
\* An extrinsic with at most the nonce of the state is never in the future,
\* and with that nonce and an empty pool it is refused for nothing but its
\* signature or its runtime.
LEMMA RefusalFacts ==
  ASSUME TypeOK, NEW x \in Xts
  PROVE  /\ x.nonce <= nonce => "future" \notin Refusals(x)
         /\ x.nonce = nonce /\ pool = {} => Refusals(x) \subseteq {"unsigned", "version"}
  <1>1. x.nonce \in Nat /\ nonce \in Nat
    BY TypeParts DEF Xts
  <1>2. x.nonce <= nonce => nonce..(x.nonce - 1) = {}
    BY <1>1
  <1>3. x.nonce = nonce => x.nonce <= nonce /\ ~ (x.nonce < nonce)
    BY <1>1
  <1> QED
    BY <1>2, <1>3 DEF Refusals

LEMMA NextAhead == TypeOK /\ AheadInv /\ [Next]_vars => AheadInv'
  <1> SUFFICES ASSUME TypeOK, AheadInv, [Next]_vars, reorgs' = 0
               PROVE  /\ \A s \in Sessions : xt'[s].nonce <= nonce'
                      /\ \A r \in rejected' : r[2] # "future"
    BY DEF AheadInv
  <1>0. ASSUME NEW s \in Sessions
        PROVE  xt[s] \in Xts /\ xt[s].nonce \in Nat /\ nonce \in Nat
    BY TypeParts DEF Xts
  <1>1. ASSUME NEW s \in Sessions, Idle(s)
        PROVE  UNCHANGED <<reorgs, nonce, xt, rejected>>
    BY <1>1, IdleFacts DEF chainVars
  <1>2. ASSUME NEW s \in Sessions, compose_extrinsic(s)
        PROVE  /\ \A r \in Sessions : xt'[r].nonce <= nonce'
               /\ \A r \in rejected' : r[2] # "future"
    BY <1>2, ComposeFacts DEF chainVars, AheadInv
  <1>3. ASSUME NEW s \in Sessions, send_extrinsic(s)
        PROVE  /\ \A r \in Sessions : xt'[r].nonce <= nonce'
               /\ \A r \in rejected' : r[2] # "future"
    <2>1. /\ UNCHANGED <<nonce, reorgs>>
          /\ \A r \in Sessions : xt'[r].nonce = xt[r].nonce
          /\ \/ rejected' = rejected
             \/ rejected' = rejected \cup {<<xt[s], r>> : r \in Refusals(xt[s])}
      BY <1>3, SendFacts
    <2>2. \A r \in Sessions : xt'[r].nonce <= nonce'
      BY <2>1 DEF AheadInv
    <2>3. "future" \notin Refusals(xt[s])
      BY <1>0, <2>1, RefusalFacts DEF AheadInv
    <2>4. \A r \in rejected' : r[2] # "future"
      BY <2>1, <2>3 DEF AheadInv
    <2> QED
      BY <2>2, <2>4
  <1>4. ASSUME NEW x \in pool, Author(x)
        PROVE  /\ \A s \in Sessions : xt'[s].nonce <= nonce'
               /\ \A r \in rejected' : r[2] # "future"
    <2>1. nonce' = nonce + 1 /\ UNCHANGED <<reorgs, xt, rejected>>
      BY <1>4 DEF Author
    <2> QED
      BY <1>0, <2>1 DEF AheadInv
  <1>5. CASE Reorg
    <2>1. reorgs \in Nat /\ reorgs' = reorgs + 1
      BY <1>5, TypeParts DEF Reorg
    <2> QED
      BY <2>1
  <1>6. CASE Upgrade \/ UNCHANGED vars
    <2>1. UNCHANGED <<reorgs, nonce, xt, rejected>>
      BY <1>6 DEF Upgrade, vars
    <2> QED
      BY <2>1 DEF AheadInv
  <1>7. ASSUME UNCHANGED <<reorgs, nonce, xt, rejected>>
        PROVE  /\ \A s \in Sessions : xt'[s].nonce <= nonce'
               /\ \A r \in rejected' : r[2] # "future"
    BY <1>7 DEF AheadInv
  <1> QED
    BY <1>1, <1>2, <1>3, <1>4, <1>5, <1>6, <1>7 DEF Next, Idle, Resting

LEMMA NextClean == TypeOK /\ CleanInv /\ [Next]_vars => CleanInv'
  <1> SUFFICES ASSUME TypeOK, CleanInv, [Next]_vars PROVE CleanInv'
    OBVIOUS
  <1>1. ASSUME UNCHANGED <<nonce, xt, rejected>>, pool' \in {pool, {}},
               \A r \in Sessions : phase'[r] = "composed" => phase[r] = "composed"
        PROVE  CleanInv'
    BY <1>1 DEF CleanInv, CleanSendKeepsNonce
  <1>2. ASSUME NEW s \in Sessions, Idle(s) PROVE CleanInv'
    <2>1. /\ UNCHANGED <<nonce, xt, rejected, pool>>
          /\ \A r \in Sessions : phase'[r] = "composed" => phase[r] = "composed"
      BY <1>2, IdleFacts DEF chainVars
    <2> QED
      BY <1>1, <2>1
  <1>3. ASSUME NEW s \in Sessions, compose_extrinsic(s) PROVE CleanInv'
    <2>1. /\ UNCHANGED <<nonce, pool, rejected>>
          /\ \A r \in Sessions \ {s} : xt'[r] = xt[r] /\ phase'[r] = phase[r]
          /\ xt'[s].clean => pool = {} /\ xt'[s].nonce = nonce
      BY <1>3, ComposeFacts DEF chainVars
    <2>2. ASSUME NEW r \in Sessions, phase'[r] = "composed", xt'[r].clean, xt'[r].alone
          PROVE  pool' = {} /\ xt'[r].nonce = nonce'
      BY <2>1, <2>2 DEF CleanInv
    <2>3. CleanSendKeepsNonce'
      BY <2>1 DEF CleanInv, CleanSendKeepsNonce
    <2> QED
      BY <2>2, <2>3 DEF CleanInv
  <1>4. ASSUME NEW s \in Sessions, send_extrinsic(s) PROVE CleanInv'
    <2>1. /\ nonce' = nonce /\ phase[s] = "composed" /\ phase'[s] # "composed"
          /\ \A r \in Sessions \ {s} : phase'[r] = phase[r]
          /\ \/ rejected' = rejected /\ \A r \in Sessions : r # s => ~ xt'[r].alone
             \/ /\ UNCHANGED <<xt, pool>>
                /\ rejected' = rejected \cup {<<xt[s], r>> : r \in Refusals(xt[s])}
      BY <1>4, SendFacts
    <2>2. ASSUME NEW r \in Sessions, phase'[r] = "composed", xt'[r].clean, xt'[r].alone
          PROVE  pool' = {} /\ xt'[r].nonce = nonce'
      BY <2>1, <2>2 DEF CleanInv
    <2>3. ASSUME NEW q \in Refusals(xt[s]), xt[s].clean, xt[s].alone
          PROVE  q \in {"unsigned", "version"}
      <3>1. pool = {} /\ xt[s].nonce = nonce /\ xt[s] \in Xts
        BY <2>1, <2>3, TypeParts DEF CleanInv
      <3> QED
        BY <3>1, RefusalFacts
    <2>4. CleanSendKeepsNonce'
      <3> SUFFICES ASSUME NEW r \in rejected', r[1].clean, r[1].alone
                   PROVE  r[2] \in {"unsigned", "version"}
        BY DEF CleanSendKeepsNonce
      <3>1. CASE r \in rejected
        BY <3>1 DEF CleanInv, CleanSendKeepsNonce
      <3>2. ASSUME NEW q \in Refusals(xt[s]), r = <<xt[s], q>>
            PROVE  r[2] \in {"unsigned", "version"}
        BY <2>3, <3>2
      <3> QED
        BY <2>1, <3>1, <3>2
    <2> QED
      BY <2>2, <2>4 DEF CleanInv
  <1>5. ASSUME NEW x \in pool, Author(x) PROVE CleanInv'
    <2>1. UNCHANGED <<xt, phase, rejected>> /\ pool # {}
      BY <1>5 DEF Author
    <2>2. \A s \in Sessions : ~ (phase'[s] = "composed" /\ xt'[s].clean /\ xt'[s].alone)
      BY <2>1 DEF CleanInv
    <2>3. CleanSendKeepsNonce'
      BY <2>1 DEF CleanInv, CleanSendKeepsNonce
    <2> QED
      BY <2>2, <2>3 DEF CleanInv
  <1>6. CASE Reorg
    <2>1. \A s \in Sessions : ~ xt'[s].alone
      <3>1. \A s \in Sessions : xt'[s] = [xt[s] EXCEPT !.alone = FALSE] /\ xt[s] \in Xts
        BY <1>6, TypeParts DEF Reorg
      <3> QED
        BY <3>1, AloneFacts
    <2>2. CleanSendKeepsNonce'
      BY <1>6 DEF Reorg, CleanInv, CleanSendKeepsNonce
    <2> QED
      BY <2>1, <2>2 DEF CleanInv
  <1>7. CASE Upgrade \/ UNCHANGED vars
    <2>1. UNCHANGED <<nonce, xt, rejected, phase>> /\ pool' \in {pool, {}}
      BY <1>7 DEF Upgrade, vars
    <2> QED
      BY <1>1, <2>1
  <1> QED
    BY <1>2, <1>3, <1>4, <1>5, <1>6, <1>7 DEF Next, Idle, Resting

\* get_nonce does not run ahead of the chain: only when blocks are taken back
\* can the node put an extrinsic of this client into its future queue.
THEOREM NoFuture == Spec => []FutureOnlyAfterReorg
  <1>1. Init => AheadInv
    BY DEF Init, AheadInv, NoXt
  <1>2. TypeOK /\ AheadInv => FutureOnlyAfterReorg
    <2>1. TypeOK => reorgs \in Nat
      BY TypeParts
    <2> QED
      BY <2>1 DEF AheadInv, FutureOnlyAfterReorg
  <1> QED
    BY <1>1, <1>2, NextAhead, TypeCorrect, PTL DEF Spec

\* A sender that waits for its block, and is alone, is never refused for its
\* nonce: reading it from the state of the best block is enough (get_nonce).
THEOREM CleanSends == Spec => []CleanSendKeepsNonce
  <1>1. Init => CleanInv
    BY DEF Init, CleanInv, CleanSendKeepsNonce
  <1>2. CleanInv => CleanSendKeepsNonce
    BY DEF CleanInv
  <1> QED
    BY <1>1, <1>2, NextClean, TypeCorrect, PTL DEF Spec

=============================================================================
