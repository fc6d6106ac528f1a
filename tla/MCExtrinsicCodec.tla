-------------------------- MODULE MCExtrinsicCodec --------------------------
(***************************************************************************)
(* Models of ExtrinsicCodec: calls, nonces and eras around every length at *)
(* which something changes, and nodes that differ from the client.         *)
(***************************************************************************)
EXTENDS ExtrinsicCodec

Here == [spec |-> 7, tx |-> 2, genesis |-> 1, checkpoint |-> 1]

Call(n) == [i \in 1..n |-> i % 251]

By(scheme) == [account |-> 9, scheme |-> scheme]

Job(signer, n, nonce) ==
  [signer |-> signer, call |-> Call(n), era |-> Immortal, nonce |-> nonce,
   size |-> 200, client |-> Here, node |-> Here, cuts |-> {}]

\* Prefixes of one, two and four bytes.
PrefixJobs ==
  {Job(Unsigned, n, 0) : n \in {2, 62, 63, 16382, 16383}}
    \cup {Job(By("sr25519"), n, 0) : n \in {2, 16281, 16282}}
    \cup {[Job(s, 20000, 0) EXCEPT !.size = 20200] : s \in {Unsigned, By("ed25519")}}

\* Compact nonces of one, two, four and five bytes.
NonceJobs ==
  {Job(By("ed25519"), 3, n) :
     n \in {0, 1, 63, 64, 16383, 16384, 1073741823, 1073741824, 2147483647}}

EraJobs ==
  {[Job(By("ecdsa"), 3, 5) EXCEPT !.era = [log |-> e[1], phase |-> e[2]],
                                  !.client.checkpoint = 3, !.node.checkpoint = c] :
     e \in {<<1, 0>>, <<1, 3>>, <<5, 42>>, <<11, 4095>>}, c \in {3, 4}}

\* Payloads around 256 bytes, and nodes that differ in one fact or in two.
Others ==
  { [Here EXCEPT !.spec = 8], [Here EXCEPT !.tx = 3], [Here EXCEPT !.genesis = 2],
    [Here EXCEPT !.checkpoint = 2], [Here EXCEPT !.spec = 2, !.tx = 7] }

PayloadJobs ==
  {[Job(By("sr25519"), n, 0) EXCEPT !.node = c] :
     n \in {180, 181, 182}, c \in Others \cup {Here}}

CutJobs ==
  {[Job(s, 4, 100) EXCEPT !.cuts = 1..300] :
     s \in {Unsigned, By("sr25519"), By("ecdsa")}}

MCJobs == PrefixJobs \cup NonceJobs \cup EraJobs \cup PayloadJobs \cup CutJobs
=============================================================================
