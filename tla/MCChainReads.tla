---------------------------- MODULE MCChainReads ----------------------------
(***************************************************************************)
(* Models of ChainReads: a plain entry, maps of one, two and three keys    *)
(* with hashers of every kind, in two pallets that share a name, and map   *)
(* keys of two lengths.                                                    *)
(***************************************************************************)
EXTENDS ChainReads

MCEnc == [a |-> <<<<"key", "a", 1>>>>, b |-> <<<<"key", "b", 1>>, <<"key", "b", 2>>>>]

Entry(pallet, name, hashers) ==
  [pallet |-> pallet, name |-> name, hashers |-> hashers]

Item(e, keys) == [entry |-> e, keys |-> keys]

Plain   == Entry("P", "X", <<>>)
Blake   == Entry("Q", "X", <<"Blake2_128Concat">>)
Twox    == Entry("Q", "Y", <<"Twox64Concat">>)
Hashed  == Entry("Q", "Z", <<"Blake2_256">>)
Mixed   == Entry("P", "Y", <<"Twox64Concat", "Blake2_128Concat">>)
Opaque  == Entry("P", "Z", <<"Identity", "Twox64Concat">>)
Wide    == Entry("Q", "V", <<"Twox128", "Identity">>)
Wider   == Entry("Q", "W", <<"Blake2_128", "Twox256">>)
Triple  == Entry("P", "U", <<"Twox64Concat", "Blake2_128Concat", "Identity">>)

MCEntries == {Plain, Blake, Twox, Hashed, Mixed, Opaque, Wide, Wider, Triple}

MCItems ==
  << Item(Plain, <<>>), Item(Mixed, <<"b", "a">>), Item(Mixed, <<"a", "b">>),
     Item(Opaque, <<"b", "a">>), Item(Blake, <<"a">>), Item(Twox, <<"b">>),
     Item(Hashed, <<"a">>), Item(Wide, <<"a", "b">>), Item(Wider, <<"a", "a">>),
     Item(Triple, <<"a", "b", "a">>), Item(Triple, <<"b", "b", "b">>) >>

\* Blocks that write everything, and blocks that write the items of one pallet.
MCChanges == {1..11, (1..4) \cup {10}}
=============================================================================
