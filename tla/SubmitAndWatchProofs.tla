------------------------ MODULE SubmitAndWatchProofs ------------------------
(***************************************************************************)
(* Theorems about SubmitAndWatch, for any contents and any number of       *)
(* blocks and forks: no event of the extrinsic is lost without one of the  *)
(* reasons named, and the hash that a send returns is of a block with the  *)
(* extrinsic, for Finalized one that the chain cannot leave.               *)
(***************************************************************************)
EXTENDS SubmitAndWatch, FiniteSetTheorems, TLAPS

BlockRecords ==
  [content : Contents \cup {First}, line : SUBSET Blocks, number : 0..MaxBlocks,
   seen : {"late", "initial", "live", "side"}]

StatusRecords ==
  [shape : Call!PlainShapes \cup Call!HashShapes, hash : 0..MaxBlocks]

(***************************************************************************)
(* The inductive invariant.  A value of the feed is what its block holds;  *)
(* a status tells of a block that holds the extrinsic, and a "finalized"   *)
(* of one behind the finalized block; before the subscription is           *)
(* registered nothing has been told.                                       *)
(***************************************************************************)
\* The blocks form a tree: the line of a block holds the lines of all blocks
\* on it, and of two blocks on one line one is on the line of the other.
IsTree(t) ==
  \A b \in DOMAIN t :
    /\ b \in t[b].line /\ t[b].line \subseteq DOMAIN t
    /\ \A a \in t[b].line : t[a].line \subseteq t[b].line
    /\ \A a, c \in t[b].line : a \in t[c].line \/ c \in t[a].line

ChainInv ==
  /\ tree \in Seq(BlockRecords) /\ Len(tree) <= MaxBlocks /\ IsTree(tree)
  /\ \A b \in DOMAIN tree : tree[b].number < b
  /\ best \in DOMAIN tree /\ final \in Chain(best)
  /\ pool \in {"none", "in", "out"}

\* v is the value of a block of t.
Told(t, v) == v.block \in DOMAIN t /\ v = Value(v.block, t[v.block].content)

FeedInv ==
  /\ sub \in {"none", "connecting", "registered", "refused", "ended"}
  /\ wire \in Seq(Values) /\ log \in Seq(Values) /\ pos \in 0..Len(log)
  /\ waiting \in Feed!Waits \cup {Feed!NoWait}
  /\ outcome.res \in {"none", "Ok", "Disconnected"}
  /\ \A i \in DOMAIN wire : Told(tree, wire[i])
  /\ \A i \in DOMAIN log : Told(tree, log[i])
  /\ got \subseteq Holders(DOMAIN tree)

\* Nothing has been told of a block before the subscription is registered.
SeenInv ==
  sub \in {"none", "connecting"} => \A b \in DOMAIN tree : tree[b].seen = "late"

\* The block that a status names holds the extrinsic, in tree t with the
\* finalized block f.
Names(t, f, m) ==
  /\ m.shape = "inBlock"   => m.hash \in DOMAIN t /\ t[m.hash].content.xt
  /\ m.shape = "finalized" => m.hash \in t[f].line /\ t[m.hash].content.xt

CallInv ==
  /\ statuses \in Seq(StatusRecords)
  /\ heard \in [{Xt} -> Seq(StatusRecords)]
  /\ caller \in [{Xt} -> {"idle", "waiting", "done"}]
  /\ kind \in [{Xt} -> Exits \cup {"get"}]
  /\ ret \in [{Xt} -> Call!Returns]
  /\ caller[Xt] # "done" => ret[Xt] = Call!Pending
  /\ caller[Xt] = "waiting" => kind[Xt] \in Exits
  /\ \A i \in DOMAIN statuses : Names(tree, final, statuses[i])
  /\ \A i \in DOMAIN heard[Xt] : Names(tree, final, heard[Xt][i])

IInv ==
  /\ ChainInv /\ FeedInv /\ SeenInv /\ CallInv
  /\ HashHoldsExtrinsic /\ MissedOnlyIfUnseen

\* What a step may not do to the blocks: forget one, change what it holds or
\* move it, or take back a finalized one.
Grows ==
  /\ DOMAIN tree \subseteq DOMAIN tree'
  /\ \A b \in DOMAIN tree : tree'[b].content = tree[b].content
  /\ Chain(final) \subseteq Chain(final)'

----------------------------------------------------------------------------
(***************************************************************************)
(* Lemmas on sequences, and on the tree.                                   *)
(***************************************************************************)
LEMMA AppendFacts ==
  ASSUME NEW S, NEW s \in Seq(S), NEW e \in S
  PROVE  /\ Append(s, e) \in Seq(S)
         /\ Len(s) \in Nat
         /\ DOMAIN s = 1..Len(s)
         /\ DOMAIN Append(s, e) = DOMAIN s \cup {Len(s) + 1}
         /\ Len(Append(s, e)) = Len(s) + 1
         /\ \A n \in DOMAIN s : Append(s, e)[n] = s[n]
         /\ Append(s, e)[Len(s) + 1] = e
  OBVIOUS

LEMMA TailFacts ==
  ASSUME NEW S, NEW s \in Seq(S), s # <<>>
  PROVE  /\ Tail(s) \in Seq(S)
         /\ Head(s) = s[1] /\ s[1] \in S /\ 1 \in DOMAIN s
         /\ \A n \in DOMAIN Tail(s) : n + 1 \in DOMAIN s /\ Tail(s)[n] = s[n + 1]
         /\ \A n \in DOMAIN s : n = 1 \/ (n - 1 \in DOMAIN Tail(s) /\ Tail(s)[n - 1] = s[n])
  OBVIOUS

\* What is in a concatenation is in one of its parts.
LEMMA ConcatFacts ==
  ASSUME NEW S, NEW r \in Seq(S), NEW s \in Seq(S)
  PROVE  /\ r \o s \in Seq(S)
         /\ \A n \in DOMAIN (r \o s) :
              \/ \E i \in DOMAIN r : (r \o s)[n] = r[i]
              \/ \E i \in DOMAIN s : (r \o s)[n] = s[i]
  <1>1. r \o s \in Seq(S) /\ Len(r \o s) = Len(r) + Len(s)
    OBVIOUS
  <1>2. ASSUME NEW n \in DOMAIN (r \o s)
        PROVE  \/ \E i \in DOMAIN r : (r \o s)[n] = r[i]
               \/ \E i \in DOMAIN s : (r \o s)[n] = s[i]
    <2>1. CASE n <= Len(r)
      <3>1. n \in DOMAIN r /\ (r \o s)[n] = r[n]
        BY <1>1, <2>1
      <3> QED
        BY <3>1
    <2>2. CASE n > Len(r)
      <3>1. n - Len(r) \in DOMAIN s /\ (r \o s)[n] = s[n - Len(r)]
        BY <1>1, <2>2
      <3> QED
        BY <3>1
    <2> QED
      BY <1>1, <2>1, <2>2
  <1> QED
    BY <1>1, <1>2

\* A sequence over a set is one over any larger set.
LEMMA ElementFacts ==
  ASSUME NEW S, NEW T, S \subseteq T, NEW q \in Seq(S)
  PROVE  q \in Seq(T) /\ \A i \in DOMAIN q : q[i] \in S
  OBVIOUS

\* SetToSeq puts the elements of a finite set into a sequence.
LEMMA SetToSeqFacts ==
  ASSUME NEW S, IsFiniteSet(S)
  PROVE  SetToSeq(S) \in Seq(S)
  <1>1. PICK f \in Bijection(1..Cardinality(S), S) : TRUE
    BY FS_CardinalityType DEF ExistsBijection
  <1>2. f \in [1..Cardinality(S) -> S] /\ IsInjective(f)
    BY <1>1 DEF Bijection, Injection
  <1>3. SetToSeq(S) \in [1..Cardinality(S) -> S]
    BY <1>2 DEF SetToSeq
  <1> QED
    BY <1>3, FS_CardinalityType

\* One status for each of finitely many blocks.
LEMMA StatusesOf ==
  ASSUME NEW s \in Call!PlainShapes \cup Call!HashShapes, NEW D \in SUBSET (1..MaxBlocks)
  PROVE  LET q == SetToSeq({Status(s, d) : d \in D}) IN
         /\ q \in Seq(StatusRecords)
         /\ \A i \in DOMAIN q : \E d \in D : q[i] = Status(s, d)
  <1> DEFINE S == {Status(s, d) : d \in D}
             f == [d \in D |-> Status(s, d)]
  <1>0. IsFiniteSet(1..MaxBlocks)
    <2>1. 1 \in Int /\ MaxBlocks \in Int
      BY ContentsAssumption
    <2> QED
      BY <2>1, FS_Interval
  <1>1. IsFiniteSet(D)
    BY <1>0, FS_Subset
  <1>2. f \in Surjection(D, S)
    BY DEF Surjection
  <1>3. IsFiniteSet(S)
    BY <1>1, <1>2, FS_Surjection
  <1>4. SetToSeq(S) \in Seq(S)
    BY <1>3, SetToSeqFacts
  <1>5. S \subseteq StatusRecords
    BY ContentsAssumption DEF StatusRecords, Status
  <1>6. \A q \in Seq(S) : q \in Seq(StatusRecords) /\ \A i \in DOMAIN q : q[i] \in S
    BY <1>5, ElementFacts
  <1> QED
    BY <1>4, <1>6

LEMMA TreeFacts ==
  ASSUME ChainInv
  PROVE  /\ DOMAIN tree = 1..Len(tree) /\ Len(tree) \in Nat
         /\ DOMAIN tree \subseteq 1..MaxBlocks
         /\ final \in DOMAIN tree
         /\ \A b \in DOMAIN tree : Chain(b) \subseteq DOMAIN tree /\ b \in Chain(b)
  <1>1. DOMAIN tree = 1..Len(tree) /\ Len(tree) \in Nat /\ DOMAIN tree \subseteq 1..MaxBlocks
    BY ContentsAssumption DEF ChainInv
  <1>2. \A b \in DOMAIN tree : Chain(b) \subseteq DOMAIN tree /\ b \in Chain(b)
    BY DEF ChainInv, IsTree, Chain
  <1> QED
    BY <1>1, <1>2 DEF ChainInv

LEMMA BlockFacts ==
  ASSUME ChainInv, NEW b \in DOMAIN tree
  PROVE  tree[b] \in BlockRecords /\ tree[b].content \in Contents \cup {First}
  <1>1. tree[b] \in BlockRecords
    BY DEF ChainInv
  <1> QED
    BY <1>1 DEF BlockRecords

----------------------------------------------------------------------------
(***************************************************************************)
(* The chain: blocks are added, never changed, and what is final stays.    *)
(***************************************************************************)
LEMMA RegisterChain == ChainInv /\ Register => ChainInv' /\ Grows
  <1> SUFFICES ASSUME ChainInv, Register PROVE ChainInv' /\ Grows
    OBVIOUS
  <1>1. /\ tree' \in Seq(BlockRecords) /\ DOMAIN tree' = DOMAIN tree /\ Len(tree') = Len(tree)
        /\ \A b \in DOMAIN tree : /\ tree'[b].line = tree[b].line
                                   /\ tree'[b].number = tree[b].number
                                   /\ tree'[b].content = tree[b].content
    <2>1. CASE UNCHANGED tree
      BY <2>1 DEF ChainInv
    <2>2. CASE tree' = [tree EXCEPT ![best].seen = "initial"]
      <3> DEFINE e == [tree[best] EXCEPT !.seen = "initial"]
      <3>1. tree \in Seq(BlockRecords) /\ best \in DOMAIN tree /\ tree[best] \in BlockRecords
        BY DEF ChainInv
      <3>2. /\ e \in BlockRecords /\ e.line = tree[best].line
            /\ e.number = tree[best].number /\ e.content = tree[best].content
        BY <3>1 DEF BlockRecords
      <3>3. tree' = [tree EXCEPT ![best] = e]
        BY <2>2
      <3> HIDE DEF e
      <3> QED
        BY <3>1, <3>2, <3>3
    <2> QED
      BY <2>1, <2>2 DEF Register
  <1>2. best' = best /\ final' = final /\ pool' = pool
    BY DEF Register
  <1>3. IsTree(tree')
    BY <1>1 DEF ChainInv, IsTree
  <1>4. final \in DOMAIN tree
    BY TreeFacts
  <1> QED
    BY <1>1, <1>2, <1>3, <1>4 DEF ChainInv, Grows, Chain

LEMMA ImportChain ==
  ASSUME ChainInv, NEW parent \in DOMAIN tree, NEW c \in Contents, Import(parent, c)
  PROVE  /\ ChainInv' /\ Grows
         /\ \E seen \in {"late", "live", "side"} :
              tree' = Append(tree, Block(c, Chain(parent) \cup {Len(tree) + 1},
                                         tree[parent].number + 1, seen))
  <1> DEFINE n == Len(tree) + 1
  <1>1. PICK seen \in {"late", "live", "side"} :
          /\ tree' = Append(tree, Block(c, Chain(parent) \cup {n}, tree[parent].number + 1, seen))
          /\ best' \in {best, n}
    BY DEF Import
  <1>2. final' = final /\ pool' = pool /\ Len(tree) < MaxBlocks /\ final \in Chain(parent)
    BY DEF Import
  <1> DEFINE e == Block(c, Chain(parent) \cup {n}, tree[parent].number + 1, seen)
  <1>3. tree[parent] \in BlockRecords /\ tree[parent].number < parent
    BY DEF ChainInv
  <1>4. tree[parent].number \in Nat /\ parent \in Nat /\ parent < n
    BY <1>3, TreeFacts DEF BlockRecords
  <1>5. e \in BlockRecords /\ e.line = Chain(parent) \cup {n} /\ e.number < n
    BY <1>2, <1>3, <1>4, TreeFacts, ContentsAssumption DEF Block, BlockRecords, Blocks
  <1>6. tree \in Seq(BlockRecords) /\ tree' = Append(tree, e)
    BY <1>1 DEF ChainInv
  <1> HIDE DEF e
  <1>7. /\ tree' \in Seq(BlockRecords) /\ Len(tree') = n
        /\ DOMAIN tree' = DOMAIN tree \cup {n} /\ n \notin DOMAIN tree
        /\ tree'[n] = e /\ \A b \in DOMAIN tree : tree'[b] = tree[b]
    BY <1>5, <1>6, AppendFacts
  <1>8. IsTree(tree')
    <2>1. ASSUME NEW b \in DOMAIN tree
          PROVE  /\ b \in tree'[b].line /\ tree'[b].line \subseteq DOMAIN tree'
                 /\ \A a \in tree'[b].line : tree'[a].line \subseteq tree'[b].line
                 /\ \A a, d \in tree'[b].line : a \in tree'[d].line \/ d \in tree'[a].line
      BY <1>7, <2>1 DEF ChainInv, IsTree
    <2>2. Chain(parent) \subseteq DOMAIN tree /\ parent \in Chain(parent)
      BY TreeFacts
    <2>3. \A a \in Chain(parent) : tree'[a].line = tree[a].line /\ tree[a].line \subseteq Chain(parent)
      BY <1>7, <2>2 DEF ChainInv, IsTree, Chain
    <2>4. \A a, d \in Chain(parent) : a \in tree[d].line \/ d \in tree[a].line
      BY DEF ChainInv, IsTree, Chain
    <2> QED
      BY <1>5, <1>7, <2>1, <2>2, <2>3, <2>4 DEF IsTree
  <1>9. final' \in Chain(best)'
    BY <1>1, <1>2, <1>5, <1>7 DEF ChainInv, Chain
  <1>10. Len(tree') <= MaxBlocks
    BY <1>2, <1>7, TreeFacts, ContentsAssumption
  <1>11. ChainInv'
    BY <1>1, <1>2, <1>5, <1>7, <1>8, <1>9, <1>10 DEF ChainInv
  <1>12. Grows
    BY <1>2, <1>7, TreeFacts DEF Grows, Chain
  <1> QED
    BY <1>1, <1>11, <1>12

\* A block is finalized on the best chain and not behind the last one: so the
\* last one is behind it.
LEMMA FinalizeChain ==
  ASSUME ChainInv, NEW b \in DOMAIN tree, Finalize(b)
  PROVE  ChainInv' /\ Grows
  <1>1. /\ b \in Chain(best) /\ b \notin Chain(final) /\ final' = b
        /\ tree' = tree /\ best' = best /\ pool' = pool
    BY DEF Finalize
  <1>2. final \in Chain(b)
    BY <1>1 DEF ChainInv, IsTree, Chain
  <1>3. Chain(final) \subseteq Chain(b)
    BY <1>2 DEF ChainInv, IsTree, Chain
  <1> QED
    BY <1>1, <1>3 DEF ChainInv, Grows, Chain

LEMMA ChainStep == ChainInv /\ [Next]_vars => ChainInv' /\ Grows
  <1> SUFFICES ASSUME ChainInv, [Next]_vars PROVE ChainInv' /\ Grows
    OBVIOUS
  <1>1. ASSUME UNCHANGED <<tree, best, final>>, pool' \in {"none", "in", "out"}
        PROVE  ChainInv' /\ Grows
    BY <1>1 DEF ChainInv, Grows, Chain
  <1>2. ASSUME UNCHANGED chainVars PROVE ChainInv' /\ Grows
    BY <1>1, <1>2 DEF chainVars, ChainInv
  <1>3. CASE \/ subscribe_events \/ SubscriptionLost \/ on_subscription_msg
             \/ wait_for_event \/ wait_for_raw_event \/ recv_disconnected
    BY <1>2, <1>3 DEF subscribe_events, SubscriptionLost, on_subscription_msg,
         wait_for_event, wait_for_raw_event, Returns, recv_disconnected
  <1>4. CASE \/ \E k \in Exits : send_extrinsic(k)
             \/ on_extrinsic_msg \/ send_returns \/ SendLost
    BY <1>2, <1>4 DEF send_extrinsic, on_extrinsic_msg, send_returns, SendLost
  <1>5. CASE Submit \/ Drop
    BY <1>1, <1>5 DEF Submit, Drop
  <1>6. CASE UNCHANGED vars
    BY <1>2, <1>6 DEF vars
  <1> QED
    BY <1>3, <1>4, <1>5, <1>6, RegisterChain, ImportChain, FinalizeChain DEF Next

----------------------------------------------------------------------------
(***************************************************************************)
(* The feed.                                                               *)
(***************************************************************************)
\* The value of a block has the type of one, and stays its value.
LEMMA ValueFacts ==
  ASSUME ChainInv, NEW b \in DOMAIN tree
  PROVE  LET v == Value(b, tree[b].content) IN v \in Values /\ Told(tree, v)
  <1>1. tree[b].content \in Contents \cup {First} /\ b \in Blocks
    BY BlockFacts, TreeFacts DEF Blocks
  <1>2. tree[b].content.decodes \in BOOLEAN
    <2>1. CASE tree[b].content \in Contents
      <3>1. tree[b].content \in [xt : BOOLEAN, decodes : BOOLEAN,
                                events : Seq({EventOf(TRUE), EventOf(FALSE)})]
        BY <2>1, ContentsAssumption
      <3> QED
        BY <3>1, Zenon
    <2>2. CASE tree[b].content = First
      BY <2>2 DEF First
    <2> QED
      BY <1>1, <2>1, <2>2
  <1> QED
    BY <1>1, <1>2 DEF Value, Values, Told

LEMMA ToldGrows ==
  ASSUME Grows, NEW v, Told(tree, v)
  PROVE  Told(tree', v)
  BY DEF Grows, Told

\* An event of the extrinsic is in a block that holds it.
LEMMA OwnIsHeld ==
  ASSUME ChainInv, NEW b \in DOMAIN tree, NEW i \in DOMAIN tree[b].content.events,
         tree[b].content.events[i].own
  PROVE  b \in Holders(DOMAIN tree)
  <1>1. tree[b].content \in Contents \cup {First}
    BY BlockFacts
  <1>2. tree[b].content # First
    BY DEF First, EventOf
  <1>3. tree[b].content \in Contents
    BY <1>1, <1>2
  <1>4. tree[b].content.xt
    BY <1>3, ContentsAssumption
  <1> QED
    BY <1>4 DEF Holders

\* A wait is for E.
LEMMA WaitIsForE ==
  ASSUME FeedInv, waiting # Feed!NoWait
  PROVE  waiting.name = "E"
  BY DEF FeedInv, Feed!Waits

\* Steps that leave the feed alone.
LEMMA FeedFrame ==
  ASSUME FeedInv, Grows, UNCHANGED <<sub, wire, feedVars, got>>
  PROVE  FeedInv'
  <1>1. got' \subseteq Holders(DOMAIN tree)'
    BY DEF FeedInv, Grows, Holders
  <1>2. \A i \in DOMAIN wire' : Told(tree', wire'[i])
    BY ToldGrows DEF FeedInv
  <1>3. \A i \in DOMAIN log' : Told(tree', log'[i])
    BY ToldGrows DEF FeedInv, feedVars
  <1> QED
    BY <1>1, <1>2, <1>3 DEF FeedInv, feedVars

\* The value of the best block is on its way; nothing else was told before.
LEMMA RegisterFeed ==
  ASSUME ChainInv, FeedInv, SeenInv, Grows, Register
  PROVE  FeedInv' /\ SeenInv' /\ MissedOnlyIfUnseen'
  <1>1. UNCHANGED <<feedVars, got>> /\ sub' \in {"registered", "refused"}
    BY DEF Register
  <1>2. got' \subseteq Holders(DOMAIN tree)'
    BY <1>1 DEF FeedInv, Grows, Holders
  <1>3. \A i \in DOMAIN log' : Told(tree', log'[i])
    BY <1>1, ToldGrows DEF FeedInv, feedVars
  <1>4. CASE sub' = "refused"
    <2>1. wire' = wire
      BY <1>4 DEF Register
    <2>2. \A i \in DOMAIN wire' : Told(tree', wire'[i])
      BY <2>1, ToldGrows DEF FeedInv
    <2> QED
      BY <1>1, <1>2, <1>3, <1>4, <2>1, <2>2 DEF FeedInv, feedVars, SeenInv, MissedOnlyIfUnseen
  <1>5. CASE sub' = "registered"
    <2> DEFINE v == Value(best, tree[best].content)
    <2>1. sub = "connecting" /\ wire' = <<v>> /\ tree' = [tree EXCEPT ![best].seen = "initial"]
      BY <1>5 DEF Register
    <2>2. v \in Values /\ Told(tree, v) /\ Told(tree', v)
      BY ValueFacts, ToldGrows DEF ChainInv
    <2>3. v.block = best
      BY DEF Value
    <2> HIDE DEF v
    <2>4. FeedInv'
      <3>1. wire' \in Seq(Values) /\ \A i \in DOMAIN wire' : wire'[i] = v
        BY <2>1, <2>2
      <3> QED
        BY <1>1, <1>2, <1>3, <1>5, <2>2, <3>1 DEF FeedInv, feedVars
    <2>5. best \in Unread'
      BY <2>1, <2>3 DEF Unread
    <2>6. DOMAIN tree' = DOMAIN tree
      BY <2>1
    <2>7. \A b \in DOMAIN tree : b # best => tree'[b].seen = "late"
      BY <2>1 DEF SeenInv
    <2>8. MissedOnlyIfUnseen'
      BY <2>5, <2>6, <2>7 DEF MissedOnlyIfUnseen, Holders
    <2> QED
      BY <1>5, <2>4, <2>8 DEF SeenInv
  <1> QED
    BY <1>1, <1>4, <1>5

LEMMA MessageFeed ==
  ASSUME FeedInv, SeenInv, MissedOnlyIfUnseen, on_subscription_msg
  PROVE  FeedInv' /\ SeenInv' /\ MissedOnlyIfUnseen'
  <1>1. /\ wire # <<>> /\ wire' = Tail(wire) /\ log' = Append(log, Head(wire))
        /\ UNCHANGED <<tree, sub, pos, waiting, outcome, got>>
    BY DEF on_subscription_msg, Feed!Publish, chainVars
  <1>2. wire \in Seq(Values) /\ log \in Seq(Values) /\ pos \in 0..Len(log)
    BY DEF FeedInv
  <1>3. /\ wire' \in Seq(Values) /\ Head(wire) = wire[1] /\ 1 \in DOMAIN wire
        /\ Head(wire) \in Values
        /\ \A n \in DOMAIN wire' : n + 1 \in DOMAIN wire /\ wire'[n] = wire[n + 1]
        /\ \A n \in DOMAIN wire : n = 1 \/ (n - 1 \in DOMAIN wire' /\ wire'[n - 1] = wire[n])
    BY <1>1, <1>2, TailFacts
  <1>4. /\ log' \in Seq(Values) /\ Len(log) \in Nat /\ Len(log') = Len(log) + 1
        /\ DOMAIN log = 1..Len(log) /\ DOMAIN log' = DOMAIN log \cup {Len(log) + 1}
        /\ log'[Len(log) + 1] = wire[1] /\ \A n \in DOMAIN log : log'[n] = log[n]
    BY <1>1, <1>2, <1>3, AppendFacts
  <1>5. FeedInv'
    <2>1. \A i \in DOMAIN wire' : Told(tree', wire'[i])
      BY <1>1, <1>3 DEF FeedInv
    <2>2. \A i \in DOMAIN log' : Told(tree', log'[i])
      BY <1>1, <1>3, <1>4 DEF FeedInv
    <2>3. pos' \in 0..Len(log')
      BY <1>1, <1>2, <1>4
    <2> QED
      BY <1>1, <1>3, <1>4, <2>1, <2>2, <2>3 DEF FeedInv, Holders
  <1>6. Unread \subseteq Unread'
    <2>1. ASSUME NEW n \in (pos + 1)..Len(log) PROVE log[n].block \in Unread'
      <3>1. n \in DOMAIN log /\ n \in (pos' + 1)..Len(log')
        BY <1>1, <1>2, <1>4
      <3> QED
        BY <1>4, <3>1 DEF Unread
    <2>2. ASSUME NEW n \in DOMAIN wire PROVE wire[n].block \in Unread'
      <3>1. CASE n = 1
        <4>1. Len(log) + 1 \in (pos' + 1)..Len(log')
          BY <1>1, <1>2, <1>4
        <4> QED
          BY <1>4, <3>1, <4>1 DEF Unread
      <3>2. CASE n # 1
        BY <1>3, <2>2, <3>2 DEF Unread
      <3> QED
        BY <3>1, <3>2
    <2> QED
      BY <2>1, <2>2 DEF Unread
  <1> QED
    BY <1>1, <1>5, <1>6 DEF SeenInv, MissedOnlyIfUnseen, Holders, OwnEventFirst

\* wait_for_raw_event skips no value that has an event of the name, and takes
\* the first one in the value it stops at.
LEMMA ReturnFeed ==
  ASSUME ChainInv, FeedInv, SeenInv, MissedOnlyIfUnseen,
         NEW n \in DOMAIN log, NEW i \in DOMAIN log[n].events, Returns(n, i)
  PROVE  FeedInv' /\ SeenInv' /\ MissedOnlyIfUnseen'
  <1>1. /\ UNCHANGED <<tree, sub, wire, log>> /\ pos' = n
        /\ waiting # Feed!NoWait /\ waiting' = Feed!NoWait
        /\ outcome' = Feed!Outcome("Ok", n, i)
        /\ got' = IF log[n].events[i].own THEN got \cup {log[n].block} ELSE got
    BY DEF Returns, Feed!EndWait, chainVars
  <1>2. /\ n \in (pos + 1)..Len(log)
        /\ \A k \in (pos + 1)..(n - 1) : ~ Feed!EndsWait(log[k], "E")
    BY <1>1, WaitIsForE DEF Returns, Feed!EndWait, Feed!FirstEnd
  <1>3. /\ log \in Seq(Values) /\ pos \in 0..Len(log) /\ DOMAIN log = 1..Len(log)
        /\ Len(log) \in Nat
    BY DEF FeedInv
  <1>4. \A k \in DOMAIN log :
          /\ log[k].block \in DOMAIN tree /\ log[k].hex
          /\ log[k].decodes = tree[log[k].block].content.decodes
          /\ log[k].events = tree[log[k].block].content.events
    <2> TAKE k \in DOMAIN log
    <2>1. log[k].block \in DOMAIN tree /\ log[k] = Value(log[k].block, tree[log[k].block].content)
      BY DEF FeedInv, Told
    <2> QED
      BY <2>1 DEF Value
  <1>5. /\ log[n].events[i].name = "E"
        /\ \A j \in 1..(i - 1) : log[n].events[j].name # "E"
    <2>1. PICK j \in DOMAIN log[n].events :
            /\ log[n].events[j].name = "E"
            /\ \A k \in 1..(j - 1) : log[n].events[k].name # "E"
            /\ \E r : Feed!Outcome("Ok", n, i) = Feed!Outcome(r, n, j)
      BY <1>1, <1>4, WaitIsForE DEF Returns, Feed!EndWait, Feed!Result
    <2>2. i = j
      BY <2>1 DEF Feed!Outcome
    <2> QED
      BY <2>1, <2>2
  <1>6. FeedInv'
    <2>1. got' \subseteq Holders(DOMAIN tree)
      BY <1>1, <1>4, OwnIsHeld DEF FeedInv
    <2>2. outcome'.res = "Ok"
      BY <1>1 DEF Feed!Outcome
    <2>3. pos' \in 0..Len(log)
      BY <1>1, <1>2, <1>3
    <2> QED
      BY <1>1, <2>1, <2>2, <2>3 DEF FeedInv, Holders
  <1>7. ASSUME NEW b \in DOMAIN tree, OwnEventFirst(b), tree[b].content.decodes,
               b \in got \cup Unread
        PROVE  b \in got' \cup Unread'
    <2> DEFINE events == tree[b].content.events
    <2>1. PICK k \in DOMAIN events :
            events[k] = EventOf(TRUE) /\ \A j \in 1..(k - 1) : events[j].name # "E"
      BY <1>7 DEF OwnEventFirst
    <2>2. events[k].name = "E" /\ events[k].own
      BY <2>1 DEF EventOf
    <2>3. CASE b \in got \/ \E m \in DOMAIN wire : b = wire[m].block
      BY <1>1, <2>3 DEF Unread
    <2>4. ASSUME NEW m \in (pos + 1)..Len(log), b = log[m].block
          PROVE  b \in got' \cup Unread'
      <3>0. m \in DOMAIN log /\ m \in Nat /\ n \in Nat
        BY <1>2, <1>3
      <3>1. CASE m < n
        <4>1. m \in (pos + 1)..(n - 1)
          BY <1>2, <1>3, <3>1
        <4>2. Feed!EndsWait(log[m], "E")
          BY <1>4, <1>7, <2>2, <2>4, <3>0 DEF Feed!EndsWait, Feed!Found
        <4> QED
          BY <1>2, <4>1, <4>2
      <3>2. CASE m = n
        <4>0. /\ i \in Nat /\ k \in Nat /\ i \in DOMAIN events
              /\ i > 0 /\ k > 0
          <5>1. tree[b].content \in Contents \cup {First}
            BY BlockFacts
          <5>2. events \in Seq({EventOf(TRUE), EventOf(FALSE)})
            <6>1. First.events \in Seq({EventOf(TRUE), EventOf(FALSE)})
              BY DEF First
            <6> QED
              BY <5>1, <6>1, ContentsAssumption
          <5>3. i \in DOMAIN events
            BY <1>4, <2>4, <3>2
          <5> QED
            BY <5>2, <5>3
        <4>1. events[i].name = "E" /\ \A j \in 1..(i - 1) : events[j].name # "E"
          BY <1>4, <1>5, <2>4, <3>2
        <4>2. i = k
          <5>1. CASE i < k
            BY <2>1, <4>0, <4>1, <5>1
          <5>2. CASE k < i
            BY <2>2, <4>0, <4>1, <5>2
          <5> QED
            BY <4>0, <5>1, <5>2
        <4> QED
          BY <1>1, <1>4, <2>2, <2>4, <3>2, <4>2
      <3>3. CASE m > n
        <4>1. m \in (pos' + 1)..Len(log')
          BY <1>1, <1>3, <3>0, <3>3
        <4> QED
          BY <1>1, <2>4, <4>1 DEF Unread
      <3> QED
        BY <3>0, <3>1, <3>2, <3>3
    <2> QED
      BY <1>7, <2>3, <2>4 DEF Unread
  <1>8. MissedOnlyIfUnseen'
    BY <1>1, <1>7 DEF MissedOnlyIfUnseen, Holders, OwnEventFirst
  <1> QED
    BY <1>1, <1>6, <1>8 DEF SeenInv

LEMMA ImportFeed ==
  ASSUME ChainInv, FeedInv, SeenInv, MissedOnlyIfUnseen, ChainInv', Grows,
         NEW parent \in DOMAIN tree, NEW c \in Contents, Import(parent, c)
  PROVE  FeedInv' /\ SeenInv' /\ MissedOnlyIfUnseen'
  <1> DEFINE n == Len(tree) + 1
  <1>1. PICK seen \in {"late", "live", "side"} :
          /\ seen = "late" <=> sub # "registered"
          /\ tree' = Append(tree, Block(c, Chain(parent) \cup {n}, tree[parent].number + 1, seen))
          /\ wire' = IF seen = "live" THEN Append(wire, Value(n, c)) ELSE wire
    BY DEF Import
  <1>2. UNCHANGED <<sub, log, pos, waiting, outcome, got>>
    BY DEF Import, feedVars
  <1>3. /\ DOMAIN tree' = DOMAIN tree \cup {n}
        /\ tree'[n] = Block(c, Chain(parent) \cup {n}, tree[parent].number + 1, seen)
        /\ \A b \in DOMAIN tree : tree'[b] = tree[b]
    BY <1>1 DEF ChainInv
  <1>4. tree'[n].content = c /\ tree'[n].seen = seen
    BY <1>3 DEF Block
  <1> DEFINE v == Value(n, c)
  <1>5. v \in Values /\ Told(tree', v)
    <2>1. n \in Blocks
      <3>1. Len(tree) < MaxBlocks /\ MaxBlocks \in Nat /\ Len(tree) \in Nat
        BY TreeFacts, ContentsAssumption DEF Import
      <3> QED
        BY <3>1 DEF Blocks
    <2>2. c.decodes \in BOOLEAN
      BY ContentsAssumption, Zenon
    <2> QED
      BY <1>3, <1>4, <2>1, <2>2 DEF Values, Value, Told
  <1>6. v.block = n
    BY DEF Value
  <1> HIDE DEF v
  <1>7. /\ wire' \in Seq(Values)
        /\ \A m \in DOMAIN wire' : wire'[m] = v \/ \E k \in DOMAIN wire : wire'[m] = wire[k]
        /\ DOMAIN wire \subseteq DOMAIN wire' /\ \A k \in DOMAIN wire : wire'[k] = wire[k]
        /\ seen = "live" => \E m \in DOMAIN wire' : wire'[m] = v
    <2>1. wire \in Seq(Values)
      BY DEF FeedInv
    <2>2. CASE seen = "live"
      BY <1>1, <1>5, <2>1, <2>2, AppendFacts DEF v
    <2>3. CASE seen # "live"
      BY <1>1, <2>1, <2>3
    <2> QED
      BY <2>2, <2>3
  <1>8. FeedInv'
    <2>1. \A k \in DOMAIN wire : Told(tree', wire[k])
      BY ToldGrows DEF FeedInv
    <2>2. \A m \in DOMAIN wire' : Told(tree', wire'[m])
      BY <1>5, <1>7, <2>1
    <2>3. \A k \in DOMAIN log' : Told(tree', log'[k])
      BY <1>2, ToldGrows DEF FeedInv
    <2>4. got' \subseteq Holders(DOMAIN tree)'
      BY <1>2 DEF FeedInv, Grows, Holders
    <2> QED
      BY <1>2, <1>7, <2>2, <2>3, <2>4 DEF FeedInv
  <1>9. SeenInv'
    BY <1>1, <1>2, <1>3, <1>4 DEF SeenInv
  <1>10. Unread \subseteq Unread' /\ (seen = "live" => n \in Unread')
    BY <1>2, <1>6, <1>7 DEF Unread
  <1>11. MissedOnlyIfUnseen'
    <2> SUFFICES ASSUME sub = "registered", NEW b \in DOMAIN tree', tree'[b].content.xt,
                        OwnEventFirst(b)', tree'[b].content.decodes
                 PROVE  b \in got' \cup Unread' \/ tree'[b].seen \in {"late", "side"}
      BY <1>2 DEF MissedOnlyIfUnseen, Holders
    <2>1. CASE b = n
      BY <1>1, <1>4, <1>10, <2>1
    <2>2. CASE b \in DOMAIN tree
      <3>1. tree'[b] = tree[b]
        BY <1>3, <2>2
      <3>2. OwnEventFirst(b)
        BY <3>1 DEF OwnEventFirst
      <3>3. b \in got \cup Unread \/ tree[b].seen \in {"late", "side"}
        BY <2>2, <3>1, <3>2 DEF MissedOnlyIfUnseen, Holders
      <3> QED
        BY <1>2, <1>10, <3>1, <3>3
    <2> QED
      BY <1>3, <2>1, <2>2
  <1> QED
    BY <1>8, <1>9, <1>11

\* Steps that read nothing and tell nothing.
LEMMA SeenFrame ==
  ASSUME SeenInv, MissedOnlyIfUnseen, UNCHANGED <<tree, sub, wire, log, pos, got>>
  PROVE  SeenInv' /\ MissedOnlyIfUnseen'
  <1>1. Unread' = Unread
    BY DEF Unread
  <1>2. \A b : OwnEventFirst(b)' <=> OwnEventFirst(b)
    BY DEF OwnEventFirst
  <1> QED
    BY <1>1, <1>2 DEF SeenInv, MissedOnlyIfUnseen, Holders

LEMMA FeedStep == IInv /\ [Next]_vars => FeedInv' /\ SeenInv' /\ MissedOnlyIfUnseen'
  <1> SUFFICES ASSUME IInv, [Next]_vars
               PROVE  FeedInv' /\ SeenInv' /\ MissedOnlyIfUnseen'
    OBVIOUS
  <1>0. ChainInv /\ FeedInv /\ SeenInv /\ MissedOnlyIfUnseen /\ ChainInv' /\ Grows
    BY ChainStep DEF IInv
  <1>1. ASSUME UNCHANGED <<tree, sub, wire, feedVars, got>>
        PROVE  FeedInv' /\ SeenInv' /\ MissedOnlyIfUnseen'
    <2>1. FeedInv'
      BY <1>0, <1>1, FeedFrame
    <2> QED
      BY <1>0, <1>1, <2>1, SeenFrame DEF feedVars
  <1>2. CASE subscribe_events
    BY <1>0, <1>2 DEF subscribe_events, chainVars, feedVars, FeedInv, SeenInv,
         MissedOnlyIfUnseen, Holders
  <1>3. CASE SubscriptionLost
    <2>1. wire' \in Seq(Values) /\ DOMAIN wire' = {}
      BY <1>3 DEF SubscriptionLost
    <2> QED
      BY <1>0, <1>3, <2>1 DEF SubscriptionLost, chainVars, feedVars, FeedInv, SeenInv,
           MissedOnlyIfUnseen, Holders
  <1>4. CASE wait_for_event
    <2>1. /\ UNCHANGED <<tree, sub, wire, log, pos, outcome, got>>
          /\ waiting' = [name |-> "E", typed |-> FALSE]
      BY <1>4 DEF wait_for_event, chainVars, Feed!BeginWait
    <2>2. waiting' \in Feed!Waits
      BY <2>1 DEF Feed!Waits
    <2>3. FeedInv'
      BY <1>0, <2>1, <2>2 DEF FeedInv, Holders
    <2> QED
      BY <1>0, <2>1, <2>3, SeenFrame
  <1>5. CASE wait_for_raw_event
    BY <1>0, <1>5, ReturnFeed DEF wait_for_raw_event
  <1>6. CASE recv_disconnected
    <2>1. log \in Seq(Values) /\ Len(log) \in 0..Len(log)
      BY <1>0 DEF FeedInv
    <2> QED
      BY <1>0, <1>6, <2>1 DEF recv_disconnected, chainVars, Feed!Broken, Feed!Outcome,
           FeedInv, SeenInv, MissedOnlyIfUnseen, Holders
  <1>7. CASE \/ \E k \in Exits : send_extrinsic(k)
             \/ Submit \/ on_extrinsic_msg \/ send_returns \/ SendLost
    BY <1>1, <1>7 DEF send_extrinsic, Submit, on_extrinsic_msg, send_returns, SendLost,
         chainVars
  <1>8. CASE (\E b \in DOMAIN tree : Finalize(b)) \/ Drop
    BY <1>1, <1>8 DEF Finalize, Drop
  <1>9. CASE UNCHANGED vars
    BY <1>1, <1>9 DEF vars, chainVars
  <1>10. CASE Register
    BY <1>0, <1>10, RegisterFeed
  <1>11. CASE on_subscription_msg
    BY <1>0, <1>11, MessageFeed
  <1>12. CASE \E parent \in DOMAIN tree, c \in Contents : Import(parent, c)
    BY <1>0, <1>12, ImportFeed
  <1> QED
    BY <1>2, <1>3, <1>4, <1>5, <1>6, <1>7, <1>8, <1>9, <1>10, <1>11, <1>12 DEF Next

----------------------------------------------------------------------------
(***************************************************************************)
(* The send.                                                               *)
(***************************************************************************)
\* What a status says of a block stays true, though the best block may change.
LEMMA NamesGrow ==
  ASSUME ChainInv, Grows, NEW m, Names(tree, final, m)
  PROVE  Names(tree', final', m)
  BY TreeFacts DEF Grows, Names, Chain

LEMMA HashFrame ==
  ASSUME ChainInv, Grows, HashHoldsExtrinsic, UNCHANGED <<ret, kind>>
  PROVE  HashHoldsExtrinsic'
  <1>1. Holders(DOMAIN tree) \subseteq Holders(DOMAIN tree)'
    BY DEF Grows, Holders
  <1>2. Holders(Chain(final)) \subseteq Holders(Chain(final))'
    BY TreeFacts DEF Grows, Holders
  <1> QED
    BY <1>1, <1>2 DEF HashHoldsExtrinsic

\* Steps of the node: only what is on its way to the send may change.
LEMMA StatusesFrame ==
  ASSUME ChainInv, Grows, CallInv, HashHoldsExtrinsic, UNCHANGED callVars,
         statuses' \in Seq(StatusRecords),
         \A i \in DOMAIN statuses' : Names(tree', final', statuses'[i])
  PROVE  CallInv' /\ HashHoldsExtrinsic'
  <1>1. \A i \in DOMAIN heard[Xt] : Names(tree', final', heard[Xt][i])
    BY NamesGrow DEF CallInv
  <1>2. CallInv'
    BY <1>1 DEF CallInv, callVars
  <1> QED
    BY <1>2, HashFrame DEF callVars

\* Statuses that are sent, after those on their way.
LEMMA StatusesAdd ==
  ASSUME ChainInv, Grows, CallInv, HashHoldsExtrinsic, UNCHANGED callVars,
         NEW q \in Seq(StatusRecords),
         statuses' \in {statuses, statuses \o q},
         \A i \in DOMAIN q : Names(tree', final', q[i])
  PROVE  CallInv' /\ HashHoldsExtrinsic'
  <1>1. statuses \in Seq(StatusRecords)
    BY DEF CallInv
  <1>2. \A i \in DOMAIN statuses : Names(tree', final', statuses[i])
    BY NamesGrow DEF CallInv
  <1>3. CASE statuses' = statuses
    BY <1>1, <1>2, <1>3, StatusesFrame
  <1>4. CASE statuses' = statuses \o q
    <2>1. /\ statuses' \in Seq(StatusRecords)
          /\ \A n \in DOMAIN statuses' : \/ \E i \in DOMAIN statuses : statuses'[n] = statuses[i]
                                        \/ \E i \in DOMAIN q : statuses'[n] = q[i]
      BY <1>1, <1>4, ConcatFacts
    <2>2. \A n \in DOMAIN statuses' : Names(tree', final', statuses'[n])
      BY <1>2, <2>1
    <2> QED
      BY <2>1, <2>2, StatusesFrame
  <1> QED
    BY <1>3, <1>4

LEMMA ImportCall ==
  ASSUME ChainInv, CallInv, HashHoldsExtrinsic, ChainInv', Grows,
         NEW parent \in DOMAIN tree, NEW c \in Contents, Import(parent, c)
  PROVE  CallInv' /\ HashHoldsExtrinsic'
  <1> DEFINE n  == Len(tree) + 1
             in == Holders(Chain(parent) \ Chain(best)) \cup {d \in {n} : c.xt}
             r  == SetToSeq({Status("retracted", 0) : d \in Holders(Chain(best) \ Chain(parent))})
             q  == SetToSeq({Status("inBlock", d) : d \in in})
  <1>1. statuses' \in {statuses, statuses \o (r \o q)} /\ UNCHANGED callVars
    BY DEF Import, Moves
  <1>2. PICK seen : tree' = Append(tree, Block(c, Chain(parent) \cup {n},
                                              tree[parent].number + 1, seen))
    BY ImportChain
  <1>3. /\ DOMAIN tree' = DOMAIN tree \cup {n}
        /\ tree'[n].content = c
        /\ \A b \in DOMAIN tree : tree'[b] = tree[b]
    BY <1>2 DEF ChainInv, Block
  <1>4. \A d \in in : d \in DOMAIN tree' /\ tree'[d].content.xt
    BY <1>3, TreeFacts DEF Holders
  <1>5. DOMAIN tree' \subseteq 1..MaxBlocks
    BY ContentsAssumption DEF ChainInv
  <1>6. in \in SUBSET (1..MaxBlocks)
    BY <1>4, <1>5
  <1> HIDE DEF in
  <1>7. "inBlock" \in Call!PlainShapes \cup Call!HashShapes
    BY DEF Call!HashShapes
  <1>8. q \in Seq(StatusRecords) /\ \A i \in DOMAIN q : \E d \in in : q[i] = Status("inBlock", d)
    BY <1>6, <1>7, StatusesOf
  <1>9. r \in Seq(StatusRecords) /\ \A i \in DOMAIN r : r[i] = Status("retracted", 0)
    <2> DEFINE S == {Status("retracted", 0) : d \in Holders(Chain(best) \ Chain(parent))}
    <2>1. IsFiniteSet({Status("retracted", 0)}) /\ S \subseteq {Status("retracted", 0)}
      BY FS_Singleton
    <2>2. IsFiniteSet(S)
      BY <2>1, FS_Subset
    <2>3. SetToSeq(S) \in Seq(S)
      BY <2>2, SetToSeqFacts
    <2>4. Status("retracted", 0) \in StatusRecords
      BY ContentsAssumption DEF Status, StatusRecords, Call!PlainShapes
    <2>5. S \subseteq StatusRecords
      BY <2>1, <2>4
    <2>6. \A s \in Seq(S) : s \in Seq(StatusRecords) /\ \A i \in DOMAIN s : s[i] \in S
      BY <2>5, ElementFacts
    <2>7. r = SetToSeq(S)
      OBVIOUS
    <2> HIDE DEF S, r
    <2> QED
      BY <2>1, <2>3, <2>6, <2>7
  <1> HIDE DEF q, r
  <1>10. \A i \in DOMAIN q : Names(tree', final', q[i])
    BY <1>4, <1>8 DEF Names, Status
  <1>11. \A i \in DOMAIN r : Names(tree', final', r[i])
    BY <1>9 DEF Names, Status
  <1>12. r \o q \in Seq(StatusRecords) /\ \A i \in DOMAIN (r \o q) : Names(tree', final', (r \o q)[i])
    BY <1>8, <1>9, <1>10, <1>11, ConcatFacts
  <1> QED
    BY <1>1, <1>12, StatusesAdd

LEMMA FinalizeCall ==
  ASSUME ChainInv, CallInv, HashHoldsExtrinsic, Grows,
         NEW b \in DOMAIN tree, Finalize(b)
  PROVE  CallInv' /\ HashHoldsExtrinsic'
  <1> DEFINE D == Holders(Chain(b) \ Chain(final))
             q == SetToSeq({Status("finalized", d) : d \in D})
  <1>1. /\ statuses' \in {statuses, statuses \o q} /\ UNCHANGED callVars
        /\ tree' = tree /\ final' = b
    BY DEF Finalize
  <1>2. \A d \in D : d \in tree[b].line /\ tree[d].content.xt
    BY DEF Holders, Chain
  <1>3. D \in SUBSET (1..MaxBlocks)
    BY TreeFacts DEF Holders
  <1> HIDE DEF D
  <1>4. "finalized" \in Call!PlainShapes \cup Call!HashShapes
    BY DEF Call!HashShapes
  <1>5. q \in Seq(StatusRecords) /\ \A i \in DOMAIN q : \E d \in D : q[i] = Status("finalized", d)
    BY <1>3, <1>4, StatusesOf
  <1> HIDE DEF q
  <1>6. \A i \in DOMAIN q : Names(tree', final', q[i])
    BY <1>1, <1>2, <1>5 DEF Names, Status
  <1> QED
    BY <1>1, <1>5, <1>6, StatusesAdd

\* The return value of a message that ends the wait.  InBlock may be answered
\* by "finalized", but Finalized by nothing else.
LEMMA ReturnCall ==
  ASSUME ChainInv, CallInv, HashHoldsExtrinsic, send_returns
  PROVE  CallInv' /\ HashHoldsExtrinsic'
  <1>1. /\ caller[Xt] = "waiting" /\ caller' = [caller EXCEPT ![Xt] = "done"]
        /\ UNCHANGED <<tree, final, kind, heard>> /\ statuses' = <<>>
    BY DEF send_returns, Call!Return, chainVars
  <1>2. PICK i \in DOMAIN heard[Xt] :
          /\ heard[Xt][i].shape \in Call!Ends(kind[Xt])
          /\ ret' = [ret EXCEPT ![Xt] = Call!Answer(kind[Xt], heard[Xt][i])]
    BY DEF send_returns, Call!Return, Call!Decisive
  <1> DEFINE m == heard[Xt][i]
             a == Call!Answer(kind[Xt], m)
  <1>3. m \in StatusRecords /\ Names(tree, final, m) /\ kind[Xt] \in Exits
    BY <1>1 DEF CallInv
  <1>4. kind[Xt] \in {"Ready", "InBlock", "Finalized"}
    BY <1>3, ContentsAssumption
  <1>5. /\ ret \in [{Xt} -> Call!Returns] /\ caller \in [{Xt} -> {"idle", "waiting", "done"}]
        /\ ret'[Xt] = a /\ caller'[Xt] = "done"
    BY <1>1, <1>2 DEF CallInv
  <1>6. /\ a \in Call!Returns
        /\ a.res = "Some" => /\ m.shape \in {"inBlock", "finalized"}
                             /\ a.text.hash = m.hash
                             /\ kind[Xt] = "Finalized" => m.shape = "finalized"
    <2>1. m.hash \in Blocks \cup {0}
      BY <1>3, ContentsAssumption DEF StatusRecords, Blocks
    <2>2. CASE kind[Xt] = "Ready"
      <3>1. a = Call!None
        BY <2>2 DEF Call!Answer
      <3> QED
        BY <3>1 DEF Call!None, Call!Returns, Call!Texts, Call!Forms, Call!NoText, Call!Plain
    <2>3. CASE kind[Xt] \in {"InBlock", "Finalized"}
      <3>1. a = IF m.shape \in {"inBlock", "finalized"} /\ m.hash # 0
                  THEN Call!Some([form |-> "hash", hash |-> m.hash])
                  ELSE Call!Failed("InvalidHexString")
        BY <2>3 DEF Call!Answer
      <3>2. CASE m.shape \in {"inBlock", "finalized"} /\ m.hash # 0
        <4>1. a = [res |-> "Some", text |-> [form |-> "hash", hash |-> m.hash]]
          BY <3>1, <3>2 DEF Call!Some
        <4>2. kind[Xt] = "Finalized" => m.shape = "finalized"
          BY <1>2, <3>2 DEF Call!Ends
        <4> QED
          BY <2>1, <3>2, <4>1, <4>2 DEF Call!Returns, Call!Texts, Call!Forms
      <3>3. CASE ~ (m.shape \in {"inBlock", "finalized"} /\ m.hash # 0)
        BY <3>1, <3>3 DEF Call!Failed, Call!Returns, Call!Texts, Call!Forms, Call!NoText,
             Call!Plain, Call!Errors
      <3> QED
        BY <3>2, <3>3
    <2> QED
      BY <1>4, <2>2, <2>3
  <1> HIDE DEF a, m
  <1>7. CallInv'
    <2>1. statuses' \in Seq(StatusRecords) /\ DOMAIN statuses' = {}
      BY <1>1
    <2>2. ret' \in [{Xt} -> Call!Returns] /\ caller' \in [{Xt} -> {"idle", "waiting", "done"}]
      BY <1>1, <1>2, <1>5, <1>6 DEF a, m
    <2> QED
      BY <1>1, <1>5, <2>1, <2>2 DEF CallInv
  <1>8. ASSUME a.res = "Some"
        PROVE  a.text.hash \in
                 Holders(IF kind[Xt] = "Finalized" THEN Chain(final) ELSE DOMAIN tree)
    <2>1. m.hash \in DOMAIN tree /\ tree[m.hash].content.xt
      BY <1>3, <1>6, <1>8, TreeFacts DEF Names, Chain
    <2>2. kind[Xt] = "Finalized" => m.hash \in Chain(final)
      BY <1>3, <1>6, <1>8 DEF Names, Chain
    <2> QED
      BY <1>6, <1>8, <2>1, <2>2 DEF Holders
  <1>9. HashHoldsExtrinsic'
    BY <1>1, <1>5, <1>8 DEF HashHoldsExtrinsic, Holders, Chain
  <1> QED
    BY <1>7, <1>9

LEMMA BeginCall ==
  ASSUME CallInv, HashHoldsExtrinsic, NEW k \in Exits, send_extrinsic(k)
  PROVE  CallInv' /\ HashHoldsExtrinsic'
  <1>1. /\ caller[Xt] = "idle" /\ kind' = [kind EXCEPT ![Xt] = k]
        /\ UNCHANGED <<tree, final, heard, statuses>>
    BY DEF send_extrinsic, Call!Begin, chainVars
  <1>2. \/ caller' = [caller EXCEPT ![Xt] = "waiting"] /\ ret' = ret
        \/ \E e \in {"UnsupportedXtStatus", "WebSocket"} :
             /\ caller' = [caller EXCEPT ![Xt] = "done"]
             /\ ret' = [ret EXCEPT ![Xt] = Call!Failed(e)]
    BY DEF send_extrinsic, Call!Begin
  <1>3. /\ caller \in [{Xt} -> {"idle", "waiting", "done"}]
        /\ kind \in [{Xt} -> Exits \cup {"get"}] /\ ret \in [{Xt} -> Call!Returns]
        /\ ret[Xt] = Call!Pending
    BY <1>1 DEF CallInv
  <1>4. kind' \in [{Xt} -> Exits \cup {"get"}] /\ kind'[Xt] = k
    BY <1>1, <1>3
  <1>5. CASE caller' = [caller EXCEPT ![Xt] = "waiting"] /\ ret' = ret
    <2>1. caller' \in [{Xt} -> {"idle", "waiting", "done"}] /\ caller'[Xt] = "waiting"
      BY <1>3, <1>5
    <2>2. ret'[Xt].res # "Some"
      BY <1>3, <1>5 DEF Call!Pending
    <2> QED
      BY <1>1, <1>3, <1>4, <1>5, <2>1, <2>2 DEF CallInv, HashHoldsExtrinsic
  <1>6. ASSUME NEW e \in {"UnsupportedXtStatus", "WebSocket"},
               caller' = [caller EXCEPT ![Xt] = "done"],
               ret' = [ret EXCEPT ![Xt] = Call!Failed(e)]
        PROVE  CallInv' /\ HashHoldsExtrinsic'
    <2>1. caller' \in [{Xt} -> {"idle", "waiting", "done"}] /\ caller'[Xt] = "done"
      BY <1>3, <1>6
    <2>2. Call!Failed(e) \in Call!Returns /\ Call!Failed(e).res # "Some"
      BY DEF Call!Failed, Call!Returns, Call!Texts, Call!Forms, Call!NoText, Call!Plain,
           Call!Errors
    <2>3. ret' \in [{Xt} -> Call!Returns] /\ ret'[Xt].res # "Some"
      BY <1>3, <1>6, <2>2
    <2> QED
      BY <1>1, <1>4, <2>1, <2>3 DEF CallInv, HashHoldsExtrinsic
  <1> QED
    BY <1>2, <1>5, <1>6

LEMMA MessageCall ==
  ASSUME CallInv, HashHoldsExtrinsic, on_extrinsic_msg
  PROVE  CallInv' /\ HashHoldsExtrinsic'
  <1>1. /\ statuses # <<>> /\ statuses' = Tail(statuses)
        /\ heard' = [heard EXCEPT ![Xt] = Append(@, Head(statuses))]
        /\ UNCHANGED <<tree, final, caller, kind, ret>>
    BY DEF on_extrinsic_msg, Call!Hear, chainVars
  <1>2. statuses \in Seq(StatusRecords) /\ heard \in [{Xt} -> Seq(StatusRecords)]
    BY DEF CallInv
  <1>3. /\ statuses' \in Seq(StatusRecords) /\ Head(statuses) = statuses[1]
        /\ 1 \in DOMAIN statuses /\ statuses[1] \in StatusRecords
        /\ \A n \in DOMAIN statuses' : n + 1 \in DOMAIN statuses /\ statuses'[n] = statuses[n + 1]
    BY <1>1, <1>2, TailFacts
  <1>4. heard'[Xt] = Append(heard[Xt], statuses[1]) /\ heard[Xt] \in Seq(StatusRecords)
    BY <1>1, <1>2, <1>3
  <1>5. /\ heard'[Xt] \in Seq(StatusRecords)
        /\ \A n \in DOMAIN heard'[Xt] :
             heard'[Xt][n] = statuses[1] \/ (n \in DOMAIN heard[Xt] /\ heard'[Xt][n] = heard[Xt][n])
    BY <1>3, <1>4, AppendFacts
  <1>6. heard' \in [{Xt} -> Seq(StatusRecords)]
    BY <1>1, <1>2, <1>3, <1>5
  <1>7. \A n \in DOMAIN statuses' : Names(tree', final', statuses'[n])
    BY <1>1, <1>3 DEF CallInv
  <1>8. \A n \in DOMAIN heard'[Xt] : Names(tree', final', heard'[Xt][n])
    BY <1>1, <1>3, <1>5 DEF CallInv
  <1>9. CallInv'
    BY <1>1, <1>3, <1>6, <1>7, <1>8 DEF CallInv
  <1> QED
    BY <1>1, <1>9 DEF HashHoldsExtrinsic, Holders, Chain

LEMMA LostCall ==
  ASSUME CallInv, SendLost
  PROVE  CallInv' /\ HashHoldsExtrinsic'
  <1>1. /\ caller' = [caller EXCEPT ![Xt] = "done"]
        /\ ret' = [ret EXCEPT ![Xt] = Call!Failed("Disconnected")]
        /\ UNCHANGED <<tree, final, kind, heard>> /\ statuses' = <<>>
    BY DEF SendLost, Call!Disconnect, chainVars
  <1>2. /\ caller \in [{Xt} -> {"idle", "waiting", "done"}]
        /\ ret \in [{Xt} -> Call!Returns]
    BY DEF CallInv
  <1>3. Call!Failed("Disconnected") \in Call!Returns /\ Call!Failed("Disconnected").res # "Some"
    BY DEF Call!Failed, Call!Returns, Call!Texts, Call!Forms, Call!NoText, Call!Plain,
         Call!Errors
  <1>4. /\ caller' \in [{Xt} -> {"idle", "waiting", "done"}] /\ caller'[Xt] = "done"
        /\ ret' \in [{Xt} -> Call!Returns] /\ ret'[Xt].res # "Some"
    BY <1>1, <1>2, <1>3
  <1>5. statuses' \in Seq(StatusRecords) /\ DOMAIN statuses' = {}
    BY <1>1
  <1> QED
    BY <1>1, <1>4, <1>5 DEF CallInv, HashHoldsExtrinsic

LEMMA CallStep == IInv /\ [Next]_vars => CallInv' /\ HashHoldsExtrinsic'
  <1> SUFFICES ASSUME IInv, [Next]_vars PROVE CallInv' /\ HashHoldsExtrinsic'
    OBVIOUS
  <1>0. ChainInv /\ CallInv /\ HashHoldsExtrinsic /\ ChainInv' /\ Grows
    BY ChainStep DEF IInv
  <1>1. ASSUME UNCHANGED <<statuses, callVars>> PROVE CallInv' /\ HashHoldsExtrinsic'
    <2>1. <<>> \in Seq(StatusRecords) /\ DOMAIN <<>> = {}
      OBVIOUS
    <2> QED
      BY <1>0, <1>1, <2>1, StatusesAdd
  <1>2. CASE \/ subscribe_events \/ Register \/ SubscriptionLost \/ on_subscription_msg
             \/ wait_for_event \/ wait_for_raw_event \/ recv_disconnected
    BY <1>1, <1>2 DEF subscribe_events, Register, SubscriptionLost, on_subscription_msg,
         wait_for_event, wait_for_raw_event, Returns, recv_disconnected
  <1>3. CASE Submit
    <2>1. PICK s \in {"ready", "error"} : statuses' = <<Status(s, 0)>>
      BY <1>3 DEF Submit
    <2>2. Status(s, 0) \in StatusRecords
      BY ContentsAssumption DEF Status, StatusRecords, Call!PlainShapes
    <2>3. Names(tree', final', Status(s, 0))
      BY DEF Names, Status
    <2>4. /\ statuses' \in Seq(StatusRecords)
          /\ \A i \in DOMAIN statuses' : statuses'[i] = Status(s, 0)
      BY <2>1, <2>2
    <2>5. UNCHANGED callVars
      BY <1>3 DEF Submit
    <2> QED
      BY <1>0, <2>3, <2>4, <2>5, StatusesFrame
  <1>4. CASE Drop
    <2> DEFINE d == Status("dropped", 0)
    <2>1. d \in StatusRecords /\ Names(tree', final', d)
      BY ContentsAssumption DEF Status, StatusRecords, Call!PlainShapes, Names
    <2> HIDE DEF d
    <2>2. statuses' \in {statuses, Append(statuses, d)} /\ UNCHANGED callVars
      BY <1>4 DEF Drop, d
    <2>3. statuses \in Seq(StatusRecords)
      BY <1>0 DEF CallInv
    <2>4. \A i \in DOMAIN statuses : Names(tree', final', statuses[i])
      BY <1>0, NamesGrow DEF CallInv
    <2>5. CASE statuses' = statuses
      BY <1>1, <2>2, <2>5
    <2>6. CASE statuses' = Append(statuses, d)
      <3>1. /\ statuses' \in Seq(StatusRecords)
            /\ \A i \in DOMAIN statuses' :
                 statuses'[i] = d \/ (i \in DOMAIN statuses /\ statuses'[i] = statuses[i])
        BY <2>1, <2>3, <2>6, AppendFacts
      <3>2. \A i \in DOMAIN statuses' : Names(tree', final', statuses'[i])
        BY <2>1, <2>4, <3>1
      <3> QED
        BY <1>0, <2>2, <3>1, <3>2, StatusesFrame
    <2> QED
      BY <2>2, <2>5, <2>6
  <1>5. CASE UNCHANGED vars
    BY <1>1, <1>5 DEF vars
  <1>6. CASE \/ \E k \in Exits : send_extrinsic(k)
             \/ on_extrinsic_msg \/ send_returns \/ SendLost
    BY <1>0, <1>6, BeginCall, MessageCall, ReturnCall, LostCall
  <1>7. CASE \/ \E parent \in DOMAIN tree, c \in Contents : Import(parent, c)
             \/ \E b \in DOMAIN tree : Finalize(b)
    BY <1>0, <1>7, ImportCall, FinalizeCall
  <1> QED
    BY <1>2, <1>3, <1>4, <1>5, <1>6, <1>7 DEF Next

----------------------------------------------------------------------------
\* The invariant holds when the program begins.
LEMMA InitIInv == Init => IInv
  <1> SUFFICES ASSUME Init PROVE IInv
    OBVIOUS
  <1> DEFINE e == Block(First, {1}, 0, "late")
  <1>1. e \in BlockRecords /\ e.line = {1} /\ e.number = 0 /\ e.seen = "late" /\ ~ e.content.xt
    BY ContentsAssumption DEF Block, BlockRecords, Blocks, First
  <1>2. tree = <<e>> /\ best = 1 /\ final = 1
    BY DEF Init
  <1> HIDE DEF e
  <1>3. /\ tree \in Seq(BlockRecords) /\ Len(tree) = 1 /\ DOMAIN tree = {1} /\ tree[1] = e
    BY <1>1, <1>2
  <1>4. IsTree(tree) /\ 1 \in Chain(1)
    BY <1>1, <1>3 DEF IsTree, Chain
  <1>5. 1 <= MaxBlocks
    BY ContentsAssumption
  <1>6. ChainInv
    BY <1>1, <1>2, <1>3, <1>4, <1>5 DEF ChainInv, Init
  <1>7. Holders(DOMAIN tree) = {}
    BY <1>1, <1>3 DEF Holders
  <1>8. FeedInv
    BY <1>7 DEF Init, FeedInv, Feed!Init, Feed!NoOutcome, Feed!Outcome
  <1>9. CallInv /\ HashHoldsExtrinsic
    <2>1. Call!Pending \in Call!Returns /\ Call!Pending.res # "Some"
      BY DEF Call!Pending, Call!Returns, Call!Texts, Call!Forms, Call!NoText, Call!Plain
    <2> QED
      BY <2>1 DEF Init, Call!Init, CallInv, HashHoldsExtrinsic
  <1>10. SeenInv /\ MissedOnlyIfUnseen
    BY <1>1, <1>3, <1>7 DEF SeenInv, MissedOnlyIfUnseen
  <1> QED
    BY <1>6, <1>8, <1>9, <1>10 DEF IInv

\* The invariant holds in every reachable state, for any contents, exits and
\* number of blocks.
THEOREM Invariance == Spec => []IInv
  <1>1. IInv /\ [Next]_vars => IInv'
    BY ChainStep, FeedStep, CallStep DEF IInv
  <1> QED
    BY <1>1, InitIInv, PTL DEF Spec

\* Type correctness, with the finalized block on the best chain and only
\* blocks of the extrinsic among those whose event was returned.
THEOREM TypeCorrect == Spec => []TypeOK
  <1>1. IInv => TypeOK
    BY DEF IInv, ChainInv, FeedInv, CallInv, TypeOK, BlockRecords, StatusRecords
  <1> QED
    BY <1>1, Invariance, PTL

\* No order of the answers on the three sockets loses an event of the
\* extrinsic: while the subscription lasts, a block that was told of, decodes
\* and has the event first is returned by a wait or still to be read.
THEOREM NothingMissed == Spec => []MissedOnlyIfUnseen
  <1>1. IInv => MissedOnlyIfUnseen
    BY DEF IInv
  <1> QED
    BY <1>1, Invariance, PTL

\* The hash that send_extrinsic returns is of a block that holds the
\* extrinsic, and for Finalized of one that no fork can take back.
THEOREM HashIsHolder == Spec => []HashHoldsExtrinsic
  <1>1. IInv => HashHoldsExtrinsic
    BY DEF IInv
  <1> QED
    BY <1>1, Invariance, PTL

\* No step of the client or the node forgets a block, changes what it holds
\* or takes back a finalized one.
THEOREM ChainOnlyGrows == Spec => [][Grows]_vars
  <1>1. IInv /\ [Next]_vars => Grows
    BY ChainStep DEF IInv
  <1> QED
    BY <1>1, Invariance, PTL DEF Spec
=============================================================================
