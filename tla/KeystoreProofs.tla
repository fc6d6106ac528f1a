--------------------------- MODULE KeystoreProofs ---------------------------
(***************************************************************************)
(* Theorems about Keystore, for any number of stores, keys, texts,         *)
(* passwords and operations.                                               *)
(***************************************************************************)
EXTENDS Keystore, TLAPS

(***************************************************************************)
(* Deriving keys.                                                          *)
(***************************************************************************)
\* A key can be derived from a text exactly if the text is no bad one.
LEMMA DerivedKeys ==
  ASSUME NEW c \in Schemes, NEW s \in Texts, NEW p \in PasswordsOpt
  PROVE  /\ s = BadText => from_string(c, s, p) = NoPublic
         /\ s # BadText =>
              /\ from_string(c, s, p) \in Publics
              /\ from_string(c, s, p) # NoPublic
              /\ from_string(c, s, p)[1] = c
              /\ from_string(c, s, p)[2] = s
  <1>1. s # BadText => from_string(c, s, p) \in Publics
    BY DEF Publics
  <1> QED
    BY <1>1 DEF from_string, NoPublic

\* A public key names its scheme and its text, and is no NoPublic.
LEMMA PublicsFacts ==
  ASSUME NEW q \in Publics
  PROVE  /\ q # NoPublic
         /\ q[1] \in Schemes
         /\ q[2] \in Texts \ {BadText}
         /\ q[3] \in PasswordsOpt
         /\ q = from_string(q[1], q[2], q[3])
  <1>1. PICK c \in Schemes, s \in Texts \ {BadText}, p \in PasswordsOpt :
          q = from_string(c, s, p)
    BY DEF Publics
  <1>2. NoPassword \in PasswordsOpt
    BY DEF PasswordsOpt
  <1> QED
    BY <1>1, <1>2 DEF from_string, NoPublic

\* A phrase that was drawn gives a key of the store.
LEMMA PhrasesAreTexts == Phrases \subseteq Texts \ {BadText}
  BY KeystoreAssumption DEF Texts

(***************************************************************************)
(* Type correctness.                                                       *)
(***************************************************************************)
LEMMA InitType == Init => TypeOK
  BY DEF Init, TypeOK, Absent, Closed, PasswordsOpt, Files, LocalKeystores

\* A writer at a step of write_to_file is a write in progress.
LEMMA WriterFacts ==
  ASSUME TypeOK, NEW i \in Stores
  PROVE  /\ writer[i] # NoWriter <=> writer[i].step # "none"
         /\ writer[i] # NoWriter <=> writer[i] \in Writes
  <1>1. writer[i] \in {NoWriter} \cup Writes
    BY DEF TypeOK
  <1>2. \A w \in Writes : w.step # "none"
    BY DEF Writes
  <1>3. NoWriter.step = "none"
    BY DEF NoWriter
  <1> QED
    BY <1>1, <1>2, <1>3

\* The steps of write_to_file keep the types.
LEMMA WriterStepType ==
  ASSUME TypeOK, NEW i \in Stores,
         NEW step \in {"create", "chmod", "quote", "text", "unquote", "flush"},
         NEW next \in {"create", "chmod", "quote", "text", "unquote", "flush"},
         WriterStep(i, step, next),
         dir' \in [Keys -> Files]
  PROVE  TypeOK'
  <1>1. writer[i] \in Writes
    BY WriterFacts DEF WriterStep
  <1>2. writer' \in [Stores -> {NoWriter} \cup Writes]
    BY <1>1 DEF WriterStep, TypeOK, Writes
  <1> QED
    BY <1>2 DEF WriterStep, TypeOK, histVars

\* The memory of a store after HashMap::insert.
LEMMA InsertEphemeralType ==
  ASSUME TypeOK, NEW i \in Stores, NEW k \in Keys, NEW s \in Texts,
         insert_ephemeral_pair(i, k, s)
  PROVE  store' \in [Stores -> LocalKeystores]
  BY DEF TypeOK, insert_ephemeral_pair, get_additional_pair, LocalKeystores

\* A write begins.
LEMMA StartWriteType ==
  ASSUME TypeOK, NEW i \in Stores, NEW k \in Keys, NEW s \in Texts,
         NEW op \in {"generate", "insert"}, StartWrite(i, k, s, op)
  PROVE  /\ writer' \in [Stores -> {NoWriter} \cup Writes]
         /\ written' \subseteq Keys \X Texts \X {"generate", "insert"}
  BY DEF TypeOK, StartWrite, Writes

\* The key that a drawn phrase gives is a key of the store.
LEMMA GeneratedKeyType ==
  ASSUME TypeOK, NEW i \in Stores, NEW c \in Schemes, NEW t \in KeyTypes, NEW s \in Phrases
  PROVE  [type |-> t, public |-> from_string(c, s, store[i].password)] \in Keys
  <1>1. store[i].password \in PasswordsOpt
    BY DEF TypeOK, LocalKeystores
  <1>2. s \in Texts /\ s # BadText
    BY PhrasesAreTexts
  <1>3. from_string(c, s, store[i].password) \in Publics
    BY <1>1, <1>2, DerivedKeys
  <1> QED
    BY <1>3 DEF Keys

LEMMA NextType == TypeOK /\ [Next]_vars => TypeOK'
  <1> SUFFICES ASSUME TypeOK, [Next]_vars PROVE TypeOK'
    OBVIOUS
  <1>0. ASSUME NEW i \in Stores PROVE writer[i] # NoWriter => writer[i] \in Writes
    BY WriterFacts
  <1>1. ASSUME NEW i \in Stores, NEW p \in PasswordsOpt, open(i, p) \/ in_memory(i)
        PROVE  TypeOK'
    <2>1. store' \in [Stores -> LocalKeystores]
      <3>1. NoPassword \in PasswordsOpt
        BY DEF PasswordsOpt
      <3>2. \A b \in BOOLEAN, q \in PasswordsOpt :
              [open |-> TRUE, path |-> b, password |-> q, additional |-> {}] \in LocalKeystores
        BY DEF LocalKeystores
      <3> QED
        BY <1>1, <3>1, <3>2 DEF open, in_memory, TypeOK
    <2> QED
      BY <1>1, <2>1 DEF open, in_memory, TypeOK, histVars
  <1>2. ASSUME NEW i \in Stores, NEW c \in Schemes, NEW t \in KeyTypes, NEW s \in Phrases,
               generate_by_type(i, c, t, s)
        PROVE  TypeOK'
    <2> DEFINE k == [type |-> t, public |-> from_string(c, s, store[i].password)]
    <2>1. k \in Keys /\ s \in Texts
      BY GeneratedKeyType, PhrasesAreTexts
    <2>2. /\ \/ StartWrite(i, k, s, "generate") /\ UNCHANGED store
             \/ insert_ephemeral_pair(i, k, s) /\ UNCHANGED <<writer, written>>
          /\ ops' = ops + 1 /\ used' = used \cup {s}
          /\ UNCHANGED <<dir, generated, interrupted>>
      BY <1>2 DEF generate_by_type, BeginOp
    <2> HIDE DEF k
    <2>3. CASE StartWrite(i, k, s, "generate") /\ UNCHANGED store
      BY <2>1, <2>2, <2>3, StartWriteType DEF TypeOK
    <2>4. CASE insert_ephemeral_pair(i, k, s) /\ UNCHANGED <<writer, written>>
      BY <2>1, <2>2, <2>4, InsertEphemeralType DEF TypeOK
    <2> QED
      BY <2>2, <2>3, <2>4
  <1>3. ASSUME NEW i \in Stores, NEW k \in Keys, NEW s \in Texts, insert_unknown(i, k, s)
        PROVE  TypeOK'
    <2>1. /\ StartWrite(i, k, s, "insert") \/ UNCHANGED <<writer, written>>
          /\ ops' = ops + 1
          /\ UNCHANGED <<dir, store, generated, interrupted, used>>
      BY <1>3 DEF insert_unknown, BeginOp
    <2>2. CASE StartWrite(i, k, s, "insert")
      BY <2>1, <2>2, StartWriteType DEF TypeOK
    <2>3. CASE UNCHANGED <<writer, written>>
      BY <2>1, <2>3 DEF TypeOK
    <2> QED
      BY <2>1, <2>2, <2>3
  <1>4. ASSUME NEW i \in Stores, NEW c \in Schemes, NEW t \in KeyTypes, NEW s \in Texts,
               insert_ephemeral_from_seed_by_type(i, c, t, s)
        PROVE  TypeOK'
    <2> DEFINE public == from_string(c, s, NoPassword)
               k == [type |-> t, public |-> public]
    <2>1. public = NoPublic \/ k \in Keys
      <3>1. NoPassword \in PasswordsOpt
        BY DEF PasswordsOpt
      <3>2. public = NoPublic \/ public \in Publics
        BY <3>1, DerivedKeys
      <3> QED
        BY <3>2 DEF Keys
    <2>2. /\ \/ UNCHANGED store
             \/ public # NoPublic /\ insert_ephemeral_pair(i, k, s)
          /\ ops' = ops + 1
          /\ UNCHANGED <<dir, writer, histVars>>
      BY <1>4 DEF insert_ephemeral_from_seed_by_type, BeginOp
    <2> HIDE DEF public, k
    <2>3. store' \in [Stores -> LocalKeystores]
      BY <2>1, <2>2, InsertEphemeralType DEF TypeOK
    <2> QED
      BY <2>2, <2>3 DEF TypeOK, histVars
  <1>5. ASSUME NEW i \in Stores, create(i) PROVE TypeOK'
    <2>1. dir' \in [Keys -> Files]
      BY <1>5 DEF create, TypeOK, Files
    <2> QED
      BY <1>5, <2>1, WriterStepType DEF create
  <1>6. ASSUME NEW i \in Stores, set_permissions(i) PROVE TypeOK'
    <2>1. dir' \in [Keys -> Files]
      BY <1>6 DEF set_permissions, TypeOK, Files
    <2> QED
      BY <1>6, <2>1, WriterStepType DEF set_permissions
  <1>7. ASSUME NEW i \in Stores, to_writer(i) PROVE TypeOK'
    <2>1. ASSUME NEW n \in Pieces, WritePiece(i, n), writer[i] # NoWriter
          PROVE  dir' \in [Keys -> Files]
      <3>1. writer[i].text \in Texts
        BY <1>0, <2>1 DEF Writes
      <3> QED
        <4>1. \A f \in Files :
                [f EXCEPT !.bytes = @ \cup {<<writer[i].text, n>>}] \in Files
          BY <3>1 DEF Files
        <4> QED
          BY <2>1, <4>1 DEF WritePiece, TypeOK
    <2>2. writer[i] # NoWriter
      BY <1>7, WriterFacts DEF to_writer, WriterStep
    <2>3. 1 \in Pieces /\ 2 \in Pieces /\ 3 \in Pieces
      BY DEF Pieces
    <2> QED
      BY <1>7, <2>1, <2>2, <2>3, WriterStepType DEF to_writer
  <1>8. ASSUME NEW i \in Stores, flush(i) PROVE TypeOK'
    <2>1. writer[i] \in Writes
      BY <1>8, WriterFacts DEF flush
    <2> QED
      BY <1>8, <2>1 DEF flush, TypeOK, Writes
  <1>9. ASSUME NEW i \in Stores, Interrupt(i),
               store' \in [Stores -> LocalKeystores]
        PROVE  TypeOK'
    BY <1>0, <1>9 DEF Interrupt, TypeOK, Writes
  <1>10. ASSUME NEW i \in Stores, write_fails(i) \/ Crash(i) PROVE TypeOK'
    <2>1. store' \in [Stores -> LocalKeystores]
      <3>1. Closed \in LocalKeystores
        BY DEF Closed, PasswordsOpt, LocalKeystores
      <3> QED
        BY <1>10, <3>1 DEF write_fails, Crash, TypeOK
    <2> QED
      BY <1>9, <1>10, <2>1 DEF write_fails, Crash
  <1>11. CASE UNCHANGED vars
    BY <1>11 DEF vars, TypeOK
  <1>12. NoPassword \in PasswordsOpt
    BY DEF PasswordsOpt
  <1> QED
    BY <1>1, <1>2, <1>3, <1>4, <1>5, <1>6, <1>7, <1>8, <1>10, <1>11, <1>12 DEF Next

\* Every file, store and write in progress keeps its type, whatever the
\* stores do in whatever order.
THEOREM TypeCorrect == Spec => []TypeOK
  BY InitType, NextType, PTL DEF Spec

(***************************************************************************)
(* The files.  What a step does to them and to the writes in progress.     *)
(***************************************************************************)
fileVars == <<dir, writer, generated, written, interrupted>>

\* A write of text s for key k begins; a generated key is named by its text,
\* which no earlier draw gave.
Begins(i, k, s, op) ==
  /\ writer[i] = NoWriter
  /\ StartWrite(i, k, s, op)
  /\ op = "generate" => s = k.public[2] /\ s \notin used /\ used' = used \cup {s}
  /\ op = "insert" => used' = used
  /\ UNCHANGED <<dir, generated, interrupted>>

FileStep ==
  \/ UNCHANGED fileVars /\ used \subseteq used'
  \/ \E i \in Stores :
       \/ \E k \in Keys, s \in Texts, op \in {"generate", "insert"} : Begins(i, k, s, op)
       \/ create(i)
       \/ set_permissions(i)
       \/ to_writer(i)
       \/ flush(i)
       \/ writer[i] # NoWriter /\ Interrupt(i)

LEMMA NextFiles == TypeOK /\ [Next]_vars => FileStep
  <1> SUFFICES ASSUME TypeOK, [Next]_vars PROVE FileStep
    OBVIOUS
  <1>1. ASSUME NEW i \in Stores, NEW c \in Schemes, NEW t \in KeyTypes, NEW s \in Phrases,
               generate_by_type(i, c, t, s)
        PROVE  FileStep
    <2> DEFINE k == [type |-> t, public |-> from_string(c, s, store[i].password)]
    <2>1. k \in Keys /\ s \in Texts
      BY GeneratedKeyType, PhrasesAreTexts
    <2>2. k.public[2] = s
      <3>1. store[i].password \in PasswordsOpt
        BY DEF TypeOK, LocalKeystores
      <3> QED
        BY <2>1, <3>1, DerivedKeys, PhrasesAreTexts
    <2>3. /\ s \notin used /\ used' = used \cup {s} /\ writer[i] = NoWriter
          /\ UNCHANGED <<dir, generated, interrupted>>
          /\ \/ StartWrite(i, k, s, "generate")
             \/ UNCHANGED <<writer, written>>
      BY <1>1 DEF generate_by_type, BeginOp
    <2> HIDE DEF k
    <2>4. CASE StartWrite(i, k, s, "generate")
      <3>1. Begins(i, k, s, "generate")
        BY <2>2, <2>3, <2>4 DEF Begins
      <3> QED
        BY <2>1, <3>1 DEF FileStep
    <2>5. CASE UNCHANGED <<writer, written>>
      BY <2>3, <2>5 DEF FileStep, fileVars
    <2> QED
      BY <2>3, <2>4, <2>5
  <1>2. ASSUME NEW i \in Stores, NEW k \in Keys, NEW s \in Texts, insert_unknown(i, k, s)
        PROVE  FileStep
    <2>1. /\ writer[i] = NoWriter
          /\ UNCHANGED <<dir, generated, interrupted, used>>
          /\ \/ StartWrite(i, k, s, "insert")
             \/ UNCHANGED <<writer, written>>
      BY <1>2 DEF insert_unknown, BeginOp
    <2>2. CASE StartWrite(i, k, s, "insert")
      <3>1. Begins(i, k, s, "insert")
        BY <2>1, <2>2 DEF Begins
      <3> QED
        BY <3>1 DEF FileStep
    <2>3. CASE UNCHANGED <<writer, written>>
      BY <2>1, <2>3 DEF FileStep, fileVars
    <2> QED
      BY <2>1, <2>2, <2>3
  <1>3. ASSUME NEW i \in Stores, NEW c \in Schemes, NEW t \in KeyTypes, NEW s \in Texts,
               insert_ephemeral_from_seed_by_type(i, c, t, s)
        PROVE  FileStep
    BY <1>3 DEF insert_ephemeral_from_seed_by_type, FileStep, fileVars, histVars
  <1>4. ASSUME NEW i \in Stores, NEW p \in PasswordsOpt, open(i, p) \/ in_memory(i)
        PROVE  FileStep
    BY <1>4 DEF open, in_memory, FileStep, fileVars, histVars
  <1>5. ASSUME NEW i \in Stores, write_fails(i) \/ Crash(i)
        PROVE  FileStep
    <2>1. Interrupt(i)
      BY <1>5 DEF write_fails, Crash
    <2>2. CASE writer[i] = NoWriter
      <3>1. writer' = writer
        BY <2>1, <2>2 DEF Interrupt, TypeOK
      <3> QED
        BY <2>1, <2>2, <3>1 DEF Interrupt, FileStep, fileVars
    <2>3. CASE writer[i] # NoWriter
      BY <2>1, <2>3 DEF FileStep
    <2> QED
      BY <2>2, <2>3
  <1>6. CASE UNCHANGED vars
    BY <1>6 DEF vars, FileStep, fileVars
  <1>7. NoPassword \in PasswordsOpt
    BY DEF PasswordsOpt
  <1>8. ASSUME NEW i \in Stores,
               create(i) \/ set_permissions(i) \/ to_writer(i) \/ flush(i)
        PROVE  FileStep
    BY <1>8 DEF FileStep
  <1> QED
    BY <1>1, <1>2, <1>3, <1>4, <1>5, <1>6, <1>7, <1>8 DEF Next

\* The writer of store i goes on to a next step, and touches no other file.
Touches(i, next) ==
  /\ writer[i] \in Writes /\ writer'[i] \in Writes
  /\ writer'[i].step = next
  /\ writer'[i].key = writer[i].key
  /\ writer'[i].text = writer[i].text
  /\ writer'[i].op = writer[i].op
  /\ \A j \in Stores \ {i} : writer'[j] = writer[j]
  /\ \A l \in Keys \ {writer[i].key} : dir'[l] = dir[l]
  /\ UNCHANGED <<generated, written, interrupted, used>>

LEMMA WritesFields ==
  ASSUME NEW w \in Writes
  PROVE  w.key \in Keys /\ w.text \in Texts /\ w.op \in {"generate", "insert"}
  BY DEF Writes

LEMMA WriterStepTouches ==
  ASSUME TypeOK, NEW i \in Stores,
         NEW step \in {"create", "chmod", "quote", "text", "unquote", "flush"},
         NEW next \in {"create", "chmod", "quote", "text", "unquote", "flush"},
         WriterStep(i, step, next),
         \A l \in Keys \ {writer[i].key} : dir'[l] = dir[l]
  PROVE  Touches(i, next)
  <1>1. writer[i] \in Writes
    BY WriterFacts DEF WriterStep
  <1>2. writer' = [writer EXCEPT ![i] = [writer[i] EXCEPT !.step = next]]
    BY <1>1 DEF WriterStep, TypeOK
  <1>3. /\ writer'[i] = [writer[i] EXCEPT !.step = next]
        /\ \A j \in Stores \ {i} : writer'[j] = writer[j]
    BY <1>2 DEF TypeOK
  <1>4. /\ writer'[i] \in Writes
        /\ writer'[i].step = next
        /\ writer'[i].key = writer[i].key
        /\ writer'[i].text = writer[i].text
        /\ writer'[i].op = writer[i].op
    BY <1>1, <1>3 DEF Writes
  <1> QED
    BY <1>1, <1>3, <1>4 DEF Touches, WriterStep, histVars

LEMMA CreateFacts ==
  ASSUME TypeOK, NEW i \in Stores, create(i)
  PROVE  /\ Touches(i, "chmod") /\ writer[i].step = "create"
         /\ dir'[writer[i].key].exists
         /\ dir'[writer[i].key].bytes = {}
         /\ dir'[writer[i].key].mode = dir[writer[i].key].mode
  <1>1. writer[i] \in Writes /\ writer[i].key \in Keys /\ writer[i].step = "create"
    BY WriterFacts, WritesFields DEF create, WriterStep
  <1>2. dir[writer[i].key] \in Files
    BY <1>1 DEF TypeOK
  <1>3. /\ dir'[writer[i].key] = [dir[writer[i].key] EXCEPT !.exists = TRUE, !.bytes = {}]
        /\ \A l \in Keys \ {writer[i].key} : dir'[l] = dir[l]
    BY <1>1 DEF create, TypeOK
  <1>4. Touches(i, "chmod")
    BY <1>3, WriterStepTouches DEF create
  <1> QED
    BY <1>1, <1>2, <1>3, <1>4 DEF Files

LEMMA SetPermissionsFacts ==
  ASSUME TypeOK, NEW i \in Stores, set_permissions(i)
  PROVE  /\ Touches(i, "quote") /\ writer[i].step = "chmod"
         /\ dir'[writer[i].key].exists = dir[writer[i].key].exists
         /\ dir'[writer[i].key].bytes = dir[writer[i].key].bytes
         /\ dir'[writer[i].key].mode = "0600"
  <1>1. writer[i] \in Writes /\ writer[i].key \in Keys /\ writer[i].step = "chmod"
    BY WriterFacts, WritesFields DEF set_permissions, WriterStep
  <1>2. dir[writer[i].key] \in Files
    BY <1>1 DEF TypeOK
  <1>3. /\ dir'[writer[i].key] = [dir[writer[i].key] EXCEPT !.mode = "0600"]
        /\ \A l \in Keys \ {writer[i].key} : dir'[l] = dir[l]
    BY <1>1 DEF set_permissions, TypeOK
  <1>4. Touches(i, "quote")
    BY <1>3, WriterStepTouches DEF set_permissions
  <1> QED
    BY <1>1, <1>2, <1>3, <1>4 DEF Files

\* A piece of the JSON string goes into the file.
PieceStep(i, n, step, next) ==
  /\ writer[i].step = step
  /\ Touches(i, next)
  /\ dir'[writer[i].key].exists = dir[writer[i].key].exists
  /\ dir'[writer[i].key].mode = dir[writer[i].key].mode
  /\ dir'[writer[i].key].bytes = dir[writer[i].key].bytes \cup {<<writer[i].text, n>>}

LEMMA ToWriterFacts ==
  ASSUME TypeOK, NEW i \in Stores, to_writer(i)
  PROVE  \/ PieceStep(i, 1, "quote", "text")
         \/ PieceStep(i, 2, "text", "unquote")
         \/ PieceStep(i, 3, "unquote", "flush")
  <1>1. writer[i] \in Writes /\ writer[i].key \in Keys
    BY WriterFacts, WritesFields DEF to_writer, WriterStep
  <1>2. dir[writer[i].key] \in Files
    BY <1>1 DEF TypeOK
  <1>3. ASSUME NEW n \in 1..3, WritePiece(i, n)
        PROVE  /\ dir'[writer[i].key] =
                    [dir[writer[i].key] EXCEPT !.bytes = @ \cup {<<writer[i].text, n>>}]
               /\ \A l \in Keys \ {writer[i].key} : dir'[l] = dir[l]
    BY <1>1, <1>3 DEF WritePiece, TypeOK
  <1>4. ASSUME NEW n \in 1..3, WritePiece(i, n),
               NEW step \in {"create", "chmod", "quote", "text", "unquote", "flush"},
               NEW next \in {"create", "chmod", "quote", "text", "unquote", "flush"},
               WriterStep(i, step, next)
        PROVE  PieceStep(i, n, step, next)
    <2>1. Touches(i, next)
      BY <1>3, <1>4, WriterStepTouches
    <2>2. writer[i].step = step
      BY <1>4 DEF WriterStep
    <2>3. /\ dir'[writer[i].key].exists = dir[writer[i].key].exists
          /\ dir'[writer[i].key].mode = dir[writer[i].key].mode
          /\ dir'[writer[i].key].bytes = dir[writer[i].key].bytes \cup {<<writer[i].text, n>>}
      BY <1>2, <1>3, <1>4 DEF Files
    <2> QED
      BY <2>1, <2>2, <2>3 DEF PieceStep
  <1> QED
    BY <1>4 DEF to_writer

(***************************************************************************)
(* Secrets are private: the mode of a file is set before the first piece,  *)
(* and a create leaves it as it is.                                        *)
(***************************************************************************)
PrivateInv ==
  /\ \A k \in Keys : dir[k].bytes # {} => dir[k].mode = "0600"
  /\ \A i \in Stores :
       writer[i] \in Writes /\ writer[i].step \in {"quote", "text", "unquote", "flush"}
         => dir[writer[i].key].mode = "0600"

LEMMA NextPrivate == TypeOK /\ PrivateInv /\ [Next]_vars => PrivateInv'
  <1> SUFFICES ASSUME TypeOK, PrivateInv, FileStep PROVE PrivateInv'
    BY NextFiles
  <1>0. NoWriter \notin Writes
    BY DEF NoWriter, Writes
  <1>1. CASE UNCHANGED fileVars
    BY <1>1 DEF fileVars, PrivateInv
  <1>2. ASSUME NEW i \in Stores, UNCHANGED dir,
               writer'[i].step = "create" \/ writer'[i] = NoWriter,
               \A j \in Stores \ {i} : writer'[j] = writer[j]
        PROVE  PrivateInv'
    BY <1>0, <1>2 DEF PrivateInv
  <1>3. ASSUME NEW i \in Stores, NEW k \in Keys, NEW s \in Texts, NEW op, Begins(i, k, s, op)
        PROVE  PrivateInv'
    <2>1. /\ writer'[i].step = "create" /\ UNCHANGED dir
          /\ \A j \in Stores \ {i} : writer'[j] = writer[j]
      BY <1>3 DEF Begins, StartWrite, TypeOK
    <2> QED
      BY <1>2, <2>1
  <1>4. ASSUME NEW i \in Stores, NEW next, Touches(i, next),
               dir[writer[i].key].mode = "0600" => dir'[writer[i].key].mode = "0600",
               dir'[writer[i].key].bytes # {} => dir'[writer[i].key].mode = "0600",
               next # "chmod" => dir'[writer[i].key].mode = "0600"
        PROVE  PrivateInv'
    <2>1. writer[i].key \in Keys /\ \A j \in Stores : writer[j] \in Writes => writer[j].key \in Keys
      BY <1>4, WritesFields DEF Touches
    <2>2. \A l \in Keys : dir[l].mode = "0600" => dir'[l].mode = "0600"
      BY <1>4 DEF Touches
    <2>3. ASSUME NEW k \in Keys PROVE dir'[k].bytes # {} => dir'[k].mode = "0600"
      BY <1>4, <2>1 DEF Touches, PrivateInv
    <2>4. ASSUME NEW j \in Stores, writer'[j] \in Writes,
                 writer'[j].step \in {"quote", "text", "unquote", "flush"}
          PROVE  dir'[writer'[j].key].mode = "0600"
      <3>1. CASE j = i
        BY <1>4, <2>4, <3>1 DEF Touches
      <3>2. CASE j # i
        BY <1>4, <2>1, <2>2, <2>4, <3>2 DEF Touches, PrivateInv
      <3> QED
        BY <3>1, <3>2
    <2> QED
      BY <2>3, <2>4 DEF PrivateInv
  <1>5. ASSUME NEW i \in Stores, create(i) PROVE PrivateInv'
    BY <1>4, <1>5, CreateFacts
  <1>6. ASSUME NEW i \in Stores, set_permissions(i) PROVE PrivateInv'
    BY <1>4, <1>6, SetPermissionsFacts
  <1>7. ASSUME NEW i \in Stores, NEW n,
               NEW step \in {"quote", "text", "unquote", "flush"}, NEW next,
               PieceStep(i, n, step, next)
        PROVE  PrivateInv'
    <2>1. dir[writer[i].key].mode = "0600" /\ dir'[writer[i].key].mode = "0600"
      BY <1>7 DEF PieceStep, Touches, PrivateInv
    <2> QED
      BY <1>4, <1>7, <2>1 DEF PieceStep
  <1>8. ASSUME NEW i \in Stores, to_writer(i) PROVE PrivateInv'
    BY <1>7, <1>8, ToWriterFacts
  <1>9. ASSUME NEW i \in Stores, flush(i) \/ Interrupt(i) PROVE PrivateInv'
    <2>1. /\ writer'[i] = NoWriter /\ UNCHANGED dir
          /\ \A j \in Stores \ {i} : writer'[j] = writer[j]
      BY <1>9 DEF flush, Interrupt, TypeOK
    <2> QED
      BY <1>2, <2>1
  <1> QED
    BY <1>1, <1>3, <1>5, <1>6, <1>8, <1>9 DEF FileStep

\* No part of a secret is ever in a file that others may read, however many
\* stores write it (write_to_file: set_permissions precedes to_writer).
THEOREM Privacy == Spec => []SecretsArePrivate
  <1>1. Init => PrivateInv
    <2>1. NoWriter \notin Writes
      BY DEF NoWriter, Writes
    <2> QED
      BY <2>1 DEF Init, PrivateInv, Absent
  <1>2. TypeOK /\ PrivateInv => SecretsArePrivate
    BY DEF PrivateInv, SecretsArePrivate
  <1> QED
    BY <1>1, <1>2, TypeCorrect, NextPrivate, PTL DEF Spec

(***************************************************************************)
(* What is in the files comes from the writes that were begun, and a text  *)
(* that generate has written is the one its key is derived from.           *)
(***************************************************************************)
WrittenInv ==
  /\ \A i \in Stores : writer[i] # NoWriter =>
       <<writer[i].key, writer[i].text, writer[i].op>> \in written
  /\ \A k \in Keys : \A b \in dir[k].bytes : \E w \in written : w[1] = k /\ w[2] = b[1]
  /\ \A w \in written : w[3] = "generate" => w[2] = w[1].public[2] /\ w[2] \in used

LEMMA BeginsFacts ==
  ASSUME TypeOK, NEW i \in Stores, NEW k \in Keys, NEW s \in Texts,
         NEW op \in {"generate", "insert"}, Begins(i, k, s, op)
  PROVE  /\ writer[i] = NoWriter /\ writer'[i] # NoWriter
         /\ writer'[i].step = "create"
         /\ writer'[i].key = k /\ writer'[i].text = s /\ writer'[i].op = op
         /\ \A j \in Stores \ {i} : writer'[j] = writer[j]
         /\ written' = written \cup {<<k, s, op>>}
         /\ used \subseteq used'
         /\ op = "generate" => s = k.public[2] /\ s \notin used /\ s \in used'
         /\ UNCHANGED <<dir, generated, interrupted>>
  BY DEF Begins, StartWrite, TypeOK, NoWriter

\* flush and an interruption end the write of store i.
LEMMA EndFacts ==
  ASSUME TypeOK, NEW i \in Stores, flush(i) \/ Interrupt(i)
  PROVE  /\ writer'[i] = NoWriter
         /\ \A j \in Stores \ {i} : writer'[j] = writer[j]
         /\ UNCHANGED <<dir, written, used>>
  BY DEF flush, Interrupt, TypeOK

LEMMA NextWritten == TypeOK /\ WrittenInv /\ [Next]_vars => WrittenInv'
  <1> SUFFICES ASSUME TypeOK, WrittenInv, FileStep PROVE WrittenInv'
    BY NextFiles
  <1>1. CASE UNCHANGED fileVars /\ used \subseteq used'
    BY <1>1 DEF fileVars, WrittenInv
  <1>2. ASSUME NEW i \in Stores, NEW k \in Keys, NEW s \in Texts,
               NEW op \in {"generate", "insert"}, Begins(i, k, s, op)
        PROVE  WrittenInv'
    <2>1. ASSUME NEW j \in Stores, writer'[j] # NoWriter
          PROVE  <<writer'[j].key, writer'[j].text, writer'[j].op>> \in written'
      <3>1. CASE j = i
        BY <1>2, <3>1, BeginsFacts
      <3>2. CASE j # i
        <4>1. writer'[j] = writer[j] /\ written \subseteq written'
          BY <1>2, <3>2, BeginsFacts
        <4> QED
          BY <2>1, <4>1 DEF WrittenInv
      <3> QED
        BY <3>1, <3>2
    <2>2. UNCHANGED dir /\ written \subseteq written'
      BY <1>2, BeginsFacts
    <2>3. \A l \in Keys : \A b \in dir'[l].bytes : \E w \in written' : w[1] = l /\ w[2] = b[1]
      BY <2>2 DEF WrittenInv
    <2>4. ASSUME NEW w \in written', w[3] = "generate"
          PROVE  w[2] = w[1].public[2] /\ w[2] \in used'
      <3>1. CASE w \in written
        <4>1. used \subseteq used'
          BY <1>2, BeginsFacts
        <4> QED
          BY <2>4, <3>1, <4>1 DEF WrittenInv
      <3>2. CASE w = <<k, s, op>>
        <4>1. op = "generate"
          BY <2>4, <3>2
        <4> QED
          BY <1>2, <3>2, <4>1, BeginsFacts
      <3> QED
        BY <1>2, <3>1, <3>2, BeginsFacts
    <2> QED
      BY <2>1, <2>3, <2>4 DEF WrittenInv
  <1>3. ASSUME NEW i \in Stores, NEW next, Touches(i, next),
               NEW n, dir'[writer[i].key].bytes
                        \subseteq dir[writer[i].key].bytes \cup {<<writer[i].text, n>>}
        PROVE  WrittenInv'
    <2>1. writer[i] \in Writes /\ writer[i] # NoWriter /\ writer[i].key \in Keys
          /\ UNCHANGED <<written, used>>
      BY <1>3, WriterFacts, WritesFields DEF Touches
    <2>2. <<writer[i].key, writer[i].text, writer[i].op>> \in written
      BY <2>1 DEF WrittenInv
    <2>3. ASSUME NEW j \in Stores, writer'[j] # NoWriter
          PROVE  <<writer'[j].key, writer'[j].text, writer'[j].op>> \in written'
      <3>1. CASE j = i
        BY <1>3, <2>1, <2>2, <3>1 DEF Touches
      <3>2. CASE j # i
        BY <1>3, <2>1, <2>3, <3>2 DEF Touches, WrittenInv
      <3> QED
        BY <3>1, <3>2
    <2>4. ASSUME NEW k \in Keys, NEW b \in dir'[k].bytes
          PROVE  \E w \in written : w[1] = k /\ w[2] = b[1]
      <3>1. CASE k # writer[i].key \/ b \in dir[k].bytes
        <4>1. b \in dir[k].bytes
          BY <1>3, <2>4, <3>1 DEF Touches
        <4> QED
          BY <4>1 DEF WrittenInv
      <3>2. CASE k = writer[i].key /\ b = <<writer[i].text, n>>
        <4>1. <<writer[i].key, writer[i].text, writer[i].op>>[1] = k
              /\ <<writer[i].key, writer[i].text, writer[i].op>>[2] = b[1]
          BY <3>2
        <4> QED
          BY <2>2, <4>1
      <3> QED
        BY <1>3, <2>4, <3>1, <3>2
    <2> QED
      BY <2>1, <2>3, <2>4 DEF WrittenInv
  <1>4. ASSUME NEW i \in Stores, create(i) PROVE WrittenInv'
    BY <1>3, <1>4, CreateFacts
  <1>5. ASSUME NEW i \in Stores, set_permissions(i) PROVE WrittenInv'
    BY <1>3, <1>5, SetPermissionsFacts
  <1>6. ASSUME NEW i \in Stores, to_writer(i) PROVE WrittenInv'
    BY <1>3, <1>6, ToWriterFacts DEF PieceStep
  <1>7. ASSUME NEW i \in Stores, flush(i) \/ Interrupt(i) PROVE WrittenInv'
    BY <1>7, EndFacts DEF WrittenInv
  <1> QED
    BY <1>1, <1>2, <1>4, <1>5, <1>6, <1>7 DEF FileStep

(***************************************************************************)
(* A file that was given one text, and whose writes were not interrupted,  *)
(* is whole, or the store that truncated it last is still writing it and   *)
(* everything that store has written since is there.                       *)
(***************************************************************************)
Done(step) ==
  {n \in Pieces : \/ n = 1 /\ step \in {"text", "unquote", "flush"}
                  \/ n = 2 /\ step \in {"unquote", "flush"}
                  \/ n = 3 /\ step = "flush"}

OneText(k) == \A v, w \in written : v[1] = k /\ w[1] = k => v[2] = w[2]

\* Store i is past the create of the file of k, and its pieces are there.
Refills(i, k) ==
  /\ writer[i] # NoWriter
  /\ writer[i].key = k
  /\ writer[i].step # "create"
  /\ \A n \in Done(writer[i].step) : <<writer[i].text, n>> \in dir[k].bytes

WholeInv ==
  \A k \in Keys : dir[k].exists /\ k \notin interrupted /\ OneText(k) =>
    \/ \E t \in Texts : dir[k].bytes = Whole(t)
    \/ \E i \in Stores : Refills(i, k)

\* The text of a writer is the one text of its file, and nothing else is in it.
LEMMA OneTextFacts ==
  ASSUME TypeOK, WrittenInv, NEW i \in Stores, writer[i] # NoWriter, OneText(writer[i].key)
  PROVE  /\ dir[writer[i].key].bytes \subseteq Whole(writer[i].text)
         /\ \A t \in Texts : dir[writer[i].key].bytes = Whole(t) => t = writer[i].text
  <1> DEFINE k == writer[i].key
             x == <<writer[i].key, writer[i].text, writer[i].op>>
  <1>1. k \in Keys /\ dir[k].bytes \subseteq Texts \X Pieces
    BY WriterFacts, WritesFields DEF TypeOK, Files
  <1>2. x \in written /\ x[1] = k /\ x[2] = writer[i].text
    BY DEF WrittenInv
  <1>3. ASSUME NEW b \in dir[k].bytes PROVE b[1] = writer[i].text
    <2>1. PICK w \in written : w[1] = k /\ w[2] = b[1]
      BY <1>1 DEF WrittenInv
    <2> QED
      BY <1>2, <2>1 DEF OneText
  <1>4. ASSUME NEW t \in Texts, dir[k].bytes = Whole(t) PROVE t = writer[i].text
    <2>1. <<t, 1>> \in dir[k].bytes
      BY <1>4 DEF Whole, Pieces
    <2> QED
      BY <1>3, <2>1
  <1>5. dir[k].bytes \subseteq Whole(writer[i].text)
    BY <1>1, <1>3 DEF Whole
  <1> QED
    BY <1>4, <1>5

LEMMA NextWhole == TypeOK /\ WrittenInv /\ WholeInv /\ [Next]_vars => WholeInv'
  <1> SUFFICES ASSUME TypeOK, WrittenInv, WholeInv, FileStep,
                      NEW k \in Keys, dir'[k].exists, k \notin interrupted', OneText(k)'
               PROVE  \/ \E t \in Texts : dir'[k].bytes = Whole(t)
                      \/ \E i \in Stores : Refills(i, k)'
    BY NextFiles DEF WholeInv
  <1>1. CASE UNCHANGED fileVars
    BY <1>1 DEF fileVars, WholeInv, OneText, Refills
  \* A step of store i that leaves the file as it is and is no end of a refill.
  <1>2. ASSUME NEW i \in Stores, dir'[k] = dir[k], k \notin interrupted, OneText(k),
               ~ Refills(i, k) \/ Refills(i, k)',
               \A j \in Stores \ {i} : writer'[j] = writer[j]
        PROVE  \/ \E t \in Texts : dir'[k].bytes = Whole(t)
               \/ \E j \in Stores : Refills(j, k)'
    <2>1. CASE \E t \in Texts : dir[k].bytes = Whole(t)
      BY <1>2, <2>1
    <2>2. ASSUME NEW j \in Stores, Refills(j, k)
          PROVE  Refills(j, k)'
      <3>1. CASE j = i
        BY <1>2, <2>2, <3>1
      <3>2. CASE j # i
        BY <1>2, <2>2, <3>2 DEF Refills
      <3> QED
        BY <3>1, <3>2
    <2> QED
      BY <1>2, <2>1, <2>2 DEF WholeInv
  <1>3. ASSUME NEW i \in Stores, NEW l \in Keys, NEW s \in Texts,
               NEW op \in {"generate", "insert"}, Begins(i, l, s, op)
        PROVE  \/ \E t \in Texts : dir'[k].bytes = Whole(t)
               \/ \E j \in Stores : Refills(j, k)'
    <2>1. /\ dir' = dir /\ written \subseteq written' /\ interrupted' = interrupted
          /\ ~ Refills(i, k)
          /\ \A j \in Stores \ {i} : writer'[j] = writer[j]
      BY <1>3, BeginsFacts DEF Refills
    <2>2. OneText(k)
      BY <2>1 DEF OneText
    <2> QED
      BY <1>2, <2>1, <2>2
  <1>4. ASSUME NEW i \in Stores, NEW next, Touches(i, next)
        PROVE  /\ k \notin interrupted /\ OneText(k)
               /\ writer[i] # NoWriter /\ writer'[i] # NoWriter
               /\ writer[i].key \in Keys
    <2>1. NoWriter \notin Writes
      BY DEF NoWriter, Writes
    <2> QED
      BY <1>4, <2>1, WritesFields DEF Touches, OneText
  <1>5. ASSUME NEW i \in Stores, NEW next, Touches(i, next), writer[i].key # k
        PROVE  \/ \E t \in Texts : dir'[k].bytes = Whole(t)
               \/ \E j \in Stores : Refills(j, k)'
    <2>1. ~ Refills(i, k) /\ dir'[k] = dir[k]
      BY <1>5 DEF Refills, Touches
    <2> QED
      BY <1>2, <1>4, <1>5, <2>1 DEF Touches
  <1>6. ASSUME NEW i \in Stores, create(i)
        PROVE  \/ \E t \in Texts : dir'[k].bytes = Whole(t)
               \/ \E j \in Stores : Refills(j, k)'
    <2>1. Touches(i, "chmod")
      BY <1>6, CreateFacts
    <2>2. CASE writer[i].key = k
      <3>1. Done("chmod") = {}
        BY DEF Done
      <3>2. Refills(i, k)'
        BY <1>4, <2>1, <2>2, <3>1 DEF Refills, Touches
      <3> QED
        BY <3>2
    <2> QED
      BY <1>5, <2>1, <2>2
  <1>7. ASSUME NEW i \in Stores, set_permissions(i)
        PROVE  \/ \E t \in Texts : dir'[k].bytes = Whole(t)
               \/ \E j \in Stores : Refills(j, k)'
    <2>1. Touches(i, "quote") /\ writer[i].step = "chmod"
      BY <1>7, SetPermissionsFacts
    <2>2. CASE writer[i].key = k
      <3>1. Done("quote") = {}
        BY DEF Done
      <3>2. Refills(i, k)'
        BY <1>4, <2>1, <2>2, <3>1 DEF Refills, Touches
      <3> QED
        BY <3>2
    <2> QED
      BY <1>5, <2>1, <2>2
  <1>8. ASSUME NEW i \in Stores, NEW n \in Pieces, NEW step, NEW next,
               PieceStep(i, n, step, next), step # "create", next # "create",
               Done(next) = Done(step) \cup {n}
        PROVE  \/ \E t \in Texts : dir'[k].bytes = Whole(t)
               \/ \E j \in Stores : Refills(j, k)'
    <2>1. /\ Touches(i, next) /\ writer[i].step = step
          /\ dir'[writer[i].key].exists = dir[writer[i].key].exists
          /\ dir'[writer[i].key].bytes = dir[writer[i].key].bytes \cup {<<writer[i].text, n>>}
      BY <1>8 DEF PieceStep
    <2>2. CASE writer[i].key = k
      <3>1. CASE \E t \in Texts : dir[k].bytes = Whole(t)
        <4>1. dir[k].bytes = Whole(writer[i].text) /\ writer[i].text \in Texts
          BY <1>4, <2>1, <2>2, <3>1, OneTextFacts, WritesFields DEF Touches
        <4>2. dir'[k].bytes = Whole(writer[i].text)
          BY <2>1, <2>2, <4>1 DEF Whole
        <4> QED
          BY <4>1, <4>2
      <3>2. ASSUME NEW j \in Stores, Refills(j, k)
            PROVE  Refills(j, k)'
        <4>1. CASE j = i
          BY <1>4, <1>8, <2>1, <2>2, <3>2, <4>1 DEF Refills, Touches
        <4>2. CASE j # i
          BY <2>1, <2>2, <3>2, <4>2 DEF Refills, Touches
        <4> QED
          BY <4>1, <4>2
      <3> QED
        BY <1>4, <2>1, <2>2, <3>1, <3>2 DEF WholeInv
    <2> QED
      BY <1>5, <2>1, <2>2
  <1>9. ASSUME NEW i \in Stores, to_writer(i)
        PROVE  \/ \E t \in Texts : dir'[k].bytes = Whole(t)
               \/ \E j \in Stores : Refills(j, k)'
    <2>1. /\ 1 \in Pieces /\ 2 \in Pieces /\ 3 \in Pieces
          /\ Done("text") = Done("quote") \cup {1}
          /\ Done("unquote") = Done("text") \cup {2}
          /\ Done("flush") = Done("unquote") \cup {3}
      BY DEF Done, Pieces
    <2> QED
      BY <1>8, <1>9, <2>1, ToWriterFacts
  <1>10. ASSUME NEW i \in Stores, flush(i)
        PROVE  \/ \E t \in Texts : dir'[k].bytes = Whole(t)
               \/ \E j \in Stores : Refills(j, k)'
    <2>1. /\ writer[i].step = "flush" /\ writer'[i] = NoWriter
          /\ UNCHANGED <<dir, written, interrupted>>
          /\ \A j \in Stores \ {i} : writer'[j] = writer[j]
      BY <1>10, EndFacts DEF flush
    <2>2. OneText(k) /\ k \notin interrupted
      BY <2>1 DEF OneText
    <2>3. CASE Refills(i, k)
      <3>1. Done("flush") = Pieces
        BY DEF Done, Pieces
      <3>2. writer[i] # NoWriter /\ writer[i].key = k /\ writer[i].text \in Texts
        BY <2>3, WriterFacts, WritesFields DEF Refills
      <3>3. dir[k].bytes \subseteq Whole(writer[i].text)
        BY <2>2, <3>2, OneTextFacts
      <3>4. Whole(writer[i].text) \subseteq dir[k].bytes
        <4>1. \A n \in Pieces : <<writer[i].text, n>> \in dir[k].bytes
          BY <2>1, <2>3, <3>1 DEF Refills
        <4>2. \A b \in Whole(writer[i].text) : \E n \in Pieces : b = <<writer[i].text, n>>
          BY DEF Whole
        <4> QED
          BY <4>1, <4>2
      <3>5. dir[k].bytes = Whole(writer[i].text)
        BY <3>3, <3>4
      <3>6. dir'[k].bytes = Whole(writer[i].text)
        BY <2>1, <3>5
      <3> QED
        BY <3>2, <3>6
    <2>4. CASE ~ Refills(i, k)
      BY <1>2, <2>1, <2>2, <2>4
    <2> QED
      BY <2>3, <2>4
  <1>11. ASSUME NEW i \in Stores, writer[i] # NoWriter, Interrupt(i)
         PROVE  \/ \E t \in Texts : dir'[k].bytes = Whole(t)
                \/ \E j \in Stores : Refills(j, k)'
    <2>1. /\ interrupted' = interrupted \cup {writer[i].key}
          /\ UNCHANGED <<dir, written>>
          /\ \A j \in Stores \ {i} : writer'[j] = writer[j]
      BY <1>11, EndFacts DEF Interrupt
    <2>2. OneText(k) /\ k \notin interrupted /\ ~ Refills(i, k)
      BY <2>1 DEF OneText, Refills
    <2> QED
      BY <1>2, <2>1, <2>2
  <1> QED
    BY <1>1, <1>3, <1>6, <1>7, <1>9, <1>10, <1>11 DEF FileStep

\* The invariant of the files.
FileInv == TypeOK /\ WrittenInv /\ WholeInv

LEMMA FileInvariance == Spec => []FileInv
  <1>1. Init => FileInv
    <2>1. Init => WrittenInv
      BY DEF Init, WrittenInv, Absent
    <2>2. Init => WholeInv
      BY DEF Init, WholeInv, Absent
    <2> QED
      BY <2>1, <2>2, InitType DEF FileInv
  <1>2. FileInv /\ [Next]_vars => FileInv'
    BY NextType, NextWritten, NextWhole DEF FileInv
  <1> QED
    BY <1>1, <1>2, PTL DEF Spec

\* A file that cannot be read is being written, was left by a write that
\* failed or died, or was given two texts: stores that write one text at once
\* leave it whole, whoever truncates it last (write_to_file).
THEOREM TornFiles == Spec => []TornOnlyIfInterrupted
  <1>1. FileInv => TornOnlyIfInterrupted
    <2> SUFFICES ASSUME FileInv, NEW k \in Keys, dir[k].exists,
                        \A t \in Texts : dir[k].bytes # Whole(t), ~ MaybeTorn(k)
                 PROVE  FALSE
      BY DEF TornOnlyIfInterrupted
    <2>1. k \notin interrupted /\ OneText(k)
      BY DEF MaybeTorn, OneText
    <2>2. \A i \in Stores : ~ Refills(i, k)
      BY DEF MaybeTorn, Refills
    <2> QED
      BY <2>1, <2>2 DEF FileInv, WholeInv
  <1> QED
    BY <1>1, FileInvariance, PTL

(***************************************************************************)
(* Reading.                                                                *)
(***************************************************************************)
\* Where the phrase of a key is found: in memory, or in a whole file.
LEMMA PhraseFacts ==
  ASSUME NEW i, NEW k
  PROVE  /\ key_phrase_by_type(i, k).res = "Some" <=>
              \/ get_additional_pair(i, k) # {}
              \/ /\ store[i].path /\ dir[k].exists
                 /\ \E t \in Texts : dir[k].bytes = Whole(t)
         /\ get_additional_pair(i, k) # {} =>
              \E a \in get_additional_pair(i, k) : key_phrase_by_type(i, k).text = a[2]
         /\ get_additional_pair(i, k) = {} /\ key_phrase_by_type(i, k).res = "Some" =>
              /\ key_phrase_by_type(i, k).text \in Texts
              /\ dir[k].bytes = Whole(key_phrase_by_type(i, k).text)
  <1>1. CASE get_additional_pair(i, k) # {}
    <2> DEFINE a == CHOOSE b \in get_additional_pair(i, k) : TRUE
    <2>1. key_phrase_by_type(i, k) = Text(a[2])
      BY <1>1 DEF key_phrase_by_type
    <2>2. a \in get_additional_pair(i, k)
      BY <1>1
    <2> HIDE DEF a
    <2>3. key_phrase_by_type(i, k).res = "Some" /\ key_phrase_by_type(i, k).text = a[2]
      BY <2>1 DEF Text
    <2> QED
      BY <1>1, <2>2, <2>3
  <1>2. CASE /\ get_additional_pair(i, k) = {} /\ store[i].path /\ dir[k].exists
             /\ \E t \in Texts : dir[k].bytes = Whole(t)
    <2>1. key_phrase_by_type(i, k) = Text(CHOOSE t \in Texts : dir[k].bytes = Whole(t))
      BY <1>2 DEF key_phrase_by_type
    <2> QED
      BY <1>2, <2>1 DEF Text
  <1>3. CASE /\ get_additional_pair(i, k) = {} /\ store[i].path /\ dir[k].exists
             /\ ~ \E t \in Texts : dir[k].bytes = Whole(t)
    <2>1. key_phrase_by_type(i, k) = Fail("Json")
      BY <1>3 DEF key_phrase_by_type
    <2> QED
      BY <1>3, <2>1 DEF Fail
  <1>4. CASE get_additional_pair(i, k) = {} /\ ~ (store[i].path /\ dir[k].exists)
    <2>1. key_phrase_by_type(i, k) = Fail("None")
      BY <1>4 DEF key_phrase_by_type
    <2> QED
      BY <1>4, <2>1 DEF Fail
  <1> QED
    BY <1>1, <1>2, <1>3, <1>4

\* A pair is handed out exactly if the phrase that was found derives the key
\* that was asked for.
LEMMA PairFacts ==
  ASSUME NEW i, NEW c, NEW k \in Keys
  PROVE  /\ key_pair_by_type(i, c, k).res = "Some" =>
              /\ key_phrase_by_type(i, k).res = "Some"
              /\ key_pair_by_type(i, c, k).public = k.public
              /\ from_string(c, key_phrase_by_type(i, k).text, store[i].password) = k.public
         /\ (/\ key_phrase_by_type(i, k).res = "Some"
             /\ from_string(c, key_phrase_by_type(i, k).text, store[i].password) = k.public)
              => key_pair_by_type(i, c, k).res = "Some"
  <1> DEFINE phrase == key_phrase_by_type(i, k)
             public == from_string(c, phrase.text, store[i].password)
  <1>0. k.public # NoPublic
    BY PublicsFacts DEF Keys
  <1>1. CASE phrase.res # "Some"
    <2>1. key_pair_by_type(i, c, k) = NoPair(phrase.res)
      BY <1>1 DEF key_pair_by_type
    <2> QED
      BY <1>1, <2>1 DEF NoPair
  <1>2. CASE phrase.res = "Some" /\ public = NoPublic
    <2>1. key_pair_by_type(i, c, k) = NoPair("InvalidPhrase")
      BY <1>0, <1>2 DEF key_pair_by_type
    <2> QED
      BY <1>0, <1>2, <2>1 DEF NoPair
  <1>3. CASE phrase.res = "Some" /\ public # NoPublic /\ public = k.public
    <2>1. key_pair_by_type(i, c, k) = Pair(public)
      BY <1>3 DEF key_pair_by_type
    <2> QED
      BY <1>3, <2>1 DEF Pair
  <1>4. CASE phrase.res = "Some" /\ public # NoPublic /\ public # k.public
    <2>1. key_pair_by_type(i, c, k) = NoPair("PublicKeyMismatch")
      BY <1>4 DEF key_pair_by_type
    <2> QED
      BY <1>4, <2>1 DEF NoPair
  <1> QED
    BY <1>1, <1>2, <1>3, <1>4

\* A key whose phrase is found is listed.
LEMMA FoundIsListed ==
  ASSUME NEW i \in Stores, NEW t \in KeyTypes, NEW p \in Publics,
         key_phrase_by_type(i, [type |-> t, public |-> p]).res = "Some"
  PROVE  p \in raw_public_keys(i, t)
  <1> DEFINE k == [type |-> t, public |-> p]
  <1>1. k \in Keys /\ k.type = t /\ k.public = p
    BY DEF Keys
  <1> HIDE DEF k
  <1>2. CASE get_additional_pair(i, k) # {}
    <2>1. PICK a \in store[i].additional : a[1] = k
      BY <1>2 DEF get_additional_pair
    <2>2. a \in {b \in store[i].additional : b[1].type = t} /\ a[1].public = p
      BY <1>1, <2>1
    <2> QED
      BY <2>2 DEF raw_public_keys
  <1>3. CASE store[i].path /\ dir[k].exists
    <2>1. k \in {l \in Keys : store[i].path /\ dir[l].exists /\ l.type = t} /\ k.public = p
      BY <1>1, <1>3
    <2> QED
      BY <2>1 DEF raw_public_keys
  <1> QED
    BY <1>2, <1>3, PhraseFacts DEF k

\* What sign_with, sr25519_vrf_sign and ecdsa_sign_prehashed return is signed
\* by the key and in the scheme they were asked for, and that key is listed
\* and found, whatever texts and files the store was given.
THEOREM Signatures == Spec => []SignsAsListed
  <1>1. SignsAsListed
    <2> SUFFICES ASSUME NEW i \in Stores, NEW t \in KeyTypes, NEW c \in Schemes,
                        NEW p \in Publics,
                        NEW signed \in {sign_with(i, t, <<c, p>>), sign_typed(i, t, c, p)},
                        signed.res = "Some"
                 PROVE  /\ signed.public = p
                        /\ p[1] = c
                        /\ supported_keys(i, t, {<<c, p>>}) # {}
                        /\ has_keys(i, {[type |-> t, public |-> p]})
      BY DEF SignsAsListed
    <2> DEFINE k == [type |-> t, public |-> p]
    <2>1. k \in Keys /\ k.public = p
      BY DEF Keys
    <2>2. signed = key_pair_by_type(i, c, k)
      <3>1. sign_with(i, t, <<c, p>>)
              = IF ~ from_slice(c, p) THEN NoPair("Corrupted public key")
                                      ELSE key_pair_by_type(i, c, k)
        BY DEF sign_with
      <3>2. sign_typed(i, t, c, p) = key_pair_by_type(i, c, k)
        BY DEF sign_typed
      <3>3. NoPair("Corrupted public key").res # "Some"
        BY DEF NoPair
      <3> QED
        BY <3>1, <3>2, <3>3
    <2> HIDE DEF k
    <2>3. /\ key_phrase_by_type(i, k).res = "Some"
          /\ signed.public = p
          /\ from_string(c, key_phrase_by_type(i, k).text, store[i].password) = p
      BY <2>1, <2>2, PairFacts
    <2>4. p[1] = c
      BY <2>3, PublicsFacts DEF from_string
    <2>5. p \in raw_public_keys(i, t)
      BY <2>3, FoundIsListed DEF k
    <2>6. <<c, p>> \in supported_keys(i, t, {<<c, p>>})
      BY <2>5 DEF supported_keys, keys
    <2>7. has_keys(i, {k})
      BY <2>3 DEF has_keys
    <2> QED
      BY <2>3, <2>4, <2>6, <2>7 DEF k
  <1> QED
    BY <1>1, PTL

\* A key that is listed for its scheme can be used to sign, unless its file
\* may be torn or a text stored for it does not derive it under the password
\* of the store (public_keys, sign_with).
THEOREM ListedKeys == Spec => []ListedKeySigns
  <1>1. FileInv /\ TornOnlyIfInterrupted => ListedKeySigns
    <2> SUFFICES ASSUME FileInv, TornOnlyIfInterrupted,
                        NEW i \in Stores, NEW t \in KeyTypes, NEW c \in Schemes,
                        NEW p \in public_keys(i, c, t), p[1] = c,
                        ~ MaybeTorn([type |-> t, public |-> p]),
                        \A text \in
                          {a[2] : a \in get_additional_pair(i, [type |-> t, public |-> p])}
                            \cup {w[2] : w \in {v \in written :
                                                  v[1] = [type |-> t, public |-> p]}} :
                          from_string(c, text, store[i].password) = p
                 PROVE  sign_with(i, t, <<c, p>>).res = "Some"
      BY DEF ListedKeySigns
    <2> DEFINE k == [type |-> t, public |-> p]
               phrase == key_phrase_by_type(i, k)
    <2>1. /\ p \in raw_public_keys(i, t)
          /\ from_slice(c, p)
      BY DEF public_keys
    <2>2. \/ get_additional_pair(i, k) # {}
          \/ store[i].path /\ dir[k].exists /\ k \in Keys
      <3>1. CASE \E a \in store[i].additional : a[1].type = t /\ a[1].public = p
        <4>1. PICK a \in store[i].additional : a[1].type = t /\ a[1].public = p
          BY <3>1
        <4>2. a[1] \in Keys
          BY <4>1 DEF FileInv, TypeOK, LocalKeystores
        <4>3. a[1] = k
          BY <4>1, <4>2 DEF Keys
        <4> QED
          BY <4>1, <4>3 DEF get_additional_pair
      <3>2. CASE \E l \in Keys : store[i].path /\ dir[l].exists /\ l.type = t /\ l.public = p
        <4>1. PICK l \in Keys : store[i].path /\ dir[l].exists /\ l.type = t /\ l.public = p
          BY <3>2
        <4>2. l = k
          BY <4>1 DEF Keys
        <4> QED
          BY <4>1, <4>2
      <3> QED
        BY <2>1, <3>1, <3>2 DEF raw_public_keys
    <2>3. k \in Keys
      <3>1. ASSUME NEW a \in store[i].additional, a[1] = k PROVE k \in Keys
        BY <3>1 DEF FileInv, TypeOK, LocalKeystores
      <3> QED
        BY <2>2, <3>1 DEF get_additional_pair
    <2> HIDE DEF k
    <2>4. /\ phrase.res = "Some"
          /\ from_string(c, phrase.text, store[i].password) = p
      <3>1. CASE get_additional_pair(i, k) # {}
        BY <3>1, PhraseFacts DEF k
      <3>2. CASE get_additional_pair(i, k) = {}
        <4>1. store[i].path /\ dir[k].exists /\ \E s \in Texts : dir[k].bytes = Whole(s)
          BY <2>2, <2>3, <3>2 DEF TornOnlyIfInterrupted, k
        <4>2. phrase.res = "Some" /\ phrase.text \in Texts /\ dir[k].bytes = Whole(phrase.text)
          BY <3>2, <4>1, PhraseFacts
        <4>3. <<phrase.text, 1>> \in dir[k].bytes
          BY <4>2 DEF Whole, Pieces
        <4>4. PICK w \in written : w[1] = k /\ w[2] = phrase.text
          BY <2>3, <4>3 DEF FileInv, WrittenInv
        <4> QED
          BY <4>2, <4>4 DEF k
      <3> QED
        BY <3>1, <3>2
    <2>5. key_pair_by_type(i, c, k).res = "Some"
      BY <2>3, <2>4, PairFacts DEF k
    <2> QED
      BY <2>1, <2>5 DEF sign_with, k
  <1> QED
    BY <1>1, FileInvariance, TornFiles, PTL

(***************************************************************************)
(* What a generated key owes: a phrase is drawn once, so without an        *)
(* insert_unknown the file of a generated key has one writer in all its    *)
(* life, which has finished if generate has returned Ok.                   *)
(***************************************************************************)
NotInserted(k) == \A w \in written : w[1] = k => w[3] # "insert"

IsWriting(i, k) == writer[i] # NoWriter /\ writer[i].key = k

OwnInv ==
  /\ \A i \in Stores, k \in Keys :
       IsWriting(i, k) /\ writer[i].step # "create" => dir[k].exists
  /\ \A k \in Keys :
       /\ k \in generated => dir[k].exists
       /\ k \in generated \cup interrupted => \E w \in written : w[1] = k
       /\ NotInserted(k) =>
            /\ k \notin generated \cap interrupted
            /\ \A i \in Stores : IsWriting(i, k) =>
                 /\ k \notin generated \cup interrupted
                 /\ \A j \in Stores : IsWriting(j, k) => i = j

\* Memory holds what derives the key without a password, and only a store on
\* the directory has one.
MemoryInv ==
  \A i \in Stores :
    /\ ~ store[i].path => store[i].password = NoPassword
    /\ \A a \in store[i].additional :
         /\ a[2] # BadText
         /\ a[1].public = from_string(a[1].public[1], a[2], NoPassword)

\* Texts of generated keys that nobody inserted are their phrases.
LEMMA GeneratedText ==
  ASSUME TypeOK, WrittenInv, NEW k, NotInserted(k), NEW w \in written, w[1] = k
  PROVE  w[2] = k.public[2] /\ w[2] \in used
  <1>1. w[3] = "generate"
    BY DEF TypeOK, NotInserted
  <1> QED
    BY <1>1 DEF WrittenInv

LEMMA NextOwn == TypeOK /\ WrittenInv /\ OwnInv /\ [Next]_vars => OwnInv'
  <1> SUFFICES ASSUME TypeOK, WrittenInv, OwnInv, FileStep PROVE OwnInv'
    BY NextFiles
  <1>1. CASE UNCHANGED fileVars
    BY <1>1 DEF fileVars, OwnInv, IsWriting, NotInserted
  <1>2. ASSUME NEW i \in Stores, NEW k \in Keys, NEW s \in Texts,
               NEW op \in {"generate", "insert"}, Begins(i, k, s, op)
        PROVE  OwnInv'
    <2>1. /\ \A j \in Stores, l \in Keys : IsWriting(j, l)' <=> IsWriting(j, l) \/ (j = i /\ l = k)
          /\ \A j \in Stores \ {i} : writer'[j] = writer[j]
          /\ ~ \E l \in Keys : IsWriting(i, l)
          /\ writer'[i].step = "create"
          /\ UNCHANGED <<dir, generated, interrupted>>
          /\ written' = written \cup {<<k, s, op>>}
      BY <1>2, BeginsFacts DEF IsWriting
    <2>2. \A l \in Keys : NotInserted(l)' => NotInserted(l)
      BY <2>1 DEF NotInserted
    <2>3. NotInserted(k)' => ~ \E w \in written : w[1] = k
      <3> SUFFICES ASSUME NotInserted(k)', NEW w \in written, w[1] = k PROVE FALSE
        OBVIOUS
      <3>1. <<k, s, op>> \in written' /\ <<k, s, op>>[1] = k /\ <<k, s, op>>[3] = op
        BY <2>1
      <3>2. op = "generate"
        BY <3>1 DEF NotInserted
      <3>3. s = k.public[2] /\ s \notin used
        BY <1>2, <3>2, BeginsFacts
      <3>4. w[2] = k.public[2] /\ w[2] \in used
        BY <2>2, GeneratedText
      <3> QED
        BY <3>3, <3>4
    <2>4. ASSUME NEW j \in Stores, IsWriting(j, k) PROVE \E w \in written : w[1] = k
      <3>1. <<writer[j].key, writer[j].text, writer[j].op>> \in written
        BY <2>4 DEF WrittenInv, IsWriting
      <3>2. <<writer[j].key, writer[j].text, writer[j].op>>[1] = k
        BY <2>4 DEF IsWriting
      <3> QED
        BY <3>1, <3>2
    <2>5. ASSUME NEW j \in Stores, NEW l \in Keys, IsWriting(j, l)', writer'[j].step # "create"
          PROVE  dir'[l].exists
      BY <2>1, <2>5 DEF OwnInv
    <2>6. ASSUME NEW l \in Keys
          PROVE  /\ l \in generated' => dir'[l].exists
                 /\ l \in generated' \cup interrupted' => \E w \in written' : w[1] = l
      BY <2>1 DEF OwnInv
    <2>7. ASSUME NEW l \in Keys, NotInserted(l)'
          PROVE  /\ l \notin generated' \cap interrupted'
                 /\ \A j \in Stores : IsWriting(j, l)' =>
                      /\ l \notin generated' \cup interrupted'
                      /\ \A h \in Stores : IsWriting(h, l)' => j = h
      <3>1. CASE l = k
        <4>1. k \notin generated \cup interrupted
          BY <2>3, <2>7, <3>1 DEF OwnInv
        <4>2. ~ \E j \in Stores : IsWriting(j, k)
          BY <2>3, <2>4, <2>7, <3>1
        <4> QED
          BY <2>1, <3>1, <4>1, <4>2
      <3>2. CASE l # k
        BY <2>1, <2>2, <2>7, <3>2 DEF OwnInv
      <3> QED
        BY <3>1, <3>2
    <2> QED
      BY <2>5, <2>6, <2>7 DEF OwnInv
  <1>3. ASSUME NEW i \in Stores, NEW next, Touches(i, next),
               next = "chmod" => dir'[writer[i].key].exists,
               next # "chmod" => /\ writer[i].step # "create"
                                 /\ dir'[writer[i].key].exists = dir[writer[i].key].exists
        PROVE  OwnInv'
    <2>1. writer[i] # NoWriter /\ writer'[i] # NoWriter /\ writer[i].key \in Keys
      <3>1. NoWriter \notin Writes
        BY DEF NoWriter, Writes
      <3> QED
        BY <1>3, <3>1, WritesFields DEF Touches
    <2>2. /\ \A j \in Stores, l \in Keys : IsWriting(j, l)' <=> IsWriting(j, l)
          /\ UNCHANGED <<generated, interrupted, written>>
      BY <1>3, <2>1 DEF Touches, IsWriting
    <2>3. dir'[writer[i].key].exists
      BY <1>3, <2>1 DEF OwnInv, IsWriting
    <2>4. \A l \in Keys : dir[l].exists => dir'[l].exists
      BY <1>3, <2>3 DEF Touches
    <2>5. ASSUME NEW j \in Stores, NEW l \in Keys, IsWriting(j, l)', writer'[j].step # "create"
          PROVE  dir'[l].exists
      <3>1. CASE j = i
        BY <1>3, <2>1, <2>3, <2>5, <3>1 DEF IsWriting, Touches
      <3>2. CASE j # i
        BY <1>3, <2>2, <2>4, <2>5, <3>2 DEF OwnInv, Touches
      <3> QED
        BY <3>1, <3>2
    <2>6. \A l \in Keys : NotInserted(l)' => NotInserted(l)
      BY <2>2 DEF NotInserted
    <2> QED
      BY <2>2, <2>4, <2>5, <2>6 DEF OwnInv
  <1>4. ASSUME NEW i \in Stores, create(i) PROVE OwnInv'
    BY <1>3, <1>4, CreateFacts
  <1>5. ASSUME NEW i \in Stores, set_permissions(i) PROVE OwnInv'
    BY <1>3, <1>5, SetPermissionsFacts
  <1>6. ASSUME NEW i \in Stores, to_writer(i) PROVE OwnInv'
    BY <1>3, <1>6, ToWriterFacts DEF PieceStep
  \* A write ends: its key is generated or interrupted, or nothing is recorded.
  <1>7. ASSUME NEW i \in Stores, writer[i] # NoWriter, flush(i) \/ Interrupt(i)
        PROVE  OwnInv'
    <2> DEFINE k == writer[i].key
    <2>1. k \in Keys /\ IsWriting(i, k)
      BY <1>7, WriterFacts, WritesFields DEF IsWriting
    <2>2. /\ \A j \in Stores, l \in Keys : IsWriting(j, l)' <=> IsWriting(j, l) /\ j # i
          /\ \A j \in Stores \ {i} : writer'[j] = writer[j]
          /\ UNCHANGED <<dir, written>>
      BY <1>7, EndFacts DEF IsWriting
    <2>3. \E w \in written : w[1] = k
      <3>1. <<writer[i].key, writer[i].text, writer[i].op>> \in written
        BY <1>7 DEF WrittenInv
      <3>2. <<writer[i].key, writer[i].text, writer[i].op>>[1] = k
        OBVIOUS
      <3> QED
        BY <3>1, <3>2
    <2>4. \/ generated' = generated /\ interrupted' = interrupted
          \/ generated' = generated \cup {k} /\ interrupted' = interrupted /\ dir[k].exists
          \/ generated' = generated /\ interrupted' = interrupted \cup {k}
      <3>1. flush(i) => dir[k].exists
        BY <2>1 DEF flush, OwnInv
      <3> QED
        BY <1>7, <3>1 DEF flush, Interrupt
    <2> HIDE DEF k
    <2>5. ASSUME NEW j \in Stores, NEW l \in Keys, IsWriting(j, l)', writer'[j].step # "create"
          PROVE  dir'[l].exists
      BY <2>2, <2>5 DEF OwnInv
    <2>6. ASSUME NEW l \in Keys
          PROVE  /\ l \in generated' => dir'[l].exists
                 /\ l \in generated' \cup interrupted' => \E w \in written' : w[1] = l
      BY <2>2, <2>3, <2>4 DEF OwnInv
    <2>7. ASSUME NEW l \in Keys, NotInserted(l)'
          PROVE  /\ l \notin generated' \cap interrupted'
                 /\ \A j \in Stores : IsWriting(j, l)' =>
                      /\ l \notin generated' \cup interrupted'
                      /\ \A h \in Stores : IsWriting(h, l)' => j = h
      <3>1. NotInserted(l)
        BY <2>2, <2>7 DEF NotInserted
      <3>2. CASE l = k
        <4>1. k \notin generated \cup interrupted /\ \A j \in Stores : IsWriting(j, k) => i = j
          BY <2>1, <3>1, <3>2 DEF OwnInv
        <4> QED
          BY <2>2, <2>4, <3>2, <4>1
      <3>3. CASE l # k
        BY <2>2, <2>4, <3>1, <3>3 DEF OwnInv
      <3> QED
        BY <3>2, <3>3
    <2> QED
      BY <2>5, <2>6, <2>7 DEF OwnInv
  <1>8. ASSUME NEW i \in Stores, flush(i) PROVE writer[i] # NoWriter
    BY <1>8, WriterFacts DEF flush
  <1> QED
    BY <1>1, <1>2, <1>4, <1>5, <1>6, <1>7, <1>8 DEF FileStep

(***************************************************************************)
(* What a step does to a store: nothing, open or close it, or insert a     *)
(* text that derives its key without a password.                           *)
(***************************************************************************)
StoreStep ==
  \/ UNCHANGED store
  \/ \E i \in Stores :
       /\ \A j \in Stores \ {i} : store'[j] = store[j]
       /\ \/ /\ ~ (store[i].open /\ store'[i].open)
             /\ ~ store'[i].path => store'[i].password = NoPassword
             /\ store'[i].additional = {}
          \/ \E k \in Keys, s \in Texts \ {BadText} :
               /\ ~ store[i].path \/ from_string(k.public[1], s, NoPassword) = k.public
               /\ k.public = from_string(k.public[1], s, store[i].password)
                    \/ k.public = from_string(k.public[1], s, NoPassword)
               /\ store'[i].open = store[i].open
               /\ store'[i].path = store[i].path
               /\ store'[i].password = store[i].password
               /\ store'[i].additional =
                    (store[i].additional \ get_additional_pair(i, k)) \cup {<<k, s>>}

LEMMA InsertFacts ==
  ASSUME TypeOK, NEW i \in Stores, NEW k, NEW s, insert_ephemeral_pair(i, k, s)
  PROVE  /\ \A j \in Stores \ {i} : store'[j] = store[j]
         /\ store'[i].open = store[i].open
         /\ store'[i].path = store[i].path
         /\ store'[i].password = store[i].password
         /\ store'[i].additional =
              (store[i].additional \ get_additional_pair(i, k)) \cup {<<k, s>>}
  BY DEF TypeOK, LocalKeystores, insert_ephemeral_pair

LEMMA NextStore == TypeOK /\ [Next]_vars => StoreStep
  <1> SUFFICES ASSUME TypeOK, [Next]_vars PROVE StoreStep
    OBVIOUS
  <1>1. ASSUME NEW i \in Stores, NEW p \in PasswordsOpt, open(i, p) \/ in_memory(i) \/ Crash(i)
        PROVE  StoreStep
    <2>1. /\ \A j \in Stores \ {i} : store'[j] = store[j]
          /\ ~ (store[i].open /\ store'[i].open)
          /\ ~ store'[i].path => store'[i].password = NoPassword
          /\ store'[i].additional = {}
      BY <1>1 DEF open, in_memory, Crash, Closed, TypeOK
    <2> QED
      BY <2>1 DEF StoreStep
  <1>2. ASSUME NEW i \in Stores, NEW c \in Schemes, NEW t \in KeyTypes, NEW s \in Phrases,
               generate_by_type(i, c, t, s)
        PROVE  StoreStep
    <2> DEFINE k == [type |-> t, public |-> from_string(c, s, store[i].password)]
    <2>1. k \in Keys /\ s \in Texts \ {BadText} /\ k.public[1] = c
          /\ k.public = from_string(c, s, store[i].password)
      <3>1. store[i].password \in PasswordsOpt
        BY DEF TypeOK, LocalKeystores
      <3> QED
        BY <3>1, GeneratedKeyType, PhrasesAreTexts, DerivedKeys
    <2>2. UNCHANGED store \/ (~ store[i].path /\ insert_ephemeral_pair(i, k, s))
      BY <1>2 DEF generate_by_type
    <2> HIDE DEF k
    <2> QED
      BY <2>1, <2>2, InsertFacts DEF StoreStep
  <1>3. ASSUME NEW i \in Stores, NEW c \in Schemes, NEW t \in KeyTypes, NEW s \in Texts,
               insert_ephemeral_from_seed_by_type(i, c, t, s)
        PROVE  StoreStep
    <2> DEFINE k == [type |-> t, public |-> from_string(c, s, NoPassword)]
    <2>1. UNCHANGED store
            \/ (from_string(c, s, NoPassword) # NoPublic /\ insert_ephemeral_pair(i, k, s))
      BY <1>3 DEF insert_ephemeral_from_seed_by_type
    <2>2. CASE UNCHANGED store
      BY <2>2 DEF StoreStep
    <2>3. CASE from_string(c, s, NoPassword) # NoPublic /\ insert_ephemeral_pair(i, k, s)
      <3>1. k \in Keys /\ s \in Texts \ {BadText} /\ k.public[1] = c
            /\ k.public = from_string(c, s, NoPassword)
        <4>1. NoPassword \in PasswordsOpt
          BY DEF PasswordsOpt
        <4>2. s # BadText /\ from_string(c, s, NoPassword) \in Publics
              /\ from_string(c, s, NoPassword)[1] = c
          BY <2>3, <4>1, DerivedKeys
        <4> QED
          BY <4>2 DEF Keys
      <3> HIDE DEF k
      <3> QED
        BY <2>3, <3>1, InsertFacts DEF StoreStep
    <2> QED
      BY <2>1, <2>2, <2>3
  <1>4. ASSUME NEW i \in Stores,
               \/ create(i) \/ set_permissions(i) \/ to_writer(i) \/ flush(i)
               \/ write_fails(i)
               \/ \E k \in Keys, s \in Texts : insert_unknown(i, k, s)
        PROVE  UNCHANGED store
    BY <1>4 DEF create, set_permissions, to_writer, flush, write_fails, insert_unknown,
                WriterStep
  <1>5. CASE UNCHANGED vars
    BY <1>5 DEF vars, StoreStep
  <1>6. NoPassword \in PasswordsOpt
    BY DEF PasswordsOpt
  <1> QED
    BY <1>1, <1>2, <1>3, <1>4, <1>5, <1>6 DEF Next, StoreStep

LEMMA NextMemory == TypeOK /\ MemoryInv /\ [Next]_vars => MemoryInv'
  <1> SUFFICES ASSUME TypeOK, MemoryInv, StoreStep, NEW i \in Stores
               PROVE  /\ ~ store'[i].path => store'[i].password = NoPassword
                      /\ \A a \in store'[i].additional :
                           /\ a[2] # BadText
                           /\ a[1].public = from_string(a[1].public[1], a[2], NoPassword)
    BY NextStore DEF MemoryInv
  <1>1. CASE store'[i] = store[i]
    BY <1>1 DEF MemoryInv
  <1>2. CASE /\ ~ store'[i].path => store'[i].password = NoPassword
             /\ store'[i].additional = {}
    BY <1>2
  <1>3. ASSUME NEW k \in Keys, NEW s \in Texts \ {BadText},
               ~ store[i].path \/ from_string(k.public[1], s, NoPassword) = k.public,
               k.public = from_string(k.public[1], s, store[i].password)
                 \/ k.public = from_string(k.public[1], s, NoPassword),
               store'[i].path = store[i].path,
               store'[i].password = store[i].password,
               store'[i].additional =
                 (store[i].additional \ get_additional_pair(i, k)) \cup {<<k, s>>}
        PROVE  /\ ~ store'[i].path => store'[i].password = NoPassword
               /\ \A a \in store'[i].additional :
                    /\ a[2] # BadText
                    /\ a[1].public = from_string(a[1].public[1], a[2], NoPassword)
    <2>1. k.public = from_string(k.public[1], s, NoPassword)
      BY <1>3 DEF MemoryInv
    <2>2. ~ store'[i].path => store'[i].password = NoPassword
      BY <1>3 DEF MemoryInv
    <2>3. ASSUME NEW a \in store'[i].additional
          PROVE  /\ a[2] # BadText
                 /\ a[1].public = from_string(a[1].public[1], a[2], NoPassword)
      <3>1. CASE a \in store[i].additional
        BY <3>1 DEF MemoryInv
      <3>2. CASE a = <<k, s>>
        BY <2>1, <3>2
      <3> QED
        BY <1>3, <2>3, <3>1, <3>2
    <2> QED
      BY <2>2, <2>3
  <1> QED
    BY <1>1, <1>2, <1>3 DEF StoreStep

\* The whole invariant of the stores and their directory.
KeyInv == FileInv /\ OwnInv /\ MemoryInv

LEMMA KeyInvariance == Spec => []KeyInv
  <1>1. Init => OwnInv
    BY DEF Init, OwnInv, IsWriting
  <1>2. Init => MemoryInv
    <2>1. Closed.password = NoPassword /\ Closed.additional = {}
      BY DEF Closed
    <2>2. Init => \A i \in Stores : store[i] = Closed
      BY DEF Init
    <2> QED
      BY <2>1, <2>2 DEF MemoryInv
  <1>3. KeyInv /\ [Next]_vars => (OwnInv /\ MemoryInv)'
    BY NextOwn, NextMemory DEF KeyInv, FileInv
  <1>4. KeyInv <=> (FileInv /\ OwnInv /\ MemoryInv)
    BY DEF KeyInv
  <1> QED
    BY <1>1, <1>2, <1>3, <1>4, FileInvariance, PTL DEF Spec

\* A key that generate has returned is listed and can be used by every store
\* on the directory with its password, after any crashes and beside any other
\* writers, unless insert_unknown was called for the same public key.
THEOREM GeneratedKeys == Spec => []GeneratedKeySurvives
  <1>1. KeyInv => GeneratedKeySurvives
    <2> SUFFICES ASSUME KeyInv, NEW i \in Stores, NEW k \in generated,
                        store[i].path, store[i].password = k.public[3],
                        NotInserted(k)
                 PROVE  /\ key_pair_by_type(i, k.public[1], k).res = "Some"
                        /\ k.public \in raw_public_keys(i, k.type)
      BY DEF GeneratedKeySurvives, NotInserted
    <2> USE DEF KeyInv, FileInv
    <2>1. /\ k \in Keys /\ k.type \in KeyTypes /\ k.public \in Publics
          /\ k = [type |-> k.type, public |-> k.public]
      BY DEF TypeOK, Keys
    <2>2. /\ dir[k].exists /\ k \notin interrupted
          /\ \A j \in Stores : ~ IsWriting(j, k)
      BY <2>1 DEF OwnInv
    <2>3. \A w \in written : w[1] = k => w[2] = k.public[2]
      BY GeneratedText
    <2>4. \E t \in Texts : dir[k].bytes = Whole(t)
      BY <2>1, <2>2, <2>3 DEF WholeInv, OneText, Refills, IsWriting
    <2>5. key_phrase_by_type(i, k).res = "Some"
      BY <2>2, <2>4, PhraseFacts
    <2>6. key_phrase_by_type(i, k).text = k.public[2]
      <3>1. CASE get_additional_pair(i, k) # {}
        <4>1. PICK a \in get_additional_pair(i, k) : key_phrase_by_type(i, k).text = a[2]
          BY <3>1, PhraseFacts
        <4>2. a[1] = k /\ a[2] # BadText /\ k.public = from_string(k.public[1], a[2], NoPassword)
          BY <4>1 DEF get_additional_pair, MemoryInv
        <4>3. k.public[2] = a[2]
          BY <4>2 DEF from_string
        <4> QED
          BY <4>1, <4>3
      <3>2. CASE get_additional_pair(i, k) = {}
        <4> DEFINE text == key_phrase_by_type(i, k).text
        <4>1. text \in Texts /\ dir[k].bytes = Whole(text)
          BY <2>5, <3>2, PhraseFacts
        <4>2. <<text, 1>> \in dir[k].bytes
          BY <4>1 DEF Whole, Pieces
        <4>3. PICK w \in written : w[1] = k /\ w[2] = text
          BY <2>1, <4>2 DEF WrittenInv
        <4> QED
          BY <2>3, <4>3
      <3> QED
        BY <3>1, <3>2
    <2>7. from_string(k.public[1], k.public[2], k.public[3]) = k.public
      BY <2>1, PublicsFacts
    <2>8. key_pair_by_type(i, k.public[1], k).res = "Some"
      BY <2>1, <2>5, <2>6, <2>7, PairFacts
    <2>9. k.public \in raw_public_keys(i, k.type)
      BY <2>1, <2>5, FoundIsListed
    <2> QED
      BY <2>8, <2>9
  <1> QED
    BY <1>1, KeyInvariance, PTL

(***************************************************************************)
(* has_keys: what is found stays found.                                    *)
(***************************************************************************)
FoundMeans ==
  \A i \in Stores, k \in Keys :
    has_keys(i, {k}) <=>
      \/ \E a \in store[i].additional : a[1] = k
      \/ /\ store[i].path /\ dir[k].exists
         /\ \E t \in Texts : dir[k].bytes = Whole(t)

LEMMA FoundMeaning == FoundMeans
  <1> SUFFICES ASSUME NEW i \in Stores, NEW k \in Keys
               PROVE  has_keys(i, {k}) <=>
                        \/ \E a \in store[i].additional : a[1] = k
                        \/ /\ store[i].path /\ dir[k].exists
                           /\ \E t \in Texts : dir[k].bytes = Whole(t)
    BY DEF FoundMeans
  <1>1. has_keys(i, {k}) <=> key_phrase_by_type(i, k).res = "Some"
    BY DEF has_keys
  <1>2. get_additional_pair(i, k) # {} <=> \E a \in store[i].additional : a[1] = k
    BY DEF get_additional_pair
  <1> QED
    BY <1>1, <1>2, PhraseFacts

LEMMA StepKeepsFound ==
  ASSUME TypeOK, [Next]_vars, FoundMeans, FoundMeans',
         NEW i \in Stores, NEW k \in Keys,
         store[i].open, store'[i].open, has_keys(i, {k}),
         \A j \in Stores : ~ IsWriting(j, k)
  PROVE  has_keys(i, {k})'
  <1>1. dir'[k] = dir[k]
    <2>1. FileStep
      BY NextFiles
    <2>2. ASSUME NEW j \in Stores, NEW next, Touches(j, next) PROVE dir'[k] = dir[k]
      <3>1. writer[j] # NoWriter
        BY <2>2, WriterFacts DEF Touches
      <3> QED
        BY <2>2, <3>1 DEF Touches, IsWriting
    <2>3. ASSUME NEW j \in Stores, create(j) \/ set_permissions(j) \/ to_writer(j)
          PROVE  dir'[k] = dir[k]
      BY <2>2, <2>3, CreateFacts, SetPermissionsFacts, ToWriterFacts DEF PieceStep
    <2> QED
      BY <2>1, <2>3 DEF FileStep, fileVars, Begins, flush, Interrupt
  <1>2. /\ store'[i].path = store[i].path
        /\ (\E a \in store[i].additional : a[1] = k)
             => \E a \in store'[i].additional : a[1] = k
    <2>1. StoreStep
      BY NextStore
    <2>2. CASE store'[i] = store[i]
      BY <2>2
    <2>3. ASSUME NEW l \in Keys, NEW s \in Texts, store'[i].path = store[i].path,
                 store'[i].additional =
                   (store[i].additional \ get_additional_pair(i, l)) \cup {<<l, s>>}
          PROVE  (\E a \in store[i].additional : a[1] = k)
                    => \E a \in store'[i].additional : a[1] = k
      <3>1. CASE l = k
        <4>1. <<l, s>> \in store'[i].additional /\ <<l, s>>[1] = k
          BY <2>3, <3>1
        <4> QED
          BY <4>1
      <3>2. CASE l # k
        BY <2>3, <3>2 DEF get_additional_pair
      <3> QED
        BY <3>1, <3>2
    <2> QED
      BY <2>1, <2>2, <2>3 DEF StoreStep
  <1> QED
    BY <1>1, <1>2 DEF FoundMeans

\* The yes of has_keys is still right when it returns, though it takes the
\* lock once per key: a store loses a key it has found only by closing, or
\* when some store is writing the file of that key.
THEOREM FoundKeys == Spec => FoundKeyStays
  <1>1. FoundMeans
    BY FoundMeaning
  <1>2. TypeOK /\ [Next]_vars /\ FoundMeans /\ FoundMeans' =>
          [\A i \in Stores, k \in Keys :
             store[i].open /\ has_keys(i, {k}) /\ store'[i].open =>
               has_keys(i, {k})' \/ \E j \in Stores : writer[j] # NoWriter /\ writer[j].key = k
          ]_vars
    BY StepKeepsFound DEF IsWriting
  <1> QED
    BY <1>1, <1>2, TypeCorrect, PTL DEF Spec, FoundKeyStays

=============================================================================
