------------------------ MODULE PolicyStore_proofs -------------------------
(***************************************************************************)
(* Types hold whatever overlaps.  With one request at a time, and no       *)
(* configure during a request, the state file is an atomic store; with     *)
(* any number at once it is whole when all of them succeeded; for any      *)
(* number of operators and edits and any documents.                        *)
(***************************************************************************)
EXTENDS PolicyStore, TLAPS

\* The first blocks of the document of a state.
Begun(state, done) == [i \in 1 .. done |-> <<state, i>>]

\* The state file is the document of the latest saved state.
FileShape ==
  /\ path # None => content[path] = Document(saved)
  /\ path = None => saved = Empty

\* What a save has copied and written so far.
SaveShape(op) ==
  /\ op.at \in {"open", "write", "chmod", "rename"} => op.state = mem
  /\ op.at \in {"write", "chmod", "rename"} => tmp # None
  /\ op.at = "write" =>
       /\ op.inode = tmp
       /\ op.done < Length[op.state]
       /\ content[tmp] = Begun(op.state, op.done)
  /\ op.at \in {"chmod", "rename"} => content[tmp] = Document(op.state)

\* At most one request is in progress.
Alone == \A p, q \in Operators : operators[p] # Idle /\ operators[q] # Idle => p = q

IInv ==
  /\ TypeOK
  /\ ~overlapping
  /\ FileShape
  /\ Alone
  /\ \A p \in Operators : SaveShape(operators[p])
  /\ loading => Quiet
  /\ up /\ Quiet /\ ~failing => mem = saved

Blocks == (States \X Nat) \cup {Hole}

----------------------------------------------------------------------------
(* Documents.                                                              *)

(* The beginning of a document is a sequence of blocks. *)
LEMMA BegunType ==
  ASSUME NEW v \in States, NEW n \in Nat
  PROVE  /\ Begun(v, n) \in Seq(Blocks)
         /\ Len(Begun(v, n)) = n
<1>1. \A i \in 1 .. n : <<v, i>> \in Blocks
  BY DEF Blocks
<1>2. Begun(v, n) \in [1 .. n -> Blocks]
  BY <1>1 DEF Begun
<1> QED
  BY <1>2 DEF Begun

(* A whole document is the beginning of its full length. *)
LEMMA WholeDocument ==
  ASSUME NEW v \in States
  PROVE  /\ Length[v] \in Nat \ {0}
         /\ Document(v) = Begun(v, Length[v])
         /\ Document(v) \in Seq(Blocks)
         /\ Document(v) # <<>>
<1>1. Length[v] \in Nat \ {0}
  BY PolicyStoreAssumption DEF States
<1>2. Document(v) = Begun(v, Length[v])
  BY DEF Document, Begun
<1>3. Len(Document(v)) # 0
  BY <1>1, <1>2, BegunType
<1> QED
  BY <1>1, <1>2, <1>3, BegunType

(* What was saved is what is read. *)
LEMMA DocumentDecodes ==
  ASSUME NEW v \in States
  PROVE  Decoded(Document(v)) = v
<1>1. ASSUME NEW w \in States, Document(v) = Document(w)
      PROVE  w = v
  <2>1. Document(v)[1] = <<v, 1>> /\ Document(w)[1] = <<w, 1>>
    BY WholeDocument DEF Begun
  <2> QED
    BY <1>1, <2>1
<1> QED
  BY <1>1, WholeDocument DEF Decoded

(* Writing a block behind the beginning of a document continues it. *)
LEMMA BlockContinues ==
  ASSUME NEW v \in States, NEW n \in Nat
  PROVE  Overwritten(Begun(v, n), n + 1, <<v, n + 1>>) = Begun(v, n + 1)
<1>1. Len(Begun(v, n)) = n
  BY BegunType
<1>2. \A k \in 1 .. n : Begun(v, n)[k] = <<v, k>>
  BY DEF Begun
<1>3. (IF Len(Begun(v, n)) > n + 1 THEN Len(Begun(v, n)) ELSE n + 1) = n + 1
  BY <1>1
<1> QED
  BY <1>1, <1>2, <1>3 DEF Overwritten, Begun

(* The invariant says what the state file decodes to, before a step and    *)
(* after it.                                                               *)
LEMMA FileIsSaved ==
  /\ IInv => FileState = saved
  /\ IInv' => FileState' = saved'
<1>1. ASSUME IInv PROVE FileState = saved
  <2>1. saved \in States
    BY <1>1 DEF IInv, TypeOK
  <2> QED
    BY <1>1, <2>1, DocumentDecodes DEF IInv, FileShape, FileState
<1>2. ASSUME IInv' PROVE FileState' = saved'
  <2>1. saved' \in States
    BY <1>2 DEF IInv, TypeOK
  <2> QED
    BY <1>2, <2>1, DocumentDecodes DEF IInv, FileShape, FileState
<1> QED
  BY <1>1, <1>2

----------------------------------------------------------------------------
(* Types, also when requests overlap.                                      *)

(* The fields of a request are of their types. *)
LEMMA OpTypes ==
  ASSUME NEW op \in Op
  PROVE  /\ op.at \in {"idle", "marshal", "open", "write", "chmod", "rename"}
         /\ op.at \in {"open", "write", "chmod", "rename"} => op.state \in States
         /\ op.at = "write" => op.inode \in Inodes /\ op.done \in Nat
         /\ op.at = "idle" <=> op = Idle
BY DEF Op, Idle

(* The requests that there are. *)
LEMMA OpsMade ==
  /\ Idle \in Op /\ [at |-> "marshal"] \in Op
  /\ \A v \in States, w \in {"open", "chmod", "rename"} : [at |-> w, state |-> v] \in Op
  /\ \A v \in States, n \in Inodes, i \in Nat :
       [at |-> "write", state |-> v, inode |-> n, done |-> i] \in Op
BY DEF Op

(* The state file decodes to a state, or to none. *)
LEMMA FileStateType == FileState \in States \cup {Torn}
<1>1. Empty \in States
  BY PolicyStoreAssumption DEF Empty, States
<1>2. \A text : Decoded(text) \in States \cup {Torn}
  BY <1>1 DEF Decoded
<1> QED
  BY <1>1, <1>2 DEF FileState

(* A block written anywhere leaves a sequence of blocks. *)
LEMMA OverwrittenType ==
  ASSUME NEW text \in Seq(Blocks), NEW i \in Nat \ {0}, NEW b \in Blocks
  PROVE  Overwritten(text, i, b) \in Seq(Blocks)
<1> DEFINE n == IF Len(text) > i THEN Len(text) ELSE i
<1>1. n \in Nat
  OBVIOUS
<1>2. Hole \in Blocks
  BY DEF Blocks
<1>3. \A k \in 1 .. n :
        (IF k = i THEN b ELSE IF k <= Len(text) THEN text[k] ELSE Hole) \in Blocks
  BY <1>2
<1>4. Overwritten(text, i, b) \in [1 .. n -> Blocks]
  BY <1>3 DEF Overwritten
<1> QED
  BY <1>1, <1>4

(* A step of a request keeps the requests' types. *)
LEMMA StepsType ==
  ASSUME TypeOK, NEW p \in Operators, NEW op \in Op, Steps(p, op)
  PROVE  operators' \in [Operators -> Op]
BY DEF TypeOK, Steps

(* A request's steps that leave the files alone. *)
LEMMA FilesAloneTyped ==
  ASSUME TypeOK, UNCHANGED <<overlapping, files, saved>>,
         mem' \in States, up' \in BOOLEAN, edits' \in 0 .. MaxEdits,
         operators' \in [Operators -> Op], loading' \in BOOLEAN, failing' \in BOOLEAN,
         floor' \in States \cup {Torn}
  PROVE  TypeOK'
BY DEF TypeOK, files

(* Every step keeps the types. *)
LEMMA Typed ==
  ASSUME TypeOK, [Next]_vars
  PROVE  TypeOK'
<1> USE DEF history
<1>1. ASSUME NEW p \in Operators, Edit(p), UNCHANGED overlapping
      PROVE  TypeOK'
  <2>1. operators' \in [Operators -> Op]
    BY <1>1, OpsMade, StepsType DEF Edit
  <2>2. mem' \in States /\ edits' \in 0 .. MaxEdits /\ floor' \in States \cup {Torn}
    BY <1>1, PolicyStoreAssumption, FileStateType DEF Edit, TypeOK, States
  <2> QED
    BY <1>1, <2>1, <2>2, FilesAloneTyped DEF Edit, TypeOK
<1>2. ASSUME NEW p \in Operators, Marshal(p), UNCHANGED overlapping
      PROVE  TypeOK'
  <2>1. operators' \in [Operators -> Op]
    BY <1>2, OpsMade, StepsType DEF Marshal, Marshalled, TypeOK
  <2> QED
    BY <1>2, <2>1, FilesAloneTyped DEF Marshal, TypeOK
<1>3. ASSUME NEW p \in Operators, Fails(p), UNCHANGED <<overlapping, mem, up, edits, files, loading, saved, floor>>
      PROVE  TypeOK'
  <2>1. operators' \in [Operators -> Op] /\ failing' = TRUE
    BY <1>3, OpsMade, StepsType DEF Fails
  <2> QED
    BY <1>3, <2>1, FilesAloneTyped DEF TypeOK
<1>4. ASSUME NEW p \in Operators, Open(p), UNCHANGED overlapping
      PROVE  TypeOK'
  <2>1. PICK n \in Target :
          /\ tmp' = n
          /\ content' = [content EXCEPT ![n] = <<>>]
          /\ Steps(p, [at |-> "write", state |-> operators[p].state, inode |-> n, done |-> 0])
    BY <1>4 DEF Open
  <2>2. n \in Inodes /\ n # path /\ n # None
    BY PolicyStoreAssumption DEF Target, InUse, TypeOK
  <2>3. operators[p].state \in States
    BY <1>4, OpTypes DEF Open, TypeOK
  <2>4. operators' \in [Operators -> Op]
    BY <2>1, <2>2, <2>3, OpsMade, StepsType
  <2>5. content' \in [Inodes -> Seq((States \X Nat) \cup {Hole})]
    <3>1. content \in [Inodes -> Seq((States \X Nat) \cup {Hole})] /\ <<>> \in Seq((States \X Nat) \cup {Hole})
      BY DEF TypeOK
    <3> QED
      BY <2>1, <3>1
  <2> QED
    BY <1>4, <2>1, <2>2, <2>4, <2>5 DEF Open, TypeOK
<1>5. ASSUME NEW p \in Operators, Write(p), UNCHANGED overlapping
      PROVE  TypeOK'
  <2> DEFINE op == operators[p]
             i == op.done + 1
  <2>1. op.state \in States /\ op.inode \in Inodes /\ op.done \in Nat
    BY <1>5, OpTypes DEF Write, TypeOK
  <2>2. i \in Nat \ {0} /\ <<op.state, i>> \in Blocks /\ content[op.inode] \in Seq(Blocks)
    BY <2>1 DEF Blocks, TypeOK
  <2>3. Overwritten(content[op.inode], i, <<op.state, i>>) \in Seq(Blocks)
    BY <2>2, OverwrittenType
  <2>4. content' = [content EXCEPT ![op.inode] = Overwritten(content[op.inode], i, <<op.state, i>>)]
    BY <1>5 DEF Write
  <2>5. content' \in [Inodes -> Seq((States \X Nat) \cup {Hole})]
    BY <2>3, <2>4 DEF TypeOK, Blocks
  <2>6. operators' \in [Operators -> Op]
    <3>1. PICK next \in Op : Steps(p, next)
      BY <1>5, <2>1, <2>2, OpsMade DEF Write
    <3> QED
      BY <3>1, StepsType
  <2> QED
    BY <1>5, <2>5, <2>6 DEF Write, TypeOK
<1>6. ASSUME NEW p \in Operators, Chmod(p), UNCHANGED overlapping
      PROVE  TypeOK'
  <2>1. CASE tmp = None
    BY <1>3, <1>6, <2>1 DEF Chmod, Missing
  <2>2. CASE tmp # None
    <3>1. operators[p].state \in States
      BY <1>6, OpTypes DEF Chmod, TypeOK
    <3>2. operators' \in [Operators -> Op] /\ UNCHANGED failing
      BY <1>6, <2>2, <3>1, OpsMade, StepsType DEF Chmod
    <3> QED
      BY <1>6, <3>2, FilesAloneTyped DEF Chmod, TypeOK
  <2> QED
    BY <2>1, <2>2
<1>7. ASSUME NEW p \in Operators, Rename(p), UNCHANGED overlapping
      PROVE  TypeOK'
  <2>1. CASE tmp = None
    <3>1. Fails(p) /\ UNCHANGED <<overlapping, mem, up, edits, files, loading, saved, floor>>
      BY <1>7, <2>1 DEF Rename, Missing, files
    <3> QED
      BY <1>3, <3>1
  <2>2. CASE tmp # None
    <3>1. operators[p].state \in States
      BY <1>7, OpTypes DEF Rename, TypeOK
    <3>2. operators' \in [Operators -> Op]
      BY <1>7, <2>2, OpsMade, StepsType DEF Rename
    <3>3. /\ path' = tmp /\ tmp' = None /\ saved' = operators[p].state
          /\ UNCHANGED <<mem, up, edits, content, loading, floor, failing>>
      BY <1>7, <2>2 DEF Rename
    <3> QED
      BY <1>7, <2>2, <3>1, <3>2, <3>3 DEF TypeOK
  <2> QED
    BY <2>1, <2>2
<1>8. ASSUME ReadFirst, UNCHANGED overlapping
      PROVE  TypeOK'
  BY <1>8, FilesAloneTyped DEF ReadFirst, TypeOK
<1>9. ASSUME ReadSecond, UNCHANGED overlapping
      PROVE  TypeOK'
  <2>1. Empty \in States
    BY PolicyStoreAssumption DEF Empty, States
  <2>2. mem' \in States /\ floor' \in States \cup {Torn} /\ failing' \in BOOLEAN
    BY <1>9, <2>1, FileStateType DEF ReadSecond, TypeOK
  <2> QED
    BY <1>9, <2>2, FilesAloneTyped DEF ReadSecond, TypeOK
<1>10. ASSUME Crash, UNCHANGED overlapping
       PROVE  TypeOK'
  <2>1. Empty \in States
    BY PolicyStoreAssumption DEF Empty, States
  <2>2. operators' \in [Operators -> Op]
    BY <1>10, OpsMade DEF Crash
  <2> QED
    BY <1>10, <2>1, <2>2, FilesAloneTyped DEF Crash, TypeOK
<1>11. CASE UNCHANGED vars
  BY <1>11 DEF vars, files, TypeOK
<1>12. ASSUME NEW p \in Operators, OpenFails(p) \/ WriteFails(p) \/ RenameFails(p),
              UNCHANGED overlapping
       PROVE  TypeOK'
  BY <1>3, <1>12 DEF OpenFails, WriteFails, RenameFails
<1>13. ASSUME NEW p \in Operators, Save(p), UNCHANGED overlapping
       PROVE  TypeOK'
  BY <1>1, <1>2, <1>4, <1>5, <1>6, <1>7, <1>12, <1>13 DEF Save
<1> QED
  BY <1>8, <1>9, <1>10, <1>11, <1>13 DEF Next

(* They hold in the beginning. *)
LEMMA TypedInitially ==
  ASSUME Init
  PROVE  TypeOK
<1>1. Empty \in States /\ 0 \in 0 .. MaxEdits
  BY PolicyStoreAssumption DEF States, Empty
<1>2. content \in [Inodes -> Seq((States \X Nat) \cup {Hole})]
  BY DEF Init
<1>3. operators \in [Operators -> Op]
  BY OpsMade DEF Init
<1> QED
  BY <1>1, <1>2, <1>3 DEF Init, TypeOK

----------------------------------------------------------------------------
(* Where requests are, when they do not overlap.                           *)

(* When no other request is in progress, a step of a request is all that   *)
(* happens to the requests.                                                *)
LEMMA OneMoves ==
  ASSUME IInv, NEW p \in Operators, operators[p] # Idle \/ Quiet,
         NEW op \in Op, Steps(p, op)
  PROVE  /\ operators'[p] = op
         /\ \A q \in Operators \ {p} : operators'[q] = Idle
         /\ Quiet <=> operators[p] = Idle
         /\ Quiet' <=> op = Idle
         /\ Alone'
<1>1. \A q \in Operators \ {p} : operators[q] = Idle
  BY DEF IInv, Alone, Quiet
<1>2. operators' = [operators EXCEPT ![p] = op] /\ operators \in [Operators -> Op]
  BY DEF Steps, IInv, TypeOK
<1>3. operators'[p] = op /\ \A q \in Operators \ {p} : operators'[q] = Idle
  BY <1>1, <1>2
<1> QED
  BY <1>1, <1>3 DEF Quiet, Alone

(* Only the request that moves has a shape to keep. *)
LEMMA ShapesKept ==
  ASSUME IInv, NEW p \in Operators, operators[p] # Idle \/ Quiet,
         NEW op \in Op, Steps(p, op), SaveShape(op)'
  PROVE  \A q \in Operators : SaveShape(operators[q])'
<1>1. ASSUME NEW q \in Operators
      PROVE  SaveShape(operators[q])'
  <2>1. CASE q = p
    BY <2>1, OneMoves
  <2>2. CASE q # p
    BY <2>2, OneMoves DEF SaveShape, Idle
  <2> QED
    BY <2>1, <2>2
<1> QED
  BY <1>1

(* A step that leaves the files and what is saved alone keeps the          *)
(* invariant if its request stays in shape and, when it ends, the memory   *)
(* is on disk or the failure is known.                                     *)
LEMMA FilesKept ==
  ASSUME IInv, TypeOK', UNCHANGED overlapping,
         NEW p \in Operators, operators[p] # Idle \/ Quiet,
         NEW op \in Op, Steps(p, op),
         UNCHANGED <<files, up, loading, saved>>,
         SaveShape(op)',
         ~loading,
         op = Idle => failing'
  PROVE  IInv'
<1>1. FileShape'
  BY DEF IInv, FileShape, files
<1>2. \A q \in Operators : SaveShape(operators[q])'
  BY ShapesKept
<1>3. ~loading' /\ (Quiet' => failing') /\ Alone'
  BY OneMoves
<1> QED
  BY <1>1, <1>2, <1>3 DEF IInv

(* Nothing is read while a request is in progress. *)
LEMMA NotLoading ==
  ASSUME IInv, NEW p \in Operators, operators[p] # Idle
  PROVE  ~loading
BY DEF IInv, Quiet

(* The request ends with an error. *)
LEMMA FailureKept ==
  ASSUME IInv, TypeOK', UNCHANGED overlapping,
         NEW p \in Operators, operators[p] # Idle, Fails(p),
         UNCHANGED <<files, up, loading, saved, mem, edits>>
  PROVE  IInv'
<1>1. Idle \in Op /\ SaveShape(Idle)' /\ Steps(p, Idle) /\ failing'
  BY DEF Op, SaveShape, Idle, Fails
<1>2. ~loading
  BY NotLoading
<1> QED
  BY <1>1, <1>2, FilesKept

----------------------------------------------------------------------------
(* The steps of a request.                                                 *)

(* An edit changes the memory before anything is copied. *)
LEMMA EditKept ==
  ASSUME IInv, TypeOK', UNCHANGED overlapping,
         NEW p \in Operators, Edit(p)
  PROVE  IInv'
<1> DEFINE op == [at |-> "marshal"]
<1>1. op \in Op /\ op # Idle /\ SaveShape(op)'
  BY DEF Op, Idle, SaveShape
<1>2. Quiet /\ ~loading
  BY DEF Edit, IInv
<1>3. Steps(p, op) /\ UNCHANGED <<files, up, loading, saved>>
  BY DEF Edit
<1> QED
  BY <1>1, <1>2, <1>3, FilesKept

(* The copy is the memory. *)
LEMMA MarshalKept ==
  ASSUME IInv, TypeOK', UNCHANGED overlapping,
         NEW p \in Operators, Marshal(p)
  PROVE  IInv'
<1> DEFINE op == [at |-> "open", state |-> mem]
<1>1. operators[p] # Idle
  BY DEF Marshal, Idle
<1>2. mem \in States /\ ~loading
  BY <1>1, NotLoading DEF IInv, TypeOK
<1>3. /\ Steps(p, op) /\ UNCHANGED <<files, up, loading, saved>>
      /\ UNCHANGED mem
  BY DEF Marshal, Marshalled, history
<1>4. op \in Op /\ op # Idle /\ SaveShape(op)'
  BY <1>2, <1>3 DEF Op, Idle, SaveShape
<1> QED
  BY <1>1, <1>2, <1>3, <1>4, FilesKept

(* A step that writes to the temporary file and leaves the state file      *)
(* alone keeps the invariant if its request stays in shape.                *)
LEMMA TmpWritten ==
  ASSUME IInv, TypeOK', UNCHANGED overlapping,
         NEW p \in Operators, operators[p] # Idle,
         NEW op \in Op, op # Idle, Steps(p, op),
         NEW n \in Inodes, n # path, tmp' = n,
         NEW text \in Seq(Blocks), content' = [content EXCEPT ![n] = text],
         UNCHANGED <<mem, up, edits, path, loading, history>>,
         SaveShape(op)'
  PROVE  IInv'
<1>1. path # None => content'[path] = content[path]
  BY DEF IInv, TypeOK
<1>2. FileShape'
  BY <1>1 DEF IInv, FileShape, history
<1>3. \A q \in Operators : SaveShape(operators[q])'
  BY ShapesKept
<1>4. ~loading' /\ ~Quiet' /\ Alone'
  BY OneMoves, NotLoading
<1> QED
  BY <1>2, <1>3, <1>4 DEF IInv

(* The temporary file is another inode than the state file. *)
LEMMA OpenKept ==
  ASSUME IInv, TypeOK', UNCHANGED overlapping,
         NEW p \in Operators, Open(p)
  PROVE  IInv'
<1>1. PICK n \in Target :
        /\ tmp' = n
        /\ content' = [content EXCEPT ![n] = <<>>]
        /\ Steps(p, [at |-> "write", state |-> operators[p].state, inode |-> n, done |-> 0])
  BY DEF Open
<1>2. /\ operators[p] # Idle /\ operators[p].at = "open"
      /\ UNCHANGED <<mem, up, edits, path, loading, history>>
  BY DEF Open, Idle
<1>3. n \in Inodes /\ n # path /\ n # None
  BY PolicyStoreAssumption DEF Target, InUse, IInv, TypeOK
<1>4. operators[p].state = mem /\ mem \in States
  BY <1>2 DEF IInv, SaveShape, TypeOK
<1>5. PICK op \in Op : op = [at |-> "write", state |-> mem, inode |-> n, done |-> 0]
  BY <1>3, <1>4 DEF Op
<1>6. op # Idle /\ Steps(p, op)
  BY <1>1, <1>4, <1>5 DEF Idle
<1>7. SaveShape(op)'
  <2>1. content'[tmp'] = Begun(mem', 0)
    BY <1>1, <1>2, <1>3, <1>4, BegunType DEF IInv, TypeOK
  <2>2. 0 < Length[mem'] /\ tmp' # None
    BY <1>1, <1>2, <1>3, <1>4, WholeDocument
  <2>3. op.at = "write" /\ op.state = mem' /\ op.inode = tmp' /\ op.done = 0
    BY <1>1, <1>2, <1>5
  <2> QED
    BY <2>1, <2>2, <2>3 DEF SaveShape
<1>8. <<>> \in Seq(Blocks)
  OBVIOUS
<1> QED
  BY <1>1, <1>2, <1>3, <1>6, <1>7, <1>8, TmpWritten

(* The blocks arrive in order, in the temporary file. *)
LEMMA WriteKept ==
  ASSUME IInv, TypeOK', UNCHANGED overlapping,
         NEW p \in Operators, Write(p)
  PROVE  IInv'
<1> DEFINE i == operators[p].done + 1
<1>1. /\ operators[p].at = "write" /\ operators[p] # Idle
      /\ UNCHANGED <<mem, up, edits, path, tmp, loading, history>>
  BY DEF Write, Idle
<1>2. /\ operators[p].state = mem /\ mem \in States
      /\ operators[p].inode = tmp /\ tmp \in Inodes /\ tmp # path /\ tmp # None
      /\ operators[p].done \in Nat /\ operators[p].done < Length[mem]
      /\ content[tmp] = Begun(mem, operators[p].done)
  BY <1>1, OpTypes DEF IInv, SaveShape, TypeOK
<1>3. Overwritten(content[tmp], i, <<mem, i>>) = Begun(mem, i)
  BY <1>2, BlockContinues
<1>4. content' = [content EXCEPT ![tmp] = Begun(mem, i)]
  <2>1. content' = [content EXCEPT ![tmp] = Overwritten(content[tmp], i, <<mem, i>>)]
    BY <1>2 DEF Write
  <2> QED
    BY <1>3, <2>1
<1>5. i \in Nat /\ Begun(mem, i) \in Seq(Blocks)
  <2>1. i \in Nat
    BY <1>2
  <2> HIDE DEF i
  <2> QED
    BY <1>2, <2>1, BegunType
<1>6. content'[tmp'] = Begun(mem', i)
  BY <1>1, <1>2, <1>4 DEF IInv, TypeOK
<1>7. CASE i = Length[mem]
  <2>1. PICK op \in Op : op = [at |-> "chmod", state |-> mem]
    BY <1>2 DEF Op
  <2>2. op # Idle /\ Steps(p, op)
    BY <1>2, <1>7, <2>1 DEF Write, Idle
  <2>3. content'[tmp'] = Document(mem') /\ op.at = "chmod" /\ op.state = mem' /\ tmp' # None
    BY <1>1, <1>2, <1>6, <1>7, <2>1, WholeDocument
  <2>4. SaveShape(op)'
    BY <2>3 DEF SaveShape
  <2> QED
    BY <1>1, <1>2, <1>4, <1>5, <2>2, <2>4, TmpWritten
<1>8. CASE i # Length[mem]
  <2>1. PICK op \in Op : op = [at |-> "write", state |-> mem, inode |-> tmp, done |-> i]
    BY <1>2, <1>5 DEF Op
  <2>2. op # Idle /\ Steps(p, op)
    BY <1>2, <1>8, <2>1 DEF Write, Idle
  <2>3. i < Length[mem']
    BY <1>1, <1>2, <1>8, WholeDocument
  <2>4. op.at = "write" /\ op.state = mem' /\ op.inode = tmp' /\ op.done = i /\ tmp' # None
    BY <1>1, <1>2, <2>1
  <2>5. SaveShape(op)'
    BY <1>6, <2>3, <2>4 DEF SaveShape
  <2> QED
    BY <1>1, <1>2, <1>4, <1>5, <2>2, <2>5, TmpWritten
<1> QED
  BY <1>7, <1>8

(* The temporary file is there when its mode is set. *)
LEMMA ChmodKept ==
  ASSUME IInv, TypeOK', UNCHANGED overlapping,
         NEW p \in Operators, Chmod(p)
  PROVE  IInv'
<1>1. /\ operators[p].at = "chmod" /\ operators[p] # Idle
      /\ UNCHANGED <<mem, up, edits, files, loading, saved>>
  BY DEF Chmod, Idle
<1>2. /\ operators[p].state = mem /\ mem \in States
      /\ tmp # None /\ content[tmp] = Document(mem)
  BY <1>1 DEF IInv, SaveShape, TypeOK
<1>3. PICK op \in Op : op = [at |-> "rename", state |-> mem]
  BY <1>2 DEF Op
<1>4. op # Idle /\ Steps(p, op) /\ UNCHANGED failing
  BY <1>2, <1>3 DEF Chmod, Idle
<1>5. op.at = "rename" /\ op.state = mem' /\ tmp' # None /\ content'[tmp'] = Document(mem')
  BY <1>1, <1>2, <1>3 DEF files
<1>6. SaveShape(op)'
  BY <1>5 DEF SaveShape
<1>7. ~loading
  BY <1>1, NotLoading
<1> QED
  BY <1>1, <1>4, <1>6, <1>7, FilesKept

(* The rename puts the copy, which is the memory, on disk. *)
LEMMA RenameKept ==
  ASSUME IInv, TypeOK', UNCHANGED overlapping,
         NEW p \in Operators, Rename(p)
  PROVE  IInv' /\ saved' = mem /\ mem' = mem
<1>1. /\ operators[p].at = "rename" /\ operators[p] # Idle
      /\ UNCHANGED <<mem, up, edits, content, loading>>
  BY DEF Rename, Idle
<1>2. /\ operators[p].state = mem /\ mem \in States
      /\ tmp # None /\ tmp \in Inodes /\ content[tmp] = Document(mem)
  BY <1>1 DEF IInv, SaveShape, TypeOK
<1>3. path' = tmp /\ tmp' = None /\ saved' = mem /\ Steps(p, Idle) /\ UNCHANGED failing
  BY <1>2 DEF Rename
<1>4. Idle \in Op
  BY DEF Op
<1>5. SaveShape(Idle)'
  BY DEF SaveShape, Idle
<1>6. FileShape'
  BY <1>1, <1>2, <1>3 DEF FileShape
<1>7. \A q \in Operators : SaveShape(operators[q])'
  BY <1>1, <1>3, <1>4, <1>5, ShapesKept
<1>8. ~loading' /\ mem' = saved' /\ Alone'
  BY <1>1, <1>3, <1>4, NotLoading, OneMoves
<1> QED
  BY <1>1, <1>3, <1>6, <1>7, <1>8 DEF IInv

----------------------------------------------------------------------------
(* Every step.                                                             *)

(* A request keeps the invariant, also when one of its steps fails. *)
LEMMA SaveKept ==
  ASSUME IInv, TypeOK', UNCHANGED overlapping,
         NEW p \in Operators, Save(p)
  PROVE  IInv'
<1>1. CASE OpenFails(p) \/ WriteFails(p) \/ RenameFails(p)
  <2>1. /\ operators[p] # Idle /\ Fails(p)
        /\ UNCHANGED <<files, up, loading, saved, mem, edits>>
    BY <1>1 DEF OpenFails, WriteFails, RenameFails, Idle
  <2> QED
    BY <2>1, FailureKept
<1> QED
  BY <1>1, EditKept, MarshalKept, OpenKept, WriteKept, ChmodKept, RenameKept DEF Save

(* configure begins only when no request is in progress. *)
LEMMA ReadFirstKept ==
  ASSUME IInv, TypeOK', UNCHANGED overlapping,
         ReadFirst
  PROVE  IInv'
<1>1. Quiet /\ loading' /\ UNCHANGED <<mem, up, edits, path, tmp, content, operators, saved, failing>>
  BY DEF ReadFirst, IInv, files, history
<1>3. FileShape' /\ (\A p \in Operators : SaveShape(operators[p])') /\ Quiet' /\ Alone'
  BY <1>1 DEF IInv, FileShape, SaveShape, Quiet, Alone
<1> QED
  BY <1>1, <1>3 DEF IInv

(* configure takes what was saved into memory. *)
LEMMA ReadSecondKept ==
  ASSUME IInv, TypeOK', UNCHANGED overlapping,
         ReadSecond
  PROVE  IInv' /\ mem' = saved /\ saved' = saved
<1>1. /\ Quiet /\ ~loading' /\ failing' \in BOOLEAN /\ up'
      /\ UNCHANGED <<edits, path, tmp, content, operators, saved>>
  BY DEF ReadSecond, IInv, files, TypeOK
<1>2. mem' = saved /\ saved \in States
  <2>1. FileState = saved /\ saved \in States
    BY FileIsSaved DEF IInv, TypeOK
  <2>2. saved # Torn
    BY <2>1, PolicyStoreAssumption DEF States, Torn
  <2> QED
    BY <2>1, <2>2 DEF ReadSecond
<1>3. FileShape'
  BY <1>1 DEF IInv, FileShape
<1>4. \A p \in Operators : operators'[p] = Idle
  BY <1>1 DEF Quiet
<1>5. (\A p \in Operators : SaveShape(operators[p])') /\ Alone'
  BY <1>4 DEF SaveShape, Idle, Alone
<1> QED
  BY <1>1, <1>2, <1>3, <1>5 DEF IInv

(* The files outlive the process. *)
LEMMA CrashKept ==
  ASSUME IInv, TypeOK', UNCHANGED overlapping,
         Crash
  PROVE  IInv'
<1>1. /\ mem' = Empty /\ ~loading' /\ failing' /\ up' = FALSE
      /\ UNCHANGED <<edits, path, tmp, content, saved>>
      /\ operators' = [p \in Operators |-> Idle]
  BY DEF Crash, files
<1>2. FileShape'
  BY <1>1 DEF IInv, FileShape
<1>3. (\A p \in Operators : SaveShape(operators[p])') /\ Alone'
  BY <1>1 DEF SaveShape, Idle, Alone
<1> QED
  BY <1>1, <1>2, <1>3 DEF IInv

(* Every step keeps the invariant. *)
LEMMA Inductive ==
  ASSUME IInv, [Next]_vars
  PROVE  IInv'
<1>1. TypeOK' /\ UNCHANGED overlapping
  BY Typed DEF IInv, Next, vars
<1>2. CASE UNCHANGED vars
  BY <1>2 DEF vars, files, IInv, TypeOK, FileShape, SaveShape, Quiet, Alone
<1> QED
  BY <1>1, <1>2, SaveKept, ReadFirstKept, ReadSecondKept, CrashKept DEF Next

(* It holds in the beginning, unless requests overlap. *)
LEMMA Initially ==
  ASSUME Init, ~overlapping
  PROVE  IInv
<1>1. FileShape /\ ~loading /\ ~up
  BY DEF Init, FileShape
<1>2. (\A p \in Operators : SaveShape(operators[p])) /\ Alone
  BY DEF Init, SaveShape, Idle, Alone
<1> QED
  BY <1>1, <1>2, TypedInitially DEF IInv

(* Whether requests overlap is fixed, and unless they do it always holds. *)
LEMMA Always == Spec => [](~overlapping => IInv)
<1>1. Init => (~overlapping => IInv)
  BY Initially
<1>2. (~overlapping => IInv) /\ [Next]_vars => (~overlapping => IInv)'
  BY Inductive DEF Next, vars
<1> QED
  BY <1>1, <1>2, PTL DEF Spec

----------------------------------------------------------------------------
(* What the store promises.                                                *)

(* Type correctness of the store, whatever overlaps. *)
THEOREM TypeInvariant == Spec => []TypeOK
<1>1. Init => TypeOK
  BY TypedInitially
<1>2. TypeOK /\ [Next]_vars => TypeOK'
  BY Typed
<1> QED
  BY <1>1, <1>2, PTL DEF Spec

(* A save that was answered with success is never lost, whatever save      *)
(* fails, whenever the process dies (saveV4State writes a temporary file   *)
(* and renames it), unless requests overlap.                               *)
THEOREM SavesSurvive == Spec => []SavedSurvives
<1>1. (~overlapping => IInv) => SavedSurvives
  <2>1. IInv => saved \in Int
    BY PolicyStoreAssumption DEF IInv, TypeOK, States
  <2> QED
    BY <2>1, FileIsSaved DEF SavedSurvives
<1> QED
  BY <1>1, Always, PTL

(* Between requests the memory is what a restart would load, unless a      *)
(* request was answered with an error (handleAPIV4 leaves the edit in      *)
(* memory when saving it fails) or requests overlap.                       *)
THEOREM MemoryIsOnDisk == Spec => []MemoryOnDisk
<1>1. (~overlapping => IInv) => MemoryOnDisk
  BY FileIsSaved DEF MemoryOnDisk, IInv
<1> QED
  BY <1>1, Always, PTL

(* Memory and state file are an atomic store unless requests overlap:      *)
(* although a save takes many steps, any of which may fail or be the last  *)
(* one of the process, the state file goes from one whole state to         *)
(* another, the one in memory, at once.                                    *)
THEOREM RefinesAtomicStore == Spec => ImplementsAtomicStore
<1> DEFINE M == IF overlapping THEN Empty ELSE mem
           D == IF overlapping THEN Empty ELSE FileState
           J == ~overlapping => IInv
<1>1. Init => Abstract!Init
  <2>1. Init /\ ~overlapping => FileState = saved
    BY Initially, FileIsSaved
  <2> QED
    BY <2>1 DEF Init, Abstract!Init
<1>2. J /\ J' /\ [Next]_vars => [Abstract!Next]_<<M, D>>
  <2> SUFFICES ASSUME J, J', [Next]_vars
               PROVE  [Abstract!Next]_<<M, D>>
    OBVIOUS
  <2>1. UNCHANGED overlapping
    BY DEF Next, vars
  <2>2. CASE overlapping
    BY <2>1, <2>2
  <2>3. ASSUME ~overlapping
        PROVE  [Abstract!Next]_<<M, D>>
    <3>1. IInv /\ IInv' /\ TypeOK' /\ M = mem /\ M' = mem'
      BY <2>1, <2>3 DEF IInv
    <3>2. D = saved /\ D' = saved' /\ mem' \in States
      BY <2>1, <2>3, <3>1, FileIsSaved DEF TypeOK
    <3> HIDE DEF M, D
    <3>3. CASE \E p \in Operators : Rename(p)
      <4>1. saved' = mem /\ mem' = mem
        BY <2>1, <3>1, <3>3, RenameKept
      <4> QED
        BY <3>1, <3>2, <4>1 DEF Abstract!Next, Abstract!Save, M, D
    <3>4. CASE ReadSecond
      <4>1. mem' = saved /\ saved' = saved
        BY <2>1, <3>1, <3>4, ReadSecondKept
      <4> QED
        BY <3>1, <3>2, <4>1 DEF Abstract!Next, Abstract!Load, M, D
    <3>5. CASE Crash
      BY <3>1, <3>2, <3>5 DEF Crash, Abstract!Next, Abstract!Die, M, D
    <3>6. CASE \E p \in Operators : Edit(p)
      BY <3>1, <3>2, <3>6 DEF Edit, Abstract!Next, Abstract!Edit, M, D
    <3>7. CASE \E p \in Operators :
                 \/ Marshal(p) \/ Open(p) \/ OpenFails(p) \/ Write(p)
                 \/ WriteFails(p) \/ Chmod(p) \/ RenameFails(p)
      BY <3>1, <3>2, <3>7 DEF Marshal, Open, OpenFails, Write, WriteFails, Chmod, RenameFails, history
    <3>8. CASE ReadFirst \/ UNCHANGED vars
      BY <3>1, <3>2, <3>8 DEF ReadFirst, vars, history
    <3> QED
      BY <3>3, <3>4, <3>5, <3>6, <3>7, <3>8 DEF Next, Save
  <2> QED
    BY <2>2, <2>3
<1> QED
  BY <1>1, <1>2, Always, PTL DEF Spec, ImplementsAtomicStore, Abstract!Spec

----------------------------------------------------------------------------
(* Overlapping requests.  A save that succeeds renames one temporary file, *)
(* and only opening one that is gone makes a new one.  So once two saves   *)
(* share a temporary file, or it was renamed under a save, one of the      *)
(* saves in progress will miss its own and fail: nothing needs to be known *)
(* of the files then.  Until that happens the saves are orderly.           *)

\* p has opened the temporary file and not renamed it yet.
Opened(p) == operators[p].at \in {"write", "chmod", "rename"}

\* One save at most has opened the temporary file, and it is still there.
Orderly ==
  \A p \in Operators : Opened(p) => tmp # None /\ \A q \in Operators : Opened(q) => q = p

\* Nothing is newer than the latest edit.
NothingNewer ==
  /\ mem <= edits /\ floor <= edits
  /\ \A p \in Operators :
       operators[p].at \in {"open", "write", "chmod", "rename"} => operators[p].state <= edits
  /\ \A n \in Inodes : \A i \in DOMAIN content[n] : content[n][i][1] <= edits

\* What an orderly save has copied, no older than the floor, and written.
CopyShape(op) ==
  /\ op.at \in {"open", "write", "chmod", "rename"} => op.state >= floor
  /\ op.at = "write" =>
       /\ op.inode = tmp
       /\ op.done < Length[op.state]
       /\ content[tmp] = Begun(op.state, op.done)
  /\ op.at \in {"chmod", "rename"} => content[tmp] = Document(op.state)

OrderlyShape ==
  /\ Quiet => FileWhole
  /\ FileState = Torn \/ FileState >= floor
  /\ ~Quiet => mem >= floor
  /\ \A p \in Operators : CopyShape(operators[p])

SharedInv ==
  /\ TypeOK
  /\ NothingNewer
  /\ ~failing /\ Orderly => OrderlyShape

(* Numbers of states. *)
LEMMA StateNumbers ==
  ASSUME TypeOK
  PROVE  /\ edits \in Nat /\ mem \in Nat /\ floor \in Int /\ FileState \in Int
         /\ States \subseteq Nat /\ Empty = 0 /\ Empty \in States
         /\ Torn = -1 /\ Torn \notin States /\ Hole = <<-1, 0>>
         /\ FileState \in States \cup {Torn}
<1>1. States \subseteq Nat /\ Empty = 0 /\ Empty \in States /\ Torn = -1 /\ Torn \notin States
  BY PolicyStoreAssumption DEF States, Empty, Torn
<1>2. edits \in Nat /\ mem \in Nat /\ floor \in Int
  BY <1>1, PolicyStoreAssumption DEF TypeOK
<1> QED
  BY <1>1, <1>2, FileStateType DEF Hole

(* The state file is not newer than the latest edit. *)
LEMMA FileNotNewer ==
  ASSUME TypeOK, NothingNewer
  PROVE  FileState <= edits
<1>1. ASSUME NEW n \in Inodes, NEW v \in States, content[n] = Document(v)
      PROVE  v <= edits
  <2>1. Document(v) = Begun(v, Length[v]) /\ Length[v] \in Nat \ {0}
    BY WholeDocument
  <2>2. 1 \in DOMAIN Document(v) /\ Document(v)[1] = <<v, 1>>
    BY <2>1 DEF Begun
  <2>3. content[n][1][1] <= edits
    BY <1>1, <2>2 DEF NothingNewer
  <2> QED
    BY <1>1, <2>2, <2>3
<1>2. CASE path = None
  BY <1>2, StateNumbers DEF FileState
<1>3. CASE path # None
  <2>1. path \in Inodes
    BY <1>3 DEF TypeOK
  <2>2. FileState \in {Empty, Torn} \/ (FileState \in States /\ content[path] = Document(FileState))
    BY <1>3 DEF FileState, Decoded
  <2> QED
    BY <1>1, <2>1, <2>2, StateNumbers
<1> QED
  BY <1>2, <1>3

(* A whole file decodes. *)
LEMMA WholeDecodes ==
  ASSUME TypeOK, FileWhole
  PROVE  FileState # Torn
BY StateNumbers, DocumentDecodes DEF FileWhole, FileState

(* A step of a request is the only one. *)
LEMMA Moves ==
  ASSUME TypeOK, NEW p \in Operators, NEW op, Steps(p, op)
  PROVE  /\ operators'[p] = op
         /\ \A q \in Operators \ {p} : operators'[q] = operators[q]
         /\ op # Idle => ~Quiet'
BY DEF TypeOK, Steps, Quiet

(* What a request may copy from: nothing newer than the latest edit. *)
LEMMA NewerKept ==
  ASSUME TypeOK, NothingNewer, NEW p \in Operators, NEW op, Steps(p, op),
         edits' >= edits, edits' \in Nat, mem' <= edits', floor' <= edits',
         op.at \in {"open", "write", "chmod", "rename"} => op.state <= edits',
         \A n \in Inodes : \A i \in DOMAIN content'[n] : content'[n][i][1] <= edits'
  PROVE  NothingNewer'
<1>1. ASSUME NEW q \in Operators,
             operators'[q].at \in {"open", "write", "chmod", "rename"}
      PROVE  operators'[q].state <= edits'
  <2>1. CASE q = p
    BY <1>1, <2>1, Moves
  <2>2. CASE q # p
    <3>1. operators[q] = operators'[q] /\ operators[q] \in Op
      BY <2>2, Moves DEF TypeOK
    <3>2. operators[q].state <= edits /\ operators[q].state \in Nat
      BY <1>1, <3>1, OpTypes, StateNumbers DEF NothingNewer
    <3> QED
      BY <3>1, <3>2, StateNumbers
  <2> QED
    BY <2>1, <2>2
<1> QED
  BY <1>1 DEF NothingNewer

(* No step makes anything newer than the latest edit.                      *)
LEMMA NothingNewerKept ==
  ASSUME TypeOK, NothingNewer, [Next]_vars
  PROVE  NothingNewer'
<1> USE DEF history
<1>1. /\ edits \in Nat /\ mem \in Nat /\ floor \in Int /\ FileState \in Int
      /\ edits >= edits /\ mem <= edits /\ floor <= edits /\ FileState <= edits /\ Empty <= edits
      /\ \A n \in Inodes : \A i \in DOMAIN content[n] : content[n][i][1] <= edits
  BY StateNumbers, FileNotNewer DEF NothingNewer
<1>2. Idle.at \notin {"open", "write", "chmod", "rename"}
  BY DEF Idle
<1>3. ASSUME NEW p \in Operators, operators[p].at \in {"open", "write", "chmod", "rename"}
      PROVE  operators[p].state <= edits
  BY <1>3 DEF NothingNewer
<1>4. ASSUME NEW p \in Operators, Fails(p),
             UNCHANGED <<mem, up, edits, files, loading, saved, floor>>
      PROVE  NothingNewer'
  BY <1>1, <1>2, <1>4, NewerKept DEF Fails, files
<1>5. ASSUME NEW p \in Operators, Edit(p) PROVE NothingNewer'
  <2> DEFINE op == [at |-> "marshal"]
  <2>1. Steps(p, op) /\ op.at \notin {"open", "write", "chmod", "rename"}
    BY <1>5 DEF Edit
  <2>2. /\ edits' = edits + 1 /\ mem' = edits + 1 /\ floor' \in {FileState, floor}
        /\ content' = content
    BY <1>5 DEF Edit, files
  <2>3. /\ edits' >= edits /\ edits' \in Nat /\ mem' <= edits' /\ floor' <= edits'
    BY <1>1, <2>2
  <2>4. ASSUME NEW n \in Inodes, NEW i \in DOMAIN content[n] PROVE content[n][i][1] <= edits'
    <3>1. content[n][i] \in (States \X Nat) \cup {Hole}
      BY DEF TypeOK
    <3>2. content[n][i][1] \in Int
      BY <3>1, StateNumbers
    <3> QED
      BY <1>1, <2>2, <3>2
  <2> HIDE DEF op
  <2> QED
    BY <2>1, <2>2, <2>3, <2>4, NewerKept
<1>6. ASSUME NEW p \in Operators, Marshal(p) PROVE NothingNewer'
  <2> DEFINE op == [at |-> "open", state |-> mem]
  <2>1. Steps(p, op) /\ op.state = mem /\ UNCHANGED <<mem, edits, files, floor>>
    BY <1>6 DEF Marshal, Marshalled
  <2> HIDE DEF op
  <2> QED
    BY <1>1, <2>1, NewerKept DEF files
<1>7. ASSUME NEW p \in Operators, Open(p) PROVE NothingNewer'
  <2>1. PICK n \in Target :
          /\ content' = [content EXCEPT ![n] = <<>>]
          /\ Steps(p, [at |-> "write", state |-> operators[p].state, inode |-> n, done |-> 0])
    BY <1>7 DEF Open
  <2> DEFINE op == [at |-> "write", state |-> operators[p].state, inode |-> n, done |-> 0]
  <2>2. Steps(p, op) /\ op.state <= edits /\ UNCHANGED <<mem, edits, floor>>
    BY <1>3, <1>7, <2>1 DEF Open
  <2>3. \A m \in Inodes : content'[m] \in {content[m], <<>>}
    BY <2>1 DEF TypeOK
  <2>4. \A m \in Inodes : \A i \in DOMAIN content'[m] : content'[m][i][1] <= edits
    BY <1>1, <2>3
  <2> HIDE DEF op
  <2> QED
    BY <1>1, <2>2, <2>4, NewerKept
<1>8. ASSUME NEW p \in Operators, Write(p) PROVE NothingNewer'
  <2>1. PICK o, i, m : o = operators[p] /\ i = o.done + 1 /\ m = o.inode
    OBVIOUS
  <2>2. o.at = "write" /\ o.state <= edits /\ o.state \in States /\ m \in Inodes
    BY <1>3, <1>8, <2>1, OpTypes DEF Write, TypeOK
  <2>3. /\ content' = [content EXCEPT ![m] = Overwritten(content[m], i, <<o.state, i>>)]
        /\ UNCHANGED <<mem, edits, floor>>
    BY <1>8, <2>1 DEF Write
  <2>4. PICK op : Steps(p, op) /\ op.state = o.state
    BY <1>8, <2>1 DEF Write
  <2>5. ASSUME NEW k \in DOMAIN Overwritten(content[m], i, <<o.state, i>>)
        PROVE  Overwritten(content[m], i, <<o.state, i>>)[k][1] <= edits
    <3>1. content[m] \in Seq((States \X Nat) \cup {Hole}) /\ o.done \in Nat
      BY <1>8, <2>1, <2>2, OpTypes DEF TypeOK
    <3>2. i \in Nat /\ i > 0
      BY <2>1, <3>1
    <3>3. k \in Nat /\ k >= 1
      BY <3>1, <3>2 DEF Overwritten
    <3>4. Overwritten(content[m], i, <<o.state, i>>)[k] =
            IF k = i THEN <<o.state, i>> ELSE IF k <= Len(content[m]) THEN content[m][k] ELSE Hole
      BY DEF Overwritten
    <3>5. k <= Len(content[m]) => content[m][k][1] <= edits
      BY <1>1, <2>2, <3>1, <3>3
    <3>6. Hole[1] <= edits
      BY <1>1, StateNumbers
    <3> QED
      BY <2>2, <3>4, <3>5, <3>6
  <2>6. \A n \in Inodes : n # m => content'[n] = content[n]
    BY <2>3 DEF TypeOK
  <2>7. content'[m] = Overwritten(content[m], i, <<o.state, i>>)
    BY <2>2, <2>3 DEF TypeOK
  <2>8. \A n \in Inodes : \A k \in DOMAIN content'[n] : content'[n][k][1] <= edits
    BY <1>1, <2>5, <2>6, <2>7
  <2> QED
    BY <1>1, <2>2, <2>3, <2>4, <2>8, NewerKept
<1>9. ASSUME NEW p \in Operators, Chmod(p) PROVE NothingNewer'
  <2>1. CASE tmp = None
    BY <1>4, <1>9, <2>1 DEF Chmod, Missing
  <2>2. CASE tmp # None
    <3> DEFINE op == [at |-> "rename", state |-> operators[p].state]
    <3>1. Steps(p, op) /\ op.state <= edits /\ UNCHANGED <<mem, edits, files, floor>>
      BY <1>3, <1>9, <2>2 DEF Chmod
    <3> HIDE DEF op
    <3> QED
      BY <1>1, <3>1, NewerKept DEF files
  <2> QED
    BY <2>1, <2>2
<1>10. ASSUME NEW p \in Operators, Rename(p) PROVE NothingNewer'
  <2>1. Steps(p, Idle) /\ UNCHANGED <<mem, edits, content, floor>>
    BY <1>10 DEF Rename, Missing, Fails
  <2> QED
    BY <1>1, <1>2, <2>1, NewerKept
<1>11. ASSUME ReadFirst \/ ReadSecond PROVE NothingNewer'
  <2>1. /\ mem' \in {mem, Empty, FileState} /\ floor' \in {floor, Empty, FileState}
        /\ UNCHANGED <<edits, content, operators>>
    BY <1>11 DEF ReadFirst, ReadSecond, files
  <2> QED
    BY <1>1, <2>1 DEF NothingNewer
<1>12. ASSUME Crash PROVE NothingNewer'
  <2>1. /\ mem' = Empty /\ UNCHANGED <<edits, content, floor>>
        /\ operators' = [p \in Operators |-> Idle]
    BY <1>12 DEF Crash, files
  <2> QED
    BY <1>1, <1>2, <2>1 DEF NothingNewer
<1>13. CASE UNCHANGED vars
  BY <1>13 DEF vars, NothingNewer
<1>14. ASSUME NEW p \in Operators, OpenFails(p) \/ WriteFails(p) \/ RenameFails(p)
       PROVE  NothingNewer'
  BY <1>4, <1>14 DEF OpenFails, WriteFails, RenameFails
<1> QED
  BY <1>5, <1>6, <1>7, <1>8, <1>9, <1>10, <1>11, <1>12, <1>13, <1>14 DEF Next, Save

(* The shape of an orderly save that has opened nothing depends on the     *)
(* floor alone.                                                            *)
LEMMA UnopenedShape ==
  ASSUME TypeOK, NEW q \in Operators, ~Opened(q), CopyShape(operators[q]),
         floor' <= floor, floor' \in Int, operators'[q] = operators[q]
  PROVE  CopyShape(operators[q])'
<1>1. operators[q].at = "open" => operators[q].state \in Nat /\ operators[q].state >= floor
  BY OpTypes, StateNumbers DEF TypeOK, CopyShape
<1>2. floor \in Int
  BY StateNumbers
<1>3. operators[q].at \notin {"write", "chmod", "rename"}
  BY DEF Opened
<1>4. operators[q].at = "open" => operators[q].state >= floor'
  BY <1>1, <1>2
<1> QED
  BY <1>3, <1>4 DEF CopyShape

(* A step of a request that is not alone with the temporary file: if the   *)
(* saves are orderly afterwards, they were before.                         *)
LEMMA OrderlyBefore ==
  ASSUME TypeOK, NEW p \in Operators, NEW op, Steps(p, op), Orderly',
         Opened(p) => Opened(p)' /\ tmp # None,
         ~Opened(p)' => tmp' = tmp
  PROVE  Orderly
<1>1. \A q \in Operators : Opened(q) => Opened(q)'
  BY Moves DEF Opened
<1>2. CASE Opened(p)
  BY <1>1, <1>2 DEF Orderly
<1>3. CASE ~Opened(p) /\ Opened(p)'
  BY <1>1, <1>3 DEF Orderly
<1>4. CASE ~Opened(p) /\ ~Opened(p)'
  BY <1>1, <1>4 DEF Orderly
<1> QED
  BY <1>2, <1>3, <1>4

(* The shape after a step of a request that leaves the state file, the     *)
(* floor and, for those that have opened it, the temporary file alone.     *)
LEMMA ShapeAfterStep ==
  ASSUME TypeOK, OrderlyShape, NEW p \in Operators, NEW op, op # Idle, Steps(p, op),
         FileState' = FileState, floor' = floor, mem' >= floor,
         CopyShape(op)',
         \A q \in Operators \ {p} : ~Opened(q) \/ UNCHANGED <<tmp, content>>
  PROVE  OrderlyShape'
<1>1. floor \in Int /\ floor <= floor
  BY StateNumbers
<1>2. ASSUME NEW q \in Operators PROVE CopyShape(operators[q])'
  <2>1. CASE q = p
    BY <2>1, Moves
  <2>2. CASE q # p /\ ~Opened(q)
    BY <1>1, <2>2, Moves, UnopenedShape DEF OrderlyShape
  <2>3. CASE q # p /\ UNCHANGED <<tmp, content>>
    BY <2>3, Moves DEF OrderlyShape, CopyShape
  <2> QED
    BY <2>1, <2>2, <2>3
<1>3. ~Quiet'
  BY Moves
<1> QED
  BY <1>2, <1>3 DEF OrderlyShape

(* An edit: the first one of several at once takes the state file's state  *)
(* as the floor of all of them.                                            *)
LEMMA EditOrderly ==
  ASSUME SharedInv, NEW p \in Operators, Edit(p), ~failing', Orderly'
  PROVE  OrderlyShape'
<1> DEFINE op == [at |-> "marshal"]
<1>1. /\ TypeOK /\ NothingNewer /\ Steps(p, op) /\ op # Idle
      /\ UNCHANGED <<path, tmp, content>> /\ FileState' = FileState
      /\ mem' = edits + 1 /\ operators[p] = Idle
  BY DEF SharedInv, Edit, files, Idle, FileState
<1>2. CopyShape(op)' /\ ~Opened(p)
  BY <1>1 DEF CopyShape, Opened, Idle
<1> HIDE DEF op
<1>3. /\ edits \in Nat /\ FileState <= edits /\ floor <= edits
      /\ FileState \in Int /\ floor \in Int
  BY <1>1, StateNumbers, FileNotNewer DEF NothingNewer
<1>4. CASE Quiet
  <2>1. floor' = FileState /\ ~Quiet'
    BY <1>1, <1>4, Moves DEF Edit
  <2>2. \A q \in Operators : CopyShape(operators[q])'
    <3>1. \A q \in Operators \ {p} : operators'[q] = Idle
      BY <1>1, <1>4, Moves DEF Quiet
    <3> QED
      BY <1>1, <1>2, <3>1, Moves DEF CopyShape, Idle
  <2> QED
    BY <1>1, <1>3, <2>1, <2>2 DEF OrderlyShape
<1>5. CASE ~Quiet
  <2>1. ~failing /\ floor' = floor
    BY <1>5 DEF Edit
  <2>2. Orderly
    BY <1>1, <1>2, OrderlyBefore
  <2>3. OrderlyShape /\ mem' >= floor
    BY <1>1, <1>3, <2>1, <2>2 DEF SharedInv
  <2> QED
    BY <1>1, <1>2, <2>1, <2>3, ShapeAfterStep
<1> QED
  BY <1>4, <1>5

(* The copy of the memory is not older than the floor. *)
LEMMA MarshalOrderly ==
  ASSUME SharedInv, NEW p \in Operators, Marshal(p), ~failing', Orderly'
  PROVE  OrderlyShape'
<1>0. PICK op : op = [at |-> "open", state |-> mem]
  OBVIOUS
<1>1. /\ TypeOK /\ Steps(p, op) /\ op # Idle /\ op.at = "open" /\ op.state = mem
      /\ UNCHANGED <<mem, path, tmp, content, floor, failing>> /\ FileState' = FileState
      /\ ~Opened(p) /\ ~Quiet
  BY <1>0 DEF SharedInv, Marshal, Marshalled, files, history, Idle, FileState, Opened, Quiet
<1>2. Orderly
  BY <1>1, OrderlyBefore
<1>3. OrderlyShape /\ mem >= floor
  BY <1>1, <1>2 DEF SharedInv, OrderlyShape
<1>4. CopyShape(op)'
  BY <1>1, <1>3 DEF CopyShape
<1> QED
  BY <1>1, <1>3, <1>4, ShapeAfterStep

(* Who opens the temporary file in an orderly way is the only one.         *)
LEMMA OpenOrderly ==
  ASSUME SharedInv, NEW p \in Operators, Open(p), ~failing', Orderly'
  PROVE  OrderlyShape'
<1>1. PICK n \in Target :
        /\ tmp' = n
        /\ content' = [content EXCEPT ![n] = <<>>]
        /\ Steps(p, [at |-> "write", state |-> operators[p].state, inode |-> n, done |-> 0])
  BY DEF Open
<1>2. PICK v : v = operators[p].state
  OBVIOUS
<1> DEFINE op == [at |-> "write", state |-> v, inode |-> n, done |-> 0]
<1>3. /\ TypeOK /\ operators[p].at = "open" /\ ~Opened(p) /\ ~Quiet
      /\ UNCHANGED <<mem, path, floor, failing>>
  BY DEF SharedInv, Open, history, Opened, Quiet, Idle
<1>4. n \in Inodes /\ n # path /\ n # None /\ v \in States
  BY <1>2, <1>3, OpTypes, PolicyStoreAssumption DEF Target, InUse, TypeOK
<1>5. /\ Steps(p, op) /\ op # Idle /\ op.at = "write" /\ op.state = v
      /\ op.inode = n /\ op.done = 0
  BY <1>1, <1>2 DEF Idle
<1> HIDE DEF op
<1>6. Opened(p)'
  BY <1>3, <1>5, Moves DEF Opened
<1>7. Orderly
  BY <1>3, <1>5, <1>6, OrderlyBefore
<1>8. OrderlyShape /\ mem >= floor /\ v >= floor
  BY <1>2, <1>3, <1>7 DEF SharedInv, OrderlyShape, CopyShape
<1>9. FileState' = FileState
  BY <1>1, <1>3, <1>4 DEF FileState, TypeOK
<1>10. content'[n] = Begun(v, 0) /\ 0 < Length[v]
  <2>1. Begun(v, 0) = <<>>
    BY <1>4, BegunType
  <2> QED
    BY <1>1, <1>3, <1>4, <2>1, WholeDocument DEF TypeOK
<1>11. CopyShape(op)'
  BY <1>1, <1>3, <1>5, <1>8, <1>10 DEF CopyShape
<1>12. \A q \in Operators \ {p} : ~Opened(q)
  BY <1>3, <1>5, <1>6, Moves DEF Orderly, Opened
<1> QED
  BY <1>3, <1>5, <1>8, <1>9, <1>11, <1>12, ShapeAfterStep

(* The next block arrives behind the others of the same document.          *)
LEMMA WriteOrderly ==
  ASSUME SharedInv, NEW p \in Operators, Write(p), ~failing', Orderly'
  PROVE  OrderlyShape'
<1>1. PICK v, k, i, m : /\ v = operators[p].state /\ k = operators[p].done /\ i = k + 1
                        /\ m = operators[p].inode
  OBVIOUS
<1>2. /\ TypeOK /\ operators[p].at = "write" /\ Opened(p) /\ ~Quiet
      /\ UNCHANGED <<mem, path, tmp, floor, failing>>
      /\ v \in States /\ k \in Nat /\ i \in Nat
  BY <1>1, OpTypes DEF SharedInv, Write, history, Opened, Quiet, Idle, TypeOK
<1>3. PICK op :
        /\ Steps(p, op)
        /\ op = IF i = Length[v] THEN [at |-> "chmod", state |-> v]
                ELSE [at |-> "write", state |-> v, inode |-> m, done |-> i]
  BY <1>1 DEF Write
<1>4. op # Idle /\ op.at \in {"write", "chmod"} /\ op.state = v
  BY <1>3 DEF Idle
<1>5. Opened(p)'
  BY <1>2, <1>3, <1>4, Moves DEF Opened
<1>6. Orderly
  <2>1. tmp # None
    BY <1>2, <1>5 DEF Orderly
  <2> QED
    BY <1>2, <1>3, <1>5, <2>1, OrderlyBefore
<1>7. OrderlyShape /\ mem >= floor
  BY <1>2, <1>6 DEF SharedInv, OrderlyShape
<1>8. /\ v >= floor /\ m = tmp /\ k < Length[v] /\ content[tmp] = Begun(v, k)
      /\ tmp \in Inodes /\ tmp # path
  BY <1>1, <1>2, <1>6, <1>7 DEF OrderlyShape, CopyShape, Orderly, TypeOK
<1>9. content' = [content EXCEPT ![tmp] = Begun(v, i)]
  <2>1. content' = [content EXCEPT ![tmp] = Overwritten(content[tmp], i, <<v, i>>)]
    BY <1>1, <1>8 DEF Write
  <2>2. Overwritten(Begun(v, k), k + 1, <<v, k + 1>>) = Begun(v, k + 1)
    BY <1>2, BlockContinues
  <2> QED
    BY <1>1, <1>8, <2>1, <2>2
<1>10. content'[tmp] = Begun(v, i) /\ FileState' = FileState
  BY <1>2, <1>8, <1>9 DEF FileState, TypeOK
<1>11. CopyShape(op)'
  <2>1. CASE i = Length[v]
    <3>1. op.at = "chmod" /\ content'[tmp] = Document(v)
      BY <1>2, <1>3, <1>10, <2>1, WholeDocument
    <3> QED
      BY <1>2, <1>4, <1>8, <3>1 DEF CopyShape
  <2>2. CASE i # Length[v]
    <3>1. op.at = "write" /\ op.inode = tmp /\ op.done = i
      BY <1>3, <1>8, <2>2
    <3>2. i < Length[v]
      BY <1>1, <1>2, <1>8, <2>2, WholeDocument
    <3> QED
      BY <1>2, <1>4, <1>8, <1>10, <3>1, <3>2 DEF CopyShape
  <2> QED
    BY <2>1, <2>2
<1>12. \A q \in Operators \ {p} : ~Opened(q)
  BY <1>2, <1>6 DEF Orderly
<1> QED
  BY <1>2, <1>3, <1>4, <1>7, <1>10, <1>11, <1>12, ShapeAfterStep

(* An orderly save finds its temporary file. *)
LEMMA ChmodOrderly ==
  ASSUME SharedInv, NEW p \in Operators, Chmod(p), ~failing', Orderly'
  PROVE  OrderlyShape'
<1>1. PICK v : v = operators[p].state
  OBVIOUS
<1> DEFINE op == [at |-> "rename", state |-> v]
<1>2. /\ TypeOK /\ operators[p].at = "chmod" /\ Opened(p) /\ ~Quiet
      /\ UNCHANGED <<mem, path, tmp, content, floor>> /\ FileState' = FileState
  BY DEF SharedInv, Chmod, files, Opened, Quiet, Idle, FileState
<1>3. tmp # None /\ Steps(p, op) /\ UNCHANGED failing
  BY <1>1 DEF Chmod, Missing, Fails
<1>4. op # Idle /\ op.at = "rename" /\ op.state = v
  BY DEF Idle
<1> HIDE DEF op
<1>5. Opened(p)'
  BY <1>2, <1>3, <1>4, Moves DEF Opened
<1>6. Orderly
  BY <1>2, <1>3, <1>5, OrderlyBefore
<1>7. OrderlyShape /\ mem >= floor /\ CopyShape(operators[p])
  BY <1>2, <1>3, <1>6 DEF SharedInv, OrderlyShape
<1>8. CopyShape(op)'
  BY <1>1, <1>2, <1>4, <1>7 DEF CopyShape
<1> QED
  BY <1>2, <1>3, <1>4, <1>7, <1>8, ShapeAfterStep

(* An orderly rename makes the copy the state file, whole.                 *)
LEMMA RenameOrderly ==
  ASSUME SharedInv, NEW p \in Operators, Rename(p), ~failing', Orderly'
  PROVE  OrderlyShape'
<1>1. PICK v, n : v = operators[p].state /\ n = tmp
  OBVIOUS
<1>2. /\ TypeOK /\ operators[p].at = "rename" /\ Opened(p) /\ ~Quiet
      /\ v \in States /\ v \in Nat
      /\ UNCHANGED <<mem, content, floor>>
  BY <1>1, OpTypes, StateNumbers DEF SharedInv, Rename, Opened, Quiet, Idle, TypeOK
<1>3. n # None /\ path' = n /\ tmp' = None /\ Steps(p, Idle) /\ UNCHANGED failing
  BY <1>1 DEF Rename, Missing, Fails
<1>4. \A q \in Operators : ~Opened(q)'
  BY <1>3 DEF Orderly
<1>5. \A q \in Operators \ {p} : operators'[q] = operators[q] /\ ~Opened(q)
  BY <1>2, <1>3, <1>4, Moves DEF Opened
<1>6. OrderlyShape /\ CopyShape(operators[p]) /\ mem >= floor
  <2>1. Orderly
    BY <1>1, <1>3, <1>5 DEF Orderly
  <2> QED
    BY <1>2, <1>3, <2>1 DEF SharedInv, OrderlyShape
<1>7. v >= floor /\ content'[n] = Document(v)
  BY <1>1, <1>2, <1>6 DEF CopyShape
<1>8. FileWhole' /\ FileState' = v
  BY <1>2, <1>3, <1>7, DocumentDecodes DEF FileWhole, FileState
<1>9. \A q \in Operators : CopyShape(operators[q])'
  <2>1. CopyShape(operators[p])'
    BY <1>2, <1>3, Moves DEF CopyShape, Idle
  <2>2. floor \in Int /\ floor <= floor
    BY <1>2, StateNumbers
  <2> QED
    BY <1>2, <1>5, <1>6, <2>1, <2>2, UnopenedShape DEF OrderlyShape
<1> QED
  BY <1>2, <1>6, <1>7, <1>8, <1>9 DEF OrderlyShape

(* The first read of configure changes nothing here. *)
LEMMA ReadFirstOrderly ==
  ASSUME SharedInv, ReadFirst \/ UNCHANGED vars, ~failing', Orderly'
  PROVE  OrderlyShape'
<1>1. UNCHANGED <<mem, path, tmp, content, operators, floor, failing>>
  BY DEF ReadFirst, vars, files, history
<1>2. OrderlyShape
  BY <1>1 DEF SharedInv, Orderly, Opened
<1> QED
  BY <1>1, <1>2 DEF OrderlyShape, CopyShape, Quiet, FileWhole, FileState

(* The second read starts anew when no request is in progress, and makes   *)
(* the empty state the floor when it reads a torn file.                    *)
LEMMA ReadSecondOrderly ==
  ASSUME SharedInv, ReadSecond, ~failing', Orderly'
  PROVE  OrderlyShape'
<1>1. /\ TypeOK /\ UNCHANGED <<path, tmp, content, operators>>
      /\ mem' = IF FileState = Torn THEN Empty ELSE FileState
      /\ floor' = IF FileState = Torn THEN Empty ELSE IF Quiet THEN FileState ELSE floor
      /\ FileState' = FileState /\ Quiet' = Quiet /\ FileWhole' = FileWhole
      /\ FileState \in Int /\ floor \in Int /\ Empty \in Int
  BY StateNumbers DEF ReadSecond, files, SharedInv, FileState, Quiet, FileWhole
<1>2. CASE Quiet
  <2>1. FileWhole
    BY <1>1, <1>2 DEF ReadSecond, SharedInv, Orderly, OrderlyShape, Opened
  <2>2. FileState' >= floor'
    BY <1>1, <1>2, <2>1, WholeDecodes
  <2>3. \A q \in Operators : CopyShape(operators[q])'
    BY <1>1, <1>2 DEF CopyShape, Quiet, Idle
  <2> QED
    BY <1>1, <1>2, <2>1, <2>2, <2>3 DEF OrderlyShape
<1>3. CASE ~Quiet
  <2>1. ~failing /\ Orderly
    BY <1>1, <1>3 DEF ReadSecond, Orderly, Opened
  <2>2. OrderlyShape
    BY <2>1 DEF SharedInv
  <2>3. ASSUME FileState # Torn PROVE OrderlyShape'
    <3>1. floor' = floor /\ mem' = FileState /\ FileState >= floor
      BY <1>1, <1>3, <2>2, <2>3 DEF OrderlyShape
    <3>2. \A q \in Operators : CopyShape(operators[q])'
      BY <1>1, <2>2, <3>1 DEF OrderlyShape, CopyShape
    <3> QED
      BY <1>1, <1>3, <3>1, <3>2 DEF OrderlyShape
  <2>4. ASSUME FileState = Torn PROVE OrderlyShape'
    <3>1. floor' = Empty /\ mem' = Empty
      BY <1>1, <2>4
    <3>2. ASSUME NEW q \in Operators PROVE CopyShape(operators[q])'
      <4>1. operators[q].at \in {"open", "write", "chmod", "rename"} => operators[q].state \in States
        BY <1>1, OpTypes DEF TypeOK
      <4>2. operators[q].at \in {"open", "write", "chmod", "rename"} => operators[q].state >= Empty
        BY <1>1, <4>1, StateNumbers
      <4> QED
        BY <1>1, <2>2, <3>1, <4>2 DEF OrderlyShape, CopyShape
    <3> QED
      BY <1>1, <1>3, <2>4, <3>1, <3>2 DEF OrderlyShape
  <2> QED
    BY <2>3, <2>4
<1> QED
  BY <1>2, <1>3

(* The invariant of overlapping requests is inductive. *)
LEMMA SharedKept ==
  ASSUME SharedInv, [Next]_vars
  PROVE  SharedInv'
<1>1. TypeOK' /\ NothingNewer'
  BY Typed, NothingNewerKept DEF SharedInv
<1>2. SUFFICES ASSUME ~failing', Orderly' PROVE OrderlyShape'
  BY <1>1 DEF SharedInv
<1>3. CASE \E p \in Operators : Edit(p) \/ Marshal(p) \/ Open(p) \/ Write(p)
  BY <1>2, <1>3, EditOrderly, MarshalOrderly, OpenOrderly, WriteOrderly
<1>4. CASE \E p \in Operators : Chmod(p) \/ Rename(p)
  BY <1>2, <1>4, ChmodOrderly, RenameOrderly
<1>5. CASE \E p \in Operators : OpenFails(p) \/ WriteFails(p) \/ RenameFails(p)
  BY <1>2, <1>5 DEF OpenFails, WriteFails, RenameFails, Fails
<1>6. CASE ReadFirst \/ UNCHANGED vars
  BY <1>2, <1>6, ReadFirstOrderly
<1>7. CASE ReadSecond
  BY <1>2, <1>7, ReadSecondOrderly
<1>8. CASE Crash
  BY <1>2, <1>8 DEF Crash
<1> QED
  BY <1>3, <1>4, <1>5, <1>6, <1>7, <1>8 DEF Next, Save

(* With any number of requests at once, and configure at any time among    *)
(* them: when no request is in progress, and none failed since they began, *)
(* the state file is a whole document, of no state from before them.       *)
THEOREM WholeUnlessFailed == Spec => []WholeUnlessError
<1>1. Init => SharedInv
  <2> SUFFICES ASSUME Init PROVE SharedInv
    OBVIOUS
  <2>1. TypeOK
    BY TypedInitially
  <2>2. /\ mem = 0 /\ floor = 0 /\ edits = 0 /\ path = None /\ tmp = None
        /\ content = [n \in Inodes |-> <<>>]
        /\ \A p \in Operators : operators[p] = Idle
    BY DEF Init, Empty
  <2>3. \A n \in Inodes : DOMAIN content[n] = {}
    BY <2>2
  <2>4. NothingNewer
    BY <2>2, <2>3 DEF NothingNewer, Idle
  <2>5. FileWhole /\ FileState = 0 /\ Quiet
    BY <2>2 DEF FileWhole, FileState, Empty, Quiet
  <2>6. OrderlyShape
    BY <2>2, <2>5 DEF OrderlyShape, CopyShape, Idle
  <2> QED
    BY <2>1, <2>4, <2>6 DEF SharedInv
<1>2. SharedInv => WholeUnlessError
  <2> SUFFICES ASSUME SharedInv, Quiet, ~failing PROVE FileWhole /\ FileState >= floor
    BY DEF WholeUnlessError
  <2>1. Orderly
    BY DEF Orderly, Opened, Quiet, Idle
  <2>2. OrderlyShape /\ FileWhole
    BY <2>1 DEF SharedInv, OrderlyShape
  <2> QED
    BY <2>2, WholeDecodes DEF OrderlyShape, SharedInv
<1> QED
  BY <1>1, <1>2, SharedKept, PTL DEF Spec
=============================================================================
