---------------------------- MODULE PolicyStore ----------------------------
(***************************************************************************)
(* The policies in memory and the state file (v4_state.go).  An edit       *)
(* changes the memory under the lock; saveV4State copies the memory under  *)
(* the lock again, and then writes the copy, outside of it, to one         *)
(* temporary file that all saves share, and renames that to the state      *)
(* file.  configure reads the state file twice.                            *)
(*                                                                         *)
(* A state is a number, the edit that made it; its document is a sequence  *)
(* of blocks <<state, i>>.  Inodes keep their content across renames.      *)
(***************************************************************************)
EXTENDS Integers, Sequences, FiniteSets

CONSTANTS
  Operators,     \* management requests
  Inodes,
  MaxEdits,      \* bound on the edits
  Length,        \* the blocks of each state's document
  None

ASSUME PolicyStoreAssumption ==
  /\ MaxEdits \in Nat
  /\ Length \in [0 .. MaxEdits -> Nat \ {0}]
  /\ None \notin Inodes

VARIABLES
  overlapping,  \* whether requests and configure may overlap in this behaviour
  mem,        \* v4Runtime.state
  up,         \* configure has succeeded since the process started
  edits,      \* the edits so far
  path, tmp,  \* the inodes of the state file and of the temporary file
  content,    \* of every inode
  operators,
  loading,    \* configure is between its two reads
  saved,      \* history: the latest state whose save was answered with success
  floor,      \* history: the state of the file when the requests in progress began, or
              \* configure read it last, if none was in progress then
  failing     \* history: a save failed, or the process died, since saves began or the latest load

files == <<path, tmp, content>>
history == <<saved, floor, failing>>
vars == <<overlapping, mem, up, edits, path, tmp, content, operators, loading, saved, floor, failing>>

States == 0 .. MaxEdits
Empty == 0
Torn == -1
Hole == <<-1, 0>>

Idle == [at |-> "idle"]

\* Where a request can be.
Op ==
  {Idle, [at |-> "marshal"]}
    \cup [at : {"open", "chmod", "rename"}, state : States]
    \cup [at : {"write"}, state : States, inode : Inodes, done : Nat]

Document(state) == [i \in 1 .. Length[state] |-> <<state, i>>]

\* The state that content decodes to; an empty or missing file is the empty state.
Decoded(text) ==
  IF text = <<>> THEN Empty
  ELSE IF \E v \in States : text = Document(v)
    THEN CHOOSE v \in States : text = Document(v)
    ELSE Torn

FileState == IF path = None THEN Empty ELSE Decoded(content[path])

FileWhole == path # None => \E v \in States : content[path] = Document(v)

----------------------------------------------------------------------------

Init ==
  /\ overlapping \in BOOLEAN
  /\ mem = Empty /\ up = FALSE /\ edits = 0
  /\ path = None /\ tmp = None
  /\ content = [n \in Inodes |-> <<>>]
  /\ operators = [p \in Operators |-> Idle]
  /\ loading = FALSE
  /\ saved = Empty /\ floor = Empty /\ failing = FALSE

\* No request is in progress.
Quiet == \A p \in Operators : operators[p] = Idle

Steps(p, op) == operators' = [operators EXCEPT ![p] = op]

\* The request is answered with an error; the memory keeps the edit.
Fails(p) == Steps(p, Idle) /\ failing' = TRUE

\* save_policy, delete_policy, save_resource_alias, save_observability.
Edit(p) ==
  /\ operators[p] = Idle
  /\ up /\ edits < MaxEdits
  /\ overlapping \/ (Quiet /\ ~loading)
  /\ edits' = edits + 1
  /\ mem' = edits + 1
  /\ Steps(p, [at |-> "marshal"])
  /\ floor' = IF Quiet THEN FileState ELSE floor
  /\ failing' = (failing /\ ~Quiet)
  /\ UNCHANGED <<up, files, loading, saved>>

\* Faulty variant: the copy was made before the edit.
Marshalled_Before == IF mem > 0 THEN mem - 1 ELSE mem

Marshalled == mem

Marshal(p) ==
  /\ operators[p].at = "marshal"
  /\ Steps(p, [at |-> "open", state |-> Marshalled])
  /\ UNCHANGED <<mem, up, edits, files, loading, history>>

OpenFails(p) ==
  /\ operators[p].at = "open"
  /\ Fails(p)
  /\ UNCHANGED <<mem, up, edits, files, loading, saved, floor>>

InUse ==
  {path, tmp} \cup {operators[p].inode : p \in {x \in Operators : operators[x].at = "write"}}

\* Faulty variant: the state file is written in place.
Target_InPlace == IF path # None THEN {path} ELSE IF tmp # None THEN {tmp} ELSE Inodes \ InUse

\* The inode that opening the temporary file yields: the one it has, or a new one.
Target == IF tmp # None THEN {tmp} ELSE Inodes \ InUse

\* os.WriteFile opens and truncates.
Open(p) ==
  /\ operators[p].at = "open"
  /\ \E n \in Target :
       /\ tmp' = n
       /\ content' = [content EXCEPT ![n] = <<>>]
       /\ Steps(p, [at |-> "write", state |-> operators[p].state, inode |-> n, done |-> 0])
  /\ UNCHANGED <<mem, up, edits, path, loading, history>>

\* text with block b at position i, after a hole if text is shorter.
Overwritten(text, i, b) ==
  [k \in 1 .. (IF Len(text) > i THEN Len(text) ELSE i) |->
     IF k = i THEN b ELSE IF k <= Len(text) THEN text[k] ELSE Hole]

\* The next block goes to the inode that was opened, whatever its name is by now.
Write(p) ==
  /\ operators[p].at = "write"
  /\ LET op == operators[p]
         i == op.done + 1
     IN  /\ content' = [content EXCEPT ![op.inode] = Overwritten(@, i, <<op.state, i>>)]
         /\ Steps(p, IF i = Length[op.state]
                       THEN [at |-> "chmod", state |-> op.state]
                       ELSE [at |-> "write", state |-> op.state, inode |-> op.inode, done |-> i])
  /\ UNCHANGED <<mem, up, edits, path, tmp, loading, history>>

WriteFails(p) ==
  /\ operators[p].at = "write"
  /\ Fails(p)
  /\ UNCHANGED <<mem, up, edits, files, loading, saved, floor>>

\* Faulty variant: a temporary file that is gone is taken for renamed.
Missing_Ignored(p) == Steps(p, Idle) /\ UNCHANGED failing

\* The temporary file is gone: another save has renamed it.
Missing(p) == Fails(p)

\* chmod goes by the name.
Chmod(p) ==
  /\ operators[p].at = "chmod"
  /\ IF tmp = None
       THEN Missing(p)
       ELSE Steps(p, [at |-> "rename", state |-> operators[p].state]) /\ UNCHANGED failing
  /\ UNCHANGED <<mem, up, edits, files, loading, saved, floor>>

\* rename goes by the name, too, and replaces the state file at once.
Rename(p) ==
  /\ operators[p].at = "rename"
  /\ IF tmp = None
       THEN Missing(p) /\ UNCHANGED <<path, tmp, saved>>
       ELSE /\ path' = tmp
            /\ tmp' = None
            /\ saved' = operators[p].state
            /\ Steps(p, Idle)
            /\ UNCHANGED failing
  /\ UNCHANGED <<mem, up, edits, content, loading, floor>>

RenameFails(p) ==
  /\ operators[p].at = "rename"
  /\ Fails(p)
  /\ UNCHANGED <<mem, up, edits, files, loading, saved, floor>>

----------------------------------------------------------------------------

\* loadState: what does not decode is an error, and configure ends.
ReadFirst ==
  /\ ~loading
  /\ overlapping \/ Quiet
  /\ FileState # Torn
  /\ loading' = TRUE
  /\ UNCHANGED <<mem, up, edits, files, operators, history>>

\* configureV4 reads the file again; what does not decode now has no version, and
\* counts as a state of an older release, in which there were no policies.
ReadSecond ==
  /\ loading
  /\ loading' = FALSE
  /\ mem' = IF FileState = Torn THEN Empty ELSE FileState
  /\ up' = TRUE
  /\ floor' = IF FileState = Torn THEN Empty ELSE IF Quiet THEN FileState ELSE floor
  /\ failing' = (failing /\ ~(Quiet /\ FileWhole))
  /\ UNCHANGED <<edits, files, operators, saved>>

\* The process dies; the files stay.
Crash ==
  /\ mem' = Empty
  /\ up' = FALSE
  /\ operators' = [p \in Operators |-> Idle]
  /\ loading' = FALSE
  /\ failing' = TRUE
  /\ UNCHANGED <<edits, files, saved, floor>>

Save(p) ==
  \/ Edit(p) \/ Marshal(p)
  \/ Open(p) \/ OpenFails(p) \/ Write(p) \/ WriteFails(p)
  \/ Chmod(p) \/ Rename(p) \/ RenameFails(p)

Next ==
  /\ (\E p \in Operators : Save(p)) \/ ReadFirst \/ ReadSecond \/ Crash
  /\ UNCHANGED overlapping

Spec == Init /\ [][Next]_vars

----------------------------------------------------------------------------

TypeOK ==
  /\ overlapping \in BOOLEAN
  /\ mem \in States /\ up \in BOOLEAN /\ edits \in 0 .. MaxEdits
  /\ path \in Inodes \cup {None} /\ tmp \in Inodes \cup {None}
  /\ path = tmp => path = None
  /\ content \in [Inodes -> Seq((States \X Nat) \cup {Hole})]
  /\ operators \in [Operators -> Op]
  /\ loading \in BOOLEAN /\ saved \in States /\ failing \in BOOLEAN
  /\ floor \in States \cup {Torn}

(* As long as requests come one after the other and configure between      *)
(* them, the state file always decodes, and its state only changes to the  *)
(* one in memory: through crashes between any two steps of a save, write   *)
(* errors and reloads, memory and files are an atomic store.               *)
Abstract == INSTANCE AtomicStore WITH
  mem <- IF overlapping THEN Empty ELSE mem,
  disk <- IF overlapping THEN Empty ELSE FileState

ImplementsAtomicStore == Abstract!Spec

(* A save that was answered with success is never lost: the state file has *)
(* that state or a later one.                                              *)
SavedSurvives == ~overlapping => FileState >= saved

(* Memory and file agree whenever no request is in progress, unless the    *)
(* operator was told of a failure or the process has just started.         *)
MemoryOnDisk == ~overlapping /\ up /\ Quiet /\ ~failing => mem = FileState

(* With any number of saves at once, which share the temporary file: when  *)
(* they are over and all were answered with success, the state file is a   *)
(* whole document.  The last rename may have been that of an older copy,   *)
(* but of none from before these saves, unless configure read a torn file  *)
(* during them.                                                            *)
WholeUnlessError == Quiet /\ ~failing => FileWhole /\ FileState >= floor
=============================================================================
