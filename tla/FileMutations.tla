---------------------------- MODULE FileMutations ----------------------------
(***************************************************************************)
(* The files of a workspace, the tools of mcp.py that write them, the      *)
(* mutation ledger of safety.py that a write is recorded in and reverted   *)
(* from, the caps state.py puts on that ledger, and the turn checkpoint    *)
(* whose fingerprints tell a resumed turn which files changed meanwhile.   *)
(*                                                                         *)
(* A file's content is a number: 0 when there is no file, a new number     *)
(* for each new content.  A tool knows a content by its text only: bytes   *)
(* that are no UTF-8 are dropped, line ends are made one.  What the state  *)
(* file keeps of a text has its secrets replaced, and what it has kept is  *)
(* what a later revert writes.  Editors and other programs write the same  *)
(* files at any moment; the process may die between a write and its        *)
(* record.  Reverts run between turns, where the prompt accepts them.      *)
(***************************************************************************)
EXTENDS Integers, Sequences, FiniteSets, SequencesExt

CONSTANTS
    Paths,
    SourceFiles,       \* paths whose suffix _is_source_file lists
    Artifacts,         \* paths create_artifact generates
    MaxWritten,        \* bound: different contents written
    MaxContents,       \* these, and what decoding and redaction leave of them
    Decoded,           \* read_text(encoding="utf-8", errors="ignore") of a content
    Redacted,          \* redact_secrets of a text
    MaxOutside,        \* bound: writes and deletions by other programs
    MaxTurns,          \* bound: turns, each with its transaction_id
    MutationHistory,   \* MAX_MUTATION_HISTORY: entries the ledger keeps
    RevertBodies       \* REVERT_BODY_BUDGET_CHARS, in bodies of one size

ASSUME FileMutationsAssumption ==
    /\ SourceFiles \subseteq Paths /\ Artifacts \subseteq Paths
    /\ MaxContents \in Nat /\ MaxWritten \in 1..MaxContents /\ MaxOutside \in Nat /\ MaxTurns \in Nat
    /\ MutationHistory \in Nat \ {0} /\ RevertBodies \in Nat

Absent == 0
Unseen == -1
Contents == 0..MaxContents
Turns == 1..MaxTurns

(* Text has no bytes to drop, redacted text no secrets to replace, and     *)
(* neither turns a file into none.                                         *)
ASSUME TextAssumption ==
    /\ Decoded \in [Contents -> Contents] /\ Redacted \in [Contents -> Contents]
    /\ \A c \in Contents :
         /\ Decoded[Decoded[c]] = Decoded[c]
         /\ Redacted[Redacted[c]] = Redacted[c]
         /\ Decoded[Redacted[Decoded[c]]] = Redacted[Decoded[c]]
         /\ (Decoded[c] = Absent) = (c = Absent)
         /\ (Redacted[c] = Absent) = (c = Absent)

VARIABLES
    content,      \* of each path
    fresh,        \* the latest number given to a content
    outside,      \* changes by other programs so far
    at,           \* "prompt", "turn", "down" (crashed, not yet resumed)
    turn,         \* transaction_id of the current or latest turn
    seen,         \* the content the turn's messages hold of a path
    write,        \* the write in progress: its stage, path, pre-image, content
    ledger,       \* SessionState.modified_files
    checkpoint,   \* file_fingerprint of turn_checkpoint, and what its messages hold
    note,         \* what the resumed turn is told
    undo,         \* the revert in progress, or the latest
    before,       \* content before a turn's first write of a path
    preimage,     \* text before each recorded change
    foreign,      \* paths someone else wrote after that
    unrecorded,   \* paths of a turn with a write that has no usable entry
    evicted       \* turns some of whose entries the cap dropped

filesVars == <<content, fresh, outside, at, turn, seen, write, ledger, checkpoint, note, undo,
          before, preimage, foreign, unrecorded, evicted>>
history == <<before, preimage, foreign, unrecorded, evicted>>
session == <<checkpoint, note>>

NoWrite == [stage |-> "none", tool |-> "none", path |-> CHOOSE p \in Paths : TRUE,
            original |-> Absent, new |-> Absent]
NoUndo == [status |-> "none", turn |-> 1, pending |-> <<>>, remaining |-> {}]
NoFingerprint == [p \in Paths |-> Unseen]
NoCheckpoint == [print |-> NoFingerprint, seen |-> NoFingerprint]

Entry == [id: Contents, turn: Turns, path: Paths, original: Contents,
          body: 0..1, reverted: BOOLEAN, trimmed: BOOLEAN]

FilesTypes ==
    /\ content \in [Paths -> Contents] /\ fresh \in Contents /\ outside \in 0..MaxOutside
    /\ at \in {"prompt", "turn", "down"} /\ turn \in 0..MaxTurns
    /\ seen \in [Paths -> Contents \cup {Unseen}]
    /\ write \in [stage: {"none", "prepared", "replaced"}, tool: {"none", "text", "artifact"},
                  path: Paths, original: Contents, new: Contents]
    /\ ledger \in Seq(Entry) /\ Len(ledger) <= MutationHistory
    /\ checkpoint \in [print: [Paths -> Contents \cup {Unseen}],
                      seen: [Paths -> Contents \cup {Unseen}]]
    /\ preimage \in [Contents -> Contents \cup {Unseen}]
    /\ note \in [said: {"nothing", "unchanged", "changed"}, paths: SUBSET Paths]
    /\ undo \in [status: {"none", "running", "done", "failed"}, turn: Turns,
                 pending: Seq(Contents), remaining: SUBSET Contents]
    /\ before \in [Turns -> [Paths -> Contents \cup {Unseen}]]
    /\ foreign \in [Turns -> SUBSET Paths] /\ unrecorded \in [Turns -> SUBSET Paths]
    /\ evicted \subseteq Turns

FilesInit ==
    /\ content \in [Paths -> {Absent, 1}] /\ fresh = 1 /\ outside = 0
    /\ at = "prompt" /\ turn = 0
    /\ seen = NoFingerprint /\ write = NoWrite /\ ledger = <<>>
    /\ checkpoint = NoCheckpoint /\ note = [said |-> "nothing", paths |-> {}]
    /\ undo = NoUndo
    /\ before = [t \in Turns |-> NoFingerprint]
    /\ preimage = [c \in Contents |-> Unseen]
    /\ foreign = [t \in Turns |-> {}] /\ unrecorded = [t \in Turns |-> {}]
    /\ evicted = {}

-----------------------------------------------------------------------------
(* The tools of a turn *)

BeginTurn ==
    /\ at = "prompt" /\ undo.status # "running" /\ turn < MaxTurns
    /\ at' = "turn" /\ turn' = turn + 1
    /\ seen' = NoFingerprint /\ checkpoint' = NoCheckpoint
    /\ UNCHANGED <<content, fresh, outside, write, ledger, note, undo, history>>

EndTurn ==
    /\ at = "turn" /\ write = NoWrite
    /\ at' = "prompt" /\ checkpoint' = NoCheckpoint
    /\ UNCHANGED <<content, fresh, outside, turn, seen, write, ledger, note, undo, history>>

ReadFile(p) ==
    /\ at = "turn" /\ write = NoWrite /\ content[p] # Absent
    /\ seen' = [seen EXCEPT ![p] = content[p]]
    /\ UNCHANGED <<content, fresh, outside, at, turn, write, ledger, session, undo, history>>

(* A tool has read the text of the file before it writes.  One that would  *)
(* leave the text as it is writes nothing.                                 *)
Prepare(p, tool) ==
    /\ at = "turn" /\ write = NoWrite /\ fresh < MaxWritten
    /\ fresh' = fresh + 1
    /\ write' = [stage |-> "prepared", tool |-> tool, path |-> p,
                 original |-> Decoded[content[p]], new |-> fresh + 1]
    /\ UNCHANGED <<content, outside, at, turn, seen, ledger, session, undo, history>>

(* A full replacement of an existing source file needs the digest of what  *)
(* the turn read; an append and a file that is no source need nothing.     *)
WriteFile(p) ==
    /\ (content[p] # Absent /\ p \in SourceFiles) => seen[p] # Unseen /\ Decoded[seen[p]] = Decoded[content[p]]
    /\ Prepare(p, "text")

(* The old string of an edit occurs once in what the file holds now. *)
EditFile(p) == content[p] # Absent /\ Prepare(p, "text")

CreateArtifact(p) == p \in Artifacts /\ Prepare(p, "artifact")

(* os.replace, whatever the file holds by now. *)
ReplaceFile ==
    LET p == write.path IN
    /\ write.stage = "prepared" /\ at = "turn"
    /\ content' = [content EXCEPT ![p] = write.new]
    /\ write' = [write EXCEPT !.stage = "replaced"]
    /\ seen' = IF write.tool = "text" THEN [seen EXCEPT ![p] = write.new] ELSE seen
    /\ before' = IF before[turn][p] = Unseen
                 THEN [before EXCEPT ![turn][p] = content[p]] ELSE before
    /\ foreign' = [t \in Turns |->
          IF (t # turn /\ before[t][p] # Unseen) \/ (t = turn /\ Decoded[content[p]] # write.original)
          THEN foreign[t] \cup {p} ELSE foreign[t]]
    /\ UNCHANGED <<fresh, outside, at, turn, ledger, session, undo, preimage, unrecorded, evicted>>

(* The disk is full, the directory is read-only. *)
WriteFails ==
    /\ write.stage = "prepared" /\ at = "turn"
    /\ write' = NoWrite
    /\ UNCHANGED <<content, fresh, outside, at, turn, seen, ledger, session, undo, history>>

(* The newest bodies that fit the budget stay.  An entry that loses its    *)
(* body has no pre-image any more and says so.                             *)
TrimBodies(entries) ==
    [i \in DOMAIN entries |->
       LET newer == {j \in (i + 1)..Len(entries) : entries[j].body = 1} IN
       IF entries[i].body = 1 /\ Cardinality(newer) >= RevertBodies
       THEN [entries[i] EXCEPT !.original = Absent, !.body = 0, !.trimmed = TRUE]
       ELSE entries[i]]

KeepNewest(entries) ==
    SubSeq(entries, Len(entries) - (IF Len(entries) < MutationHistory
                                    THEN Len(entries) ELSE MutationHistory) + 1, Len(entries))

(* A write is verified by its text and recorded; an artifact without its   *)
(* pre-image.  When the file was changed again meanwhile, or the written   *)
(* content does not read back as it is, the tool reports a failure and     *)
(* records nothing.                                                        *)
RecordMutation ==
    LET p == write.path
        entry == [id |-> write.new, turn |-> turn, path |-> p,
                  original |-> IF write.tool = "artifact" THEN Absent ELSE write.original,
                  body |-> IF write.tool = "artifact" THEN 0 ELSE 1,
                  reverted |-> FALSE, trimmed |-> FALSE]
        kept == KeepNewest(Append(ledger, entry))
        verified == (write.tool = "text" /\ Decoded[content[p]] = write.new) \/ (write.tool = "artifact" /\ content[p] # Absent)
    IN
    /\ write.stage = "replaced" /\ at = "turn"
    /\ write' = NoWrite
    /\ ledger' = IF verified THEN TrimBodies(kept) ELSE ledger
    /\ evicted' = IF verified
                  THEN evicted \cup {ledger[i].turn : i \in 1..(Len(ledger) + 1 - Len(kept))}
                  ELSE evicted
    /\ preimage' = IF verified THEN [preimage EXCEPT ![entry.id] = write.original] ELSE preimage
    /\ unrecorded' = IF verified /\ entry.original = write.original THEN unrecorded
                     ELSE [unrecorded EXCEPT ![turn] = @ \cup {p}]
    /\ UNCHANGED <<content, fresh, outside, at, turn, seen, session, undo, before, foreign>>

(* An editor or another program writes or deletes a file. *)
ExternalWrite(p) ==
    /\ outside < MaxOutside
    /\ outside' = outside + 1
    /\ \/ /\ fresh < MaxWritten
          /\ fresh' = fresh + 1
          /\ content' = [content EXCEPT ![p] = fresh + 1]
       \/ /\ content[p] # Absent
          /\ content' = [content EXCEPT ![p] = Absent]
          /\ UNCHANGED fresh
    /\ foreign' = [t \in Turns |-> IF before[t][p] # Unseen THEN foreign[t] \cup {p} ELSE foreign[t]]
    /\ UNCHANGED <<at, turn, seen, write, ledger, session, undo, before, preimage, unrecorded, evicted>>

-----------------------------------------------------------------------------
(* Checkpoint, crash and resume *)

Touched == {p \in Paths : seen[p] # Unseen}

SaveTurnCheckpoint ==
    /\ at = "turn" /\ write = NoWrite
    /\ checkpoint' = [seen |-> seen, print |-> [p \in Paths |->
          IF p \in Touched /\ content[p] # Absent THEN content[p] ELSE Unseen]]
    /\ UNCHANGED <<content, fresh, outside, at, turn, seen, write, ledger, note, undo, history>>

Crash ==
    /\ at = "turn"
    /\ at' = "down"
    /\ write' = NoWrite
    /\ unrecorded' = IF write.stage = "replaced"
                     THEN [unrecorded EXCEPT ![turn] = @ \cup {write.path}] ELSE unrecorded
    /\ UNCHANGED <<content, fresh, outside, turn, seen, ledger, session, undo, before, preimage, foreign, evicted>>

(* What the state file has kept: _save_raw writes the rows redacted.       *)
ReadBack(entries) == [i \in DOMAIN entries |-> [entries[i] EXCEPT !.original = Redacted[@]]]

(* Another process has written the state file, or this one starts anew:    *)
(* the rows held in memory give way to those of the file.                  *)
Reload ==
    /\ ledger' = ReadBack(ledger)
    /\ UNCHANGED <<content, fresh, outside, at, turn, seen, write, session, undo, history>>

(* diff_checkpoint_file_fingerprint: changed or missing files. *)
Differ ==
    {p \in Paths : checkpoint.print[p] # Unseen /\ content[p] # checkpoint.print[p]}

(* The resumed turn has a transaction of its own.  Its messages are those  *)
(* of the checkpoint.                                                      *)
ResumeTurn ==
    /\ at = "down" /\ turn < MaxTurns
    /\ at' = "turn" /\ turn' = turn + 1
    /\ note' = [said |-> IF Differ # {} THEN "changed"
                         ELSE IF checkpoint.print # NoFingerprint THEN "unchanged" ELSE "nothing",
                paths |-> Differ]
    /\ seen' = checkpoint.seen /\ ledger' = ReadBack(ledger)
    /\ UNCHANGED <<content, fresh, outside, write, checkpoint, undo, history>>

-----------------------------------------------------------------------------
(* Revert *)

Indexes(t) == {i \in DOMAIN ledger : ledger[i].turn = t /\ ~ledger[i].reverted}

(* The oldest change first. *)
UndoOrder_Mutant(t) ==
    [n \in 1 .. Cardinality(Indexes(t)) |->
       ledger[CHOOSE i \in Indexes(t) : Cardinality({j \in Indexes(t) : j < i}) = n - 1].id]

(* The newest change first. *)
UndoOrder(t) ==
    [n \in 1 .. Cardinality(Indexes(t)) |->
       ledger[CHOOSE i \in Indexes(t) : Cardinality({j \in Indexes(t) : j > i}) = n - 1].id]

RevertTransaction(t) ==
    /\ at = "prompt" /\ undo.status # "running"
    /\ \E i \in DOMAIN ledger : ledger[i].turn = t
    /\ undo' = [status |-> "running", turn |-> t, pending |-> UndoOrder(t),
                remaining |-> {ledger[i].id : i \in Indexes(t)}]
    /\ UNCHANGED <<content, fresh, outside, at, turn, seen, write, ledger, session, history>>

(* No body, no revert; without this an entry that lost its pre-image reads *)
(* as one that created the file.                                           *)
Restorable_Mutant(i) == ~ledger[i].reverted

Restorable(i) == ~ledger[i].reverted /\ ~ledger[i].trimmed

(* revert_mutation writes the text the entry has and flags the entry; the  *)
(* save trims the ledger again.                                            *)
RestorePreImage(i) ==
    /\ Restorable(i)
    /\ content' = [content EXCEPT ![ledger[i].path] = ledger[i].original]
    /\ ledger' = TrimBodies([ledger EXCEPT ![i].reverted = TRUE])

RevertNext ==
    /\ undo.status = "running" /\ undo.pending # <<>>
    /\ \E i \in DOMAIN ledger :
         LET p == ledger[i].path IN
         /\ ledger[i].id = Head(undo.pending)
         /\ RestorePreImage(i)
         /\ undo' = [undo EXCEPT !.pending = Tail(@), !.remaining = @ \ {ledger[i].id}]
         /\ foreign' = [t \in Turns |->
               IF t # undo.turn /\ before[t][p] # Unseen THEN foreign[t] \cup {p} ELSE foreign[t]]
    /\ UNCHANGED <<fresh, outside, at, turn, seen, write, session, before, preimage, unrecorded, evicted>>

\* The body was trimmed, or the file cannot be written.
RevertStops ==
    /\ undo.status = "running" /\ undo.pending # <<>>
    /\ undo' = [undo EXCEPT !.status = "failed"]
    /\ UNCHANGED <<content, fresh, outside, at, turn, seen, write, ledger, session, history>>

RevertEnds ==
    /\ undo.status = "running" /\ undo.pending = <<>>
    /\ undo' = [undo EXCEPT !.status = "done"]
    /\ UNCHANGED <<content, fresh, outside, at, turn, seen, write, ledger, session, history>>

RevertMutation ==
    /\ at = "prompt" /\ undo.status # "running"
    /\ \E i \in DOMAIN ledger :
         /\ RestorePreImage(i)
         /\ foreign' = [t \in Turns |->
               IF before[t][ledger[i].path] # Unseen THEN foreign[t] \cup {ledger[i].path} ELSE foreign[t]]
    /\ UNCHANGED <<fresh, outside, at, turn, seen, write, session, undo, before, preimage, unrecorded, evicted>>

FilesNext ==
    \/ BeginTurn \/ EndTurn \/ ReplaceFile \/ WriteFails \/ RecordMutation
    \/ \E p \in Paths :
         ReadFile(p) \/ WriteFile(p) \/ EditFile(p) \/ CreateArtifact(p) \/ ExternalWrite(p)
    \/ SaveTurnCheckpoint \/ Crash \/ ResumeTurn \/ Reload
    \/ \E t \in Turns : RevertTransaction(t)
    \/ RevertNext \/ RevertStops \/ RevertEnds \/ RevertMutation

FilesSpec == FilesInit /\ [][FilesNext]_filesVars

-----------------------------------------------------------------------------
\* What a revert may make of a content: itself if its text is all of it and
\* holds no secret, otherwise its text, or its text with the secrets replaced.
Versions(c) == {c, Decoded[c], Redacted[Decoded[c]]}

\* The files of a turn that was reverted to its end, and the changes that one
\* which stopped halfway says are still in place.
RestoredFiles(t) ==
    \A p \in Paths \ (foreign[t] \cup unrecorded[t]) :
        before[t][p] # Unseen => content[p] \in Versions(before[t][p])
InPlace(t) == {ledger[i].id : i \in Indexes(t)}

(* Reverting a turn puts each file back to what it was before the turn     *)
(* first wrote it, up to what decoding drops and redaction replaces of     *)
(* that content, however often the turn wrote it, in whatever order the    *)
(* files come and however often the ledger went through the state file;    *)
(* unless someone else wrote the file since, one of the turn's writes      *)
(* never got a usable entry, or the history cap dropped some.  A revert    *)
(* that stops halfway names exactly the changes still in place             *)
(* (revert_transaction's `remaining`).                                     *)
RevertRestoresTurn ==
    [][undo.status = "running" =>
         /\ undo'.status = "done" /\ undo.turn \notin evicted => RestoredFiles(undo.turn)
         /\ undo'.status = "failed" => undo'.remaining = InPlace(undo.turn)]_filesVars

(* An entry whose pre-image was dropped to keep the session file small is  *)
(* not taken for one that created the file: a revert deletes no text file  *)
(* that existed before the change.                                         *)
NothingLostToTrimming ==
    [][\A i \in DOMAIN ledger :
         (at = "prompt" /\ at' = "prompt" /\ ledger[i].path \notin Artifacts
            /\ ~ledger[i].reverted /\ ledger'[i].reverted /\ content'[ledger[i].path] = Absent)
         => preimage[ledger[i].id] = Absent]_filesVars

(* record_mutation: the original content is "the exact pre-mutation bytes  *)
(* needed to restore".                                                     *)
RevertRestoresBytes ==
    [][undo.status = "running" /\ undo'.status = "done" /\ undo.turn \notin evicted =>
         \A p \in Paths \ (foreign[undo.turn] \cup unrecorded[undo.turn]) :
            before[undo.turn][p] # Unseen => content[p] = before[undo.turn][p]]_filesVars

(* Help of `revert`: a revert deletes a file only when that change created *)
(* it.                                                                     *)
RevertDeletesOnlyCreated ==
    [][\A i \in DOMAIN ledger :
         (at = "prompt" /\ at' = "prompt" /\ ~ledger[i].reverted /\ ledger'[i].reverted
            /\ content[ledger[i].path] # Absent /\ content'[ledger[i].path] = Absent)
         => preimage[ledger[i].id] = Absent]_filesVars
=============================================================================
