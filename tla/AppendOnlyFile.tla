--------------------------- MODULE AppendOnlyFile ---------------------------
(***************************************************************************)
(* One JSONL journal file (NodeAppendOnlyFile) under short writes, failed  *)
(* flushes, process deaths and power losses, written by one source         *)
(* instance after the other.  A record is two half-lines and its newline,  *)
(* so a write can be cut anywhere that matters.  After a power loss the    *)
(* file holds a prefix of what was written, at least what was flushed, or  *)
(* is gone altogether when its directory entry was not.                    *)
(***************************************************************************)
EXTENDS Integers, Sequences

CONSTANTS Records, NoRecord

VARIABLES
  content,      \* the bytes a reader sees
  flushed,      \* how many of them are on stable storage
  present,      \* whether the directory has the file
  entryFlushed, \* whether its directory entry is on stable storage
  writable,     \* whether the mode has write permission
  task,         \* the append or finalization in progress
  fileStopped,  \* the source instance met an ambiguous append
  written,      \* records handed to the file and not answered `not_written'
  appended,     \* records answered `appended'
  frozen,       \* the content when `finalized' was answered
  creationCut   \* history: a task that created the file failed or died before its directory flush

journalFileVars ==
  <<content, flushed, present, entryFlushed, writable, task, fileStopped, written, appended, frozen, creationCut>>

Newline == <<NoRecord, "newline">>
Head1(r) == <<r, "head">>
Rest(r) == <<r, "rest">>
Tokens == Records \X {"head", "rest"} \cup {Newline}

NoTask == [step |-> "idle", record |-> NoRecord, created |-> FALSE, boundary |-> TRUE]

FileTypeOK ==
  /\ content \in Seq(Tokens) /\ flushed \in 0 .. Len(content)
  /\ present \in BOOLEAN /\ entryFlushed \in BOOLEAN /\ writable \in BOOLEAN
  /\ task \in [step : {"idle", "open", "tail", "write", "sync", "syncDirectory", "finalOpen", "finalSync",
                       "finalSyncDirectory", "chmod"},
               record : Records \cup {NoRecord}, created : BOOLEAN, boundary : BOOLEAN]
  /\ fileStopped \in BOOLEAN
  /\ appended \subseteq written /\ written \subseteq Records
  /\ frozen.known \in BOOLEAN /\ frozen.content \in Seq(Tokens)
  /\ creationCut \in BOOLEAN

NotFrozen == [known |-> FALSE, content |-> <<>>]

FileInit ==
  /\ content = <<>> /\ flushed = 0
  /\ present = FALSE /\ entryFlushed = FALSE /\ writable = TRUE
  /\ task = NoTask
  /\ fileStopped = FALSE
  /\ written = {} /\ appended = {}
  /\ frozen = NotFrozen
  /\ creationCut = FALSE

fileVars == <<content, flushed, present, entryFlushed, writable>>

Continue(step) == task' = [task EXCEPT !.step = step]

\* The task has created the file and not flushed its directory yet.
Creating ==
  task.created /\ task.step \in {"tail", "write", "sync", "syncDirectory", "finalSync", "finalSyncDirectory"}

\* The task ends here, by an error or with its process.
CutShort == task' = NoTask /\ creationCut' = (creationCut \/ Creating)

\* `not_written': the writer may try the same record again.
AnswerNotWritten == CutShort /\ UNCHANGED <<fileStopped, appended>>

\* `unknown': the source instance stops.
AnswerUnknown == CutShort /\ fileStopped' = TRUE /\ UNCHANGED appended

AnswerAppended == task' = NoTask /\ appended' = appended \cup {task.record} /\ UNCHANGED <<fileStopped, creationCut>>

-----------------------------------------------------------------------------
\* The probe found the file without write permission.
FileFinalized == present /\ ~writable

\* appendDurably after its probe; a finalized file refuses.
Append1(r) ==
  /\ task.step = "idle" /\ ~fileStopped /\ r \notin written
  /\ IF FileFinalized
     THEN AnswerNotWritten
     ELSE /\ task' = [NoTask EXCEPT !.step = "open", !.record = r, !.created = ~present]
          /\ UNCHANGED <<fileStopped, appended, creationCut>>
  /\ UNCHANGED <<fileVars, written, frozen>>

\* open(path, 'a+') creates the file; it or the probe may fail.
OpenForAppend ==
  /\ task.step = "open"
  /\ \/ present' = TRUE /\ Continue("tail") /\ UNCHANGED <<fileStopped, appended, creationCut>>
     \/ AnswerNotWritten /\ UNCHANGED present
  /\ UNCHANGED <<content, flushed, entryFlushed, writable, written, frozen>>

\* Faulty variant: every file is taken to end at a line boundary.
endsAtLineBoundaryAlways == TRUE

endsAtLineBoundary == Len(content) = 0 \/ content[Len(content)] = Newline

CheckTail ==
  /\ task.step = "tail"
  /\ \/ task' = [task EXCEPT !.step = "write", !.boundary = endsAtLineBoundary]
        /\ UNCHANGED <<fileStopped, appended, creationCut>>
     \/ AnswerNotWritten
  /\ UNCHANGED <<fileVars, written, frozen>>

Payload ==
  (IF task.boundary THEN <<>> ELSE <<Newline>>) \o <<Head1(task.record), Rest(task.record), Newline>>

\* appendFile writes the payload, or fails after any part of it.
WritePayload ==
  /\ task.step = "write"
  /\ written' = written \cup {task.record}
  /\ \/ content' = content \o Payload /\ Continue("sync") /\ UNCHANGED <<fileStopped, appended, creationCut>>
     \/ /\ \E n \in 0 .. Len(Payload) : content' = content \o SubSeq(Payload, 1, n)
        /\ AnswerUnknown
  /\ UNCHANGED <<flushed, present, entryFlushed, writable, frozen>>

FlushFailed == AnswerUnknown /\ UNCHANGED written

\* Faulty variant: the file is not flushed before the answer.
FlushContentSkipped == UNCHANGED flushed

FlushContent == flushed' = Len(content)

\* Faulty variant: the directory of a new file is not flushed.
createdInNone == FALSE

createdIn == task.created

SyncAppend ==
  /\ task.step = "sync"
  /\ \/ /\ FlushContent
        /\ \/ createdIn /\ Continue("syncDirectory") /\ UNCHANGED <<fileStopped, appended, creationCut>>
           \/ ~createdIn /\ AnswerAppended
        /\ UNCHANGED written
     \/ FlushFailed /\ UNCHANGED flushed
  /\ UNCHANGED <<content, present, entryFlushed, writable, frozen>>

SyncDirectory ==
  /\ task.step = "syncDirectory"
  /\ \/ entryFlushed' = TRUE /\ AnswerAppended
     \/ AnswerUnknown /\ UNCHANGED entryFlushed
  /\ UNCHANGED <<content, flushed, present, writable, written, frozen>>

-----------------------------------------------------------------------------
\* finalizeDurably: a file that is read-only already is finalized.
Finalize ==
  /\ task.step = "idle"
  /\ IF FileFinalized
     THEN frozen' = [known |-> TRUE, content |-> content] /\ UNCHANGED task
     ELSE task' = [NoTask EXCEPT !.step = "finalOpen", !.created = ~present] /\ UNCHANGED frozen
  /\ UNCHANGED <<fileVars, fileStopped, written, appended, creationCut>>

FinalizeFails ==
  /\ task.step \in {"finalOpen", "finalSync", "finalSyncDirectory", "chmod"}
  /\ CutShort
  /\ UNCHANGED <<fileVars, fileStopped, written, appended, frozen>>

OpenFinal ==
  /\ task.step = "finalOpen"
  /\ present' = TRUE
  /\ Continue("finalSync")
  /\ UNCHANGED <<content, flushed, entryFlushed, writable, fileStopped, written, appended, frozen, creationCut>>

SyncFinal ==
  /\ task.step = "finalSync"
  /\ FlushContent
  /\ Continue(IF task.created THEN "finalSyncDirectory" ELSE "chmod")
  /\ UNCHANGED <<content, present, entryFlushed, writable, fileStopped, written, appended, frozen, creationCut>>

SyncFinalDirectory ==
  /\ task.step = "finalSyncDirectory"
  /\ entryFlushed' = TRUE
  /\ Continue("chmod")
  /\ UNCHANGED <<content, flushed, present, writable, fileStopped, written, appended, frozen, creationCut>>

MakeReadOnly ==
  /\ task.step = "chmod"
  /\ writable' = FALSE
  /\ task' = NoTask
  /\ frozen' = [known |-> TRUE, content |-> content]
  /\ UNCHANGED <<content, flushed, present, entryFlushed, fileStopped, written, appended, creationCut>>

-----------------------------------------------------------------------------
\* A restart creates a new source instance; a process death ends the task.
Restart ==
  /\ fileStopped \/ task.step # "idle"
  /\ fileStopped' = FALSE
  /\ CutShort
  /\ UNCHANGED <<fileVars, written, appended, frozen>>

\* The mode was changed after the last flush, so it may be lost as well.
PowerLoss ==
  /\ \/ /\ \E n \in flushed .. Len(content) : content' = SubSeq(content, 1, n) /\ flushed' = n
        /\ UNCHANGED present
        /\ entryFlushed' = present
     \/ /\ ~entryFlushed
        /\ content' = <<>> /\ flushed' = 0
        /\ present' = FALSE
        /\ UNCHANGED entryFlushed
  /\ \E w \in {TRUE, writable} : writable' = w
  /\ task' = NoTask /\ fileStopped' = FALSE
  /\ frozen' = NotFrozen
  /\ UNCHANGED <<written, appended, creationCut>>

FileNext ==
  \/ \E r \in Records : Append1(r)
  \/ OpenForAppend \/ CheckTail \/ WritePayload \/ SyncAppend \/ SyncDirectory
  \/ Finalize \/ FinalizeFails \/ OpenFinal \/ SyncFinal \/ SyncFinalDirectory \/ MakeReadOnly
  \/ Restart \/ PowerLoss

FileSpec == FileInit /\ [][FileNext]_journalFileVars

-----------------------------------------------------------------------------
AtLineStart(i) == i = 1 \/ content[i - 1] = Newline

WholeLine(r) ==
  \E i \in 1 .. Len(content) - 2 :
    AtLineStart(i) /\ SubSeq(content, i, i + 2) = <<Head1(r), Rest(r), Newline>>

\* What append-only-file.ts:7 says of the answer: "appended: every byte is
\* written and flushed to stable storage". A record so answered is a line of the
\* file, and of what any power loss leaves of it.
AppendedIsDurable == \A r \in appended : WholeLine(r)

\* A record answered `appended' is a line of what any power loss leaves, of the
\* directory as well as of the file, as long as whatever created the file came
\* to its directory flush: only a creation that failed or died on the way
\* leaves later appends, which find the file there, behind an entry that nobody
\* flushes (appendThroughHandle, createdIn).
AppendedSurvives == ~creationCut => AppendedIsDurable

\* A torn line "is never merged into the new record" (append-only-file.ts:14):
\* every line is a whole record, the beginning of one, or empty, whichever
\* instances wrote and were cut short before; and none is there twice, so what
\* was answered `not_written', and written again, had left nothing behind.
NeverMerged ==
  \A i \in 1 .. Len(content) :
    /\ content[i][2] = "head" => AtLineStart(i)
    /\ content[i][2] = "rest" => ~AtLineStart(i) /\ content[i - 1] = Head1(content[i][1])
    /\ content[i] # Newline => \A j \in 1 .. i - 1 : content[j] # content[i]

\* A file answered as finalized never changes while the machine runs (0444).
FinalizedIsFrozen == frozen.known => content = frozen.content
=============================================================================
