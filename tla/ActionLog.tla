------------------------------- MODULE ActionLog -------------------------------
(***************************************************************************)
(* The hash-chained log of the TypeScript bridges (bridge_core/log.ts) and *)
(* its lock file: instances of AppendOnlyLog, in one process or in         *)
(* several, append to one log.jsonl.                                       *)
(*                                                                         *)
(* A line is its seq, its prev_digest and its own digest, which is unique. *)
(* The file only grows, so its size in bytes is its number of lines; a     *)
(* line that a crash cut short makes it larger and unreadable.  A waiter   *)
(* that gives up after LOCK_MAX_WAIT_MS has changed nothing.               *)
(***************************************************************************)
EXTENDS Naturals, Sequences

CONSTANTS Writers,        \* instances of AppendOnlyLog
          MaxLines,       \* bound: appends
          MaxLogCrashes   \* bound: processes that die

ASSUME LogAssumption ==
    /\ "nobody" \notin Writers      \* the name NoLock gives a missing lock file
    /\ MaxLines \in Nat /\ MaxLogCrashes \in Nat

VARIABLES
    lines,      \* log.jsonl
    torn,       \* how many appends left it with a line that does not parse
    lockFile,   \* log.jsonl.lock: who created it, and whether it is stale
    at,         \* where a writer is
    nextSeq, lastDigest, knownSize,     \* its fields
    current,    \* currentSize
    logCrashes,
    missed,     \* history: writers whose constructor measured a line it had not read
    gaps,       \* history: the lines written by one of them in that state
    robbed      \* history: the lock of a live writer was removed

logVars == <<lines, torn, lockFile, at, nextSeq, lastDigest, knownSize, current,
             logCrashes, missed, gaps, robbed>>
fields == <<nextSeq, lastDigest, knownSize, current>>

NoLock == [by |-> "nobody", stale |-> FALSE]
NoDigest == 0
Size == Len(lines) + torn
Inside == {"locked", "measured", "unlocking"}

Move(w, from, to) == at[w] = from /\ at' = [at EXCEPT ![w] = to]

-----------------------------------------------------------------------------
(* refreshFromDisk *)

\* The loop over entries(): the last line counts, and no line changes nothing.
ReadEntries(w) ==
    /\ nextSeq' = [nextSeq EXCEPT ![w] = IF lines = <<>> THEN @ ELSE lines[Len(lines)].seq + 1]
    /\ lastDigest' = [lastDigest EXCEPT ![w] = IF lines = <<>> THEN @ ELSE lines[Len(lines)].digest]
MeasureFile(w) == knownSize' = [knownSize EXCEPT ![w] = Size]

\* The constructor reads the file and then measures it, without the lock.
OpenLog(w) ==
    /\ Move(w, "down", "reading") /\ torn = 0
    /\ nextSeq' = [nextSeq EXCEPT ![w] = IF lines = <<>> THEN 0 ELSE lines[Len(lines)].seq + 1]
    /\ lastDigest' = [lastDigest EXCEPT ![w] = IF lines = <<>> THEN NoDigest
                                               ELSE lines[Len(lines)].digest]
    /\ knownSize' = [knownSize EXCEPT ![w] = Size]
    /\ current' = [current EXCEPT ![w] = 0]
    /\ missed' = missed \ {w}
    /\ UNCHANGED <<lines, torn, lockFile, logCrashes, gaps, robbed>>
Opened(w) ==
    /\ Move(w, "reading", "idle")
    \* A file that did not exist when it was looked for is not measured.
    /\ IF knownSize[w] = 0 THEN UNCHANGED <<knownSize, missed>>
       ELSE /\ MeasureFile(w)
            /\ missed' = IF Size # knownSize[w] THEN missed \cup {w} ELSE missed
    /\ UNCHANGED <<lines, torn, lockFile, nextSeq, lastDigest, current, logCrashes, gaps, robbed>>

-----------------------------------------------------------------------------
(* withFileLock *)

\* Unlinking removes whatever lock is there.
Robs(w) == lockFile.by \in Writers \ {w} /\ at[lockFile.by] \in Inside
Unlink(w) == lockFile' = NoLock /\ robbed' = (robbed \/ Robs(w))

Lock(w) ==
    /\ Move(w, "idle", "locked") /\ Size < MaxLines
    /\ lockFile = NoLock /\ lockFile' = [by |-> w, stale |-> FALSE]
    /\ UNCHANGED <<lines, torn, fields, logCrashes, missed, gaps, robbed>>
\* The lock exists and its mtime is more than LOCK_STALE_MS ago ...
SeeStale(w) ==
    /\ Move(w, "idle", "reclaiming") /\ lockFile.stale
    /\ UNCHANGED <<lines, torn, lockFile, fields, logCrashes, missed, gaps, robbed>>
\* ... and is removed; a lock that vanished meanwhile is retried all the same.
Reclaim(w) ==
    /\ Move(w, "reclaiming", "idle") /\ Unlink(w)
    /\ UNCHANGED <<lines, torn, fields, logCrashes, missed, gaps>>
Unlock(w) ==
    /\ Move(w, "unlocking", "idle") /\ Unlink(w)
    /\ UNCHANGED <<lines, torn, fields, logCrashes, missed, gaps>>

-----------------------------------------------------------------------------
(* append *)

KeepMemory(w) == UNCHANGED <<nextSeq, lastDigest, knownSize>>      \* fault: no refresh
CatchUp(w) == IF Size # knownSize[w] THEN ReadEntries(w) /\ MeasureFile(w)
              ELSE UNCHANGED <<nextSeq, lastDigest, knownSize>>
\* A half line makes entries() raise, and `finally` releases the lock.
Compare(w) ==
    /\ \/ Move(w, "locked", "measured") /\ (Size = knownSize[w] \/ torn = 0) /\ CatchUp(w)
       \/ /\ Move(w, "locked", "unlocking") /\ Size # knownSize[w] /\ torn > 0
          /\ UNCHANGED <<nextSeq, lastDigest, knownSize>>
    /\ current' = [current EXCEPT ![w] = Size]
    /\ missed' = IF Size # knownSize[w] /\ torn = 0 THEN missed \ {w} ELSE missed
    /\ UNCHANGED <<lines, torn, lockFile, logCrashes, gaps, robbed>>
\* What follows half a line is part of it.
Write(w) ==
    LET digest == Size + 1
        line == [seq |-> nextSeq[w], prev |-> lastDigest[w], digest |-> digest]
    IN /\ Move(w, "measured", "unlocking")
       /\ IF torn = 0 THEN lines' = Append(lines, line) /\ UNCHANGED torn
                      ELSE torn' = torn + 1 /\ UNCHANGED lines
       /\ nextSeq' = [nextSeq EXCEPT ![w] = @ + 1]
       /\ lastDigest' = [lastDigest EXCEPT ![w] = digest]
       /\ knownSize' = [knownSize EXCEPT ![w] = current[w] + 1]
       /\ missed' = missed \ {w}
       /\ gaps' = IF torn = 0 /\ w \in missed THEN gaps \cup {Len(lines) + 1} ELSE gaps
       /\ UNCHANGED <<lockFile, current, logCrashes, robbed>>

-----------------------------------------------------------------------------
\* A process dies anywhere, in the middle of a line too; its lock stays.
Die(w) ==
    /\ at[w] # "down" /\ at' = [at EXCEPT ![w] = "down"]
    /\ logCrashes < MaxLogCrashes /\ logCrashes' = logCrashes + 1
    /\ torn' \in (IF at[w] = "measured" THEN {torn, torn + 1} ELSE {torn})
    /\ UNCHANGED <<lines, lockFile, fields, missed, gaps, robbed>>
\* More than LOCK_STALE_MS pass, while the holder is dead or suspended.
LockAges ==
    /\ lockFile # NoLock /\ lockFile' = [lockFile EXCEPT !.stale = TRUE]
    /\ UNCHANGED <<lines, torn, at, fields, logCrashes, missed, gaps, robbed>>

LogInit ==
    /\ lines = <<>> /\ torn = 0 /\ lockFile = NoLock /\ at = [w \in Writers |-> "down"]
    /\ nextSeq = [w \in Writers |-> 0] /\ lastDigest = [w \in Writers |-> NoDigest]
    /\ knownSize = [w \in Writers |-> 0] /\ current = [w \in Writers |-> 0]
    /\ logCrashes = 0 /\ missed = {} /\ gaps = {} /\ robbed = FALSE
LogNext ==
    \/ \E w \in Writers :
          \/ OpenLog(w) \/ Opened(w) \/ Lock(w) \/ SeeStale(w) \/ Reclaim(w)
          \/ Compare(w) \/ Write(w) \/ Unlock(w) \/ Die(w)
    \/ LockAges
LogSpec == LogInit /\ [][LogNext]_logVars

-----------------------------------------------------------------------------
(* Properties *)

Lines == [seq : Nat, prev : Nat, digest : Nat]

\* The type invariant of the file, its lock and the writers' fields.
LogTypeOK ==
    /\ lines \in Seq(Lines) /\ torn \in Nat
    /\ lockFile \in [by : Writers \cup {"nobody"}, stale : BOOLEAN]
    /\ at \in [Writers -> {"down", "reading", "idle", "reclaiming"} \cup Inside]
    /\ nextSeq \in [Writers -> Nat] /\ lastDigest \in [Writers -> Nat]
    /\ knownSize \in [Writers -> Nat] /\ current \in [Writers -> Nat]
    /\ logCrashes \in Nat /\ missed \subseteq Writers /\ gaps \subseteq Nat /\ robbed \in BOOLEAN

\* Line i has the number and the digest of the line before it.
Follows(i) ==
    IF i = 1 THEN lines[i].seq = 0 /\ lines[i].prev = NoDigest
    ELSE lines[i].seq = lines[i - 1].seq + 1 /\ lines[i].prev = lines[i - 1].digest

\* AppendOnlyLog.verify(): entries() parses the whole file before the first
\* line is compared, and raises on half a line.
Verifies == torn = 0 /\ \A i \in DOMAIN lines : Follows(i) /\ lines[i].seq = i - 1

\* "Safe across two separate PROCESSES appending to the same file" (log.ts):
\* whatever writers open, append, die and take over a lock, no line is out of
\* place but those that a writer appended on top of a line it had measured and
\* not read (`gaps`), and a log without such a line and without half a line
\* verifies.  The lock of a live writer must not have been removed (`robbed`).
LogChains ==
    ~robbed => /\ \A i \in DOMAIN lines \ gaps : Follows(i)
               /\ gaps = {} /\ torn = 0 => Verifies

\* What the header and "abandoned by a crashed process -- safe to reclaim"
\* promise of a death: with no line out of place and no live writer robbed, the
\* log still verifies.  It does not: a writer that dies within its append
\* leaves half a line, at which verify() and every later catching-up raise.
LogSurvivesDeath == gaps = {} /\ ~robbed => Verifies
=============================================================================
