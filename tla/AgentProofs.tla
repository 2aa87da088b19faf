------------------------------- MODULE AgentProofs -------------------------------
(***************************************************************************)
(* Machine-checked facts about what the TypeScript bridges keep: the log,  *)
(* for every set of writers and every length (ActionLog); the identity     *)
(* card, for every set of tools and wherever a crash falls (AgentCard); and *)
(* the channel, for every queue and every await (PeerLink).                *)
(***************************************************************************)
EXTENDS ActionLog, AgentCard, PeerLink, FiniteSetTheorems, FunctionTheorems, SequenceTheorems,
        WellFoundedInduction, TLAPS

-----------------------------------------------------------------------------
(* ActionLog: the chain across processes, crashes and reclaimed locks *)

\* As long as no live writer's lock was removed, a writer in the critical
\* section is the one the lock file names.
Exclusive == \A w \in Writers : at[w] \in Inside => lockFile.by = w

\* Every line but the gaps follows the one before it; without a gap, the
\* lines are numbered.
Chained ==
    \A i \in 1..Len(lines) :
        (i \notin gaps => Follows(i)) /\ (gaps = {} => lines[i].seq = i - 1)

\* A writer that has read what it measured remembers the line where that ends.
Remembers(w) ==
    /\ nextSeq[w] = IF knownSize[w] = 0 THEN 0 ELSE lines[knownSize[w]].seq + 1
    /\ lastDigest[w] = IF knownSize[w] = 0 THEN 0 ELSE lines[knownSize[w]].digest

\* While every line parses, what a writer measured is a prefix of the file,
\* and between measuring and writing it is the whole file.
InStep ==
    torn = 0 =>
        \A w \in Writers :
            /\ knownSize[w] <= Len(lines)
            /\ w \notin missed => Remembers(w)
            /\ at[w] = "measured" => knownSize[w] = Len(lines) /\ current[w] = Len(lines)

LogInv ==
    /\ LogTypeOK
    /\ ~robbed => Exclusive /\ Chained /\ InStep

\* A line that is read is a number and a digest.
LEMMA LineTyped ==
    ASSUME LogTypeOK, lines # <<>>
    PROVE  lines[Len(lines)].seq + 1 \in Nat /\ lines[Len(lines)].digest \in Nat
  <1>1. lines \in Seq(Lines) BY DEF LogTypeOK
  <1>2. Len(lines) \in 1..Len(lines) BY <1>1
  <1>3. lines[Len(lines)] \in Lines BY <1>1, <1>2
  <1> QED BY <1>3 DEF Lines

\* The steps that change neither the file nor what a writer remembers.
LEMMA LockSteps ==
    ASSUME LogInv, NEW w \in Writers,
           Lock(w) \/ SeeStale(w) \/ Reclaim(w) \/ Unlock(w)
    PROVE  LogInv'
  <1>0. /\ LogTypeOK /\ NoLock \in [by : Writers \cup {"nobody"}, stale : BOOLEAN]
        /\ NoLock.by = "nobody"
    BY DEF LogInv, NoLock
  <1>1. ASSUME Chained /\ InStep, UNCHANGED <<lines, torn, fields, missed, gaps>>,
               \A v \in Writers : at'[v] = "measured" => at[v] = "measured"
        PROVE  Chained' /\ InStep'
    BY <1>1 DEF Chained, Follows, InStep, Remembers, fields
  <1>2. CASE Lock(w)
    <2>1. /\ at[w] = "idle" /\ at' = [at EXCEPT ![w] = "locked"] /\ lockFile = NoLock
          /\ lockFile' = [by |-> w, stale |-> FALSE]
          /\ UNCHANGED <<lines, torn, fields, logCrashes, missed, gaps, robbed>>
      BY <1>2 DEF Lock, Move
    <2>2. lockFile' \in [by : Writers \cup {"nobody"}, stale : BOOLEAN] /\ lockFile'.by = w
      BY <2>1
    <2>3. LogTypeOK'
      BY <1>0, <2>1, <2>2 DEF LogTypeOK, Inside, fields
    <2>4. ~robbed' => Exclusive'
      BY <1>0, <2>1, <2>2, LogAssumption DEF LogInv, LogTypeOK, Exclusive
    <2>5. \A v \in Writers : at'[v] = "measured" => at[v] = "measured"
      BY <1>0, <2>1 DEF LogTypeOK
    <2> QED BY <1>1, <2>1, <2>3, <2>4, <2>5 DEF LogInv
  <1>3. CASE SeeStale(w)
    <2>1. /\ at[w] = "idle" /\ at' = [at EXCEPT ![w] = "reclaiming"]
          /\ UNCHANGED <<lines, torn, lockFile, fields, logCrashes, missed, gaps, robbed>>
      BY <1>3 DEF SeeStale, Move
    <2>2. LogTypeOK' BY <1>0, <2>1 DEF LogTypeOK, fields
    <2>3. ~robbed' => Exclusive'
      BY <1>0, <2>1 DEF LogInv, LogTypeOK, Exclusive, Inside
    <2>4. \A v \in Writers : at'[v] = "measured" => at[v] = "measured"
      BY <1>0, <2>1 DEF LogTypeOK
    <2> QED BY <1>1, <2>1, <2>2, <2>3, <2>4 DEF LogInv
  <1>4. CASE Reclaim(w) \/ Unlock(w)
    <2>1. /\ at[w] \in {"reclaiming", "unlocking"} /\ at' = [at EXCEPT ![w] = "idle"]
          /\ lockFile' = NoLock /\ robbed' = (robbed \/ Robs(w))
          /\ UNCHANGED <<lines, torn, fields, logCrashes, missed, gaps>>
      BY <1>4 DEF Reclaim, Unlock, Move, Unlink
    <2>2. LogTypeOK'
      BY <1>0, <2>1 DEF LogTypeOK, fields, Robs
    <2>3. ASSUME ~robbed' PROVE Exclusive'
      <3>1. ~robbed /\ ~Robs(w) BY <2>1, <2>3
      <3>2. Exclusive BY <3>1 DEF LogInv
      <3>3. ASSUME NEW v \in Writers, v # w, at[v] \in Inside PROVE FALSE
        BY <3>1, <3>2, <3>3 DEF Exclusive, Robs
      <3>4. \A v \in Writers : at'[v] \in Inside => v # w /\ at[v] \in Inside
        BY <1>0, <2>1 DEF LogTypeOK, Inside
      <3> QED BY <3>3, <3>4 DEF Exclusive
    <2>4. \A v \in Writers : at'[v] = "measured" => at[v] = "measured"
      BY <1>0, <2>1 DEF LogTypeOK
    <2>5. ~robbed' => Chained' /\ InStep'
      <3>1. ~robbed' => Chained /\ InStep BY <2>1 DEF LogInv
      <3> QED BY <1>1, <2>1, <2>4, <3>1
    <2> QED BY <2>2, <2>3, <2>5 DEF LogInv
  <1> QED BY <1>2, <1>3, <1>4

\* An old lock is still its creator's.
LEMMA AgeStep ==
    ASSUME LogInv, LockAges
    PROVE  LogInv'
  <1>0. LogTypeOK BY DEF LogInv
  <1>1. /\ lockFile' = [lockFile EXCEPT !.stale = TRUE]
        /\ UNCHANGED <<lines, torn, at, fields, logCrashes, missed, gaps, robbed>>
    BY DEF LockAges
  <1>2. lockFile' \in [by : Writers \cup {"nobody"}, stale : BOOLEAN] /\ lockFile'.by = lockFile.by
    BY <1>0, <1>1 DEF LogTypeOK
  <1>3. LogTypeOK' BY <1>0, <1>1, <1>2 DEF LogTypeOK, fields
  <1>4. ~robbed' => Exclusive' BY <1>1, <1>2 DEF LogInv, Exclusive
  <1>5. Chained /\ InStep => Chained' /\ InStep'
    BY <1>1 DEF Chained, Follows, InStep, Remembers, fields
  <1> QED BY <1>1, <1>3, <1>4, <1>5 DEF LogInv

\* The constructor reads a prefix, and what it measures afterwards is that
\* prefix or marks the writer.
LEMMA OpenSteps ==
    ASSUME LogInv, NEW w \in Writers, OpenLog(w) \/ Opened(w)
    PROVE  LogInv'
  <1>0. LogTypeOK /\ Len(lines) \in Nat BY DEF LogInv, LogTypeOK
  <1>1. ASSUME NEW l \in {"reading", "idle"}, at' = [at EXCEPT ![w] = l],
               UNCHANGED <<lockFile, robbed>>
        PROVE  /\ ~robbed' => Exclusive'
               /\ \A v \in Writers : at'[v] = "measured" => v # w /\ at[v] = "measured"
    BY <1>0, <1>1 DEF LogInv, LogTypeOK, Exclusive, Inside
  <1>2. CASE OpenLog(w)
    <2>1. /\ at' = [at EXCEPT ![w] = "reading"] /\ torn = 0
          /\ nextSeq' = [nextSeq EXCEPT ![w] = IF lines = <<>> THEN 0
                                               ELSE lines[Len(lines)].seq + 1]
          /\ lastDigest' = [lastDigest EXCEPT ![w] = IF lines = <<>> THEN 0
                                                     ELSE lines[Len(lines)].digest]
          /\ knownSize' = [knownSize EXCEPT ![w] = Len(lines)]
          /\ current' = [current EXCEPT ![w] = 0] /\ missed' = missed \ {w}
          /\ UNCHANGED <<lines, torn, lockFile, logCrashes, gaps, robbed>>
      <3>1. torn = 0 BY <1>2 DEF OpenLog
      <3>2. Size = Len(lines) BY <1>0, <3>1 DEF Size
      <3> QED BY <1>2, <3>2 DEF OpenLog, Move, NoDigest
    <2>2. LogTypeOK'
      <3>1. (IF lines = <<>> THEN 0 ELSE lines[Len(lines)].seq + 1) \in Nat
            /\ (IF lines = <<>> THEN 0 ELSE lines[Len(lines)].digest) \in Nat
        BY <1>0, LineTyped
      <3> QED BY <1>0, <2>1, <3>1 DEF LogTypeOK
    <2>3. ASSUME ~robbed' PROVE Chained' /\ InStep'
      <3>1. Chained /\ InStep BY <2>1, <2>3 DEF LogInv
      <3>2. lines = <<>> <=> Len(lines) = 0 BY <1>0 DEF LogTypeOK
      <3>3. knownSize'[w] = Len(lines) /\ Remembers(w)'
        BY <1>0, <2>1, <3>2 DEF LogTypeOK, Remembers
      <3>4. \A v \in Writers : v # w => /\ nextSeq'[v] = nextSeq[v]
                                        /\ lastDigest'[v] = lastDigest[v]
                                        /\ knownSize'[v] = knownSize[v]
                                        /\ current'[v] = current[v]
                                        /\ (v \in missed' <=> v \in missed)
        BY <1>0, <2>1 DEF LogTypeOK
      <3>5. \A v \in Writers : at'[v] = "measured" => v # w /\ at[v] = "measured"
        BY <1>1, <2>1
      <3>6. \A v \in Writers : v # w /\ v \notin missed' => Remembers(v)'
        BY <2>1, <3>1, <3>4 DEF InStep, Remembers
      <3>7. InStep' BY <1>0, <2>1, <3>1, <3>3, <3>4, <3>5, <3>6 DEF InStep
      <3> QED BY <2>1, <3>1, <3>7 DEF Chained, Follows
    <2> QED BY <1>1, <2>1, <2>2, <2>3 DEF LogInv
  <1>3. CASE Opened(w)
    <2>1. /\ at' = [at EXCEPT ![w] = "idle"]
          /\ UNCHANGED <<lines, torn, lockFile, nextSeq, lastDigest, current, logCrashes, gaps,
                         robbed>>
          /\ \/ UNCHANGED <<knownSize, missed>>
             \/ /\ knownSize' = [knownSize EXCEPT ![w] = Size]
                /\ Size = knownSize[w] /\ missed' = missed
             \/ /\ knownSize' = [knownSize EXCEPT ![w] = Size]
                /\ missed' = missed \cup {w}
      BY <1>3 DEF Opened, Move, MeasureFile
    <2>2. LogTypeOK'
      <3>1. Size \in Nat BY <1>0 DEF Size, LogTypeOK
      <3> QED BY <1>0, <2>1, <3>1 DEF LogTypeOK
    <2>3. ASSUME ~robbed' PROVE Chained' /\ InStep'
      <3>1. Chained /\ InStep BY <2>1, <2>3 DEF LogInv
      <3>2. \A v \in Writers : at'[v] = "measured" => v # w /\ at[v] = "measured"
        BY <1>1, <2>1
      <3>3. CASE knownSize' = knownSize /\ missed' = missed
        BY <2>1, <3>1, <3>2, <3>3 DEF Chained, Follows, InStep, Remembers
      <3>4. CASE knownSize' = [knownSize EXCEPT ![w] = Size] /\ missed' = missed \cup {w}
        <4>1. /\ knownSize'[w] = Size
              /\ \A v \in Writers : v # w => knownSize'[v] = knownSize[v]
          BY <1>0, <3>4 DEF LogTypeOK
        <4>2. torn = 0 => Size = Len(lines) BY <1>0 DEF Size
        <4>3. \A v \in Writers : v \notin missed' => v # w /\ v \notin missed BY <3>4
        <4>4. ASSUME torn = 0, NEW v \in Writers, v \notin missed' PROVE Remembers(v)'
          BY <2>1, <3>1, <4>1, <4>3, <4>4 DEF InStep, Remembers
        <4>5. ASSUME torn = 0, NEW v \in Writers
              PROVE  /\ knownSize'[v] <= Len(lines)
                     /\ at'[v] = "measured" => knownSize'[v] = Len(lines) /\ current[v] = Len(lines)
          BY <1>0, <3>1, <3>2, <4>1, <4>2, <4>5 DEF InStep
        <4> QED BY <2>1, <3>1, <4>4, <4>5 DEF Chained, Follows, InStep
      <3>5. knownSize' = [knownSize EXCEPT ![w] = Size] /\ Size = knownSize[w]
              => knownSize' = knownSize
        BY <1>0 DEF LogTypeOK
      <3> QED BY <2>1, <3>3, <3>4, <3>5
    <2> QED BY <1>1, <2>1, <2>2, <2>3 DEF LogInv
  <1> QED BY <1>2, <1>3

\* append under the lock: catching up with the file.
LEMMA CompareStep ==
    ASSUME LogInv, NEW w \in Writers, Compare(w)
    PROVE  LogInv'
  <1>0. LogTypeOK /\ Len(lines) \in Nat /\ Size \in Nat /\ Size = Len(lines) + torn /\ torn \in Nat
    BY DEF LogInv, LogTypeOK, Size
  <1>1. /\ current' = [current EXCEPT ![w] = Size]
        /\ UNCHANGED <<lines, torn, lockFile, logCrashes, gaps, robbed>>
        /\ at[w] = "locked"
    BY DEF Compare, Move
  <1>2. \/ /\ at' = [at EXCEPT ![w] = "measured"] /\ Size = knownSize[w]
           /\ UNCHANGED <<nextSeq, lastDigest, knownSize, missed>>
        \/ /\ at' = [at EXCEPT ![w] = "measured"] /\ torn = 0 /\ Size # knownSize[w]
           /\ ReadEntries(w) /\ MeasureFile(w) /\ missed' = missed \ {w}
        \/ /\ at' = [at EXCEPT ![w] = "unlocking"] /\ torn > 0
           /\ UNCHANGED <<nextSeq, lastDigest, knownSize, missed>>
    BY <1>0 DEF Compare, Move, CatchUp
  <1>3. /\ \A v \in Writers : at'[v] \in Inside => at[v] \in Inside
        /\ \A v \in Writers : v # w => at'[v] = at[v]
    BY <1>0, <1>1, <1>2 DEF LogTypeOK, Inside
  <1>4. ~robbed' => Exclusive'
    BY <1>1, <1>3 DEF LogInv, Exclusive
  <1>5. CASE UNCHANGED <<nextSeq, lastDigest, knownSize, missed>>
    <2>1. LogTypeOK'
      BY <1>0, <1>1, <1>2, <1>5 DEF LogTypeOK, Inside
    <2>2. ASSUME ~robbed' PROVE Chained' /\ InStep'
      <3>1. Chained /\ InStep BY <1>1, <2>2 DEF LogInv
      <3>3. /\ current'[w] = Size /\ \A v \in Writers : v # w => current'[v] = current[v]
        BY <1>0, <1>1 DEF LogTypeOK
      <3>4. \A v \in Writers : v \notin missed /\ Remembers(v) => Remembers(v)'
        BY <1>1, <1>5 DEF Remembers
      <3>5. torn = 0 => Size = knownSize[w] /\ Size = Len(lines)
        BY <1>0, <1>2, <1>5 DEF MeasureFile, LogTypeOK
      <3>6. InStep' BY <1>1, <1>3, <1>5, <3>1, <3>3, <3>4, <3>5 DEF InStep
      <3> QED BY <1>1, <3>1, <3>6 DEF Chained, Follows
    <2> QED BY <1>4, <2>1, <2>2 DEF LogInv
  <1>6. CASE /\ at' = [at EXCEPT ![w] = "measured"] /\ torn = 0 /\ Size # knownSize[w]
             /\ ReadEntries(w) /\ MeasureFile(w) /\ missed' = missed \ {w}
    <2>1. /\ nextSeq' = [nextSeq EXCEPT ![w] = IF lines = <<>> THEN nextSeq[w]
                                               ELSE lines[Len(lines)].seq + 1]
          /\ lastDigest' = [lastDigest EXCEPT ![w] = IF lines = <<>> THEN lastDigest[w]
                                                     ELSE lines[Len(lines)].digest]
          /\ knownSize' = [knownSize EXCEPT ![w] = Size] /\ missed' = missed \ {w}
      BY <1>6 DEF ReadEntries, MeasureFile
    <2>2. LogTypeOK'
      <3>1. (IF lines = <<>> THEN nextSeq[w] ELSE lines[Len(lines)].seq + 1) \in Nat
            /\ (IF lines = <<>> THEN lastDigest[w] ELSE lines[Len(lines)].digest) \in Nat
        BY <1>0, LineTyped DEF LogTypeOK
      <3> QED BY <1>0, <1>1, <1>6, <2>1, <3>1 DEF LogTypeOK, Inside
    <2>3. ASSUME ~robbed' PROVE Chained' /\ InStep'
      <3>1. Chained /\ InStep BY <1>1, <2>3 DEF LogInv
      <3>2. Size = Len(lines) BY <1>0, <1>6
      <3>3. lines # <<>> /\ Len(lines) # 0
        <4>1. SUFFICES ASSUME Len(lines) = 0 PROVE FALSE BY <1>0 DEF LogTypeOK
        <4>3. knownSize[w] <= 0 /\ knownSize[w] \in Nat
          BY <1>0, <1>6, <3>1, <4>1 DEF InStep, LogTypeOK
        <4> QED BY <1>6, <3>2, <4>1, <4>3
      <3>4. /\ knownSize'[w] = Len(lines) /\ current'[w] = Len(lines)
            /\ Remembers(w)'
        BY <1>0, <1>1, <2>1, <3>2, <3>3 DEF LogTypeOK, Remembers
      <3>5. \A v \in Writers : v # w => /\ nextSeq'[v] = nextSeq[v]
                                        /\ lastDigest'[v] = lastDigest[v]
                                        /\ knownSize'[v] = knownSize[v]
                                        /\ current'[v] = current[v]
                                        /\ (v \in missed' <=> v \in missed)
        BY <1>0, <1>1, <2>1 DEF LogTypeOK
      <3>6. \A v \in Writers : v # w /\ v \notin missed' => Remembers(v)'
        BY <1>1, <1>6, <3>1, <3>5 DEF InStep, Remembers
      <3>7. InStep' BY <1>0, <1>1, <1>3, <3>1, <3>4, <3>5, <3>6 DEF InStep
      <3> QED BY <1>1, <3>1, <3>7 DEF Chained, Follows
    <2> QED BY <1>4, <2>2, <2>3 DEF LogInv
  <1> QED BY <1>2, <1>5, <1>6

\* append under the lock: the line.
LEMMA WriteStep ==
    ASSUME LogInv, NEW w \in Writers, Write(w)
    PROVE  LogInv'
  <1> DEFINE line == [seq |-> nextSeq[w], prev |-> lastDigest[w], digest |-> Size + 1]
  <1>0. LogTypeOK /\ Len(lines) \in Nat /\ Size \in Nat /\ Size = Len(lines) + torn /\ torn \in Nat
        /\ lines \in Seq(Lines)
    BY DEF LogInv, LogTypeOK, Size
  <1>1. /\ at[w] = "measured" /\ at' = [at EXCEPT ![w] = "unlocking"]
        /\ nextSeq' = [nextSeq EXCEPT ![w] = nextSeq[w] + 1]
        /\ lastDigest' = [lastDigest EXCEPT ![w] = Size + 1]
        /\ knownSize' = [knownSize EXCEPT ![w] = current[w] + 1]
        /\ missed' = missed \ {w}
        /\ UNCHANGED <<lockFile, current, logCrashes, robbed>>
    BY DEF Write, Move
  <1>2. \/ /\ torn = 0 /\ lines' = Append(lines, line) /\ torn' = torn
           /\ gaps' = IF w \in missed THEN gaps \cup {Len(lines) + 1} ELSE gaps
        \/ torn # 0 /\ torn' = torn + 1 /\ lines' = lines /\ gaps' = gaps
    BY DEF Write
  <1>3. line \in Lines /\ line.seq = nextSeq[w] /\ line.prev = lastDigest[w]
        /\ line.digest = Size + 1
    BY <1>0 DEF Lines, LogTypeOK
  <1> HIDE DEF line
  <1>4. lines' \in Seq(Lines) /\ torn' \in Nat
    <2>1. Append(lines, line) \in Seq(Lines)
      <3>1. line \in Lines BY <1>3
      <3> HIDE DEF line
      <3> QED BY <1>0, <3>1
    <2>2. torn + 1 \in Nat BY <1>0
    <2> QED BY <1>0, <1>2, <2>1, <2>2
  <1>5. LogTypeOK'
    <2>2. nextSeq[w] \in Nat /\ current[w] \in Nat
      <3>1. nextSeq \in [Writers -> Nat] /\ current \in [Writers -> Nat]
        BY <1>0 DEF LogTypeOK
      <3> QED BY <3>1
    <2>1. nextSeq[w] + 1 \in Nat /\ Size + 1 \in Nat /\ current[w] + 1 \in Nat
      BY <1>0, <2>2
    <2>3. gaps' \subseteq Nat /\ missed' \subseteq Writers
      <3>1. gaps \subseteq Nat /\ missed \subseteq Writers /\ Len(lines) + 1 \in Nat
        BY <1>0 DEF LogTypeOK
      <3>2. gaps' = gaps \/ gaps' = gaps \cup {Len(lines) + 1} BY <1>2
      <3> QED BY <1>1, <3>1, <3>2
    <2> QED BY <1>0, <1>1, <1>4, <2>1, <2>3 DEF LogTypeOK, Inside
  <1>6. /\ \A v \in Writers : at'[v] \in Inside => at[v] \in Inside
        /\ \A v \in Writers : at'[v] = "measured" => v # w /\ at[v] = "measured"
    BY <1>0, <1>1 DEF LogTypeOK, Inside
  <1>7. ~robbed' => Exclusive'
    BY <1>1, <1>6 DEF LogInv, Exclusive
  <1>8. ASSUME ~robbed' PROVE Chained' /\ InStep'
    <2>1. Chained /\ InStep /\ Exclusive BY <1>1, <1>8 DEF LogInv
    <2>2. CASE torn # 0
      BY <1>0, <1>2, <2>1, <2>2 DEF Chained, Follows, InStep
    <2>3. CASE torn = 0
      <3>1. /\ knownSize[w] = Len(lines) /\ current[w] = Len(lines) /\ Size = Len(lines)
            /\ w \notin missed => Remembers(w)
        BY <1>0, <1>1, <2>1, <2>3 DEF InStep
      <3>2. /\ lines' = Append(lines, line) /\ torn' = 0 /\ Len(lines') = Len(lines) + 1
            /\ \A i \in 1..Len(lines) : lines'[i] = lines[i]
            /\ lines'[Len(lines) + 1] = line
            /\ gaps' = IF w \in missed THEN gaps \cup {Len(lines) + 1} ELSE gaps
        BY <1>0, <1>2, <1>3, <2>3
      <3>3. Chained'
        <4>1. ASSUME NEW i \in 1..Len(lines)
              PROVE  (i \notin gaps' => Follows(i)') /\ (gaps' = {} => lines'[i].seq = i - 1)
          <5>1. i # 1 => i - 1 \in 1..Len(lines) BY <1>0
          <5>2. lines'[i] = lines[i] /\ (i # 1 => lines'[i - 1] = lines[i - 1])
            BY <3>2, <5>1
          <5>3. (i \notin gaps' => i \notin gaps) /\ (gaps' = {} => gaps = {})
            BY <3>2
          <5> QED BY <2>1, <5>2, <5>3 DEF Chained, Follows
        <4>2. ASSUME NEW n \in Nat, n = Len(lines) + 1, n \notin gaps' PROVE Follows(n)'
          <5>1. Remembers(w) BY <3>1, <3>2, <4>2
          <5>2. CASE Len(lines) = 0
            <6>1. line.seq = 0 /\ line.prev = 0 BY <1>3, <3>1, <5>1, <5>2 DEF Remembers
            <6>2. n = 1 /\ lines'[n] = line BY <3>2, <4>2, <5>2
            <6> QED BY <6>1, <6>2 DEF Follows, NoDigest
          <5>3. CASE Len(lines) # 0
            <6>1. line.seq = lines[Len(lines)].seq + 1 /\ line.prev = lines[Len(lines)].digest
              BY <1>3, <3>1, <5>1, <5>3 DEF Remembers
            <6>2. /\ lines'[n] = line /\ n # 1 /\ n - 1 = Len(lines)
                  /\ lines'[n - 1] = lines[Len(lines)]
              BY <1>0, <3>2, <4>2, <5>3
            <6> QED BY <6>1, <6>2 DEF Follows
          <5> QED BY <5>2, <5>3
        <4>3. ASSUME gaps' = {} PROVE line.seq = Len(lines)
          <5>1. gaps = {} /\ Remembers(w) BY <3>1, <3>2, <4>3
          <5>2. Len(lines) = 0 => line.seq = 0 BY <1>3, <3>1, <5>1 DEF Remembers
          <5>3. Len(lines) # 0 => line.seq = lines[Len(lines)].seq + 1
            BY <1>3, <3>1, <5>1 DEF Remembers
          <5>4. Len(lines) # 0 => lines[Len(lines)].seq = Len(lines) - 1
            BY <1>0, <2>1, <5>1 DEF Chained
          <5> QED BY <1>0, <5>2, <5>3, <5>4
        <4>4. ASSUME NEW i \in 1..Len(lines')
              PROVE  (i \notin gaps' => Follows(i)') /\ (gaps' = {} => lines'[i].seq = i - 1)
          <5>1. i \in 1..Len(lines) \/ i = Len(lines) + 1
            BY <1>0, <3>2
          <5>2. CASE i = Len(lines) + 1
            <6>1. lines'[i] = line /\ i - 1 = Len(lines) BY <1>0, <3>2, <5>2
            <6>2. i \notin gaps' => Follows(i)' BY <1>0, <4>2, <5>2
            <6> QED BY <4>3, <6>1, <6>2
          <5> QED BY <4>1, <5>1, <5>2
        <4> QED BY <4>4 DEF Chained
      <3>4. /\ nextSeq'[w] = nextSeq[w] + 1 /\ lastDigest'[w] = Len(lines) + 1
            /\ knownSize'[w] = Len(lines) + 1 /\ knownSize'[w] # 0
        BY <1>0, <1>1, <3>1 DEF LogTypeOK
      <3>5. Remembers(w)'
        BY <1>3, <3>1, <3>2, <3>4 DEF Remembers
      <3>6. \A v \in Writers : v # w => /\ nextSeq'[v] = nextSeq[v]
                                        /\ lastDigest'[v] = lastDigest[v]
                                        /\ knownSize'[v] = knownSize[v]
                                        /\ (v \in missed' <=> v \in missed)
        BY <1>0, <1>1 DEF LogTypeOK
      <3>7. ASSUME NEW v \in Writers, v # w
            PROVE  knownSize'[v] <= Len(lines') /\ (v \notin missed' => Remembers(v)')
        <4>1. knownSize[v] <= Len(lines) /\ knownSize[v] \in Nat /\ (v \notin missed => Remembers(v))
          BY <1>0, <2>1, <2>3 DEF InStep, LogTypeOK
        <4>2. knownSize[v] # 0 => lines'[knownSize[v]] = lines[knownSize[v]]
          BY <1>0, <3>2, <4>1
        <4> QED BY <1>0, <3>2, <3>6, <3>7, <4>1, <4>2 DEF Remembers
      <3>8. \A v \in Writers : at'[v] # "measured"
        BY <1>1, <1>6, <2>1 DEF Exclusive, Inside
      <3>9. knownSize'[w] <= Len(lines') BY <1>0, <3>2, <3>4
      <3>10. InStep'
        BY <3>5, <3>7, <3>8, <3>9 DEF InStep
      <3> QED BY <3>3, <3>10
    <2> QED BY <2>2, <2>3
  <1> QED BY <1>5, <1>7, <1>8 DEF LogInv

\* A process dies, perhaps in the middle of a line.
LEMMA DieStep ==
    ASSUME LogInv, NEW w \in Writers, Die(w)
    PROVE  LogInv'
  <1>0. LogTypeOK BY DEF LogInv
  <1>1. /\ at' = [at EXCEPT ![w] = "down"] /\ torn' \in {torn, torn + 1}
        /\ logCrashes' = logCrashes + 1
        /\ UNCHANGED <<lines, lockFile, fields, missed, gaps, robbed>>
    BY DEF Die
  <1>2. LogTypeOK' BY <1>0, <1>1 DEF LogTypeOK, fields
  <1>3. \A v \in Writers : (at'[v] \in Inside \/ at'[v] = "measured") => at'[v] = at[v]
    BY <1>0, <1>1 DEF LogTypeOK, Inside
  <1>4. ~robbed' => Exclusive' BY <1>1, <1>3 DEF LogInv, Exclusive
  <1>5. torn' = 0 => torn = 0 BY <1>0, <1>1 DEF LogTypeOK
  <1>6. ASSUME ~robbed' PROVE Chained' /\ InStep'
    <2>1. Chained /\ InStep BY <1>1, <1>6 DEF LogInv
    <2> QED BY <1>1, <1>3, <1>5, <2>1 DEF Chained, Follows, InStep, Remembers, fields
  <1> QED BY <1>2, <1>4, <1>6 DEF LogInv

\* Every step keeps LogInv.
LEMMA LogStep == LogInv /\ [LogNext]_logVars => LogInv'
  <1> SUFFICES ASSUME LogInv, [LogNext]_logVars PROVE LogInv' OBVIOUS
  <1>1. CASE UNCHANGED logVars
    BY <1>1 DEF logVars, LogInv, LogTypeOK, Exclusive, Chained, Follows, InStep, Remembers
  <1>2. CASE \E w \in Writers :
          \/ OpenLog(w) \/ Opened(w) \/ Lock(w) \/ SeeStale(w) \/ Reclaim(w)
          \/ Compare(w) \/ Write(w) \/ Unlock(w) \/ Die(w)
    BY <1>2, LockSteps, OpenSteps, CompareStep, WriteStep, DieStep
  <1>3. CASE LockAges
    BY <1>3, AgeStep
  <1> QED BY <1>1, <1>2, <1>3 DEF LogNext

LEMMA LogStart == LogInit => LogInv
  <1> SUFFICES ASSUME LogInit PROVE LogInv OBVIOUS
  <1>1. LogTypeOK
    <2>1. lines \in Seq(Lines) BY DEF LogInit
    <2>2. lockFile \in [by : Writers \cup {"nobody"}, stale : BOOLEAN]
      BY DEF LogInit, NoLock
    <2> QED BY <2>1, <2>2 DEF LogInit, LogTypeOK, NoDigest
  <1>2. Exclusive BY DEF LogInit, Exclusive, Inside
  <1>3. Chained /\ InStep BY DEF LogInit, Chained, InStep, Remembers, NoDigest
  <1> QED BY <1>1, <1>2, <1>3 DEF LogInv

\* The file, its lock and the writers' fields stay well formed.
THEOREM LogTypeCorrect == LogSpec => []LogTypeOK
  <1>1. LogInv => LogTypeOK BY DEF LogInv
  <1> QED BY <1>1, LogStart, LogStep, PTL DEF LogSpec

\* However many processes open, append to, die over and reclaim one log.jsonl,
\* every line but those written on top of an unread one follows the line before
\* it, and a log with neither such a line nor half a line verifies, as long as
\* the lock of no live writer was removed.
THEOREM ChainHolds == LogSpec => []LogChains
  <1>1. LogInv => LogChains
    <2> SUFFICES ASSUME LogInv, ~robbed
                 PROVE  /\ \A i \in DOMAIN lines \ gaps : Follows(i)
                        /\ gaps = {} /\ torn = 0 => Verifies
      BY DEF LogChains
    <2>1. Chained /\ DOMAIN lines = 1..Len(lines)
      BY DEF LogInv, LogTypeOK
    <2> QED BY <2>1 DEF Chained, Verifies
  <1> QED BY <1>1, LogStart, LogStep, PTL DEF LogSpec

-----------------------------------------------------------------------------
(* AgentCard: what the writes of an operation leave *)

Files == {"identity", "chain", "detail", "sensitive", "renewal"}
Entries(w) == {w[i] : i \in DOMAIN w}

LEMMA EntriesOfBoth ==
    ASSUME NEW S, NEW a \in Seq(S), NEW b \in Seq(S)
    PROVE  a \o b \in Seq(S) /\ Entries(a \o b) = Entries(a) \cup Entries(b)
<1>1. /\ a \o b \in Seq(S) /\ Len(a \o b) = Len(a) + Len(b) /\ Len(a) \in Nat /\ Len(b) \in Nat
      /\ DOMAIN a = 1..Len(a) /\ DOMAIN b = 1..Len(b) /\ DOMAIN (a \o b) = 1..Len(a \o b)
      /\ \A i \in 1..(Len(a) + Len(b)) :
            (a \o b)[i] = IF i <= Len(a) THEN a[i] ELSE b[i - Len(a)]
  OBVIOUS
<1>2. ASSUME NEW e \in Entries(a \o b) PROVE e \in Entries(a) \cup Entries(b)
  <2>1. PICK i \in 1..(Len(a) + Len(b)) : e = (a \o b)[i]
    BY <1>1, <1>2 DEF Entries
  <2>2. CASE i <= Len(a)
    BY <1>1, <2>1, <2>2 DEF Entries
  <2>3. CASE ~(i <= Len(a))
    <3>1. i - Len(a) \in 1..Len(b) /\ e = b[i - Len(a)]
      BY <1>1, <2>1, <2>3
    <3>2. QED
      BY <1>1, <3>1 DEF Entries
  <2>4. QED
    BY <2>2, <2>3
<1>3. ASSUME NEW e \in Entries(a) PROVE e \in Entries(a \o b)
  <2>1. PICK i \in 1..Len(a) : e = a[i]
    BY <1>1, <1>3 DEF Entries
  <2>2. i \in 1..(Len(a) + Len(b)) /\ (a \o b)[i] = e
    BY <1>1, <2>1
  <2>3. QED
    BY <1>1, <2>2 DEF Entries
<1>4. ASSUME NEW e \in Entries(b) PROVE e \in Entries(a \o b)
  <2>1. PICK i \in 1..Len(b) : e = b[i]
    BY <1>1, <1>4 DEF Entries
  <2>2. i + Len(a) \in 1..(Len(a) + Len(b)) /\ ~(i + Len(a) <= Len(a)) /\ (i + Len(a)) - Len(a) = i
    BY <1>1, <2>1
  <2>3. (a \o b)[i + Len(a)] = e
    BY <1>1, <2>1, <2>2
  <2>4. QED
    BY <1>1, <2>2, <2>3 DEF Entries
<1>5. QED
  BY <1>1, <1>2, <1>3, <1>4

\* A set of naturals that has an upper bound has a greatest element.
LEMMA GreatestExists ==
    ASSUME NEW n \in Nat, NEW S \in SUBSET (0..n), S # {}
    PROVE  \E x \in S : \A y \in S : y <= x
<1> DEFINE R == {n - x : x \in S}
           Less == {p \in Nat \X Nat : p[1] < p[2]}
<1>1. R \in SUBSET Nat /\ R # {}
  <2>1. \A x \in S : n - x \in Nat
    OBVIOUS
  <2>2. PICK x \in S : TRUE
    OBVIOUS
  <2>3. n - x \in R
    BY <2>2
  <2>4. QED
    BY <2>1, <2>3
<1>2. IsWellFoundedOn(Less, Nat)
  BY NatLessThanWellFounded DEF OpToRel
<1>3. PICK r \in R : \A q \in R : <<q, r>> \notin Less
  <2> HIDE DEF Less, R
  <2> QED BY <1>1, <1>2, WFMin
<1>4. PICK x \in S : r = n - x
  BY <1>3
<1>5. ASSUME NEW y \in S PROVE y <= x
  <2>1. n - y \in R /\ n - y \in Nat /\ r \in Nat /\ x \in Nat /\ y \in Nat
    BY <1>1, <1>4
  <2>2. <<n - y, r>> \in Nat \X Nat /\ <<n - y, r>>[1] = n - y /\ <<n - y, r>>[2] = r
    BY <2>1
  <2>3. ~(n - y < r)
    BY <1>3, <2>1, <2>2
  <2>4. QED
    BY <1>4, <2>1, <2>3
<1>6. QED
  BY <1>4, <1>5

\* A file holds what one of the writes to it put there, or what it held, or is
\* torn ...
LEMMA AppliedAny ==
    ASSUME NEW w, NEW k \in Nat, DOMAIN w = 1..k, Len(w) = k, NEW n \in 0..k, NEW tearing \in BOOLEAN,
           NEW f \in DOMAIN file
    PROVE  \/ Applied(w, n, tearing)[f] = Torn
           \/ Applied(w, n, tearing)[f] = file[f] /\ (n >= 1 => w[1].file # f)
           \/ \E e \in Entries(w) : e.file = f /\ Applied(w, n, tearing)[f] = e.value
<1> DEFINE past == {i \in 1..n : w[i].file = f}
           latest == CHOOSE i \in past : \A j \in past : j <= i
<1>1. Applied(w, n, tearing)[f] =
         IF tearing /\ n < Len(w) /\ w[n + 1].file = f THEN Torn
         ELSE IF past = {} THEN file[f] ELSE w[latest].value
  BY DEF Applied
<1>2. CASE past = {}
  <2>1. n >= 1 => w[1].file # f
    BY <1>2
  <2>2. QED
    BY <1>1, <1>2, <2>1
<1>3. CASE past # {}
  <2>1. PICK i \in past : \A j \in past : j <= i
    <3>1. past \in SUBSET (0..n) /\ n \in Nat
      OBVIOUS
    <3> HIDE DEF past
    <3>2. QED
      BY <1>3, <3>1, GreatestExists
  <2>2. latest \in past
    <3> HIDE DEF past
    <3> QED BY <2>1
  <2> HIDE DEF latest
  <2>3. latest \in DOMAIN w /\ w[latest].file = f
    BY <2>2
  <2>4. w[latest] \in Entries(w)
    BY <2>3 DEF Entries
  <2> HIDE DEF past
  <2>5. QED
    BY <1>1, <1>3, <2>3, <2>4
<1>4. QED
  BY <1>2, <1>3

\* ... and when all of them were made, it holds what was written to it.
WrittenBy(w, f, v) == \E e \in Entries(w) : e.file = f /\ v = e.value

LEMMA AppliedAll ==
    ASSUME NEW w, NEW k \in Nat, DOMAIN w = 1..k, Len(w) = k, NEW f \in DOMAIN file
    PROVE  \/ (\A e \in Entries(w) : e.file # f) /\ Applied(w, k, FALSE)[f] = file[f]
           \/ WrittenBy(w, f, Applied(w, k, FALSE)[f])
<1> DEFINE past == {i \in 1..k : w[i].file = f}
           latest == CHOOSE i \in past : \A j \in past : j <= i
<1>1. Applied(w, k, FALSE)[f] = IF past = {} THEN file[f] ELSE w[latest].value
  BY DEF Applied
<1>2. CASE past = {}
  BY <1>1, <1>2 DEF Entries
<1>3. CASE past # {}
  <2>1. PICK i \in past : \A j \in past : j <= i
    <3>1. past \in SUBSET (0..k)
      OBVIOUS
    <3> HIDE DEF past
    <3>2. QED
      BY <1>3, <3>1, GreatestExists
  <2>2. latest \in past
    <3> HIDE DEF past
    <3> QED BY <2>1
  <2> HIDE DEF latest
  <2>3. latest \in DOMAIN w /\ w[latest].file = f
    BY <2>2
  <2>4. w[latest] \in Entries(w)
    BY <2>3 DEF Entries
  <2> HIDE DEF past
  <2>5. QED
    BY <1>1, <1>3, <2>3, <2>4 DEF WrittenBy
<1>4. QED
  BY <1>2, <1>3

-----------------------------------------------------------------------------
(* AgentCard: the inductive invariant *)

Epochs == [id : Nat, no : Nat, how : {"genesis", "capability_update", "key_rotation"}, prior : Nat,
           key : Nat, by : Nat, detail : Nat, sensitive : Nat]
Details == [id : Nat, no : Nat, tools : SUBSET Tools, key : Nat]
Sensitives == [id : Nat, no : Nat, key : Nat]
Renewals == [epoch : Nat, key : Nat, live : BOOLEAN]
Notes == [tool : Tools, found : BOOLEAN]

\* What a file that can be read holds; a chain verifies.
Sound(f, v) ==
    /\ f = "identity" => v \in Nat
    /\ f = "chain" => v \in Seq(Epochs) /\ v # <<>> /\ ChainVerifies(v)
    /\ f = "detail" => v \in Details
    /\ f = "sensitive" => v \in Sensitives
    /\ f = "renewal" => v \in Renewals
FilesInv ==
    /\ DOMAIN file = Files /\ file = [f \in Files |-> file[f]]
    /\ \A f \in Files : Readable(f) => Sound(f, file[f])
CountersInv ==
    /\ minted \in Nat /\ cardCuts \in Nat /\ whole \in BOOLEAN /\ rounds \in 0..2
    /\ toolset \subseteq Tools /\ history \in Seq(Notes)
CardTypeOK == FilesInv /\ CountersInv

\* An identity is made once, before anything else.
FreshInv == file["identity"] = Absent => rounds = 0 /\ \A f \in Files : file[f] = Absent

\* After a reconciliation the log agrees with the card about every tool about
\* which the card agrees with the toolset.
ReplayInv ==
    rounds >= 1 /\ Readable("detail") =>
        \A t \in Tools : (t \in file["detail"].tools <=> t \in toolset) =>
            (t \in Replay(history, file["detail"].tools) <=> t \in toolset)

CardInv == CardTypeOK /\ FreshInv /\ CardAgrees /\ ReplayInv /\ CardSettles

\* Whatever an operation writes, all of it or a part, leaves sound files, and
\* an identity where there was one.
LEMMA WritesKeep ==
    ASSUME CardAssumption, FilesInv, NEW w, NEW k \in Nat, DOMAIN w = 1..k, Len(w) = k,
           \A e \in Entries(w) : Sound(e.file, e.value),
           Completes(w) \/ Dies(w)
    PROVE  /\ FilesInv'
           /\ file["identity"] # Absent => file'["identity"] # Absent
           /\ \A f \in Files : (\A e \in Entries(w) : e.file # f) => file'[f] = file[f]
           /\ \A f \in Files : \/ file'[f] = Torn \/ file'[f] = file[f]
                               \/ \E e \in Entries(w) : e.file = f /\ file'[f] = e.value
           /\ minted \in Nat => minted' \in Nat
           /\ cardCuts \in Nat => cardCuts' \in Nat
<1>1. PICK n \in 0..k, tearing \in BOOLEAN : file' = Applied(w, n, tearing)
  <2>1. CASE Completes(w)
    <3>1. file' = Applied(w, k, FALSE) /\ k \in 0..k
      BY <2>1 DEF Completes
    <3>2. QED
      BY <3>1
  <2>2. CASE Dies(w)
    <3>1. PICK n \in 0..(Len(w) - 1), tearing \in BOOLEAN : file' = Applied(w, n, tearing)
      BY <2>2 DEF Dies
    <3>2. QED
      BY <3>1
  <2>3. QED
    BY <2>1, <2>2
<1>2. DOMAIN file' = Files /\ file' = [f \in Files |-> file'[f]]
  <2>1. DOMAIN file = Files
    BY DEF FilesInv
  <2>2. QED
    BY <1>1, <2>1 DEF Applied
<1>3. ASSUME NEW f \in Files
      PROVE  \/ file'[f] = Torn \/ file'[f] = file[f]
             \/ \E e \in Entries(w) : e.file = f /\ file'[f] = e.value
  <2>1. f \in DOMAIN file
    BY DEF FilesInv
  <2>2. QED
    BY <1>1, <2>1, AppliedAny
<1>4. ASSUME NEW f \in Files, file'[f] \notin {Absent, Torn} PROVE Sound(f, file'[f])
  <2>1. CASE file'[f] = file[f]
    BY <1>4, <2>1 DEF FilesInv, Readable
  <2>2. CASE \E e \in Entries(w) : e.file = f /\ file'[f] = e.value
    BY <2>2
  <2>3. QED
    BY <1>3, <1>4, <2>1, <2>2
<1>5. FilesInv'
  BY <1>2, <1>4 DEF FilesInv, Readable, Sound
<1>6. ASSUME file["identity"] # Absent PROVE file'["identity"] # Absent
  <2>1. Torn # Absent /\ Absent \notin Nat /\ "identity" \in Files
    BY DEF CardAssumption, Files
  <2>2. \A e \in Entries(w) : e.file = "identity" => e.value \in Nat
    BY DEF Sound
  <2>3. QED
    BY <1>3, <1>6, <2>1, <2>2
<1>7. ASSUME NEW f \in Files, \A e \in Entries(w) : e.file # f PROVE file'[f] = file[f]
  <2> DEFINE past == {i \in 1..n : w[i].file = f}
  <2>1. \A i \in 1..k : w[i].file # f
    BY <1>7 DEF Entries
  <2>2. past = {} /\ f \in DOMAIN file /\ (n < Len(w) => w[n + 1].file # f)
    BY <2>1 DEF FilesInv
  <2>3. Applied(w, n, tearing)[f] = IF tearing /\ n < Len(w) /\ w[n + 1].file = f THEN Torn
                                    ELSE IF past = {} THEN file[f]
                                    ELSE w[CHOOSE i \in past : \A j \in past : j <= i].value
    BY <2>2 DEF Applied
  <2> HIDE DEF past
  <2>4. QED
    BY <1>1, <2>2, <2>3
<1>8. /\ minted \in Nat => minted' \in Nat
      /\ cardCuts \in Nat => cardCuts' \in Nat
  <2>1. minted' = minted + 1 /\ (cardCuts' = cardCuts \/ cardCuts' = cardCuts + 1)
    BY DEF Completes, Dies
  <2>2. QED
    BY <2>1
<1>9. QED
  BY <1>3, <1>5, <1>6, <1>7, <1>8

LEMMA AllWritten ==
    ASSUME FilesInv, NEW w, NEW k \in Nat, DOMAIN w = 1..k, Len(w) = k, Completes(w)
    PROVE  \A f \in Files : \/ /\ \A e \in Entries(w) : e.file # f
                               /\ file'[f] = file[f]
                            \/ \E e \in Entries(w) : e.file = f /\ file'[f] = e.value
<1>1. file' = Applied(w, k, FALSE)
  BY DEF Completes
<1>2. ASSUME NEW f \in Files
      PROVE  \/ (\A e \in Entries(w) : e.file # f) /\ Applied(w, k, FALSE)[f] = file[f]
             \/ WrittenBy(w, f, Applied(w, k, FALSE)[f])
  <2>1. f \in DOMAIN file
    BY DEF FilesInv
  <2>2. QED
    BY <2>1, AppliedAll
<1>3. QED
  BY <1>1, <1>2 DEF WrittenBy

\* The lists of writes that the operations on epochs make.
LEMMA OneEntry ==
    ASSUME NEW S, NEW x \in S
    PROVE  <<x>> \in Seq(S) /\ Entries(<<x>>) = {x}
<1>1. DOMAIN <<x>> = {1} /\ <<x>>[1] = x
  OBVIOUS
<1>2. <<x>> \in Seq(S)
  OBVIOUS
<1>3. QED
  BY <1>1, <1>2 DEF Entries

LEMMA TwoEntries ==
    ASSUME NEW S, NEW x \in S, NEW y \in S
    PROVE  <<x, y>> \in Seq(S) /\ Entries(<<x, y>>) = {x, y}
<1>1. DOMAIN <<x, y>> = {1, 2} /\ <<x, y>>[1] = x /\ <<x, y>>[2] = y
  OBVIOUS
<1>2. <<x, y>> \in Seq(S)
  OBVIOUS
<1>3. QED
  BY <1>1, <1>2 DEF Entries

LEMMA ThreeEntries ==
    ASSUME NEW S, NEW x \in S, NEW y \in S, NEW z \in S
    PROVE  <<x, y, z>> \in Seq(S) /\ Entries(<<x, y, z>>) = {x, y, z}
<1>1. DOMAIN <<x, y, z>> = {1, 2, 3} /\ <<x, y, z>>[1] = x /\ <<x, y, z>>[2] = y /\ <<x, y, z>>[3] = z
  OBVIOUS
<1>2. <<x, y, z>> \in Seq(S)
  OBVIOUS
<1>3. QED
  BY <1>1, <1>2 DEF Entries

LEMMA SensitiveEntries ==
    ASSUME NEW S, NEW no, NEW key, NEW has \in BOOLEAN, To("sensitive", Sensitive(no, key)) \in S
    PROVE  /\ SensitiveWrites(has, no, key) \in Seq(S)
           /\ Entries(SensitiveWrites(has, no, key)) =
                 IF has THEN {To("sensitive", Sensitive(no, key))} ELSE {}
<1>1. PICK u \in S : u = To("sensitive", Sensitive(no, key))
  OBVIOUS
<1>2. CASE has
  <2>1. SensitiveWrites(has, no, key) = <<u>>
    BY <1>1, <1>2 DEF SensitiveWrites
  <2>2. <<u>> \in Seq(S) /\ Entries(<<u>>) = {u}
    BY OneEntry
  <2>3. QED
    BY <1>1, <1>2, <2>1, <2>2
<1>3. CASE ~has
  <2>1. SensitiveWrites(has, no, key) = <<>>
    BY <1>3 DEF SensitiveWrites
  <2>2. << >> \in Seq(S) /\ DOMAIN << >> = {}
    OBVIOUS
  <2>3. Entries(<< >>) = {}
    BY <2>2 DEF Entries
  <2>4. QED
    BY <1>3, <2>1, <2>2, <2>3
<1>4. QED
  BY <1>2, <1>3

LEMMA ThreeParts ==
    ASSUME NEW S, NEW a \in Seq(S), NEW b \in Seq(S), NEW c \in Seq(S)
    PROVE  /\ a \o b \o c \in Seq(S)
           /\ Entries(a \o b \o c) = Entries(a) \cup Entries(b) \cup Entries(c)
           /\ a # <<>> => (a \o b \o c)[1] = a[1]
<1>1. a \o b \in Seq(S) /\ Entries(a \o b) = Entries(a) \cup Entries(b)
  BY EntriesOfBoth
<1>2. PICK ab \in Seq(S) : ab = a \o b
  BY <1>1
<1>3. ab \o c \in Seq(S) /\ Entries(ab \o c) = Entries(ab) \cup Entries(c)
  BY EntriesOfBoth
<1>4. ASSUME a # <<>> PROVE (ab \o c)[1] = a[1]
  <2>1. Len(a) \in Nat /\ Len(a) # 0 /\ Len(b) \in Nat /\ Len(ab) = Len(a) + Len(b)
    BY <1>2, <1>4
  <2>2. 1 \in 1..Len(a) /\ 1 \in 1..Len(ab)
    BY <2>1
  <2>3. ab[1] = a[1]
    BY <1>2, <2>1, <2>2
  <2>4. (ab \o c)[1] = ab[1]
    BY <2>2
  <2>5. QED
    BY <2>3, <2>4
<1>5. QED
  BY <1>1, <1>2, <1>3, <1>4

\* The writes of a commit, with and without the new key before them.
LEMMA CommitList ==
    ASSUME NEW epoch, NEW d, NEW has \in BOOLEAN, NEW key
    PROVE  /\ Len(Commit(epoch, d, has)) \in Nat
           /\ DOMAIN Commit(epoch, d, has) = 1..Len(Commit(epoch, d, has))
           /\ Entries(Commit(epoch, d, has)) =
                 {To("chain", Append(file["chain"], epoch)), To("detail", d),
                  To("renewal", Renewal(epoch.id, epoch.key))}
                   \cup (IF has THEN {To("sensitive", Sensitive(epoch.no, epoch.key))} ELSE {})
           /\ Len(<<To("identity", key)>> \o Commit(epoch, d, has)) \in Nat
           /\ DOMAIN (<<To("identity", key)>> \o Commit(epoch, d, has)) =
                 1..Len(<<To("identity", key)>> \o Commit(epoch, d, has))
           /\ Entries(<<To("identity", key)>> \o Commit(epoch, d, has)) =
                 {To("identity", key)} \cup Entries(Commit(epoch, d, has))
<1>1. PICK x : x = To("chain", Append(file["chain"], epoch))
  OBVIOUS
<1>2. PICK y : y = To("detail", d)
  OBVIOUS
<1>3. PICK z : z = To("renewal", Renewal(epoch.id, epoch.key))
  OBVIOUS
<1>4. PICK u : u = To("sensitive", Sensitive(epoch.no, epoch.key))
  OBVIOUS
<1>5. PICK i : i = To("identity", key)
  OBVIOUS
<1>6. PICK S : S = {x, y, z, u, i}
  OBVIOUS
<1>7. x \in S /\ y \in S /\ z \in S /\ u \in S /\ i \in S
  BY <1>6
<1>8. PICK a \in Seq(S) : a = <<x, y>> /\ Entries(a) = {x, y}
  BY <1>7, TwoEntries
<1>9. PICK c \in Seq(S) : c = <<z>> /\ Entries(c) = {z}
  BY <1>7, OneEntry
<1>10. PICK b \in Seq(S) : /\ b = SensitiveWrites(has, epoch.no, epoch.key)
                           /\ Entries(b) = IF has THEN {u} ELSE {}
  BY <1>4, <1>7, SensitiveEntries
<1>18. /\ a \o b \o c \in Seq(S)
       /\ Entries(a \o b \o c) = Entries(a) \cup Entries(b) \cup Entries(c)
  BY ThreeParts
<1>11. PICK w \in Seq(S) : /\ w = a \o b \o c
                           /\ Entries(w) = Entries(a) \cup Entries(b) \cup Entries(c)
  BY <1>18
<1>12. PICK h \in Seq(S) : h = <<i>> /\ Entries(h) = {i}
  BY <1>7, OneEntry
<1>19. h \o w \in Seq(S) /\ Entries(h \o w) = Entries(h) \cup Entries(w)
  BY EntriesOfBoth
<1>13. PICK v \in Seq(S) : v = h \o w /\ Entries(v) = Entries(h) \cup Entries(w)
  BY <1>19
<1>14. w = Commit(epoch, d, has)
  BY <1>1, <1>2, <1>3, <1>8, <1>9, <1>10, <1>11 DEF Commit
<1>15. Entries(w) = {x, y, z} \cup (IF has THEN {u} ELSE {})
  BY <1>8, <1>9, <1>10, <1>11
<1>16. v = <<To("identity", key)>> \o w /\ Entries(v) = {i} \cup Entries(w)
  BY <1>5, <1>12, <1>13
<1>20. Entries(w) = {To("chain", Append(file["chain"], epoch)), To("detail", d),
                     To("renewal", Renewal(epoch.id, epoch.key))}
                       \cup (IF has THEN {To("sensitive", Sensitive(epoch.no, epoch.key))} ELSE {})
  BY <1>1, <1>2, <1>3, <1>4, <1>15
<1>21. Entries(v) = {To("identity", key)} \cup Entries(w)
  BY <1>5, <1>16
<1>22. Len(w) \in Nat /\ DOMAIN w = 1..Len(w) /\ Len(v) \in Nat /\ DOMAIN v = 1..Len(v)
  OBVIOUS
<1>17. QED
  BY <1>14, <1>16, <1>20, <1>21, <1>22

\* An epoch that follows the last one extends a sound chain.
LEMMA ChainGrows ==
    ASSUME NEW c \in Seq(Epochs), c # <<>>, ChainVerifies(c), NEW e \in Epochs, EpochVerifies(e, Last(c))
    PROVE  /\ Append(c, e) \in Seq(Epochs) /\ Append(c, e) # <<>>
           /\ ChainVerifies(Append(c, e)) /\ Last(Append(c, e)) = e
<1>1. Len(c) \in Nat /\ Len(c) >= 1
  OBVIOUS
<1>9. Append(c, e) \in Seq(Epochs)
  OBVIOUS
<1>2. PICK d \in Seq(Epochs) : d = Append(c, e)
  BY <1>9
<1>3. Len(d) = Len(c) + 1 /\ d[Len(c) + 1] = e /\ \A i \in 1..Len(c) : d[i] = c[i]
  BY <1>2
<1>4. GenesisVerifies(d[1])
  BY <1>1, <1>3 DEF ChainVerifies
<1>5. ASSUME NEW i \in 2..Len(d) PROVE EpochVerifies(d[i], d[i - 1])
  <2>1. CASE i = Len(c) + 1
    <3>1. i - 1 \in 1..Len(c) /\ i - 1 = Len(c)
      BY <1>1, <2>1
    <3>2. d[i] = e /\ d[i - 1] = Last(c)
      BY <1>3, <2>1, <3>1 DEF Last
    <3>3. QED
      BY <3>2
  <2>2. CASE i # Len(c) + 1
    <3>1. i \in 1..Len(c) /\ i - 1 \in 1..Len(c) /\ i \in 2..Len(c)
      BY <1>1, <1>3, <2>2
    <3>2. d[i] = c[i] /\ d[i - 1] = c[i - 1] /\ EpochVerifies(c[i], c[i - 1])
      BY <1>3, <3>1 DEF ChainVerifies
    <3>3. QED
      BY <3>2
  <2>3. QED
    BY <2>1, <2>2
<1>6. ChainVerifies(d)
  BY <1>4, <1>5 DEF ChainVerifies
<1>7. d # <<>> /\ Last(d) = e
  BY <1>1, <1>3 DEF Last
<1>8. QED
  BY <1>2, <1>6, <1>7

\* The writes w put down the chain c, the detail d and what goes with its last
\* epoch: the key too, unless it is the one already there.
WritesCard(w, c, d, has, keyed) ==
    /\ c \in Seq(Epochs) /\ c # <<>> /\ ChainVerifies(c) /\ Last(c) \in Epochs
    /\ d \in Details /\ TierVerifies(d, Last(c), Last(c).detail)
    /\ Last(c).sensitive = IF has THEN Newest ELSE 0
    /\ keyed \/ file["identity"] = Last(c).key
    /\ Len(w) \in Nat /\ DOMAIN w = 1..Len(w)
    /\ Entries(w) = {To("chain", c), To("detail", d), To("renewal", Renewal(Last(c).id, Last(c).key))}
                       \cup (IF has THEN {To("sensitive", Sensitive(Last(c).no, Last(c).key))} ELSE {})
                       \cup (IF keyed THEN {To("identity", Last(c).key)} ELSE {})

\* An operation that writes a card for the last epoch of a sound chain leaves
\* sound files; when it runs to its end, they agree.
LEMMA CardWritten ==
    ASSUME CardAssumption, FilesInv, minted \in Nat, cardCuts \in Nat,
           NEW w, NEW c, NEW d, NEW has \in BOOLEAN, NEW keyed \in BOOLEAN, WritesCard(w, c, d, has, keyed),
           Completes(w) \/ Dies(w)
    PROVE  /\ FilesInv' /\ minted' \in Nat /\ cardCuts' \in Nat
           /\ file["identity"] # Absent => file'["identity"] # Absent
           /\ file'["detail"] \in {Torn, file["detail"], d}
           /\ Completes(w) => CardAgrees' /\ file'["detail"] = d
<1>12. PICK e : e = Last(c)
  OBVIOUS
<1>13. PICK k \in Nat : k = Len(w)
  BY DEF WritesCard
<1>14. /\ c \in Seq(Epochs) /\ c # <<>> /\ ChainVerifies(c) /\ e \in Epochs
       /\ d \in Details /\ TierVerifies(d, e, e.detail)
       /\ e.sensitive = IF has THEN Newest ELSE 0
       /\ keyed \/ file["identity"] = e.key
       /\ Len(w) = k /\ DOMAIN w = 1..k
  BY <1>12, <1>13 DEF WritesCard
<1>15. Entries(w) = {To("chain", c), To("detail", d), To("renewal", Renewal(e.id, e.key))}
                       \cup (IF has THEN {To("sensitive", Sensitive(e.no, e.key))} ELSE {})
                       \cup (IF keyed THEN {To("identity", e.key)} ELSE {})
  BY <1>12 DEF WritesCard
<1>1. PICK r : r = Renewal(e.id, e.key)
  OBVIOUS
<1>2. PICK s : s = Sensitive(e.no, e.key)
  OBVIOUS
<1>3. r \in Renewals /\ RenewalVerifies(r, e)
  BY <1>1, <1>14 DEF Renewal, Renewals, RenewalVerifies, Epochs
<1>4. Newest \in Nat
  BY DEF Newest
<1>5. s \in Sensitives /\ (has => TierVerifies(s, e, e.sensitive))
  BY <1>2, <1>4, <1>14 DEF Sensitive, Sensitives, TierVerifies, Epochs
<1>6. PICK key \in Nat : key = e.key
  BY <1>14 DEF Epochs
<1>7. \A q : q \in Entries(w) <=>
          \/ q = To("chain", c) \/ q = To("detail", d) \/ q = To("renewal", r)
          \/ has /\ q = To("sensitive", s)
          \/ keyed /\ q = To("identity", key)
  BY <1>1, <1>2, <1>6, <1>15
<1>8. \A f, v : To(f, v).file = f /\ To(f, v).value = v
  BY DEF To
<1>9. \A q \in Entries(w) : Sound(q.file, q.value)
  <2>1. Sound("chain", c) /\ Sound("detail", d) /\ Sound("renewal", r) /\ Sound("sensitive", s) /\ Sound("identity", key)
    BY <1>3, <1>5, <1>6, <1>14 DEF Sound
  <2>2. ASSUME NEW q \in Entries(w) PROVE Sound(q.file, q.value)
    <3>1. CASE q = To("chain", c)
      BY <1>8, <2>1, <3>1
    <3>2. CASE q = To("detail", d)
      BY <1>8, <2>1, <3>2
    <3>3. CASE q = To("renewal", r)
      BY <1>8, <2>1, <3>3
    <3>4. CASE q = To("sensitive", s)
      BY <1>8, <2>1, <3>4
    <3>5. CASE q = To("identity", key)
      BY <1>8, <2>1, <3>5
    <3>6. QED
      BY <1>7, <3>1, <3>2, <3>3, <3>4, <3>5
  <2>3. QED
    BY <2>2
<1>10. ASSUME Completes(w) PROVE CardAgrees' /\ file'["detail"] = d
  <2>1. ASSUME NEW q \in Entries(w)
        PROVE  /\ q.file = "chain" => q.value = c
               /\ q.file = "detail" => q.value = d
               /\ q.file = "renewal" => q.value = r
               /\ q.file = "identity" => keyed /\ q.value = key
               /\ q.file = "sensitive" => has /\ q.value = s
    <3>1. CASE q = To("chain", c)
      BY <1>8, <3>1
    <3>2. CASE q = To("detail", d)
      BY <1>8, <3>2
    <3>3. CASE q = To("renewal", r)
      BY <1>8, <3>3
    <3>4. CASE has /\ q = To("sensitive", s)
      BY <1>8, <3>4
    <3>5. CASE keyed /\ q = To("identity", key)
      BY <1>8, <3>5
    <3>6. QED
      BY <1>7, <3>1, <3>2, <3>3, <3>4, <3>5
  <2>2. \A f \in Files : \/ /\ \A q \in Entries(w) : q.file # f
                            /\ file'[f] = file[f]
                         \/ \E q \in Entries(w) : q.file = f /\ file'[f] = q.value
    BY <1>10, <1>14, AllWritten
  <2>3. file'["chain"] = c
    <3>1. To("chain", c) \in Entries(w) /\ To("chain", c).file = "chain" /\ "chain" \in Files
      BY <1>7, <1>8 DEF Files
    <3>2. QED
      BY <2>1, <2>2, <3>1
  <2>4. file'["detail"] = d
    <3>1. To("detail", d) \in Entries(w) /\ To("detail", d).file = "detail" /\ "detail" \in Files
      BY <1>7, <1>8 DEF Files
    <3>2. QED
      BY <2>1, <2>2, <3>1
  <2>5. file'["renewal"] = r
    <3>1. To("renewal", r) \in Entries(w) /\ To("renewal", r).file = "renewal" /\ "renewal" \in Files
      BY <1>7, <1>8 DEF Files
    <3>2. QED
      BY <2>1, <2>2, <3>1
  <2>6. has => file'["sensitive"] = s
    <3>1. has => To("sensitive", s) \in Entries(w)
      BY <1>7
    <3>2. To("sensitive", s).file = "sensitive" /\ "sensitive" \in Files
      BY <1>8 DEF Files
    <3>3. QED
      BY <2>1, <2>2, <3>1, <3>2
  <2>7. file'["identity"] = key
    <3>1. keyed => To("identity", key) \in Entries(w)
      BY <1>7
    <3>2. To("identity", key).file = "identity" /\ "identity" \in Files
      BY <1>8 DEF Files
    <3>3. QED
      BY <1>6, <1>14, <2>1, <2>2, <3>1, <3>2
  <2>8. e.sensitive # 0 => TierVerifies(file'["sensitive"], e, e.sensitive)
    BY <1>5, <1>14, <2>6
  <2>9. QED
    BY <1>3, <1>6, <1>12, <1>14, <2>3, <2>4, <2>5, <2>7, <2>8 DEF CardAgrees, LastEpoch
<1>16. /\ FilesInv' /\ minted' \in Nat /\ cardCuts' \in Nat
       /\ file["identity"] # Absent => file'["identity"] # Absent
       /\ \A f \in Files : \/ file'[f] = Torn \/ file'[f] = file[f]
                           \/ \E q \in Entries(w) : q.file = f /\ file'[f] = q.value
  BY <1>9, <1>14, WritesKeep
<1>17. \A q \in Entries(w) : q.file = "detail" => q.value = d
  <2>1. ASSUME NEW q \in Entries(w), q.file = "detail" PROVE q = To("detail", d)
    <3>1. /\ To("chain", c).file = "chain" /\ To("renewal", r).file = "renewal"
          /\ To("sensitive", s).file = "sensitive" /\ To("identity", key).file = "identity"
      BY <1>8
    <3>2. QED
      BY <1>7, <2>1, <3>1
  <2>2. QED
    BY <1>8, <2>1
<1>18. "detail" \in Files
  BY DEF Files
<1>11. QED
  BY <1>10, <1>16, <1>17, <1>18

-----------------------------------------------------------------------------
(* AgentCard: the log and what it replays to *)

\* The last entry about a tool decides whether it is in the result ...
LEMMA LastCounts ==
    ASSUME NEW h \in Seq(Notes), NEW b \in SUBSET Tools, NEW t \in Tools, NEW i \in DOMAIN h,
           h[i].tool = t, \A j \in DOMAIN h : h[j].tool = t => j <= i
    PROVE  t \in Replay(h, b) <=> h[i].found
<1> DEFINE about == {j \in DOMAIN h : h[j].tool = t}
           latest == CHOOSE j \in about : \A m \in about : m <= j
<1>1. about # {} /\ i \in about
  OBVIOUS
<1>2. i \in Nat /\ about \subseteq Nat
  OBVIOUS
<1>3. \A m \in about : m <= i
  OBVIOUS
<1>4. t \in Replay(h, b) <=> IF about = {} THEN t \in b ELSE h[latest].found
  BY DEF Replay
<1>5. latest = i
  <2> HIDE DEF about
  <2>1. latest \in about /\ \A m \in about : m <= latest
    BY <1>1, <1>3
  <2> HIDE DEF latest
  <2>2. latest <= i /\ i <= latest /\ latest \in Nat
    BY <1>1, <1>2, <1>3, <2>1
  <2>3. QED
    BY <1>2, <2>2
<1> HIDE DEF latest, about
<1>6. QED
  BY <1>1, <1>4, <1>5

\* ... and a tool without one stays as it was.
LEMMA NoneCounts ==
    ASSUME NEW h \in Seq(Notes), NEW b \in SUBSET Tools, NEW t \in Tools,
           \A j \in DOMAIN h : h[j].tool # t
    PROVE  t \in Replay(h, b) <=> t \in b
<1> DEFINE about == {j \in DOMAIN h : h[j].tool = t}
           latest == CHOOSE j \in about : \A m \in about : m <= j
<1>1. about = {}
  OBVIOUS
<1>2. t \in Replay(h, b) <=> IF about = {} THEN t \in b ELSE h[latest].found
  BY DEF Replay
<1> HIDE DEF latest, about
<1>3. QED
  BY <1>1, <1>2

LEMMA LastAbout ==
    ASSUME NEW h \in Seq(Notes), NEW t \in Tools, NEW q \in Entries(h), q.tool = t
    PROVE  \E i \in DOMAIN h : h[i].tool = t /\ \A j \in DOMAIN h : h[j].tool = t => j <= i
<1> DEFINE about == {j \in DOMAIN h : h[j].tool = t}
<1>1. DOMAIN h = 1..Len(h) /\ Len(h) \in Nat
  OBVIOUS
<1>2. about \in SUBSET (0..Len(h))
  BY <1>1
<1>3. about # {}
  BY DEF Entries
<1>4. PICK i \in about : \A j \in about : j <= i
  <2> HIDE DEF about
  <2> QED BY <1>1, <1>2, <1>3, GreatestExists
<1>5. QED
  BY <1>4

\* Further entries about other tools do not count ...
LEMMA OthersDoNotCount ==
    ASSUME NEW h \in Seq(Notes), NEW o \in Seq(Notes), NEW b \in SUBSET Tools, NEW t \in Tools,
           \A q \in Entries(o) : q.tool # t
    PROVE  t \in Replay(h \o o, b) <=> t \in Replay(h, b)
<1>1. /\ Len(h \o o) = Len(h) + Len(o) /\ Len(h) \in Nat /\ Len(o) \in Nat
      /\ DOMAIN h = 1..Len(h) /\ DOMAIN o = 1..Len(o) /\ DOMAIN (h \o o) = 1..(Len(h) + Len(o))
      /\ \A i \in 1..(Len(h) + Len(o)) : (h \o o)[i] = IF i <= Len(h) THEN h[i] ELSE o[i - Len(h)]
      /\ h \o o \in Seq(Notes)
  OBVIOUS
<1>2. PICK ho \in Seq(Notes) : ho = h \o o
  BY <1>1
<1>3. \A i \in 1..Len(h) : ho[i] = h[i] /\ i \in DOMAIN ho
  BY <1>1, <1>2
<1>4. ASSUME NEW i \in DOMAIN ho, ho[i].tool = t PROVE i \in DOMAIN h
  <2>1. CASE ~(i <= Len(h))
    <3>1. i - Len(h) \in 1..Len(o) /\ ho[i] = o[i - Len(h)]
      BY <1>1, <1>2, <2>1
    <3>2. ho[i] \in Entries(o)
      BY <1>1, <3>1 DEF Entries
    <3>3. QED
      BY <1>4, <3>2
  <2>2. QED
    BY <1>1, <1>2, <2>1
<1>5. CASE \A j \in DOMAIN h : h[j].tool # t
  <2>1. \A j \in DOMAIN ho : ho[j].tool # t
    BY <1>1, <1>3, <1>4, <1>5
  <2>2. t \in Replay(ho, b) <=> t \in b
    BY <2>1, NoneCounts
  <2>3. t \in Replay(h, b) <=> t \in b
    BY <1>5, NoneCounts
  <2>4. QED
    BY <1>2, <2>2, <2>3
<1>6. CASE ~\A j \in DOMAIN h : h[j].tool # t
  <2>1. PICK i \in DOMAIN h : h[i].tool = t /\ \A j \in DOMAIN h : h[j].tool = t => j <= i
    <3>1. PICK q \in Entries(h) : q.tool = t
      BY <1>6 DEF Entries
    <3>2. QED
      BY <3>1, LastAbout
  <2>2. i \in DOMAIN ho /\ ho[i] = h[i] /\ \A j \in DOMAIN ho : ho[j].tool = t => j <= i
    BY <1>1, <1>3, <1>4, <2>1
  <2>3. t \in Replay(ho, b) <=> ho[i].found
    BY <2>1, <2>2, LastCounts
  <2>4. t \in Replay(h, b) <=> h[i].found
    BY <2>1, LastCounts
  <2>5. QED
    BY <1>2, <2>2, <2>3, <2>4
<1>7. QED
  BY <1>5, <1>6

\* ... those about the tool itself do.
LEMMA LaterCounts ==
    ASSUME NEW h \in Seq(Notes), NEW o \in Seq(Notes), NEW b \in SUBSET Tools, NEW t \in Tools,
           NEW v \in BOOLEAN, NEW q \in Entries(o), q.tool = t,
           \A p \in Entries(o) : p.tool = t => p.found = v
    PROVE  t \in Replay(h \o o, b) <=> v
<1>1. /\ Len(h \o o) = Len(h) + Len(o) /\ Len(h) \in Nat /\ Len(o) \in Nat
      /\ DOMAIN h = 1..Len(h) /\ DOMAIN o = 1..Len(o) /\ DOMAIN (h \o o) = 1..(Len(h) + Len(o))
      /\ \A i \in 1..(Len(h) + Len(o)) : (h \o o)[i] = IF i <= Len(h) THEN h[i] ELSE o[i - Len(h)]
      /\ h \o o \in Seq(Notes)
  OBVIOUS
<1>2. PICK ho \in Seq(Notes) : ho = h \o o
  BY <1>1
<1>3. PICK i \in DOMAIN o : o[i].tool = t /\ \A j \in DOMAIN o : o[j].tool = t => j <= i
  BY LastAbout
<1>4. PICK k \in DOMAIN ho : k = i + Len(h)
  BY <1>1, <1>2
<1>5. ho[k] = o[i]
  <2>1. k \in 1..(Len(h) + Len(o)) /\ ~(k <= Len(h)) /\ k - Len(h) = i
    BY <1>1, <1>2, <1>4
  <2>2. QED
    BY <1>1, <1>2, <2>1
<1>6. ASSUME NEW j \in DOMAIN ho, ho[j].tool = t PROVE j <= k
  <2>1. CASE ~(j <= Len(h))
    <3>1. j - Len(h) \in DOMAIN o /\ ho[j] = o[j - Len(h)]
      BY <1>1, <1>2, <2>1
    <3>2. j - Len(h) <= i
      BY <1>3, <1>6, <3>1
    <3>3. QED
      BY <1>1, <1>2, <1>4, <3>2
  <2>2. QED
    BY <1>1, <1>2, <1>4, <2>1
<1>7. t \in Replay(ho, b) <=> ho[k].found
  BY <1>3, <1>5, <1>6, LastCounts
<1>8. o[i] \in Entries(o)
  BY DEF Entries
<1>9. QED
  BY <1>2, <1>3, <1>5, <1>7, <1>8

\* To replay a log over its own result changes nothing.
LEMMA ReplayTwice ==
    ASSUME NEW h \in Seq(Notes), NEW b \in SUBSET Tools
    PROVE  Replay(h, b) \in SUBSET Tools /\ Replay(h, Replay(h, b)) = Replay(h, b)
<1>1. \A x : Replay(h, x) \in SUBSET Tools
  BY DEF Replay
<1>2. PICK r \in SUBSET Tools : r = Replay(h, b)
  BY <1>1
<1>3. ASSUME NEW t \in Tools PROVE t \in Replay(h, r) <=> t \in r
  <2>1. CASE \A j \in DOMAIN h : h[j].tool # t
    BY <2>1, NoneCounts
  <2>2. CASE ~\A j \in DOMAIN h : h[j].tool # t
    <3>1. PICK q \in Entries(h) : q.tool = t
      BY <2>2 DEF Entries
    <3>2. PICK i \in DOMAIN h : h[i].tool = t /\ \A j \in DOMAIN h : h[j].tool = t => j <= i
      BY <3>1, LastAbout
    <3>3. t \in Replay(h, b) <=> h[i].found
      BY <3>2, LastCounts
    <3>4. t \in Replay(h, r) <=> h[i].found
      BY <3>2, LastCounts
    <3>5. QED
      BY <1>2, <3>3, <3>4
  <2>3. QED
    BY <2>1, <2>2
<1>4. QED
  BY <1>1, <1>2, <1>3

\* A finite set is listed without omission.
LEMMA ListedAll ==
    ASSUME NEW S, IsFiniteSet(S)
    PROVE  SetToSeq(S) \in Seq(S) /\ Entries(SetToSeq(S)) = S
<1>1. PICK n \in Nat : ExistsBijection(1..n, S)
  BY FS_NatBijection
<1>2. Cardinality(S) = n
  BY <1>1, FS_CountingElements
<1>3. PICK g \in Bijection(1..n, S) : TRUE
  BY <1>1 DEF ExistsBijection
<1>4. g \in [1..n -> S] /\ \A a, b \in 1..n : g[a] = g[b] => a = b
  BY <1>3, Fun_BijectionProperties
<1>5. IsInjective(g)
  BY <1>4 DEF IsInjective
<1>6. PICK f \in [1..n -> S] : f = SetToSeq(S) /\ IsInjective(f)
  <2>1. SetToSeq(S) = CHOOSE f \in [1..n -> S] : IsInjective(f)
    BY <1>2 DEF SetToSeq
  <2>2. \E f \in [1..n -> S] : IsInjective(f)
    BY <1>4, <1>5
  <2>3. (CHOOSE f \in [1..n -> S] : IsInjective(f)) \in [1..n -> S]
        /\ IsInjective(CHOOSE f \in [1..n -> S] : IsInjective(f))
    BY <2>2, Zenon
  <2>4. QED
    BY <2>1, <2>3
<1>7. f \in Injection(1..n, S)
  BY <1>6 DEF Injection
<1>8. Cardinality(1..n) = n
  <2>1. n \in Int /\ 1 \in Int
    BY <1>1
  <2>2. Cardinality(1..n) = IF 1 > n THEN 0 ELSE n - 1 + 1
    BY <2>1, FS_Interval
  <2>3. QED
    BY <2>2
<1>9. f \in Surjection(1..n, S)
  BY <1>2, <1>7, <1>8, FS_Injection
<1>10. \A x \in S : \E i \in 1..n : f[i] = x
  BY <1>9, Fun_SurjectionProperties
<1>11. f \in Seq(S) /\ DOMAIN f = 1..n
  BY <1>6
<1>12. Entries(f) = S
  BY <1>6, <1>10, <1>11 DEF Entries
<1>13. QED
  BY <1>6, <1>11, <1>12

LEMMA NotedListed ==
    ASSUME CardAssumption, NEW tools \in SUBSET Tools, NEW found \in BOOLEAN
    PROVE  \E s \in Seq(Notes) : /\ s = SetToSeq(Noted(tools, found))
                                 /\ \A q : q \in Entries(s) <=> \E t \in tools : q = [tool |-> t, found |-> found]
<1> DEFINE N == Noted(tools, found)
           f == [t \in tools |-> [tool |-> t, found |-> found]]
<1>1. f \in [tools -> N]
  BY DEF Noted
<1>2. \A q \in N : \E t \in tools : f[t] = q
  BY DEF Noted
<1>3. f \in Surjection(tools, N)
  <2> HIDE DEF f, N
  <2> QED BY <1>1, <1>2, Fun_IsSurj
<1>4. IsFiniteSet(tools)
  BY FS_Subset DEF CardAssumption
<1>5. IsFiniteSet(N)
  <2> HIDE DEF f, N
  <2> QED BY <1>3, <1>4, FS_Surjection
<1>6. N \subseteq Notes /\ \A q : q \in N <=> \E t \in tools : q = [tool |-> t, found |-> found]
  BY DEF Noted, Notes
<1>7. SetToSeq(N) \in Seq(N) /\ Entries(SetToSeq(N)) = N
  <2> HIDE DEF N
  <2> QED BY <1>5, ListedAll
<1>8. SetToSeq(N) \in Seq(Notes)
  <2> HIDE DEF N
  <2> QED BY <1>6, <1>7
<1> HIDE DEF f
<1>9. QED
  BY <1>6, <1>7, <1>8

\* The entries of a reconciliation are about the tools on which the card and
\* the toolset differ, each with what the toolset says.
LEMMA ObservedAll ==
    ASSUME CardAssumption, NEW before \in SUBSET Tools, toolset \subseteq Tools
    PROVE  \E o \in Seq(Notes) :
              /\ o = Observed(before)
              /\ \A q \in Entries(o) : /\ q.tool \in Tools /\ (q.found <=> q.tool \in toolset) /\ q.found \in BOOLEAN
                                       /\ ~(q.tool \in before <=> q.tool \in toolset)
              /\ \A t \in Tools : ~(t \in before <=> t \in toolset) =>
                                     \E q \in Entries(o) : q.tool = t
<1>1. toolset \ before \in SUBSET Tools /\ before \ toolset \in SUBSET Tools
  OBVIOUS
<1>2. PICK a \in Seq(Notes) :
         /\ a = SetToSeq(Noted(toolset \ before, TRUE))
         /\ \A q : q \in Entries(a) <=> \E t \in toolset \ before : q = [tool |-> t, found |-> TRUE]
  BY <1>1, NotedListed
<1>3. PICK b \in Seq(Notes) :
         /\ b = SetToSeq(Noted(before \ toolset, FALSE))
         /\ \A q : q \in Entries(b) <=> \E t \in before \ toolset : q = [tool |-> t, found |-> FALSE]
  BY <1>1, NotedListed
<1>4. a \o b \in Seq(Notes) /\ Entries(a \o b) = Entries(a) \cup Entries(b)
  BY EntriesOfBoth
<1>5. PICK o \in Seq(Notes) : o = a \o b /\ Entries(o) = Entries(a) \cup Entries(b)
  BY <1>4
<1>6. o = Observed(before)
  BY <1>2, <1>3, <1>5 DEF Observed
<1>7. ASSUME NEW q \in Entries(o)
      PROVE  /\ q.tool \in Tools /\ (q.found <=> q.tool \in toolset) /\ q.found \in BOOLEAN
             /\ ~(q.tool \in before <=> q.tool \in toolset)
  <2>1. CASE q \in Entries(a)
    <3>1. PICK t \in toolset \ before : q = [tool |-> t, found |-> TRUE]
      BY <1>2, <2>1
    <3>2. QED
      BY <3>1
  <2>2. CASE q \in Entries(b)
    <3>1. PICK t \in before \ toolset : q = [tool |-> t, found |-> FALSE]
      BY <1>3, <2>2
    <3>2. QED
      BY <3>1
  <2>3. QED
    BY <1>5, <2>1, <2>2
<1>8. ASSUME NEW t \in Tools, ~(t \in before <=> t \in toolset)
      PROVE  \E q \in Entries(o) : q.tool = t
  <2>1. CASE t \in toolset
    <3>1. [tool |-> t, found |-> TRUE] \in Entries(a)
      BY <1>2, <1>8, <2>1
    <3>2. QED
      BY <1>5, <3>1
  <2>2. CASE t \notin toolset
    <3>1. [tool |-> t, found |-> FALSE] \in Entries(b)
      BY <1>3, <1>8, <2>2
    <3>2. QED
      BY <1>5, <3>1
  <2>3. QED
    BY <2>1, <2>2
<1>9. QED
  BY <1>6, <1>7, <1>8

\* So after them the replay follows the toolset where the card did not, and
\* is what it was where the card did.
LEMMA ReplayFollows ==
    ASSUME CardAssumption, NEW before \in SUBSET Tools, toolset \subseteq Tools, history \in Seq(Notes)
    PROVE  /\ history \o Observed(before) \in Seq(Notes)
           /\ \A t \in Tools :
                 IF t \in before <=> t \in toolset
                 THEN t \in Replay(history \o Observed(before), before) <=> t \in Replay(history, before)
                 ELSE t \in Replay(history \o Observed(before), before) <=> t \in toolset
           /\ \A n \in 0..(Len(Observed(before)) - 1) :
                 /\ history \o SubSeq(Observed(before), 1, n) \in Seq(Notes)
                 /\ \A t \in Tools : (t \in before <=> t \in toolset) =>
                       (t \in Replay(history \o SubSeq(Observed(before), 1, n), before)
                          <=> t \in Replay(history, before))
<1>1. PICK o \in Seq(Notes) :
         /\ o = Observed(before)
         /\ \A q \in Entries(o) : /\ q.tool \in Tools /\ (q.found <=> q.tool \in toolset) /\ q.found \in BOOLEAN
                                  /\ ~(q.tool \in before <=> q.tool \in toolset)
         /\ \A t \in Tools : ~(t \in before <=> t \in toolset) =>
                                \E q \in Entries(o) : q.tool = t
  BY ObservedAll
<1>2. history \o o \in Seq(Notes)
  OBVIOUS
<1>3. ASSUME NEW t \in Tools, t \in before <=> t \in toolset
      PROVE  t \in Replay(history \o o, before) <=> t \in Replay(history, before)
  BY <1>1, <1>3, OthersDoNotCount
<1>4. ASSUME NEW t \in Tools, ~(t \in before <=> t \in toolset)
      PROVE  t \in Replay(history \o o, before) <=> t \in toolset
  <2>1. PICK q \in Entries(o) : q.tool = t
    BY <1>1, <1>4
  <2>2. PICK v \in BOOLEAN : v <=> t \in toolset
    OBVIOUS
  <2>3. \A p \in Entries(o) : p.tool = t => p.found = v
    BY <1>1, <2>2
  <2>4. t \in Replay(history \o o, before) <=> v
    BY <2>1, <2>3, LaterCounts
  <2>5. QED
    BY <2>2, <2>4
<1>5. ASSUME NEW n \in 0..(Len(o) - 1)
      PROVE  /\ history \o SubSeq(o, 1, n) \in Seq(Notes)
             /\ \A t \in Tools : (t \in before <=> t \in toolset) =>
                   (t \in Replay(history \o SubSeq(o, 1, n), before) <=> t \in Replay(history, before))
  <2>1. SubSeq(o, 1, n) \in Seq(Notes)
    OBVIOUS
  <2>2. PICK p \in Seq(Notes) : p = SubSeq(o, 1, n)
    BY <2>1
  <2>3. \A q \in Entries(p) : q \in Entries(o)
    <3>1. /\ Len(o) \in Nat /\ DOMAIN o = 1..Len(o) /\ DOMAIN p = 1..n
          /\ \A i \in 1..n : p[i] = o[i] /\ i \in 1..Len(o)
      BY <2>2
    <3>2. QED
      BY <3>1 DEF Entries
  <2>4. ASSUME NEW t \in Tools, t \in before <=> t \in toolset
        PROVE  t \in Replay(history \o p, before) <=> t \in Replay(history, before)
    <3>1. \A q \in Entries(p) : q.tool # t
      BY <1>1, <2>3, <2>4
    <3>2. QED
      BY <3>1, OthersDoNotCount
  <2>5. history \o p \in Seq(Notes)
    OBVIOUS
  <2>6. QED
    BY <2>2, <2>4, <2>5
<1>6. QED
  BY <1>1, <1>2, <1>3, <1>4, <1>5

-----------------------------------------------------------------------------
(* AgentCard: the operations *)

LEMMA SomethingIsThere ==
    ASSUME FreshInv, NEW f \in Files, Readable(f)
    PROVE  file["identity"] # Absent
  BY DEF FreshInv, Readable

\* What an operation that notes nothing and keeps the declared tools, or loses
\* them, leaves of the two facts about reconciliations.
LEMMA SettledKept ==
    ASSUME ReplayInv, CardSettles, UNCHANGED <<history, toolset, rounds>>,
           Readable("detail")' => Readable("detail") /\ file'["detail"].tools = file["detail"].tools
    PROVE  ReplayInv' /\ CardSettles'
<1>1. CardSettles'
  BY DEF CardSettles
<1>2. ASSUME rounds >= 1, Readable("detail")',
             NEW t \in Tools, t \in file'["detail"].tools <=> t \in toolset
      PROVE  t \in Replay(history, file'["detail"].tools) <=> t \in toolset
  BY <1>2 DEF ReplayInv
<1>3. ReplayInv'
  <2>1. \A h, b : Replay(h, b)' = Replay(h', b')
    BY DEF Replay
  <2>2. QED
    BY <1>2 DEF ReplayInv, Readable
<1>4. QED
  BY <1>1, <1>3

\* bootstrap: the identity comes first, so that without it nothing is there.
LEMMA NothingBegun ==
    ASSUME CardAssumption, FilesInv, file["identity"] = Absent,
           NEW w, NEW k \in Nat, DOMAIN w = 1..k, Len(w) = k, k >= 1, w[1].file = "identity",
           \A q \in Entries(w) : q.file = "identity" => q.value \in Nat,
           Completes(w) \/ Dies(w), file'["identity"] = Absent
    PROVE  file' = file
<1>1. PICK n \in 0..k, tearing \in BOOLEAN : file' = Applied(w, n, tearing)
  <2>1. CASE Completes(w)
    <3>1. file' = Applied(w, k, FALSE) /\ k \in 0..k
      BY <2>1 DEF Completes
    <3>2. QED
      BY <3>1
  <2>2. CASE Dies(w)
    <3>1. PICK n \in 0..(Len(w) - 1), tearing \in BOOLEAN : file' = Applied(w, n, tearing)
      BY <2>2 DEF Dies
    <3>2. QED
      BY <3>1
  <2>3. QED
    BY <2>1, <2>2
<1>2. "identity" \in DOMAIN file /\ Absent # Torn /\ Absent \notin Nat
  BY DEF FilesInv, Files, CardAssumption
<1>3. n = 0
  <2>1. SUFFICES ASSUME n >= 1 PROVE FALSE
    OBVIOUS
  <2>2. \/ Applied(w, n, tearing)["identity"] = Torn
        \/ Applied(w, n, tearing)["identity"] = file["identity"] /\ (n >= 1 => w[1].file # "identity")
        \/ \E q \in Entries(w) : q.file = "identity" /\ Applied(w, n, tearing)["identity"] = q.value
    BY <1>2, AppliedAny
  <2>3. QED
    BY <1>1, <1>2, <2>1, <2>2
<1>4. ~tearing
  <2>1. SUFFICES ASSUME tearing PROVE FALSE
    OBVIOUS
  <2>2. Applied(w, n, tearing)["identity"] = Torn
    BY <1>2, <1>3, <2>1 DEF Applied
  <2>3. QED
    BY <1>1, <1>2, <2>2
<1>5. ASSUME NEW f \in Files PROVE file'[f] = file[f]
  <2> DEFINE past == {i \in 1..n : w[i].file = f}
  <2>1. past = {} /\ f \in DOMAIN file
    BY <1>3 DEF FilesInv
  <2>2. Applied(w, n, tearing)[f] = IF tearing /\ n < Len(w) /\ w[n + 1].file = f THEN Torn
                                    ELSE IF past = {} THEN file[f]
                                    ELSE w[CHOOSE i \in past : \A j \in past : j <= i].value
    BY <2>1 DEF Applied
  <2> HIDE DEF past
  <2>3. QED
    BY <1>1, <1>4, <2>1, <2>2
<1>6. DOMAIN file' = Files /\ file' = [f \in Files |-> file'[f]] /\ file = [f \in Files |-> file[f]]
  <2>1. DOMAIN file = Files /\ file = [f \in Files |-> file[f]]
    BY DEF FilesInv
  <2>2. QED
    BY <1>1, <2>1 DEF Applied
<1>7. QED
  BY <1>5, <1>6

FirstWrites(key, c, d, r, has) ==
    <<To("identity", key), To("chain", c), To("detail", d)>>
        \o SensitiveWrites(has, 0, key) \o <<To("renewal", r)>>

LEMMA BootstrapList ==
    ASSUME NEW key, NEW c, NEW d, NEW r, NEW has \in BOOLEAN,
           NEW w, w = FirstWrites(key, c, d, r, has)
    PROVE     /\ Entries(w) = {To("chain", c), To("detail", d), To("renewal", r), To("identity", key)}
                                 \cup (IF has THEN {To("sensitive", Sensitive(0, key))} ELSE {})
              /\ w[1] = To("identity", key)
              /\ Len(w) \in Nat /\ Len(w) >= 1 /\ DOMAIN w = 1..Len(w)
<1>1. PICK i : i = To("identity", key)
  OBVIOUS
<1>2. PICK x : x = To("chain", c)
  OBVIOUS
<1>3. PICK y : y = To("detail", d)
  OBVIOUS
<1>4. PICK z : z = To("renewal", r)
  OBVIOUS
<1>5. PICK u : u = To("sensitive", Sensitive(0, key))
  OBVIOUS
<1>6. PICK S : S = {i, x, y, z, u}
  OBVIOUS
<1>7. i \in S /\ x \in S /\ y \in S /\ z \in S /\ u \in S
  BY <1>6
<1>8. <<i, x, y>> \in Seq(S) /\ Entries(<<i, x, y>>) = {i, x, y}
  BY <1>7, ThreeEntries
<1>9. PICK front \in Seq(S) : front = <<i, x, y>> /\ Entries(front) = {i, x, y}
  BY <1>8
<1>10. PICK back \in Seq(S) : back = <<z>> /\ Entries(back) = {z}
  BY <1>7, OneEntry
<1>11. PICK sens \in Seq(S) : sens = SensitiveWrites(has, 0, key) /\ Entries(sens) = IF has THEN {u} ELSE {}
  BY <1>5, <1>7, SensitiveEntries
<1>12. /\ front \o sens \o back \in Seq(S)
       /\ Entries(front \o sens \o back) = Entries(front) \cup Entries(sens) \cup Entries(back)
       /\ front # <<>> => (front \o sens \o back)[1] = front[1]
  BY ThreeParts
<1>16. w = front \o sens \o back
  BY <1>1, <1>2, <1>3, <1>4, <1>9, <1>10, <1>11 DEF FirstWrites
<1>13. /\ w \in Seq(S)
       /\ Entries(w) = Entries(front) \cup Entries(sens) \cup Entries(back)
       /\ front # <<>> => w[1] = front[1]
  BY <1>12, <1>16
<1>14. front # <<>> /\ front[1] = i /\ Len(front) = 3
  BY <1>9
<1>15. Len(w) \in Nat /\ Len(w) >= 1 /\ DOMAIN w = 1..Len(w)
  <2>1. i \in Entries(w)
    BY <1>9, <1>13
  <2>2. Len(w) # 0
    BY <2>1 DEF Entries
  <2>3. QED
    BY <2>2
<1>17. Entries(w) = {x, y, z, i} \cup (IF has THEN {u} ELSE {})
  BY <1>9, <1>10, <1>11, <1>13
<1>18. Entries(w) = {To("chain", c), To("detail", d), To("renewal", r), To("identity", key)}
                       \cup (IF has THEN {To("sensitive", Sensitive(0, key))} ELSE {})
  BY <1>1, <1>2, <1>3, <1>4, <1>5, <1>17
<1>19. w[1] = To("identity", key)
  BY <1>1, <1>13, <1>14
<1>20. QED
  BY <1>15, <1>18, <1>19

LEMMA BootstrapStep ==
    ASSUME CardAssumption, CardInv, NEW tools \in SUBSET Tools, NEW has \in BOOLEAN, Bootstrap(tools, has)
    PROVE  CardInv'
<1>1. /\ FilesInv /\ CountersInv /\ FreshInv /\ minted \in Nat /\ cardCuts \in Nat
      /\ file["identity"] = Absent /\ rounds = 0 /\ UNCHANGED <<history, toolset, rounds>>
  BY DEF CardInv, CardTypeOK, CountersInv, FreshInv, Bootstrap
<1>2. PICK key \in Nat : key = Newest
  BY <1>1 DEF Newest
<1>3. PICK e : e = Genesis(key, IF has THEN Newest ELSE 0)
  OBVIOUS
<1>4. /\ e \in Epochs /\ e.id = key /\ e.no = 0 /\ e.key = key /\ e.detail = key
      /\ e.sensitive = (IF has THEN Newest ELSE 0) /\ GenesisVerifies(e)
  BY <1>2, <1>3 DEF Genesis, Epochs, GenesisVerifies
<1>5. PICK c : c = <<e>>
  OBVIOUS
<1>6. c \in Seq(Epochs) /\ c # <<>> /\ ChainVerifies(c) /\ e = Last(c)
  BY <1>4, <1>5 DEF ChainVerifies, Last
<1>7. PICK d : d = Detail(0, tools, key)
  OBVIOUS
<1>8. d \in Details /\ TierVerifies(d, e, e.detail)
  BY <1>2, <1>4, <1>7 DEF Detail, Details, TierVerifies
<1>9. PICK r : r = Renewal(e.id, e.key)
  OBVIOUS
<1>12. PICK w : w = FirstWrites(key, c, d, r, has)
  OBVIOUS
<1>10.    /\ Entries(w) = {To("chain", c), To("detail", d), To("renewal", r), To("identity", key)}
                             \cup (IF has THEN {To("sensitive", Sensitive(0, key))} ELSE {})
          /\ w[1] = To("identity", key)
          /\ Len(w) \in Nat /\ Len(w) >= 1 /\ DOMAIN w = 1..Len(w)
  BY <1>12, BootstrapList
<1>11. PICK keyed \in BOOLEAN : keyed = TRUE
  OBVIOUS
<1>21. Len(w) \in Nat /\ DOMAIN w = 1..Len(w) /\ Len(w) >= 1
  BY <1>10
<1>22. Runs(w)
  <2>1. Runs(<<To("identity", Newest), To("chain", <<Genesis(Newest, IF has THEN Newest ELSE 0)>>),
               To("detail", Detail(0, tools, Newest))>>
               \o SensitiveWrites(has, 0, Newest)
               \o <<To("renewal", Renewal(Genesis(Newest, IF has THEN Newest ELSE 0).id, Newest))>>)
    BY DEF Bootstrap
  <2>2. /\ key = Newest /\ c = <<Genesis(Newest, IF has THEN Newest ELSE 0)>>
        /\ d = Detail(0, tools, Newest)
        /\ r = Renewal(Genesis(Newest, IF has THEN Newest ELSE 0).id, Newest)
    BY <1>2, <1>3, <1>4, <1>5, <1>7, <1>9
  <2>3. w = <<To("identity", Newest), To("chain", <<Genesis(Newest, IF has THEN Newest ELSE 0)>>),
               To("detail", Detail(0, tools, Newest))>>
               \o SensitiveWrites(has, 0, Newest)
               \o <<To("renewal", Renewal(Genesis(Newest, IF has THEN Newest ELSE 0).id, Newest))>>
    BY <1>12, <2>2, Zenon DEF FirstWrites
  <2>4. QED
    BY <2>1, <2>3, Zenon
<1>23. Entries(w) = {To("chain", c), To("detail", d), To("renewal", Renewal(e.id, e.key))}
                       \cup (IF has THEN {To("sensitive", Sensitive(e.no, e.key))} ELSE {})
                       \cup (IF keyed THEN {To("identity", e.key)} ELSE {})
  BY <1>4, <1>9, <1>10, <1>11
<1>24. (Completes(w) /\ whole' = TRUE) \/ (Dies(w) /\ whole' = FALSE)
  BY <1>22 DEF Runs
<1>25. WritesCard(w, c, d, has, keyed)
  BY <1>4, <1>6, <1>8, <1>11, <1>21, <1>23 DEF WritesCard
<1>26. /\ FilesInv' /\ minted' \in Nat /\ cardCuts' \in Nat
       /\ Completes(w) => CardAgrees'
  <2>1. Completes(w) \/ Dies(w)
    BY <1>24
  <2>2. FilesInv' /\ minted' \in Nat /\ cardCuts' \in Nat
    BY <1>1, <1>25, <2>1, CardWritten
  <2>3. ASSUME Completes(w) PROVE CardAgrees'
    BY <1>1, <1>25, <2>3, CardWritten
  <2>4. QED
    BY <2>2, <2>3
<1>27. FreshInv'
  <2>1. SUFFICES ASSUME file'["identity"] = Absent PROVE file' = file
    BY <1>1 DEF FreshInv
  <2>2. \A q \in Entries(w) : q.file = "identity" => q.value \in Nat
    <3>1. \A f, v : To(f, v).file = f /\ To(f, v).value = v
      BY DEF To
    <3>2. ASSUME NEW q \in Entries(w), q.file = "identity" PROVE q = To("identity", key)
      <4>1. \/ q = To("chain", c) \/ q = To("detail", d) \/ q = To("renewal", Renewal(e.id, e.key))
            \/ q = To("sensitive", Sensitive(e.no, e.key)) \/ q = To("identity", e.key)
        BY <1>23
      <4>2. q # To("chain", c) /\ q # To("detail", d) /\ q # To("renewal", Renewal(e.id, e.key))
            /\ q # To("sensitive", Sensitive(e.no, e.key))
        BY <3>1, <3>2
      <4>3. QED
        BY <1>4, <4>1, <4>2
    <3>3. QED
      BY <3>1, <3>2
  <2>3. w[1].file = "identity"
    BY <1>10 DEF To
  <2>4. Completes(w) \/ Dies(w)
    BY <1>24
  <2>5. QED
    BY <1>1, <1>21, <2>1, <2>2, <2>3, <2>4, NothingBegun
<1>28. CardAgrees'
  BY <1>24, <1>26 DEF CardAgrees
<1>29. ReplayInv' /\ CardSettles'
  BY <1>1 DEF ReplayInv, CardSettles
<1>30. CountersInv'
  BY <1>1, <1>24, <1>26 DEF CountersInv
<1>31. QED
  BY <1>26, <1>27, <1>28, <1>29, <1>30 DEF CardInv, CardTypeOK

\* updateCapabilities and rotateKey write a card for a successor of the last
\* epoch, under the same key or under a new one that goes before.
LEMMA SuccessorCard ==
    ASSUME CardInv, CanSucceed, NEW has \in BOOLEAN, NEW keyed \in BOOLEAN,
           NEW key \in Nat, keyed \/ key = file["identity"], NEW tools \in SUBSET Tools,
           NEW e, e = Successor(LastEpoch, IF keyed THEN "key_rotation" ELSE "capability_update",
                                key, file["identity"], IF has THEN Newest ELSE 0),
           NEW d, d = Detail(e.no, tools, key),
           NEW w, w = IF keyed THEN <<To("identity", key)>> \o Commit(e, d, has) ELSE Commit(e, d, has)
    PROVE  WritesCard(w, Append(file["chain"], e), d, has, keyed)
<1>1. PICK old : old = file["identity"]
  OBVIOUS
<1>2. PICK b : b = file["chain"]
  OBVIOUS
<1>3. FilesInv /\ minted \in Nat /\ "identity" \in Files /\ "chain" \in Files
  BY DEF CardInv, CardTypeOK, CountersInv, Files
<1>4. /\ b \in Seq(Epochs) /\ b # <<>> /\ ChainVerifies(b) /\ LastEpoch = Last(b)
      /\ old \in Nat /\ old = Last(b).key
  BY <1>1, <1>2, <1>3 DEF CanSucceed, FilesInv, Sound, LastEpoch
<1>5. PICK p : p = Last(b)
  OBVIOUS
<1>6. p \in Epochs
  <2>1. Len(b) \in 1..Len(b)
    BY <1>4
  <2>2. QED
    BY <1>4, <1>5, <2>1 DEF Last
<1>7. PICK n \in Nat : n = Newest
  BY <1>3 DEF Newest
<1>8. PICK how \in {"capability_update", "key_rotation"} :
         how = IF keyed THEN "key_rotation" ELSE "capability_update"
  OBVIOUS
<1>9. e = [id |-> n, no |-> p.no + 1, how |-> how, prior |-> p.id, key |-> key,
           by |-> IF how = "key_rotation" THEN old ELSE key, detail |-> n,
           sensitive |-> IF has THEN n ELSE 0]
  BY <1>1, <1>4, <1>5, <1>7, <1>8 DEF Successor
<1>10. p.no \in Nat /\ p.id \in Nat /\ p.key = old
  BY <1>4, <1>5, <1>6 DEF Epochs
<1>11. e \in Epochs
  <2>1. PICK by \in Nat : by = IF how = "key_rotation" THEN old ELSE key
    BY <1>4
  <2>2. PICK sens \in Nat : sens = IF has THEN n ELSE 0
    OBVIOUS
  <2>3. how \in {"genesis", "capability_update", "key_rotation"} /\ p.no + 1 \in Nat
    BY <1>10
  <2>4. e = [id |-> n, no |-> p.no + 1, how |-> how, prior |-> p.id, key |-> key, by |-> by,
             detail |-> n, sensitive |-> sens]
    BY <1>9, <2>1, <2>2
  <2>5. QED
    BY <1>10, <2>3, <2>4 DEF Epochs
<1>12. EpochVerifies(e, p)
  BY <1>1, <1>8, <1>9, <1>10 DEF EpochVerifies
<1>13. PICK c : c = Append(b, e)
  OBVIOUS
<1>14. c \in Seq(Epochs) /\ c # <<>> /\ ChainVerifies(c) /\ Last(c) = e
  BY <1>4, <1>5, <1>11, <1>12, <1>13, ChainGrows
<1>15. d \in Details /\ TierVerifies(d, e, e.detail)
  <2>1. d = [id |-> n, no |-> e.no, tools |-> tools, key |-> key] /\ e.no \in Nat
    BY <1>7, <1>11 DEF Detail, Epochs
  <2>2. QED
    BY <1>9, <2>1 DEF Details, TierVerifies
<1>16. e.key = key /\ e.sensitive = (IF has THEN Newest ELSE 0)
  BY <1>7, <1>9
<1>17. /\ Len(w) \in Nat /\ DOMAIN w = 1..Len(w)
       /\ Entries(w) = {To("chain", c), To("detail", d), To("renewal", Renewal(e.id, e.key))}
                          \cup (IF has THEN {To("sensitive", Sensitive(e.no, e.key))} ELSE {})
                          \cup (IF keyed THEN {To("identity", e.key)} ELSE {})
  <2>1. PICK v : v = Commit(e, d, has)
    OBVIOUS
  <2>2. /\ Len(v) \in Nat /\ DOMAIN v = 1..Len(v)
        /\ Entries(v) = {To("chain", c), To("detail", d), To("renewal", Renewal(e.id, e.key))}
                           \cup (IF has THEN {To("sensitive", Sensitive(e.no, e.key))} ELSE {})
        /\ Len(<<To("identity", key)>> \o v) \in Nat
        /\ DOMAIN (<<To("identity", key)>> \o v) = 1..Len(<<To("identity", key)>> \o v)
        /\ Entries(<<To("identity", key)>> \o v) = {To("identity", key)} \cup Entries(v)
    BY <1>2, <1>13, <2>1, CommitList
  <2>3. CASE keyed
    <3>1. w = <<To("identity", key)>> \o v
      BY <2>1, <2>3
    <3>2. Len(w) \in Nat /\ DOMAIN w = 1..Len(w) /\ Entries(w) = {To("identity", key)} \cup Entries(v)
      BY <2>2, <3>1, Zenon
    <3>3. (IF keyed THEN {To("identity", e.key)} ELSE {}) = {To("identity", key)}
      BY <1>16, <2>3
    <3>4. PICK I : I = {To("identity", key)}
      OBVIOUS
    <3>5. PICK V : V = Entries(v)
      OBVIOUS
    <3>6. Entries(w) = V \cup (IF keyed THEN {To("identity", e.key)} ELSE {})
      <4>1. Entries(w) = I \cup V /\ (IF keyed THEN {To("identity", e.key)} ELSE {}) = I
        BY <3>2, <3>3, <3>4, <3>5, Zenon
      <4>2. I \cup V = V \cup I
        OBVIOUS
      <4>3. QED
        BY <4>1, <4>2, Zenon
    <3>7. QED
      BY <2>2, <3>2, <3>5, <3>6, Zenon
  <2>4. CASE ~keyed
    <3>1. w = v
      BY <2>1, <2>4
    <3>2. QED
      BY <2>2, <2>4, <3>1
  <2>5. QED
    BY <2>3, <2>4
<1>18. keyed \/ file["identity"] = e.key
  BY <1>16
<1>19. WritesCard(w, c, d, has, keyed)
  BY <1>11, <1>14, <1>15, <1>16, <1>17, <1>18 DEF WritesCard
<1>20. QED
  BY <1>2, <1>13, <1>19

\* ensureLive: only the renewal is written, for the last epoch.
LEMMA EnsureLiveStep ==
    ASSUME CardAssumption, CardInv, EnsureLive
    PROVE  CardInv'
<1>1. /\ FilesInv /\ CountersInv /\ FreshInv /\ CardAgrees /\ ReplayInv /\ CardSettles
      /\ minted \in Nat /\ cardCuts \in Nat /\ UNCHANGED <<history, toolset, rounds>>
      /\ Readable("identity") /\ Readable("chain")
      /\ "identity" \in Files /\ "chain" \in Files /\ "detail" \in Files /\ "sensitive" \in Files
  BY DEF CardInv, CardTypeOK, CountersInv, EnsureLive, Files
<1>2. PICK p : p = LastEpoch
  OBVIOUS
<1>3. p \in Epochs
  <2>1. file["chain"] \in Seq(Epochs) /\ file["chain"] # <<>>
    BY <1>1 DEF FilesInv, Sound
  <2>2. Len(file["chain"]) \in 1..Len(file["chain"])
    BY <2>1
  <2>3. QED
    BY <1>2, <2>1, <2>2 DEF LastEpoch, Last
<1>4. PICK r : r = Renewal(p.id, p.key)
  OBVIOUS
<1>5. r \in Renewals /\ RenewalVerifies(r, p)
  BY <1>3, <1>4 DEF Renewal, Renewals, RenewalVerifies, Epochs
<1>6. PICK q : q = To("renewal", r)
  OBVIOUS
<1>7. q.file = "renewal" /\ q.value = r
  BY <1>6 DEF To
<1>8. PICK w : w = <<q>>
  OBVIOUS
<1>9. (Completes(w) /\ UNCHANGED whole) \/ (Dies(w) /\ whole' = FALSE)
  BY <1>2, <1>4, <1>6, <1>8 DEF EnsureLive
<1>10. Len(w) = 1 /\ DOMAIN w = 1..1 /\ Entries(w) = {q}
  <2>1. Len(w) = 1 /\ DOMAIN w = 1..1 /\ w[1] = q
    BY <1>8
  <2>2. QED
    BY <2>1 DEF Entries
<1>11. \A x \in Entries(w) : Sound(x.file, x.value)
  BY <1>5, <1>7, <1>10 DEF Sound
<1>12. /\ FilesInv' /\ minted' \in Nat /\ cardCuts' \in Nat
       /\ \A f \in Files : (\A x \in Entries(w) : x.file # f) => file'[f] = file[f]
  <2>1. Completes(w) \/ Dies(w)
    BY <1>9
  <2>2. PICK k \in Nat : k = 1
    OBVIOUS
  <2>3. DOMAIN w = 1..k /\ Len(w) = k
    BY <1>10, <2>2
  <2>4. QED
    BY <1>1, <1>11, <2>1, <2>3, WritesKeep
<1>13. /\ file'["identity"] = file["identity"] /\ file'["chain"] = file["chain"]
       /\ file'["detail"] = file["detail"] /\ file'["sensitive"] = file["sensitive"]
  <2>1. \A x \in Entries(w) : x.file = "renewal"
    BY <1>7, <1>10
  <2>2. QED
    BY <1>1, <1>12, <2>1
<1>14. FreshInv'
  BY <1>1, <1>13 DEF FreshInv, Readable
<1>15. CardAgrees'
  <2>1. CASE Completes(w) /\ UNCHANGED whole
    <3>1. file'["renewal"] = r
      <4>1. PICK k \in Nat : k = 1
        OBVIOUS
      <4>2. DOMAIN w = 1..k /\ Len(w) = k /\ "renewal" \in Files
        BY <1>10, <4>1 DEF Files
      <4>3. \/ (\A x \in Entries(w) : x.file # "renewal") /\ file'["renewal"] = file["renewal"]
            \/ \E x \in Entries(w) : x.file = "renewal" /\ file'["renewal"] = x.value
        BY <1>1, <2>1, <4>2, AllWritten
      <4>4. QED
        BY <1>7, <1>10, <4>3
    <3>2. QED
      BY <1>1, <1>2, <1>5, <1>13, <2>1, <3>1 DEF CardAgrees, LastEpoch
  <2>2. CASE whole' = FALSE
    BY <2>2 DEF CardAgrees
  <2>3. QED
    BY <1>9, <2>1, <2>2
<1>16. ReplayInv' /\ CardSettles'
  <2>1. Readable("detail")' => Readable("detail") /\ file'["detail"].tools = file["detail"].tools
    BY <1>13 DEF Readable
  <2>2. QED
    BY <1>1, <2>1, SettledKept
<1>17. CountersInv'
  BY <1>1, <1>9, <1>12 DEF CountersInv
<1>18. QED
  BY <1>12, <1>14, <1>15, <1>16, <1>17 DEF CardInv, CardTypeOK

\* rotateKey: the declared tools stay.
LEMMA RotateKeyStep ==
    ASSUME CardAssumption, CardInv, RotateKey
    PROVE  CardInv'
<1>1. /\ FilesInv /\ CountersInv /\ FreshInv /\ CardAgrees /\ ReplayInv /\ CardSettles
      /\ minted \in Nat /\ cardCuts \in Nat /\ UNCHANGED <<history, toolset, rounds>>
      /\ CanSucceed /\ Readable("identity") /\ Readable("detail") /\ "detail" \in Files
  BY DEF CardInv, CardTypeOK, CountersInv, RotateKey, CanSucceed, Files
<1>2. PICK key \in Nat : key = Newest
  BY <1>1 DEF Newest
<1>3. PICK has \in BOOLEAN : has = Readable("sensitive")
  BY DEF Readable
<1>4. PICK keyed \in BOOLEAN : keyed = TRUE
  OBVIOUS
<1>5. PICK tools \in SUBSET Tools : tools = file["detail"].tools
  BY <1>1 DEF FilesInv, Sound, Details
<1>6. PICK e : e = Successor(LastEpoch, IF keyed THEN "key_rotation" ELSE "capability_update",
                             key, file["identity"], IF has THEN Newest ELSE 0)
  OBVIOUS
<1>7. PICK d : d = Detail(e.no, tools, key)
  OBVIOUS
<1>8. PICK w : w = IF keyed THEN <<To("identity", key)>> \o Commit(e, d, has) ELSE Commit(e, d, has)
  OBVIOUS
<1>9. PICK c : c = Append(file["chain"], e)
  OBVIOUS
<1>10. WritesCard(w, c, d, has, keyed)
  BY <1>1, <1>4, <1>6, <1>7, <1>8, <1>9, SuccessorCard
<1>11. (Completes(w) /\ whole' = TRUE) \/ (Dies(w) /\ whole' = FALSE)
  <2>1. e = Successor(LastEpoch, "key_rotation", Newest, file["identity"],
                      IF Readable("sensitive") THEN Newest ELSE 0)
    BY <1>2, <1>3, <1>4, <1>6
  <2>2. d = Detail(e.no, file["detail"].tools, Newest)
    BY <1>2, <1>5, <1>7
  <2>3. w = <<To("identity", Newest)>> \o Commit(e, d, Readable("sensitive"))
    BY <1>2, <1>3, <1>4, <1>8
  <2>4. Runs(w)
    BY <2>1, <2>2, <2>3, Zenon DEF RotateKey
  <2>5. QED
    BY <2>4 DEF Runs
<1>12. Completes(w) \/ Dies(w)
  BY <1>11
<1>13. FilesInv' /\ minted' \in Nat /\ cardCuts' \in Nat
  BY <1>1, <1>10, <1>12, CardWritten
<1>14. file["identity"] # Absent => file'["identity"] # Absent
  BY <1>1, <1>10, <1>12, CardWritten
<1>15. file'["detail"] \in {Torn, file["detail"], d}
  BY <1>1, <1>10, <1>12, CardWritten
<1>16. ASSUME Completes(w) PROVE CardAgrees'
  BY <1>1, <1>10, <1>16, CardWritten
<1>17. FreshInv'
  BY <1>1, <1>14 DEF FreshInv, Readable
<1>18. CardAgrees'
  BY <1>11, <1>16 DEF CardAgrees
<1>19. ReplayInv' /\ CardSettles'
  <2>1. d.tools = tools
    BY <1>7 DEF Detail
  <2>2. Readable("detail")' => Readable("detail") /\ file'["detail"].tools = file["detail"].tools
    BY <1>1, <1>5, <1>15, <2>1 DEF Readable
  <2>3. QED
    BY <1>1, <2>2, SettledKept
<1>20. CountersInv'
  BY <1>1, <1>11, <1>13 DEF CountersInv
<1>21. QED
  BY <1>13, <1>17, <1>18, <1>19, <1>20 DEF CardInv, CardTypeOK

\* An operation that leaves the files alone ...
LEMMA FilesKept ==
    ASSUME CardInv, UNCHANGED <<file, whole>>, rounds' \in 0..2, cardCuts' \in Nat, minted' = minted,
           toolset' \subseteq Tools, history' \in Seq(Notes),
           file["identity"] = Absent => rounds' = 0, ReplayInv', CardSettles'
    PROVE  CardInv'
<1>1. FilesInv' /\ FreshInv' /\ CardAgrees'
  BY DEF CardInv, CardTypeOK, FilesInv, FreshInv, CardAgrees, Readable, Sound, LastEpoch
<1>2. CountersInv'
  BY DEF CardInv, CardTypeOK, CountersInv
<1>3. QED
  BY <1>1, <1>2 DEF CardInv, CardTypeOK

\* ... such as a tool that comes with its server or goes with it.
LEMMA ToolStep ==
    ASSUME CardInv, NEW t \in Tools, Connect(t) \/ Disconnect(t)
    PROVE  CardInv'
<1>1. CountersInv /\ toolset \subseteq Tools /\ history \in Seq(Notes)
  BY DEF CardInv, CardTypeOK, CountersInv
<1>2. rounds' = 0 /\ UNCHANGED <<file, whole>> /\ minted' = minted /\ cardCuts' \in Nat /\ rounds' \in 0..2
  BY <1>1 DEF Connect, Disconnect, CountersInv
<1>3. toolset' \subseteq Tools
  BY <1>1 DEF Connect, Disconnect
<1>4. history' \in Seq(Notes)
  <2>1. [tool |-> t, found |-> TRUE] \in Notes
    BY DEF Notes
  <2>2. Append(history, [tool |-> t, found |-> TRUE]) \in Seq(Notes)
    BY <1>1, <2>1
  <2>3. QED
    BY <1>1, <2>2 DEF Connect, Disconnect
<1>5. ReplayInv' /\ CardSettles'
  BY <1>2 DEF ReplayInv, CardSettles
<1>6. QED
  BY <1>2, <1>3, <1>4, <1>5, FilesKept

\* DEFAULT_VALIDITY_MS pass: the renewal still names its epoch and its key.
LEMMA RenewalEndsStep ==
    ASSUME CardAssumption, CardInv, RenewalEnds
    PROVE  CardInv'
<1>1. /\ FilesInv /\ CountersInv /\ FreshInv /\ CardAgrees /\ ReplayInv /\ CardSettles
      /\ UNCHANGED <<history, toolset, rounds, minted, cardCuts, whole>>
      /\ Readable("renewal") /\ "renewal" \in Files /\ DOMAIN file = Files
  BY DEF CardInv, CardTypeOK, FilesInv, RenewalEnds, Files
<1>2. PICK r \in Renewals : r = file["renewal"]
  BY <1>1 DEF FilesInv, Sound
<1>3. PICK s : s = [r EXCEPT !.live = FALSE]
  OBVIOUS
<1>4. s \in Renewals /\ s.epoch = r.epoch /\ s.key = r.key
  BY <1>3 DEF Renewals
<1>5. file' = [file EXCEPT !["renewal"] = s]
  BY <1>2, <1>3 DEF RenewalEnds
<1>6. /\ file'["renewal"] = s /\ \A f \in Files : f # "renewal" => file'[f] = file[f]
      /\ DOMAIN file' = Files /\ file' = [f \in Files |-> file'[f]]
  BY <1>1, <1>5
<1>7. FilesInv'
  <2>1. ASSUME NEW f \in Files, file'[f] \notin {Absent, Torn} PROVE Sound(f, file'[f])
    <3>1. CASE f = "renewal"
      BY <1>4, <1>6, <3>1 DEF Sound
    <3>2. CASE f # "renewal"
      BY <1>1, <1>6, <2>1, <3>2 DEF FilesInv, Readable
    <3>3. QED
      BY <3>1, <3>2
  <2>2. QED
    BY <1>6, <2>1 DEF FilesInv, Readable, Sound
<1>8. /\ file'["identity"] = file["identity"] /\ file'["chain"] = file["chain"]
      /\ file'["detail"] = file["detail"] /\ file'["sensitive"] = file["sensitive"]
  BY <1>6 DEF Files
<1>9. FreshInv'
  BY <1>1, <1>8, SomethingIsThere DEF FreshInv
<1>10. CardAgrees'
  BY <1>1, <1>2, <1>4, <1>6, <1>8 DEF CardAgrees, LastEpoch, RenewalVerifies
<1>11. ReplayInv' /\ CardSettles'
  <2>1. Readable("detail")' => Readable("detail") /\ file'["detail"].tools = file["detail"].tools
    BY <1>8 DEF Readable
  <2>2. QED
    BY <1>1, <2>1, SettledKept
<1>12. CountersInv'
  BY <1>1 DEF CountersInv
<1>13. QED
  BY <1>7, <1>9, <1>10, <1>11, <1>12 DEF CardInv, CardTypeOK

\* What a reconciliation leaves when it does not touch the card ...
LEMMA NotedStep ==
    ASSUME CardInv, CardAssumption, UNCHANGED <<file, toolset>>, Readable("detail"),
           NEW before, before = file["detail"].tools, NEW h \in Seq(Notes), history' = h,
           \A t \in Tools : (t \in before <=> t \in toolset) =>
               (t \in Replay(h, before) <=> t \in Replay(history, before)),
           \/ rounds' = rounds
           \/ /\ Replay(h, before) = before /\ rounds' \in 0..2
              /\ \A t \in Tools : ~(t \in before <=> t \in toolset) =>
                                     (t \in Replay(h, before) <=> t \in toolset)
    PROVE  ReplayInv' /\ CardSettles'
<1>1. /\ FilesInv /\ CountersInv /\ ReplayInv /\ CardSettles /\ toolset \subseteq Tools /\ rounds \in 0..2
      /\ "detail" \in Files
  BY DEF CardInv, CardTypeOK, CountersInv, Files
<1>2. before \in SUBSET Tools
  BY <1>1 DEF FilesInv, Sound, Details
<1>3. CASE rounds' = rounds
  <2>1. CardSettles'
    BY <1>1, <1>3 DEF CardSettles, Readable
  <2>2. ASSUME rounds >= 1, NEW t \in Tools, t \in before <=> t \in toolset
        PROVE  t \in Replay(h, before) <=> t \in toolset
    BY <1>1, <2>2 DEF ReplayInv
  <2>3. ReplayInv'
    BY <1>3, <2>2 DEF ReplayInv, Readable
  <2>4. QED
    BY <2>1, <2>3
<1>4. CASE /\ Replay(h, before) = before
           /\ \A t \in Tools : ~(t \in before <=> t \in toolset) =>
                                  (t \in Replay(h, before) <=> t \in toolset)
  <2>1. \A t \in Tools : t \in before <=> t \in toolset
    BY <1>4
  <2>2. before = toolset
    BY <1>1, <1>2, <2>1
  <2>3. CardSettles'
    BY <2>2 DEF CardSettles
  <2>4. Replay(h, before) = toolset
    BY <1>4, <2>2
  <2>5. ReplayInv'
    BY <2>4 DEF ReplayInv, Readable
  <2>6. QED
    BY <2>3, <2>5
<1>5. QED
  BY <1>3, <1>4

\* ... and when it writes what the log replays to.
LEMMA UpdatedStep ==
    ASSUME CardInv, CardAssumption, UNCHANGED toolset, Readable("detail"),
           NEW before, before = file["detail"].tools, NEW h \in Seq(Notes), history' = h,
           NEW after, after = Replay(h, before), after # before, Replay(h, after) = after,
           \A t \in Tools : IF t \in before <=> t \in toolset
                            THEN t \in Replay(h, before) <=> t \in Replay(history, before)
                            ELSE t \in Replay(h, before) <=> t \in toolset,
           \/ /\ file'["detail"].tools = after
              /\ rounds' = IF rounds < 2 THEN rounds + 1 ELSE rounds
           \/ /\ \/ file'["detail"] = Torn \/ file'["detail"] = file["detail"]
                 \/ file'["detail"].tools = after
              /\ rounds' = rounds
    PROVE  ReplayInv' /\ CardSettles'
<1>1. /\ FilesInv /\ CountersInv /\ ReplayInv /\ CardSettles /\ toolset \subseteq Tools /\ rounds \in 0..2
      /\ "detail" \in Files
  BY DEF CardInv, CardTypeOK, CountersInv, Files
<1>2. before \in SUBSET Tools /\ after \in SUBSET Tools
  BY <1>1, ReplayTwice DEF FilesInv, Sound, Details
<1>3. ASSUME rounds >= 1 PROVE after = toolset
  <2>1. \A t \in Tools : (t \in before <=> t \in toolset) => (t \in Replay(history, before) <=> t \in toolset)
    BY <1>1, <1>3 DEF ReplayInv
  <2>2. \A t \in Tools : t \in after <=> t \in toolset
    BY <2>1
  <2>3. QED
    BY <1>1, <1>2, <2>2
<1>4. ASSUME rounds = 2 PROVE FALSE
  <2>1. before = toolset
    BY <1>1, <1>4 DEF CardSettles
  <2>2. QED
    BY <1>3, <1>4, <2>1
<1>5. rounds \in 0..1
  BY <1>1, <1>4
<1>6. CardSettles'
  <2>1. CASE rounds' = rounds
    BY <1>5, <2>1 DEF CardSettles
  <2>2. CASE file'["detail"].tools = after /\ rounds' = IF rounds < 2 THEN rounds + 1 ELSE rounds
    BY <1>3, <1>5, <2>2 DEF CardSettles
  <2>3. QED
    BY <2>1, <2>2
<1>7. ReplayInv'
  <2>1. CASE file'["detail"].tools = after
    <3>1. \A t \in Tools : (t \in after <=> t \in toolset) => (t \in Replay(h, after) <=> t \in toolset)
      OBVIOUS
    <3>2. QED
      BY <2>1, <3>1 DEF ReplayInv, Readable
  <2>2. CASE file'["detail"] = Torn
    BY <2>2 DEF ReplayInv, Readable
  <2>3. CASE file'["detail"] = file["detail"] /\ rounds' = rounds
    <3>1. ASSUME rounds >= 1, NEW t \in Tools, t \in before <=> t \in toolset
          PROVE  t \in Replay(h, before) <=> t \in toolset
      BY <1>1, <3>1 DEF ReplayInv
    <3>2. QED
      BY <2>3, <3>1 DEF ReplayInv, Readable
  <2>4. QED
    BY <2>1, <2>2, <2>3
<1>8. QED
  BY <1>6, <1>7

\* reconcile, with each of its ends.
LEMMA ReconcileStep ==
    ASSUME CardAssumption, CardInv, NEW apply \in BOOLEAN, Reconcile(apply)
    PROVE  CardInv'
<1>1. /\ FilesInv /\ CountersInv /\ FreshInv /\ CardAgrees /\ ReplayInv /\ CardSettles
      /\ minted \in Nat /\ cardCuts \in Nat /\ UNCHANGED toolset /\ Readable("detail") /\ "detail" \in Files
      /\ rounds \in 0..2 /\ toolset \subseteq Tools /\ history \in Seq(Notes)
  BY DEF CardInv, CardTypeOK, CountersInv, Reconcile, Files
<1>2. file["identity"] # Absent
  BY <1>1, SomethingIsThere
<1>3. PICK before \in SUBSET Tools : before = file["detail"].tools
  BY <1>1 DEF FilesInv, Sound, Details
<1>4. PICK o : o = Observed(before)
  OBVIOUS
<1>5. /\ history \o o \in Seq(Notes)
      /\ \A t \in Tools :
            IF t \in before <=> t \in toolset
            THEN t \in Replay(history \o o, before) <=> t \in Replay(history, before)
            ELSE t \in Replay(history \o o, before) <=> t \in toolset
      /\ \A n \in 0..(Len(o) - 1) :
            /\ history \o SubSeq(o, 1, n) \in Seq(Notes)
            /\ \A t \in Tools : (t \in before <=> t \in toolset) =>
                  (t \in Replay(history \o SubSeq(o, 1, n), before) <=> t \in Replay(history, before))
  BY <1>1, <1>4, ReplayFollows
<1>6. PICK noted \in Seq(Notes) : noted = history \o o
  BY <1>5
<1>7. PICK after : after = Replay(noted, before)
  OBVIOUS
<1>8. after \in SUBSET Tools /\ Replay(noted, after) = after
  BY <1>7, ReplayTwice
<1>9. \/ /\ \E n \in 0..(Len(o) - 1) : history' = history \o SubSeq(o, 1, n)
         /\ cardCuts' = cardCuts + 1 /\ UNCHANGED <<file, minted, whole, rounds>>
      \/ /\ ~(after # before /\ apply) /\ history' = noted
         /\ rounds' = (IF apply /\ rounds < 2 THEN rounds + 1 ELSE rounds)
         /\ UNCHANGED <<file, minted, cardCuts, whole>>
      \/ /\ after # before /\ CanSucceed /\ history' = noted
         /\ \/ Completes(UpdateWrites(after)) /\ whole' = TRUE
               /\ rounds' = (IF rounds < 2 THEN rounds + 1 ELSE rounds)
            \/ Dies(UpdateWrites(after)) /\ whole' = FALSE /\ UNCHANGED rounds
      \/ history' = noted /\ UNCHANGED <<file, minted, cardCuts, whole, rounds>>
  BY <1>3, <1>4, <1>6, <1>7, Zenon DEF Reconcile
<1>10. CASE /\ \E n \in 0..(Len(o) - 1) : history' = history \o SubSeq(o, 1, n)
            /\ cardCuts' = cardCuts + 1 /\ UNCHANGED <<file, minted, whole, rounds>>
  <2>1. PICK n \in 0..(Len(o) - 1) : history' = history \o SubSeq(o, 1, n)
    BY <1>10
  <2>2. PICK h \in Seq(Notes) : h = history \o SubSeq(o, 1, n)
    BY <1>5
  <2>3. \A t \in Tools : (t \in before <=> t \in toolset) =>
            (t \in Replay(h, before) <=> t \in Replay(history, before))
    BY <1>5, <2>2
  <2>4. ReplayInv' /\ CardSettles'
    BY <1>1, <1>3, <1>10, <2>1, <2>2, <2>3, NotedStep
  <2>5. cardCuts' \in Nat
    BY <1>1, <1>10
  <2>6. QED
    BY <1>1, <1>2, <1>10, <2>1, <2>2, <2>4, <2>5, FilesKept
<1>11. CASE /\ ~(after # before /\ apply) /\ history' = noted
            /\ rounds' = (IF apply /\ rounds < 2 THEN rounds + 1 ELSE rounds)
            /\ UNCHANGED <<file, minted, cardCuts, whole>>
  <2>1. rounds' \in 0..2
    BY <1>1, <1>11
  <2>2. /\ \A t \in Tools : (t \in before <=> t \in toolset) =>
              (t \in Replay(noted, before) <=> t \in Replay(history, before))
        /\ \A t \in Tools : ~(t \in before <=> t \in toolset) =>
              (t \in Replay(noted, before) <=> t \in toolset)
    BY <1>5, <1>6
  <2>3. rounds' = rounds \/ Replay(noted, before) = before
    BY <1>7, <1>11
  <2>4. ReplayInv' /\ CardSettles'
    BY <1>1, <1>3, <1>11, <2>1, <2>2, <2>3, NotedStep
  <2>5. QED
    BY <1>1, <1>2, <1>11, <2>1, <2>4, FilesKept
<1>12. CASE history' = noted /\ UNCHANGED <<file, minted, cardCuts, whole, rounds>>
  <2>1. \A t \in Tools : (t \in before <=> t \in toolset) =>
            (t \in Replay(noted, before) <=> t \in Replay(history, before))
    BY <1>5, <1>6
  <2>2. ReplayInv' /\ CardSettles'
    BY <1>1, <1>3, <1>12, <2>1, NotedStep
  <2>3. QED
    BY <1>1, <1>2, <1>12, <2>2, FilesKept
<1>13. CASE /\ after # before /\ CanSucceed /\ history' = noted
            /\ \/ Completes(UpdateWrites(after)) /\ whole' = TRUE
                  /\ rounds' = (IF rounds < 2 THEN rounds + 1 ELSE rounds)
               \/ Dies(UpdateWrites(after)) /\ whole' = FALSE /\ UNCHANGED rounds
  <2>1. PICK key \in Nat : key = file["identity"]
    BY <1>1, <1>13 DEF CanSucceed, FilesInv, Sound, Files
  <2>2. PICK has \in BOOLEAN : has = Readable("sensitive")
    BY DEF Readable
  <2>3. PICK keyed \in BOOLEAN : keyed = FALSE
    OBVIOUS
  <2>4. PICK e : e = Successor(LastEpoch, IF keyed THEN "key_rotation" ELSE "capability_update",
                               key, file["identity"], IF has THEN Newest ELSE 0)
    OBVIOUS
  <2>5. PICK d : d = Detail(e.no, after, key)
    OBVIOUS
  <2>6. PICK w : w = IF keyed THEN <<To("identity", key)>> \o Commit(e, d, has) ELSE Commit(e, d, has)
    OBVIOUS
  <2>7. PICK c : c = Append(file["chain"], e)
    OBVIOUS
  <2>8. WritesCard(w, c, d, has, keyed)
    BY <1>8, <1>13, <2>1, <2>4, <2>5, <2>6, <2>7, SuccessorCard
  <2>9. w = UpdateWrites(after)
    <3>1. e = Successor(LastEpoch, "capability_update", file["identity"], file["identity"],
                        IF Readable("sensitive") THEN Newest ELSE 0)
      BY <2>1, <2>2, <2>3, <2>4
    <3>2. d = Detail(e.no, after, file["identity"]) /\ w = Commit(e, d, Readable("sensitive"))
      BY <2>1, <2>2, <2>3, <2>5, <2>6
    <3>3. QED
      BY <3>1, <3>2, Zenon DEF UpdateWrites
  <2>10. \/ Completes(w) /\ whole' = TRUE /\ rounds' = (IF rounds < 2 THEN rounds + 1 ELSE rounds)
         \/ Dies(w) /\ whole' = FALSE /\ UNCHANGED rounds
    BY <1>13, <2>9
  <2>11. Completes(w) \/ Dies(w)
    BY <2>10
  <2>12. FilesInv' /\ minted' \in Nat /\ cardCuts' \in Nat
    BY <1>1, <2>8, <2>11, CardWritten
  <2>13. file["identity"] # Absent => file'["identity"] # Absent
    BY <1>1, <2>8, <2>11, CardWritten
  <2>14. file'["detail"] \in {Torn, file["detail"], d}
    BY <1>1, <2>8, <2>11, CardWritten
  <2>15. ASSUME Completes(w) PROVE CardAgrees'
    BY <1>1, <2>8, <2>15, CardWritten
  <2>16. ASSUME Completes(w) PROVE file'["detail"] = d
    BY <1>1, <2>8, <2>16, CardWritten
  <2>17. FreshInv'
    BY <1>2, <2>13 DEF FreshInv
  <2>18. CardAgrees'
    BY <2>10, <2>15 DEF CardAgrees
  <2>19. rounds' \in 0..2
    BY <1>1, <2>10
  <2>20. CountersInv'
    BY <1>1, <1>6, <1>13, <2>10, <2>12, <2>19 DEF CountersInv
  <2>21. d.tools = after /\ d \in Details
    BY <2>5, <2>8 DEF Detail, WritesCard
  <2>22. \/ /\ file'["detail"].tools = after
            /\ rounds' = IF rounds < 2 THEN rounds + 1 ELSE rounds
         \/ /\ \/ file'["detail"] = Torn \/ file'["detail"] = file["detail"]
               \/ file'["detail"].tools = after
            /\ rounds' = rounds
    BY <2>10, <2>14, <2>16, <2>21
  <2>25. \A t \in Tools : IF t \in before <=> t \in toolset
                         THEN t \in Replay(noted, before) <=> t \in Replay(history, before)
                         ELSE t \in Replay(noted, before) <=> t \in toolset
    BY <1>5, <1>6
  <2>23. ReplayInv' /\ CardSettles'
    BY <1>1, <1>3, <1>7, <1>8, <1>13, <2>22, <2>25, UpdatedStep
  <2>24. QED
    BY <2>12, <2>17, <2>18, <2>20, <2>23 DEF CardInv, CardTypeOK
<1>14. QED
  BY <1>9, <1>10, <1>11, <1>12, <1>13

LEMMA CardStart == CardAssumption /\ CardInit => CardInv
<1> SUFFICES ASSUME CardAssumption, CardInit PROVE CardInv
  OBVIOUS
<1>1. /\ DOMAIN file = Files /\ file = [f \in Files |-> file[f]] /\ \A f \in Files : file[f] = Absent
  BY DEF CardInit, Files
<1>2. FilesInv
  BY <1>1 DEF FilesInv, Readable
<1>3. CountersInv
  <2>1. << >> \in Seq(Notes)
    OBVIOUS
  <2>2. QED
    BY <2>1 DEF CountersInv, CardInit
<1>4. FreshInv
  BY <1>1 DEF FreshInv, CardInit
<1>5. CardAgrees /\ ReplayInv /\ CardSettles
  <2>1. file["identity"] = Absent
    BY <1>1 DEF Files
  <2>2. QED
    BY <2>1 DEF CardAgrees, ReplayInv, CardSettles, CardInit
<1>6. QED
  BY <1>2, <1>3, <1>4, <1>5 DEF CardInv, CardTypeOK

LEMMA CardStep == CardAssumption /\ CardInv /\ [CardNext]_cardVars => CardInv'
<1> SUFFICES ASSUME CardAssumption, CardInv, [CardNext]_cardVars PROVE CardInv'
  OBVIOUS
<1>1. ASSUME NEW has \in BOOLEAN, Bootstrap(toolset, has) PROVE CardInv'
  <2>1. PICK tools \in SUBSET Tools : tools = toolset
    BY DEF CardInv, CardTypeOK, CountersInv
  <2>2. QED
    BY <1>1, <2>1, BootstrapStep
<1>2. ASSUME NEW has \in BOOLEAN, Reconcile(has) PROVE CardInv'
  BY <1>2, ReconcileStep
<1>3. CASE EnsureLive
  BY <1>3, EnsureLiveStep
<1>4. CASE RotateKey
  BY <1>4, RotateKeyStep
<1>5. CASE RenewalEnds
  BY <1>5, RenewalEndsStep
<1>6. ASSUME NEW t \in Tools, Connect(t) \/ Disconnect(t) PROVE CardInv'
  BY <1>6, ToolStep
<1>7. CASE UNCHANGED cardVars
  <2>1. UNCHANGED <<file, history, toolset, minted, cardCuts, whole, rounds>>
    BY <1>7 DEF cardVars
  <2>2. CountersInv /\ ReplayInv /\ CardSettles /\ FreshInv
    BY DEF CardInv, CardTypeOK
  <2>3. ReplayInv' /\ CardSettles'
    BY <2>1, <2>2, SettledKept DEF Readable
  <2>4. /\ rounds' \in 0..2 /\ cardCuts' \in Nat /\ toolset' \subseteq Tools /\ history' \in Seq(Notes)
        /\ file["identity"] = Absent => rounds' = 0
    BY <2>1, <2>2 DEF CountersInv, FreshInv
  <2>5. QED
    BY <2>1, <2>3, <2>4, FilesKept
<1>8. QED
  BY <1>1, <1>2, <1>3, <1>4, <1>5, <1>6, <1>7 DEF CardNext

\* Every file that can be read holds what its operation writes, and a chain of
\* epochs that can be read is not empty.
THEOREM CardTypeCorrect == CardSpec => []CardTypeOK
<1>1. CardInv => CardTypeOK
  BY DEF CardInv
<1>2. QED
  BY <1>1, CardAssumption, CardStart, CardStep, PTL DEF CardSpec

\* Wherever a process died and whenever the key was rotated, the chain verifies,
\* the files an operation left agree with its last epoch, and two
\* reconciliations settle the card on what the agent can do.
THEOREM CardStaysSound == CardSpec => []CardIsSound
<1>1. CardInv => CardIsSound
  <2> SUFFICES ASSUME CardInv PROVE CardIsSound
    OBVIOUS
  <2>1. ChainIsSound
    <3>1. FilesInv /\ "chain" \in Files
      BY DEF CardInv, CardTypeOK, Files
    <3>2. QED
      BY <3>1 DEF FilesInv, Sound, ChainIsSound
  <2>2. QED
    BY <2>1 DEF CardInv, CardIsSound
<1>2. QED
  BY <1>1, CardAssumption, CardStart, CardStep, PTL DEF CardSpec

-----------------------------------------------------------------------------
(* PeerLink: order, and what a flush leaves of the queue *)

Injective(s) == \A i, j \in DOMAIN s : s[i] = s[j] => i = j

LEMMA NaturalsBySteps ==
    ASSUME NEW G \in SUBSET Nat, 0 \in G, \A n \in G : n + 1 \in G
    PROVE  G = Nat
<1>1. SUFFICES ASSUME Nat \ G # {} PROVE FALSE
  OBVIOUS
<1> DEFINE Less == {p \in Nat \X Nat : p[1] < p[2]}
<1>2. PICK n \in Nat \ G : \A m \in Nat \ G : <<m, n>> \notin Less
  <2>1. Nat \ G \in SUBSET Nat
    OBVIOUS
  <2>2. IsWellFoundedOn(Less, Nat)
    BY NatLessThanWellFounded DEF OpToRel
  <2> HIDE DEF Less
  <2>3. QED
    BY <1>1, <2>1, <2>2, WFMin
<1>3. n - 1 \in Nat /\ n - 1 \notin Nat \ G
  <2>1. n # 0 /\ n \in Nat
    OBVIOUS
  <2>2. n - 1 \in Nat
    BY <2>1
  <2>3. <<n - 1, n>> \in Nat \X Nat /\ <<n - 1, n>>[1] < <<n - 1, n>>[2]
    BY <2>1, <2>2
  <2>4. QED
    BY <1>2, <2>2, <2>3
<1>4. (n - 1) + 1 \in G
  BY <1>3
<1>5. QED
  BY <1>2, <1>4

\* What follows something in order, at a place beyond all of it, comes last.
LEMMA NextInOrder ==
    ASSUME NEW base \in Seq(Posts), Injective(base), NEW s \in Seq(Posts), InOrder(s, base),
           NEW n \in DOMAIN base, \A i \in DOMAIN s : \E m \in DOMAIN base : m < n /\ s[i] = base[m]
    PROVE  Append(s, base[n]) \in Seq(Posts) /\ InOrder(Append(s, base[n]), base)
<1>1. base[n] \in Posts /\ DOMAIN base = 1..Len(base) /\ DOMAIN s = 1..Len(s) /\ Len(s) \in Nat /\ Len(base) \in Nat
  OBVIOUS
<1>2. Append(s, base[n]) \in Seq(Posts)
  BY <1>1
<1>3. PICK t \in Seq(Posts) : t = Append(s, base[n])
  BY <1>2
<1>4. /\ Len(t) = Len(s) + 1 /\ DOMAIN t = 1..(Len(s) + 1) /\ t[Len(s) + 1] = base[n]
      /\ \A i \in 1..Len(s) : t[i] = s[i]
  BY <1>1, <1>3
<1>5. ToSet(t) \subseteq ToSet(base)
  <2>1. ASSUME NEW i \in 1..(Len(s) + 1) PROVE t[i] \in ToSet(base)
    <3>1. CASE i = Len(s) + 1
      BY <1>4, <3>1 DEF ToSet
    <3>2. CASE i # Len(s) + 1
      <4>1. i \in DOMAIN s /\ t[i] = s[i]
        BY <1>1, <1>4, <3>2
      <4>2. s[i] \in ToSet(s)
        BY <4>1 DEF ToSet
      <4>3. QED
        BY <4>1, <4>2 DEF InOrder
    <3>3. QED
      BY <3>1, <3>2
  <2>2. QED
    BY <1>4, <2>1 DEF ToSet
<1>6. ASSUME NEW i \in DOMAIN t, NEW j \in DOMAIN t, NEW a \in DOMAIN base, NEW b \in DOMAIN base,
             i < j, t[i] = base[a], t[j] = base[b]
      PROVE  a < b
  <2>1. i \in 1..Len(s) /\ t[i] = s[i]
    BY <1>1, <1>4, <1>6
  <2>2. CASE j = Len(s) + 1
    <3>1. b = n
      BY <1>4, <1>6, <2>2 DEF Injective
    <3>2. PICK m \in DOMAIN base : m < n /\ s[i] = base[m]
      BY <1>1, <2>1
    <3>3. m = a
      BY <1>6, <2>1, <3>2 DEF Injective
    <3>4. QED
      BY <3>1, <3>2, <3>3
  <2>3. CASE j # Len(s) + 1
    <3>1. j \in 1..Len(s) /\ t[j] = s[j]
      BY <1>1, <1>4, <2>3
    <3>2. QED
      BY <1>1, <1>6, <2>1, <3>1 DEF InOrder
  <2>4. QED
    BY <2>2, <2>3
<1>7. InOrder(t, base)
  BY <1>5, <1>6 DEF InOrder
<1>8. QED
  BY <1>2, <1>3, <1>7

\* What is in order in the tail of something in order is so behind its front.
LEMMA OrderThrough ==
    ASSUME NEW w \in Seq(Posts), NEW q \in Seq(Posts), NEW base \in Seq(Posts), InOrder(w \o q, base),
           NEW s \in Seq(Posts), InOrder(s, q)
    PROVE  w \o s \in Seq(Posts) /\ InOrder(w \o s, base)
<1>1. /\ Len(w) \in Nat /\ Len(q) \in Nat /\ Len(s) \in Nat
      /\ DOMAIN w = 1..Len(w) /\ DOMAIN q = 1..Len(q) /\ DOMAIN s = 1..Len(s)
  OBVIOUS
<1>11. w \o q \in Seq(Posts) /\ w \o s \in Seq(Posts)
  OBVIOUS
<1>2. PICK wq \in Seq(Posts) : wq = w \o q
  BY <1>11
<1>3. PICK ws \in Seq(Posts) : ws = w \o s
  BY <1>11
<1>4. /\ DOMAIN wq = 1..(Len(w) + Len(q))
      /\ \A i \in 1..(Len(w) + Len(q)) : wq[i] = IF i <= Len(w) THEN w[i] ELSE q[i - Len(w)]
  BY <1>2
<1>5. /\ DOMAIN ws = 1..(Len(w) + Len(s))
      /\ \A i \in 1..(Len(w) + Len(s)) : ws[i] = IF i <= Len(w) THEN w[i] ELSE s[i - Len(w)]
  BY <1>3
<1>6. ASSUME NEW i \in DOMAIN ws
      PROVE  \E k \in DOMAIN wq : /\ ws[i] = wq[k]
                                  /\ IF i <= Len(w) THEN k = i
                                     ELSE /\ k - Len(w) \in DOMAIN q /\ i - Len(w) \in DOMAIN s
                                          /\ s[i - Len(w)] = q[k - Len(w)]
  <2>1. CASE i <= Len(w)
    <3>1. i \in DOMAIN wq /\ ws[i] = wq[i]
      BY <1>1, <1>4, <1>5, <2>1
    <3>2. QED
      BY <2>1, <3>1
  <2>2. CASE ~(i <= Len(w))
    <3>1. i - Len(w) \in DOMAIN s /\ ws[i] = s[i - Len(w)]
      BY <1>1, <1>5, <2>2
    <3>2. s[i - Len(w)] \in ToSet(q)
      BY <3>1 DEF InOrder, ToSet
    <3>3. PICK m \in DOMAIN q : s[i - Len(w)] = q[m]
      BY <3>2 DEF ToSet
    <3>4. PICK k \in DOMAIN wq : k = m + Len(w)
      BY <1>1, <1>4
    <3>5. ~(k <= Len(w)) /\ k - Len(w) = m /\ wq[k] = q[m]
      <4>1. ~(k <= Len(w)) /\ k - Len(w) = m
        BY <1>1, <3>4
      <4>2. QED
        BY <1>4, <4>1
    <3>6. QED
      BY <2>2, <3>1, <3>3, <3>5
  <2>3. QED
    BY <2>1, <2>2
<1>7. ToSet(ws) \subseteq ToSet(base)
  <2>1. ASSUME NEW i \in DOMAIN ws PROVE ws[i] \in ToSet(base)
    <3>1. PICK k \in DOMAIN wq : ws[i] = wq[k]
      BY <1>6
    <3>2. wq[k] \in ToSet(wq)
      BY DEF ToSet
    <3>3. QED
      BY <1>2, <3>1, <3>2 DEF InOrder
  <2>2. QED
    BY <2>1 DEF ToSet
<1>8. ASSUME NEW i \in DOMAIN ws, NEW j \in DOMAIN ws, NEW a \in DOMAIN base, NEW b \in DOMAIN base,
             i < j, ws[i] = base[a], ws[j] = base[b]
      PROVE  a < b
  <2>1. PICK k \in DOMAIN wq : /\ ws[i] = wq[k]
                               /\ IF i <= Len(w) THEN k = i
                                  ELSE /\ k - Len(w) \in DOMAIN q /\ i - Len(w) \in DOMAIN s
                                       /\ s[i - Len(w)] = q[k - Len(w)]
    BY <1>6
  <2>2. PICK m \in DOMAIN wq : /\ ws[j] = wq[m]
                               /\ IF j <= Len(w) THEN m = j
                                  ELSE /\ m - Len(w) \in DOMAIN q /\ j - Len(w) \in DOMAIN s
                                       /\ s[j - Len(w)] = q[m - Len(w)]
    BY <1>6
  <2>3. k < m
    <3>1. CASE j <= Len(w)
      BY <1>1, <1>5, <1>8, <2>1, <2>2, <3>1
    <3>2. CASE ~(j <= Len(w)) /\ i <= Len(w)
      <4>1. m - Len(w) \in 1..Len(q) /\ k = i /\ m \in Nat
        BY <1>1, <1>4, <2>1, <2>2, <3>2
      <4>2. QED
        BY <1>1, <1>5, <3>2, <4>1
    <3>3. CASE ~(i <= Len(w)) /\ ~(j <= Len(w))
      <4>1. /\ i - Len(w) \in DOMAIN s /\ j - Len(w) \in DOMAIN s
            /\ k - Len(w) \in DOMAIN q /\ m - Len(w) \in DOMAIN q
            /\ s[i - Len(w)] = q[k - Len(w)] /\ s[j - Len(w)] = q[m - Len(w)]
        BY <2>1, <2>2, <3>3
      <4>2. i - Len(w) < j - Len(w)
        BY <1>1, <1>5, <1>8
      <4>3. k - Len(w) < m - Len(w)
        BY <4>1, <4>2 DEF InOrder
      <4>4. QED
        BY <1>1, <1>4, <4>3
    <3>4. QED
      BY <1>1, <1>5, <3>1, <3>2, <3>3
  <2>4. wq[k] = base[a] /\ wq[m] = base[b]
    BY <1>8, <2>1, <2>2
  <2>5. QED
    BY <1>2, <2>3, <2>4 DEF InOrder
<1>9. InOrder(ws, base)
  BY <1>7, <1>8 DEF InOrder
<1>10. QED
  BY <1>3, <1>9

\* What a flush did with the first n of the queue: it kept their order, and
\* left out only what has expired.
Keeps(q, n) ==
    /\ q \in Seq(Posts) /\ InOrder(q, pending)
    /\ \A i \in DOMAIN q : \E m \in 1..n : q[i] = pending[m]
    /\ \A m \in 1..n : pending[m] \in gone \/ pending[m] \in ToSet(q)
FlushFact(s, n) ==
    /\ s = [out |-> s.out, rest |-> s.rest, buf |-> s.buf]
    /\ s.out \in Seq(Posts) /\ s.rest \in Seq(Posts)
    /\ Keeps(s.out \o s.rest, n)

LEMMA FactGrows ==
    ASSUME pending \in Seq(Posts), Injective(pending), NEW n \in Nat, n + 1 \in DOMAIN pending,
           NEW q \in Seq(Posts), Keeps(q, n)
    PROVE  Keeps(Append(q, pending[n + 1]), n + 1)
<1>8. PICK r : r = Append(q, pending[n + 1])
  OBVIOUS
<1>9. /\ InOrder(q, pending)
      /\ \A i \in DOMAIN q : \E m \in 1..n : q[i] = pending[m]
      /\ \A m \in 1..n : pending[m] \in gone \/ pending[m] \in ToSet(q)
  BY DEF Keeps
<1>1. DOMAIN pending = 1..Len(pending) /\ Len(pending) \in Nat /\ n + 1 <= Len(pending)
  OBVIOUS
<1>2. \A i \in DOMAIN q : \E m \in DOMAIN pending : m < n + 1 /\ q[i] = pending[m]
  <2>1. ASSUME NEW i \in DOMAIN q PROVE \E m \in DOMAIN pending : m < n + 1 /\ q[i] = pending[m]
    <3>1. PICK m \in 1..n : q[i] = pending[m]
      BY <1>9
    <3>2. m \in DOMAIN pending /\ m < n + 1
      BY <1>1
    <3>3. QED
      BY <3>1, <3>2
  <2>2. QED
    BY <2>1
<1>3. r \in Seq(Posts) /\ InOrder(r, pending)
  <2>1. Append(q, pending[n + 1]) \in Seq(Posts) /\ InOrder(Append(q, pending[n + 1]), pending)
    BY <1>2, <1>9, NextInOrder
  <2>2. QED
    BY <1>8, <2>1
<1>4. /\ Len(q) \in Nat /\ DOMAIN q = 1..Len(q) /\ DOMAIN r = 1..(Len(q) + 1)
      /\ r[Len(q) + 1] = pending[n + 1] /\ \A i \in 1..Len(q) : r[i] = q[i]
  BY <1>8
<1>5. ASSUME NEW i \in DOMAIN r PROVE \E m \in 1..(n + 1) : r[i] = pending[m]
  <2>1. CASE i = Len(q) + 1
    <3>1. n + 1 \in 1..(n + 1)
      OBVIOUS
    <3>2. QED
      BY <1>4, <2>1, <3>1
  <2>2. CASE i # Len(q) + 1
    <3>1. i \in DOMAIN q /\ r[i] = q[i]
      BY <1>4, <2>2
    <3>2. PICK m \in 1..n : q[i] = pending[m]
      BY <1>9, <3>1
    <3>3. m \in 1..(n + 1)
      OBVIOUS
    <3>4. QED
      BY <3>1, <3>2, <3>3
  <2>3. QED
    BY <2>1, <2>2
<1>6. ASSUME NEW m \in 1..(n + 1), pending[m] \notin gone PROVE pending[m] \in ToSet(r)
  <2>1. CASE m = n + 1
    <3>1. Len(q) + 1 \in DOMAIN r
      BY <1>4
    <3>2. QED
      BY <1>4, <2>1, <3>1 DEF ToSet
  <2>2. CASE m # n + 1
    <3>1. m \in 1..n
      BY <2>2
    <3>2. PICK i \in DOMAIN q : q[i] = pending[m]
      BY <1>6, <1>9, <3>1 DEF ToSet
    <3>3. i \in DOMAIN r /\ r[i] = pending[m]
      BY <1>4, <3>2
    <3>4. QED
      BY <3>3 DEF ToSet
  <2>3. QED
    BY <2>1, <2>2
<1>7. Keeps(r, n + 1)
  BY <1>3, <1>5, <1>6 DEF Keeps
<1>10. QED
  BY <1>7, <1>8

LEMMA FlushOneKeeps ==
    ASSUME pending \in Seq(Posts), Injective(pending), NEW n \in Nat, n + 1 \in DOMAIN pending,
           NEW s, FlushFact(s, n)
    PROVE  FlushFact(FlushOne(s, pending[n + 1]), n + 1)
<1>1. PICK p \in Posts : p = pending[n + 1]
  OBVIOUS
<1>2. PICK a \in Seq(Posts) : a = s.out
  BY DEF FlushFact
<1>3. PICK b \in Seq(Posts) : b = s.rest
  BY DEF FlushFact
<1>4. PICK u : u = s.buf
  OBVIOUS
<1>5. s = [out |-> a, rest |-> b, buf |-> u]
  BY <1>2, <1>3, <1>4 DEF FlushFact
<1>6. a \o b \in Seq(Posts)
  OBVIOUS
<1>7. PICK q \in Seq(Posts) : q = a \o b
  BY <1>6
<1>8. Keeps(q, n)
  BY <1>2, <1>3, <1>7 DEF FlushFact
<1>9. PICK r : r = Append(q, p)
  OBVIOUS
<1>10. Keeps(r, n + 1)
  <2>1. Keeps(Append(q, pending[n + 1]), n + 1)
    BY <1>8, FactGrows
  <2>2. QED
    BY <1>1, <1>9, <2>1
<1>11. PICK t : t = FlushOne(s, p)
  OBVIOUS
<1>12. CASE t = [s EXCEPT !.rest = Append(@, p)]
  <2>5. Append(b, p) \in Seq(Posts)
    OBVIOUS
  <2>6. PICK bp : bp = Append(b, p)
    OBVIOUS
  <2>7. t = [s EXCEPT !.rest = bp]
    BY <1>3, <1>12, <2>6
  <2>8. t = [out |-> a, rest |-> bp, buf |-> u]
    BY <1>5, <2>7
  <2>1. t = [out |-> a, rest |-> Append(b, p), buf |-> u] /\ Append(b, p) \in Seq(Posts)
    BY <2>5, <2>6, <2>8
  <2>2. a \o Append(b, p) = r
    BY <1>7, <1>9
  <2>3. t.out = a /\ t.rest = Append(b, p) /\ t.buf = u
    BY <2>1
  <2>4. QED
    BY <1>1, <1>10, <1>11, <2>1, <2>2, <2>3 DEF FlushFact
<1>13. CASE p \in gone /\ t = s
  <2>1. \A m \in 1..(n + 1) : pending[m] \in gone \/ pending[m] \in ToSet(q)
    BY <1>1, <1>8, <1>13 DEF Keeps
  <2>2. \A i \in DOMAIN q : \E m \in 1..(n + 1) : q[i] = pending[m]
    <3>1. ASSUME NEW i \in DOMAIN q PROVE \E m \in 1..(n + 1) : q[i] = pending[m]
      <4>1. PICK m \in 1..n : q[i] = pending[m]
        BY <1>8 DEF Keeps
      <4>2. m \in 1..(n + 1)
        OBVIOUS
      <4>3. QED
        BY <4>1, <4>2
    <3>2. QED
      BY <3>1
  <2>3. t.out = a /\ t.rest = b /\ t = [out |-> a, rest |-> b, buf |-> t.buf]
    BY <1>2, <1>3, <1>4, <1>5, <1>13
  <2>4. QED
    BY <1>1, <1>7, <1>8, <1>11, <2>1, <2>2, <2>3 DEF FlushFact, Keeps
<1>14. CASE b = <<>> /\ t = [s EXCEPT !.out = Append(@, p), !.buf = Append(@, p)]
  <2>5. Append(a, p) \in Seq(Posts)
    OBVIOUS
  <2>6. PICK ap : ap = Append(a, p)
    OBVIOUS
  <2>9. PICK up : up = Append(u, p)
    OBVIOUS
  <2>7. t = [s EXCEPT !.out = ap, !.buf = up]
    BY <1>2, <1>4, <1>14, <2>6, <2>9
  <2>8. t = [out |-> ap, rest |-> b, buf |-> up]
    BY <1>5, <2>7
  <2>1. t = [out |-> Append(a, p), rest |-> b, buf |-> Append(u, p)] /\ Append(a, p) \in Seq(Posts)
    BY <2>5, <2>6, <2>8, <2>9
  <2>2. Append(a, p) \o b = r
    BY <1>7, <1>9, <1>14
  <2>3. t.out = Append(a, p) /\ t.rest = b /\ t.buf = Append(u, p)
    BY <2>1
  <2>4. QED
    BY <1>1, <1>10, <1>11, <2>1, <2>2, <2>3 DEF FlushFact
<1>15. \/ t = [s EXCEPT !.rest = Append(@, p)]
       \/ p \in gone /\ t = s
       \/ b = <<>> /\ t = [s EXCEPT !.out = Append(@, p), !.buf = Append(@, p)]
  BY <1>3, <1>11 DEF FlushOne
<1>16. QED
  BY <1>1, <1>11, <1>12, <1>13, <1>14, <1>15

\* The function by which flushPending is written.
IsFlush(g, buf) ==
    g = [n \in 0..Len(pending) |-> IF n = 0 THEN [out |-> <<>>, rest |-> <<>>, buf |-> buf]
                                   ELSE FlushOne(g[n - 1], pending[n])]

LEMMA FlushExists ==
    ASSUME pending \in Seq(Posts), NEW buf
    PROVE  \E g : IsFlush(g, buf)
<1> DEFINE Zero == [out |-> <<>>, rest |-> <<>>, buf |-> buf]
           Upto(g, n) == \A k \in 0..n : g[k] = IF k = 0 THEN Zero ELSE FlushOne(g[k - 1], pending[k])
           G == {n \in Nat : \E g : Upto(g, n)}
<1>1. 0 \in G
  <2>1. Upto([k \in 0..0 |-> Zero], 0)
    OBVIOUS
  <2>2. QED
    BY <2>1
<1>2. ASSUME NEW n \in G PROVE n + 1 \in G
  <2>1. PICK g : Upto(g, n)
    OBVIOUS
  <2>2. n \in Nat
    OBVIOUS
  <2> DEFINE h == [k \in 0..(n + 1) |-> IF k <= n THEN g[k] ELSE FlushOne(g[n], pending[n + 1])]
  <2>3. \A k \in 0..n : k \in 0..(n + 1) /\ h[k] = g[k]
    BY <2>2
  <2>4. n + 1 \in 0..(n + 1) /\ h[n + 1] = FlushOne(g[n], pending[n + 1])
    BY <2>2
  <2>5. Upto(h, n + 1)
    <3>1. ASSUME NEW k \in 0..(n + 1)
          PROVE  h[k] = IF k = 0 THEN Zero ELSE FlushOne(h[k - 1], pending[k])
      <4> HIDE DEF h
      <4>1. CASE k = 0
        BY <2>1, <2>2, <2>3, <4>1
      <4>2. CASE k # 0 /\ k <= n
        <5>1. k \in 0..n /\ k - 1 \in 0..n
          BY <2>2, <4>2
        <5>2. g[k] = FlushOne(g[k - 1], pending[k])
          BY <2>1, <4>2, <5>1
        <5>3. QED
          BY <2>3, <4>2, <5>1, <5>2
      <4>3. CASE k = n + 1
        <5>1. k # 0 /\ k - 1 = n /\ n \in 0..n
          BY <2>2, <4>3
        <5>2. QED
          BY <2>3, <2>4, <4>3, <5>1
      <4>4. QED
        BY <2>2, <4>1, <4>2, <4>3
    <3>2. QED
      BY <3>1
  <2> HIDE DEF Upto
  <2>6. QED
    BY <2>2, <2>5
<1>3. G = Nat
  <2>1. G \in SUBSET Nat
    OBVIOUS
  <2> HIDE DEF G
  <2>2. QED
    BY <1>1, <1>2, <2>1, NaturalsBySteps
<1>4. Len(pending) \in Nat
  OBVIOUS
<1>5. PICK g : Upto(g, Len(pending))
  <2> HIDE DEF Upto
  <2> QED BY <1>3, <1>4
<1> DEFINE f == [k \in 0..Len(pending) |-> g[k]]
<1>6. \A k \in 0..Len(pending) : f[k] = IF k = 0 THEN Zero ELSE FlushOne(f[k - 1], pending[k])
  <2>1. ASSUME NEW k \in 0..Len(pending)
        PROVE  f[k] = IF k = 0 THEN Zero ELSE FlushOne(f[k - 1], pending[k])
    <3>1. k # 0 => k - 1 \in 0..Len(pending)
      BY <1>4
    <3>2. f[k] = g[k] /\ (k # 0 => f[k - 1] = g[k - 1])
      BY <3>1
    <3>3. g[k] = IF k = 0 THEN Zero ELSE FlushOne(g[k - 1], pending[k])
      BY <1>5
    <3> HIDE DEF f
    <3>4. QED
      BY <3>2, <3>3
  <2>2. QED
    BY <2>1
<1>7. f = [k \in 0..Len(pending) |-> f[k]]
  OBVIOUS
<1>8. IsFlush(f, buf)
  <2> HIDE DEF f
  <2> QED BY <1>6, <1>7 DEF IsFlush
<1>9. QED
  BY <1>8

LEMMA FlushIs ==
    ASSUME pending \in Seq(Posts), NEW buf
    PROVE  \E g : IsFlush(g, buf) /\ Flushed(buf) = g[Len(pending)]
<1>1. PICK f : f = CHOOSE g : IsFlush(g, buf)
  OBVIOUS
<1>2. IsFlush(f, buf)
  BY <1>1, FlushExists, Zenon
<1>3. Flushed(buf) = f[Len(pending)]
  BY <1>1, Zenon DEF Flushed, IsFlush
<1>4. QED
  BY <1>2, <1>3

LEMMA FlushKeeps ==
    ASSUME pending \in Seq(Posts), Injective(pending), NEW buf
    PROVE  FlushFact(Flushed(buf), Len(pending))
<1>1. PICK g : IsFlush(g, buf) /\ Flushed(buf) = g[Len(pending)]
  BY FlushIs
<1>2. Len(pending) \in Nat /\ DOMAIN pending = 1..Len(pending)
  OBVIOUS
<1>3. \A k \in 0..Len(pending) : g[k] = IF k = 0 THEN [out |-> <<>>, rest |-> <<>>, buf |-> buf]
                                          ELSE FlushOne(g[k - 1], pending[k])
  BY <1>1 DEF IsFlush
<1> DEFINE G == {n \in Nat : n <= Len(pending) => FlushFact(g[n], n)}
<1>4. 0 \in G
  <2>1. g[0] = [out |-> <<>>, rest |-> <<>>, buf |-> buf]
    BY <1>2, <1>3
  <2>2. PICK s : s = g[0]
    OBVIOUS
  <2>3. s.out = <<>> /\ s.rest = <<>> /\ s.buf = buf
    BY <2>1, <2>2
  <2>4. << >> \in Seq(Posts) /\ << >> \o << >> = << >> /\ DOMAIN << >> = {}
    OBVIOUS
  <2>5. InOrder(<< >>, pending)
    BY <2>4 DEF InOrder, ToSet
  <2>6. \A m : m \notin 1..0
    OBVIOUS
  <2>7. FlushFact(s, 0)
    BY <2>1, <2>2, <2>3, <2>4, <2>5, <2>6 DEF FlushFact, Keeps
  <2>8. QED
    BY <2>2, <2>7
<1>5. ASSUME NEW n \in G PROVE n + 1 \in G
  <2>1. n \in Nat
    OBVIOUS
  <2>2. SUFFICES ASSUME n + 1 <= Len(pending) PROVE FlushFact(g[n + 1], n + 1)
    BY <2>1
  <2>3. n <= Len(pending) /\ n + 1 \in DOMAIN pending
    BY <1>2, <2>1, <2>2
  <2>4. FlushFact(g[n], n)
    BY <2>3
  <2>5. FlushFact(FlushOne(g[n], pending[n + 1]), n + 1)
    BY <2>1, <2>3, <2>4, FlushOneKeeps
  <2>6. g[n + 1] = FlushOne(g[n], pending[n + 1])
    <3>1. n + 1 \in 0..Len(pending) /\ n + 1 # 0 /\ (n + 1) - 1 = n
      BY <1>2, <2>1, <2>2
    <3>2. QED
      BY <1>3, <3>1
  <2>7. QED
    BY <2>5, <2>6
<1>6. G = Nat
  <2>1. G \in SUBSET Nat
    OBVIOUS
  <2> HIDE DEF G
  <2>2. QED
    BY <1>4, <1>5, <2>1, NaturalsBySteps
<1>7. QED
  BY <1>1, <1>2, <1>6

LEMMA SetOfBoth ==
    ASSUME NEW a \in Seq(Posts), NEW b \in Seq(Posts)
    PROVE  a \o b \in Seq(Posts) /\ ToSet(a \o b) = ToSet(a) \cup ToSet(b)
<1>1. a \o b \in Seq(Posts) /\ Entries(a \o b) = Entries(a) \cup Entries(b)
  BY EntriesOfBoth
<1>2. \A s : ToSet(s) = Entries(s)
  BY DEF ToSet, Entries
<1>3. QED
  BY <1>1, <1>2

LEMMA SetOfMore ==
    ASSUME NEW s \in Seq(Posts), NEW p \in Posts
    PROVE  Append(s, p) \in Seq(Posts) /\ ToSet(Append(s, p)) = ToSet(s) \cup {p}
<1>1. <<p>> \in Seq(Posts) /\ Append(s, p) = s \o <<p>>
  OBVIOUS
<1>2. Entries(<<p>>) = {p}
  BY OneEntry
<1>3. ToSet(<<p>>) = {p}
  BY <1>2 DEF ToSet, Entries
<1>4. s \o <<p>> \in Seq(Posts) /\ ToSet(s \o <<p>>) = ToSet(s) \cup ToSet(<<p>>)
  BY <1>1, SetOfBoth
<1>5. QED
  BY <1>1, <1>3, <1>4

\* What is in order is without repetition, and so is its tail.
LEMMA TailInjective ==
    ASSUME NEW w \in Seq(Posts), NEW q \in Seq(Posts), NEW base \in Seq(Posts), InOrder(w \o q, base)
    PROVE  Injective(q)
<1>1. Len(w) \in Nat /\ Len(q) \in Nat /\ DOMAIN q = 1..Len(q)
  OBVIOUS
<1>2. PICK wq : wq = w \o q
  OBVIOUS
<1>3. DOMAIN wq = 1..(Len(w) + Len(q)) /\ \A i \in 1..Len(q) : wq[i + Len(w)] = q[i]
  BY <1>2
<1>4. ASSUME NEW i \in DOMAIN q, NEW j \in DOMAIN q, q[i] = q[j], i < j PROVE FALSE
  <2>1. PICK k \in DOMAIN wq : k = i + Len(w)
    BY <1>1, <1>3
  <2>2. PICK m \in DOMAIN wq : m = j + Len(w)
    BY <1>1, <1>3
  <2>3. wq[k] = q[i] /\ wq[m] = q[j] /\ k < m
    BY <1>1, <1>3, <1>4, <2>1, <2>2
  <2>4. wq[k] \in ToSet(base)
    BY <1>2 DEF InOrder, ToSet
  <2>5. PICK a \in DOMAIN base : wq[k] = base[a]
    BY <2>4 DEF ToSet
  <2>6. a < a
    BY <1>2, <1>4, <2>3, <2>5 DEF InOrder
  <2>7. a \in Nat
    OBVIOUS
  <2>8. QED
    BY <2>6, <2>7
<1>5. ASSUME NEW i \in DOMAIN q, NEW j \in DOMAIN q, q[i] = q[j] PROVE i = j
  <2>1. ~(i < j) /\ ~(j < i)
    BY <1>4, <1>5
  <2>2. QED
    BY <1>1, <2>1
<1>6. QED
  BY <1>5 DEF Injective

\* The newest goes behind in both.
LEMMA BothGrow ==
    ASSUME NEW s \in Seq(Posts), NEW base \in Seq(Posts), InOrder(s, base), Injective(base),
           NEW p \in Posts, p \notin ToSet(base)
    PROVE  InOrder(Append(s, p), Append(base, p)) /\ Injective(Append(base, p))
<1>1. PICK t : t = Append(s, p)
  OBVIOUS
<1>2. PICK d : d = Append(base, p)
  OBVIOUS
<1>3. /\ Len(s) \in Nat /\ DOMAIN s = 1..Len(s) /\ DOMAIN t = 1..(Len(s) + 1)
      /\ t[Len(s) + 1] = p /\ \A i \in 1..Len(s) : t[i] = s[i]
  BY <1>1
<1>4. /\ Len(base) \in Nat /\ DOMAIN base = 1..Len(base) /\ DOMAIN d = 1..(Len(base) + 1)
      /\ d[Len(base) + 1] = p /\ \A a \in 1..Len(base) : d[a] = base[a]
  BY <1>2
<1>5. \A a \in 1..Len(base) : base[a] # p
  BY <1>4 DEF ToSet
<1>6. Injective(d)
  BY <1>4, <1>5 DEF Injective
<1>7. \A i \in 1..Len(s) : s[i] # p
  <2>1. ASSUME NEW i \in 1..Len(s) PROVE s[i] # p
    <3>1. s[i] \in ToSet(s)
      BY <1>3 DEF ToSet
    <3>2. QED
      BY <3>1 DEF InOrder
  <2>2. QED
    BY <2>1
<1>8. ToSet(t) \subseteq ToSet(d)
  <2>1. ToSet(t) = ToSet(s) \cup {p} /\ ToSet(d) = ToSet(base) \cup {p}
    BY <1>1, <1>2, SetOfMore
  <2>2. QED
    BY <2>1 DEF InOrder
<1>9. ASSUME NEW i \in DOMAIN t, NEW j \in DOMAIN t, NEW a \in DOMAIN d, NEW b \in DOMAIN d,
             i < j, t[i] = d[a], t[j] = d[b]
      PROVE  a < b
  <2>1. i \in 1..Len(s) /\ t[i] = s[i]
    BY <1>3, <1>9
  <2>2. a \in 1..Len(base) /\ d[a] = base[a]
    <3>1. s[i] # p /\ d[a] = s[i]
      BY <1>7, <1>9, <2>1
    <3>2. a # Len(base) + 1
      BY <1>4, <3>1
    <3>3. QED
      BY <1>4, <3>2
  <2>3. CASE b = Len(base) + 1
    BY <1>4, <2>2, <2>3
  <2>4. CASE b # Len(base) + 1
    <3>1. b \in 1..Len(base) /\ d[b] = base[b]
      BY <1>4, <2>4
    <3>2. j \in 1..Len(s) /\ t[j] = s[j]
      BY <1>3, <1>5, <1>9, <3>1
    <3>3. QED
      BY <1>3, <1>4, <1>9, <2>1, <2>2, <3>1, <3>2 DEF InOrder
  <2>5. QED
    BY <2>3, <2>4
<1>10. InOrder(t, d)
  BY <1>8, <1>9 DEF InOrder
<1>11. QED
  BY <1>1, <1>2, <1>6, <1>10

-----------------------------------------------------------------------------
(* PeerLink: the inductive invariant *)

\* What was written and what waits are, one behind the other, in the order in
\* which send() took them.
QueueInv ==
    /\ pending \in Seq(Posts) /\ written \in Seq(Posts) /\ taken \in Seq(Posts)
    /\ Injective(taken) /\ InOrder(written \o pending, taken)
    /\ NothingVanishes /\ NothingLiveWaits

\* One dial at a time, and only while there is no socket; a timer waits for
\* neither.
WaysInv ==
    /\ dial \in {"none", "profile", "dialing", "greeting"}
    /\ socket \in {"none", "open", "closing", "closed"}
    /\ timer \in BOOLEAN /\ opened \in BOOLEAN /\ ready \in BOOLEAN
    /\ closedByCaller \in BOOLEAN /\ flushTimer \in BOOLEAN
    /\ dial # "none" => socket \in {"none", "closed"} /\ ~timer
    /\ timer => socket \in {"none", "closed"}
    /\ ClosedIsQuiet /\ QueueIsServed /\ LinkComesBack

LinkInv == QueueInv /\ WaysInv

LEMMA ConcatThree ==
    ASSUME NEW x \in Seq(Posts), NEW y \in Seq(Posts), NEW z \in Seq(Posts)
    PROVE  (x \o y) \o z = x \o (y \o z)
BY ConcatAssociative

\* flushPending moves the front of the queue behind what was written.
LEMMA FlushOrder ==
    ASSUME QueueInv, NEW buf
    PROVE  LET s == Flushed(buf)
           IN  /\ s.out \in Seq(Posts) /\ s.rest \in Seq(Posts) /\ written \o s.out \in Seq(Posts)
               /\ InOrder((written \o s.out) \o s.rest, taken)
               /\ ToSet(s.rest) \subseteq ToSet(pending)
               /\ ToSet(written \o s.out) = ToSet(written) \cup ToSet(s.out)
               /\ ToSet(pending) \subseteq gone \cup ToSet(s.out) \cup ToSet(s.rest)
<1>1. PICK s : s = Flushed(buf)
  OBVIOUS
<1>2. pending \in Seq(Posts) /\ written \in Seq(Posts) /\ taken \in Seq(Posts) /\ InOrder(written \o pending, taken)
  BY DEF QueueInv
<1>3. Injective(pending)
  BY <1>2, TailInjective
<1>4. FlushFact(s, Len(pending))
  BY <1>1, <1>2, <1>3, FlushKeeps
<1>5. PICK a \in Seq(Posts) : a = s.out
  BY <1>4 DEF FlushFact
<1>6. PICK b \in Seq(Posts) : b = s.rest
  BY <1>4 DEF FlushFact
<1>7. Keeps(a \o b, Len(pending))
  BY <1>4, <1>5, <1>6 DEF FlushFact
<1>8. a \o b \in Seq(Posts) /\ ToSet(a \o b) = ToSet(a) \cup ToSet(b)
  BY SetOfBoth
<1>9. PICK q \in Seq(Posts) : q = a \o b
  BY <1>8
<1>10. InOrder(q, pending)
  BY <1>7, <1>9 DEF Keeps
<1>11. InOrder(written \o q, taken)
  BY <1>2, <1>10, OrderThrough
<1>12. written \o (a \o b) = (written \o a) \o b
  <2>1. PICK w \in Seq(Posts) : w = written
    BY <1>2
  <2>2. (w \o a) \o b = w \o (a \o b)
    BY ConcatThree
  <2>3. QED
    BY <2>1, <2>2
<1>13. written \o a \in Seq(Posts) /\ ToSet(written \o a) = ToSet(written) \cup ToSet(a)
  BY <1>2, SetOfBoth
<1>14. ToSet(b) \subseteq ToSet(pending)
  BY <1>8, <1>9, <1>10 DEF InOrder
<1>15. ToSet(pending) \subseteq gone \cup ToSet(a) \cup ToSet(b)
  <2>1. ASSUME NEW p \in ToSet(pending) PROVE p \in gone \cup ToSet(a) \cup ToSet(b)
    <3>1. PICK m \in DOMAIN pending : p = pending[m]
      BY DEF ToSet
    <3>2. m \in 1..Len(pending)
      BY <1>2
    <3>3. p \in gone \/ p \in ToSet(a \o b)
      BY <1>7, <3>1, <3>2 DEF Keeps
    <3>4. QED
      BY <1>8, <3>3
  <2>2. QED
    BY <2>1
<1>16. QED
  BY <1>1, <1>5, <1>6, <1>9, <1>11, <1>12, <1>13, <1>14, <1>15

\* What flushPending alone does to the queue ...
LEMMA FlushQueues ==
    ASSUME QueueInv, NEW buf, FlushInto(buf), UNCHANGED <<taken, gone, closedByCaller>>
    PROVE  QueueInv'
<1>1. PICK s : s = Flushed(buf)
  OBVIOUS
<1>2. /\ s.out \in Seq(Posts) /\ s.rest \in Seq(Posts) /\ written \o s.out \in Seq(Posts)
      /\ InOrder((written \o s.out) \o s.rest, taken)
      /\ ToSet(s.rest) \subseteq ToSet(pending)
      /\ ToSet(written \o s.out) = ToSet(written) \cup ToSet(s.out)
      /\ ToSet(pending) \subseteq gone \cup ToSet(s.out) \cup ToSet(s.rest)
  BY <1>1, FlushOrder
<1>3. pending' = s.rest /\ written' = written \o s.out
  BY <1>1 DEF FlushInto
<1>4. taken \in Seq(Posts) /\ Injective(taken) /\ NothingVanishes /\ NothingLiveWaits
  BY DEF QueueInv
<1>5. pending' \in Seq(Posts) /\ written' \in Seq(Posts) /\ taken' \in Seq(Posts) /\ Injective(taken')
  BY <1>2, <1>3, <1>4
<1>6. InOrder(written' \o pending', taken')
  BY <1>2, <1>3
<1>7. NothingVanishes'
  BY <1>2, <1>3, <1>4 DEF NothingVanishes
<1>8. NothingLiveWaits'
  BY <1>2, <1>3, <1>4 DEF NothingLiveWaits
<1>9. QED
  BY <1>5, <1>6, <1>7, <1>8 DEF QueueInv, InOrder, Injective

\* ... and with a send() behind it, which writes only when nothing waits.
LEMMA WriteQueues ==
    ASSUME QueueInv, NEW p \in Posts, p \notin ToSet(taken), WriteThrough(p),
           UNCHANGED <<gone, closedByCaller>>
    PROVE  QueueInv'
<1>1. PICK s : s = Flushed(buffered)
  OBVIOUS
<1>2. /\ s.out \in Seq(Posts) /\ s.rest \in Seq(Posts) /\ written \o s.out \in Seq(Posts)
      /\ InOrder((written \o s.out) \o s.rest, taken)
      /\ ToSet(s.rest) \subseteq ToSet(pending)
      /\ ToSet(written \o s.out) = ToSet(written) \cup ToSet(s.out)
      /\ ToSet(pending) \subseteq gone \cup ToSet(s.out) \cup ToSet(s.rest)
  BY <1>1, FlushOrder
<1>3. taken \in Seq(Posts) /\ Injective(taken) /\ NothingVanishes /\ NothingLiveWaits
  BY DEF QueueInv
<1>4. PICK w \in Seq(Posts) : w = written \o s.out
  BY <1>2
<1>5. pending' = s.rest
  BY <1>1 DEF WriteThrough
<1>6. CASE WritesBehind(p, s)
  <2>1. s.rest = <<>>
    BY <1>6 DEF WritesBehind
  <2>2. written' = w \o <<p>> /\ taken' = Append(taken, p)
    BY <1>1, <1>4, <1>6 DEF WriteThrough
  <2>3. w \o <<p>> = Append(w, p) /\ Append(w, p) \o << >> = Append(w, p) /\ w \o << >> = w
    OBVIOUS
  <2>4. InOrder(w, taken)
    BY <1>2, <1>4, <2>1, <2>3
  <2>5. InOrder(Append(w, p), Append(taken, p)) /\ Injective(Append(taken, p))
    BY <1>3, <2>4, BothGrow
  <2>6. /\ Append(w, p) \in Seq(Posts) /\ ToSet(Append(w, p)) = ToSet(w) \cup {p}
        /\ Append(taken, p) \in Seq(Posts) /\ ToSet(Append(taken, p)) = ToSet(taken) \cup {p}
    BY <1>3, SetOfMore
  <2>7. /\ written' = Append(w, p) /\ pending' = << >> /\ taken' = Append(taken, p)
        /\ written' \o pending' = Append(w, p)
    BY <1>5, <2>1, <2>2, <2>3
  <2>8. ToSet(s.rest) = {}
    BY <2>1 DEF ToSet
  <2>9. NothingVanishes'
    BY <1>2, <1>3, <1>4, <1>5, <2>6, <2>7, <2>8 DEF NothingVanishes
  <2>10. NothingLiveWaits'
    BY <1>5, <2>8 DEF NothingLiveWaits
  <2>11. pending' \in Seq(Posts) /\ written' \in Seq(Posts) /\ taken' \in Seq(Posts)
    BY <1>2, <1>5, <2>6, <2>7
  <2>12. Injective(taken') /\ InOrder(written' \o pending', taken')
    BY <2>5, <2>7
  <2>13. QED
    BY <2>9, <2>10, <2>11, <2>12 DEF QueueInv, InOrder, Injective
<1>7. CASE ~WritesBehind(p, s)
  <2>1. written' = w \o << >> /\ taken' = taken
    BY <1>1, <1>4, <1>7 DEF WriteThrough
  <2>2. written' = w
    BY <2>1
  <2>3. NothingVanishes'
    BY <1>2, <1>3, <1>4, <1>5, <2>1, <2>2 DEF NothingVanishes
  <2>4. NothingLiveWaits'
    BY <1>2, <1>3, <1>5 DEF NothingLiveWaits
  <2>5. pending' \in Seq(Posts) /\ written' \in Seq(Posts) /\ taken' \in Seq(Posts) /\ Injective(taken')
    BY <1>2, <1>3, <1>5, <2>1, <2>2
  <2>6. InOrder(written' \o pending', taken')
    BY <1>2, <1>4, <1>5, <2>1, <2>2
  <2>7. QED
    BY <2>3, <2>4, <2>5, <2>6 DEF QueueInv, InOrder, Injective
<1>8. QED
  BY <1>6, <1>7

\* send() without a socket puts the letter behind the queue.
LEMMA QueueQueues ==
    ASSUME QueueInv, NEW p \in Posts, p \notin ToSet(taken), QueueWhole(p),
           UNCHANGED <<gone, closedByCaller>>
    PROVE  QueueInv'
<1>1. /\ pending \in Seq(Posts) /\ written \in Seq(Posts) /\ taken \in Seq(Posts) /\ Injective(taken)
      /\ InOrder(written \o pending, taken) /\ NothingVanishes /\ NothingLiveWaits
  BY DEF QueueInv
<1>2. p \notin Live /\ pending' = Append(pending, p) /\ taken' = Append(taken, p) /\ written' = written
  BY DEF QueueWhole
<1>3. /\ Append(pending, p) \in Seq(Posts) /\ ToSet(Append(pending, p)) = ToSet(pending) \cup {p}
      /\ Append(taken, p) \in Seq(Posts) /\ ToSet(Append(taken, p)) = ToSet(taken) \cup {p}
  BY <1>1, SetOfMore
<1>4. PICK q \in Seq(Posts) : q = written \o pending
  BY <1>1, SetOfBoth
<1>5. written \o Append(pending, p) = Append(q, p)
  BY <1>1, <1>4
<1>6. InOrder(Append(q, p), Append(taken, p)) /\ Injective(Append(taken, p))
  BY <1>1, <1>4, BothGrow
<1>7. Injective(taken') /\ InOrder(written' \o pending', taken')
  BY <1>2, <1>5, <1>6
<1>8. NothingVanishes'
  BY <1>1, <1>2, <1>3 DEF NothingVanishes
<1>9. NothingLiveWaits'
  BY <1>1, <1>2, <1>3 DEF NothingLiveWaits
<1>10. QED
  BY <1>1, <1>2, <1>3, <1>7, <1>8, <1>9 DEF QueueInv, InOrder, Injective

\* A channel that is closed discards the queue; other operations keep it.
LEMMA DiscardQueues ==
    ASSUME QueueInv, Discard, UNCHANGED <<taken, written, gone>>, closedByCaller'
    PROVE  QueueInv'
<1>1. /\ pending \in Seq(Posts) /\ written \in Seq(Posts) /\ taken \in Seq(Posts) /\ Injective(taken)
      /\ InOrder(written \o pending, taken)
  BY DEF QueueInv
<1>2. PICK none \in Seq(Posts) : none = << >>
  <2>1. << >> \in Seq(Posts)
    OBVIOUS
  <2>2. QED
    BY <2>1
<1>3. InOrder(none, pending)
  BY <1>2 DEF InOrder, ToSet
<1>4. InOrder(written \o none, taken)
  BY <1>1, <1>3, OrderThrough
<1>5. pending' = none
  BY <1>2 DEF Discard
<1>6. NothingVanishes'
  BY DEF NothingVanishes
<1>7. NothingLiveWaits'
  BY <1>2, <1>5 DEF NothingLiveWaits, ToSet
<1>8. Injective(taken') /\ InOrder(written' \o pending', taken')
  BY <1>1, <1>4, <1>5
<1>9. QED
  BY <1>1, <1>5, <1>6, <1>7, <1>8 DEF QueueInv, InOrder, Injective

LEMMA KeptQueues ==
    ASSUME QueueInv, UNCHANGED <<pending, taken, written>>, gone \subseteq gone',
           closedByCaller => closedByCaller'
    PROVE  QueueInv'
<1>1. NothingVanishes'
  BY DEF QueueInv, NothingVanishes
<1>2. QED
  BY <1>1 DEF QueueInv, NothingLiveWaits, InOrder, Injective

-----------------------------------------------------------------------------
(* PeerLink: every step *)

LEMMA LinkStart ==
    ASSUME LinkInit
    PROVE  LinkInv
<1>1. pending = << >> /\ written = << >> /\ taken = << >> /\ ~timer /\ socket = "none" /\ ~opened
  BY DEF LinkInit
<1>2. << >> \in Seq(Posts) /\ << >> \o << >> = << >> /\ DOMAIN << >> = {} /\ ToSet(<< >>) = {}
  BY DEF ToSet
<1>3. NothingVanishes /\ NothingLiveWaits
  BY <1>1, <1>2 DEF NothingVanishes, NothingLiveWaits
<1>4. Injective(taken) /\ InOrder(written \o pending, taken)
  BY <1>1, <1>2 DEF Injective, InOrder
<1>5. QueueInv
  BY <1>1, <1>2, <1>3, <1>4 DEF QueueInv
<1>6. ClosedIsQuiet /\ QueueIsServed /\ LinkComesBack
  BY <1>1 DEF ClosedIsQuiet, QueueIsServed, LinkComesBack
<1>7. WaysInv
  BY <1>1, <1>6 DEF LinkInit, WaysInv
<1>8. QED
  BY <1>5, <1>7 DEF LinkInv

\* An attempt that fails ends the dial, and sets the timer unless the channel
\* was closed or was never handed out.
LEMMA FailsWays ==
    ASSUME LinkInv, dial # "none", AttemptFails
    PROVE  LinkInv'
<1>1. QueueInv'
  BY KeptQueues DEF LinkInv, AttemptFails, queues
<1>2. WaysInv'
  BY DEF LinkInv, WaysInv, AttemptFails, queues, ClosedIsQuiet, QueueIsServed, LinkComesBack
<1>3. QED
  BY <1>1, <1>2 DEF LinkInv

\* The steps of a dial.
LEMMA DialStep ==
    ASSUME LinkInv, Profile \/ OtherIdentity \/ Unreachable \/ SocketOpens \/ Registered \/ TimerFires
    PROVE  LinkInv'
<1>1. CASE Profile
  <2>1. CASE closedByCaller
    BY <1>1, <2>1, FailsWays DEF Profile
  <2>2. CASE ~closedByCaller
    <3>1. QueueInv'
      BY <1>1, <2>2, KeptQueues DEF LinkInv, Profile, queues
    <3>2. WaysInv'
      BY <1>1, <2>2 DEF LinkInv, WaysInv, Profile, queues, ClosedIsQuiet, QueueIsServed, LinkComesBack
    <3>3. QED
      BY <3>1, <3>2 DEF LinkInv
  <2>3. QED
    BY <2>1, <2>2
<1>2. CASE OtherIdentity
  <2>1. CASE ~opened
    <3>1. QueueInv'
      BY <1>2, <2>1, KeptQueues DEF LinkInv, OtherIdentity
    <3>2. WaysInv'
      BY <1>2, <2>1 DEF LinkInv, WaysInv, OtherIdentity, ClosedIsQuiet, QueueIsServed, LinkComesBack
    <3>3. QED
      BY <3>1, <3>2 DEF LinkInv
  <2>2. CASE opened
    <3>1. Discard /\ UNCHANGED <<taken, written, gone>> /\ closedByCaller'
      BY <1>2, <2>2 DEF OtherIdentity
    <3>2. QueueInv'
      BY <3>1, DiscardQueues DEF LinkInv
    <3>3. WaysInv'
      BY <1>2, <2>2 DEF LinkInv, WaysInv, OtherIdentity, Discard, ClosedIsQuiet, QueueIsServed, LinkComesBack
    <3>4. QED
      BY <3>2, <3>3 DEF LinkInv
  <2>3. QED
    BY <2>1, <2>2
<1>3. CASE Unreachable
  BY <1>3, FailsWays DEF Unreachable
<1>4. CASE SocketOpens
  <2>1. CASE closedByCaller
    BY <1>4, <2>1, FailsWays DEF SocketOpens
  <2>2. CASE ~closedByCaller
    <3>1. QueueInv'
      BY <1>4, <2>2, KeptQueues DEF LinkInv, SocketOpens, queues
    <3>2. WaysInv'
      BY <1>4, <2>2 DEF LinkInv, WaysInv, SocketOpens, queues, ClosedIsQuiet, QueueIsServed, LinkComesBack
    <3>3. QED
      BY <3>1, <3>2 DEF LinkInv
  <2>3. QED
    BY <2>1, <2>2
<1>5. CASE Registered
  <2>1. CASE closedByCaller
    <3>1. QueueInv'
      BY <1>5, <2>1, KeptQueues DEF LinkInv, Registered, queues
    <3>2. WaysInv'
      BY <1>5, <2>1 DEF LinkInv, WaysInv, Registered, queues, ClosedIsQuiet, QueueIsServed, LinkComesBack
    <3>3. QED
      BY <3>1, <3>2 DEF LinkInv
  <2>2. CASE ~closedByCaller
    <3>1. FlushInto(<< >>) /\ UNCHANGED <<taken, gone, closedByCaller>>
      BY <1>5, <2>2 DEF Registered
    <3>2. QueueInv'
      BY <3>1, FlushQueues DEF LinkInv
    <3>3. flushTimer' = (pending' # << >>)
      BY <3>1 DEF FlushInto
    <3>4. /\ dial = "greeting" /\ dial' = "none" /\ socket' = "open" /\ ready' = TRUE /\ opened' = TRUE
          /\ UNCHANGED <<timer, closedByCaller>>
      BY <1>5, <2>2 DEF Registered
    <3>5. ClosedIsQuiet' /\ QueueIsServed' /\ LinkComesBack'
      BY <2>2, <3>3, <3>4 DEF ClosedIsQuiet, QueueIsServed, LinkComesBack
    <3>6. WaysInv'
      BY <3>3, <3>4, <3>5 DEF LinkInv, WaysInv
    <3>7. QED
      BY <3>2, <3>6 DEF LinkInv
  <2>3. QED
    BY <2>1, <2>2
<1>6. CASE TimerFires
  <2>1. QueueInv'
    BY <1>6, KeptQueues DEF LinkInv, TimerFires, queues
  <2>2. WaysInv'
    BY <1>6 DEF LinkInv, WaysInv, TimerFires, queues, ClosedIsQuiet, QueueIsServed, LinkComesBack
  <2>3. QED
    BY <2>1, <2>2 DEF LinkInv
<1>7. QED
  BY <1>1, <1>2, <1>3, <1>4, <1>5, <1>6

\* What the socket and its timer do.
LEMMA SocketStep ==
    ASSUME LinkInv, SocketDrops \/ CloseEvent \/ FlushFires \/ Drain
    PROVE  LinkInv'
<1>1. CASE SocketDrops
  <2>1. QueueInv'
    BY <1>1, KeptQueues DEF LinkInv, SocketDrops
  <2>2. WaysInv'
    BY <1>1 DEF LinkInv, WaysInv, SocketDrops, ClosedIsQuiet, QueueIsServed, LinkComesBack
  <2>3. QED
    BY <2>1, <2>2 DEF LinkInv
<1>2. CASE CloseEvent
  <2>1. QueueInv'
    BY <1>2, KeptQueues DEF LinkInv, CloseEvent, queues
  <2>2. WaysInv'
    BY <1>2 DEF LinkInv, WaysInv, CloseEvent, queues, ClosedIsQuiet, QueueIsServed, LinkComesBack
  <2>3. QED
    BY <2>1, <2>2 DEF LinkInv
<1>3. CASE FlushFires
  <2>1. CASE ready /\ socket = "open"
    <3>1. FlushInto(buffered) /\ UNCHANGED <<dial, timer, opened, socket, ready, closedByCaller, gone, taken>>
      BY <1>3, <2>1 DEF FlushFires
    <3>2. QueueInv'
      BY <3>1, FlushQueues DEF LinkInv
    <3>3. flushTimer' = (pending' # << >>)
      BY <3>1 DEF FlushInto
    <3>4. ~closedByCaller
      BY <2>1 DEF LinkInv, WaysInv, ClosedIsQuiet
    <3>5. ClosedIsQuiet' /\ QueueIsServed' /\ LinkComesBack'
      BY <2>1, <3>1, <3>3, <3>4 DEF ClosedIsQuiet, QueueIsServed, LinkComesBack
    <3>6. WaysInv'
      BY <3>1, <3>3, <3>5 DEF LinkInv, WaysInv
    <3>7. QED
      BY <3>2, <3>6 DEF LinkInv
  <2>2. CASE ~(ready /\ socket = "open")
    <3>1. QueueInv'
      BY <1>3, <2>2, KeptQueues DEF LinkInv, FlushFires
    <3>2. WaysInv'
      BY <1>3, <2>2 DEF LinkInv, WaysInv, FlushFires, ClosedIsQuiet, QueueIsServed, LinkComesBack
    <3>3. QED
      BY <3>1, <3>2 DEF LinkInv
  <2>3. QED
    BY <2>1, <2>2
<1>4. CASE Drain
  <2>1. QueueInv'
    BY <1>4, KeptQueues DEF LinkInv, Drain
  <2>2. WaysInv'
    BY <1>4 DEF LinkInv, WaysInv, Drain, ClosedIsQuiet, QueueIsServed, LinkComesBack
  <2>3. QED
    BY <2>1, <2>2 DEF LinkInv
<1>5. QED
  BY <1>1, <1>2, <1>3, <1>4

\* The caller's send(), and time.
LEMMA CallerStep ==
    ASSUME LinkInv, NEW p \in Posts, Send(p) \/ Expire(p)
    PROVE  LinkInv'
<1>1. CASE Send(p)
  <2>1. /\ ~closedByCaller /\ p \notin ToSet(taken)
        /\ UNCHANGED <<dial, timer, opened, socket, ready, closedByCaller, gone>>
    BY <1>1 DEF Send
  <2>2. CASE ready /\ socket = "open"
    <3>1. WriteThrough(p)
      BY <1>1, <2>2 DEF Send
    <3>2. QueueInv'
      BY <2>1, <3>1, WriteQueues DEF LinkInv
    <3>3. flushTimer' = (pending' # << >>)
      BY <3>1 DEF WriteThrough
    <3>4. ClosedIsQuiet' /\ QueueIsServed' /\ LinkComesBack'
      BY <2>1, <2>2, <3>3 DEF ClosedIsQuiet, QueueIsServed, LinkComesBack
    <3>5. WaysInv'
      BY <2>1, <3>3, <3>4 DEF LinkInv, WaysInv
    <3>6. QED
      BY <3>2, <3>5 DEF LinkInv
  <2>3. CASE ~(ready /\ socket = "open")
    <3>1. QueueWhole(p)
      BY <1>1, <2>3 DEF Send
    <3>2. QueueInv'
      BY <2>1, <3>1, QueueQueues DEF LinkInv
    <3>3. flushTimer' = flushTimer
      BY <3>1 DEF QueueWhole
    <3>4. ClosedIsQuiet' /\ QueueIsServed' /\ LinkComesBack'
      BY <2>1, <2>3, <3>3 DEF LinkInv, WaysInv, ClosedIsQuiet, QueueIsServed, LinkComesBack
    <3>5. WaysInv'
      BY <2>1, <3>3, <3>4 DEF LinkInv, WaysInv
    <3>6. QED
      BY <3>2, <3>5 DEF LinkInv
  <2>4. QED
    BY <2>2, <2>3
<1>2. CASE Expire(p)
  <2>1. QueueInv'
    BY <1>2, KeptQueues DEF LinkInv, Expire, queues
  <2>2. WaysInv'
    BY <1>2 DEF LinkInv, WaysInv, Expire, queues, ClosedIsQuiet, QueueIsServed, LinkComesBack
  <2>3. QED
    BY <2>1, <2>2 DEF LinkInv
<1>3. QED
  BY <1>1, <1>2

LEMMA CloseStep ==
    ASSUME LinkInv, Close
    PROVE  LinkInv'
<1>1. Discard /\ UNCHANGED <<taken, written, gone>> /\ closedByCaller'
  BY DEF Close
<1>2. QueueInv'
  BY <1>1, DiscardQueues DEF LinkInv
<1>3. WaysInv'
  BY DEF LinkInv, WaysInv, Close, Discard, ClosedIsQuiet, QueueIsServed, LinkComesBack
<1>4. QED
  BY <1>2, <1>3 DEF LinkInv

LEMMA LinkStep ==
    ASSUME LinkInv, [LinkNext]_linkVars
    PROVE  LinkInv'
<1>1. CASE UNCHANGED linkVars
  <2>1. UNCHANGED <<dial, timer, opened, socket, ready, closedByCaller, pending, pendingBytes,
                    buffered, flushTimer, gone, taken, written, drops>>
    BY <1>1 DEF linkVars
  <2>2. QueueInv'
    BY <2>1, KeptQueues DEF LinkInv
  <2>3. WaysInv'
    BY <2>1 DEF LinkInv, WaysInv, ClosedIsQuiet, QueueIsServed, LinkComesBack
  <2>4. QED
    BY <2>2, <2>3 DEF LinkInv
<1>2. CASE LinkNext
  <2>1. CASE \E p \in Posts : Send(p) \/ Expire(p)
    BY <2>1, CallerStep
  <2>2. CASE Close
    BY <2>2, CloseStep
  <2>3. CASE ~(\E p \in Posts : Send(p) \/ Expire(p)) /\ ~Close
    BY <1>2, <2>3, DialStep, SocketStep DEF LinkNext
  <2>4. QED
    BY <2>1, <2>2, <2>3
<1>3. QED
  BY <1>1, <1>2

\* What openChannel's send() takes is written once and in its order, or it
\* waits, has expired or was discarded by a close; no stale observation waits;
\* and neither a drop nor a close at an await leaves the channel half open.
THEOREM LinkStaysInOrder == LinkSpec => []LinkKeepsOrder
<1>1. LinkInv => LinkKeepsOrder
  <2> SUFFICES ASSUME LinkInv PROVE LinkKeepsOrder
    OBVIOUS
  <2>1. /\ pending \in Seq(Posts) /\ written \in Seq(Posts) /\ taken \in Seq(Posts)
        /\ InOrder(written \o pending, taken)
    BY DEF LinkInv, QueueInv
  <2>2. WrittenInOrder
    <3>1. PICK none \in Seq(Posts) : none = << >>
      <4>1. << >> \in Seq(Posts)
        OBVIOUS
      <4>2. QED
        BY <4>1
    <3>2. InOrder(none, pending)
      BY <3>1 DEF InOrder, ToSet
    <3>3. InOrder(written \o none, taken)
      BY <2>1, <3>2, OrderThrough
    <3>4. written \o none = written
      BY <2>1, <3>1
    <3>5. QED
      BY <3>3, <3>4 DEF WrittenInOrder
  <2>3. NothingVanishes /\ NothingLiveWaits
    BY DEF LinkInv, QueueInv
  <2>4. ClosedIsQuiet /\ QueueIsServed /\ LinkComesBack
    BY DEF LinkInv, WaysInv
  <2>5. QED
    BY <2>2, <2>3, <2>4 DEF LinkKeepsOrder
<1>2. QED
  BY <1>1, LinkStart, LinkStep, PTL DEF LinkSpec
=============================================================================
