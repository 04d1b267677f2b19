----------------------- MODULE EvidenceLedger_proofs -----------------------
(***************************************************************************)
(* The chain of the ledger stays intact, and what was appended stays, for  *)
(* any number of processes, payloads and lines, if one process at a time   *)
(* has the file open.  The strengthening says what an append relies on     *)
(* between reading the last record and writing its own: the file is still  *)
(* readable and still ends in the record it read.                          *)
(***************************************************************************)
EXTENDS EvidenceLedger, SequenceTheorems, TLAPS

IsLines == \E S : file \in Seq(S)

ProcessesOK ==
  /\ phase \in [Processes -> {"down", "up", "appending"}]
  /\ held = [p \in Processes |-> held[p]]

HoldsLast(p) ==
  phase[p] = "appending" /\ ~edited =>
    /\ ReadableFile(file)
    /\ held[p].index = NextIndex(file)
    /\ held[p].hash = LastHash(file)

ChainInv ==
  /\ IsLines
  /\ ProcessesOK
  /\ SoleWriter
  /\ ChainIntact
  /\ \A p \in Processes : HoldsLast(p)

-----------------------------------------------------------------------------
(* Lemmas about the file. *)

\* What Put leaves: a sequence one line longer, or one whose last line is torn.
LEMMA PutAppends ==
  ASSUME NEW S, NEW f \in Seq(S), NEW line, f = <<>> \/ f[Len(f)].ended
  PROVE  /\ Put(f, line) \in Seq(S \union {line})
         /\ Len(Put(f, line)) = Len(f) + 1
         /\ \A i \in 1 .. Len(f) : Put(f, line)[i] = f[i]
         /\ Put(f, line)[Len(f) + 1] = line
  BY DEF Put

LEMMA PutGlues ==
  ASSUME NEW S, NEW f \in Seq(S), NEW line, f # <<>>, ~f[Len(f)].ended
  PROVE  /\ Put(f, line) \in Seq(S \union {Torn(line.ended)})
         /\ ~ReadableFile(Put(f, line))
  <1>1. Put(f, line) = [f EXCEPT ![Len(f)] = Torn(line.ended)]
    BY DEF Put
  <1>2. Len(f) \in 1 .. Len(f) /\ Len(Put(f, line)) = Len(f) /\ Put(f, line) \in Seq(S \union {Torn(line.ended)})
    BY <1>1
  <1>3. Put(f, line)[Len(f)] = Torn(line.ended)
    BY <1>1, <1>2
  <1> QED  BY <1>2, <1>3 DEF ReadableFile, Torn

\* A record appended to a verified file with the index and hash of its end verifies.
LEMMA NewRecordVerifies ==
  ASSUME NEW S, NEW f \in Seq(S), Verified(f), NEW payload, NEW ended,
         f = <<>> \/ f[Len(f)].ended,
         NEW line, line = Whole(Record(NextIndex(f), payload, LastHash(f)), ended)
  PROVE  Verified(Put(f, line))
  <1> DEFINE g == Put(f, line)
  <1>1. /\ g \in Seq(S \union {line}) /\ Len(g) = Len(f) + 1
        /\ \A i \in 1 .. Len(f) : g[i] = f[i]
        /\ g[Len(f) + 1] = line
    BY PutAppends
  <1>2. line.whole /\ line.record = Record(NextIndex(f), payload, LastHash(f))
    BY DEF Whole
  <1> HIDE DEF g
  <1>3. ReadableFile(g)
    <2>1. SUFFICES ASSUME NEW i \in 1 .. Len(f) + 1 PROVE g[i].whole
      BY <1>1 DEF ReadableFile
    <2> QED  BY <1>1, <1>2 DEF Verified, ReadableFile
  <1>4. ASSUME NEW i \in 1 .. Len(f)  PROVE LineVerified(g, i)
    <2>1. LineVerified(f, i) /\ g[i] = f[i] /\ (i # 1 => i - 1 \in 1 .. Len(f))
      BY <1>1 DEF Verified
    <2> QED  BY <1>1, <2>1 DEF LineVerified, LinkVerified
  <1>5. LineVerified(g, Len(f) + 1)
    <2>1. NextIndex(f) = Len(f)
      <3>1. CASE f = <<>>  BY <3>1 DEF NextIndex
      <3>2. CASE f # <<>>
        <4>1. Len(f) \in 1 .. Len(f)  BY <3>2
        <4>2. f[Len(f)].record.index = Len(f) - 1  BY <4>1 DEF Verified, LineVerified
        <4> QED  BY <3>2, <4>2 DEF NextIndex
      <3> QED  BY <3>1, <3>2
    <2>2. LastHash(f) = (IF Len(f) + 1 = 1 THEN Genesis ELSE g[Len(f) + 1 - 1].record.record_hash)
      <3>1. CASE f = <<>>  BY <3>1 DEF LastHash
      <3>2. CASE f # <<>>
        <4>1. Len(f) \in 1 .. Len(f) /\ Len(f) + 1 # 1 /\ Len(f) + 1 - 1 = Len(f)  BY <3>2
        <4> QED  BY <3>2, <4>1, <1>1 DEF LastHash
      <3> QED  BY <3>1, <3>2
    <2> DEFINE r == Record(NextIndex(f), payload, LastHash(f))
    <2>3. g[Len(f) + 1].record = r  BY <1>1, <1>2
    <2>4. /\ r.index = Len(f)
          /\ r.payload_hash = Digest(r.payload)
          /\ r.previous_hash = LastHash(f)
          /\ r.record_hash = Digest(Unsigned(r.index, r.payload_hash, r.previous_hash))
      BY <2>1 DEF Record
    <2> HIDE DEF r
    <2> QED  BY <2>2, <2>3, <2>4 DEF LineVerified, LinkVerified
  <1> QED
    <2>1. ASSUME NEW i \in 1 .. Len(g) PROVE LineVerified(g, i)
      <3>1. i \in 1 .. Len(f) \/ i = Len(f) + 1  BY <1>1
      <3> QED  BY <3>1, <1>4, <1>5
    <2> QED  BY <1>3, <2>1 DEF Verified, g

-----------------------------------------------------------------------------

LEMMA ChainInitially ==
  ASSUME LedgerInit  PROVE ChainInv
  <1>1. IsLines  BY DEF LedgerInit, IsLines
  <1>2. ProcessesOK /\ SoleWriter  BY DEF LedgerInit, ProcessesOK, SoleWriter
  <1>3. ChainIntact  BY DEF LedgerInit, ChainIntact, Verified, ReadableFile
  <1>4. \A p \in Processes : HoldsLast(p)  BY DEF LedgerInit, HoldsLast
  <1> QED  BY <1>1, <1>2, <1>3, <1>4 DEF ChainInv

\* What FinishAppend and a broken write put into the file keeps the chain.
LEMMA PutKeepsChain ==
  ASSUME ChainInv, NEW p \in Processes, phase[p] = "appending", NEW ended,
         NEW line, line = Whole(NewRecord(p), ended) \/ ~line.whole,
         file' = Put(file, line), edited' = edited
  PROVE  IsLines' /\ ChainIntact'
  <1>1. PICK S : file \in Seq(S)  BY DEF ChainInv, IsLines
  <1>2. CASE file # <<>> /\ ~file[Len(file)].ended
    <2>1. file' \in Seq(S \union {Torn(line.ended)}) /\ ~ReadableFile(file')
      BY <1>1, <1>2, PutGlues
    <2> QED  BY <2>1 DEF IsLines, ChainIntact
  <1>3. CASE file = <<>> \/ file[Len(file)].ended
    <2>0. file' = Append(file, line)  BY <1>3 DEF Put
    <2>1. /\ file' \in Seq(S \union {line}) /\ Len(file') = Len(file) + 1
          /\ file'[Len(file) + 1] = line
      BY <1>1, <2>0
    <2>2. IsLines'  BY <2>1 DEF IsLines
    <2>3. CASE ~line.whole \/ edited
      <3>1. Len(file) + 1 \in 1 .. Len(file')  BY <1>1, <2>1
      <3> QED  BY <2>1, <2>2, <2>3, <3>1 DEF ChainIntact, ReadableFile
    <2>4. CASE ~edited /\ line = Whole(NewRecord(p), ended)
      <3>1. HoldsLast(p) /\ Verified(file)
        BY <2>4 DEF ChainInv, ChainIntact, HoldsLast
      <3>2. line = Whole(Record(NextIndex(file), held[p].payload, LastHash(file)), ended)
        BY <2>4, <3>1 DEF HoldsLast, NewRecord
      <3>3. Verified(file')
        BY <1>1, <1>3, <3>1, <3>2, NewRecordVerifies
      <3> QED  BY <2>2, <3>3 DEF ChainIntact
    <2> QED  BY <2>3, <2>4
  <1> QED  BY <1>2, <1>3

LEMMA ChainStep ==
  ASSUME ChainInv, LedgerNext, SoleWriter'  PROVE ChainInv'
  <1> USE DEF ChainInv
  <1>1. ASSUME NEW p \in Processes, StartProcess(p)  PROVE ChainInv'
    <2>1. file' = file /\ edited' = edited /\ held' = held
          /\ phase' = [phase EXCEPT ![p] = "up"]
      BY <1>1 DEF StartProcess
    <2>2. ASSUME NEW q \in Processes  PROVE HoldsLast(q)'
      <3>1. phase'[q] = "appending" => phase[q] = "appending"
        BY <2>1 DEF ProcessesOK
      <3> QED  BY <2>1, <3>1 DEF HoldsLast
    <2> QED  BY <2>1, <2>2 DEF IsLines, ProcessesOK, ChainIntact
  <1>2. ASSUME NEW p \in Processes, Stop(p)  PROVE ChainInv'
    <2>1. file' = file /\ edited' = edited /\ held' = held
          /\ phase' = [phase EXCEPT ![p] = "down"]
      BY <1>2 DEF Stop
    <2>2. ASSUME NEW q \in Processes  PROVE HoldsLast(q)'
      <3>1. phase'[q] = "appending" => phase[q] = "appending"
        BY <2>1 DEF ProcessesOK
      <3> QED  BY <2>1, <3>1 DEF HoldsLast
    <2> QED  BY <2>1, <2>2 DEF IsLines, ProcessesOK, ChainIntact
  <1>3. ASSUME NEW p \in Processes, NEW x \in Payloads, BeginAppend(p, x)  PROVE ChainInv'
    <2>1. /\ file' = file /\ edited' = edited /\ ReadableFile(file)
          /\ phase' = [phase EXCEPT ![p] = "appending"]
          /\ held' = [held EXCEPT ![p] = Holding(x, NextIndex(file), LastHash(file))]
      BY <1>3 DEF BeginAppend
    <2>2. ASSUME NEW q \in Processes  PROVE HoldsLast(q)'
      <3>1. CASE q = p
        <4>1. held'[q].index = NextIndex(file) /\ held'[q].hash = LastHash(file)
          BY <2>1, <3>1 DEF ProcessesOK, Holding
        <4> QED  BY <2>1, <4>1 DEF HoldsLast
      <3>2. CASE q # p
        <4>1. held'[q] = held[q] /\ phase'[q] = phase[q]
          BY <2>1, <3>2 DEF ProcessesOK
        <4> QED  BY <2>1, <4>1 DEF HoldsLast
      <3> QED  BY <3>1, <3>2
    <2> QED  BY <2>1, <2>2 DEF IsLines, ProcessesOK, ChainIntact
  <1>4. ASSUME NEW p \in Processes, FinishAppend(p)  PROVE ChainInv'
    <2>1. /\ phase[p] = "appending" /\ edited' = edited
          /\ file' = Put(file, Whole(NewRecord(p), TRUE))
          /\ phase' = [phase EXCEPT ![p] = "up"]
          /\ held' = [held EXCEPT ![p] = NoHold]
      BY <1>4 DEF FinishAppend
    <2>2. IsLines' /\ ChainIntact'
      BY <2>1, PutKeepsChain
    <2>3. ASSUME NEW q \in Processes  PROVE phase'[q] # "appending"
      BY <2>1 DEF SoleWriter, ProcessesOK
    <2> QED  BY <2>1, <2>2, <2>3 DEF ProcessesOK, HoldsLast
  <1>5. ASSUME NEW p \in Processes, BreakAppend(p)  PROVE ChainInv'
    <2>1. /\ phase[p] = "appending" /\ edited' = edited
          /\ held' = [held EXCEPT ![p] = NoHold]
          /\ \/ phase' = [phase EXCEPT ![p] = "up"]
             \/ phase' = [phase EXCEPT ![p] = "down"]
      BY <1>5 DEF BreakAppend
    <2>2. IsLines' /\ ChainIntact'
      <3>1. CASE file' = file
        BY <2>1, <3>1 DEF IsLines, ChainIntact
      <3>2. CASE file' = Put(file, Torn(FALSE))
        BY <2>1, <3>2, PutKeepsChain DEF Torn
      <3>3. CASE file' = Put(file, Whole(NewRecord(p), FALSE))
        BY <2>1, <3>3, PutKeepsChain
      <3> QED  BY <1>5, <3>1, <3>2, <3>3 DEF BreakAppend
    <2>3. ASSUME NEW q \in Processes  PROVE phase'[q] # "appending"
      BY <2>1 DEF SoleWriter, ProcessesOK
    <2> QED  BY <2>1, <2>2, <2>3 DEF ProcessesOK, HoldsLast
  <1>6. ASSUME EditFile  PROVE ChainInv'
    <2>1. PICK S : file \in Seq(S)  BY DEF IsLines
    <2>2. IsLines'
      <3>1. PICK i \in 1 .. Len(file) : RemoveLine(i) \/ \E x \in Payloads : EditPayload(i, x)
        BY <1>6 DEF EditFile
      <3>2. CASE RemoveLine(i)
        <4>1. SubSeq(file, 1, i - 1) \in Seq(S) /\ SubSeq(file, i + 1, Len(file)) \in Seq(S)
          BY <2>1, <3>2 DEF RemoveLine
        <4>2. SubSeq(file, 1, i - 1) \o SubSeq(file, i + 1, Len(file)) \in Seq(S)
          BY <4>1
        <4> QED  BY <3>2, <4>2 DEF RemoveLine, IsLines
      <3>3. ASSUME NEW x \in Payloads, EditPayload(i, x)  PROVE IsLines'
        <4> DEFINE line == Whole([file[i].record EXCEPT !.payload = x], file[i].ended)
        <4>1. file' = [file EXCEPT ![i] = line]  BY <3>3 DEF EditPayload
        <4> HIDE DEF line
        <4>2. file' \in Seq(S \union {line})  BY <2>1, <4>1
        <4> QED  BY <4>2 DEF IsLines
      <3> QED  BY <3>1, <3>2, <3>3
    <2> QED  BY <1>6, <2>2 DEF EditFile, ProcessesOK, ChainIntact, HoldsLast
  <1> QED
    BY <1>1, <1>2, <1>3, <1>4, <1>5, <1>6 DEF LedgerNext, ProcessStep

\* If one process at a time has the file open, a readable file that nobody edited
\* verifies, whatever broke off in the middle of a line.
THEOREM ChainStaysIntact == SoleLedgerSpec => []ChainIntact
  <1>1. ASSUME ChainInv, UNCHANGED ledgerVars  PROVE ChainInv'
    BY <1>1 DEF ChainInv, ledgerVars, IsLines, ProcessesOK, SoleWriter, ChainIntact, HoldsLast
  <1>2. ChainInv => ChainIntact  BY DEF ChainInv
  <1> QED  BY ChainInitially, ChainStep, <1>1, <1>2, PTL DEF SoleLedgerSpec

-----------------------------------------------------------------------------
(* A readable file is complete.  A torn line stays torn, so a file that can *)
(* be read after a write could be read before it.                           *)

LEMMA TornStaysTorn ==
  ASSUME NEW S, file \in Seq(S), NEW line, file' = Put(file, line), ReadableFile(file')
  PROVE  ReadableFile(file) /\ file' = Append(file, line) /\ line.whole
  <1>1. file = <<>> \/ file[Len(file)].ended
    BY PutGlues
  <1>2. file' = Append(file, line)  BY <1>1 DEF Put
  <1>3. /\ Len(file') = Len(file) + 1 /\ file'[Len(file) + 1] = line
        /\ \A i \in 1 .. Len(file) : file'[i] = file[i]
    BY <1>2
  <1>4. 1 .. Len(file) \subseteq 1 .. Len(file') /\ Len(file) + 1 \in 1 .. Len(file')
    BY <1>3
  <1> QED  BY <1>2, <1>3, <1>4 DEF ReadableFile

LEMMA CompleteStep ==
  ASSUME ChainInv, ChainInv', ReadableIsComplete, LedgerNext  PROVE ReadableIsComplete'
  <1> SUFFICES ASSUME ReadableFile(file'), ~edited', NEW r \in acked'
               PROVE  r.index + 1 \in 1 .. Len(file') /\ file'[r.index + 1].record = r
    BY DEF ReadableIsComplete
  <1>1. PICK S : file \in Seq(S)  BY DEF ChainInv, IsLines
  <1>2. ~EditFile  BY DEF EditFile
  <1>3. PICK p \in Processes : ProcessStep(p)  BY <1>2 DEF LedgerNext
  <1>4. ~edited
    BY <1>3 DEF ProcessStep, StartProcess, Stop, FinishAppend, BreakAppend, BeginAppend
  <1>5. CASE file' = file /\ acked' = acked
    BY <1>4, <1>5 DEF ReadableIsComplete
  <1>6. ASSUME NEW line, file' = Put(file, line), r \in acked
        PROVE  r.index + 1 \in 1 .. Len(file') /\ file'[r.index + 1].record = r
    <2>1. ReadableFile(file) /\ file' = Append(file, line)
      BY <1>1, <1>6, TornStaysTorn
    <2>2. r.index + 1 \in 1 .. Len(file) /\ file[r.index + 1].record = r
      BY <1>4, <1>6, <2>1 DEF ReadableIsComplete
    <2>3. Len(file') = Len(file) + 1 /\ \A i \in 1 .. Len(file) : file'[i] = file[i]
      BY <1>1, <2>1
    <2>4. 1 .. Len(file) \subseteq 1 .. Len(file')
      BY <1>1, <2>3
    <2> QED  BY <2>2, <2>3, <2>4
  <1>7. CASE FinishAppend(p)
    <2> DEFINE line == Whole(NewRecord(p), TRUE)
    <2>1. file' = Put(file, line) /\ acked' = acked \union {NewRecord(p)}
      BY <1>7 DEF FinishAppend
    <2>2. line.record = NewRecord(p)  BY DEF Whole
    <2> HIDE DEF line
    <2>3. CASE r \in acked  BY <1>6, <2>1, <2>3
    <2>4. CASE r = NewRecord(p)
      <3>1. file' = Append(file, line)  BY <1>1, <2>1, TornStaysTorn
      <3>2. /\ Len(file) + 1 \in 1 .. Len(file') /\ Len(file) \in Nat
            /\ file'[Len(file) + 1] = line
        BY <1>1, <3>1
      <3>3. Verified(file')  BY DEF ChainInv, ChainIntact
      <3>4. r.index = Len(file) + 1 - 1
        BY <2>2, <2>4, <3>2, <3>3 DEF Verified, LineVerified
      <3> QED  BY <2>2, <2>4, <3>2, <3>4
    <2> QED  BY <2>1, <2>3, <2>4
  <1>8. CASE BreakAppend(p)
    <2>1. acked' = acked  BY <1>8 DEF BreakAppend
    <2>2. \/ file' = file
          \/ file' = Put(file, Torn(FALSE))
          \/ file' = Put(file, Whole(NewRecord(p), FALSE))
      BY <1>8 DEF BreakAppend
    <2> QED  BY <1>5, <1>6, <2>1, <2>2
  <1>9. CASE StartProcess(p) \/ Stop(p) \/ \E x \in Payloads : BeginAppend(p, x)
    BY <1>5, <1>9 DEF StartProcess, Stop, BeginAppend
  <1> QED  BY <1>3, <1>7, <1>8, <1>9 DEF ProcessStep

\* With one process at a time, a file that can be read and that nobody edited holds
\* every acknowledged record at its index, however writes break off.
THEOREM ReadableFilesAreComplete == SoleLedgerSpec => []ReadableIsComplete
  <1>1. LedgerInit => ReadableIsComplete  BY DEF LedgerInit, ReadableIsComplete
  <1>2. ChainInv /\ ChainInv' /\ ReadableIsComplete /\ LedgerNext => ReadableIsComplete'
    BY CompleteStep
  <1>3. ASSUME ChainInv, UNCHANGED ledgerVars  PROVE ChainInv'
    BY <1>3 DEF ChainInv, ledgerVars, IsLines, ProcessesOK, SoleWriter, ChainIntact, HoldsLast
  <1>4. ReadableIsComplete /\ UNCHANGED ledgerVars => ReadableIsComplete'
    BY DEF ReadableIsComplete, ledgerVars
  <1> QED  BY ChainInitially, ChainStep, <1>1, <1>2, <1>3, <1>4, PTL DEF SoleLedgerSpec

-----------------------------------------------------------------------------
(* What was appended stays.  Every record on a line of its own ends in its  *)
(* line break, so what is written next cannot run into it.                  *)

EndedLines == ~edited => \A i \in 1 .. Len(file) : file[i].whole => file[i].ended

StayInv == EndedLines /\ AppendOnly

LEMMA StayStep ==
  ASSUME ChainInv, StayInv, LedgerNext, "newline" \notin Cuts  PROVE StayInv'
  <1>1. PICK S : file \in Seq(S)  BY DEF ChainInv, IsLines
  <1>2. CASE file' = file /\ edited' = edited /\ acked' = acked
    BY <1>2 DEF StayInv, EndedLines, AppendOnly
  <1>3. CASE edited'
    BY <1>3 DEF StayInv, EndedLines, AppendOnly
  <1>4. ASSUME NEW line, ~edited, ~edited', ReadableFile(file), file' = Put(file, line),
               line.whole => line.ended,
               acked' = acked \/ (line.whole /\ acked' = acked \union {line.record})
        PROVE  StayInv'
    <2>1. file = <<>> \/ file[Len(file)].ended
      <3>1. file # <<>> => Len(file) \in 1 .. Len(file)  BY <1>1
      <3> QED  BY <1>4, <3>1 DEF StayInv, EndedLines, ReadableFile
    <2>2. file' = Append(file, line)  BY <1>4, <2>1 DEF Put
    <2>3. /\ Len(file') = Len(file) + 1 /\ file'[Len(file) + 1] = line
          /\ \A i \in 1 .. Len(file) : file'[i] = file[i]
      BY <1>1, <2>2
    <2>4. EndedLines'
      <3>1. ASSUME NEW i \in 1 .. Len(file) + 1, file'[i].whole  PROVE file'[i].ended
        BY <1>1, <1>4, <2>3, <3>1 DEF StayInv, EndedLines
      <3> QED  BY <2>3, <3>1 DEF EndedLines
    <2>5. ASSUME NEW r \in acked'  PROVE \E i \in 1 .. Len(file') : file'[i].whole /\ file'[i].record = r
      <3>1. CASE r \in acked
        <4>1. PICK i \in 1 .. Len(file) : file[i].whole /\ file[i].record = r
          BY <1>4, <3>1 DEF StayInv, AppendOnly
        <4> QED  BY <1>1, <2>3, <4>1
      <3>2. CASE line.whole /\ r = line.record
        <4>1. Len(file) + 1 \in 1 .. Len(file')  BY <1>1, <2>3
        <4> QED  BY <2>3, <3>2, <4>1
      <3> QED  BY <1>4, <2>5, <3>1, <3>2
    <2> QED  BY <2>4, <2>5 DEF StayInv, AppendOnly
  <1>5. ASSUME NEW p \in Processes, FinishAppend(p), ~edited  PROVE StayInv'
    <2>1. ReadableFile(file)  BY <1>5 DEF ChainInv, HoldsLast, FinishAppend
    <2> DEFINE line == Whole(NewRecord(p), TRUE)
    <2>2. line.whole /\ line.ended /\ line.record = NewRecord(p)  BY DEF Whole
    <2>3. file' = Put(file, line) /\ edited' = edited /\ acked' = acked \union {line.record}
      BY <1>5, <2>2 DEF FinishAppend
    <2> HIDE DEF line
    <2> QED  BY <1>4, <1>5, <2>1, <2>2, <2>3
  <1>6. ASSUME NEW p \in Processes, BreakAppend(p), ~edited  PROVE StayInv'
    <2>1. ReadableFile(file)  BY <1>6 DEF ChainInv, HoldsLast, BreakAppend
    <2> DEFINE line == Torn(FALSE)
    <2>2. ~line.whole  BY DEF Torn
    <2>3. edited' = edited /\ acked' = acked /\ (file' = file \/ file' = Put(file, line))
      BY <1>6, "newline" \notin Cuts DEF BreakAppend
    <2> HIDE DEF line
    <2> QED  BY <1>2, <1>4, <1>6, <2>1, <2>2, <2>3
  <1>7. ASSUME EditFile  PROVE StayInv'
    BY <1>3, <1>7 DEF EditFile
  <1>8. ASSUME NEW p \in Processes, ProcessStep(p)  PROVE StayInv'
    <2>1. edited' = edited
      BY <1>8 DEF ProcessStep, StartProcess, Stop, FinishAppend, BreakAppend, BeginAppend
    <2>2. CASE edited  BY <1>3, <2>1, <2>2
    <2>3. CASE ~edited
      <3>1. \/ FinishAppend(p) \/ BreakAppend(p)
            \/ file' = file /\ edited' = edited /\ acked' = acked
        BY <1>8 DEF ProcessStep, StartProcess, Stop, BeginAppend
      <3> QED  BY <1>2, <1>5, <1>6, <2>3, <3>1
    <2> QED  BY <2>2, <2>3
  <1> QED  BY <1>7, <1>8 DEF LedgerNext

\* If no write breaks off exactly in front of its line break and one process at
\* a time has the file open, a record whose append returned stays readable.
THEOREM WholeWritesKeepRecords ==
  ASSUME "newline" \notin Cuts  PROVE SoleLedgerSpec => []AppendOnly
  <1>1. LedgerInit => StayInv
    BY DEF LedgerInit, StayInv, EndedLines, AppendOnly
  <1>2. ChainInv /\ StayInv /\ LedgerNext /\ SoleWriter' => StayInv'
    BY StayStep
  <1>3. ASSUME ChainInv, StayInv, UNCHANGED ledgerVars  PROVE ChainInv' /\ StayInv'
    BY <1>3 DEF ChainInv, ledgerVars, IsLines, ProcessesOK, SoleWriter, ChainIntact, HoldsLast,
                StayInv, EndedLines, AppendOnly
  <1>4. StayInv => AppendOnly  BY DEF StayInv
  <1> QED  BY ChainInitially, ChainStep, <1>1, <1>2, <1>3, <1>4, PTL DEF SoleLedgerSpec

\* With one process at a time, whatever writes break off, a file that can be read is a
\* valid chain that lacks no acknowledged record.
THEOREM FilesStaySound == SoleLedgerSpec => []FileIsSound
  BY ChainStaysIntact, ReadableFilesAreComplete, PTL DEF FileIsSound

-----------------------------------------------------------------------------
(* An edit shows.  Before one, the lines in front of the last are records,  *)
(* each with the index of its place; after one, some line by itself is not  *)
(* what that place could hold, and nothing that is appended repairs it.     *)

PlacedRecord(r, i) == \E x, h : r = Record(i - 1, x, h)
FitsItsPlace(line, i) ==
  /\ line.record.index = i - 1
  /\ line.record.payload_hash = Digest(line.record.payload)

RecordsPlaced ==
  ~edited => \A i \in 1 .. Len(file) :
    /\ i < Len(file) => file[i].whole
    /\ file[i].whole => PlacedRecord(file[i].record, i)
EditShows == edited => \E i \in 1 .. Len(file) : ~file[i].whole \/ ~FitsItsPlace(file[i], i)
ShownInv == RecordsPlaced /\ EditShows

LEMMA RecordParts ==
  ASSUME NEW i, NEW r, PlacedRecord(r, i)
  PROVE  /\ r.index = i - 1 /\ r.payload_hash = Digest(r.payload)
         /\ DOMAIN r = {"index", "payload", "payload_hash", "previous_hash", "record_hash"}
  BY DEF PlacedRecord, Record

\* What is put behind the file changes no line in front of its last.
LEMMA PutShows ==
  ASSUME ChainInv, ShownInv, NEW p \in Processes, phase[p] = "appending", NEW ended,
         NEW line, line = Whole(NewRecord(p), ended) \/ ~line.whole,
         file' = Put(file, line), edited' = edited
  PROVE  ShownInv'
  <1>1. PICK S : file \in Seq(S)  BY DEF ChainInv, IsLines
  <1>2. Len(file) \in Nat  BY <1>1
  <1>3. CASE file # <<>> /\ ~file[Len(file)].ended
    <2> DEFINE torn == Torn(line.ended)
    <2>1. file' = [file EXCEPT ![Len(file)] = torn] /\ ~torn.whole
      BY <1>3 DEF Put, Torn
    <2> HIDE DEF torn
    <2>2. /\ Len(file') = Len(file) /\ Len(file) \in 1 .. Len(file)
          /\ file'[Len(file)] = torn /\ \A i \in 1 .. Len(file) : i # Len(file) => file'[i] = file[i]
      BY <1>1, <1>3, <2>1
    <2>3. RecordsPlaced'
      <3> SUFFICES ASSUME ~edited, NEW i \in 1 .. Len(file)
                   PROVE  /\ i < Len(file) => file'[i].whole
                          /\ file'[i].whole => PlacedRecord(file'[i].record, i)
        BY <2>2 DEF RecordsPlaced
      <3>1. CASE i = Len(file)  BY <1>2, <2>1, <2>2, <3>1
      <3>2. CASE i # Len(file)  BY <2>2, <3>2 DEF ShownInv, RecordsPlaced
      <3> QED  BY <3>1, <3>2
    <2>4. EditShows'
      BY <2>1, <2>2 DEF EditShows
    <2> QED  BY <2>3, <2>4 DEF ShownInv
  <1>4. CASE file = <<>> \/ file[Len(file)].ended
    <2>1. /\ Len(file') = Len(file) + 1 /\ file'[Len(file) + 1] = line
          /\ \A i \in 1 .. Len(file) : file'[i] = file[i]
      <3>1. file' = Append(file, line)  BY <1>4 DEF Put
      <3> QED  BY <1>1, <3>1
    <2>2. RecordsPlaced'
      <3> SUFFICES ASSUME ~edited, NEW i \in 1 .. Len(file) + 1
                   PROVE  /\ i < Len(file) + 1 => file'[i].whole
                          /\ file'[i].whole => PlacedRecord(file'[i].record, i)
        BY <2>1 DEF RecordsPlaced
      <3>1. HoldsLast(p) /\ ReadableFile(file)
        BY DEF ChainInv, HoldsLast
      <3>2. CASE i # Len(file) + 1
        <4>1. i \in 1 .. Len(file) /\ file'[i] = file[i]  BY <1>2, <2>1, <3>2
        <4>2. file[i].whole  BY <3>1, <4>1 DEF ReadableFile
        <4> QED  BY <4>1, <4>2 DEF ShownInv, RecordsPlaced
      <3>3. CASE i = Len(file) + 1
        <4>1. file'[i] = line /\ ~(i < Len(file) + 1)  BY <1>2, <2>1, <3>3
        <4>2. CASE ~line.whole  BY <4>1, <4>2
        <4>3. CASE line = Whole(NewRecord(p), ended)
          <5>1. held[p].index = NextIndex(file)  BY <3>1 DEF HoldsLast
          <5>2. NextIndex(file) = i - 1
            <6>1. CASE file = <<>>
              BY <1>1, <3>3, <6>1 DEF NextIndex
            <6>2. CASE file # <<>>
              <7>1. Len(file) \in 1 .. Len(file)  BY <1>1, <6>2
              <7>2. PlacedRecord(file[Len(file)].record, Len(file))
                BY <3>1, <7>1 DEF ReadableFile, ShownInv, RecordsPlaced
              <7>3. file[Len(file)].record.index = Len(file) - 1
                BY <7>2, RecordParts
              <7> QED  BY <1>2, <3>3, <6>2, <7>3 DEF NextIndex
            <6> QED  BY <6>1, <6>2
          <5>3. line.record = Record(i - 1, held[p].payload, held[p].hash)
            BY <4>3, <5>1, <5>2 DEF Whole, NewRecord
          <5> QED  BY <4>1, <5>3 DEF PlacedRecord
        <4> QED  BY <4>2, <4>3
      <3> QED  BY <3>2, <3>3
    <2>3. EditShows'
      <3>1. ASSUME edited, NEW i \in 1 .. Len(file), ~file[i].whole \/ ~FitsItsPlace(file[i], i)
            PROVE  i \in 1 .. Len(file') /\ (~file'[i].whole \/ ~FitsItsPlace(file'[i], i))
        BY <1>2, <2>1, <3>1
      <3> QED  BY <3>1 DEF ShownInv, EditShows
    <2> QED  BY <2>2, <2>3 DEF ShownInv
  <1> QED  BY <1>3, <1>4

LEMMA ConcatNext ==
  ASSUME NEW S, NEW s \in Seq(S), NEW t \in Seq(S), Len(t) >= 1
  PROVE  Len(s \o t) = Len(s) + Len(t) /\ (s \o t)[Len(s) + 1] = t[1]
  OBVIOUS

\* What is left and right of a member of a sequence.
LEMMA SidesOf ==
  ASSUME NEW S, NEW s \in Seq(S), NEW i \in Int, 1 <= i, i < Len(s)
  PROVE  /\ SubSeq(s, 1, i - 1) \in Seq(S) /\ Len(SubSeq(s, 1, i - 1)) = i - 1
         /\ SubSeq(s, i + 1, Len(s)) \in Seq(S) /\ Len(SubSeq(s, i + 1, Len(s))) = Len(s) - i
         /\ SubSeq(s, i + 1, Len(s))[1] = s[i + 1]
  <1>1. Len(s) \in Int /\ i - 1 \in Int /\ i + 1 \in Int  OBVIOUS
  <1>2. (\A k \in 1 .. i - 1 : s[k] \in S) /\ (\A k \in i + 1 .. Len(s) : s[k] \in S)  OBVIOUS
  <1>3. SubSeq(s, 1, i - 1) \in Seq(S)  BY <1>1, <1>2, SubSeqProperties
  <1>4. Len(SubSeq(s, 1, i - 1)) = IF 1 <= i - 1 THEN (i - 1) - 1 + 1 ELSE 0  BY <1>1, <1>2, SubSeqProperties
  <1>5. SubSeq(s, i + 1, Len(s)) \in Seq(S)  BY <1>1, <1>2, SubSeqProperties
  <1>6. Len(SubSeq(s, i + 1, Len(s))) = IF i + 1 <= Len(s) THEN Len(s) - (i + 1) + 1 ELSE 0
    BY <1>1, <1>2, SubSeqProperties
  <1>7. \A k \in 1 .. Len(s) - (i + 1) + 1 : SubSeq(s, i + 1, Len(s))[k] = s[(i + 1) + k - 1]
    BY <1>1, <1>2, SubSeqProperties
  <1>8. 1 \in 1 .. Len(s) - (i + 1) + 1 /\ (i + 1) + 1 - 1 = i + 1  BY <1>1
  <1> QED  BY <1>1, <1>3, <1>4, <1>5, <1>6, <1>7, <1>8

\* A payload no longer fits its hash, a line that moved up no longer fits its index.
LEMMA EditsShow ==
  ASSUME ChainInv, ShownInv, EditFile
  PROVE  ShownInv'
  <1>1. PICK S : file \in Seq(S)  BY DEF ChainInv, IsLines
  <1>2. ~edited /\ edited' /\ Len(file) \in Nat  BY <1>1 DEF EditFile
  <1>3. \A i \in 1 .. Len(file) :
          /\ i < Len(file) => file[i].whole
          /\ file[i].whole => PlacedRecord(file[i].record, i)
    BY <1>2 DEF ShownInv, RecordsPlaced
  <1>4. ASSUME NEW i \in 1 .. Len(file), RemoveLine(i)  PROVE EditShows'
    <2>1. i < Len(file) /\ file' = SubSeq(file, 1, i - 1) \o SubSeq(file, i + 1, Len(file))
      BY <1>4 DEF RemoveLine
    <2>2. /\ SubSeq(file, 1, i - 1) \in Seq(S) /\ Len(SubSeq(file, 1, i - 1)) = i - 1
          /\ SubSeq(file, i + 1, Len(file)) \in Seq(S) /\ Len(SubSeq(file, i + 1, Len(file))) = Len(file) - i
          /\ SubSeq(file, i + 1, Len(file))[1] = file[i + 1]
      <3>1. i \in Int /\ 1 <= i /\ i < Len(file)  BY <1>2, <2>1
      <3> QED  BY <1>1, <3>1, SidesOf
    <2>3. i \in 1 .. Len(file') /\ file'[i] = file[i + 1]
      <3> DEFINE above == SubSeq(file, 1, i - 1)
                 below == SubSeq(file, i + 1, Len(file))
      <3>1. /\ above \in Seq(S) /\ Len(above) = i - 1 /\ file' = above \o below
            /\ below \in Seq(S) /\ Len(below) = Len(file) - i /\ below[1] = file[i + 1]
        BY <2>1, <2>2
      <3> HIDE DEF above, below
      <3>2. i \in Int /\ 1 <= i /\ Len(file) \in Int /\ i < Len(file)  BY <1>2, <2>1
      <3>3. Len(above) + 1 = i /\ Len(below) >= 1  BY <3>1, <3>2
      <3>4. Len(above \o below) = Len(above) + Len(below) /\ (above \o below)[Len(above) + 1] = below[1]
        BY <3>1, <3>3, ConcatNext
      <3>5. Len(file') = Len(above) + Len(below)  BY <3>1, <3>4
      <3>6. file'[i] = file[i + 1]  BY <3>1, <3>3, <3>4
      <3>7. i <= Len(file')  BY <3>1, <3>2, <3>5
      <3> QED  BY <3>2, <3>6, <3>7
    <2>4. file[i + 1].whole => file[i + 1].record.index = i
      <3>1. i + 1 \in 1 .. Len(file)  BY <1>2, <2>1
      <3>2. file[i + 1].whole => PlacedRecord(file[i + 1].record, i + 1)  BY <1>3, <3>1
      <3>3. (i + 1) - 1 = i  OBVIOUS
      <3> QED  BY <3>2, <3>3, RecordParts
    <2>5. ~file'[i].whole \/ ~FitsItsPlace(file'[i], i)
      BY <2>3, <2>4 DEF FitsItsPlace
    <2> QED  BY <2>3, <2>5 DEF EditShows
  <1>5. ASSUME NEW i \in 1 .. Len(file), NEW x \in Payloads, EditPayload(i, x)  PROVE EditShows'
    <2> DEFINE r == file[i].record
               s == [r EXCEPT !.payload = x]
    <2>1. /\ file[i].whole /\ r.payload # x
          /\ file' = [file EXCEPT ![i] = Whole(s, file[i].ended)]
      BY <1>5 DEF EditPayload
    <2>2. /\ r.payload_hash = Digest(r.payload)
          /\ DOMAIN r = {"index", "payload", "payload_hash", "previous_hash", "record_hash"}
      BY <1>3, <2>1, RecordParts
    <2>3. s.payload = x /\ s.payload_hash = r.payload_hash
      BY <2>2
    <2>4. Digest(r.payload) # Digest(x)
      BY <2>1 DEF Digest
    <2> HIDE DEF r, s
    <2>5. i \in 1 .. Len(file') /\ file'[i].record = s
      BY <1>1, <2>1 DEF Whole
    <2>6. ~FitsItsPlace(file'[i], i)
      BY <2>2, <2>3, <2>4, <2>5 DEF FitsItsPlace
    <2> QED  BY <2>5, <2>6 DEF EditShows
  <1>6. EditShows'
    BY <1>4, <1>5 DEF EditFile
  <1>7. RecordsPlaced'
    BY <1>2 DEF RecordsPlaced
  <1> QED  BY <1>6, <1>7 DEF ShownInv

LEMMA ShownStep ==
  ASSUME ChainInv, ShownInv, LedgerNext  PROVE ShownInv'
  <1>1. ASSUME file' = file, edited' = edited  PROVE ShownInv'
    BY <1>1 DEF ShownInv, RecordsPlaced, EditShows
  <1>2. ASSUME NEW p \in Processes, FinishAppend(p)  PROVE ShownInv'
    BY <1>2, PutShows DEF FinishAppend
  <1>3. ASSUME NEW p \in Processes, BreakAppend(p)  PROVE ShownInv'
    <2>1. phase[p] = "appending" /\ edited' = edited  BY <1>3 DEF BreakAppend
    <2>2. CASE file' = file  BY <1>1, <2>1, <2>2
    <2>3. CASE file' = Put(file, Torn(FALSE))
      <3>1. ~Torn(FALSE).whole  BY DEF Torn
      <3> HIDE DEF Torn
      <3> QED  BY <2>1, <2>3, <3>1, PutShows
    <2>4. CASE file' = Put(file, Whole(NewRecord(p), FALSE))
      BY <2>1, <2>4, PutShows
    <2> QED  BY <1>3, <2>2, <2>3, <2>4 DEF BreakAppend
  <1>4. ASSUME NEW p \in Processes, StartProcess(p) \/ Stop(p) \/ \E x \in Payloads : BeginAppend(p, x)
        PROVE  ShownInv'
    BY <1>1, <1>4 DEF StartProcess, Stop, BeginAppend
  <1> QED  BY <1>2, <1>3, <1>4, EditsShow DEF LedgerNext, ProcessStep

\* An edited ledger never verifies again (EvidenceLedger.verify), whatever is appended to
\* it or breaks off on it, with one process at a time.
THEOREM EditsAreDetected == SoleLedgerSpec => []EditIsDetected
  <1>1. LedgerInit => ShownInv
    BY DEF LedgerInit, ShownInv, RecordsPlaced, EditShows
  <1>2. ShownInv => EditIsDetected
    BY DEF ShownInv, EditShows, EditIsDetected, Verified, ReadableFile, LineVerified, FitsItsPlace
  <1>3. ASSUME ChainInv, ShownInv, UNCHANGED ledgerVars  PROVE ChainInv' /\ ShownInv'
    BY <1>3 DEF ChainInv, ledgerVars, IsLines, ProcessesOK, SoleWriter, ChainIntact, HoldsLast,
                ShownInv, RecordsPlaced, EditShows
  <1> QED  BY ChainInitially, ChainStep, ShownStep, <1>1, <1>2, <1>3, PTL DEF SoleLedgerSpec

=============================================================================
