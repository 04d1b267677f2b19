--------------------------- MODULE EvidenceLedger ---------------------------
(***************************************************************************)
(* The evidence ledger (src/proofops/plugins/evidence.py): a JSON-lines    *)
(* file in which every record carries the hash of the one before it.       *)
(* append reads the last record and then writes one line; its lock covers  *)
(* one process, so a second process that opens the same file (the script   *)
(* scripts/export_evidence_head.py starts the whole application) may write *)
(* in between.  A write may break off (the process dies, the disk is      *)
(* full): nothing, a part of the line, or the line without its line break  *)
(* is then in the file, and what is written next continues that line.      *)
(*                                                                         *)
(* Abstractions.  SHA-256 is a constructor: Digest(x) differs from         *)
(* Digest(y) whenever x differs from y.  A payload is a model value that   *)
(* already went through redact_secrets.  A record's time, kind and source  *)
(* are part of its payload.                                                *)
(***************************************************************************)
EXTENDS Integers, Sequences

CONSTANTS
  Processes,   \* processes that open the ledger file
  Payloads,    \* payloads they append
  Genesis,     \* GENESIS_HASH
  NoPayload,   \* a payload of no record
  Cuts,        \* what a broken write may leave in the file
  Edits,       \* whether somebody edits the file by hand
  MaxLines     \* bound on the length of the file

CutKinds == {"nothing", "inside", "newline"}

ASSUME LedgerConstantsOK ==
  Cuts \subseteq CutKinds /\ Edits \in BOOLEAN /\ MaxLines \in Nat /\ NoPayload \notin Payloads

VARIABLES
  file,     \* the lines of the file
  phase,    \* a process is down, up, or between reading the last record and writing
  held,     \* what an append holds: its payload and the last index and hash it read
  acked,    \* records whose append has returned (for properties only)
  edited    \* somebody has edited the file (for properties only)

ledgerVars == <<file, phase, held, acked, edited>>

-----------------------------------------------------------------------------
(* Records, lines and what verify checks. *)

Digest(x) == [sha256 |-> x]

\* LedgerRecord, with the hashes over the payload and over everything but the payload.
Unsigned(index, payloadHash, previous) ==
  [index |-> index, payload_hash |-> payloadHash, previous_hash |-> previous]

Record(index, payload, previous) ==
  [index |-> index, payload |-> payload, payload_hash |-> Digest(payload),
   previous_hash |-> previous,
   record_hash |-> Digest(Unsigned(index, Digest(payload), previous))]

NoRecord == [index |-> 0, payload |-> NoPayload, payload_hash |-> Genesis,
             previous_hash |-> Genesis, record_hash |-> Genesis]

\* A line holds a whole record, or text that is not JSON; it may lack its line break.
Whole(r, ended) == [whole |-> TRUE, record |-> r, ended |-> ended]
Torn(ended) == [whole |-> FALSE, record |-> NoRecord, ended |-> ended]

ReadableFile(f) == \A i \in 1 .. Len(f) : f[i].whole

\* What _last makes of the file.  Mutants: the index is not advanced; the link
\* is to the payload of the last record.
LastIndex(f) == IF f = <<>> THEN -1 ELSE f[Len(f)].record.index
LastPayloadHash(f) == IF f = <<>> THEN Genesis ELSE f[Len(f)].record.payload_hash
NextIndex(f) == IF f = <<>> THEN 0 ELSE f[Len(f)].record.index + 1
LastHash(f) == IF f = <<>> THEN Genesis ELSE f[Len(f)].record.record_hash

\* What verify accepts of line i.  Mutant: it does not look at the payload.
LinkVerified(f, i) ==
  f[i].record.previous_hash = (IF i = 1 THEN Genesis ELSE f[i - 1].record.record_hash)
LineVerifiedNoPayload(f, i) ==
  /\ f[i].record.index = i - 1
  /\ LinkVerified(f, i)
  /\ f[i].record.record_hash =
       Digest(Unsigned(f[i].record.index, f[i].record.payload_hash, f[i].record.previous_hash))
LineVerified(f, i) ==
  /\ f[i].record.index = i - 1
  /\ f[i].record.payload_hash = Digest(f[i].record.payload)
  /\ LinkVerified(f, i)
  /\ f[i].record.record_hash =
       Digest(Unsigned(f[i].record.index, f[i].record.payload_hash, f[i].record.previous_hash))

Verified(f) == ReadableFile(f) /\ \A i \in 1 .. Len(f) : LineVerified(f, i)

\* Text goes to the end of the file, behind an unfinished line if there is one.
Put(f, line) ==
  IF f # <<>> /\ ~f[Len(f)].ended
  THEN [f EXCEPT ![Len(f)] = Torn(line.ended)]
  ELSE Append(f, line)

-----------------------------------------------------------------------------

Holding(payload, index, hash) == [payload |-> payload, index |-> index, hash |-> hash]
NoHold == Holding(NoPayload, 0, Genesis)

LedgerInit ==
  /\ file = <<>>
  /\ phase = [p \in Processes |-> "down"]
  /\ held = [p \in Processes |-> NoHold]
  /\ acked = {}
  /\ edited = FALSE

\* EvidencePlugin.load: the application starts only on a ledger that verifies.
StartProcess(p) ==
  /\ phase[p] = "down"
  /\ Verified(file)
  /\ phase' = [phase EXCEPT ![p] = "up"]
  /\ UNCHANGED <<file, held, acked, edited>>

\* append: _last reads the whole file and raises on a line that is not JSON.
BeginAppend(p, payload) ==
  /\ phase[p] = "up"
  /\ ReadableFile(file)
  /\ Len(file) < MaxLines
  /\ phase' = [phase EXCEPT ![p] = "appending"]
  /\ held' = [held EXCEPT ![p] = Holding(payload, NextIndex(file), LastHash(file))]
  /\ UNCHANGED <<file, acked, edited>>

NewRecord(p) == Record(held[p].index, held[p].payload, held[p].hash)

\* The line is written, flushed and synced, and append returns.
FinishAppend(p) ==
  /\ phase[p] = "appending"
  /\ file' = Put(file, Whole(NewRecord(p), TRUE))
  /\ acked' = acked \union {NewRecord(p)}
  /\ phase' = [phase EXCEPT ![p] = "up"]
  /\ held' = [held EXCEPT ![p] = NoHold]
  /\ UNCHANGED edited

\* The write raises (the disk is full) or the process dies in the middle of it.
BreakAppend(p) ==
  /\ phase[p] = "appending"
  /\ \/ "nothing" \in Cuts /\ UNCHANGED file
     \/ "inside" \in Cuts /\ file' = Put(file, Torn(FALSE))
     \/ "newline" \in Cuts /\ file' = Put(file, Whole(NewRecord(p), FALSE))
  /\ phase' \in {[phase EXCEPT ![p] = s] : s \in {"up", "down"}}
  /\ held' = [held EXCEPT ![p] = NoHold]
  /\ UNCHANGED <<acked, edited>>

Stop(p) ==
  /\ phase[p] = "up"
  /\ phase' = [phase EXCEPT ![p] = "down"]
  /\ UNCHANGED <<file, held, acked, edited>>

\* Somebody replaces the payload of a record, or removes a line that is not the last.
EditPayload(i, payload) ==
  /\ file[i].whole /\ file[i].record.payload # payload
  /\ file' = [file EXCEPT ![i] = Whole([file[i].record EXCEPT !.payload = payload], file[i].ended)]

RemoveLine(i) ==
  /\ i < Len(file)
  /\ file' = SubSeq(file, 1, i - 1) \o SubSeq(file, i + 1, Len(file))

EditFile ==
  /\ Edits /\ ~edited
  /\ \E i \in 1 .. Len(file) : RemoveLine(i) \/ \E x \in Payloads : EditPayload(i, x)
  /\ edited' = TRUE
  /\ UNCHANGED <<phase, held, acked>>

ProcessStep(p) ==
  \/ StartProcess(p) \/ FinishAppend(p) \/ BreakAppend(p) \/ Stop(p)
  \/ \E x \in Payloads : BeginAppend(p, x)

LedgerNext == (\E p \in Processes : ProcessStep(p)) \/ EditFile

LedgerSpec == LedgerInit /\ [][LedgerNext]_ledgerVars

\* One process at a time has the file open.
SoleWriter == \A p, q \in Processes : phase[p] # "down" /\ phase[q] # "down" => p = q
SoleLedgerSpec == LedgerInit /\ [][LedgerNext /\ SoleWriter']_ledgerVars

-----------------------------------------------------------------------------
(* Properties. *)

RecordOK(r) == r.index \in Nat /\ r.payload \in Payloads \union {NoPayload}

LedgerTypeOK ==
  /\ \A i \in 1 .. Len(file) :
       file[i].whole \in BOOLEAN /\ file[i].ended \in BOOLEAN /\ RecordOK(file[i].record)
  /\ phase \in [Processes -> {"down", "up", "appending"}]
  /\ DOMAIN held = Processes /\ \A p \in Processes : RecordOK(held[p])
  /\ \A r \in acked : RecordOK(r)
  /\ edited \in BOOLEAN

\* The chain is intact: as long as nobody edits the file, a file whose lines can
\* all be read verifies, whatever died or failed in the middle of a line
\* (EvidenceLedger.append, verify).
ChainIntact == ReadableFile(file) /\ ~edited => Verified(file)

\* Nothing acknowledged is missing: unless somebody edits it, a file that can be
\* read holds every record whose append has returned, on the line its index names
\* (EvidenceLedger.append, records).
ReadableIsComplete ==
  ReadableFile(file) /\ ~edited =>
    \A r \in acked : r.index + 1 \in 1 .. Len(file) /\ file[r.index + 1].record = r

\* The ledger is append-only: a record whose append has returned stays on a line
\* that can be read, unless somebody edits the file.
AppendOnly ==
  ~edited => \A r \in acked : \E i \in 1 .. Len(file) : file[i].whole /\ file[i].record = r

\* An edit shows: once a payload was replaced or a line in front of another one
\* removed, the file never verifies again, whatever is appended to it, so no
\* process starts on it and /health/ready reports it.
EditIsDetected == edited => ~Verified(file)

\* A file that can be read, and that nobody edited, is a chain without a gap.
FileIsSound == ChainIntact /\ ReadableIsComplete

=============================================================================
