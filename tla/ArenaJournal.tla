----------------------------- MODULE ArenaJournal -----------------------------
(***************************************************************************)
(* The journal of analysis tasks (arena/store.py): proposals are submitted *)
(* with an idempotency key and the version they were written against, a    *)
(* chain of events binds them, and an exported bundle is verified offline, *)
(* against a head its holder kept.                                         *)
(*                                                                         *)
(* create and submit are BEGIN IMMEDIATE transactions, so each is a step,  *)
(* whichever process runs it; a crash rolls one back.  An answer may be    *)
(* lost, and its client then sends the same request again.  A digest is    *)
(* the value it is computed from.  Left out: the capability token of a     *)
(* task, texts that do not parse (both refused before anything is read or  *)
(* written), and the fields of a bundle that say how little it proves.     *)
(***************************************************************************)
EXTENDS Integers, Sequences, FiniteSets

CONSTANTS
  Writers,       \* clients
  ArenaTasks,    \* tasks
  Texts,         \* exact output bytes
  Meaning,       \* the proposal a text parses to, its layout forgotten
  ArenaKeys,     \* idempotency keys
  MaxArenaTasks, \* max_tasks
  MaxProposals,  \* max_proposals
  MaxEdits       \* bound: edits of a copied bundle

ASSUME ArenaConstantsOK ==
  /\ DOMAIN Meaning = Texts /\ IsFiniteSet(ArenaTasks)
  /\ {MaxArenaTasks, MaxProposals, MaxEdits} \subseteq Nat

VARIABLES
  taskRow, \* the rows of each task in arena_tasks, arena_proposals, arena_events
  aged,    \* tasks whose snapshot is no longer fresh
  writer,  \* the request each client has made and what became of it
  answers, \* answers that reached a client (for properties only)
  kept,    \* a bundle exported before, or none; its head is kept outside
  copy,    \* a copy of it, in other hands
  edits

arenaVars == <<taskRow, aged, writer, answers, kept, copy, edits>>

-----------------------------------------------------------------------------
(* Events and bundles *)

NoHead == [sequence |-> 0]
HeadOf(events) == IF events = <<>> THEN NoHead ELSE events[Len(events)].hash
EventRow(e) == [sequence |-> e.sequence, event |-> e, previous |-> e.previous, hash |-> e]

\* _event: numbered and linked after the last one.
WithEvent(events, t, kind, data) ==
  Append(events, EventRow([sequence |-> Len(events) + 1, task |-> t, kind |-> kind, data |-> data,
                           previous |-> HeadOf(events)]))

NotCreated == [version |-> 0, proposals |-> <<>>, events |-> <<>>]
TaskOpened(t) == [version |-> 1, proposals |-> <<>>, events |-> WithEvent(<<>>, t, "task_opened", t)]

\* evaluate reads the proposal and the age of the snapshot.
Report(t, text) == [proposal |-> Meaning[text], fresh |-> t \notin aged]

Proposal(n, text, report) ==
  [id |-> n, text |-> text, raw |-> text, proposal |-> Meaning[text], report |-> report, version |-> n]
\* Mutant: an event does not name the report.
BindingNoReport(p) == [id |-> p.id, raw |-> p.raw, proposal |-> p.proposal]
Binding(p) == [id |-> p.id, raw |-> p.raw, proposal |-> p.proposal, report |-> p.report]

WithProposal(row, t, key, p) ==
  [version |-> p.version, proposals |-> Append(row.proposals, [key |-> key, listed |-> p]),
   events |-> WithEvent(row.events, t, "proposal_checked", Binding(p))]

Bundle(t, row) ==
  [task |-> t, version |-> row.version, events |-> row.events,
   proposals |-> [i \in DOMAIN row.proposals |-> row.proposals[i].listed]]
NoBundle == [task |-> "none", version |-> 0, events |-> <<>>, proposals |-> <<>>]

Unlike(s) == \A i, k \in DOMAIN s : s[i].id = s[k].id => i = k

\* verify_bundle: the chain of events, then the proposals against their events.
ChainHolds(b) ==
  \A n \in DOMAIN b.events :
    LET row == b.events[n]
        head == HeadOf(SubSeq(b.events, 1, n - 1))
    IN /\ row.sequence = n /\ row.event.sequence = n
       /\ row.event.task = b.task /\ row.previous = head /\ row.event.previous = head
       /\ row.hash = row.event
       /\ row.event.kind = IF n = 1 THEN "task_opened" ELSE "proposal_checked"
       /\ n = 1 => row.event.data = b.task
ProposalsHold(b) ==
  \A i \in DOMAIN b.proposals :
    LET p == b.proposals[i] IN
    /\ p.version \in 2 .. Len(b.events)
    /\ p.text = p.raw /\ Meaning[p.text] = p.proposal
    /\ Binding(p) = b.events[p.version].event.data
VerifyBundle(b, trusted) ==
  /\ b.events # <<>> /\ ChainHolds(b)
  /\ Unlike([n \in 1 .. Len(b.events) - 1 |-> b.events[n + 1].event.data])
  /\ Len(b.events) = b.version /\ Len(b.events) = Len(b.proposals) + 1
  /\ Unlike(b.proposals) /\ ProposalsHold(b)
  /\ trusted = NoHead \/ HeadOf(b.events) = trusted

-----------------------------------------------------------------------------
(* The store and its clients *)

NoSubmission == [task |-> "none", key |-> "none", text |-> "none", expected |-> 0, answer |-> "none"]

\* Bundles exported before, of a task with two proposals: a copy of one is edited by
\* its holder, apart from the store.
Exported ==
  {LET p == Proposal(2, x, [proposal |-> Meaning[x], fresh |-> TRUE])
       q == Proposal(3, y, [proposal |-> Meaning[y], fresh |-> FALSE])
   IN Bundle(t, WithProposal(WithProposal(TaskOpened(t), t, k, p), t, k, q))
     : t \in ArenaTasks, k \in ArenaKeys, x \in Texts, y \in Texts}

ArenaInit ==
  /\ taskRow = [t \in ArenaTasks |-> NotCreated]
  /\ aged = {} /\ answers = {} /\ edits = 0
  /\ writer = [w \in Writers |-> NoSubmission]
  /\ kept = NoBundle /\ copy = NoBundle

CreatedTask == {t \in ArenaTasks : taskRow[t].version > 0}

CreateTask(t) ==
  /\ t \notin CreatedTask /\ t \notin aged
  /\ Cardinality(CreatedTask) < MaxArenaTasks
  /\ taskRow' = [taskRow EXCEPT ![t] = TaskOpened(t)]
  /\ UNCHANGED <<aged, writer, answers, kept, copy, edits>>

Age(t) == aged' = aged \union {t} /\ UNCHANGED <<taskRow, writer, answers, kept, copy, edits>>

\* A client submits against a version it has read, which may no longer be the last.
Ask(w) ==
  /\ writer[w].answer # "sent" /\ writer[w].answer # "lost"
  /\ \E t \in CreatedTask, k \in ArenaKeys, x \in Texts : \E v \in 1 .. taskRow[t].version :
       writer' = [writer EXCEPT ![w] = [task |-> t, key |-> k, text |-> x, expected |-> v, answer |-> "sent"]]
  /\ UNCHANGED <<taskRow, aged, answers, kept, copy, edits>>
Resend(w) ==
  /\ writer[w].answer = "lost"
  /\ writer' = [writer EXCEPT ![w].answer = "sent"]
  /\ UNCHANGED <<taskRow, aged, answers, kept, copy, edits>>

OfKey(t, k) == {i \in DOMAIN taskRow[t].proposals : taskRow[t].proposals[i].key = k}

Reply(w, answer, p) ==
  \/ /\ writer' = [writer EXCEPT ![w].answer = answer]
     /\ answers' = IF answer \notin {"new", "replayed"} THEN answers
                   ELSE answers \union {[task |-> writer[w].task, key |-> writer[w].key,
                                         raw |-> writer[w].text, version |-> p.version, report |-> p.report]}
  \/ writer' = [writer EXCEPT ![w].answer = "lost"] /\ UNCHANGED answers

\* The key is looked up first; only a new key must name the current version.
KeyFirst(r) == OfKey(r.task, r.key) # {}

Replay(w) ==
  LET r == writer[w] IN
  /\ r.answer = "sent" /\ KeyFirst(r)
  /\ \E i \in OfKey(r.task, r.key) :
       LET old == taskRow[r.task].proposals[i].listed IN
       Reply(w, IF old.raw = r.text THEN "replayed" ELSE "conflict", old)
  /\ UNCHANGED <<taskRow, aged, kept, copy, edits>>

\* Mutant: the version a request was written against is not compared.
RoomAnyVersion(r) == Len(taskRow[r.task].proposals) < MaxProposals
Room(r) == r.expected = taskRow[r.task].version /\ Len(taskRow[r.task].proposals) < MaxProposals

Refuse(w) ==
  LET r == writer[w] IN
  /\ r.answer = "sent" /\ ~KeyFirst(r) /\ ~Room(r)
  /\ Reply(w, IF r.expected # taskRow[r.task].version THEN "conflict" ELSE "full", NoSubmission)
  /\ UNCHANGED <<taskRow, aged, kept, copy, edits>>

SubmitProposal(w) ==
  LET r == writer[w]
      n == taskRow[r.task].version + 1
      p == Proposal(n, r.text, Report(r.task, r.text))
  IN
  /\ r.answer = "sent" /\ ~KeyFirst(r) /\ Room(r)
  /\ taskRow' = [taskRow EXCEPT ![r.task] = WithProposal(taskRow[r.task], r.task, r.key, p)]
  /\ Reply(w, "new", p)
  /\ UNCHANGED <<aged, kept, copy, edits>>

-----------------------------------------------------------------------------
(* Exported bundles and what may be done to a copy *)

\* The copy's holder knows the format: an output is replaced with its hashes, an event
\* is made to name it, the chain is computed anew, or the end is cut off.
EditOutput(i, x) ==
  [copy EXCEPT !.proposals[i] = Proposal(copy.proposals[i].version, x, copy.proposals[i].report)]
EditReport(i, x) == [copy EXCEPT !.proposals[i].report.proposal = Meaning[x]]
EditEvent(i) == [copy EXCEPT !.events[copy.proposals[i].version].event.data = Binding(copy.proposals[i])]
Relink(n) ==
  LET e == [copy.events[n].event EXCEPT !.previous = HeadOf(SubSeq(copy.events, 1, n - 1))] IN
  [copy EXCEPT !.events[n] = EventRow(e)]
CutEnd ==
  [task |-> copy.task, version |-> copy.version - 1,
   events |-> SubSeq(copy.events, 1, Len(copy.events) - 1),
   proposals |-> SubSeq(copy.proposals, 1, Len(copy.proposals) - 1)]

Import ==
  /\ kept = NoBundle /\ CreatedTask = {} /\ aged = {}
  /\ kept' \in Exported /\ copy' = kept'
  /\ UNCHANGED <<taskRow, aged, writer, answers, edits>>

EditBundle ==
  /\ edits < MaxEdits
  /\ edits' = edits + 1
  /\ \/ \E i \in DOMAIN copy.proposals :
          \/ \E x \in Texts : copy' \in {EditOutput(i, x), EditReport(i, x)}
          \/ copy.proposals[i].version \in DOMAIN copy.events /\ copy' = EditEvent(i)
     \/ \E n \in DOMAIN copy.events : copy' = Relink(n)
     \/ copy.proposals # <<>> /\ copy' = CutEnd
  /\ UNCHANGED <<taskRow, aged, writer, answers, kept>>

ArenaNext ==
  \/ /\ kept = NoBundle
     /\ \/ \E t \in ArenaTasks : CreateTask(t) \/ Age(t)
        \/ \E w \in Writers : Ask(w) \/ Resend(w) \/ Replay(w) \/ Refuse(w) \/ SubmitProposal(w)
  \/ Import \/ EditBundle

ArenaSpec == ArenaInit /\ [][ArenaNext]_arenaVars

-----------------------------------------------------------------------------
(* Properties *)

ArenaTypeOK ==
  /\ aged \subseteq ArenaTasks /\ edits \in 0 .. MaxEdits
  /\ \A t \in ArenaTasks : Len(taskRow[t].events) = taskRow[t].version
  /\ \A w \in Writers : writer[w].answer \in {"none", "sent", "lost", "new", "replayed", "conflict", "full"}
  /\ \A a \in answers : a.raw \in Texts /\ a.key \in ArenaKeys

\* A request that was stored is never refused when it is sent again, whatever was
\* submitted in between and however old the version it names.
RetryIsRecognised ==
  [][\A w \in Writers :
       writer[w].answer = "sent" /\ writer'[w].answer \in {"conflict", "full"}
         => ~\E i \in OfKey(writer[w].task, writer[w].key) :
               taskRow[writer[w].task].proposals[i].listed.raw = writer[w].text]_arenaVars

\* All answers given for one key agree, also on a report made before the snapshot aged.
OneAnswerPerKey == \A a, b \in answers : a.task = b.task /\ a.key = b.key => a = b

\* What a client writes it wrote knowing all that was there: proposals of one task
\* are numbered without a gap, and no two clients both build on one version.
NoLostUpdate ==
  [][\A t \in ArenaTasks : taskRow'[t] # taskRow[t] /\ t \in CreatedTask
       => \E w \in Writers : writer[w].task = t /\ writer[w].expected = taskRow[t].version]_arenaVars

\* Whatever a task went through, its bundle verifies.
BundlesVerify == \A t \in CreatedTask : VerifyBundle(Bundle(t, taskRow[t]), NoHead)

\* A copy that verifies against the head kept outside is the bundle that was exported.
CopyIsGenuine ==
  copy # NoBundle /\ VerifyBundle(copy, HeadOf(kept.events)) => copy = kept

\* What two clients submit, and submit again, is what one client after the other might
\* have submitted, and the bundle proves it: it always verifies, nothing else verifies
\* against its head, and no answer contradicts it.
SubmissionsAreSerial ==
  [](BundlesVerify /\ CopyIsGenuine /\ OneAnswerPerKey) /\ RetryIsRecognised /\ NoLostUpdate

=============================================================================
