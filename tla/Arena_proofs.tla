----------------------------- MODULE Arena_proofs -----------------------------
(***************************************************************************)
(* Theorems about the arena, for every set of agents, tasks and requests:  *)
(* the journal of submissions, the gateway for quotes, the planners that   *)
(* judge proposals, and the plans made from observations of the chain.     *)
(***************************************************************************)
EXTENDS ArenaJournal, ArenaGateway, PolicyPlans, ObservedPlans, TLAPS

-----------------------------------------------------------------------------
(* ArenaJournal: a row is a chain of events, the n-th of which names the    *)
(* one before it, and a proposal for each event but the first.              *)

IsSequence(s) == \E S : s \in Seq(S)
Before(events, n) == IF n = 1 THEN NoHead ELSE events[n - 1].hash
EventOf(t, n, data, previous) ==
  EventRow([sequence |-> n, task |-> t, kind |-> IF n = 1 THEN "task_opened" ELSE "proposal_checked",
            data |-> data, previous |-> previous])
EventInPlace(events, t, n) ==
  \E data : events[n] = EventOf(t, n, data, Before(events, n)) /\ (n = 1 => data = t)
ProposalBound(row, i) ==
  \E x \in Texts : \E report :
    /\ row.proposals[i].listed = Proposal(i + 1, x, report)
    /\ row.events[i + 1].event.data = Binding(Proposal(i + 1, x, report))

RowOK(t, row) ==
  /\ IsSequence(row.events) /\ IsSequence(row.proposals)
  /\ row.version = Len(row.events)
  /\ IF row.version = 0 THEN Len(row.proposals) = 0 ELSE Len(row.events) = Len(row.proposals) + 1
  /\ \A n \in 1 .. Len(row.events) : EventInPlace(row.events, t, n)
  /\ \A i \in 1 .. Len(row.proposals) : ProposalBound(row, i)
KeysApart(row) ==
  \A i, j \in 1 .. Len(row.proposals) : row.proposals[i].key = row.proposals[j].key => i = j

LEMMA Appends ==
  ASSUME NEW s, IsSequence(s), NEW x, NEW next, next = Append(s, x)
  PROVE  /\ IsSequence(next) /\ Len(s) \in Nat
         /\ Len(next) = Len(s) + 1 /\ next[Len(s) + 1] = x
         /\ \A i \in 1 .. Len(s) : next[i] = s[i]
  <1>1. PICK S : s \in Seq(S)  BY DEF IsSequence
  <1>2. s \in Seq(S \union {x}) /\ x \in S \union {x}  BY <1>1
  <1>3. Append(s, x) \in Seq(S \union {x})  BY <1>2
  <1> QED  BY <1>2, <1>3 DEF IsSequence

LEMMA Counts == ASSUME NEW s, IsSequence(s)  PROVE Len(s) \in Nat /\ DOMAIN s = 1 .. Len(s)
  BY DEF IsSequence

LEMMA LastCutOff ==
  ASSUME NEW S, NEW s \in Seq(S), Len(s) >= 1
  PROVE  LET most == SubSeq(s, 1, Len(s) - 1) IN
         /\ most \in Seq(S) /\ Len(most) = Len(s) - 1
         /\ \A i \in 1 .. Len(s) - 1 : most[i] = s[i]
  <1> DEFINE k == Len(s) - 1
  <1>1. k \in Nat /\ k <= Len(s) /\ 1 \in 1 .. Len(s) + 1  OBVIOUS
  <1> HIDE DEF k
  <1>2. \A i \in 1 .. k : i \in Nat /\ 1 + (i - 1) = i /\ i \in 1 .. Len(s) /\ s[i] \in S
    BY <1>1
  <1>3. Len(SubSeq(s, 1, k)) = k  BY <1>1
  <1>4. \A i \in 1 .. k : SubSeq(s, 1, k)[i] = s[i]  BY <1>1, <1>2, <1>3
  <1>5. SubSeq(s, 1, k) \in Seq(S)  BY <1>1, <1>2, <1>3, <1>4
  <1> QED  BY <1>3, <1>4, <1>5 DEF k

LEMMA LastIsHead ==
  ASSUME NEW s, IsSequence(s)
  PROVE  /\ HeadOf(s) = Before(s, Len(s) + 1)
         /\ \A n \in 1 .. Len(s) : HeadOf(SubSeq(s, 1, n - 1)) = Before(s, n)
  <1>1. PICK S : s \in Seq(S)  BY DEF IsSequence
  <1>2. HeadOf(s) = Before(s, Len(s) + 1)
    <2>1. Len(s) \in Nat /\ (s = <<>> <=> Len(s) = 0)  BY <1>1
    <2>2. (Len(s) + 1) - 1 = Len(s) /\ (Len(s) + 1 = 1 <=> Len(s) = 0)  BY <2>1
    <2> QED  BY <2>1, <2>2 DEF HeadOf, Before
  <1>3. ASSUME NEW n \in 1 .. Len(s)  PROVE HeadOf(SubSeq(s, 1, n - 1)) = Before(s, n)
    <2> DEFINE part == SubSeq(s, 1, n - 1)
    <2>1. n \in Nat /\ n >= 1 /\ n <= Len(s) /\ Len(s) \in Nat  BY <1>1
    <2>2. part \in Seq(S) /\ Len(part) = n - 1  BY <1>1, <2>1
    <2>3. n > 1 => part[n - 1] = s[n - 1]  BY <1>1, <2>1
    <2> HIDE DEF part
    <2>4. part = <<>> <=> n = 1  BY <2>1, <2>2
    <2>5. HeadOf(part) = Before(s, n)  BY <2>1, <2>2, <2>3, <2>4 DEF HeadOf, Before
    <2> QED  BY <2>5 DEF part
  <1> QED  BY <1>2, <1>3

\* A task that was opened is in order, and stays so with one more proposal.
LEMMA OpenedRow == ASSUME NEW t  PROVE RowOK(t, TaskOpened(t)) /\ KeysApart(TaskOpened(t))
  <1> DEFINE e == EventOf(t, 1, t, NoHead)
             row == TaskOpened(t)
  <1>1. row.version = 1 /\ row.proposals = <<>> /\ row.events = <<e>>
    BY DEF TaskOpened, WithEvent, HeadOf, EventOf
  <1>2. IsSequence(<<>>) /\ Len(<<>>) = 0  BY DEF IsSequence
  <1> HIDE DEF e, row
  <1>3. IsSequence(row.events) /\ Len(row.events) = 1 /\ row.events[1] = e
    <2>1. <<e>> \in Seq({e}) /\ Len(<<e>>) = 1 /\ <<e>>[1] = e  OBVIOUS
    <2>2. row.events = <<e>>  BY <1>1, Zenon
    <2>3. row.events \in Seq({e}) /\ Len(row.events) = 1 /\ row.events[1] = e
      BY <2>1, <2>2
    <2> QED  BY <2>3 DEF IsSequence
  <1>4. EventInPlace(row.events, t, 1)
    BY <1>3 DEF EventInPlace, Before, e
  <1>5. /\ row.version = Len(row.events) /\ row.version # 0 /\ Len(row.events) = Len(row.proposals) + 1
        /\ IsSequence(row.proposals)
    BY <1>1, <1>2, <1>3
  <1>6. \A n \in 1 .. Len(row.events) : EventInPlace(row.events, t, n)
    BY <1>3, <1>4
  <1>7. \A i \in 1 .. Len(row.proposals) : FALSE
    BY <1>1, <1>2
  <1> QED  BY <1>3, <1>5, <1>6, <1>7 DEF RowOK, KeysApart, row

GrewBy(old, new, q) ==
  /\ new.version = old.version + 1
  /\ Len(old.proposals) \in Nat /\ Len(new.proposals) = Len(old.proposals) + 1
  /\ \A i \in 1 .. Len(old.proposals) : new.proposals[i] = old.proposals[i]
  /\ new.proposals[Len(old.proposals) + 1] = q

LEMMA GrownRow ==
  ASSUME NEW t, NEW row, RowOK(t, row), row.version # 0, NEW x \in Texts, NEW report, NEW key,
         NEW next, next = WithProposal(row, t, key, Proposal(row.version + 1, x, report))
  PROVE  /\ RowOK(t, next)
         /\ GrewBy(row, next, [key |-> key, listed |-> Proposal(row.version + 1, x, report)])
  <1> DEFINE n == row.version + 1
             p == Proposal(n, x, report)
             e == EventOf(t, n, Binding(p), HeadOf(row.events))
             events == row.events
             proposals == row.proposals
  <1>1. /\ IsSequence(events) /\ IsSequence(proposals)
        /\ row.version = Len(events) /\ Len(events) = Len(proposals) + 1
    BY DEF RowOK
  <1>2. /\ Len(events) \in Nat /\ Len(proposals) \in Nat /\ n = Len(events) + 1 /\ n # 1
        /\ n = Len(proposals) + 2
    BY <1>1, Counts
  <1>3. /\ next.version = n /\ next.proposals = Append(proposals, [key |-> key, listed |-> p])
        /\ next.events = Append(events, e)
    <2>1. p.version = n  BY DEF Proposal
    <2>2. WithEvent(events, t, "proposal_checked", Binding(p)) = Append(events, e)
      BY <1>2 DEF WithEvent, EventOf
    <2> QED  BY <2>1, <2>2 DEF WithProposal
  <1> HIDE DEF e, p, events, proposals, n
  <1>4. /\ IsSequence(next.events) /\ Len(next.events) = n /\ next.events[n] = e
        /\ \A i \in 1 .. Len(events) : next.events[i] = events[i]
    BY <1>1, <1>2, <1>3, Appends
  <1>5. /\ IsSequence(next.proposals) /\ Len(next.proposals) = Len(proposals) + 1
        /\ next.proposals[Len(proposals) + 1] = [key |-> key, listed |-> p]
        /\ \A i \in 1 .. Len(proposals) : next.proposals[i] = proposals[i]
    BY <1>1, <1>2, <1>3, Appends
  <1>6. ASSUME NEW i \in 1 .. n  PROVE EventInPlace(next.events, t, i)
    <2>1. Before(next.events, i) = Before(events, i)
      <3>1. i # 1 => i - 1 \in 1 .. Len(events)  BY <1>2
      <3> QED  BY <1>4, <3>1 DEF Before
    <2>2. CASE i = n
      <3>1. HeadOf(events) = Before(events, n)  BY <1>1, <1>2, LastIsHead
      <3>2. e = EventOf(t, n, Binding(p), Before(events, n))  BY <3>1 DEF e, events
      <3>3. next.events[i] = EventOf(t, i, Binding(p), Before(next.events, i)) /\ i # 1
        BY <1>2, <1>4, <2>1, <2>2, <3>2
      <3> QED  BY <3>3 DEF EventInPlace
    <2>3. CASE i # n
      <3>1. i \in 1 .. Len(events)  BY <1>2, <2>3
      <3>2. EventInPlace(events, t, i)  BY <3>1 DEF RowOK, events
      <3>3. PICK data : events[i] = EventOf(t, i, data, Before(events, i)) /\ (i = 1 => data = t)
        BY <3>2 DEF EventInPlace
      <3>4. next.events[i] = EventOf(t, i, data, Before(next.events, i))
        BY <1>4, <2>1, <3>1, <3>3
      <3> QED  BY <3>3, <3>4 DEF EventInPlace
    <2> QED  BY <2>2, <2>3
  <1>7. ASSUME NEW i \in 1 .. Len(proposals) + 1  PROVE ProposalBound(next, i)
    <2>1. CASE i = Len(proposals) + 1
      <3>1. i + 1 = n  BY <1>2, <2>1
      <3>2. next.events[i + 1].event.data = Binding(p)  BY <1>4, <3>1 DEF e, EventOf, EventRow
      <3>3. next.proposals[i].listed = p  BY <1>5, <2>1
      <3> QED  BY <3>1, <3>2, <3>3 DEF ProposalBound, p
    <2>2. CASE i # Len(proposals) + 1
      <3>1. i \in 1 .. Len(proposals) /\ i + 1 \in 1 .. Len(events)  BY <1>2, <2>2
      <3>2. ProposalBound(row, i)  BY <3>1 DEF RowOK, proposals
      <3>3. next.proposals[i] = row.proposals[i] /\ next.events[i + 1] = row.events[i + 1]
        BY <1>4, <1>5, <3>1 DEF events, proposals
      <3> QED  BY <3>2, <3>3 DEF ProposalBound
    <2> QED  BY <2>1, <2>2
  <1>8. RowOK(t, next)
    <2>1. Len(next.events) = Len(next.proposals) + 1 /\ next.version # 0  BY <1>2, <1>3, <1>4, <1>5
    <2> QED  BY <1>3, <1>4, <1>5, <1>6, <1>7, <2>1 DEF RowOK
  <1> QED  BY <1>2, <1>3, <1>5, <1>8 DEF n, p, proposals, GrewBy

LEMMA RowVerifies ==
  ASSUME NEW t, NEW row, RowOK(t, row), row.version # 0
  PROVE  VerifyBundle(Bundle(t, row), NoHead)
  <1> DEFINE b == Bundle(t, row)
  <1>1. /\ b.task = t /\ b.version = row.version /\ b.events = row.events
        /\ b.proposals = [i \in DOMAIN row.proposals |-> row.proposals[i].listed]
    BY DEF Bundle
  <1> HIDE DEF b
  <1>2. /\ Len(row.events) \in Nat /\ Len(row.proposals) \in Nat
        /\ Len(row.events) = Len(row.proposals) + 1 /\ row.version = Len(row.events)
        /\ DOMAIN row.events = 1 .. Len(row.events) /\ DOMAIN row.proposals = 1 .. Len(row.proposals)
        /\ \E S : row.events \in Seq(S)
    BY DEF RowOK, IsSequence
  <1>3. b.events # <<>> /\ Len(b.events) = b.version  BY <1>1, <1>2
  <1>4. ChainHolds(b)
    <2> SUFFICES ASSUME NEW n \in 1 .. Len(row.events)
                 PROVE  LET e == row.events[n]
                            head == HeadOf(SubSeq(row.events, 1, n - 1))
                        IN /\ e.sequence = n /\ e.event.sequence = n
                           /\ e.event.task = t /\ e.previous = head /\ e.event.previous = head
                           /\ e.hash = e.event
                           /\ e.event.kind = IF n = 1 THEN "task_opened" ELSE "proposal_checked"
                           /\ n = 1 => e.event.data = t
      BY <1>1, <1>2 DEF ChainHolds
    <2>1. HeadOf(SubSeq(row.events, 1, n - 1)) = Before(row.events, n)
      BY LastIsHead DEF RowOK
    <2>2. PICK data : row.events[n] = EventOf(t, n, data, Before(row.events, n)) /\ (n = 1 => data = t)
      BY DEF RowOK, EventInPlace
    <2> QED  BY <2>1, <2>2 DEF EventOf, EventRow
  <1>5. \A i \in 1 .. Len(row.proposals) : \E x \in Texts : \E report :
          /\ b.proposals[i] = Proposal(i + 1, x, report)
          /\ b.events[i + 1].event.data = Binding(Proposal(i + 1, x, report))
    BY <1>1, <1>2 DEF RowOK, ProposalBound
  <1>6. Len(b.proposals) = Len(row.proposals) /\ DOMAIN b.proposals = 1 .. Len(row.proposals)
    BY <1>1, <1>2
  <1>7. Unlike([n \in 1 .. Len(b.events) - 1 |-> b.events[n + 1].event.data])
    <2>1. Len(b.events) - 1 = Len(row.proposals)  BY <1>1, <1>2
    <2>2. ASSUME NEW n \in 1 .. Len(row.proposals)  PROVE b.events[n + 1].event.data.id = n + 1
      <3>1. \A x, report : Binding(Proposal(n + 1, x, report)).id = n + 1  BY DEF Binding, Proposal
      <3> QED  BY <1>5, <3>1
    <2> DEFINE named == [n \in 1 .. Len(row.proposals) |-> b.events[n + 1].event.data]
    <2>3. DOMAIN named = 1 .. Len(row.proposals) /\ \A n \in 1 .. Len(row.proposals) : named[n].id = n + 1
      BY <2>2
    <2> HIDE DEF named
    <2>4. Unlike(named)
      <3> SUFFICES ASSUME NEW i \in 1 .. Len(row.proposals), NEW k \in 1 .. Len(row.proposals),
                          named[i].id = named[k].id
                   PROVE  i = k
        BY <2>3 DEF Unlike
      <3> QED  BY <2>3
    <2> QED  BY <2>1, <2>4 DEF named
  <1>8. Unlike(b.proposals)
    <2>1. ASSUME NEW i \in 1 .. Len(row.proposals)  PROVE b.proposals[i].id = i + 1
      <3>1. \A x, report : Proposal(i + 1, x, report).id = i + 1  BY DEF Proposal
      <3> QED  BY <1>5, <3>1
    <2> SUFFICES ASSUME NEW i \in 1 .. Len(row.proposals), NEW k \in 1 .. Len(row.proposals),
                        b.proposals[i].id = b.proposals[k].id
                 PROVE  i = k
      BY <1>6 DEF Unlike
    <2> QED  BY <2>1
  <1>9. ProposalsHold(b)
    <2> SUFFICES ASSUME NEW i \in 1 .. Len(row.proposals)
                 PROVE  LET p == b.proposals[i] IN
                        /\ p.version \in 2 .. Len(b.events)
                        /\ p.text = p.raw /\ Meaning[p.text] = p.proposal
                        /\ Binding(p) = b.events[p.version].event.data
      BY <1>6 DEF ProposalsHold
    <2>1. \E x \in Texts : \E report :
            /\ b.proposals[i] = Proposal(i + 1, x, report)
            /\ b.events[i + 1].event.data = Binding(Proposal(i + 1, x, report))
      BY <1>5
    <2>2. PICK x, report :
            /\ x \in Texts
            /\ b.proposals[i] = Proposal(i + 1, x, report)
            /\ b.events[i + 1].event.data = Binding(Proposal(i + 1, x, report))
      BY <2>1
    <2> DEFINE p == b.proposals[i]
    <2>3. p.version = i + 1 /\ p.text = x /\ p.raw = x /\ p.proposal = Meaning[x]
      BY <2>2 DEF Proposal
    <2>4. i + 1 \in 2 .. Len(b.events)  BY <1>1, <1>2
    <2>5. Binding(p) = b.events[i + 1].event.data  BY <2>2
    <2> QED  BY <2>3, <2>4, <2>5
  <1>10. Len(b.events) = Len(b.proposals) + 1  BY <1>1, <1>2, <1>6
  <1>11. VerifyBundle(b, NoHead)
    BY <1>3, <1>4, <1>7, <1>8, <1>9, <1>10 DEF VerifyBundle
  <1> QED  BY <1>11 DEF b

-----------------------------------------------------------------------------
(* The store, its clients and the answers they were given. *)

StoreInv ==
  /\ taskRow = [t \in ArenaTasks |-> taskRow[t]]
  /\ \A t \in ArenaTasks : RowOK(t, taskRow[t]) /\ KeysApart(taskRow[t])

Requests ==
  [task : ArenaTasks \union {"none"}, key : ArenaKeys \union {"none"}, text : Texts \union {"none"},
   expected : Nat, answer : {"none", "sent", "lost", "new", "replayed", "conflict", "full"}]

AskedOf(q) == q.answer \in {"sent", "lost"} => q.task \in CreatedTask /\ q.text \in Texts
ClientsInv == writer \in [Writers -> Requests] /\ \A w \in Writers : AskedOf(writer[w])

AnsweredBy(a, p) ==
  a = [task |-> a.task, key |-> p.key, raw |-> p.listed.raw, version |-> p.listed.version,
       report |-> p.listed.report]
AnswerStands(a, rows) ==
  /\ a.task \in ArenaTasks
  /\ \E i \in 1 .. Len(rows[a.task].proposals) : AnsweredBy(a, rows[a.task].proposals[i])
AnswersInv == \A a \in answers : AnswerStands(a, taskRow)

ArenaStoreInv == StoreInv /\ ClientsInv /\ AnswersInv

LEMMA StoreStarts == ArenaInit => ArenaStoreInv
  <1> SUFFICES ASSUME ArenaInit  PROVE ArenaStoreInv  OBVIOUS
  <1>1. ASSUME NEW t \in ArenaTasks  PROVE RowOK(t, taskRow[t]) /\ KeysApart(taskRow[t])
    <2> DEFINE row == NotCreated
    <2>1. taskRow[t] = row  BY DEF ArenaInit
    <2>2. row.version = 0 /\ row.proposals = <<>> /\ row.events = <<>>
      BY Zenon DEF NotCreated
    <2> HIDE DEF row
    <2>3. /\ IsSequence(row.proposals) /\ IsSequence(row.events)
          /\ Len(row.proposals) = 0 /\ Len(row.events) = 0
      BY <2>2 DEF IsSequence
    <2>4. RowOK(t, row) /\ KeysApart(row)  BY <2>2, <2>3 DEF RowOK, KeysApart
    <2> QED  BY <2>1, <2>4
  <1>2. StoreInv
    <2>1. taskRow = [t \in ArenaTasks |-> taskRow[t]]  BY Zenon DEF ArenaInit
    <2> QED  BY <1>1, <2>1 DEF StoreInv
  <1>3. ClientsInv
    <2>1. NoSubmission \in Requests  BY DEF NoSubmission, Requests
    <2>2. NoSubmission.answer = "none"  BY DEF NoSubmission
    <2>3. AskedOf(NoSubmission)  BY <2>2 DEF AskedOf
    <2> QED  BY <2>1, <2>3 DEF ArenaInit, ClientsInv
  <1>4. AnswersInv  BY DEF ArenaInit, AnswersInv
  <1> QED  BY <1>2, <1>3, <1>4 DEF ArenaStoreInv

\* A row only grows: what an answer names stays where it is.
RowGrows(old, new) ==
  /\ old.version > 0 => new.version > 0
  /\ \A i \in 1 .. Len(old.proposals) : i \in 1 .. Len(new.proposals) /\ new.proposals[i] = old.proposals[i]

LEMMA GrowthKeeps ==
  ASSUME \A t \in ArenaTasks : RowGrows(taskRow[t], taskRow'[t])
  PROVE  /\ CreatedTask \subseteq CreatedTask'
         /\ \A a : AnswerStands(a, taskRow) => AnswerStands(a, taskRow')
  <1>1. ASSUME NEW a, AnswerStands(a, taskRow)  PROVE AnswerStands(a, taskRow')
    <2>1. PICK i \in 1 .. Len(taskRow[a.task].proposals) : AnsweredBy(a, taskRow[a.task].proposals[i])
      BY <1>1 DEF AnswerStands
    <2>2. a.task \in ArenaTasks  BY <1>1 DEF AnswerStands
    <2>3. i \in 1 .. Len(taskRow'[a.task].proposals) /\ taskRow'[a.task].proposals[i] = taskRow[a.task].proposals[i]
      BY <2>2 DEF RowGrows
    <2> QED  BY <2>1, <2>2, <2>3 DEF AnswerStands
  <1>2. ASSUME NEW t \in CreatedTask  PROVE t \in CreatedTask'
    BY <1>2 DEF CreatedTask, RowGrows
  <1> QED  BY <1>1, <1>2

LEMMA RowsGrow ==
  ASSUME ClientsInv, AnswersInv, UNCHANGED <<writer, answers>>,
         \A t \in ArenaTasks : RowGrows(taskRow[t], taskRow'[t])
  PROVE  ClientsInv' /\ AnswersInv'
  <1>1. ClientsInv'
    <2>1. ASSUME NEW w \in Writers, AskedOf(writer[w])  PROVE AskedOf(writer[w])'
      BY <2>1, GrowthKeeps DEF AskedOf
    <2> QED  BY <2>1 DEF ClientsInv
  <1>2. AnswersInv'
    BY GrowthKeeps DEF AnswersInv
  <1> QED  BY <1>1, <1>2

\* What a client is told: nothing, or something the row of its task holds.
LEMMA RepliesKeep ==
  ASSUME ClientsInv, AnswersInv, \A t \in ArenaTasks : RowGrows(taskRow[t], taskRow'[t]),
         NEW w \in Writers, writer[w].task \in ArenaTasks, AskedOf(writer[w]), writer[w].answer = "sent",
         NEW answer \in {"new", "replayed", "conflict", "full"}, NEW p, Reply(w, answer, p),
         answer \in {"new", "replayed"} =>
           \E i \in 1 .. Len(taskRow'[writer[w].task].proposals) :
             LET q == taskRow'[writer[w].task].proposals[i] IN
             q.key = writer[w].key /\ q.listed = p /\ p.raw = writer[w].text
  PROVE  ClientsInv' /\ AnswersInv'
  <1>1. ClientsInv'
    <2>1. PICK said \in {"lost", answer} : writer' = [writer EXCEPT ![w].answer = said]
      BY DEF Reply
    <2>2. writer \in [Writers -> Requests]  BY DEF ClientsInv
    <2>3. [writer[w] EXCEPT !.answer = said] \in Requests  BY <2>2 DEF Requests
    <2>4. writer' = [writer EXCEPT ![w] = [writer[w] EXCEPT !.answer = said]]  BY <2>1
    <2>5. writer' \in [Writers -> Requests]  BY <2>2, <2>3, <2>4
    <2>6. ASSUME NEW v \in Writers  PROVE AskedOf(writer[v])'
      <3>1. CASE v # w
        <4>1. writer'[v] = writer[v] /\ AskedOf(writer[v])  BY <2>2, <2>4, <3>1 DEF ClientsInv
        <4> QED  BY <4>1, GrowthKeeps DEF AskedOf
      <3>2. CASE v = w
        <4>1. writer'[w].task = writer[w].task /\ writer'[w].text = writer[w].text
          BY <2>2, <2>4 DEF Requests
        <4>2. writer[w].task \in CreatedTask /\ writer[w].text \in Texts  BY DEF AskedOf
        <4> QED  BY <3>2, <4>1, <4>2, GrowthKeeps DEF AskedOf
      <3> QED  BY <3>1, <3>2
    <2> QED  BY <2>5, <2>6 DEF ClientsInv
  <1>2. AnswersInv'
    <2> SUFFICES ASSUME NEW a \in answers'  PROVE AnswerStands(a, taskRow')
      BY DEF AnswersInv
    <2>1. CASE a \in answers
      BY <2>1, GrowthKeeps DEF AnswersInv
    <2>2. CASE a \notin answers
      <3>1. /\ answer \in {"new", "replayed"}
            /\ a = [task |-> writer[w].task, key |-> writer[w].key,
                    raw |-> writer[w].text, version |-> p.version, report |-> p.report]
        BY <2>2 DEF Reply
      <3>2. PICK i \in 1 .. Len(taskRow'[writer[w].task].proposals) :
              /\ taskRow'[writer[w].task].proposals[i].key = writer[w].key
              /\ taskRow'[writer[w].task].proposals[i].listed = p /\ p.raw = writer[w].text
        BY <3>1
      <3>3. a.task = writer[w].task  BY <3>1
      <3>4. AnsweredBy(a, taskRow'[a.task].proposals[i])
        BY <3>1, <3>2, <3>3 DEF AnsweredBy
      <3> QED  BY <3>2, <3>3, <3>4 DEF AnswerStands
    <2> QED  BY <2>1, <2>2
  <1> QED  BY <1>1, <1>2

LEMMA RowChanges ==
  ASSUME StoreInv, NEW t \in ArenaTasks, NEW row, RowOK(t, row), KeysApart(row),
         RowGrows(taskRow[t], row), taskRow' = [taskRow EXCEPT ![t] = row]
  PROVE  /\ StoreInv' /\ taskRow'[t] = row
         /\ \A u \in ArenaTasks : RowGrows(taskRow[u], taskRow'[u])
  <1>1. taskRow' = [u \in ArenaTasks |-> IF u = t THEN row ELSE taskRow[u]]  BY DEF StoreInv
  <1>2. ASSUME NEW u \in ArenaTasks
        PROVE  RowOK(u, taskRow'[u]) /\ KeysApart(taskRow'[u]) /\ RowGrows(taskRow[u], taskRow'[u])
    <2>1. CASE u = t  BY <1>1, <2>1
    <2>2. CASE u # t
      <3>1. taskRow'[u] = taskRow[u]  BY <1>1, <2>2
      <3>2. RowOK(u, taskRow[u]) /\ KeysApart(taskRow[u])  BY DEF StoreInv
      <3> QED  BY <3>1, <3>2 DEF RowGrows
    <2> QED  BY <2>1, <2>2
  <1>3. taskRow' = [u \in ArenaTasks |-> taskRow'[u]]  BY <1>1
  <1> QED  BY <1>1, <1>2, <1>3 DEF StoreInv

LEMMA SameRows ==
  ASSUME taskRow' = taskRow  PROVE \A u \in ArenaTasks : RowGrows(taskRow[u], taskRow'[u])
  BY DEF RowGrows

LEMMA CreateKeeps == ASSUME ArenaStoreInv, NEW t \in ArenaTasks, CreateTask(t)  PROVE ArenaStoreInv'
  <1> DEFINE row == TaskOpened(t)
  <1>1. RowOK(t, row) /\ KeysApart(row)  BY OpenedRow
  <1>2. RowGrows(taskRow[t], row)
    <2>1. row.version = 1  BY DEF TaskOpened
    <2>2. RowOK(t, taskRow[t])  BY DEF ArenaStoreInv, StoreInv
    <2>3. taskRow[t].version = 0
      <3>1. ~(taskRow[t].version > 0)  BY DEF CreateTask, CreatedTask
      <3>2. taskRow[t].version \in Nat  BY <2>2, Counts DEF RowOK
      <3> QED  BY <3>1, <3>2
    <2>4. Len(taskRow[t].proposals) = 0  BY <2>2, <2>3 DEF RowOK
    <2> HIDE DEF row
    <2> QED  BY <2>1, <2>3, <2>4 DEF RowGrows
  <1>3. taskRow' = [taskRow EXCEPT ![t] = row] /\ UNCHANGED <<writer, answers>>  BY DEF CreateTask
  <1> HIDE DEF row
  <1>4. StoreInv' /\ \A u \in ArenaTasks : RowGrows(taskRow[u], taskRow'[u])
    BY <1>1, <1>2, <1>3, RowChanges DEF ArenaStoreInv
  <1> QED  BY <1>3, <1>4, RowsGrow DEF ArenaStoreInv

LEMMA AskKeeps == ASSUME ArenaStoreInv, NEW w \in Writers, Ask(w) \/ Resend(w)  PROVE ArenaStoreInv'
  <1>1. taskRow' = taskRow /\ answers' = answers  BY DEF Ask, Resend
  <1>2. StoreInv' /\ AnswersInv'  BY <1>1 DEF ArenaStoreInv, StoreInv, AnswersInv
  <1>3. writer \in [Writers -> Requests]  BY DEF ArenaStoreInv, ClientsInv
  <1>4. \E q \in Requests : AskedOf(q) /\ writer' = [writer EXCEPT ![w] = q]
    <2>1. CASE Ask(w)
      <3>0. PICK t \in CreatedTask, k \in ArenaKeys, x \in Texts : \E v \in 1 .. taskRow[t].version :
              writer' = [writer EXCEPT ![w] = [task |-> t, key |-> k, text |-> x, expected |-> v, answer |-> "sent"]]
        BY <2>1 DEF Ask
      <3>1. PICK v \in 1 .. taskRow[t].version :
              writer' = [writer EXCEPT ![w] = [task |-> t, key |-> k, text |-> x, expected |-> v, answer |-> "sent"]]
        BY <3>0
      <3> DEFINE q == [task |-> t, key |-> k, text |-> x, expected |-> v, answer |-> "sent"]
      <3>2. t \in ArenaTasks /\ v \in Nat
        <4>1. t \in ArenaTasks  BY DEF CreatedTask
        <4>2. taskRow[t].version \in Nat  BY <4>1, Counts DEF ArenaStoreInv, StoreInv, RowOK
        <4> QED  BY <4>1, <4>2
      <3>3. q \in Requests  BY <3>2 DEF Requests
      <3>4. q.task = t /\ q.text = x  OBVIOUS
      <3>5. AskedOf(q)  BY <3>4 DEF AskedOf
      <3> QED  BY <3>1, <3>3, <3>5
    <2>2. CASE Resend(w)
      <3> DEFINE q == [writer[w] EXCEPT !.answer = "sent"]
      <3>1. q \in Requests  BY <1>3 DEF Requests
      <3>2. q.task = writer[w].task /\ q.text = writer[w].text  BY <1>3 DEF Requests
      <3>3. writer[w].answer = "lost" /\ AskedOf(writer[w])
        BY <2>2 DEF Resend, ArenaStoreInv, ClientsInv
      <3>4. AskedOf(q)  BY <3>2, <3>3 DEF AskedOf
      <3>5. writer' = [writer EXCEPT ![w] = q]  BY <2>2 DEF Resend
      <3> QED  BY <3>1, <3>4, <3>5
    <2> QED  BY <2>1, <2>2
  <1>5. PICK q \in Requests : AskedOf(q) /\ writer' = [writer EXCEPT ![w] = q]  BY <1>4
  <1>6. CreatedTask' = CreatedTask  BY <1>1 DEF CreatedTask
  <1>7. ASSUME NEW v \in Writers  PROVE AskedOf(writer[v])'
    <2>1. AskedOf(writer'[v])  BY <1>3, <1>5 DEF ArenaStoreInv, ClientsInv
    <2> QED  BY <1>6, <2>1 DEF AskedOf
  <1>8. writer' \in [Writers -> Requests]  BY <1>3, <1>5
  <1> QED  BY <1>2, <1>7, <1>8 DEF ArenaStoreInv, ClientsInv

\* The request that is being answered.
LEMMA SentRequest ==
  ASSUME ArenaStoreInv, NEW w \in Writers, writer[w].answer = "sent"
  PROVE  LET r == writer[w] IN
         /\ AskedOf(r) /\ r.task \in ArenaTasks /\ r.text \in Texts
         /\ RowOK(r.task, taskRow[r.task]) /\ KeysApart(taskRow[r.task])
         /\ taskRow[r.task].version \in Nat /\ taskRow[r.task].version > 0
         /\ OfKey(r.task, r.key) = {i \in 1 .. Len(taskRow[r.task].proposals) :
                                      taskRow[r.task].proposals[i].key = r.key}
  <1> DEFINE r == writer[w]
  <1>1. AskedOf(r)  BY DEF ArenaStoreInv, ClientsInv
  <1>2. r.task \in CreatedTask /\ r.text \in Texts  BY <1>1 DEF AskedOf
  <1>3. r.task \in ArenaTasks /\ taskRow[r.task].version > 0  BY <1>2 DEF CreatedTask
  <1>4. RowOK(r.task, taskRow[r.task]) /\ KeysApart(taskRow[r.task])
    BY <1>3 DEF ArenaStoreInv, StoreInv
  <1>5. taskRow[r.task].version \in Nat  BY <1>4, Counts DEF RowOK
  <1>6. DOMAIN taskRow[r.task].proposals = 1 .. Len(taskRow[r.task].proposals)  BY <1>4, Counts DEF RowOK
  <1>7. OfKey(r.task, r.key) = {i \in 1 .. Len(taskRow[r.task].proposals) :
                                  taskRow[r.task].proposals[i].key = r.key}
    BY <1>6 DEF OfKey
  <1> QED  BY <1>1, <1>2, <1>3, <1>4, <1>5, <1>7

LEMMA ReplayKeeps == ASSUME ArenaStoreInv, NEW w \in Writers, Replay(w)  PROVE ArenaStoreInv'
  <1> DEFINE r == writer[w]
  <1>1. r.answer = "sent" /\ taskRow' = taskRow  BY DEF Replay
  <1>2. PICK i \in OfKey(r.task, r.key) :
          LET old == taskRow[r.task].proposals[i].listed IN
          Reply(w, IF old.raw = r.text THEN "replayed" ELSE "conflict", old)
    BY DEF Replay
  <1> DEFINE old == taskRow[r.task].proposals[i].listed
             answer == IF old.raw = r.text THEN "replayed" ELSE "conflict"
  <1>3. i \in 1 .. Len(taskRow[r.task].proposals) /\ taskRow[r.task].proposals[i].key = r.key
    BY <1>1, SentRequest
  <1>4. answer \in {"new", "replayed", "conflict", "full"} /\ Reply(w, answer, old)  BY <1>2
  <1>5. answer \in {"new", "replayed"} =>
          \E k \in 1 .. Len(taskRow'[r.task].proposals) :
            LET q == taskRow'[r.task].proposals[k] IN q.key = r.key /\ q.listed = old /\ old.raw = r.text
    BY <1>1, <1>3
  <1>6. r.task \in ArenaTasks /\ AskedOf(r)  BY <1>1, SentRequest
  <1> HIDE DEF old, answer
  <1>7. ClientsInv' /\ AnswersInv'
    BY <1>1, <1>4, <1>5, <1>6, SameRows, RepliesKeep DEF ArenaStoreInv
  <1>8. StoreInv'  BY <1>1 DEF ArenaStoreInv, StoreInv
  <1> QED  BY <1>7, <1>8 DEF ArenaStoreInv

LEMMA RefuseKeeps == ASSUME ArenaStoreInv, NEW w \in Writers, Refuse(w)  PROVE ArenaStoreInv'
  <1> DEFINE r == writer[w]
             answer == IF r.expected # taskRow[r.task].version THEN "conflict" ELSE "full"
  <1>1. r.answer = "sent" /\ taskRow' = taskRow /\ Reply(w, answer, NoSubmission)  BY DEF Refuse
  <1>2. answer \in {"new", "replayed", "conflict", "full"} /\ answer \notin {"new", "replayed"}
    OBVIOUS
  <1>3. r.task \in ArenaTasks /\ AskedOf(r)  BY <1>1, SentRequest
  <1> HIDE DEF answer
  <1>4. ClientsInv' /\ AnswersInv'
    BY <1>1, <1>2, <1>3, SameRows, RepliesKeep DEF ArenaStoreInv
  <1>5. StoreInv'  BY <1>1 DEF ArenaStoreInv, StoreInv
  <1> QED  BY <1>4, <1>5 DEF ArenaStoreInv

LEMMA SubmitKeeps == ASSUME ArenaStoreInv, NEW w \in Writers, SubmitProposal(w)  PROVE ArenaStoreInv'
  <1> DEFINE r == writer[w]
             old == taskRow[r.task]
             report == Report(r.task, r.text)
             p == Proposal(old.version + 1, r.text, report)
             row == WithProposal(old, r.task, r.key, p)
  <1>1. /\ r.answer = "sent" /\ ~KeyFirst(r)
        /\ taskRow' = [taskRow EXCEPT ![r.task] = row] /\ Reply(w, "new", p)
    BY DEF SubmitProposal
  <1>2. /\ r.task \in ArenaTasks /\ AskedOf(r) /\ r.text \in Texts
        /\ RowOK(r.task, old) /\ KeysApart(old) /\ old.version \in Nat /\ old.version # 0
    BY <1>1, SentRequest
  <1>3. \A i \in 1 .. Len(old.proposals) : old.proposals[i].key # r.key
    BY <1>1, SentRequest DEF KeyFirst
  <1> HIDE DEF report, old
  <1>4. /\ RowOK(r.task, row) /\ row.version = old.version + 1
        /\ Len(old.proposals) \in Nat /\ Len(row.proposals) = Len(old.proposals) + 1
        /\ \A i \in 1 .. Len(old.proposals) : row.proposals[i] = old.proposals[i]
        /\ row.proposals[Len(old.proposals) + 1] = [key |-> r.key, listed |-> p]
    <2>1. RowOK(r.task, row) /\ GrewBy(old, row, [key |-> r.key, listed |-> p])
      BY <1>2, GrownRow
    <2> QED  BY <2>1 DEF GrewBy
  <1>5. p.raw = r.text  BY DEF Proposal
  <1> HIDE DEF p, row
  <1>6. KeysApart(row)
    <2> SUFFICES ASSUME NEW i \in 1 .. Len(old.proposals) + 1, NEW j \in 1 .. Len(old.proposals) + 1,
                        row.proposals[i].key = row.proposals[j].key
                 PROVE  i = j
      BY <1>4 DEF KeysApart
    <2>1. row.proposals[Len(old.proposals) + 1].key = r.key  BY <1>4
    <2>2. i # Len(old.proposals) + 1 => i \in 1 .. Len(old.proposals)  BY <1>4
    <2>3. j # Len(old.proposals) + 1 => j \in 1 .. Len(old.proposals)  BY <1>4
    <2> QED  BY <1>2, <1>3, <1>4, <2>1, <2>2, <2>3 DEF KeysApart
  <1>7. RowGrows(old, row)
    BY <1>2, <1>4 DEF RowGrows
  <1>8. /\ StoreInv' /\ taskRow'[r.task] = row
        /\ \A u \in ArenaTasks : RowGrows(taskRow[u], taskRow'[u])
    BY <1>1, <1>2, <1>4, <1>6, <1>7, RowChanges DEF ArenaStoreInv, old
  <1>9. \E i \in 1 .. Len(taskRow'[r.task].proposals) :
          LET q == taskRow'[r.task].proposals[i] IN q.key = r.key /\ q.listed = p /\ p.raw = r.text
    <2>1. Len(old.proposals) + 1 \in 1 .. Len(row.proposals)  BY <1>4
    <2> QED  BY <1>4, <1>5, <1>8, <2>1
  <1>10. ClientsInv' /\ AnswersInv'
    BY <1>1, <1>2, <1>8, <1>9, RepliesKeep DEF ArenaStoreInv
  <1> QED  BY <1>8, <1>10 DEF ArenaStoreInv

LEMMA StoreGoesOn == ArenaStoreInv /\ [ArenaNext]_arenaVars => ArenaStoreInv'
  <1> SUFFICES ASSUME ArenaStoreInv, [ArenaNext]_arenaVars  PROVE ArenaStoreInv'  OBVIOUS
  <1>1. ASSUME UNCHANGED <<taskRow, writer, answers>>  PROVE ArenaStoreInv'
    BY <1>1, SameRows, RowsGrow DEF ArenaStoreInv, StoreInv
  <1>2. CASE UNCHANGED arenaVars  BY <1>1, <1>2 DEF arenaVars
  <1>3. CASE Import \/ EditBundle \/ \E t \in ArenaTasks : Age(t)
    BY <1>1, <1>3 DEF Import, EditBundle, Age
  <1>4. CASE \E t \in ArenaTasks : CreateTask(t)  BY <1>4, CreateKeeps
  <1>5. CASE \E w \in Writers : Ask(w) \/ Resend(w) \/ Replay(w) \/ Refuse(w) \/ SubmitProposal(w)
    BY <1>5, AskKeeps, ReplayKeeps, RefuseKeeps, SubmitKeeps
  <1> QED  BY <1>2, <1>3, <1>4, <1>5 DEF ArenaNext

-----------------------------------------------------------------------------
(* A copy keeps the format of the bundle it was made of, whatever is done   *)
(* to it: which proposals it lists, in which order, and what an event and a *)
(* proposal are.                                                            *)

EventShape(e) ==
  \E n, event, previous, hash : e = [sequence |-> n, event |-> event, previous |-> previous, hash |-> hash]
ProposalShape(p, n) ==
  \E text, raw, proposal, report :
    p = [id |-> n, text |-> text, raw |-> raw, proposal |-> proposal, report |-> report, version |-> n]

CopyShape(b, t) ==
  /\ \E version, events, proposals :
       b = [task |-> t, version |-> version, events |-> events, proposals |-> proposals]
  /\ IsSequence(b.events) /\ IsSequence(b.proposals)
  /\ Len(b.events) = Len(b.proposals) + 1
  /\ \A n \in 1 .. Len(b.events) : EventShape(b.events[n])
  /\ \A i \in 1 .. Len(b.proposals) : ProposalShape(b.proposals[i], i + 1)

CopyInv ==
  \/ kept = NoBundle /\ copy = NoBundle
  \/ \E t \in ArenaTasks : \E row :
       /\ RowOK(t, row) /\ row.version = 3 /\ kept = Bundle(t, row)
       /\ CopyShape(copy, t)

LEMMA ShapesKept ==
  /\ \A n, event, previous, hash :
       EventShape([sequence |-> n, event |-> event, previous |-> previous, hash |-> hash])
  /\ \A e, d : EventShape(e) => EventShape([e EXCEPT !.event.data = d])
  /\ \A e : EventShape(EventRow(e))
  /\ \A n, x, report : ProposalShape(Proposal(n, x, report), n)
  /\ \A p, n, y : ProposalShape(p, n) => p.version = n /\ ProposalShape([p EXCEPT !.report.proposal = y], n)
  <1>1. \A n, event, previous, hash :
          EventShape([sequence |-> n, event |-> event, previous |-> previous, hash |-> hash])
    BY Zenon DEF EventShape
  <1>2. ASSUME NEW e, NEW d, EventShape(e)  PROVE EventShape([e EXCEPT !.event.data = d])
    <2>1. PICK n, event, previous, hash :
            e = [sequence |-> n, event |-> event, previous |-> previous, hash |-> hash]
      BY <1>2 DEF EventShape
    <2>2. [e EXCEPT !.event.data = d] =
            [sequence |-> n, event |-> [event EXCEPT !.data = d], previous |-> previous, hash |-> hash]
      BY <2>1
    <2>3. \A f : f = [sequence |-> n, event |-> [event EXCEPT !.data = d], previous |-> previous, hash |-> hash]
                  => EventShape(f)
      BY <1>1, Zenon
    <2> QED  BY <2>2, <2>3
  <1>3. \A e : EventShape(EventRow(e))  BY <1>1 DEF EventRow
  <1>4. \A n, text, raw, proposal, report :
          ProposalShape([id |-> n, text |-> text, raw |-> raw, proposal |-> proposal,
                         report |-> report, version |-> n], n)
    BY Zenon DEF ProposalShape
  <1>5. \A n, x, report : ProposalShape(Proposal(n, x, report), n)  BY <1>4, Zenon DEF Proposal
  <1>6. ASSUME NEW p, NEW n, NEW y, ProposalShape(p, n)
        PROVE  p.version = n /\ ProposalShape([p EXCEPT !.report.proposal = y], n)
    <2>1. PICK text, raw, proposal, report :
            p = [id |-> n, text |-> text, raw |-> raw, proposal |-> proposal, report |-> report, version |-> n]
      BY <1>6 DEF ProposalShape
    <2>2. \A f, a, b, c, d :
            f = [id |-> n, text |-> a, raw |-> b, proposal |-> c, report |-> d, version |-> n]
              => ProposalShape(f, n)
      BY <1>4, Zenon
    <2>4. [p EXCEPT !.report.proposal = y] =
            [id |-> n, text |-> text, raw |-> raw, proposal |-> proposal,
             report |-> [report EXCEPT !.proposal = y], version |-> n]
      BY <2>1
    <2>5. p.version = n  BY <2>1
    <2> QED  BY <2>2, <2>4, <2>5
  <1> QED  BY <1>1, <1>2, <1>3, <1>5, <1>6

LEMMA BundleShaped ==
  ASSUME NEW t, NEW row, RowOK(t, row), row.version # 0
  PROVE  CopyShape(Bundle(t, row), t)
  <1> DEFINE b == Bundle(t, row)
  <1>1. /\ b = [task |-> t, version |-> row.version, events |-> row.events, proposals |-> b.proposals]
        /\ b.events = row.events
        /\ b.proposals = [i \in DOMAIN row.proposals |-> row.proposals[i].listed]
    BY DEF Bundle
  <1>2. /\ IsSequence(row.events) /\ IsSequence(row.proposals) /\ Len(row.events) = Len(row.proposals) + 1
        /\ DOMAIN row.proposals = 1 .. Len(row.proposals) /\ Len(row.proposals) \in Nat
    BY Counts DEF RowOK
  <1> HIDE DEF b
  <1>3. IsSequence(b.proposals) /\ Len(b.proposals) = Len(row.proposals)
    <2>1. b.proposals = [i \in 1 .. Len(row.proposals) |-> row.proposals[i].listed]  BY <1>1, <1>2
    <2>2. b.proposals \in Seq({row.proposals[i].listed : i \in 1 .. Len(row.proposals)})
      BY <1>2, <2>1
    <2>3. IsSequence(b.proposals)  BY <2>2 DEF IsSequence
    <2>4. DOMAIN b.proposals = 1 .. Len(row.proposals)  BY <2>1
    <2>5. Len(b.proposals) \in Nat /\ DOMAIN b.proposals = 1 .. Len(b.proposals)  BY <2>3, Counts
    <2> QED  BY <1>2, <2>3, <2>4, <2>5
  <1>4. ASSUME NEW n \in 1 .. Len(b.events)  PROVE EventShape(b.events[n])
    <2>1. \E data : row.events[n] = EventOf(t, n, data, Before(row.events, n))
      BY <1>1 DEF RowOK, EventInPlace
    <2>2. PICK data : row.events[n] = EventOf(t, n, data, Before(row.events, n))  BY <2>1
    <2>3. PICK e : b.events[n] = EventRow(e)  BY <1>1, <2>2 DEF EventOf
    <2> QED  BY <2>3, ShapesKept
  <1>5. ASSUME NEW i \in 1 .. Len(b.proposals)  PROVE ProposalShape(b.proposals[i], i + 1)
    <2>1. PICK x, report : x \in Texts /\ row.proposals[i].listed = Proposal(i + 1, x, report)
      BY <1>3 DEF RowOK, ProposalBound
    <2>2. b.proposals[i] = Proposal(i + 1, x, report)  BY <1>1, <1>2, <1>3, <2>1
    <2> QED  BY <2>2, ShapesKept
  <1>6. \E version, events, proposals :
          b = [task |-> t, version |-> version, events |-> events, proposals |-> proposals]
    <2> WITNESS row.version, row.events, b.proposals
    <2> QED  BY <1>1
  <1>7. CopyShape(b, t)
    BY <1>1, <1>2, <1>3, <1>4, <1>5, <1>6 DEF CopyShape
  <1> QED  BY <1>7 DEF b

LEMMA ExportedRows ==
  ASSUME NEW b \in Exported
  PROVE  \E t \in ArenaTasks : \E row : RowOK(t, row) /\ row.version = 3 /\ b = Bundle(t, row)
  <1>1. PICK t \in ArenaTasks, k \in ArenaKeys, x \in Texts, y \in Texts :
          b = LET p == Proposal(2, x, [proposal |-> Meaning[x], fresh |-> TRUE])
                  q == Proposal(3, y, [proposal |-> Meaning[y], fresh |-> FALSE])
              IN Bundle(t, WithProposal(WithProposal(TaskOpened(t), t, k, p), t, k, q))
    BY DEF Exported
  <1> DEFINE rx == [proposal |-> Meaning[x], fresh |-> TRUE]
             ry == [proposal |-> Meaning[y], fresh |-> FALSE]
             first == TaskOpened(t)
             second == WithProposal(first, t, k, Proposal(2, x, rx))
             third == WithProposal(second, t, k, Proposal(3, y, ry))
  <1>2. b = Bundle(t, third)  BY <1>1
  <1>3. RowOK(t, first) /\ first.version = 1  BY OpenedRow DEF TaskOpened
  <1> HIDE DEF rx, ry, first
  <1>4. RowOK(t, second) /\ second.version = 2
    <2>1. second = WithProposal(first, t, k, Proposal(first.version + 1, x, rx))  BY <1>3
    <2> HIDE DEF second
    <2>2. first.version # 0 /\ first.version + 1 = 2  BY <1>3
    <2>3. RowOK(t, second) /\ GrewBy(first, second, [key |-> k, listed |-> Proposal(first.version + 1, x, rx)])
      BY <1>3, <2>1, <2>2, GrownRow
    <2> QED  BY <2>2, <2>3 DEF GrewBy
  <1> HIDE DEF second
  <1>5. RowOK(t, third) /\ third.version = 3
    <2>1. third = WithProposal(second, t, k, Proposal(second.version + 1, y, ry))  BY <1>4
    <2> HIDE DEF third
    <2>2. second.version # 0 /\ second.version + 1 = 3  BY <1>4
    <2>3. RowOK(t, third) /\ GrewBy(second, third, [key |-> k, listed |-> Proposal(second.version + 1, y, ry)])
      BY <1>4, <2>1, <2>2, GrownRow
    <2> QED  BY <2>2, <2>3 DEF GrewBy
  <1> QED  BY <1>2, <1>5

\* Replacing a proposal or an event by one of the same shape, or cutting off the last
\* of both, keeps the format.
LEMMA EditsKeepShape ==
  ASSUME NEW t, NEW b, CopyShape(b, t)
  PROVE  /\ \A i \in 1 .. Len(b.proposals) : \A q :
              ProposalShape(q, i + 1) => CopyShape([b EXCEPT !.proposals[i] = q], t)
         /\ \A n \in 1 .. Len(b.events) : \A e : EventShape(e) => CopyShape([b EXCEPT !.events[n] = e], t)
         /\ b.proposals # <<>> =>
              CopyShape([task |-> b.task, version |-> b.version - 1,
                         events |-> SubSeq(b.events, 1, Len(b.events) - 1),
                         proposals |-> SubSeq(b.proposals, 1, Len(b.proposals) - 1)], t)
  <1>1. PICK version, events, proposals :
          b = [task |-> t, version |-> version, events |-> events, proposals |-> proposals]
    BY DEF CopyShape
  <1>2. PICK S, T : events \in Seq(S) /\ proposals \in Seq(T)
    BY <1>1 DEF CopyShape, IsSequence
  <1>3. /\ Len(events) \in Nat /\ Len(proposals) \in Nat /\ Len(events) = Len(proposals) + 1
        /\ \A n \in 1 .. Len(events) : EventShape(events[n])
        /\ \A i \in 1 .. Len(proposals) : ProposalShape(proposals[i], i + 1)
    BY <1>1, <1>2 DEF CopyShape
  <1>4. ASSUME NEW c, NEW v, NEW es, NEW ps,
               c = [task |-> t, version |-> v, events |-> es, proposals |-> ps],
               IsSequence(es), IsSequence(ps), Len(es) = Len(ps) + 1,
               \A n \in 1 .. Len(es) : EventShape(es[n]),
               \A i \in 1 .. Len(ps) : ProposalShape(ps[i], i + 1)
        PROVE  CopyShape(c, t)
    <2>1. \E version2, events2, proposals2 :
            c = [task |-> t, version |-> version2, events |-> events2, proposals |-> proposals2]
      BY <1>4, Zenon
    <2>2. c.events = es /\ c.proposals = ps  BY <1>4
    <2> QED  BY <1>4, <2>1, <2>2 DEF CopyShape
  <1>5. ASSUME NEW i \in 1 .. Len(proposals), NEW q, ProposalShape(q, i + 1)
        PROVE  CopyShape([b EXCEPT !.proposals[i] = q], t)
    <2> DEFINE ps == [proposals EXCEPT ![i] = q]
    <2>1. [b EXCEPT !.proposals[i] = q] =
            [task |-> t, version |-> version, events |-> events, proposals |-> ps]
      BY <1>1
    <2>2. ps \in Seq(T \union {q})  BY <1>2
    <2>3. Len(ps) = Len(proposals) /\ \A k \in 1 .. Len(proposals) : ps[k] = IF k = i THEN q ELSE proposals[k]
      BY <1>2
    <2> HIDE DEF ps
    <2>4. IsSequence(events) /\ IsSequence(ps)  BY <1>2, <2>2 DEF IsSequence
    <2>5. \A k \in 1 .. Len(ps) : ProposalShape(ps[k], k + 1)  BY <1>3, <1>5, <2>3
    <2> QED  BY <1>3, <1>4, <2>1, <2>3, <2>4, <2>5
  <1>6. ASSUME NEW n \in 1 .. Len(events), NEW e, EventShape(e)
        PROVE  CopyShape([b EXCEPT !.events[n] = e], t)
    <2> DEFINE es == [events EXCEPT ![n] = e]
    <2>1. [b EXCEPT !.events[n] = e] =
            [task |-> t, version |-> version, events |-> es, proposals |-> proposals]
      BY <1>1
    <2>2. es \in Seq(S \union {e})  BY <1>2
    <2>3. Len(es) = Len(events) /\ \A k \in 1 .. Len(events) : es[k] = IF k = n THEN e ELSE events[k]
      BY <1>2
    <2> HIDE DEF es
    <2>4. IsSequence(es) /\ IsSequence(proposals)  BY <1>2, <2>2 DEF IsSequence
    <2>5. \A k \in 1 .. Len(es) : EventShape(es[k])  BY <1>3, <1>6, <2>3
    <2> QED  BY <1>3, <1>4, <2>1, <2>3, <2>4, <2>5
  <1>7. ASSUME proposals # <<>>
        PROVE  CopyShape([task |-> b.task, version |-> b.version - 1,
                          events |-> SubSeq(b.events, 1, Len(b.events) - 1),
                          proposals |-> SubSeq(b.proposals, 1, Len(b.proposals) - 1)], t)
    <2> DEFINE es == SubSeq(events, 1, Len(events) - 1)
               ps == SubSeq(proposals, 1, Len(proposals) - 1)
    <2>1. Len(proposals) >= 1  BY <1>2, <1>3, <1>7
    <2>2. /\ es \in Seq(S) /\ Len(es) = Len(events) - 1
          /\ \A k \in 1 .. Len(events) - 1 : es[k] = events[k]
      BY <1>2, <1>3, <2>1, LastCutOff
    <2>3. /\ ps \in Seq(T) /\ Len(ps) = Len(proposals) - 1
          /\ \A k \in 1 .. Len(proposals) - 1 : ps[k] = proposals[k]
      BY <1>2, <1>3, <2>1, LastCutOff
    <2>4. b.task = t /\ b.version = version /\ b.events = events /\ b.proposals = proposals  BY <1>1
    <2> HIDE DEF es, ps
    <2>5. IsSequence(es) /\ IsSequence(ps) /\ Len(es) = Len(ps) + 1
      BY <1>3, <2>2, <2>3 DEF IsSequence
    <2>6. \A k \in 1 .. Len(es) : EventShape(es[k])  BY <1>3, <2>2
    <2>7. \A k \in 1 .. Len(ps) : ProposalShape(ps[k], k + 1)  BY <1>3, <2>3
    <2>8. CopyShape([task |-> t, version |-> version - 1, events |-> es, proposals |-> ps], t)
      BY <1>4, <2>5, <2>6, <2>7
    <2> QED  BY <2>4, <2>8 DEF es, ps
  <1>8. b.events = events /\ b.proposals = proposals  BY <1>1
  <1> QED  BY <1>5, <1>6, <1>7, <1>8

LEMMA CopyStarts == ArenaInit => CopyInv
  BY DEF ArenaInit, CopyInv

LEMMA CopyEdited == ASSUME CopyInv, EditBundle  PROVE CopyInv'
  <1>1. kept' = kept  BY DEF EditBundle
  <1>2. CASE kept = NoBundle /\ copy = NoBundle
    <2>1. copy.proposals = <<>> /\ copy.events = <<>>  BY <1>2, Zenon DEF NoBundle
    <2>2. DOMAIN copy.proposals = {} /\ DOMAIN copy.events = {}  BY <2>1
    <2> QED  BY <2>1, <2>2 DEF EditBundle
  <1>3. CASE \E t \in ArenaTasks : \E row :
               RowOK(t, row) /\ row.version = 3 /\ kept = Bundle(t, row) /\ CopyShape(copy, t)
    <2>1. PICK t, row :
            t \in ArenaTasks /\ RowOK(t, row) /\ row.version = 3 /\ kept = Bundle(t, row) /\ CopyShape(copy, t)
      BY <1>3
    <2>2. /\ DOMAIN copy.proposals = 1 .. Len(copy.proposals)
          /\ DOMAIN copy.events = 1 .. Len(copy.events)
      BY <2>1, Counts DEF CopyShape
    <2>3. ASSUME NEW i \in DOMAIN copy.proposals, NEW x \in Texts, copy' \in {EditOutput(i, x), EditReport(i, x)}
          PROVE  CopyShape(copy', t)
      <3>1. i \in 1 .. Len(copy.proposals) /\ ProposalShape(copy.proposals[i], i + 1)
        BY <2>1, <2>2 DEF CopyShape
      <3>2. CASE copy' = EditOutput(i, x)
        <4> DEFINE q == Proposal(copy.proposals[i].version, x, copy.proposals[i].report)
        <4>1. ProposalShape(q, i + 1)  BY <3>1, ShapesKept
        <4>2. copy' = [copy EXCEPT !.proposals[i] = q]  BY <3>2 DEF EditOutput
        <4> HIDE DEF q
        <4> QED  BY <2>1, <3>1, <4>1, <4>2, EditsKeepShape
      <3>3. CASE copy' = EditReport(i, x)
        <4> DEFINE q == [copy.proposals[i] EXCEPT !.report.proposal = Meaning[x]]
        <4>1. ProposalShape(q, i + 1)  BY <3>1, ShapesKept
        <4>2. copy' = [copy EXCEPT !.proposals[i] = q]  BY <3>3 DEF EditReport
        <4> HIDE DEF q
        <4> QED  BY <2>1, <3>1, <4>1, <4>2, EditsKeepShape
      <3> QED  BY <2>3, <3>2, <3>3
    <2>4. ASSUME NEW i \in DOMAIN copy.proposals, copy.proposals[i].version \in DOMAIN copy.events,
                 copy' = EditEvent(i)
          PROVE  CopyShape(copy', t)
      <3> DEFINE n == copy.proposals[i].version
                 e == [copy.events[n] EXCEPT !.event.data = Binding(copy.proposals[i])]
      <3>1. n \in 1 .. Len(copy.events) /\ EventShape(copy.events[n])
        BY <2>1, <2>2, <2>4 DEF CopyShape
      <3>2. EventShape(e)  BY <3>1, ShapesKept
      <3>3. copy' = [copy EXCEPT !.events[n] = e]  BY <2>4 DEF EditEvent
      <3> HIDE DEF e, n
      <3> QED  BY <2>1, <3>1, <3>2, <3>3, EditsKeepShape
    <2>5. ASSUME NEW n \in DOMAIN copy.events, copy' = Relink(n)  PROVE CopyShape(copy', t)
      <3> DEFINE e == EventRow([copy.events[n].event EXCEPT !.previous = HeadOf(SubSeq(copy.events, 1, n - 1))])
      <3>1. EventShape(e)  BY ShapesKept
      <3>2. copy' = [copy EXCEPT !.events[n] = e]  BY <2>5 DEF Relink
      <3> HIDE DEF e
      <3> QED  BY <2>1, <2>2, <3>1, <3>2, EditsKeepShape
    <2>6. ASSUME copy.proposals # <<>>, copy' = CutEnd  PROVE CopyShape(copy', t)
      BY <2>1, <2>6, EditsKeepShape DEF CutEnd
    <2>7. CopyShape(copy', t)
      BY <2>3, <2>4, <2>5, <2>6 DEF EditBundle
    <2> QED  BY <1>1, <2>1, <2>7 DEF CopyInv
  <1> QED  BY <1>2, <1>3 DEF CopyInv

LEMMA CopyGoesOn == CopyInv /\ [ArenaNext]_arenaVars => CopyInv'
  <1> SUFFICES ASSUME CopyInv, [ArenaNext]_arenaVars  PROVE CopyInv'  OBVIOUS
  <1>1. CASE UNCHANGED <<kept, copy>>  BY <1>1 DEF CopyInv
  <1>2. CASE EditBundle  BY <1>2, CopyEdited
  <1>3. CASE Import
    <2>1. kept' \in Exported /\ copy' = kept'  BY <1>3 DEF Import
    <2>2. PICK t, row : t \in ArenaTasks /\ RowOK(t, row) /\ row.version = 3 /\ kept' = Bundle(t, row)
      BY <2>1, ExportedRows
    <2>3. CopyShape(copy', t)  BY <2>1, <2>2, BundleShaped
    <2> QED  BY <2>2, <2>3 DEF CopyInv
  <1>4. \/ UNCHANGED <<kept, copy>> \/ EditBundle \/ Import
    BY DEF ArenaNext, arenaVars, CreateTask, Age, Ask, Resend, Replay, Refuse, SubmitProposal
  <1> QED  BY <1>1, <1>2, <1>3, <1>4

-----------------------------------------------------------------------------
(* A copy that verifies against the head kept outside.  The head names the  *)
(* last event, an event names the one before it, and an event names all of  *)
(* its proposal, so nothing of the copy can differ.                         *)

LEMMA EventsAgree ==
  ASSUME NEW t, NEW row, RowOK(t, row), NEW b, CopyShape(b, t), ChainHolds(b),
         NEW n \in 1 .. Len(b.events), n \in 1 .. Len(row.events),
         b.events[n].hash = row.events[n].hash
  PROVE  /\ b.events[n] = row.events[n]
         /\ n # 1 => b.events[n - 1].hash = row.events[n - 1].hash
  <1>1. PICK data : row.events[n] = EventOf(t, n, data, Before(row.events, n))
    BY DEF RowOK, EventInPlace
  <1> DEFINE e == row.events[n].event
  <1>2. /\ row.events[n] = [sequence |-> n, event |-> e, previous |-> e.previous, hash |-> e]
        /\ e.previous = Before(row.events, n)
    BY <1>1 DEF EventOf, EventRow
  <1> HIDE DEF e
  <1>3. PICK m, event, previous, hash :
          b.events[n] = [sequence |-> m, event |-> event, previous |-> previous, hash |-> hash]
    BY DEF CopyShape, EventShape
  <1>4. /\ n \in DOMAIN b.events
        /\ HeadOf(SubSeq(b.events, 1, n - 1)) = Before(b.events, n)
    BY Counts, LastIsHead DEF CopyShape
  <1>5. /\ b.events[n].sequence = n /\ b.events[n].hash = b.events[n].event
        /\ b.events[n].previous = b.events[n].event.previous
        /\ b.events[n].event.previous = Before(b.events, n)
    BY <1>4 DEF ChainHolds
  <1>6. hash = e /\ event = hash /\ m = n /\ previous = event.previous
    <2>1. /\ b.events[n].sequence = m /\ b.events[n].event = event
          /\ b.events[n].previous = previous /\ b.events[n].hash = hash
      BY <1>3
    <2>2. row.events[n].hash = e  BY <1>2
    <2> QED  BY <1>5, <2>1, <2>2
  <1>7. b.events[n] = row.events[n]  BY <1>2, <1>3, <1>6
  <1>8. Before(b.events, n) = Before(row.events, n)
    BY <1>2, <1>5, <1>7
  <1> QED  BY <1>7, <1>8 DEF Before

LEMMA CopiesAreGenuine == CopyInv => CopyIsGenuine
  <1> SUFFICES ASSUME CopyInv, copy # NoBundle, VerifyBundle(copy, HeadOf(kept.events))
               PROVE  copy = kept
    BY DEF CopyIsGenuine
  <1>1. PICK t, row :
          t \in ArenaTasks /\ RowOK(t, row) /\ row.version = 3 /\ kept = Bundle(t, row) /\ CopyShape(copy, t)
    BY DEF CopyInv
  <1>2. /\ kept.events = row.events /\ kept.task = t /\ kept.version = 3
        /\ kept = [task |-> t, version |-> 3, events |-> row.events, proposals |-> kept.proposals]
        /\ kept.proposals = [i \in DOMAIN row.proposals |-> row.proposals[i].listed]
    BY <1>1 DEF Bundle
  <1>3. /\ IsSequence(row.events) /\ IsSequence(row.proposals)
        /\ Len(row.events) = 3 /\ Len(row.proposals) \in Nat /\ 3 = Len(row.proposals) + 1
        /\ DOMAIN row.proposals = 1 .. Len(row.proposals)
    BY <1>1, Counts DEF RowOK
  <1>4. /\ IsSequence(copy.events) /\ IsSequence(copy.proposals)
        /\ Len(copy.events) \in Nat /\ Len(copy.proposals) \in Nat
        /\ Len(copy.events) = Len(copy.proposals) + 1
        /\ DOMAIN copy.events = 1 .. Len(copy.events) /\ DOMAIN copy.proposals = 1 .. Len(copy.proposals)
    BY <1>1, Counts DEF CopyShape
  <1>5. /\ ChainHolds(copy) /\ Len(copy.events) = copy.version /\ ProposalsHold(copy) /\ copy.events # <<>>
        /\ HeadOf(row.events) = NoHead \/ HeadOf(copy.events) = HeadOf(row.events)
    BY <1>2 DEF VerifyBundle
  <1>6. HeadOf(row.events) = row.events[3].hash /\ row.events[3].hash.sequence = 3
    <2>1. HeadOf(row.events) = Before(row.events, 3 + 1)  BY <1>3, LastIsHead
    <2>2. PICK data : row.events[3] = EventOf(t, 3, data, Before(row.events, 3))
      BY <1>1, <1>3 DEF RowOK, EventInPlace
    <2>3. row.events[3].hash.sequence = 3  BY <2>2 DEF EventOf, EventRow
    <2>4. Before(row.events, 3 + 1) = row.events[3].hash  BY DEF Before
    <2> QED  BY <2>1, <2>3, <2>4
  <1>7. HeadOf(copy.events) = row.events[3].hash
    <2>1. NoHead.sequence = 0  BY DEF NoHead
    <2> QED  BY <1>5, <1>6, <2>1
  <1> DEFINE n == Len(copy.events)
  <1>8. n \in 1 .. Len(copy.events) /\ copy.events[n].hash = row.events[3].hash
    <2>1. HeadOf(copy.events) = copy.events[n].hash  BY <1>5 DEF HeadOf
    <2>2. n >= 1  BY <1>4
    <2> QED  BY <1>4, <1>7, <2>1, <2>2
  <1>9. n = 3
    <2>1. copy.events[n].hash = copy.events[n].event /\ copy.events[n].event.sequence = n
      BY <1>4, <1>5, <1>8 DEF ChainHolds
    <2> QED  BY <1>6, <1>8, <2>1
  <1>10. /\ copy.events[3] = row.events[3] /\ copy.events[2].hash = row.events[2].hash
    <2>1. 3 \in 1 .. Len(copy.events) /\ 3 \in 1 .. Len(row.events) /\ 3 # 1 /\ 3 - 1 = 2
      BY <1>3, <1>9
    <2> QED  BY <1>1, <1>5, <1>8, <1>9, <2>1, EventsAgree
  <1>11. /\ copy.events[2] = row.events[2] /\ copy.events[1].hash = row.events[1].hash
    <2>1. 2 \in 1 .. Len(copy.events) /\ 2 \in 1 .. Len(row.events) /\ 2 # 1 /\ 2 - 1 = 1
      BY <1>3, <1>9
    <2> QED  BY <1>1, <1>5, <1>10, <2>1, EventsAgree
  <1>12. copy.events[1] = row.events[1]
    <2>1. 1 \in 1 .. Len(copy.events) /\ 1 \in 1 .. Len(row.events)
      BY <1>3, <1>9
    <2> QED  BY <1>1, <1>5, <1>11, <2>1, EventsAgree
  <1>13. copy.events = row.events
    <2>1. \A i \in 1 .. 3 : copy.events[i] = row.events[i]
      BY <1>10, <1>11, <1>12
    <2>2. Len(copy.events) = 3  BY <1>9
    <2>3. copy.events = [i \in 1 .. 3 |-> copy.events[i]]  BY <1>4, <2>2 DEF IsSequence
    <2>4. row.events = [i \in 1 .. 3 |-> row.events[i]]  BY <1>3 DEF IsSequence
    <2> QED  BY <2>1, <2>3, <2>4
  <1>14. copy.proposals = kept.proposals
    <2>1. Len(copy.proposals) = Len(row.proposals)
      <3>1. 3 = Len(copy.proposals) + 1  BY <1>4, <1>9
      <3> QED  BY <1>3, <1>4, <3>1
    <2>2. ASSUME NEW i \in 1 .. Len(row.proposals)  PROVE copy.proposals[i] = row.proposals[i].listed
      <3>1. PICK x, report :
              /\ x \in Texts
              /\ row.proposals[i].listed = Proposal(i + 1, x, report)
              /\ row.events[i + 1].event.data = Binding(Proposal(i + 1, x, report))
        BY <1>1 DEF RowOK, ProposalBound
      <3>2. PICK text, raw, proposal, said :
              copy.proposals[i] = [id |-> i + 1, text |-> text, raw |-> raw, proposal |-> proposal,
                                   report |-> said, version |-> i + 1]
        BY <1>1, <2>1 DEF CopyShape, ProposalShape
      <3>3. /\ copy.proposals[i].text = copy.proposals[i].raw
            /\ Binding(copy.proposals[i]) = copy.events[copy.proposals[i].version].event.data
        BY <1>4, <1>5, <2>1 DEF ProposalsHold
      <3>4. /\ copy.proposals[i].id = i + 1 /\ copy.proposals[i].text = text /\ copy.proposals[i].raw = raw
            /\ copy.proposals[i].proposal = proposal /\ copy.proposals[i].report = said
            /\ copy.proposals[i].version = i + 1
        BY <3>2
      <3>5. [id |-> i + 1, raw |-> raw, proposal |-> proposal, report |-> said] =
              [id |-> i + 1, raw |-> x, proposal |-> Meaning[x], report |-> report]
        <4>1. Binding(copy.proposals[i]) = [id |-> i + 1, raw |-> raw, proposal |-> proposal, report |-> said]
          BY <3>4 DEF Binding
        <4>2. Binding(Proposal(i + 1, x, report)) =
                [id |-> i + 1, raw |-> x, proposal |-> Meaning[x], report |-> report]
          BY DEF Binding, Proposal
        <4> QED  BY <1>13, <3>1, <3>3, <3>4, <4>1, <4>2
      <3>6. text = x /\ raw = x /\ proposal = Meaning[x] /\ said = report
        BY <3>3, <3>4, <3>5
      <3> QED  BY <3>1, <3>2, <3>6 DEF Proposal
    <2>3. kept.proposals = [i \in 1 .. Len(row.proposals) |-> row.proposals[i].listed]  BY <1>2, <1>3
    <2>4. copy.proposals = [i \in 1 .. Len(row.proposals) |-> copy.proposals[i]]
      BY <1>4, <2>1 DEF IsSequence
    <2> QED  BY <2>2, <2>3, <2>4
  <1>15. copy = [task |-> t, version |-> copy.version, events |-> copy.events, proposals |-> copy.proposals]
    BY <1>1 DEF CopyShape
  <1> QED  BY <1>2, <1>5, <1>9, <1>13, <1>14, <1>15

-----------------------------------------------------------------------------
(* What the store promises. *)

LEMMA StoreVerifies == ArenaStoreInv => BundlesVerify /\ OneAnswerPerKey
  <1> SUFFICES ASSUME ArenaStoreInv  PROVE BundlesVerify /\ OneAnswerPerKey  OBVIOUS
  <1>1. BundlesVerify
    <2> SUFFICES ASSUME NEW t \in CreatedTask  PROVE VerifyBundle(Bundle(t, taskRow[t]), NoHead)
      BY DEF BundlesVerify
    <2>1. t \in ArenaTasks /\ taskRow[t].version # 0  BY DEF CreatedTask
    <2>2. RowOK(t, taskRow[t])  BY <2>1 DEF ArenaStoreInv, StoreInv
    <2> QED  BY <2>1, <2>2, RowVerifies
  <1>2. OneAnswerPerKey
    <2> SUFFICES ASSUME NEW a \in answers, NEW b \in answers, a.task = b.task, a.key = b.key
                 PROVE  a = b
      BY DEF OneAnswerPerKey
    <2> DEFINE rows == taskRow[a.task].proposals
    <2>1. a.task \in ArenaTasks /\ AnswerStands(a, taskRow) /\ AnswerStands(b, taskRow)
      BY DEF ArenaStoreInv, AnswersInv, AnswerStands
    <2>2. PICK i \in 1 .. Len(rows) : AnsweredBy(a, rows[i])  BY <2>1 DEF AnswerStands
    <2>3. PICK j \in 1 .. Len(rows) : AnsweredBy(b, rows[j])  BY <2>1 DEF AnswerStands
    <2>4. rows[i].key = a.key /\ rows[j].key = b.key
      BY <2>2, <2>3 DEF AnsweredBy
    <2>5. i = j  BY <2>1, <2>4 DEF ArenaStoreInv, StoreInv, KeysApart
    <2> HIDE DEF rows
    <2> QED  BY <2>2, <2>3, <2>5 DEF AnsweredBy
  <1> QED  BY <1>1, <1>2

LEMMA RetriesKnown ==
  ASSUME ArenaStoreInv, [ArenaNext]_arenaVars, NEW w \in Writers,
         writer[w].answer = "sent", writer'[w].answer \in {"conflict", "full"},
         NEW i \in OfKey(writer[w].task, writer[w].key)
  PROVE  taskRow[writer[w].task].proposals[i].listed.raw # writer[w].text
  <1>1. writer \in [Writers -> Requests]  BY DEF ArenaStoreInv, ClientsInv
  <1>2. writer' # writer  OBVIOUS
  <1>3. PICK v \in Writers : Ask(v) \/ Resend(v) \/ Replay(v) \/ Refuse(v) \/ SubmitProposal(v)
    BY <1>2 DEF ArenaNext, arenaVars, CreateTask, Age, Import, EditBundle
  <1>4. v = w
    <2>1. \E q : writer' = [writer EXCEPT ![v] = q]
      <3>1. ASSUME NEW answer, NEW p, Reply(v, answer, p)  PROVE \E q : writer' = [writer EXCEPT ![v] = q]
        BY <3>1 DEF Reply
      <3> QED  BY <1>3, <3>1 DEF Ask, Resend, Replay, Refuse, SubmitProposal
    <2> QED  BY <1>1, <2>1
  <1>5. /\ OfKey(writer[w].task, writer[w].key) =
             {k \in 1 .. Len(taskRow[writer[w].task].proposals) :
                taskRow[writer[w].task].proposals[k].key = writer[w].key}
        /\ KeysApart(taskRow[writer[w].task])
    BY SentRequest
  <1>6. ~Ask(w) /\ ~Resend(w)  BY DEF Ask, Resend
  <1>7. ~Refuse(w) /\ ~SubmitProposal(w)  BY DEF Refuse, SubmitProposal, KeyFirst
  <1>8. Replay(w)  BY <1>3, <1>4, <1>6, <1>7
  <1>9. PICK k \in OfKey(writer[w].task, writer[w].key) :
          LET old == taskRow[writer[w].task].proposals[k].listed IN
          Reply(w, IF old.raw = writer[w].text THEN "replayed" ELSE "conflict", old)
    BY <1>8 DEF Replay
  <1>10. k = i  BY <1>5 DEF KeysApart
  <1> DEFINE old == taskRow[writer[w].task].proposals[i].listed
  <1>11. Reply(w, IF old.raw = writer[w].text THEN "replayed" ELSE "conflict", old)  BY <1>9, <1>10
  <1>12. ASSUME old.raw = writer[w].text  PROVE FALSE
    <2>1. Reply(w, "replayed", old)  BY <1>11, <1>12
    <2>2. writer'[w].answer \in {"replayed", "lost"}  BY <1>1, <2>1 DEF Reply, Requests
    <2> QED  BY <2>2
  <1> QED  BY <1>12

LEMMA UpdatesBuild ==
  ASSUME ArenaStoreInv, [ArenaNext]_arenaVars, NEW t \in ArenaTasks, taskRow'[t] # taskRow[t], t \in CreatedTask
  PROVE  \E w \in Writers : writer[w].task = t /\ writer[w].expected = taskRow[t].version
  <1>1. taskRow' # taskRow  OBVIOUS
  <1>2. ASSUME NEW u \in ArenaTasks, CreateTask(u)  PROVE FALSE
    <2>1. u # t /\ taskRow' = [taskRow EXCEPT ![u] = TaskOpened(u)]  BY <1>2 DEF CreateTask
    <2> QED  BY <2>1 DEF ArenaStoreInv, StoreInv
  <1>3. PICK w \in Writers : SubmitProposal(w)
    BY <1>1, <1>2 DEF ArenaNext, arenaVars, Age, Import, EditBundle, Ask, Resend, Replay, Refuse
  <1>4. /\ Room(writer[w])
        /\ taskRow' = [taskRow EXCEPT ![writer[w].task] =
             WithProposal(taskRow[writer[w].task], writer[w].task, writer[w].key,
                          Proposal(taskRow[writer[w].task].version + 1, writer[w].text,
                                   Report(writer[w].task, writer[w].text)))]
    BY <1>3 DEF SubmitProposal
  <1>5. writer[w].task = t  BY <1>4 DEF ArenaStoreInv, StoreInv
  <1> QED  BY <1>4, <1>5 DEF Room

\* Concurrent and repeated submissions (arena/store.py submit) are serial, and the
\* exported bundle proves it, for any clients, tasks, keys and bounds.
THEOREM SubmissionsAlwaysSerial == ArenaSpec => SubmissionsAreSerial
  <1>1. ArenaStoreInv /\ [ArenaNext]_arenaVars =>
          \A w \in Writers : writer[w].answer = "sent" /\ writer'[w].answer \in {"conflict", "full"}
            => ~\E i \in OfKey(writer[w].task, writer[w].key) :
                  taskRow[writer[w].task].proposals[i].listed.raw = writer[w].text
    BY RetriesKnown
  <1>2. ArenaStoreInv /\ [ArenaNext]_arenaVars =>
          \A t \in ArenaTasks : taskRow'[t] # taskRow[t] /\ t \in CreatedTask
            => \E w \in Writers : writer[w].task = t /\ writer[w].expected = taskRow[t].version
    BY UpdatesBuild
  <1> QED
    BY StoreStarts, StoreGoesOn, CopyStarts, CopyGoesOn, StoreVerifies, CopiesAreGenuine, <1>1, <1>2, PTL
    DEF ArenaSpec, SubmissionsAreSerial, RetryIsRecognised, NoLostUpdate

-----------------------------------------------------------------------------
(* ArenaGateway *)

\* A circuit that still counts n failures was written while its last failure was made,
\* by a call that had asked while the circuit before it counted; so the n-th failure
\* back is as old as n such lives at most.
Life == OpenFor + CallTimeout

AgesOK(ages) ==
  /\ ages \in [1 .. Threshold -> 0 .. Long]
  /\ \A m, n \in 1 .. Threshold : m <= n => ages[m] <= ages[n]
CircuitRecent(c, ages) ==
  /\ c \in [failures : 0 .. Threshold, left : 0 .. OpenFor]
  /\ c.left > 0 => \A n \in 1 .. c.failures : ages[n] + c.left <= OpenFor + (n - 1) * Life
CallShape == [stage : {"idle", "waiting", "calling"}, route : Routes \union {"none"},
              read : 0 .. Threshold - 1, left : 0 .. CallTimeout]
CallRecent(c, ages) == \A n \in 1 .. c.read : ages[n] + c.left <= n * Life

GatewayInv ==
  /\ DOMAIN circuit = Routes /\ call \in [Quotes -> CallShape] /\ DOMAIN failed = Routes
  /\ circuit = [r \in Routes |-> circuit[r]] /\ failed = [r \in Routes |-> failed[r]]
  /\ \A r \in Routes : AgesOK(failed[r]) /\ CircuitRecent(circuit[r], failed[r])
  /\ \A q \in Quotes : call[q].stage # "idle" =>
       call[q].route \in Routes /\ CallRecent(call[q], failed[call[q].route])

Times == OpenFor = 3 /\ CallTimeout = 2 /\ Threshold = 3 /\ Window = 13 /\ Long = 14 /\ Life = 5
LEMMA TimesHold == Times
  BY DEF Times, OpenFor, CallTimeout, Threshold, Window, Long, Life

Older(ages) == [n \in 1 .. Threshold |-> IF ages[n] = Long THEN Long ELSE ages[n] + 1]
Pushed(ages) == [n \in 1 .. Threshold |-> IF n = 1 THEN 0 ELSE ages[n - 1]]

LEMMA AgesGrow ==
  ASSUME NEW ages, AgesOK(ages)
  PROVE  AgesOK(Older(ages)) /\ \A n \in 1 .. Threshold : Older(ages)[n] <= ages[n] + 1
  BY TimesHold DEF Times, AgesOK, Older

LEMMA AgesPushed ==
  ASSUME NEW ages, AgesOK(ages)
  PROVE  /\ AgesOK(Pushed(ages)) /\ Pushed(ages)[1] = 0
         /\ \A n \in 1 .. Threshold : Pushed(ages)[n] <= ages[n]
         /\ \A n \in 1 .. Threshold - 1 : Pushed(ages)[n + 1] = ages[n]
  BY TimesHold DEF Times, AgesOK, Pushed

\* What counts goes on counting when other failures push it back, or time passes.
LEMMA CircuitKept ==
  ASSUME NEW ages, AgesOK(ages), NEW c, CircuitRecent(c, ages)
  PROVE  /\ CircuitRecent(c, Pushed(ages))
         /\ CircuitRecent([c EXCEPT !.left = IF @ = 0 THEN 0 ELSE @ - 1], Older(ages))
  <1> DEFINE d == [c EXCEPT !.left = IF @ = 0 THEN 0 ELSE @ - 1]
             l == IF c.left = 0 THEN 0 ELSE c.left - 1
  <1>1. c.failures \in 0 .. 3 /\ c.left \in 0 .. 3
    BY TimesHold DEF Times, CircuitRecent
  <1>2. \A n \in 1 .. 3 : ages[n] \in Nat /\ Pushed(ages)[n] \in Nat /\ Older(ages)[n] \in Nat
    BY AgesGrow, AgesPushed, TimesHold DEF Times, AgesOK
  <1>3. d \in [failures : {c.failures}, left : {l}]
    BY DEF CircuitRecent
  <1>4. d.failures = c.failures /\ d.left = l
    BY <1>3
  <1>5. l \in 0 .. 3 /\ (l > 0 => c.left > 0 /\ l = c.left - 1)
    BY <1>1
  <1>6. d \in [failures : 0 .. Threshold, left : 0 .. OpenFor]
    BY <1>1, <1>3, <1>5, TimesHold DEF Times
  <1> HIDE DEF d, l
  <1>7. ASSUME c.left > 0, NEW n \in 1 .. c.failures
        PROVE  Pushed(ages)[n] + c.left <= OpenFor + (n - 1) * Life
    <2>1. n \in 1 .. 3  BY <1>1
    <2>2. ages[n] + c.left <= 3 + (n - 1) * 5  BY <1>7, TimesHold DEF Times, CircuitRecent
    <2>3. Pushed(ages)[n] <= ages[n]  BY <2>1, AgesPushed, TimesHold DEF Times
    <2> QED  BY <1>1, <1>2, <2>1, <2>2, <2>3, TimesHold DEF Times
  <1>8. ASSUME l > 0, NEW n \in 1 .. c.failures
        PROVE  Older(ages)[n] + l <= OpenFor + (n - 1) * Life
    <2>1. n \in 1 .. 3  BY <1>1
    <2>2. ages[n] + c.left <= 3 + (n - 1) * 5  BY <1>5, <1>8, TimesHold DEF Times, CircuitRecent
    <2>3. Older(ages)[n] <= ages[n] + 1  BY <2>1, AgesGrow, TimesHold DEF Times
    <2> QED  BY <1>1, <1>2, <1>5, <1>8, <2>1, <2>2, <2>3, TimesHold DEF Times
  <1>9. CircuitRecent(c, Pushed(ages))
    BY <1>7 DEF CircuitRecent
  <1>10. CircuitRecent(d, Older(ages))
    BY <1>4, <1>6, <1>8 DEF CircuitRecent
  <1> QED  BY <1>9, <1>10 DEF d

LEMMA CallKept ==
  ASSUME NEW ages, AgesOK(ages), NEW c \in CallShape, CallRecent(c, ages)
  PROVE  /\ CallRecent(c, Pushed(ages))
         /\ c.left > 0 => /\ [c EXCEPT !.left = @ - 1] \in CallShape
                          /\ CallRecent([c EXCEPT !.left = @ - 1], Older(ages))
  <1> DEFINE d == [c EXCEPT !.left = @ - 1]
             l == c.left - 1
  <1>1. c.read \in 0 .. 2 /\ c.left \in 0 .. 2
    BY TimesHold DEF Times, CallShape
  <1>2. \A n \in 1 .. 3 : ages[n] \in Nat /\ Pushed(ages)[n] \in Nat /\ Older(ages)[n] \in Nat
    BY AgesGrow, AgesPushed, TimesHold DEF Times, AgesOK
  <1>3. d \in [stage : {c.stage}, route : {c.route}, read : {c.read}, left : {l}]
    BY DEF CallShape
  <1>4. d.read = c.read /\ d.left = l
    BY <1>3
  <1>5. c.left > 0 => d \in CallShape
    <2>1. c.stage \in {"idle", "waiting", "calling"} /\ c.route \in Routes \union {"none"}
      BY DEF CallShape
    <2> QED  BY <1>1, <1>3, <2>1, TimesHold DEF Times, CallShape
  <1>6. ASSUME NEW n \in 1 .. c.read
        PROVE  Pushed(ages)[n] + c.left <= n * Life /\ Older(ages)[n] + l <= n * Life
    <2>1. n \in 1 .. 3  BY <1>1
    <2>2. ages[n] + c.left <= n * 5  BY TimesHold DEF Times, CallRecent
    <2>3. Pushed(ages)[n] <= ages[n] /\ Older(ages)[n] <= ages[n] + 1
      BY <2>1, AgesGrow, AgesPushed, TimesHold DEF Times
    <2> QED  BY <1>1, <1>2, <2>1, <2>2, <2>3, TimesHold DEF Times
  <1> HIDE DEF d, l
  <1>7. CallRecent(c, Pushed(ages)) /\ CallRecent(d, Older(ages))
    BY <1>4, <1>6 DEF CallRecent
  <1> QED  BY <1>5, <1>7 DEF d

\* A failed call writes one more than it had read, and is itself the latest failure.
LEMMA FailureCounted ==
  ASSUME NEW ages, AgesOK(ages), NEW c \in CallShape, CallRecent(c, ages)
  PROVE  CircuitRecent([failures |-> c.read + 1, left |-> OpenFor], Pushed(ages))
  <1>1. c.read \in 0 .. 2 /\ c.left \in 0 .. 2
    BY TimesHold DEF Times, CallShape
  <1>2. ASSUME NEW n \in 1 .. c.read + 1
        PROVE  Pushed(ages)[n] + OpenFor <= OpenFor + (n - 1) * Life
    <2>1. CASE n = 1
      BY <2>1, AgesPushed, TimesHold DEF Times
    <2>2. CASE n # 1
      <3> DEFINE m == n - 1
      <3>1. m \in 1 .. c.read /\ m \in 1 .. 2 /\ n = m + 1  BY <1>1, <2>2
      <3> HIDE DEF m
      <3>2. ages[m] + c.left <= m * 5  BY <3>1, TimesHold DEF Times, CallRecent
      <3>3. Pushed(ages)[m + 1] = ages[m]  BY <3>1, AgesPushed, TimesHold DEF Times
      <3>4. ages[m] \in Nat  BY <3>1, TimesHold DEF Times, AgesOK
      <3> QED  BY <1>1, <3>1, <3>2, <3>3, <3>4, TimesHold DEF Times
    <2> QED  BY <2>1, <2>2
  <1>3. [failures |-> c.read + 1, left |-> OpenFor] \in [failures : 0 .. Threshold, left : 0 .. OpenFor]
    BY <1>1, TimesHold DEF Times
  <1> QED  BY <1>2, <1>3 DEF CircuitRecent

\* A call that asks reads failures that count, and fewer than would keep it from asking.
LEMMA AskReads ==
  ASSUME NEW r \in Routes, AgesOK(failed[r]), CircuitRecent(circuit[r], failed[r]), ~Open(r)
  PROVE  LET c == [stage |-> "waiting", route |-> r, read |-> Counted(r), left |-> CallTimeout]
         IN  c \in CallShape /\ CallRecent(c, failed[r])
  <1> DEFINE c == [stage |-> "waiting", route |-> r, read |-> Counted(r), left |-> CallTimeout]
  <1>1. circuit[r].failures \in 0 .. 3 /\ circuit[r].left \in 0 .. 3
    BY TimesHold DEF Times, CircuitRecent
  <1>2. Counted(r) \in 0 .. 2 /\ (Counted(r) # 0 => circuit[r].left > 0 /\ Counted(r) = circuit[r].failures)
    BY <1>1, TimesHold DEF Times, Open, Counted
  <1>3. c \in CallShape
    BY <1>2, TimesHold DEF Times, CallShape
  <1>4. ASSUME NEW n \in 1 .. Counted(r)  PROVE failed[r][n] + CallTimeout <= n * Life
    <2>1. n \in 1 .. 2 /\ circuit[r].left > 0 /\ n \in 1 .. circuit[r].failures
      BY <1>2
    <2>2. failed[r][n] + circuit[r].left <= 3 + (n - 1) * 5
      BY <2>1, TimesHold DEF Times, CircuitRecent
    <2>3. failed[r][n] \in Nat  BY <2>1, TimesHold DEF Times, AgesOK
    <2> QED  BY <1>1, <2>1, <2>2, <2>3, TimesHold DEF Times
  <1>5. CallRecent(c, failed[r])
    BY <1>4 DEF CallRecent
  <1> QED  BY <1>3, <1>5

\* Steps that leave circuits and failures alone.
LEMMA GatewayCallOnly ==
  ASSUME GatewayInv, UNCHANGED <<circuit, failed>>, call' \in [Quotes -> CallShape],
         \A q \in Quotes : call'[q].stage # "idle" =>
           call'[q].route \in Routes /\ CallRecent(call'[q], failed[call'[q].route])
  PROVE  GatewayInv'
  <1>1. circuit' = circuit /\ failed' = failed  OBVIOUS
  <1> QED  BY <1>1 DEF GatewayInv

LEMMA IdleCall == NoCall \in CallShape /\ NoCall.stage = "idle"
  BY TimesHold DEF Times, NoCall, CallShape

LEMMA GatewayAsks ==
  ASSUME GatewayInv, NEW q \in Quotes, NEW r \in Routes, AskQuote(q, r)
  PROVE  GatewayInv'
  <1> DEFINE c == [stage |-> "waiting", route |-> r, read |-> Counted(r), left |-> CallTimeout]
  <1>1. CASE Open(r)
    <2>1. call' = call /\ UNCHANGED <<circuit, failed>>  BY <1>1 DEF AskQuote
    <2> QED  BY <2>1, GatewayCallOnly DEF GatewayInv
  <1>2. CASE ~Open(r)
    <2>1. c \in CallShape /\ CallRecent(c, failed[r])
      BY <1>2, AskReads DEF GatewayInv
    <2>2. call' = [call EXCEPT ![q] = c] /\ UNCHANGED <<circuit, failed>>
      BY <1>2 DEF AskQuote
    <2>3. c.route = r  OBVIOUS
    <2> HIDE DEF c
    <2>4. call' \in [Quotes -> CallShape]
      BY <2>1, <2>2 DEF GatewayInv
    <2>5. \A p \in Quotes : call'[p] = IF p = q THEN c ELSE call[p]
      BY <2>2 DEF GatewayInv
    <2> QED  BY <2>1, <2>2, <2>3, <2>4, <2>5, GatewayCallOnly DEF GatewayInv
  <1> QED  BY <1>1, <1>2

LEMMA GatewayConnects ==
  ASSUME GatewayInv, NEW q \in Quotes, OpenConnection(q)
  PROVE  GatewayInv'
  <1> DEFINE c == [call[q] EXCEPT !.stage = "calling"]
  <1>1. call[q] \in CallShape /\ call[q].stage # "idle"
    BY DEF GatewayInv, OpenConnection
  <1>2. c \in CallShape /\ c.route = call[q].route /\ c.read = call[q].read /\ c.left = call[q].left
    BY <1>1 DEF CallShape
  <1>3. call' = [call EXCEPT ![q] = c] /\ UNCHANGED <<circuit, failed>>
    BY DEF OpenConnection
  <1> HIDE DEF c
  <1>4. call' \in [Quotes -> CallShape]
    BY <1>2, <1>3 DEF GatewayInv
  <1>5. \A p \in Quotes : call'[p] = IF p = q THEN c ELSE call[p]
    BY <1>3 DEF GatewayInv
  <1>6. c.route \in Routes /\ CallRecent(c, failed[c.route])
    BY <1>1, <1>2 DEF GatewayInv, CallRecent
  <1> QED  BY <1>3, <1>4, <1>5, <1>6, GatewayCallOnly DEF GatewayInv

\* The end of a call: it lets its circuit count nothing, or one failure more.
LEMMA GatewayEnds ==
  ASSUME GatewayInv, NEW q \in Quotes, call[q].stage # "idle", Ends(q),
         Succeeded(q) \/ FailedCall(q)
  PROVE  GatewayInv'
  <1> DEFINE r == call[q].route
             old == failed[r]
             new == failed'[r]
  <1>1. call[q] \in CallShape /\ r \in Routes /\ AgesOK(old) /\ CallRecent(call[q], old)
    BY DEF GatewayInv
  <1>2. call' \in [Quotes -> CallShape] /\ \A p \in Quotes : call'[p] = IF p = q THEN NoCall ELSE call[p]
    BY IdleCall DEF GatewayInv, Ends
  <1>3. /\ DOMAIN circuit' = Routes /\ DOMAIN failed' = Routes
        /\ circuit' = [s \in Routes |-> circuit'[s]] /\ failed' = [s \in Routes |-> failed'[s]]
    BY DEF GatewayInv, Succeeded, FailedCall
  <1>4. \A s \in Routes : s # r => circuit'[s] = circuit[s] /\ failed'[s] = failed[s]
    BY DEF GatewayInv, Succeeded, FailedCall
  <1>5. new = old \/ new = Pushed(old)
    BY <1>1 DEF GatewayInv, Succeeded, FailedCall, Pushed
  <1>6. AgesOK(new)
    BY <1>1, <1>5, AgesPushed
  <1>7. CircuitRecent(circuit'[r], new)
    <2>1. CASE Succeeded(q)
      <3>1. circuit'[r] = [failures |-> 0, left |-> 0]
        BY <1>1, <2>1 DEF GatewayInv, Succeeded
      <3> QED  BY <3>1, TimesHold DEF Times, CircuitRecent
    <2>2. CASE FailedCall(q)
      <3>1. circuit'[r] = [failures |-> call[q].read + 1, left |-> OpenFor]
        BY <1>1, <2>2 DEF GatewayInv, FailedCall
      <3>2. new = Pushed(old)
        BY <1>1, <2>2 DEF GatewayInv, FailedCall, Pushed
      <3> QED  BY <1>1, <3>1, <3>2, FailureCounted
    <2> QED  BY <2>1, <2>2
  <1> HIDE DEF r, old, new
  <1>8. ASSUME NEW p \in Quotes, call'[p].stage # "idle"
        PROVE  call'[p].route \in Routes /\ CallRecent(call'[p], failed'[call'[p].route])
    <2>1. call'[p] = call[p] /\ call[p].stage # "idle"
      BY <1>2, <1>8, IdleCall
    <2>2. call[p] \in CallShape /\ call[p].route \in Routes /\ CallRecent(call[p], failed[call[p].route])
      BY <2>1 DEF GatewayInv
    <2>3. CASE call[p].route = r
      <3>1. CallRecent(call[p], old)  BY <2>2, <2>3 DEF old
      <3>2. CallRecent(call[p], new)  BY <1>1, <1>5, <2>2, <3>1, CallKept
      <3> QED  BY <2>1, <2>2, <2>3, <3>2 DEF new
    <2>4. CASE call[p].route # r
      BY <1>4, <2>1, <2>2, <2>4
    <2> QED  BY <2>3, <2>4
  <1>9. ASSUME NEW s \in Routes  PROVE AgesOK(failed'[s]) /\ CircuitRecent(circuit'[s], failed'[s])
    <2>1. CASE s = r  BY <1>6, <1>7, <2>1 DEF new
    <2>2. CASE s # r  BY <1>4, <2>2 DEF GatewayInv
    <2> QED  BY <2>1, <2>2
  <1> QED  BY <1>2, <1>3, <1>8, <1>9 DEF GatewayInv

LEMMA GatewayTicks ==
  ASSUME GatewayInv, GatewayTick
  PROVE  GatewayInv'
  <1>1. /\ DOMAIN circuit' = Routes /\ DOMAIN failed' = Routes
        /\ circuit' = [s \in Routes |-> circuit'[s]] /\ failed' = [s \in Routes |-> failed'[s]]
    BY DEF GatewayTick
  <1>2. \A s \in Routes : failed'[s] = Older(failed[s])
    BY DEF GatewayTick, Older
  <1>3. ASSUME NEW s \in Routes  PROVE AgesOK(failed'[s]) /\ CircuitRecent(circuit'[s], failed'[s])
    <2>1. circuit'[s] = [circuit[s] EXCEPT !.left = IF @ = 0 THEN 0 ELSE @ - 1]
      BY DEF GatewayTick
    <2>2. AgesOK(failed[s]) /\ CircuitRecent(circuit[s], failed[s])
      BY DEF GatewayInv
    <2> QED  BY <1>2, <2>1, <2>2, AgesGrow, CircuitKept
  <1>4. ASSUME NEW p \in Quotes
        PROVE  /\ call'[p] \in CallShape
               /\ call'[p].stage # "idle" =>
                    call'[p].route \in Routes /\ CallRecent(call'[p], failed'[call'[p].route])
    <2>1. CASE call[p].stage = "idle"
      <3>1. call'[p] = NoCall  BY <2>1 DEF GatewayTick
      <3> QED  BY <3>1, IdleCall
    <2>2. CASE call[p].stage # "idle"
      <3>1. call'[p] = [call[p] EXCEPT !.left = @ - 1] /\ call[p].left > 0
        BY <2>2 DEF GatewayTick
      <3>2. call[p] \in CallShape /\ call[p].route \in Routes /\ CallRecent(call[p], failed[call[p].route])
        BY <2>2 DEF GatewayInv
      <3>3. AgesOK(failed[call[p].route])
        BY <3>2 DEF GatewayInv
      <3>4. call'[p] \in CallShape /\ CallRecent(call'[p], Older(failed[call[p].route]))
        BY <3>1, <3>2, <3>3, CallKept
      <3>5. call'[p].route = call[p].route
        BY <3>1, <3>2 DEF CallShape
      <3> QED  BY <1>2, <3>2, <3>4, <3>5
    <2> QED  BY <2>1, <2>2
  <1>5. call' \in [Quotes -> CallShape]
    BY <1>4 DEF GatewayTick
  <1> QED  BY <1>1, <1>3, <1>4, <1>5 DEF GatewayInv

\* A circuit keeps a provider from being asked only for failures it really had, and not
\* long ago (arena/providers.py, quote): for any routes and any number of requests that
\* overlap.
THEOREM CircuitsCountRecentFailures == GatewaySpec => []FailuresAreRecent
  <1>1. GatewayInit => GatewayInv
    <2> SUFFICES ASSUME GatewayInit  PROVE GatewayInv
      OBVIOUS
    <2>1. call \in [Quotes -> CallShape] /\ \A q \in Quotes : call[q].stage = "idle"
      BY IdleCall DEF GatewayInit
    <2>2. ASSUME NEW r \in Routes  PROVE AgesOK(failed[r]) /\ CircuitRecent(circuit[r], failed[r])
      <3>1. failed[r] = [n \in 1 .. Threshold |-> Long] /\ circuit[r] = [failures |-> 0, left |-> 0]
        BY DEF GatewayInit
      <3> QED  BY <3>1, TimesHold DEF Times, AgesOK, CircuitRecent
    <2> QED  BY <2>1, <2>2 DEF GatewayInit, GatewayInv
  <1>2. GatewayInv /\ [GatewayNext]_gatewayVars => GatewayInv'
    <2> SUFFICES ASSUME GatewayInv, [GatewayNext]_gatewayVars  PROVE GatewayInv'
      OBVIOUS
    <2>1. ASSUME NEW q \in Quotes, Respond(q)  PROVE GatewayInv'
      <3>1. call[q].stage # "idle" /\ Ends(q) /\ (Succeeded(q) \/ FailedCall(q))
        BY <2>1 DEF Respond
      <3> QED  BY <3>1, GatewayEnds
    <2>2. ASSUME NEW q \in Quotes, GivesOut(q)  PROVE GatewayInv'
      <3>1. call[q].stage # "idle" /\ Ends(q) /\ FailedCall(q)
        BY <2>2 DEF GivesOut
      <3> QED  BY <3>1, GatewayEnds
    <2>3. CASE UNCHANGED gatewayVars
      BY <2>3 DEF gatewayVars, GatewayInv
    <2> QED  BY <2>1, <2>2, <2>3, GatewayTicks, GatewayConnects, GatewayAsks DEF GatewayNext
  <1>3. GatewayInv => FailuresAreRecent
    <2> SUFFICES ASSUME GatewayInv, NEW r \in Routes, circuit[r].left > 0, NEW n \in 1 .. circuit[r].failures
                 PROVE  n <= Threshold /\ failed[r][n] <= Window
      BY DEF FailuresAreRecent
    <2>1. AgesOK(failed[r]) /\ CircuitRecent(circuit[r], failed[r])
      BY DEF GatewayInv
    <2>2. circuit[r].failures \in 0 .. 3 /\ circuit[r].left \in 0 .. 3
      BY <2>1, TimesHold DEF Times, CircuitRecent
    <2>3. n \in 1 .. 3  BY <2>2
    <2>4. failed[r][n] + circuit[r].left <= 3 + (n - 1) * 5
      BY <2>1, TimesHold DEF Times, CircuitRecent
    <2>5. failed[r][n] \in Nat  BY <2>1, <2>3, TimesHold DEF Times, AgesOK
    <2> QED  BY <2>2, <2>3, <2>4, <2>5, TimesHold DEF Times
  <1> QED  BY <1>1, <1>2, <1>3, PTL DEF GatewaySpec

-----------------------------------------------------------------------------
(* PolicyPlans: an accepted proposal settles its task.  Rounding is the      *)
(* point: a target range is rounded outwards to the spacing, a repayment up  *)
(* to whole cents, and what is read back must be as much as was asked.       *)

LEMMA RoundsDown ==
  ASSUME NEW a \in Int, NEW s \in Nat, s > 0
  PROVE  a \div s \in Int /\ (a \div s) * s \in Int /\ (a \div s) * s <= a /\ a < (a \div s) * s + s
  OBVIOUS
LEMMA RoundsUp ==
  ASSUME NEW a \in Int, NEW s \in Nat, s > 0
  PROVE  Up(a, s) \in Int /\ Up(a, s) * s \in Int /\ Up(a, s) * s >= a /\ Up(a, s) * s < a + s
  BY RoundsDown DEF Up

\* The target range reaches as far as asked, and no spacing further.
LEMMA TargetReaches ==
  ASSUME NEW i \in LPInput  PROVE Reaches(i, Target(i))
  <1>1. i.tick \in Int /\ i.spacing \in Nat /\ i.spacing > 0 /\ i.half \in Nat /\ TickBound \in Nat
    BY PolicyConstantsOK DEF LPInput
  <1> DEFINE s == i.spacing
             floor == Up(-TickBound, s) * s
             below == ((i.tick - i.half) \div s) * s
             ceiling == (TickBound \div s) * s
             above == Up(i.tick + i.half, s) * s
  <1>2. /\ floor \in Int /\ floor - s < -TickBound
        /\ above \in Int /\ above >= i.tick + i.half /\ above < i.tick + i.half + s
    <2>1. -TickBound \in Int /\ i.tick + i.half \in Int  BY <1>1
    <2>2. floor \in Int /\ floor < -TickBound + s  BY <1>1, <2>1, RoundsUp
    <2>3. above \in Int /\ above >= i.tick + i.half /\ above < i.tick + i.half + s
      BY <1>1, <2>1, RoundsUp
    <2> HIDE DEF floor, above
    <2> QED  BY <1>1, <2>2, <2>3
  <1>3. /\ below \in Int /\ below <= i.tick - i.half /\ below + s > i.tick - i.half
        /\ ceiling \in Int /\ ceiling + s > TickBound
    <2>1. TickBound \in Int /\ i.tick - i.half \in Int  BY <1>1
    <2>2. below \in Int /\ below <= i.tick - i.half /\ i.tick - i.half < below + s
      BY <1>1, <2>1, RoundsDown
    <2>3. ceiling \in Int /\ TickBound < ceiling + s  BY <1>1, <2>1, RoundsDown
    <2> HIDE DEF below, ceiling
    <2> QED  BY <1>1, <2>2, <2>3
  <1>4. Target(i).lower = Most(floor, below) /\ Target(i).upper = Least(ceiling, above)  BY DEF Target
  <1> HIDE DEF floor, below, ceiling, above
  <1>5. Target(i).lower = (IF floor < below THEN below ELSE floor)  BY <1>4 DEF Most
  <1>6. Target(i).upper = (IF ceiling < above THEN ceiling ELSE above)  BY <1>4 DEF Least
  <1> QED  BY <1>1, <1>2, <1>3, <1>5, <1>6 DEF Reaches

\* What is to be repaid restores the target, is needed, and is not a cent too much.
LEMMA HealthNumbers ==
  ASSUME NEW i \in HealthInput
  PROVE  /\ WeighedStress(i) \in Nat /\ StressedDebt(i) \in Nat /\ i.target \in {3, 4}
         /\ i.available \in Nat
  <1>1. MaxMoney \in Nat  BY PolicyConstantsOK
  <1>2. ASSUME NEW a \in {"c1", "c2"}
        PROVE  i.collateral[a].value * i.collateral[a].threshold * (WHOLE - i.collateral[a].drop) \in Nat
    <2>1. i.collateral[a] \in [value : {0, MaxMoney}, threshold : {1, WHOLE}, drop : 0 .. 1]
      BY DEF HealthInput
    <2>2. i.collateral[a].value \in Nat /\ i.collateral[a].threshold \in Nat /\ WHOLE - i.collateral[a].drop \in Nat
      BY <1>1, <2>1 DEF WHOLE
    <2> QED  BY <2>2
  <1>3. WeighedStress(i) \in Nat  BY <1>2 DEF WeighedStress
  <1>4. StressedDebt(i) \in Nat
    <2>1. i.debts["d1"] \in [value : 0 .. MaxMoney, rise : 0 .. 1]  BY DEF HealthInput
    <2>2. i.debts["d1"].value \in Nat /\ WHOLE + i.debts["d1"].rise \in Nat  BY <1>1, <2>1 DEF WHOLE
    <2> QED  BY <2>2 DEF StressedDebt
  <1> QED  BY <1>1, <1>3, <1>4 DEF HealthInput

LEMMA RequiredRestores ==
  ASSUME NEW i \in HealthInput
  PROVE  /\ Required(i) \in Nat /\ Required(i) <= StressedDebt(i)
         /\ Restores(i, 0) <=> Required(i) = 0
         /\ \A n \in Nat : n >= Required(i) /\ n <= StressedDebt(i) => Restores(i, n)
         /\ Required(i) > 0 => ~Restores(i, Required(i) - Cent)
  <1> DEFINE d == StressedDebt(i)
             w == WeighedStress(i)
             t == i.target
             up == Up(d * t - w, Cent * t)
  <1>1. d \in Nat /\ w \in Nat /\ t \in {3, 4}  BY HealthNumbers
  <1>2. Required(i) = Least(d, Most(0, up * Cent))  BY DEF Required
  <1>3. \A n : Restores(i, n) <=> (d - n) * t <= w  BY DEF Restores
  <1>4. /\ up \in Int
        /\ t = 3 => up * 6 >= d * 3 - w /\ up * 6 < d * 3 - w + 6
        /\ t = 4 => up * 8 >= d * 4 - w /\ up * 8 < d * 4 - w + 8
    <2>1. d * t - w \in Int /\ Cent * t \in Nat /\ Cent * t > 0
          /\ (t = 3 => Cent * t = 6 /\ d * t = d * 3) /\ (t = 4 => Cent * t = 8 /\ d * t = d * 4)
      BY <1>1 DEF Cent
    <2> HIDE DEF d, w, t
    <2>2. up \in Int /\ up * (Cent * t) >= d * t - w /\ up * (Cent * t) < d * t - w + Cent * t
      BY <2>1, RoundsUp
    <2> QED  BY <2>1, <2>2
  <1> HIDE DEF d, w, t, up
  <1>5. Required(i) = IF d < (IF 0 < up * 2 THEN up * 2 ELSE 0) THEN d ELSE (IF 0 < up * 2 THEN up * 2 ELSE 0)
    BY <1>1, <1>2, <1>4 DEF Least, Most, Cent
  <1>6. Required(i) \in Nat /\ Required(i) <= d  BY <1>1, <1>4, <1>5
  <1>7. Restores(i, 0) <=> Required(i) = 0
    <2>1. CASE t = 3  BY <1>1, <1>3, <1>4, <1>5, <2>1
    <2>2. CASE t = 4  BY <1>1, <1>3, <1>4, <1>5, <2>2
    <2> QED  BY <1>1, <2>1, <2>2
  <1>8. ASSUME NEW n \in Nat, n >= Required(i), n <= d  PROVE Restores(i, n)
    <2>1. CASE t = 3  BY <1>1, <1>3, <1>4, <1>5, <1>8, <2>1
    <2>2. CASE t = 4  BY <1>1, <1>3, <1>4, <1>5, <1>8, <2>2
    <2> QED  BY <1>1, <2>1, <2>2
  <1>9. ASSUME Required(i) > 0  PROVE ~Restores(i, Required(i) - Cent)
    <2>1. CASE t = 3  BY <1>1, <1>3, <1>4, <1>5, <1>9, <2>1 DEF Cent
    <2>2. CASE t = 4  BY <1>1, <1>3, <1>4, <1>5, <1>9, <2>2 DEF Cent
    <2> QED  BY <1>1, <2>1, <2>2
  <1> QED  BY <1>6, <1>7, <1>8, <1>9 DEF d

\* A grid rises from its lower price.
LEMMA PricesRise ==
  ASSUME NEW i \in GridInput
  PROVE  /\ Len(Prices(i)) = i.levels /\ Prices(i)[1] = i.low /\ i.stop < i.low
         /\ \A n \in 1 .. Len(Prices(i)) - 1 : Prices(i)[n + 1] > Prices(i)[n]
  <1>1. i.low = 1 /\ i.ratio \in {2, 3} /\ i.levels \in {2, 3} /\ i.stop = 0  BY DEF GridInput
  <1>2. Prices(i) = [n \in 1 .. i.levels |-> i.low * i.ratio ^ (n - 1)]  BY DEF Prices
  <1>3. Len(Prices(i)) = i.levels  BY <1>1, <1>2
  <1>4. 2^0 = 1 /\ 2^1 = 2 /\ 2^2 = 4 /\ 3^0 = 1 /\ 3^1 = 3 /\ 3^2 = 9  OBVIOUS
  <1>5. i.ratio ^ 0 = 1 /\ i.ratio ^ 1 > 1 /\ i.ratio ^ 2 > i.ratio ^ 1 /\ i.ratio ^ 1 \in Nat /\ i.ratio ^ 2 \in Nat
    <2>1. CASE i.ratio = 2
      <3>1. i.ratio ^ 0 = 1 /\ i.ratio ^ 1 = 2 /\ i.ratio ^ 2 = 4  BY <1>4, <2>1, Zenon
      <3> QED  BY <3>1
    <2>2. CASE i.ratio = 3
      <3>1. i.ratio ^ 0 = 1 /\ i.ratio ^ 1 = 3 /\ i.ratio ^ 2 = 9  BY <1>4, <2>2, Zenon
      <3> QED  BY <3>1
    <2> QED  BY <1>1, <2>1, <2>2
  <1>6. Prices(i)[1] = 1 /\ Prices(i)[2] = i.ratio ^ 1 /\ (i.levels = 3 => Prices(i)[3] = i.ratio ^ 2)
    <2>1. 1 \in 1 .. i.levels /\ 2 \in 1 .. i.levels /\ (i.levels = 3 => 3 \in 1 .. i.levels)  BY <1>1
    <2>2. i.ratio ^ (1 - 1) = 1 /\ i.ratio ^ (2 - 1) = i.ratio ^ 1 /\ i.ratio ^ (3 - 1) = i.ratio ^ 2
      <3>1. 1 - 1 = 0 /\ 2 - 1 = 1 /\ 3 - 1 = 2  OBVIOUS
      <3> QED  BY <1>5, <3>1, Zenon
    <2>3. Prices(i)[1] = i.low * i.ratio ^ (1 - 1)  BY <1>2, <2>1
    <2>4. Prices(i)[2] = i.low * i.ratio ^ (2 - 1)  BY <1>2, <2>1
    <2>5. i.levels = 3 => Prices(i)[3] = i.low * i.ratio ^ (3 - 1)  BY <1>2, <2>1
    <2> DEFINE one == i.ratio ^ 1
               two == i.ratio ^ 2
    <2>6. one \in Nat /\ two \in Nat /\ i.low = 1  BY <1>1, <1>5
    <2>7. Prices(i)[1] = 1 * 1  BY <2>2, <2>3, <2>6
    <2>8. Prices(i)[2] = 1 * one  BY <2>2, <2>4, <2>6
    <2>9. i.levels = 3 => Prices(i)[3] = 1 * two  BY <2>2, <2>5, <2>6
    <2> HIDE DEF one, two
    <2>10. Prices(i)[1] = 1 /\ Prices(i)[2] = one /\ (i.levels = 3 => Prices(i)[3] = two)
      BY <2>6, <2>7, <2>8, <2>9
    <2> QED  BY <2>10 DEF one, two
  <1>7. ASSUME NEW n \in 1 .. Len(Prices(i)) - 1  PROVE Prices(i)[n + 1] > Prices(i)[n]
    <2>1. n = 1 \/ (n = 2 /\ i.levels = 3)  BY <1>1, <1>3
    <2>2. CASE n = 1  BY <1>5, <1>6, <2>2
    <2>3. CASE n = 2 /\ i.levels = 3  BY <1>5, <1>6, <2>3
    <2> QED  BY <2>1, <2>2, <2>3
  <1> QED  BY <1>1, <1>3, <1>6, <1>7

LEMMA TaskKinds ==
  ASSUME NEW i \in Tasks
  PROVE  \/ i \in LPInput /\ i.category = "rebalancing"
         \/ i \in GridInput /\ i.category = "grid_trading"
         \/ i \in YieldInput /\ i.category = "yield_optimisation"
         \/ i \in HealthInput /\ i.category = "health_factor_monitoring"
  <1>1. i \in LPInput => i.category = "rebalancing"  BY DEF LPInput
  <1>2. i \in GridInput => i.category = "grid_trading"  BY DEF GridInput
  <1>3. i \in YieldInput => i.category = "yield_optimisation"  BY DEF YieldInput
  <1>4. i \in HealthInput => i.category = "health_factor_monitoring"  BY DEF HealthInput
  <1> QED  BY <1>1, <1>2, <1>3, <1>4 DEF Tasks

\* Of the venues that are good one is the best.
LEMMA BestIsGood ==
  ASSUME NEW i \in YieldInput, GoodVenues(i) # {}
  PROVE  BestVenue(i) \in GoodVenues(i)
  <1> DEFINE Better(v, w) == Edge(i, v) > Edge(i, w) \/ (Edge(i, v) = Edge(i, w) /\ (v = "v1" \/ w = "v2"))
  <1>1. GoodVenues(i) \subseteq {"v1", "v2"}  BY DEF GoodVenues, YieldInput
  <1>2. Edge(i, "v1") \in Int /\ Edge(i, "v2") \in Int
    <2>1. \A v \in {"v1", "v2"} : i.venues[v].gross \in Int /\ i.venues[v].cost \in Int
      BY PolicyConstantsOK DEF YieldInput, Costs
    <2>2. i.staying \in Int  BY DEF YieldInput
    <2> QED  BY <2>1, <2>2 DEF Edge
  <1>3. \A v \in {"v1", "v2"} : Better(v, v)
    <2>1. "v1" = "v1" /\ "v2" = "v2"  OBVIOUS
    <2> QED  BY <2>1
  <1>4. Better("v1", "v2") \/ Better("v2", "v1")
    <2>1. Edge(i, "v1") > Edge(i, "v2") \/ Edge(i, "v1") = Edge(i, "v2") \/ Edge(i, "v2") > Edge(i, "v1")
      BY <1>2
    <2> QED  BY <2>1
  <1> HIDE DEF Better
  <1>5. \E v \in GoodVenues(i) : \A w \in GoodVenues(i) : Better(v, w)
    <2>1. CASE GoodVenues(i) = {"v1", "v2"}  BY <1>3, <1>4, <2>1
    <2>2. CASE GoodVenues(i) # {"v1", "v2"}
      <3>1. PICK v \in GoodVenues(i) : TRUE  OBVIOUS
      <3>2. \A w \in GoodVenues(i) : w = v  BY <1>1, <2>2, <3>1
      <3> QED  BY <1>1, <1>3, <3>1, <3>2
    <2> QED  BY <2>1, <2>2
  <1> DEFINE best == CHOOSE v \in GoodVenues(i) : \A w \in GoodVenues(i) : Better(v, w)
  <1>6. best \in GoodVenues(i)  BY <1>5
  <1>7. BestVenue(i) = best  BY DEF BestVenue, Better
  <1> QED  BY <1>6, <1>7

\* One category at a time: what is accepted settles the task, and then so does the
\* reference, which is accepted too.
Fits(i, p, age) ==
  PolicyAccepted(i, p, age) =>
    p.bound /\ Fresh(age) /\ SettlesTask(i, p) /\ PolicyAccepted(i, ReferenceProposal(i), age)

LEMMA AcceptedAs ==
  ASSUME NEW i, NEW p, NEW age, PolicyAccepted(i, p, age)
  PROVE  /\ p.bound /\ Fresh(age)
         /\ \/ p.action = "hold" /\ HoldPasses(i)
            \/ i.category = "rebalancing" /\ p.action = "reset_lp_range" /\ ResetPasses(i, p.range)
            \/ i.category = "grid_trading" /\ p.action = "plan_grid" /\ GridPasses(i, p)
            \/ i.category = "yield_optimisation" /\ p.action = "route_yield" /\ RoutePasses(i, p.venue)
            \/ i.category = "health_factor_monitoring" /\ p.action = "repay" /\ RepayPasses(i, p.repay)
  BY DEF PolicyAccepted

LEMMA RebalancingFits ==
  ASSUME NEW i \in LPInput, i.category = "rebalancing", NEW p, NEW age  PROVE Fits(i, p, age)
  <1> SUFFICES ASSUME PolicyAccepted(i, p, age)
               PROVE  p.bound /\ Fresh(age) /\ SettlesTask(i, p) /\ PolicyAccepted(i, ReferenceProposal(i), age)
    BY DEF Fits
  <1>1. p.bound /\ Fresh(age)  BY AcceptedAs
  <1>2. ReferenceProposal(i) = IF ~InRange(i) /\ Affordable(i) THEN Reset(Target(i)) ELSE HoldPlan
    BY DEF ReferenceProposal
  <1>3. \/ p.action = "hold" /\ HoldPasses(i)
        \/ p.action = "reset_lp_range" /\ ResetPasses(i, p.range)
    BY AcceptedAs
  <1>4. CASE p.action = "hold" /\ HoldPasses(i)
    <2>1. InRange(i)  BY <1>4 DEF HoldPasses
    <2>2. SettlesTask(i, p)  BY <1>4, <2>1 DEF SettlesTask
    <2>3. ReferenceProposal(i) = HoldPlan  BY <1>2, <2>1
    <2>4. HoldPlan.action = "hold" /\ HoldPlan.bound  BY DEF HoldPlan
    <2>5. PolicyAccepted(i, HoldPlan, age)  BY <1>1, <1>4, <2>4 DEF PolicyAccepted
    <2> QED  BY <1>1, <2>2, <2>3, <2>5
  <1>5. CASE p.action = "reset_lp_range" /\ ResetPasses(i, p.range)
    <2>1. p.range = Target(i) /\ ~InRange(i) /\ Affordable(i) /\ Around(i, p.range)
      BY <1>5 DEF ResetPasses
    <2>2. Reaches(i, p.range)  BY <2>1, TargetReaches
    <2>3. SettlesTask(i, p)  BY <1>5, <2>1, <2>2 DEF SettlesTask
    <2>4. ReferenceProposal(i) = Reset(Target(i))  BY <1>2, <2>1
    <2>5. LET q == Reset(Target(i)) IN q.action = "reset_lp_range" /\ q.bound /\ q.range = Target(i)
      BY DEF Reset
    <2>6. PolicyAccepted(i, Reset(Target(i)), age)  BY <1>1, <1>5, <2>1, <2>5 DEF PolicyAccepted
    <2> QED  BY <1>1, <2>3, <2>4, <2>6
  <1> QED  BY <1>3, <1>4, <1>5

LEMMA GridFits ==
  ASSUME NEW i \in GridInput, i.category = "grid_trading", NEW p, NEW age  PROVE Fits(i, p, age)
  <1> SUFFICES ASSUME PolicyAccepted(i, p, age)
               PROVE  p.bound /\ Fresh(age) /\ SettlesTask(i, p) /\ PolicyAccepted(i, ReferenceProposal(i), age)
    BY DEF Fits
  <1> DEFINE Pays == CycleNet(i) > 0 /\ CostWithin(i) /\ i.slippage <= CostCap
  <1>1. p.bound /\ Fresh(age)  BY AcceptedAs
  <1>2. ReferenceProposal(i) = IF Pays THEN Grid(Prices(i), i.stop) ELSE HoldPlan
    BY DEF ReferenceProposal
  <1>3. \A q : GridPasses(i, q) <=> Len(q.prices) = i.levels /\ q.prices = Prices(i) /\ q.stop = i.stop /\ Pays
    BY DEF GridPasses
  <1> HIDE DEF Pays
  <1>4. LET q == Grid(Prices(i), i.stop) IN
          q.action = "plan_grid" /\ q.bound /\ q.prices = Prices(i) /\ q.stop = i.stop
    BY DEF Grid
  <1>5. HoldPlan.action = "hold" /\ HoldPlan.bound  BY DEF HoldPlan
  <1>6. \/ p.action = "hold" /\ HoldPasses(i)
        \/ p.action = "plan_grid" /\ GridPasses(i, p)
    BY AcceptedAs
  <1>7. CASE p.action = "hold" /\ HoldPasses(i)
    <2>1. ~Pays  BY <1>2, <1>4, <1>7 DEF HoldPasses
    <2>2. ASSUME NEW q \in Others(i), q # HoldPlan  PROVE ~PolicyAccepted(i, q, 0)
      <3>1. /\ q # HoldPlan
            /\ \/ q = [ReferenceProposal(i) EXCEPT !.bound = FALSE]
               \/ q \in {Grid(Prices(i), i.stop), Grid(Tail(Prices(i)), i.stop), Grid(Prices(i), i.stop + 1)}
        BY <2>2 DEF Others
      <3>2. ReferenceProposal(i) = HoldPlan  BY <1>2, <2>1
      <3>3. CASE q = [ReferenceProposal(i) EXCEPT !.bound = FALSE]
        <4>1. ~q.bound  BY <3>2, <3>3 DEF HoldPlan
        <4> QED  BY <4>1 DEF PolicyAccepted
      <3>4. CASE q \in {Grid(Prices(i), i.stop), Grid(Tail(Prices(i)), i.stop), Grid(Prices(i), i.stop + 1)}
        <4>1. q.action = "plan_grid"  BY <3>4 DEF Grid
        <4>2. ~GridPasses(i, q)  BY <1>3, <2>1
        <4> QED  BY <4>1, <4>2 DEF PolicyAccepted
      <3> QED  BY <3>1, <3>3, <3>4
    <2>3. SettlesTask(i, p)  BY <1>7, <2>2 DEF SettlesTask
    <2>4. PolicyAccepted(i, HoldPlan, age)  BY <1>1, <1>5, <1>7 DEF PolicyAccepted
    <2> QED  BY <1>1, <1>2, <2>1, <2>3, <2>4
  <1>8. CASE p.action = "plan_grid" /\ GridPasses(i, p)
    <2>1. p.prices = Prices(i) /\ p.stop = i.stop /\ Pays  BY <1>3, <1>8
    <2>2. SettlesTask(i, p)
      <3>1. /\ \A n \in 1 .. Len(p.prices) - 1 : p.prices[n + 1] > p.prices[n]
            /\ p.prices[1] = i.low /\ p.stop < i.low
        BY <2>1, PricesRise
      <3> QED  BY <1>8, <3>1 DEF SettlesTask
    <2>3. LET q == Grid(Prices(i), i.stop) IN GridPasses(i, q)  BY <1>3, <1>4, <2>1, PricesRise
    <2>4. PolicyAccepted(i, Grid(Prices(i), i.stop), age)  BY <1>1, <1>4, <2>3 DEF PolicyAccepted
    <2> QED  BY <1>1, <1>2, <2>1, <2>2, <2>4
  <1> QED  BY <1>6, <1>7, <1>8

LEMMA YieldFits ==
  ASSUME NEW i \in YieldInput, i.category = "yield_optimisation", NEW p, NEW age  PROVE Fits(i, p, age)
  <1> SUFFICES ASSUME PolicyAccepted(i, p, age)
               PROVE  p.bound /\ Fresh(age) /\ SettlesTask(i, p) /\ PolicyAccepted(i, ReferenceProposal(i), age)
    BY DEF Fits
  <1>1. p.bound /\ Fresh(age)  BY AcceptedAs
  <1>2. ReferenceProposal(i) = IF GoodVenues(i) # {} THEN Route(BestVenue(i)) ELSE HoldPlan
    BY DEF ReferenceProposal
  <1>3. \A v : RoutePasses(i, v) <=> v \in GoodVenues(i)  BY DEF RoutePasses, GoodVenues
  <1>4. \A v : Route(v).action = "route_yield" /\ Route(v).bound /\ Route(v).venue = v  BY DEF Route
  <1>5. HoldPlan.action = "hold" /\ HoldPlan.bound  BY DEF HoldPlan
  <1>6. \/ p.action = "hold" /\ HoldPasses(i)
        \/ p.action = "route_yield" /\ RoutePasses(i, p.venue)
    BY AcceptedAs
  <1>7. CASE p.action = "hold" /\ HoldPasses(i)
    <2>1. GoodVenues(i) = {}  BY <1>2, <1>4, <1>7 DEF HoldPasses
    <2>2. ASSUME NEW q \in Others(i), q # HoldPlan  PROVE ~PolicyAccepted(i, q, 0)
      <3>1. \/ q = [ReferenceProposal(i) EXCEPT !.bound = FALSE]
            \/ \E v \in {"v1", "v2", "v3"} : q = Route(v)
        BY <2>2 DEF Others
      <3>2. ReferenceProposal(i) = HoldPlan  BY <1>2, <2>1
      <3>3. CASE q = [ReferenceProposal(i) EXCEPT !.bound = FALSE]
        <4>1. ~q.bound  BY <3>2, <3>3 DEF HoldPlan
        <4> QED  BY <4>1 DEF PolicyAccepted
      <3>4. CASE \E v \in {"v1", "v2", "v3"} : q = Route(v)
        <4>1. q.action = "route_yield" /\ ~RoutePasses(i, q.venue)  BY <1>3, <1>4, <2>1, <3>4
        <4> QED  BY <4>1 DEF PolicyAccepted
      <3> QED  BY <3>1, <3>3, <3>4
    <2>3. SettlesTask(i, p)  BY <1>7, <2>2 DEF SettlesTask
    <2>4. PolicyAccepted(i, HoldPlan, age)  BY <1>1, <1>5, <1>7 DEF PolicyAccepted
    <2> QED  BY <1>1, <1>2, <2>1, <2>3, <2>4
  <1>8. CASE p.action = "route_yield" /\ RoutePasses(i, p.venue)
    <2>1. p.venue \in GoodVenues(i)  BY <1>3, <1>8
    <2>2. i.venues[p.venue].gross - i.venues[p.venue].cost > i.staying
      <3>1. p.venue \in {"v1", "v2"} /\ Edge(i, p.venue) > i.minimum
        BY <2>1 DEF GoodVenues, GoodVenue, YieldInput
      <3>2. i.venues[p.venue].gross \in Int /\ i.venues[p.venue].cost \in Int /\ i.staying \in Int /\ i.minimum \in Nat
        BY <3>1, PolicyConstantsOK DEF YieldInput, Costs
      <3> QED  BY <3>1, <3>2 DEF Edge
    <2>3. SettlesTask(i, p)  BY <1>8, <2>2 DEF SettlesTask
    <2>4. BestVenue(i) \in GoodVenues(i)  BY <2>1, BestIsGood
    <2>5. PolicyAccepted(i, Route(BestVenue(i)), age)  BY <1>1, <1>3, <1>4, <2>4 DEF PolicyAccepted
    <2> QED  BY <1>1, <1>2, <2>1, <2>3, <2>5
  <1> QED  BY <1>6, <1>7, <1>8

LEMMA HealthFits ==
  ASSUME NEW i \in HealthInput, i.category = "health_factor_monitoring", NEW p, NEW age,
         p.action = "repay" => p.repay \in Nat
  PROVE  Fits(i, p, age)
  <1> SUFFICES ASSUME PolicyAccepted(i, p, age)
               PROVE  p.bound /\ Fresh(age) /\ SettlesTask(i, p) /\ PolicyAccepted(i, ReferenceProposal(i), age)
    BY DEF Fits
  <1> DEFINE need == Required(i)
  <1>1. p.bound /\ Fresh(age)  BY AcceptedAs
  <1>2. ReferenceProposal(i) =
          IF need > 0 /\ need <= i.available /\ i.cost <= CostCap THEN Repay(need) ELSE HoldPlan
    BY DEF ReferenceProposal
  <1>3. /\ need \in Nat /\ need <= StressedDebt(i) /\ (Restores(i, 0) <=> need = 0)
        /\ \A n \in Nat : n >= need /\ n <= StressedDebt(i) => Restores(i, n)
        /\ StressedDebt(i) \in Nat /\ i.available \in Nat
    BY RequiredRestores, HealthNumbers
  <1>4. \A n : Repay(n).action = "repay" /\ Repay(n).bound /\ Repay(n).repay = n  BY DEF Repay
  <1>5. HoldPlan.action = "hold" /\ HoldPlan.bound  BY DEF HoldPlan
  <1>6. \A n : RepayPasses(i, n) <=> /\ 0 <= n /\ n <= StressedDebt(i) /\ n <= i.available
                                     /\ n >= need /\ need > 0 /\ i.cost <= CostCap
    BY DEF RepayPasses
  <1>7. HoldPasses(i) => need = 0  BY DEF HoldPasses
  <1> HIDE DEF need
  <1>8. \/ p.action = "hold" /\ HoldPasses(i)
        \/ p.action = "repay" /\ RepayPasses(i, p.repay)
    BY AcceptedAs
  <1>9. CASE p.action = "hold" /\ HoldPasses(i)
    <2>1. need = 0 /\ Restores(i, 0)  BY <1>3, <1>7, <1>9
    <2>2. SettlesTask(i, p)  BY <1>9, <2>1 DEF SettlesTask
    <2>3. PolicyAccepted(i, HoldPlan, age)  BY <1>1, <1>5, <1>9 DEF PolicyAccepted
    <2> QED  BY <1>1, <1>2, <2>1, <2>2, <2>3
  <1>10. CASE p.action = "repay" /\ RepayPasses(i, p.repay)
    <2>1. /\ p.repay \in Nat /\ p.repay <= StressedDebt(i) /\ p.repay <= i.available
          /\ p.repay >= need /\ need > 0 /\ i.cost <= CostCap
      BY <1>6, <1>10
    <2>2. Restores(i, p.repay) /\ ~Restores(i, 0)  BY <1>3, <2>1
    <2>3. SettlesTask(i, p)  BY <1>10, <2>1, <2>2 DEF SettlesTask
    <2>4. need <= i.available  BY <1>3, <2>1
    <2>5. RepayPasses(i, need)  BY <1>3, <1>6, <2>1, <2>4
    <2>6. PolicyAccepted(i, Repay(need), age)  BY <1>1, <1>4, <2>5 DEF PolicyAccepted
    <2> QED  BY <1>1, <1>2, <2>1, <2>3, <2>4, <2>6
  <1> QED  BY <1>8, <1>9, <1>10

\* What is judged: the reference, and a proposal whose numbers are numbers.
PlansInv ==
  /\ plannedTask \in Tasks
  /\ judged = {} => eligible = {}
  /\ judged # {} =>
       /\ ReferenceProposal(plannedTask) \in judged
       /\ eligible = {p \in judged : PolicyAccepted(plannedTask, p, planAge)}
       /\ plannedTask.category = "health_factor_monitoring" =>
            \A p \in judged : p.action = "repay" => p.repay \in Nat

LEMMA ProposalsNumbered ==
  ASSUME NEW i \in Tasks, i.category = "health_factor_monitoring",
         NEW p \in {ReferenceProposal(i)} \union Others(i), p.action = "repay"
  PROVE  p.repay \in Nat
  <1>1. i \in HealthInput  BY TaskKinds
  <1>2. Required(i) \in Nat  BY <1>1, RequiredRestores
  <1>3. \/ ReferenceProposal(i) = HoldPlan
        \/ ReferenceProposal(i) = Repay(Required(i))
    BY DEF ReferenceProposal
  <1>4. p.repay \in Nat \/ p.action = "hold"
    <2>1. \/ p = HoldPlan \/ p = ReferenceProposal(i) \/ p = [ReferenceProposal(i) EXCEPT !.bound = FALSE]
          \/ \E n \in 0 .. 3 * MaxMoney : p = Repay(n)
      BY DEF Others
    <2>2. CASE p = HoldPlan \/ p = ReferenceProposal(i)
      BY <1>2, <1>3, <2>2 DEF HoldPlan, Repay
    <2>3. CASE p = [ReferenceProposal(i) EXCEPT !.bound = FALSE]
      <3>1. CASE ReferenceProposal(i) = HoldPlan  BY <2>3, <3>1 DEF HoldPlan
      <3>2. CASE ReferenceProposal(i) = Repay(Required(i))  BY <1>2, <2>3, <3>2 DEF Repay
      <3> QED  BY <1>3, <3>1, <3>2
    <2>4. ASSUME NEW n \in 0 .. 3 * MaxMoney, p = Repay(n)  PROVE p.repay \in Nat
      BY <2>4, PolicyConstantsOK DEF Repay
    <2> QED  BY <2>1, <2>2, <2>3, <2>4
  <1> QED  BY <1>4

LEMMA JudgeKeeps ==
  ASSUME PlansInv, NEW ps, ReferenceProposal(plannedTask) \in ps,
         ps \subseteq {ReferenceProposal(plannedTask)} \union Others(plannedTask), Judge(ps)
  PROVE  PlansInv'
  <1>1. /\ judged' = ps /\ eligible' = {p \in ps : PolicyAccepted(plannedTask, p, planAge)}
        /\ plannedTask' = plannedTask /\ planAge' = planAge /\ plannedTask \in Tasks
    BY DEF Judge, PlansInv
  <1>2. plannedTask.category = "health_factor_monitoring" => \A p \in ps : p.action = "repay" => p.repay \in Nat
    BY <1>1, ProposalsNumbered
  <1>3. ps # {}  OBVIOUS
  <1> QED  BY <1>1, <1>2, <1>3 DEF PlansInv

LEMMA PlansGoOn == PlansSpec => []PlansInv
  <1>1. PlansInit => PlansInv  BY DEF PlansInit, PlansInv
  <1>2. PlansInv /\ [PlansNext]_planVars => PlansInv'
    <2> SUFFICES ASSUME PlansInv, [PlansNext]_planVars  PROVE PlansInv'  OBVIOUS
    <2>1. CASE Preview
      <3>1. Judge({ReferenceProposal(plannedTask)})  BY <2>1 DEF Preview
      <3> QED  BY <3>1, JudgeKeeps
    <2>2. ASSUME NEW p \in Others(plannedTask), Compare(p)  PROVE PlansInv'
      <3>1. Judge({ReferenceProposal(plannedTask), p})  BY <2>2 DEF Compare
      <3>2. {ReferenceProposal(plannedTask), p} \subseteq {ReferenceProposal(plannedTask)} \union Others(plannedTask)
        OBVIOUS
      <3> QED  BY <3>1, <3>2, JudgeKeeps
    <2>3. CASE PlanTick
      <3>1. judged = {} /\ plannedTask' = plannedTask /\ judged' = judged /\ eligible' = eligible
        BY <2>3 DEF PlanTick
      <3> QED  BY <3>1 DEF PlansInv
    <2>4. CASE UNCHANGED planVars
      <3>1. plannedTask' = plannedTask /\ planAge' = planAge /\ judged' = judged /\ eligible' = eligible
        BY <2>4 DEF planVars
      <3> QED  BY <3>1 DEF PlansInv
    <2> QED  BY <2>1, <2>2, <2>3, <2>4 DEF PlansNext
  <1> QED  BY <1>1, <1>2, PTL DEF PlansSpec

LEMMA FitByInv == PlansInv => PlansFitTheirTask
  <1> SUFFICES ASSUME PlansInv  PROVE PlansFitTheirTask  OBVIOUS
  <1> DEFINE ref == ReferenceProposal(plannedTask)
  <1>1. ASSUME NEW p \in eligible
        PROVE  p.bound /\ Fresh(planAge) /\ SettlesTask(plannedTask, p) /\ ref \in eligible
    <2>1. /\ judged # {} /\ ref \in judged /\ PolicyAccepted(plannedTask, p, planAge)
          /\ eligible = {q \in judged : PolicyAccepted(plannedTask, q, planAge)}
          /\ plannedTask \in Tasks
          /\ plannedTask.category = "health_factor_monitoring" => (p.action = "repay" => p.repay \in Nat)
      BY <1>1 DEF PlansInv
    <2>2. Fits(plannedTask, p, planAge)
      BY <2>1, TaskKinds, RebalancingFits, GridFits, YieldFits, HealthFits
    <2> QED  BY <2>1, <2>2 DEF Fits
  <1>2. ASSUME ref \in eligible, ref.action = "repay"  PROVE ~Restores(plannedTask, ref.repay - Cent)
    <2>1. plannedTask \in Tasks  BY DEF PlansInv
    <2>2. plannedTask \in HealthInput /\ ref = Repay(Required(plannedTask)) /\ Required(plannedTask) > 0
      <3>1. CASE plannedTask.category = "health_factor_monitoring"
        <4>1. plannedTask \in HealthInput  BY <2>1, <3>1, TaskKinds
        <4> QED  BY <1>2, <3>1, <4>1 DEF ReferenceProposal, HoldPlan
      <3>2. CASE plannedTask.category = "rebalancing"
        BY <1>2, <3>2 DEF ReferenceProposal, HoldPlan, Reset
      <3>3. CASE plannedTask.category = "grid_trading"
        BY <1>2, <3>3 DEF ReferenceProposal, HoldPlan, Grid
      <3>4. CASE plannedTask.category = "yield_optimisation"
        BY <1>2, <3>4 DEF ReferenceProposal, HoldPlan, Route
      <3> QED  BY <2>1, <3>1, <3>2, <3>3, <3>4, TaskKinds
    <2>3. ref.repay = Required(plannedTask)  BY <2>2 DEF Repay
    <2>4. ~Restores(plannedTask, Required(plannedTask) - Cent)  BY <2>2, RequiredRestores
    <2> QED  BY <2>3, <2>4
  <1> QED  BY <1>1, <1>2 DEF PlansFitTheirTask

\* PlansFitTheirTask, for every bound of the protocol and of money: an accepted proposal
\* settles its task, and the reference is accepted where any proposal is.
THEOREM PlansAlwaysFit == PlansSpec => []PlansFitTheirTask
  <1> QED  BY PlansGoOn, FitByInv, PTL

-----------------------------------------------------------------------------
(* ObservedPlans: what is handed out was true of the contracts at one block, *)
(* because every read names the hash of the block and fails off the chain.   *)

Untouched(w) == [ok |-> TRUE, debt |-> w.debt, balance |-> w.balance, allowance |-> w.allowance]

\* Up to three drafts, signed one after the other.
LEMMA SignedInOrder ==
  ASSUME NEW w, NEW d, NEW n \in 1 .. 3, Len(d) = n
  PROVE  LET s1 == SignNext(w, Untouched(w), d[1])
             s2 == SignNext(w, s1, d[2])
             s3 == SignNext(w, s2, d[3])
         IN Signed(w, d) = IF n = 1 THEN s1 ELSE IF n = 2 THEN s2 ELSE s3
  <1> DEFINE s1 == SignNext(w, Untouched(w), d[1])
             s2 == SignNext(w, s1, d[2])
             s3 == SignNext(w, s2, d[3])
             Signs(f) == f = [k \in 0 .. n |-> IF k = 0 THEN Untouched(w) ELSE SignNext(w, f[k - 1], d[k])]
             g == [k \in 0 .. n |-> IF k = 0 THEN Untouched(w) ELSE IF k = 1 THEN s1 ELSE IF k = 2 THEN s2 ELSE s3]
             after == CHOOSE f : Signs(f)
  <1>1. Signs(g)
    <2>1. \A k \in 0 .. n : g[k] = IF k = 0 THEN Untouched(w) ELSE SignNext(w, g[k - 1], d[k])
      <3> SUFFICES ASSUME NEW k \in 0 .. n
                   PROVE  g[k] = IF k = 0 THEN Untouched(w) ELSE SignNext(w, g[k - 1], d[k])
        OBVIOUS
      <3>0. 0 \in 0 .. n /\ g[0] = Untouched(w)  OBVIOUS
      <3>1. CASE k = 0  BY <3>1
      <3>2. CASE k = 1
        <4>1. k - 1 = 0 /\ g[k] = s1  BY <3>2
        <4> QED  BY <3>0, <3>2, <4>1
      <3>3. CASE k = 2
        <4>1. k - 1 = 1 /\ 1 \in 0 .. n /\ g[k] = s2 /\ g[1] = s1  BY <3>3
        <4> QED  BY <3>3, <4>1
      <3>4. CASE k = 3
        <4>1. k - 1 = 2 /\ 2 \in 0 .. n /\ g[k] = s3 /\ g[2] = s2  BY <3>4
        <4> QED  BY <3>4, <4>1
      <3> QED  BY <3>1, <3>2, <3>3, <3>4
    <2> DEFINE h == [k \in 0 .. n |-> IF k = 0 THEN Untouched(w) ELSE SignNext(w, g[k - 1], d[k])]
    <2>2. \A k \in 0 .. n : g[k] = h[k]  BY <2>1
    <2>3. g = [k \in 0 .. n |-> g[k]] /\ h = [k \in 0 .. n |-> h[k]]  OBVIOUS
    <2> HIDE DEF g, h
    <2>4. g = h  BY <2>2, <2>3
    <2> QED  BY <2>4 DEF h
  <1>2. Signs(after)  BY <1>1
  <1>3. Signed(w, d) = after[n]  BY DEF Signed, Untouched
  <1> HIDE DEF after
  <1>4. \A k \in 0 .. n : after[k] = IF k = 0 THEN Untouched(w) ELSE SignNext(w, after[k - 1], d[k])
    BY <1>2
  <1>5. after[0] = Untouched(w) /\ after[1] = s1
    <2>1. 0 \in 0 .. n /\ 1 \in 0 .. n /\ 1 - 1 = 0 /\ 1 # 0  OBVIOUS
    <2>2. after[0] = Untouched(w)  BY <1>4, <2>1
    <2>3. after[1] = SignNext(w, after[1 - 1], d[1])  BY <1>4, <2>1
    <2> QED  BY <2>1, <2>2, <2>3
  <1>6. n >= 2 => after[2] = s2
    <2>1. n >= 2 => 2 \in 0 .. n /\ 2 - 1 = 1 /\ 2 # 0  OBVIOUS
    <2>2. n >= 2 => after[2] = SignNext(w, after[2 - 1], d[2])  BY <1>4, <2>1
    <2> QED  BY <1>5, <2>1, <2>2
  <1>7. n = 3 => after[3] = s3
    <2>1. n = 3 => 3 \in 0 .. n /\ 3 - 1 = 2 /\ 3 # 0 /\ n >= 2  OBVIOUS
    <2>2. n = 3 => after[3] = SignNext(w, after[3 - 1], d[3])  BY <1>4, <2>1
    <2> QED  BY <1>6, <2>1, <2>2
  <1> HIDE DEF s1, s2, s3
  <1>8. Signed(w, d) = IF n = 1 THEN s1 ELSE IF n = 2 THEN s2 ELSE s3
    BY <1>3, <1>5, <1>6, <1>7
  <1> QED  BY <1>8 DEF s1, s2, s3

\* A repayment that nothing speaks against does what was asked.
LEMMA RepaymentActs ==
  ASSUME NEW w \in GoodWorlds("health"), NEW n \in 1 .. 2, NEW p, p = Repayment(w, n)
  PROVE  LET a == Signed(w, p.drafts) IN
         /\ a.ok = (p.blockers \subseteq {"allowance"})
         /\ a.ok => a.debt = w.debt - n /\ a.allowance = 0
         /\ p.blockers = {} => p.simulated
  <1>1. w.debt \in Nat /\ w.balance \in Nat /\ w.allowance \in Nat /\ w.paused \in BOOLEAN
    BY DEF GoodWorlds
  <1> DEFINE cannot == {b \in {"debt", "balance", "paused"} :
                          \/ b = "debt" /\ n > w.debt
                          \/ b = "balance" /\ n > w.balance
                          \/ b = "paused" /\ w.paused}
             Can == ~w.paused /\ n <= w.debt /\ n <= w.balance
             a == Signed(w, p.drafts)
             Paid(x) == x.ok = Can /\ (x.ok => x.debt = w.debt - n /\ x.allowance = 0)
  <1>2. cannot = {} <=> Can
    <2>1. "debt" \in cannot <=> n > w.debt  OBVIOUS
    <2>2. "balance" \in cannot <=> n > w.balance  OBVIOUS
    <2>3. "paused" \in cannot <=> w.paused  OBVIOUS
    <2>4. cannot \subseteq {"debt", "balance", "paused"}  OBVIOUS
    <2>5. (n > w.debt <=> ~(n <= w.debt)) /\ (n > w.balance <=> ~(n <= w.balance))  BY <1>1
    <2> HIDE DEF cannot
    <2> QED  BY <2>1, <2>2, <2>3, <2>4, <2>5
  <1>3. "allowance" \notin cannot  OBVIOUS
  <1>4. p = IF w.allowance # n
            THEN [drafts |-> (IF w.allowance > 0 THEN <<Draft("approve", 0)>> ELSE <<>>)
                               \o <<Draft("approve", n), Draft("repay", n)>>,
                  blockers |-> cannot \union {"allowance"}, minima |-> <<>>, simulated |-> FALSE]
            ELSE [drafts |-> <<Draft("repay", n)>>, blockers |-> cannot, minima |-> <<>>, simulated |-> cannot = {}]
    BY DEF Repayment, AllowanceDiffers
  <1> HIDE DEF cannot
  <1>5. (p.blockers \subseteq {"allowance"}) = Can
    <2>1. p.blockers = cannot \/ p.blockers = cannot \union {"allowance"}  BY <1>4
    <2>2. (p.blockers \subseteq {"allowance"}) <=> cannot = {}  BY <1>3, <2>1
    <2> QED  BY <1>2, <2>2
  <1>6. p.blockers = {} => p.simulated
    <2>1. CASE w.allowance # n
      <3>1. p.blockers = cannot \union {"allowance"}  BY <1>4, <2>1
      <3> QED  BY <3>1
    <2>2. CASE w.allowance = n
      <3>1. p = [drafts |-> <<Draft("repay", n)>>, blockers |-> cannot, minima |-> <<>>, simulated |-> cannot = {}]
        BY <1>4, <2>2
      <3>2. p.blockers = cannot  BY <3>1
      <3>3. ASSUME cannot = {}  PROVE p.simulated
        <4>1. (cannot = {}) = TRUE  BY <3>3
        <4>2. p = [drafts |-> <<Draft("repay", n)>>, blockers |-> cannot, minima |-> <<>>, simulated |-> TRUE]
          BY <3>1, <4>1, Zenon
        <4> QED  BY <4>2
      <3> QED  BY <3>2, <3>3
    <2> QED  BY <2>1, <2>2
  <1>7. Paid(a)
    <2>1. CASE w.allowance = n
      <3>1. p.drafts = <<Draft("repay", n)>>  BY <1>4, <2>1
      <3>2. Len(p.drafts) = 1 /\ p.drafts[1] = Draft("repay", n) /\ 1 \in 1 .. 3  BY <3>1
      <3>3. a = SignNext(w, Untouched(w), Draft("repay", n))  BY <3>2, SignedInOrder
      <3>4. Paid(SignNext(w, Untouched(w), Draft("repay", n)))
        BY <1>1, <2>1 DEF SignNext, Untouched, Draft
      <3> QED  BY <3>3, <3>4
    <2>2. CASE w.allowance # n /\ w.allowance > 0
      <3>1. p.drafts = <<Draft("approve", 0)>> \o <<Draft("approve", n), Draft("repay", n)>>  BY <1>4, <2>2
      <3>2. /\ Len(p.drafts) = 3 /\ p.drafts[1] = Draft("approve", 0)
            /\ p.drafts[2] = Draft("approve", n) /\ p.drafts[3] = Draft("repay", n) /\ 3 \in 1 .. 3
        BY <3>1
      <3> DEFINE s1 == SignNext(w, Untouched(w), Draft("approve", 0))
                 s2 == SignNext(w, s1, Draft("approve", n))
                 s3 == SignNext(w, s2, Draft("repay", n))
      <3>3. a = s3  BY <3>2, SignedInOrder
      <3>4. s1 = [ok |-> TRUE, debt |-> w.debt, balance |-> w.balance, allowance |-> 0]
        BY DEF SignNext, Untouched, Draft
      <3> HIDE DEF s1
      <3>5. s2 = [ok |-> TRUE, debt |-> w.debt, balance |-> w.balance, allowance |-> n]
        BY <3>4 DEF SignNext, Draft
      <3> HIDE DEF s2
      <3>6. Paid(s3)  BY <1>1, <3>5 DEF SignNext, Draft
      <3> HIDE DEF s3
      <3> QED  BY <3>3, <3>6
    <2>3. CASE w.allowance # n /\ ~(w.allowance > 0)
      <3>0. w.allowance = 0  BY <1>1, <2>3
      <3>1. p.drafts = <<>> \o <<Draft("approve", n), Draft("repay", n)>>
        <4>1. p.drafts = (IF w.allowance > 0 THEN <<Draft("approve", 0)>> ELSE <<>>)
                           \o <<Draft("approve", n), Draft("repay", n)>>
          BY <1>4, <2>3
        <4> QED  BY <2>3, <4>1
      <3>2. /\ Len(p.drafts) = 2 /\ p.drafts[1] = Draft("approve", n) /\ p.drafts[2] = Draft("repay", n)
            /\ 2 \in 1 .. 3
        BY <3>1
      <3> DEFINE s1 == SignNext(w, Untouched(w), Draft("approve", n))
                 s2 == SignNext(w, s1, Draft("repay", n))
      <3>3. a = s2  BY <3>2, SignedInOrder
      <3>4. s1 = [ok |-> TRUE, debt |-> w.debt, balance |-> w.balance, allowance |-> n]
        BY <3>0 DEF SignNext, Untouched, Draft
      <3> HIDE DEF s1
      <3>5. Paid(s2)  BY <1>1, <3>4 DEF SignNext, Draft
      <3> HIDE DEF s2
      <3> QED  BY <3>3, <3>5
    <2> QED  BY <2>1, <2>2, <2>3
  <1> HIDE DEF a, Can
  <1> QED  BY <1>5, <1>6, <1>7 DEF a

\* What slippage leaves of an amount, rounded down.
LEMMA SlippageLeaves ==
  ASSUME NEW o \in Nat, NEW s \in {0, 50}, NEW m, m = (o * (100 - s)) \div 100
  PROVE  m \in Int /\ m <= o /\ (o - m - 1) * 100 < o * s
  <1>1. CASE s = 0
    <2>1. m = (o * 100) \div 100 /\ o * s = 0  BY <1>1
    <2>2. m = o  BY <2>1
    <2> QED  BY <2>1, <2>2
  <1>2. CASE s = 50
    <2>1. m = (o * 50) \div 100 /\ o * s = o * 50  BY <1>2
    <2>2. m \in Int /\ m * 100 <= o * 50 /\ o * 50 < m * 100 + 100  BY <2>1
    <2> QED  BY <2>1, <2>2
  <1> QED  BY <1>1, <1>2

\* A world read without a fault is one of the good ones.
LEMMA ReadIsGood ==
  ASSUME NEW source \in {"wallet", "grid", "lp", "venus", "health"}, NEW w \in Worlds(source), w.faults = {}
  PROVE  w \in GoodWorlds(source)
  <1>1. \A g \in GoodWorlds(source) : "faults" \in DOMAIN g
    <2>1. CASE source = "wallet"  BY <2>1 DEF GoodWorlds
    <2>2. CASE source = "health"  BY <2>2 DEF GoodWorlds
    <2>3. CASE source = "lp"  BY <2>3 DEF GoodWorlds
    <2>4. CASE source = "venus"  BY <2>4 DEF GoodWorlds
    <2>5. CASE source = "grid"  BY <2>5 DEF GoodWorlds
    <2> QED  BY <2>1, <2>2, <2>3, <2>4, <2>5
  <1>2. GoodWorlds(source) # {}
    <2>1. CASE source = "wallet"
      <3>1. [faults |-> {}, held |-> [c \in Coins |-> 0], priced |-> {}] \in GoodWorlds(source)  BY <2>1 DEF GoodWorlds
      <3> QED  BY <3>1
    <2>2. CASE source = "health"
      <3>1. [faults |-> {}, debt |-> 1, balance |-> 1, allowance |-> 0, paused |-> FALSE] \in GoodWorlds(source)
        BY <2>2 DEF GoodWorlds
      <3> QED  BY <3>1
    <2>3. CASE source = "lp"
      <3>1. [faults |-> {}, out |-> <<0, 0>>] \in GoodWorlds(source)  BY <2>3 DEF GoodWorlds
      <3> QED  BY <3>1
    <2>4. CASE source = "venus"
      <3>1. [faults |-> {}, pays |-> TRUE, cash |-> 0, takes |-> TRUE, supplied |-> 0, cap |-> 0, better |-> FALSE]
              \in GoodWorlds(source)
        BY <2>4 DEF GoodWorlds
      <3> QED  BY <3>1
    <2>5. CASE source = "grid"
      <3>1. [faults |-> {}, price |-> 1] \in GoodWorlds(source)  BY <2>5 DEF GoodWorlds
      <3> QED  BY <3>1
    <2> QED  BY <2>1, <2>2, <2>3, <2>4, <2>5
  <1> DEFINE g == CHOOSE x \in GoodWorlds(source) : TRUE
  <1>3. g \in GoodWorlds(source) /\ "faults" \in DOMAIN g  BY <1>1, <1>2
  <1>4. w \in GoodWorlds(source) \/ \E f \in Faults(source) : w = [g EXCEPT !.faults = {f}]
    BY DEF Worlds
  <1> HIDE DEF g
  <1>5. ASSUME NEW f \in Faults(source), w = [g EXCEPT !.faults = {f}]  PROVE FALSE
    <2>1. w.faults = {f}  BY <1>3, <1>5
    <2> QED  BY <2>1
  <1> QED  BY <1>4, <1>5

\* A plan from a world read without a fault does there what was asked.
LEMMA PlanActs ==
  ASSUME NEW e \in Errands, e.use = "plan", NEW w \in Worlds(e.source), w.faults = {}, Drafted(e, w),
         NEW p, p = PlanOf(e, w)
  PROVE  ActsAsAsked(e, w, p)
  <1>1. e.source \in {"lp", "venus", "health"}  BY DEF Errands
  <1>2. w \in GoodWorlds(e.source)  BY <1>1, ReadIsGood
  <1>3. CASE e.source = "health"
    <2>1. e.n \in 1 .. 2  BY <1>3 DEF Errands
    <2>2. p = Repayment(w, e.n)  BY <1>3 DEF PlanOf
    <2>3. LET a == Signed(w, p.drafts) IN
          /\ a.ok = (p.blockers \subseteq {"allowance"})
          /\ a.ok => a.debt = w.debt - e.n /\ a.allowance = 0
          /\ p.blockers = {} => p.simulated
      BY <1>2, <1>3, <2>1, <2>2, RepaymentActs
    <2> QED  BY <1>3, <2>3 DEF ActsAsAsked
  <1>4. CASE e.source = "lp"
    <2>1. e.n \in {0, 50} /\ w.out \in {0, 1, 3} \X {0, 3}  BY <1>2, <1>4 DEF Errands, GoodWorlds
    <2>2. p.minima = Minima(w, e.n)  BY <1>4 DEF PlanOf, Exit
    <2>3. Protected(w, e.n)  BY <1>4 DEF Drafted
    <2>4. ASSUME NEW i \in 1 .. 2
          PROVE  /\ p.minima[i] <= w.out[i]
                 /\ p.minima[i] = 0 => w.out[i] = 0
                 /\ (w.out[i] - p.minima[i] - 1) * 100 < w.out[i] * e.n
      <3>1. w.out[i] \in Nat  BY <2>1
      <3>2. p.minima[i] = (w.out[i] * (100 - e.n)) \div 100  BY <2>2 DEF Minima
      <3>3. w.out[i] > 0 => p.minima[i] > 0  BY <2>2, <2>3 DEF Protected
      <3>4. p.minima[i] \in Int /\ p.minima[i] <= w.out[i] /\ (w.out[i] - p.minima[i] - 1) * 100 < w.out[i] * e.n
        BY <2>1, <3>1, <3>2, SlippageLeaves
      <3> QED  BY <3>1, <3>3, <3>4
    <2> QED  BY <1>4, <2>4 DEF ActsAsAsked
  <1>5. CASE e.source = "venus"
    <2>1. e.n \in 1 .. 2  BY <1>5 DEF Errands
    <2>2. w.cash \in Nat /\ w.supplied \in Nat /\ w.cap \in Nat  BY <1>2, <1>5 DEF GoodWorlds
    <2> DEFINE bs == {b \in {"source", "destination"} :
                        \/ b = "source" /\ (~w.pays \/ w.cash < e.n)
                        \/ b = "destination" /\ w.better /\ (~w.takes \/ SupplyRoom(w) < e.n)}
    <2>3. p.blockers = bs
      <3>1. p = [NoPlan EXCEPT !.blockers = bs]  BY <1>5 DEF PlanOf, MovePlan
      <3> HIDE DEF bs
      <3> QED  BY <3>1 DEF NoPlan
    <2>4. bs = {} <=> ~(~w.pays \/ w.cash < e.n) /\ ~(w.better /\ (~w.takes \/ SupplyRoom(w) < e.n))
      <3>1. "source" \in bs <=> (~w.pays \/ w.cash < e.n)  OBVIOUS
      <3>2. "destination" \in bs <=> w.better /\ (~w.takes \/ SupplyRoom(w) < e.n)  OBVIOUS
      <3>3. bs \subseteq {"source", "destination"}  OBVIOUS
      <3> HIDE DEF bs
      <3> QED  BY <3>1, <3>2, <3>3
    <2> HIDE DEF bs
    <2>5. (w.cash < e.n <=> ~(e.n <= w.cash)) /\ (SupplyRoom(w) < e.n <=> ~(w.supplied + e.n <= w.cap))
      BY <2>1, <2>2 DEF SupplyRoom
    <2>6. p.blockers = {} <=> w.pays /\ e.n <= w.cash /\ (w.better => w.takes /\ w.supplied + e.n <= w.cap)
      BY <2>3, <2>4, <2>5
    <2> QED  BY <1>5, <2>6 DEF ActsAsAsked
  <1> QED  BY <1>1, <1>3, <1>4, <1>5

\* A wallet of which nothing is missing has the value that was summed.
LEMMA ValuedWhole ==
  ASSUME NEW w \in Worlds("wallet"), NEW unread, Unvalued(w, unread) = {}
  PROVE  Valued(w, unread) = w.held["BNB"] + w.held["USDT"]
  <1>1. w \in GoodWorlds("wallet")  BY DEF Worlds, Faults
  <1>2. w.held \in [Coins -> 0 .. 1]  BY <1>1 DEF GoodWorlds
  <1> DEFINE Worth(c) == IF c \in w.priced /\ <<c, "balance">> \notin unread /\ <<c, "price">> \notin unread
                         THEN w.held[c] ELSE 0
  <1>3. ASSUME NEW c \in Coins  PROVE Worth(c) = w.held[c]
    <2>1. c \notin Unvalued(w, unread)  OBVIOUS
    <2>2. <<c, "balance">> \notin unread /\ ~(w.held[c] > 0 /\ (<<c, "price">> \in unread \/ c \notin w.priced))
      BY <2>1 DEF Unvalued
    <2>3. w.held[c] \in 0 .. 1  BY <1>2
    <2>4. CASE w.held[c] > 0
      <3>1. c \in w.priced /\ <<c, "balance">> \notin unread /\ <<c, "price">> \notin unread  BY <2>2, <2>4
      <3> QED  BY <3>1
    <2>5. CASE ~(w.held[c] > 0)
      <3>1. w.held[c] = 0  BY <2>3, <2>5
      <3> QED  BY <3>1
    <2> QED  BY <2>4, <2>5
  <1>4. Valued(w, unread) = Worth("BNB") + Worth("USDT")  BY DEF Valued
  <1>5. "BNB" \in Coins /\ "USDT" \in Coins  BY DEF Coins
  <1> HIDE DEF Worth
  <1>6. Worth("BNB") = w.held["BNB"] /\ Worth("USDT") = w.held["USDT"]  BY <1>3, <1>5
  <1> QED  BY <1>4, <1>6

\* A request has seen only what holds at its block, and once it has read the contracts
\* they were without fault; a plan is the plan of that block.
LookParts == {"stage", "block", "age", "seen", "unread", "plan"}
LookOK(e, at, x) ==
  /\ DOMAIN x = LookParts
  /\ x.block \in 0 .. 2
  /\ x.stage \in {"idle", "block"} => x.seen = {}
  /\ x.seen \subseteq {at[x.block]}
  /\ x.stage \in {"read", "check", "task", "plan", "finish", "save", "given"} => x.block \in 1 .. 2
  /\ x.stage \in {"check", "task", "plan", "finish", "save", "given"} /\ e.source # "wallet" =>
       at[x.block].faults = {}
  /\ x.stage = "task" => e.use # "plan"
  /\ x.stage \in {"finish", "save", "given"} /\ e.use = "plan" =>
       Drafted(e, at[x.block]) /\ x.plan = PlanOf(e, at[x.block])

ObservedInv ==
  /\ errand \in Errands /\ branch \in 1 .. 2
  /\ worldAt[1] \in Worlds(errand.source) /\ worldAt[2] \in Worlds(errand.source)
  /\ DOMAIN looks = Observers
  /\ \A r \in Observers : LookOK(errand, worldAt, looks[r])

LEMMA TwoWorlds ==
  ASSUME NEW source \in {"wallet", "grid", "lp", "venus", "health"}, NEW w
  PROVE  \E o \in Worlds(source) : o # w
  <1> SUFFICES \E a, b \in GoodWorlds(source) : a # b
    <2>1. GoodWorlds(source) \subseteq Worlds(source)  BY DEF Worlds
    <2> QED  BY <2>1
  <1>1. CASE source = "wallet"
    <2> DEFINE a == [faults |-> {}, held |-> [c \in Coins |-> 0], priced |-> {}]
               b == [faults |-> {}, held |-> [c \in Coins |-> 0], priced |-> Coins]
    <2>1. a \in GoodWorlds(source) /\ b \in GoodWorlds(source)  BY <1>1 DEF GoodWorlds
    <2>2. a.priced # b.priced  BY DEF Coins
    <2>3. a # b  BY <2>2
    <2> HIDE DEF a, b
    <2> QED  BY <2>1, <2>3
  <1>2. CASE source = "health"
    <2> DEFINE World(n) == [faults |-> {}, debt |-> n, balance |-> 1, allowance |-> 0, paused |-> FALSE]
    <2>1. World(1) \in GoodWorlds(source) /\ World(2) \in GoodWorlds(source)  BY <1>2 DEF GoodWorlds
    <2>2. World(1).debt # World(2).debt  OBVIOUS
    <2>3. World(1) # World(2)  BY <2>2
    <2> HIDE DEF World
    <2> QED  BY <2>1, <2>3
  <1>3. CASE source = "lp"
    <2> DEFINE World(n) == [faults |-> {}, out |-> <<n, 0>>]
    <2>1. World(0) \in GoodWorlds(source) /\ World(1) \in GoodWorlds(source)  BY <1>3 DEF GoodWorlds
    <2>2. World(0).out[1] # World(1).out[1]  OBVIOUS
    <2>3. World(0) # World(1)  BY <2>2
    <2> HIDE DEF World
    <2> QED  BY <2>1, <2>3
  <1>4. CASE source = "venus"
    <2> DEFINE World(n) == [faults |-> {}, pays |-> TRUE, cash |-> n, takes |-> TRUE, supplied |-> 0, cap |-> 0,
                            better |-> FALSE]
    <2>1. World(0) \in GoodWorlds(source) /\ World(1) \in GoodWorlds(source)  BY <1>4 DEF GoodWorlds
    <2>2. World(0).cash # World(1).cash  OBVIOUS
    <2>3. World(0) # World(1)  BY <2>2
    <2> HIDE DEF World
    <2> QED  BY <2>1, <2>3
  <1>5. CASE source = "grid"
    <2> DEFINE World(n) == [faults |-> {}, price |-> n]
    <2>1. World(1) \in GoodWorlds(source) /\ World(2) \in GoodWorlds(source)  BY <1>5 DEF GoodWorlds
    <2>2. World(1).price # World(2).price  OBVIOUS
    <2>3. World(1) # World(2)  BY <2>2
    <2> HIDE DEF World
    <2> QED  BY <2>1, <2>3
  <1> QED  BY <1>1, <1>2, <1>3, <1>4, <1>5

LEMMA ErrandSources ==
  ASSUME NEW e \in Errands
  PROVE  e.source \in {"wallet", "grid", "lp", "venus", "health"} /\ e.use \in {"report", "task", "plan"}
  BY DEF Errands

LEMMA ObservedStarts == ObservedInit => ObservedInv
  <1> SUFFICES ASSUME ObservedInit  PROVE ObservedInv  OBVIOUS
  <1>1. errand \in Errands /\ branch = 1 /\ looks = [r \in Observers |-> NoLook]  BY DEF ObservedInit
  <1>2. PICK w \in Worlds(errand.source) : worldAt = <<w, CHOOSE o \in Worlds(errand.source) : o # w>>
    BY DEF ObservedInit
  <1> DEFINE other == CHOOSE o \in Worlds(errand.source) : o # w
  <1>3. other \in Worlds(errand.source)
    <2>1. \E o \in Worlds(errand.source) : o # w  BY <1>1, ErrandSources, TwoWorlds
    <2> QED  BY <2>1
  <1>4. worldAt = <<w, other>>  BY <1>2
  <1> HIDE DEF other
  <1>5. worldAt[1] \in Worlds(errand.source) /\ worldAt[2] \in Worlds(errand.source)  BY <1>3, <1>4
  <1>6. LookOK(errand, worldAt, NoLook)  BY DEF LookOK, NoLook, LookParts
  <1> QED  BY <1>1, <1>5, <1>6 DEF ObservedInv

\* One request goes on while the chain stands.
LEMMA LookGoesOn ==
  ASSUME ObservedInv, UNCHANGED <<errand, worldAt, branch>>, NEW r \in Observers, NEW y,
         looks' = [looks EXCEPT ![r] = y], LookOK(errand, worldAt, y)
  PROVE  ObservedInv'
  <1>1. DOMAIN looks' = Observers /\ looks'[r] = y /\ \A q \in Observers : q # r => looks'[q] = looks[q]
    BY DEF ObservedInv
  <1>2. errand' = errand /\ worldAt' = worldAt /\ branch' = branch  OBVIOUS
  <1>3. \A q \in Observers : LookOK(errand, worldAt, looks'[q])  BY <1>1 DEF ObservedInv
  <1> QED  BY <1>1, <1>2, <1>3 DEF ObservedInv

\* Only the stage of a request changes.
LEMMA StageGoesOn ==
  ASSUME ObservedInv, NEW r \in Observers, NEW stage, LookTo(r, stage),
         stage \in {"block", "refused", "task", "plan", "save", "given"},
         stage = "block" => looks[r].stage = "idle",
         stage = "task" => looks[r].stage = "check" /\ errand.use # "plan",
         stage = "plan" => looks[r].stage = "check",
         stage = "save" => looks[r].stage = "finish",
         stage = "given" => \/ looks[r].stage \in {"check", "task"} /\ errand.use # "plan"
                            \/ looks[r].stage = "save"
  PROVE  ObservedInv'
  <1> DEFINE x == looks[r]
             y == [x EXCEPT !.stage = stage]
  <1>1. LookOK(errand, worldAt, x)  BY DEF ObservedInv
  <1>2. looks' = [looks EXCEPT ![r] = y] /\ UNCHANGED <<errand, worldAt, branch>>
    BY DEF LookTo, OnlyLooks
  <1>3. /\ DOMAIN y = LookParts /\ y.stage = stage /\ y.block = x.block /\ y.seen = x.seen /\ y.plan = x.plan
    BY <1>1 DEF LookOK, LookParts
  <1> HIDE DEF x, y
  <1>4. LookOK(errand, worldAt, y)
    <2> USE <1>1, <1>3 DEF LookOK
    <2>1. y.stage \in {"idle", "block"} => y.seen = {}  BY DEF x
    <2>2. y.stage \in {"read", "check", "task", "plan", "finish", "save", "given"} => y.block \in 1 .. 2  BY DEF x
    <2>3. y.stage \in {"check", "task", "plan", "finish", "save", "given"} /\ errand.source # "wallet" =>
            worldAt[y.block].faults = {}
      BY DEF x
    <2>4. y.stage = "task" => errand.use # "plan"  OBVIOUS
    <2>5. y.stage \in {"finish", "save", "given"} /\ errand.use = "plan" =>
            Drafted(errand, worldAt[y.block]) /\ y.plan = PlanOf(errand, worldAt[y.block])
      BY DEF x
    <2> QED  BY <2>1, <2>2, <2>3, <2>4, <2>5
  <1> QED  BY <1>2, <1>4, LookGoesOn

LEMMA ReadBlockKeeps == ASSUME ObservedInv, NEW r \in Observers, ReadBlock(r)  PROVE ObservedInv'
  <1> DEFINE x == looks[r]
             y == [x EXCEPT !.stage = "read", !.block = branch]
  <1>1. LookOK(errand, worldAt, x) /\ x.stage = "block" /\ branch \in 1 .. 2  BY DEF ObservedInv, ReadBlock
  <1>2. looks' = [looks EXCEPT ![r] = y] /\ UNCHANGED <<errand, worldAt, branch>>
    BY DEF ReadBlock, OnlyLooks
  <1>3. DOMAIN y = LookParts /\ y.stage = "read" /\ y.block = branch /\ y.seen = {}
    BY <1>1 DEF LookOK, LookParts
  <1> HIDE DEF x, y
  <1>4. LookOK(errand, worldAt, y)  BY <1>1, <1>3 DEF LookOK
  <1> QED  BY <1>2, <1>4, LookGoesOn

\* What a call says is what holds at the block.
LEMMA SaidAtBlock ==
  ASSUME ObservedInv, NEW r \in Observers
  PROVE  SaidAt(r) \subseteq {worldAt[looks[r].block]}
  BY DEF SaidAt

LEMMA ReadContractsKeeps == ASSUME ObservedInv, NEW r \in Observers, ReadContracts(r)  PROVE ObservedInv'
  <1> DEFINE x == looks[r]
  <1>1. LookOK(errand, worldAt, x) /\ x.stage = "read"  BY DEF ObservedInv, ReadContracts
  <1>2. UNCHANGED <<errand, worldAt, branch>>  BY DEF ReadContracts, OnlyLooks
  <1>3. CASE \E w \in SaidAt(r) : w.faults = {}
    <2> DEFINE y == [x EXCEPT !.stage = "check", !.seen = SaidAt(r)]
    <2>1. looks' = [looks EXCEPT ![r] = y]  BY <1>3 DEF ReadContracts
    <2>2. worldAt[x.block].faults = {} /\ SaidAt(r) \subseteq {worldAt[x.block]}  BY <1>3, SaidAtBlock
    <2>3. DOMAIN y = LookParts /\ y.stage = "check" /\ y.block = x.block /\ y.seen = SaidAt(r)
      BY <1>1 DEF LookOK, LookParts
    <2> HIDE DEF x, y
    <2>4. LookOK(errand, worldAt, y)  BY <1>1, <2>2, <2>3 DEF LookOK
    <2> QED  BY <1>2, <2>1, <2>4, LookGoesOn
  <1>4. CASE ~\E w \in SaidAt(r) : w.faults = {}
    <2>1. LookTo(r, "refused")  BY <1>4 DEF ReadContracts, LookTo
    <2> QED  BY <2>1, StageGoesOn
  <1> QED  BY <1>3, <1>4

LEMMA ReadCoinsKeeps == ASSUME ObservedInv, NEW r \in Observers, ReadCoins(r)  PROVE ObservedInv'
  <1> DEFINE x == looks[r]
  <1>1. LookOK(errand, worldAt, x) /\ x.stage = "read" /\ errand.source = "wallet" /\ errand \in Errands
    BY DEF ObservedInv, ReadCoins
  <1>2. UNCHANGED <<errand, worldAt, branch>>  BY DEF ReadCoins, OnlyLooks
  <1>3. PICK missed : looks' = [looks EXCEPT ![r].stage = "check", ![r].seen = SaidAt(r), ![r].unread = missed]
    BY DEF ReadCoins
  <1> DEFINE y == [x EXCEPT !.stage = "check", !.seen = SaidAt(r), !.unread = missed]
  <1>4. looks' = [looks EXCEPT ![r] = y]  BY <1>3
  <1>5. DOMAIN y = LookParts /\ y.stage = "check" /\ y.block = x.block /\ y.seen = SaidAt(r)
    BY <1>1 DEF LookOK, LookParts
  <1>6. SaidAt(r) \subseteq {worldAt[x.block]}  BY SaidAtBlock
  <1> HIDE DEF x, y
  <1>7. LookOK(errand, worldAt, y)  BY <1>1, <1>5, <1>6 DEF LookOK
  <1> QED  BY <1>2, <1>4, <1>7, LookGoesOn

LEMMA PreparePlanKeeps == ASSUME ObservedInv, NEW r \in Observers, PreparePlan(r)  PROVE ObservedInv'
  <1> DEFINE x == looks[r]
  <1>1. LookOK(errand, worldAt, x) /\ x.stage = "plan"  BY DEF ObservedInv, PreparePlan
  <1>2. UNCHANGED <<errand, worldAt, branch>>  BY DEF PreparePlan, OnlyLooks
  <1>3. CASE \E w \in SaidAt(r) : Drafted(errand, w)
    <2>1. PICK w \in SaidAt(r) :
            looks' = [looks EXCEPT ![r].stage = "finish", ![r].seen = @ \union {w}, ![r].plan = PlanOf(errand, w)]
      BY <1>3 DEF PreparePlan
    <2>2. w = worldAt[x.block] /\ Drafted(errand, w)  BY <1>3, <2>1, SaidAtBlock
    <2> DEFINE y == [x EXCEPT !.stage = "finish", !.seen = x.seen \union {w}, !.plan = PlanOf(errand, w)]
    <2>3. looks' = [looks EXCEPT ![r] = y]  BY <2>1
    <2>4. /\ DOMAIN y = LookParts /\ y.stage = "finish" /\ y.block = x.block /\ y.seen = x.seen \union {w}
          /\ y.plan = PlanOf(errand, w)
      BY <1>1 DEF LookOK, LookParts
    <2> HIDE DEF x, y
    <2>5. LookOK(errand, worldAt, y)  BY <1>1, <2>2, <2>4 DEF LookOK
    <2> QED  BY <1>2, <2>3, <2>5, LookGoesOn
  <1>4. CASE ~\E w \in SaidAt(r) : Drafted(errand, w)
    <2>1. LookTo(r, "refused")  BY <1>4 DEF PreparePlan, LookTo
    <2> QED  BY <2>1, StageGoesOn
  <1> QED  BY <1>3, <1>4

LEMMA StageOnlyKeeps ==
  ASSUME ObservedInv, NEW r \in Observers,
         AskSource(r) \/ CheckBlock(r) \/ MakeTask(r) \/ FinishPlan(r) \/ LookFails(r)
  PROVE  ObservedInv'
  <1>1. errand.use \in {"report", "task", "plan"} /\ LookOK(errand, worldAt, looks[r])
    BY ErrandSources DEF ObservedInv
  <1>2. CASE AskSource(r)
    <2>1. looks[r].stage = "idle" /\ LookTo(r, "block")  BY <1>2 DEF AskSource
    <2> QED  BY <2>1, StageGoesOn
  <1>3. CASE CheckBlock(r)
    <2>1. looks[r].stage = "check"  BY <1>3 DEF CheckBlock
    <2>2. \/ LookTo(r, "refused")
          \/ LookTo(r, "given") /\ errand.use = "report"
          \/ LookTo(r, errand.use) /\ errand.use # "report"
      BY <1>3 DEF CheckBlock
    <2>3. CASE LookTo(r, "refused")  BY <2>3, StageGoesOn
    <2>4. CASE LookTo(r, "given") /\ errand.use = "report"  BY <2>1, <2>4, StageGoesOn
    <2>5. CASE LookTo(r, errand.use) /\ errand.use # "report"  BY <1>1, <2>1, <2>5, StageGoesOn
    <2> QED  BY <2>2, <2>3, <2>4, <2>5
  <1>4. CASE MakeTask(r)
    <2>1. looks[r].stage = "task" /\ (LookTo(r, "given") \/ LookTo(r, "refused"))  BY <1>4 DEF MakeTask
    <2>2. errand.use # "plan"  BY <1>1, <2>1 DEF LookOK
    <2> QED  BY <2>1, <2>2, StageGoesOn
  <1>5. CASE FinishPlan(r)
    <2>1. looks[r].stage = "finish" /\ (LookTo(r, "save") \/ LookTo(r, "refused"))  BY <1>5 DEF FinishPlan
    <2> QED  BY <2>1, StageGoesOn
  <1>6. CASE LookFails(r)
    <2>1. LookTo(r, "refused")  BY <1>6 DEF LookFails
    <2> QED  BY <2>1, StageGoesOn
  <1> QED  BY <1>2, <1>3, <1>4, <1>5, <1>6

LEMMA SavePlanKeeps == ASSUME ObservedInv, NEW r \in Observers, SavePlan(r)  PROVE ObservedInv'
  <1> DEFINE x == looks[r]
             stage == IF keptPlans < MaxKept THEN "given" ELSE "refused"
             y == [x EXCEPT !.stage = stage]
  <1>1. LookOK(errand, worldAt, x) /\ x.stage = "save"  BY DEF ObservedInv, SavePlan
  <1>2. looks' = [looks EXCEPT ![r] = y] /\ UNCHANGED <<errand, worldAt, branch>>  BY DEF SavePlan
  <1>3. stage \in {"given", "refused"}  OBVIOUS
  <1> HIDE DEF stage
  <1>4. DOMAIN y = LookParts /\ y.stage = stage /\ y.block = x.block /\ y.seen = x.seen /\ y.plan = x.plan
    BY <1>1 DEF LookOK, LookParts
  <1> HIDE DEF x, y
  <1>5. LookOK(errand, worldAt, y)  BY <1>1, <1>3, <1>4 DEF LookOK
  <1> QED  BY <1>2, <1>5, LookGoesOn

LEMMA SourceTickKeeps == ASSUME ObservedInv, SourceTick  PROVE ObservedInv'
  <1>1. errand' = errand /\ worldAt' = worldAt /\ branch' = branch  BY DEF SourceTick, OnlyLooks
  <1>2. DOMAIN looks' = Observers  BY DEF SourceTick
  <1>3. ASSUME NEW r \in Observers  PROVE LookOK(errand, worldAt, looks'[r])
    <2> DEFINE x == looks[r]
               y == [x EXCEPT !.age = @ + 1]
    <2>1. LookOK(errand, worldAt, x)  BY DEF ObservedInv
    <2>2. looks'[r] = x \/ looks'[r] = y  BY DEF SourceTick
    <2>3. DOMAIN y = LookParts /\ y.stage = x.stage /\ y.block = x.block /\ y.seen = x.seen /\ y.plan = x.plan
      BY <2>1 DEF LookOK, LookParts
    <2> HIDE DEF x, y
    <2>4. LookOK(errand, worldAt, y)  BY <2>1, <2>3 DEF LookOK
    <2> QED  BY <2>1, <2>2, <2>4
  <1> QED  BY <1>1, <1>2, <1>3 DEF ObservedInv

LEMMA WorldGoesOn ==
  ASSUME ObservedInv, Swap \/ OtherSaves \/ UNCHANGED observedVars  PROVE ObservedInv'
  <1>1. errand' = errand /\ worldAt' = worldAt /\ looks' = looks  BY DEF Swap, OtherSaves, observedVars
  <1>2. branch' \in 1 .. 2  BY DEF Swap, OtherSaves, observedVars, ObservedInv
  <1> QED  BY <1>1, <1>2 DEF ObservedInv

LEMMA ObservedGoesOn == ObservedSpec => []ObservedInv
  <1>1. ObservedInv /\ [ObservedNext]_observedVars => ObservedInv'
    <2> SUFFICES ASSUME ObservedInv, [ObservedNext]_observedVars  PROVE ObservedInv'  OBVIOUS
    <2> QED  BY ReadBlockKeeps, ReadContractsKeeps, ReadCoinsKeeps, PreparePlanKeeps, StageOnlyKeeps,
                SavePlanKeeps, SourceTickKeeps, WorldGoesOn DEF ObservedNext
  <1> QED  BY <1>1, ObservedStarts, PTL DEF ObservedSpec

LEMMA ActsByInv == ObservedInv => PlansActAsAsked
  <1> SUFFICES ASSUME ObservedInv, NEW r \in Given
               PROVE  LET w == worldAt[looks[r].block] IN
                      /\ looks[r].seen \subseteq {w}
                      /\ errand.use = "plan" => ActsAsAsked(errand, w, looks[r].plan)
                      /\ errand.source = "wallet" /\ Unvalued(w, looks[r].unread) = {} =>
                           Valued(w, looks[r].unread) = w.held["BNB"] + w.held["USDT"]
    BY DEF PlansActAsAsked
  <1> DEFINE w == worldAt[looks[r].block]
  <1>1. r \in Observers /\ looks[r].stage = "given" /\ LookOK(errand, worldAt, looks[r]) /\ errand \in Errands
    BY DEF Given, ObservedInv
  <1>2. looks[r].seen \subseteq {w} /\ looks[r].block \in 1 .. 2  BY <1>1 DEF LookOK
  <1>3. w \in Worlds(errand.source)
    <2>1. looks[r].block = 1 \/ looks[r].block = 2  BY <1>2
    <2> QED  BY <2>1 DEF ObservedInv
  <1>4. errand.source # "wallet" => w.faults = {}  BY <1>1 DEF LookOK
  <1>5. errand.use = "plan" => Drafted(errand, w) /\ looks[r].plan = PlanOf(errand, w) /\ errand.source # "wallet"
    BY <1>1 DEF LookOK, Errands
  <1> HIDE DEF w
  <1>6. errand.use = "plan" => ActsAsAsked(errand, w, looks[r].plan)
    BY <1>1, <1>3, <1>4, <1>5, PlanActs
  <1>7. errand.source = "wallet" /\ Unvalued(w, looks[r].unread) = {} =>
          Valued(w, looks[r].unread) = w.held["BNB"] + w.held["USDT"]
    BY <1>3, ValuedWhole
  <1> QED  BY <1>2, <1>6, <1>7 DEF w

\* PlansActAsAsked, for any number of requests that read while the chain changes between
\* its branches as often as it likes.
THEOREM PlansAlwaysAct == ObservedSpec => []PlansActAsAsked
  <1> QED  BY ObservedGoesOn, ActsByInv, PTL

===============================================================================
