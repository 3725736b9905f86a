---------------------------- MODULE PgStoreProofs ----------------------------
(***************************************************************************)
(* What PgStore's transactions keep, for any number of connections and of  *)
(* transactions: uses are counted once each, an expected version holds, a  *)
(* candidate ends in one way, single operations deadlock only over the     *)
(* rows of two statements of one kind that change several, and the tables  *)
(* implement AuditedStore.                                                 *)
(***************************************************************************)
EXTENDS PgStore, FiniteSetTheorems, SequenceTheorems, TLAPS

-----------------------------------------------------------------------------
(* Calls and scripts.                                                      *)

Rows == Row \cup {NoRow}
Written == Texts \cup {""}      \* what a call names as text

Operations == Reading \cup Creating
                \cup {"deleteExpiredKnowledgeCandidates", "lockCandidate", "promoteCandidate"}

\* Candidates that may expire, and rows that nothing deletes.
Expirable == {"candidate", "candidate1"}
Lasting == Old \ ({"item"} \cup Expirable)

\* Operations that are always a transaction of their own, of one row or of several.
Solo == {"touchKnowledgeMemory", "recordPlaybookUse", "updateWorkItem", "updateWorkItemStatus",
         "deleteWorkItem", "deleteAssociation"}
Own == Solo \cup Batch

OnItem == {"updateWorkItem", "updateWorkItemStatus", "deleteWorkItem"}
OnAssociation == {"insertAssociation", "deleteAssociation"}
OnCandidate == {"deleteExpiredKnowledgeCandidates", "lockCandidate", "promoteCandidate"}
OnFact == {"touchKnowledgeMemory", "touchKnowledgeMemories", "updateKnowledgeMemory",
           "retireKnowledgeMemory", "supersedeKnowledgeMemory"}
OnPlaybook == {"recordPlaybookUse", "insertPlaybookRevision", "updatePlaybook"}

\* A call of an operation names a row of the operation's table.
Calls ==
    {c \in [op : Operations, key : Keys \ Revisions, text : Written,
            status : {"", "done"}, expect : 0..2] :
        /\ c.op \in Creating => c.key \in New
        /\ c.op \in Reading => c.key \in Lasting \cup {"item", "association"}
        /\ c.key = "item" <=> c.op \in OnItem
        /\ c.key = "association" <=> c.op \in OnAssociation
        /\ c.key \in Expirable => c.op \in OnCandidate
        /\ c.op \in OnCandidate => c.key \in Expirable \cup {"candidate2"}
        /\ c.key \in {"fact", "fact1"} <=> c.op \in OnFact
        /\ c.op \in Batch => c.key \in RowsOf[c.op]
        /\ c.key = "playbook" <=> c.op \in OnPlaybook
        /\ c.op = "updateWorkItemStatus" => c.status = "done"}

\* What a kind of transaction may run.
Running(kind, script) ==
    /\ kind \in AllWork
    /\ script \in Seq(Calls) /\ script # <<>>
    /\ \A i \in 1..Len(script) :
         /\ script[i].op \in Own => kind = script[i].op
         /\ kind \in Own => script[i].op = kind
    /\ kind \in Solo => Len(script) = 1
    /\ kind \in Batch => Len(script) = 2 /\ script[1].key # script[2].key
    /\ kind = "promoteKnowledgeCandidate" => script = Promotion("candidate")
    /\ kind \notin Composite \cup Batch \cup {"promoteKnowledgeCandidate"} =>
         Len(script) = 1 /\ script[1].op # "lockCandidate"

-----------------------------------------------------------------------------
(* Types.                                                                  *)

Event == [id : Nat, key : Keys, after : Rows, type : Operations \cup {"created"}]
Pendings == {<<>>} \cup {<<k>> : k \in Keys} \cup {<<k, l>> : k, l \in Keys}
Mine == UNION {[D -> Rows] : D \in SUBSET Keys}
Tx == [kind : AllWork \cup {"none"}, script : Seq(Calls), at : Nat,
       pc : {"idle", "read", "write", "log", "mark", "commit"}, before : Rows, seen : Text,
       mine : Mine, events : SUBSET Event, pending : Pendings]

TypeOK ==
    /\ table \in [Keys -> Rows]
    /\ log \in SUBSET Event /\ IsFiniteSet(log)
    /\ lastId \in Nat
    /\ lock \in [Keys \cup {"watermark"} -> Process \cup {Free}]
    /\ tx \in [Process -> Tx]
    /\ started \in Nat

-----------------------------------------------------------------------------
(* The tables and the log.                                                 *)

\* A row that is locked is there, and most rows always are.
Standing ==
    /\ \A k \in Lasting : table[k] # NoRow
    /\ \A k \in Old : lock[k] # Free => table[k] # NoRow

\* The association is there until its deletion is logged.
AssociationStands ==
    Known("association") /\ (\A e \in log : e.type # "deleteAssociation")
        => table["association"] # NoRow

\* What the log says of the candidate's end is what the table shows.
CandidateEnds ==
    \A e \in log :
        /\ e.type = "promoteCandidate" /\ e.key \in Expirable => table[e.key].text = "promoted"
        /\ e.type = "deleteExpiredKnowledgeCandidates" =>
             e.key \in Expirable /\ table[e.key] = NoRow

Numbered == \A e \in log : e.id <= lastId

-----------------------------------------------------------------------------
(* A transaction.                                                          *)

Writes(p) == DOMAIN tx[p].mine
Awaiting(p) == {tx[p].pending[i] : i \in 1..Len(tx[p].pending)}

\* The rows that a call logs, or the statement that it is a part of.
Named(k, c) ==
    \/ k = c.key
    \/ k \in Revisions /\ c.op = "insertPlaybookRevision"
    \/ c.op \in Batch /\ k \in RowsOf[c.op]

\* A transaction is where its script, its next step and what it has to log agree.
Pace(p) ==
    /\ tx[p].pc = "idle" => tx[p] = Idle
    /\ tx[p].pc # "idle" => Running(tx[p].kind, tx[p].script)
    /\ tx[p].pc \in {"read", "write", "log", "mark"} => tx[p].at \in 1..Len(tx[p].script)
    /\ tx[p].pc = "read" => Call1(p).op \in Reading \cup {"lockCandidate"}
    /\ tx[p].pc \in {"write", "log", "mark"} => Call1(p).op # "lockCandidate"
    /\ tx[p].pc = "log" => tx[p].pending # <<>>
    /\ tx[p].pc \notin {"log", "mark"} =>
         tx[p].pending = <<>> \/ (tx[p].pc = "write" /\ tx[p].kind \in Batch)
    /\ \A k \in Awaiting(p) : Named(k, Call1(p))

\* It begins with nothing written, logged or locked.
First(p) ==
    /\ tx[p].pc = "idle" \/ (tx[p].at = 1 /\ tx[p].pc \in {"read", "write"}) =>
         Writes(p) = {} /\ tx[p].events = {} /\ \A k \in DOMAIN lock : lock[k] # p
    /\ tx[p].kind \in Solo /\ tx[p].pc = "log" => tx[p].events = {} /\ Len(tx[p].pending) = 1
    /\ tx[p].kind \in Solo /\ tx[p].pc = "mark" => tx[p].pending = <<>>

\* A statement on several rows comes to each of them once, has no other lock on its way,
\* and logs them afterwards.
Sweep(p) ==
    tx[p].kind \in Batch =>
        /\ tx[p].pc \in {"read", "write"} =>
             /\ tx[p].events = {}
             /\ \A k \in DOMAIN lock : lock[k] = p => k \in RowsOf[tx[p].kind]
        /\ tx[p].pc = "write" =>
             \A k \in Writes(p) \cup Awaiting(p) : tx[p].at = 2 /\ k = tx[p].script[1].key
        /\ tx[p].pc = "read" => tx[p].at = 1
        /\ tx[p].pc \in {"log", "mark"} => tx[p].at = 2
        /\ Len(tx[p].pending) = 2 => tx[p].pending[1] # tx[p].pending[2]
        /\ \A e \in tx[p].events :
             /\ e.key \notin Awaiting(p)
             /\ \A f \in tx[p].events : e.key = f.key => e = f

\* What it has written it has locked; a revision is nobody else's.
Held(p) ==
    \A k \in Writes(p) : IF k \in Revisions THEN ~Known(k) ELSE lock[k] = p

\* An operation that logs a row only if it read it read every row that is there.
Seen(p) ==
    tx[p].pc = "write" /\ Call1(p).op \in Reading =>
        tx[p].before # NoRow \/ (Call1(p).key = "item" /\ table["item"] = NoRow)

\* The row of a work item that was gone before its deletion.
GoneBefore(p, k) ==
    tx[p].kind = "deleteWorkItem" /\ k = "item" /\ k \notin Writes(p) /\ table["item"] = NoRow

\* What it has written is logged, or will be before the next statement.
Logged(p) ==
    /\ \A k \in Writes(p) :
         \/ k \in Awaiting(p)
         \/ \E e \in tx[p].events :
              /\ e.key = k /\ e.after = tx[p].mine[k]
              /\ \A f \in tx[p].events : f.key = k => f.id <= e.id
    /\ \A k \in Awaiting(p) : k \in Writes(p) \/ GoneBefore(p, k)
    /\ \A e \in tx[p].events :
         e.key \in Writes(p) \/ (GoneBefore(p, e.key) /\ e.after = NoRow)

\* Its events are its calls', numbered apart, and later than what the log has of the row.
Events(p) ==
    /\ IsFiniteSet(tx[p].events)
    /\ \A e \in tx[p].events :
         /\ e.id > 0 /\ e.id <= lastId
         /\ \E i \in 1..Len(tx[p].script) :
              /\ e.type = tx[p].script[i].op
              /\ Named(e.key, tx[p].script[i])
         /\ \A f \in tx[p].events : e.id = f.id => e = f
         /\ \A f \in log :
              /\ e.id # f.id
              /\ e.key = f.key => f.id < e.id \/ f.after = e.after
    /\ tx[p].kind \in Solo => \A e, f \in tx[p].events : e = f

\* Rows that nothing deletes stay, and the association goes by its deletion only.
Kept(p) ==
    /\ \A k \in Writes(p) \cap Lasting : tx[p].mine[k] # NoRow
    /\ tx[p].kind = "deleteAssociation" =>
         Known("association") /\ \A e \in log : e.type # "deleteAssociation"
    /\ "association" \in Writes(p) /\ tx[p].mine["association"] = NoRow =>
         tx[p].kind = "deleteAssociation"

Counting == [fact |-> {"touchKnowledgeMemory", "touchKnowledgeMemories"},
             fact1 |-> {"touchKnowledgeMemory", "touchKnowledgeMemories"},
             playbook |-> {"recordPlaybookUse"},
             item |-> {"updateWorkItem", "updateWorkItemStatus"}]
Counted == {"fact", "fact1", "playbook", "item"}

\* A use adds one to the row as it was committed last, all else leaves the count.
Counts(p) ==
    /\ \A k \in Counted \cap Writes(p) :
         IF tx[p].kind \in Counting[k] THEN tx[p].mine[k].count = table[k].count + 1
         ELSE tx[p].mine[k] = NoRow \/ tx[p].mine[k].count = table[k].count
    /\ tx[p].kind = "updateWorkItem" /\ "item" \in Writes(p) /\ tx[p].script[1].expect # 0 =>
         table["item"].count = tx[p].script[1].expect

\* A candidate is deleted as it was never promoted, or promoted.
Ends(p) ==
    \A k \in Expirable \cap Writes(p) :
        IF tx[p].kind = "deleteExpiredKnowledgeCandidates"
        THEN tx[p].mine[k] = NoRow /\ table[k].text # "promoted"
        ELSE tx[p].mine[k].text = "promoted"

\* promoteKnowledgeCandidate has the candidate's lock before any other, if it is there.
CandidateFirst(p) ==
    tx[p].kind = "promoteKnowledgeCandidate" /\ tx[p].at > 1 =>
        /\ lock["candidate"] = p \/ table["candidate"] = NoRow
        /\ tx[p].at = 2 /\ tx[p].pc = "write" => \A k \in DOMAIN lock : lock[k] = p => k = "candidate"

Local(p) ==
    /\ Pace(p) /\ First(p) /\ Held(p) /\ Seen(p) /\ Logged(p) /\ Events(p) /\ Kept(p)
    /\ Counts(p) /\ Ends(p) /\ CandidateFirst(p) /\ Sweep(p)

\* What two transactions have is apart.
Apart(p, q) ==
    /\ Writes(p) \cap Writes(q) = {}
    /\ \A e \in tx[p].events, f \in tx[q].events : e.id # f.id
    /\ ~(tx[p].kind = "deleteAssociation" /\ tx[q].kind = "deleteAssociation")

IInv ==
    /\ TypeOK /\ Standing /\ AssociationStands /\ CandidateEnds /\ Numbered /\ CountersExact
    /\ \A p \in Process : Local(p)
    /\ \A p, q \in Process : p # q => Apart(p, q)

-----------------------------------------------------------------------------
(* Calls and scripts.                                                      *)

\* The operations and the rows that their calls name.
Names(op, key) ==
    \/ op = "insertTurn" /\ key \in {"turn2", "turn3"}
    \/ op = "insertWorkingMemory" /\ key = "wm2"
    \/ op = "archiveTurn" /\ key = "turn"
    \/ op \in {"expireWorkingMemory", "markWorkingMemoryPromoted"} /\ key = "wm"
    \/ op = "insertKnowledgeMemory" /\ key = "fact2"
    \/ op \in OnFact \ Batch /\ key = "fact"
    \/ op \in Batch /\ key \in RowsOf[op]
    \/ op = "insertKnowledgeCandidate" /\ key = "candidate2"
    \/ op \in {"lockCandidate", "promoteCandidate"} /\ key \in {"candidate", "candidate2"}
    \/ op = "insertWorkItem" /\ key = "item2"
    \/ op \in OnItem /\ key = "item"
    \/ op = "insertPlaybook" /\ key = "playbook2"
    \/ op \in OnPlaybook /\ key = "playbook"
    \/ op \in OnAssociation /\ key = "association"
    \/ op = "insertSourceDocument" /\ key = "document2"
    \/ op = "updateSourceDocument" /\ key = "document"
    \/ op = "upsertSessionState" /\ key = "session"

LEMMA Batches ==
    /\ Batch = {"touchKnowledgeMemories", "deleteExpiredKnowledgeCandidates"}
    /\ RowsOf["touchKnowledgeMemories"] = {"fact", "fact1"}
    /\ RowsOf["deleteExpiredKnowledgeCandidates"] = Expirable
    /\ Expirable = {"candidate", "candidate1"}
  BY DEF Batch, RowsOf, Expirable

LEMMA NamedCalls ==
    ASSUME NEW op, NEW key, Names(op, key), NEW t \in Written, NEW s \in {"", "done"},
           NEW v \in 0..2, op = "updateWorkItemStatus" => s = "done"
    PROVE  [op |-> op, key |-> key, text |-> t, status |-> s, expect |-> v] \in Calls
  <1> USE DEF Names, OnItem, OnAssociation, OnCandidate, OnFact, OnPlaybook
  <1>1. op \in Operations
    BY Batches DEF Operations, Reading, Creating
  <1>2. key \in Keys \ Revisions
    BY Batches DEF Keys, Revisions, New, Old
  <1>3. [op |-> op, key |-> key, text |-> t, status |-> s, expect |-> v]
          \in [op : Operations, key : Keys \ Revisions, text : Written,
               status : {"", "done"}, expect : 0..2]
    BY <1>1, <1>2
  <1>4. op \in Creating => key \in New
    BY Batches DEF Creating, New
  <1>5. op \in Reading => key \in Lasting \cup {"item", "association"}
    BY Batches DEF Reading, Lasting, Old
  <1>6. /\ key = "item" <=> op \in OnItem
        /\ key = "association" <=> op \in OnAssociation
    BY Batches
  <1>7. /\ key \in Expirable => op \in OnCandidate
        /\ op \in OnCandidate => key \in Expirable \cup {"candidate2"}
        /\ op \in Batch => key \in RowsOf[op]
    BY Batches
  <1>8. /\ key \in {"fact", "fact1"} <=> op \in OnFact
        /\ key = "playbook" <=> op \in OnPlaybook
    BY Batches
  <1> HIDE DEF Names, OnItem, OnAssociation, OnCandidate, OnFact, OnPlaybook
  <1> QED
    BY <1>3, <1>4, <1>5, <1>6, <1>7, <1>8 DEF Calls

LEMMA ACall ==
    ASSUME NEW op, NEW key, Names(op, key), op # "updateWorkItemStatus"
    PROVE  Call(op, key) \in Calls
  <1>1. "" \in Written
    BY DEF Written
  <1>2. "" \in {"", "done"} /\ 0 \in 0..2
    OBVIOUS
  <1> QED
    BY <1>1, <1>2, NamedCalls DEF Call

\* Every script is one that Running describes.
LEMMA SoloScripts ==
    ASSUME NEW kind \in DOMAIN KeyOf, NEW script \in Scripts(kind)
    PROVE  Running(kind, script)
  <1>1. script = <<Call(kind, KeyOf[kind])>>
    BY Batches DEF Scripts, KeyOf
  <1>2. Names(kind, KeyOf[kind]) /\ kind \notin Batch \cup {"lockCandidate", "updateWorkItemStatus",
                                                            "promoteKnowledgeCandidate"}
    BY Batches DEF KeyOf, Names, OnItem, OnAssociation, OnFact, OnPlaybook
  <1>3. Call(kind, KeyOf[kind]) \in Calls
    BY <1>2, ACall
  <1>4. Call(kind, KeyOf[kind]).op = kind
    BY DEF Call
  <1> QED
    BY <1>1, <1>2, <1>3, <1>4, Batches DEF Running, AllWork, Own, Solo

LEMMA BatchScripts ==
    ASSUME NEW kind \in Batch, NEW script \in Scripts(kind)
    PROVE  Running(kind, script)
  <1>1. PICK k, l \in RowsOf[kind] : k # l /\ script = <<Call(kind, k), Call(kind, l)>>
    <2>1. script \in {<<Call(kind, k[1]), Call(kind, k[2])>> :
                        k \in {l \in RowsOf[kind] \X RowsOf[kind] : l[1] # l[2]}}
      BY Batches DEF Scripts, KeyOf
    <2> QED
      BY <2>1
  <1>2. Call(kind, k) \in Calls /\ Call(kind, l) \in Calls
    BY <1>1, ACall, Batches DEF Names
  <1>3. Call(kind, k).op = kind /\ Call(kind, l).op = kind /\ Call(kind, k).key # Call(kind, l).key
    BY <1>1 DEF Call
  <1>4. kind \notin Solo \cup {"promoteKnowledgeCandidate"}
    BY Batches DEF Solo
  <1> QED
    BY <1>1, <1>2, <1>3, <1>4 DEF Running, AllWork, Own

LEMMA ItemScripts ==
    ASSUME NEW kind \in {"updateWorkItem", "updateWorkItemStatus"}, NEW script \in Scripts(kind)
    PROVE  Running(kind, script)
  <1>1. Names(kind, "item")
    BY DEF Names, OnItem
  <1>2. \E c \in Calls : script = <<c>> /\ c.op = kind
    <2>1. CASE kind = "updateWorkItem"
      <3>1. PICK d \in Patches : script = <<d>>
        <4>1. script \in {<<c>> : c \in Patches}
          BY <2>1, Batches DEF Scripts, KeyOf
        <4> QED
          BY <4>1
      <3>2. d = [op |-> kind, key |-> "item", text |-> d.text, status |-> d.status, expect |-> d.expect]
        BY <2>1, <3>1 DEF Patches
      <3>3. d.text \in Written /\ d.status \in {"", "done"} /\ d.expect \in 0..2
        BY <3>1 DEF Patches, Written
      <3>4. [op |-> kind, key |-> "item", text |-> d.text, status |-> d.status, expect |-> d.expect]
              \in Calls
        BY <1>1, <2>1, <3>3, NamedCalls
      <3> QED
        BY <2>1, <3>1, <3>2, <3>4
    <2>2. CASE kind = "updateWorkItemStatus"
      <3>1. script = <<[Call(kind, "item") EXCEPT !.status = "done"]>>
        BY <2>2, Batches DEF Scripts, KeyOf
      <3> PICK d : d = [Call(kind, "item") EXCEPT !.status = "done"]
        OBVIOUS
      <3>2. d = [op |-> kind, key |-> "item", text |-> "", status |-> "done", expect |-> 0]
        BY DEF Call
      <3>3. "" \in Written /\ "done" \in {"", "done"} /\ 0 \in 0..2
        BY DEF Written
      <3>4. [op |-> kind, key |-> "item", text |-> "", status |-> "done", expect |-> 0] \in Calls
        BY <1>1, <3>3, NamedCalls
      <3> QED
        BY <3>1, <3>2, <3>4
    <2> QED
      BY <2>1, <2>2
  <1>3. PICK c \in Calls : script = <<c>> /\ c.op = kind
    BY <1>2
  <1> QED
    BY <1>3, Batches DEF Running, AllWork, Own, Solo

LEMMA TextScripts ==
    ASSUME NEW kind \in {"updatePlaybook", "upsertSessionState"}, NEW script \in Scripts(kind)
    PROVE  Running(kind, script)
  <1>1. PICK t \in Written, key \in {"playbook", "session"} :
          /\ script = <<[Call(kind, key) EXCEPT !.text = t]>>
          /\ Names(kind, key)
    <2> Texts \subseteq Written
      BY DEF Written
    <2>1. CASE kind = "updatePlaybook"
      BY <2>1, Batches DEF Scripts, KeyOf, Names, OnPlaybook
    <2>2. CASE kind = "upsertSessionState"
      BY <2>2, Batches DEF Scripts, KeyOf, Names
    <2> QED
      BY <2>1, <2>2
  <1> PICK d : d = [Call(kind, key) EXCEPT !.text = t]
    OBVIOUS
  <1>2. d = [op |-> kind, key |-> key, text |-> t, status |-> "", expect |-> 0]
    BY DEF Call
  <1>3. t \in Written /\ "" \in {"", "done"} /\ 0 \in 0..2
    OBVIOUS
  <1>4. [op |-> kind, key |-> key, text |-> t, status |-> "", expect |-> 0] \in Calls
    BY <1>1, <1>3, NamedCalls
  <1>5. PICK c \in Calls : script = <<c>> /\ c.op = kind
    BY <1>1, <1>2, <1>4
  <1> QED
    BY <1>5, Batches DEF Running, AllWork, Own, Solo

LEMMA PromotionCalls ==
    ASSUME NEW k \in {"candidate", "candidate2"}
    PROVE  /\ Promotion(k) \in Seq(Calls) /\ Len(Promotion(k)) = 3
           /\ Promotion(k)[1].op = "lockCandidate" /\ Promotion(k)[1].key = k
           /\ Promotion(k)[2].op = "insertKnowledgeMemory" /\ Promotion(k)[2].key = "fact2"
           /\ Promotion(k)[3].op = "promoteCandidate" /\ Promotion(k)[3].key = k
  <1>1. Call("lockCandidate", k) \in Calls /\ Call("promoteCandidate", k) \in Calls
    BY ACall DEF Names
  <1>2. Call("insertKnowledgeMemory", "fact2") \in Calls
    BY ACall DEF Names
  <1>3. Promotion(k) \in Seq(Calls) /\ Len(Promotion(k)) = 3
    BY <1>1, <1>2 DEF Promotion
  <1> QED
    BY <1>3 DEF Promotion, Call

LEMMA PromotionScript ==
    ASSUME NEW script \in Scripts("promoteKnowledgeCandidate")
    PROVE  Running("promoteKnowledgeCandidate", script)
  <1>1. script = Promotion("candidate")
    BY Batches DEF Scripts, KeyOf
  <1>2. \A i \in 1..3 : script[i].op \notin Own
    BY <1>1, PromotionCalls, Batches DEF Own, Solo
  <1>3. script \in Seq(Calls) /\ Len(script) = 3
    BY <1>1, PromotionCalls
  <1> QED
    BY <1>1, <1>2, <1>3, Batches DEF Running, AllWork, Own, Solo

\* A sequence of three between one and two more.
LEMMA Joined ==
    ASSUME NEW S, NEW a \in S, NEW P \in Seq(S), Len(P) = 3, NEW y \in S, NEW z \in S
    PROVE  /\ <<a>> \o P \o <<y, z>> \in Seq(S)
           /\ Len(<<a>> \o P \o <<y, z>>) = 6
           /\ \A i \in 1..6 : (<<a>> \o P \o <<y, z>>)[i] \in {a, P[1], P[2], P[3], y, z}
  <1>1. <<a>> \in Seq(S) /\ Len(<<a>>) = 1 /\ <<y, z>> \in Seq(S) /\ Len(<<y, z>>) = 2
    OBVIOUS
  <1> PICK q : q = <<a>>
    OBVIOUS
  <1> PICK r : r = <<y, z>>
    OBVIOUS
  <1> PICK s : s = q \o P
    OBVIOUS
  <1> PICK t : t = s \o r
    OBVIOUS
  <1>2. q[1] = a /\ r[1] = y /\ r[2] = z
    OBVIOUS
  <1>3. s \in Seq(S) /\ Len(s) = 4
    <2>1. q \in Seq(S) /\ Len(q) = 1
      BY <1>1
    <2>2. s \in Seq(S) /\ Len(s) = Len(q) + Len(P)
      BY <2>1, ConcatProperties, Zenon
    <2> QED
      BY <2>1, <2>2
  <1>4. t \in Seq(S) /\ Len(t) = 6
    BY <1>1, <1>3, ConcatProperties
  <1>5. \A i \in 1..4 : s[i] \in {a, P[1], P[2], P[3]}
    BY <1>1, <1>2, ConcatProperties
  <1>6. \A i \in 1..6 : t[i] \in {a, P[1], P[2], P[3], y, z}
    BY <1>1, <1>2, <1>3, <1>5, ConcatProperties
  <1> QED
    BY <1>4, <1>6

LEMMA CompositeScripts ==
    ASSUME NEW kind \in Composite, NEW script \in Scripts(kind)
    PROVE  Running(kind, script)
  <1>1. CASE kind \in {"insertTurns", "compact"}
    <2>1. Call("insertTurn", "turn2") \in Calls /\ Call("insertTurn", "turn3") \in Calls
      BY ACall DEF Names
    <2>2. Call("insertWorkingMemory", "wm2") \in Calls /\ Call("archiveTurn", "turn") \in Calls
      BY ACall DEF Names
    <2>3. PICK c \in Calls, d \in Calls : script = <<c, d>> /\ c.op \notin Own /\ d.op \notin Own
      BY <1>1, <2>1, <2>2, Batches DEF Scripts, KeyOf, Call, Own, Solo
    <2> QED
      BY <1>1, <2>3, Batches DEF Running, AllWork, Own, Solo, Composite
  <1>2. CASE kind = "revise"
    <2>1. Call("insertPlaybookRevision", "playbook") \in Calls
      BY ACall DEF Names, OnPlaybook
    <2>2. PICK t \in Written : script = Revise(t)
      BY <1>2, Batches DEF Scripts, KeyOf, Written
    <2>3. t \in Written /\ "" \in {"", "done"} /\ 0 \in 0..2
      OBVIOUS
    <2>4. [op |-> "updatePlaybook", key |-> "playbook", text |-> t, status |-> "", expect |-> 0] \in Calls
      BY <2>3, NamedCalls DEF Names, OnPlaybook
    <2> PICK u : u = [Call("updatePlaybook", "playbook") EXCEPT !.text = t]
      OBVIOUS
    <2>5. u = [op |-> "updatePlaybook", key |-> "playbook", text |-> t, status |-> "", expect |-> 0]
      BY DEF Call
    <2>6. PICK c \in Calls, d \in Calls : script = <<c, d>> /\ c.op \notin Own /\ d.op \notin Own
      <3> PICK first : first = Call("insertPlaybookRevision", "playbook")
        OBVIOUS
      <3>1. script = <<first, u>>
        BY <2>2, Zenon DEF Revise
      <3>2. first.op = "insertPlaybookRevision" /\ u.op = "updatePlaybook"
        BY <2>5 DEF Call
      <3>3. first.op \notin Own /\ u.op \notin Own
        BY <3>2, Batches DEF Own, Solo
      <3> QED
        BY <2>1, <2>4, <2>5, <3>1, <3>3
    <2> QED
      BY <1>2, <2>6, Batches DEF Running, AllWork, Own, Solo, Composite
  <1>3. CASE kind = "learn"
    <2>1. Call("insertKnowledgeCandidate", "candidate2") \in Calls
      BY ACall DEF Names
    <2>2. Call("supersedeKnowledgeMemory", "fact") \in Calls
      BY ACall, Batches DEF Names, OnFact
    <2>3. Call("insertAssociation", "association") \in Calls
      BY ACall DEF Names, OnAssociation
    <2> PICK P : P = Promotion("candidate2")
      OBVIOUS
    <2>4. /\ P \in Seq(Calls) /\ Len(P) = 3
          /\ P[1].op \notin Own /\ P[2].op \notin Own /\ P[3].op \notin Own
      BY PromotionCalls, Batches DEF Own, Solo
    <2>5. PICK a \in Calls, y \in Calls, z \in Calls :
            /\ script = <<a>> \o P \o <<y, z>>
            /\ a.op \notin Own /\ y.op \notin Own /\ z.op \notin Own
      <3>1. script = Learn
        BY <1>3, Batches DEF Scripts, KeyOf
      <3>2. /\ Call("insertKnowledgeCandidate", "candidate2").op \notin Own
            /\ Call("supersedeKnowledgeMemory", "fact").op \notin Own
            /\ Call("insertAssociation", "association").op \notin Own
        BY Batches DEF Call, Own, Solo
      <3> QED
        BY <2>1, <2>2, <2>3, <3>1, <3>2 DEF Learn
    <2>8. script \in Seq(Calls) /\ Len(script) = 6
      BY <2>4, <2>5, Joined
    <2>9. \A i \in 1..6 : script[i].op \notin Own
      BY <2>4, <2>5, Joined
    <2>10. kind \in AllWork /\ kind \notin Own
      BY <1>3, Batches DEF AllWork, Composite, Own, Solo
    <2> QED
      BY <1>3, <2>8, <2>9, <2>10 DEF Running, Own, Composite
  <1> QED
    BY <1>1, <1>2, <1>3 DEF Composite

LEMMA ScriptsRun ==
    ASSUME NEW kind \in AllWork, NEW script \in Scripts(kind)
    PROVE  Running(kind, script)
  BY SoloScripts, BatchScripts, ItemScripts, TextScripts, PromotionScript, CompositeScripts DEF AllWork


-----------------------------------------------------------------------------
(* What a statement makes of a row.                                        *)

Removing == Deleting \cup {"deleteExpiredKnowledgeCandidates"}
Using == {"touchKnowledgeMemory", "touchKnowledgeMemories", "recordPlaybookUse", "updateWorkItem",
          "updateWorkItemStatus"}

LEMMA RowsApart == NoRow \notin Row
  BY DEF NoRow, Row

LEMMA TextNames == Written \subseteq Text /\ "" \in Text /\ "retired" \in Text /\ "promoted" \in Text
  BY DEF Written, Text

LEMMA FreshRow == Fresh \in Row
  BY DEF Fresh, Row, Text

\* A new row.
LEMMA Created ==
    ASSUME NEW c \in Calls, NEW row \in Rows, NEW before \in Rows, c.op \in Creating
    PROVE  Effect(c, row, before) \in Row
  <1>1. Fresh \in Row
    BY FreshRow
  <1>2. c.text \in Text
    BY DEF Calls, Written, Text
  <1>3. CASE c.op = "insertWorkItem"
    <2>1. Effect(c, row, before) = [text |-> "", status |-> "active", count |-> 1]
      BY <1>3 DEF Effect, InsertWorkItem, Fresh
    <2>2. [text |-> "", status |-> "active", count |-> 1] \in Row
      <3>1. "" \in Text /\ 1 \in Nat
        BY TextNames
      <3> QED
        BY <3>1 DEF Row
    <2> QED
      BY <2>1, <2>2
  <1>4. CASE c.op = "upsertSessionState"
    <2>1. Effect(c, row, before) = [text |-> c.text, status |-> "active", count |-> 0]
      BY <1>4 DEF Effect, UpsertSessionState, Fresh
    <2> QED
      BY <1>2, <2>1 DEF Row
  <1>5. CASE c.op \notin {"insertWorkItem", "upsertSessionState"}
    BY <1>1, <1>5 DEF Effect, Creating, InsertTurn, InsertWorkingMemory, InsertKnowledgeMemory,
       InsertKnowledgeCandidate, InsertPlaybook, InsertAssociation, InsertSourceDocument
  <1> QED
    BY <1>3, <1>4, <1>5

\* A row that is there, changed: only a use adds to its count.
LEMMA Updated ==
    ASSUME NEW c \in Calls, NEW row \in Row, NEW before \in Rows,
           c.op \in Operations \ (Creating \cup Removing \cup {"lockCandidate"}),
           c.op = "updateWorkItem" => before # NoRow
    PROVE  /\ Effect(c, row, before) \in Row
           /\ Effect(c, row, before).count =
                IF c.op \in Using THEN row.count + 1 ELSE row.count
           /\ c.op = "promoteCandidate" => Effect(c, row, before).text = "promoted"
  <1> USE DEF Using
  <1>1. row = [text |-> row.text, status |-> row.status, count |-> row.count]
    BY DEF Row
  <1>2. c.text \in Text /\ c.status \in {"", "done"} /\ (c.op = "updateWorkItemStatus" => c.status = "done")
    BY DEF Calls, Written, Text
  <1> PICK e : e = Effect(c, row, before)
    OBVIOUS
  <1>3. CASE c.op = "updateWorkItem"
    <2>1. before \in Row
      BY <1>3 DEF Rows
    <2>2. PICK t, s :
            /\ t \in {before.text, c.text} /\ s \in {before.status, c.status} /\ s # ""
            /\ e = [text |-> t, status |-> s, count |-> row.count + 1]
      <3>1. before.status # ""
        BY <2>1 DEF Row
      <3> QED
        BY <1>3, <3>1 DEF Effect, UpdateWorkItem
    <2>3. t \in Text
      BY <1>2, <2>1, <2>2 DEF Row
    <2>4. s \in {"done", before.status}
      BY <1>2, <2>2
    <2>5. row.count + 1 \in Nat
      BY DEF Row
    <2>6. [text |-> t, status |-> s, count |-> row.count + 1] \in Row
      <3>1. before.status \in {"active", "archived", "expired", "superseded", "disputed", "provisional",
                                "done", "processed", "revised"}
        BY <2>1 DEF Row
      <3> QED
        BY <2>3, <2>4, <2>5, <3>1 DEF Row
    <2>7. e \in Row
      BY <2>2, <2>6, Zenon
    <2>8. e.count = row.count + 1
      <3>1. e = [text |-> t, status |-> s, count |-> row.count + 1]
        BY <2>2
      <3> QED
        BY <3>1
    <2> QED
      BY <1>3, <2>7, <2>8
  <1>4. CASE c.op \in {"touchKnowledgeMemory", "touchKnowledgeMemories", "recordPlaybookUse"}
    <2>1. e = [row EXCEPT !.count = @ + 1]
      BY <1>4 DEF Effect, TouchKnowledgeMemory, TouchKnowledgeMemories, RecordPlaybookUse
    <2> QED
      BY <1>4, <2>1 DEF Row
  <1>5. CASE c.op = "updateWorkItemStatus"
    <2>1. e = [row EXCEPT !.status = "done", !.count = @ + 1]
      BY <1>2, <1>5 DEF Effect, UpdateWorkItemStatus
    <2>2. e = [text |-> row.text, status |-> "done", count |-> row.count + 1]
      BY <1>1, <2>1
    <2> QED
      BY <1>5, <2>2 DEF Row
  <1>6. CASE c.op = "promoteCandidate"
    <2>1. e = [row EXCEPT !.status = "provisional", !.text = "promoted"]
      BY <1>6 DEF Effect, PromoteCandidate
    <2>2. e = [text |-> "promoted", status |-> "provisional", count |-> row.count]
      BY <1>1, <2>1
    <2>3. PICK t \in Text : t = "promoted"
      BY TextNames
    <2>4. e = [text |-> t, status |-> "provisional", count |-> row.count]
      BY <2>2, <2>3
    <2>5. e \in Row
      BY <1>1, <2>4 DEF Row
    <2>6. e.count = row.count /\ e.text = "promoted"
      BY <2>2
    <2> QED
      BY <1>6, <2>5, <2>6
  <1>7. CASE c.op = "supersedeKnowledgeMemory"
    <2>1. e = [row EXCEPT !.status = "superseded", !.text = "retired"]
      BY <1>7 DEF Effect, SupersedeKnowledgeMemory
    <2>2. e = [text |-> "retired", status |-> "superseded", count |-> row.count]
      BY <1>1, <2>1
    <2>3. PICK t \in Text : t = "retired"
      BY TextNames
    <2>4. e = [text |-> t, status |-> "superseded", count |-> row.count]
      BY <2>2, <2>3
    <2>5. e \in Row
      BY <1>1, <2>4 DEF Row
    <2>6. e.count = row.count
      BY <2>4
    <2> QED
      BY <1>7, <2>5, <2>6
  <1>8. CASE c.op \in {"markWorkingMemoryPromoted", "retireKnowledgeMemory", "updatePlaybook"}
    <2>1. PICK t \in Text : e = [row EXCEPT !.text = t]
      BY <1>2, <1>8 DEF Effect, MarkWorkingMemoryPromoted, RetireKnowledgeMemory, UpdatePlaybook, Text
    <2> QED
      BY <1>8, <2>1 DEF Row
  <1>9. CASE c.op \in {"archiveTurn", "expireWorkingMemory", "updateKnowledgeMemory",
                       "insertPlaybookRevision", "updateSourceDocument"}
    <2>1. PICK s \in {"archived", "expired", "disputed", "revised", "processed"} :
            e = [row EXCEPT !.status = s]
      BY <1>9 DEF Effect, ArchiveTurn, ExpireWorkingMemory, UpdateKnowledgeMemory,
         InsertPlaybookRevision, UpdateSourceDocument
    <2> QED
      BY <1>9, <2>1 DEF Row
  <1>10. c.op \in {"updateWorkItem", "touchKnowledgeMemory", "touchKnowledgeMemories",
                   "recordPlaybookUse", "updateWorkItemStatus", "promoteCandidate", "supersedeKnowledgeMemory",
                   "markWorkingMemoryPromoted", "retireKnowledgeMemory", "updatePlaybook",
                   "archiveTurn", "expireWorkingMemory", "updateKnowledgeMemory",
                   "insertPlaybookRevision", "updateSourceDocument"}
    BY DEF Operations, Reading, Creating, Removing, Deleting
  <1> QED
    BY <1>3, <1>4, <1>5, <1>6, <1>7, <1>8, <1>9, <1>10

LEMMA Removed ==
    ASSUME NEW c, NEW row, NEW before, c.op \in Removing
    PROVE  Effect(c, row, before) = NoRow
  BY DEF Effect, Removing, Deleting

-----------------------------------------------------------------------------
(* Where a transaction is.                                                 *)

\* The call at hand; a transaction of a single operation has only that.
LEMMA Here ==
    ASSUME TypeOK, NEW p \in Process, Pace(p), tx[p].pc \in {"read", "write", "log", "mark"}
    PROVE  /\ Call1(p) \in Calls
           /\ tx[p].kind \in Own <=> Call1(p).op \in Own
           /\ tx[p].kind \in Own => Call1(p).op = tx[p].kind
           /\ tx[p].kind \in Solo => tx[p].at = 1
           /\ tx[p].kind \in Batch => tx[p].at \in {1, 2} /\ Len(tx[p].script) = 2
  <1>1. tx[p].script \in Seq(Calls) /\ tx[p].at \in 1..Len(tx[p].script)
    BY DEF TypeOK, Tx, Pace
  <1>2. Running(tx[p].kind, tx[p].script)
    BY DEF Pace
  <1>3. Call1(p) \in Calls
    BY <1>1 DEF Call1
  <1>4. /\ tx[p].kind \in Own => Call1(p).op = tx[p].kind
        /\ Call1(p).op \in Own => tx[p].kind = Call1(p).op
    BY <1>1, <1>2 DEF Running, Call1
  <1>5. tx[p].kind \in Solo => tx[p].at = 1
    BY <1>1, <1>2 DEF Running
  <1>6. tx[p].kind \in Batch => tx[p].at \in {1, 2} /\ Len(tx[p].script) = 2
    BY <1>1, <1>2 DEF Running
  <1> QED
    BY <1>3, <1>4, <1>5, <1>6

\* The row of a call of a transaction of one operation is as it was committed last.
LEMMA OwnRow ==
    ASSUME IInv, NEW p \in Process, tx[p].pc = "write", tx[p].kind \in Own
    PROVE  Call1(p).key \notin Writes(p) /\ Current(p, Call1(p).key) = table[Call1(p).key]
  <1>1. TypeOK /\ Local(p) /\ Pace(p)
    BY DEF IInv, Local
  <1>2. CASE tx[p].kind \in Solo
    <2>1. Writes(p) = {}
      BY <1>1, <1>2, Here DEF Local, First
    <2> QED
      BY <2>1 DEF Current, Writes
  <1>3. CASE tx[p].kind \in Batch
    <2>1. tx[p].script[1].key # tx[p].script[2].key
      BY <1>1, <1>3 DEF Pace, Running
    <2>2. \A k \in Writes(p) : tx[p].at = 2 /\ k = tx[p].script[1].key
      BY <1>1, <1>3 DEF Local, Sweep
    <2> QED
      BY <2>1, <2>2 DEF Current, Writes, Call1
  <1> QED
    BY <1>2, <1>3 DEF Own

\* A promotion is at its own call.
LEMMA PromotionAt ==
    ASSUME TypeOK, NEW p \in Process, Pace(p), tx[p].kind = "promoteKnowledgeCandidate",
           tx[p].pc # "idle"
    PROVE  /\ Len(tx[p].script) = 3
           /\ tx[p].script[1].op = "lockCandidate" /\ tx[p].script[1].key = "candidate"
           /\ tx[p].script[2].op = "insertKnowledgeMemory" /\ tx[p].script[2].key = "fact2"
           /\ tx[p].script[3].op = "promoteCandidate" /\ tx[p].script[3].key = "candidate"
  <1>1. tx[p].script = Promotion("candidate")
    BY DEF Pace, Running
  <1> QED
    BY <1>1, PromotionCalls

LEMMA WritesTyped ==
    ASSUME TypeOK, NEW p \in Process
    PROVE  /\ Writes(p) \subseteq Keys
           /\ \A k \in Writes(p) : tx[p].mine[k] \in Rows
           /\ \A k \in Keys : Current(p, k) \in Rows
  <1>1. PICK D \in SUBSET Keys : tx[p].mine \in [D -> Rows]
    <2>1. tx[p].mine \in Mine
      BY DEF TypeOK, Tx
    <2> QED
      BY <2>1, Zenon DEF Mine
  <1>2. Writes(p) = D /\ \A k \in D : tx[p].mine[k] \in Rows
    BY <1>1 DEF Writes
  <1>3. \A k \in Keys : table[k] \in Rows
    BY DEF TypeOK
  <1> QED
    BY <1>1, <1>2, <1>3 DEF Current, Writes

\* To the first step of the call.
LEMMA Proceeds ==
    ASSUME NEW t \in Tx, NEW u, u = Proceed(t)
    PROVE  /\ u \in Tx /\ u.pc = FirstStep(t) /\ u.at = t.at
           /\ u.kind = t.kind /\ u.script = t.script /\ u.before = t.before /\ u.seen = t.seen
           /\ u.mine = t.mine /\ u.events = t.events /\ u.pending = t.pending
  <1> PICK pc : pc = FirstStep(t)
    OBVIOUS
  <1>1. pc \in {"idle", "read", "write", "log", "mark", "commit"}
    BY DEF FirstStep
  <1>2. u = [t EXCEPT !.pc = pc]
    BY DEF Proceed
  <1>3. u \in Tx
    BY <1>1, <1>2 DEF Tx
  <1> QED
    BY <1>2, <1>3 DEF Tx

\* On to the next call, or to COMMIT.
LEMMA Moves ==
    ASSUME NEW t \in Tx, NEW u, u = NextCall(t)
    PROVE  /\ u \in Tx
           /\ u.kind = t.kind /\ u.script = t.script /\ u.before = t.before /\ u.seen = t.seen
           /\ u.mine = t.mine /\ u.events = t.events /\ u.pending = t.pending
           /\ u.at = t.at + 1 /\ u.pc \in {"commit", "read", "write"}
           /\ u.pc \in {"read", "write"} => t.at + 1 <= Len(t.script)
           /\ u.pc = "read" <=> /\ t.at + 1 <= Len(t.script)
                                /\ t.script[t.at + 1].op \in Reading \cup {"lockCandidate"}
  <1> PICK s : s = [t EXCEPT !.at = @ + 1]
    OBVIOUS
  <1>1. /\ s \in Tx /\ s.at = t.at + 1
        /\ s.kind = t.kind /\ s.script = t.script /\ s.before = t.before /\ s.seen = t.seen
        /\ s.mine = t.mine /\ s.events = t.events /\ s.pending = t.pending
    BY DEF Tx
  <1>2. u = Proceed(s)
    BY DEF NextCall
  <1>3. FirstStep(s) \in {"commit", "read", "write"}
    BY DEF FirstStep
  <1>4. /\ FirstStep(s) \in {"read", "write"} => s.at <= Len(s.script)
        /\ FirstStep(s) = "read" <=> /\ s.at <= Len(s.script)
                                     /\ s.script[s.at].op \in Reading \cup {"lockCandidate"}
    <2>1. s.at \in Nat /\ Len(s.script) \in Nat
      BY <1>1 DEF Tx
    <2> QED
      BY <2>1 DEF FirstStep
  <1>5. /\ u \in Tx /\ u.pc = FirstStep(s) /\ u.at = s.at
        /\ u.kind = s.kind /\ u.script = s.script /\ u.before = s.before /\ u.seen = s.seen
        /\ u.mine = s.mine /\ u.events = s.events /\ u.pending = s.pending
    BY <1>1, <1>2, Proceeds
  <1> QED
    BY <1>1, <1>3, <1>4, <1>5

\* A row added to what a transaction has written, or written again.
LEMMA Stored ==
    ASSUME NEW t \in Tx, NEW k \in Keys, NEW row \in Rows, NEW u, u = Store(t, k, row)
    PROVE  /\ u \in Tx
           /\ u.kind = t.kind /\ u.script = t.script /\ u.before = t.before /\ u.seen = t.seen
           /\ u.at = t.at /\ u.pc = t.pc /\ u.events = t.events /\ u.pending = t.pending
           /\ DOMAIN u.mine = DOMAIN t.mine \cup {k} /\ u.mine[k] = row
           /\ \A j \in DOMAIN t.mine : j # k => u.mine[j] = t.mine[j]
  <1>1. PICK D \in SUBSET Keys : t.mine \in [D -> Rows]
    <2>1. t.mine \in Mine
      BY DEF Tx
    <2> QED
      BY <2>1, Zenon DEF Mine
  <1> PICK m : m = [j \in D \cup {k} |-> IF j = k THEN row ELSE t.mine[j]]
    OBVIOUS
  <1>2. m \in [D \cup {k} -> Rows]
    BY <1>1
  <1>3. m \in Mine
    <2>1. D \cup {k} \in SUBSET Keys
      BY <1>1, Zenon
    <2> QED
      BY <1>2, <2>1, Zenon DEF Mine
  <1>4. u = [t EXCEPT !.mine = m]
    <2>1. DOMAIN t.mine = D
      BY <1>1
    <2> QED
      BY <2>1 DEF Store
  <1>5. /\ u \in Tx /\ u.mine = m
        /\ u.kind = t.kind /\ u.script = t.script /\ u.before = t.before /\ u.seen = t.seen
        /\ u.at = t.at /\ u.pc = t.pc /\ u.events = t.events /\ u.pending = t.pending
    BY <1>3, <1>4 DEF Tx
  <1> QED
    BY <1>1, <1>5

-----------------------------------------------------------------------------
(* A step of one transaction that commits nothing leaves the others as they *)
(* are.                                                                     *)

LEMMA OthersStay ==
    ASSUME IInv, NEW p \in Process, TypeOK', UNCHANGED <<table, log>>, lastId <= lastId',
           \A q \in Process \ {p} : tx'[q] = tx[q],
           \A k \in DOMAIN lock : lock'[k] = lock[k] \/ (lock[k] \in {Free, p} /\ lock'[k] \in {Free, p}),
           \A k \in Old : lock'[k] = p => lock[k] = p \/ table[k] # NoRow,
           Local(p)', \A q \in Process \ {p} : Apart(p, q)'
    PROVE  IInv'
  <1> USE DEF IInv
  <1>1. DOMAIN lock = Keys \cup {"watermark"} /\ DOMAIN lock' = DOMAIN lock /\ Old \subseteq Keys
    BY DEF TypeOK, Keys
  <1>2. /\ \A e \in log : e.id \in Nat
        /\ \A q \in Process : \A e \in tx[q].events : e.id \in Nat
        /\ lastId \in Nat /\ lastId' \in Nat
    BY DEF TypeOK, Tx, Event
  <1>3. Standing'
    <2>1. \A k \in Old : lock'[k] # Free => table[k] # NoRow
      <3> SUFFICES ASSUME NEW k \in Old, lock'[k] # Free PROVE table[k] # NoRow
        OBVIOUS
      <3>1. lock[k] # Free => table[k] # NoRow
        BY DEF Standing
      <3>2. CASE lock'[k] = lock[k]
        BY <3>1, <3>2
      <3>3. CASE lock'[k] \in {Free, p}
        BY <3>1, <3>3, ConstantsAssumption
      <3> QED
        BY <1>1, <3>2, <3>3
    <2> QED
      BY <2>1 DEF Standing
  <1>4. AssociationStands' /\ CandidateEnds'
    BY DEF AssociationStands, CandidateEnds, Known
  <1>5. Numbered'
    BY <1>2 DEF Numbered
  <1>6. CountersExact'
    BY DEF CountersExact, Told
  <1>7. ASSUME NEW q \in Process \ {p} PROVE Local(q)'
    <2>1. tx'[q] = tx[q] /\ q \in Process /\ Local(q)
      OBVIOUS
    <2>2. \A k \in DOMAIN lock : lock'[k] = q <=> lock[k] = q
      BY <2>1, ConstantsAssumption
    <2>3. Call1(q)' = Call1(q) /\ Writes(q)' = Writes(q) /\ Awaiting(q)' = Awaiting(q)
      BY <2>1 DEF Call1, Writes, Awaiting
    <2>4. \A k : Known(k)' <=> Known(k)
      BY DEF Known
    <2>5. \A k : GoneBefore(q, k)' <=> GoneBefore(q, k)
      BY <2>1, <2>3 DEF GoneBefore
    <2>6. Writes(q) \subseteq Keys
      BY WritesTyped
    <2>7. Pace(q)'
      BY <2>1, <2>3 DEF Local, Pace
    <2>8. First(q)'
      BY <1>1, <2>1, <2>2, <2>3 DEF Local, First
    <2>9. Held(q)'
      BY <1>1, <2>1, <2>2, <2>3, <2>4, <2>6 DEF Local, Held
    <2>10. Seen(q)'
      BY <2>1, <2>3 DEF Local, Seen
    <2>11. Logged(q)'
      BY <2>1, <2>3, <2>5 DEF Local, Logged
    <2>12. Events(q)'
      BY <1>2, <2>1 DEF Local, Events
    <2>13. Kept(q)'
      BY <2>1, <2>3, <2>4 DEF Local, Kept
    <2>14. Counts(q)' /\ Ends(q)'
      BY <2>1, <2>3 DEF Local, Counts, Ends
    <2>15. CandidateFirst(q)'
      <3>1. "candidate" \in DOMAIN lock
        BY <1>1 DEF Old
      <3> QED
        BY <1>1, <2>1, <2>2, <3>1 DEF Local, CandidateFirst
    <2>16. Sweep(q)'
      BY <1>1, <2>1, <2>2, <2>3 DEF Local, Sweep
    <2> QED
      BY <2>7, <2>8, <2>9, <2>10, <2>11, <2>12, <2>13, <2>14, <2>15, <2>16 DEF Local
  <1>8. ASSUME NEW q \in Process, NEW r \in Process, q # r PROVE Apart(q, r)'
    <2>1. CASE q = p
      BY <1>8, <2>1
    <2>2. CASE r = p
      BY <1>8, <2>2 DEF Apart
    <2>3. CASE q # p /\ r # p
      <3>1. tx'[q] = tx[q] /\ tx'[r] = tx[r] /\ Apart(q, r)
        BY <1>8, <2>3
      <3> QED
        BY <3>1 DEF Apart, Writes
    <2> QED
      BY <2>1, <2>2, <2>3
  <1> QED
    BY <1>3, <1>4, <1>5, <1>6, <1>7, <1>8

-----------------------------------------------------------------------------
(* A connection that runs nothing; BEGIN and ROLLBACK.                     *)

LEMMA IdleTyped ==
    /\ Idle \in Tx /\ DOMAIN Idle.mine = {} /\ Idle.pending = <<>> /\ Idle.events = {}
    /\ Idle.kind = "none" /\ Idle.script = <<>> /\ Idle.at = 1 /\ Idle.pc = "idle"
    /\ Idle.before = NoRow /\ Idle.seen = ""
  <1>1. <<>> \in [{} -> Rows]
    OBVIOUS
  <1>2. <<>> \in Mine
    <2>1. {} \in SUBSET Keys
      OBVIOUS
    <2> QED
      BY <1>1, <2>1, Zenon DEF Mine
  <1>3. <<>> \in Seq(Calls) /\ <<>> \in Pendings /\ NoRow \in Rows /\ {} \in SUBSET Event
    BY DEF Pendings, Rows
  <1>4. "" \in Text
    BY TextNames
  <1>5. "none" \in AllWork \cup {"none"} /\ 1 \in Nat
    OBVIOUS
  <1>6. Idle \in Tx
    BY <1>2, <1>3, <1>4, <1>5 DEF Idle, Tx
  <1>7. DOMAIN <<>> = {}
    OBVIOUS
  <1> QED
    BY <1>6, <1>7 DEF Idle

LEMMA NothingWaits == {<<>>[i] : i \in 1..Len(<<>>)} = {}
  OBVIOUS

LEMMA Idles ==
    \A p \in Process : tx[p] = Idle /\ (\A k \in DOMAIN lock : lock[k] # p) => Local(p)
  <1> SUFFICES ASSUME NEW p \in Process, tx[p] = Idle, \A k \in DOMAIN lock : lock[k] # p
               PROVE  Local(p)
    OBVIOUS
  <1>1. /\ DOMAIN tx[p].mine = {} /\ tx[p].pending = <<>> /\ tx[p].events = {}
        /\ tx[p].kind = "none" /\ tx[p].script = <<>> /\ tx[p].at = 1 /\ tx[p].pc = "idle"
    BY IdleTyped
  <1>2. Writes(p) = {} /\ Awaiting(p) = {}
    BY <1>1, NothingWaits DEF Writes, Awaiting
  <1>3. "none" \notin Solo /\ "none" \notin Batch
    BY Batches DEF Solo
  <1>4. Pace(p)
    BY <1>1, <1>2 DEF Pace
  <1>5. First(p)
    BY <1>1, <1>2, <1>3 DEF First
  <1>6. Held(p) /\ Seen(p) /\ Logged(p)
    BY <1>1, <1>2 DEF Held, Seen, Logged
  <1>7. Events(p)
    BY <1>1, <1>3, FS_EmptySet DEF Events
  <1>8. Kept(p) /\ Counts(p) /\ Ends(p) /\ CandidateFirst(p) /\ Sweep(p)
    BY <1>1, <1>2, <1>3 DEF Kept, Counts, Ends, CandidateFirst, Sweep
  <1> QED
    BY <1>4, <1>5, <1>6, <1>7, <1>8 DEF Local

LEMMA IdleApart ==
    \A p, q \in Process : tx[p] = Idle => Apart(p, q)
  BY IdleTyped DEF Apart, Writes

LEMMA IdlesNext ==
    (\A p \in Process : tx[p] = Idle /\ (\A k \in DOMAIN lock : lock[k] # p) => Local(p))'
  BY Idles, PTL

LEMMA IdleApartNext == (\A p, q \in Process : tx[p] = Idle => Apart(p, q))'
  BY IdleApart, PTL

LEMMA RollbackKeeps ==
    ASSUME IInv, NEW p \in Process, Rollback(p)
    PROVE  IInv'
  <1>1. /\ tx \in [Process -> Tx] /\ DOMAIN lock = Keys \cup {"watermark"}
        /\ lock \in [DOMAIN lock -> Process \cup {Free}]
    BY DEF IInv, TypeOK
  <1>2. tx'[p] = Idle /\ \A q \in Process \ {p} : tx'[q] = tx[q]
    BY <1>1 DEF Rollback
  <1>3. lock' = [k \in DOMAIN lock |-> IF lock[k] = p THEN Free ELSE lock[k]]
    BY DEF Rollback
  <1>4. \A k \in DOMAIN lock : lock'[k] # p
    BY <1>3, ConstantsAssumption
  <1>5. \A k \in DOMAIN lock :
          lock'[k] = lock[k] \/ (lock[k] \in {Free, p} /\ lock'[k] \in {Free, p})
    BY <1>3
  <1>6. TypeOK'
    <2>1. tx' \in [Process -> Tx]
      BY <1>1, IdleTyped DEF Rollback
    <2>2. lock' \in [Keys \cup {"watermark"} -> Process \cup {Free}]
      BY <1>1, <1>3
    <2> QED
      BY <2>1, <2>2 DEF Rollback, IInv, TypeOK
  <1>7. Local(p)'
    <2>1. DOMAIN lock' = DOMAIN lock
      BY <1>3
    <2> QED
      BY <1>2, <1>4, <2>1, IdlesNext
  <1>8. \A q \in Process \ {p} : Apart(p, q)'
    BY <1>2, IdleApartNext
  <1>9. UNCHANGED <<table, log>> /\ lastId <= lastId'
    BY DEF Rollback, IInv, TypeOK
  <1>10. \A k \in Old : lock'[k] = p => lock[k] = p \/ table[k] # NoRow
    BY <1>1, <1>4 DEF Keys
  <1> QED
    BY <1>2, <1>5, <1>6, <1>7, <1>8, <1>9, <1>10, OthersStay

-----------------------------------------------------------------------------
(* A step of p that writes and logs nothing.                               *)

LEMMA Control ==
    ASSUME IInv, NEW p \in Process, UNCHANGED <<table, log, lastId>>, DOMAIN lock' = DOMAIN lock,
           \A k \in DOMAIN lock : lock[k] = p => lock'[k] = p,
           tx'[p].kind = tx[p].kind, tx'[p].script = tx[p].script, tx'[p].mine = tx[p].mine,
           tx'[p].events = tx[p].events, Awaiting(p)' = Awaiting(p)
    PROVE  Held(p)' /\ Logged(p)' /\ Events(p)' /\ Kept(p)' /\ Counts(p)' /\ Ends(p)'
  <1>1. Writes(p)' = Writes(p) /\ Local(p)
    BY DEF Writes, IInv
  <1>2. Writes(p) \subseteq DOMAIN lock
    BY WritesTyped DEF IInv, TypeOK
  <1>3. \A k : Known(k)' <=> Known(k)
    BY DEF Known
  <1>4. \A k : GoneBefore(p, k)' <=> GoneBefore(p, k)
    BY <1>1 DEF GoneBefore
  <1>5. Held(p)'
    BY <1>1, <1>2, <1>3 DEF Local, Held
  <1>6. Logged(p)'
    BY <1>1, <1>4 DEF Local, Logged
  <1>7. Events(p)'
    BY <1>1 DEF Local, Events
  <1>8. Kept(p)'
    BY <1>1, <1>3 DEF Local, Kept
  <1>9. Counts(p)' /\ Ends(p)'
    BY <1>1 DEF Local, Counts, Ends
  <1> QED
    BY <1>5, <1>6, <1>7, <1>8, <1>9

LEMMA ControlApart ==
    ASSUME IInv, NEW p \in Process, NEW q \in Process \ {p}, tx'[q] = tx[q],
           tx'[p].kind = tx[p].kind, tx'[p].mine = tx[p].mine, tx'[p].events = tx[p].events
    PROVE  Apart(p, q)'
  <1>1. Apart(p, q)
    BY DEF IInv
  <1> QED
    BY <1>1 DEF Apart, Writes

\* A lock that p may take or leaves.
Takes(p, k) == lock' = lock \/ (CanLock(p, k) /\ lock' = [lock EXCEPT ![k] = p])

LEMMA Taken ==
    ASSUME IInv, NEW p \in Process, NEW k \in Keys \cup {"watermark"}, Takes(p, k)
    PROVE  /\ lock' \in [Keys \cup {"watermark"} -> Process \cup {Free}]
           /\ DOMAIN lock' = DOMAIN lock
           /\ \A j \in DOMAIN lock : lock[j] = p => lock'[j] = p
           /\ \A j \in DOMAIN lock :
                lock'[j] = lock[j] \/ (lock[j] \in {Free, p} /\ lock'[j] \in {Free, p})
           /\ \A j \in DOMAIN lock : lock'[j] = p => lock[j] = p \/ j = k
  <1>1. lock \in [Keys \cup {"watermark"} -> Process \cup {Free}]
    BY DEF IInv, TypeOK
  <1> QED
    BY <1>1 DEF Takes, CanLock

\* On to the next call.
LEMMA Advance ==
    ASSUME IInv, NEW p \in Process, tx[p].pc \in {"read", "write", "mark"}, tx[p].pending = <<>>,
           NEW k \in Keys \cup {"watermark"}, Takes(p, k),
           k \in Old => lock' = lock \/ lock[k] = p \/ table[k] # NoRow,
           tx[p].kind \in Batch => tx[p].at = 2,
           Call1(p).op = "lockCandidate" /\ tx[p].at = 1 =>
             k = Call1(p).key /\ (lock'[k] = p \/ table[k] = NoRow),
           tx' = [tx EXCEPT ![p] = NextCall(tx[p])], UNCHANGED <<table, log, lastId>>, started' \in Nat
    PROVE  IInv'
  <1>1. TypeOK /\ Local(p) /\ Pace(p) /\ tx[p] \in Tx /\ tx \in [Process -> Tx]
    BY DEF IInv, TypeOK, Local
  <1>2. tx'[p] = NextCall(tx[p]) /\ \A q \in Process \ {p} : tx'[q] = tx[q]
    BY <1>1
  <1>3. /\ tx'[p] \in Tx
        /\ tx'[p].kind = tx[p].kind /\ tx'[p].script = tx[p].script /\ tx'[p].mine = tx[p].mine
        /\ tx'[p].events = tx[p].events /\ tx'[p].pending = tx[p].pending
        /\ tx'[p].at = tx[p].at + 1 /\ tx'[p].pc \in {"commit", "read", "write"}
        /\ tx'[p].pc \in {"read", "write"} => tx[p].at + 1 <= Len(tx[p].script)
        /\ tx'[p].pc = "read" <=> /\ tx[p].at + 1 <= Len(tx[p].script)
                                  /\ tx[p].script[tx[p].at + 1].op \in Reading \cup {"lockCandidate"}
    BY <1>1, <1>2, Moves
  <1>4. /\ lock' \in [Keys \cup {"watermark"} -> Process \cup {Free}]
        /\ DOMAIN lock' = DOMAIN lock
        /\ \A j \in DOMAIN lock : lock[j] = p => lock'[j] = p
        /\ \A j \in DOMAIN lock :
             lock'[j] = lock[j] \/ (lock[j] \in {Free, p} /\ lock'[j] \in {Free, p})
        /\ \A j \in DOMAIN lock : lock'[j] = p => lock[j] = p \/ j = k
    BY Taken
  <1>5. Call1(p)' = tx[p].script[tx[p].at + 1] /\ tx[p].at \in 1..Len(tx[p].script)
    BY <1>1, <1>3 DEF Call1, Pace
  <1>6. Awaiting(p) = {} /\ Awaiting(p)' = {}
    BY <1>3, NothingWaits DEF Awaiting
  <1>7. TypeOK'
    <2>1. tx' \in [Process -> Tx]
      BY <1>1, <1>2, <1>3
    <2> QED
      BY <1>1, <1>4, <2>1 DEF TypeOK
  <1>8. Local(p)'
    <2>1. Pace(p)'
      <3>1. Running(tx[p].kind, tx[p].script)
        BY <1>1 DEF Pace
      <3>2. tx[p].at \in Nat /\ Len(tx[p].script) \in Nat
        BY <1>1 DEF Tx
      <3> QED
        BY <1>3, <1>5, <1>6, <3>1, <3>2 DEF Pace
    <2>2. First(p)'
      BY <1>3, <1>5 DEF First
    <2>3. Seen(p)'
      BY <1>3, <1>5 DEF Seen
    <2>4. CandidateFirst(p)'
      <3> SUFFICES ASSUME tx[p].kind = "promoteKnowledgeCandidate"
                   PROVE  /\ lock'["candidate"] = p \/ table["candidate"] = NoRow
                          /\ tx[p].at + 1 = 2 => \A j \in DOMAIN lock : lock'[j] = p => j = "candidate"
        BY <1>3, <1>4 DEF CandidateFirst
      <3>1. tx[p].at = 1 => Call1(p).op = "lockCandidate" /\ Call1(p).key = "candidate"
        BY <1>1, PromotionAt DEF Call1
      <3>2. CASE tx[p].at = 1
        <4>1. tx[p].pc = "read"
          BY <1>1, <3>1, <3>2 DEF Pace
        <4>2. \A j \in DOMAIN lock : lock[j] # p
          BY <1>1, <3>2, <4>1 DEF Local, First
        <4> QED
          BY <1>4, <3>1, <3>2, <4>2
      <3>3. CASE tx[p].at > 1
        <4>1. lock["candidate"] = p \/ table["candidate"] = NoRow
          BY <1>1, <3>3 DEF Local, CandidateFirst
        <4>2. "candidate" \in DOMAIN lock
          BY <1>4 DEF Keys, Old
        <4> QED
          BY <1>4, <1>5, <3>3, <4>1, <4>2
      <3> QED
        BY <1>5, <3>2, <3>3
    <2>5. Held(p)' /\ Logged(p)' /\ Events(p)' /\ Kept(p)' /\ Counts(p)' /\ Ends(p)'
      BY <1>3, <1>4, <1>6, Control
    <2>6. Sweep(p)'
      <3>1. tx[p].kind \in Batch => tx'[p].pc = "commit"
        BY <1>1, <1>3, Here
      <3>2. Len(tx'[p].pending) # 2
        <4>1. tx'[p].pending = <<>>
          BY <1>3
        <4> QED
          BY <4>1
      <3> QED
        BY <1>1, <1>3, <1>6, <3>1, <3>2 DEF Local, Sweep
    <2> QED
      BY <2>1, <2>2, <2>3, <2>4, <2>5, <2>6 DEF Local
  <1>9. \A q \in Process \ {p} : Apart(p, q)'
    BY <1>2, <1>3, ControlApart
  <1>10. \A j \in Old : lock'[j] = p => lock[j] = p \/ table[j] # NoRow
    <2>1. Old \subseteq DOMAIN lock
      BY <1>4 DEF Keys
    <2> QED
      BY <1>4, <2>1
  <1>11. lastId <= lastId'
    BY <1>1 DEF TypeOK
  <1> QED
    BY <1>2, <1>4, <1>7, <1>8, <1>9, <1>10, <1>11, OthersStay

\* Another statement of the same call.
LEMMA Turns ==
    ASSUME IInv, NEW p \in Process, NEW k \in Keys \cup {"watermark"}, Takes(p, k), k \notin Old,
           NEW u \in Tx, tx' = [tx EXCEPT ![p] = u], UNCHANGED <<table, log, lastId>>, started' \in Nat,
           u.kind = tx[p].kind, u.script = tx[p].script, u.mine = tx[p].mine,
           u.events = tx[p].events, u.pending = tx[p].pending, u.at = tx[p].at,
           u.pc = "write" => tx[p].pc = "read",
           Pace(p)', First(p)', Seen(p)', Sweep(p)'
    PROVE  IInv'
  <1>1. TypeOK /\ Local(p) /\ Pace(p) /\ tx[p] \in Tx /\ tx \in [Process -> Tx]
    BY DEF IInv, TypeOK, Local
  <1>2. tx'[p] = u /\ \A q \in Process \ {p} : tx'[q] = tx[q]
    BY <1>1
  <1>3. /\ lock' \in [Keys \cup {"watermark"} -> Process \cup {Free}]
        /\ DOMAIN lock' = DOMAIN lock
        /\ \A j \in DOMAIN lock : lock[j] = p => lock'[j] = p
        /\ \A j \in DOMAIN lock :
             lock'[j] = lock[j] \/ (lock[j] \in {Free, p} /\ lock'[j] \in {Free, p})
        /\ \A j \in DOMAIN lock : lock'[j] = p => lock[j] = p \/ j = k
    BY Taken
  <1>4. Awaiting(p)' = Awaiting(p)
    BY <1>2 DEF Awaiting
  <1>5. TypeOK'
    <2>1. tx' \in [Process -> Tx]
      BY <1>1, <1>2
    <2> QED
      BY <1>1, <1>3, <2>1 DEF TypeOK
  <1>6. CandidateFirst(p)'
    <2> SUFFICES ASSUME tx[p].kind = "promoteKnowledgeCandidate", tx[p].at > 1
                 PROVE  /\ lock'["candidate"] = p \/ table["candidate"] = NoRow
                        /\ ~(tx[p].at = 2 /\ u.pc = "write")
      BY <1>2, <1>3 DEF CandidateFirst
    <2>1. lock["candidate"] = p \/ table["candidate"] = NoRow
      BY <1>1 DEF Local, CandidateFirst
    <2>2. "candidate" \in DOMAIN lock
      BY <1>3 DEF Keys, Old
    <2>3. ASSUME tx[p].at = 2, tx[p].pc = "read" PROVE FALSE
      <3>1. Call1(p).op = "insertKnowledgeMemory"
        BY <1>1, <2>3, PromotionAt DEF Call1
      <3> QED
        BY <1>1, <2>3, <3>1 DEF Pace, Reading
    <2> QED
      BY <1>3, <2>1, <2>2, <2>3
  <1>7. Held(p)' /\ Logged(p)' /\ Events(p)' /\ Kept(p)' /\ Counts(p)' /\ Ends(p)'
    BY <1>2, <1>3, <1>4, Control
  <1>8. Local(p)'
    BY <1>6, <1>7 DEF Local
  <1>9. \A q \in Process \ {p} : Apart(p, q)'
    BY <1>2, ControlApart
  <1>10. \A j \in Old : lock'[j] = p => lock[j] = p \/ table[j] # NoRow
    <2>1. Old \subseteq DOMAIN lock
      BY <1>3 DEF Keys
    <2> QED
      BY <1>3, <2>1
  <1>11. lastId <= lastId'
    BY <1>1 DEF TypeOK
  <1> QED
    BY <1>2, <1>3, <1>5, <1>8, <1>9, <1>10, <1>11, OthersStay

\* Where a transaction has nothing written it reads what is committed.
LEMMA ReadsCommitted ==
    ASSUME IInv, NEW p \in Process, tx[p].pc \in {"read", "write"}, tx[p].at = 1, NEW k
    PROVE  Writes(p) = {} /\ Current(p, k) = table[k]
  <1>1. Writes(p) = {}
    BY DEF IInv, Local, First
  <1> QED
    BY <1>1 DEF Current, Writes

\* The row of a call that reads it: it is there, but for a work item.
LEMMA ReadFinds ==
    ASSUME IInv, NEW p \in Process, tx[p].pc \in {"read", "write"}, Call1(p).op \in Reading
    PROVE  \/ Current(p, Call1(p).key) # NoRow
           \/ Call1(p).key = "item" /\ table["item"] = NoRow
  <1>1. TypeOK /\ Local(p) /\ Pace(p)
    BY DEF IInv, Local
  <1>2. Call1(p) \in Calls
    BY <1>1, Here
  <1>3. Call1(p).key \in Lasting \cup {"item", "association"}
    BY <1>2 DEF Calls
  <1>4. CASE Call1(p).key \in Lasting
    <2>1. table[Call1(p).key] # NoRow
      BY <1>4 DEF IInv, Standing
    <2>2. Call1(p).key \in Writes(p) => tx[p].mine[Call1(p).key] # NoRow
      BY <1>1, <1>4 DEF Local, Kept
    <2> QED
      BY <2>1, <2>2 DEF Current, Writes
  <1>5. CASE Call1(p).key = "item"
    <2>1. Call1(p).op \in Solo
      BY <1>2, <1>5 DEF Calls, OnItem, Solo
    <2>2. tx[p].at = 1
      BY <1>1, <2>1, Here DEF Own
    <2> QED
      BY <1>5, <2>2, ReadsCommitted
  <1>6. CASE Call1(p).key = "association"
    <2>1. Call1(p).op = "deleteAssociation"
      BY <1>2, <1>6 DEF Calls, OnAssociation, Reading
    <2>2. tx[p].kind = "deleteAssociation" /\ tx[p].at = 1
      BY <1>1, <2>1, Here DEF Own, Solo
    <2>3. table["association"] # NoRow
      BY <1>1, <2>2 DEF Local, Kept, IInv, AssociationStands
    <2> QED
      BY <1>6, <2>2, <2>3, ReadsCommitted
  <1> QED
    BY <1>3, <1>4, <1>5, <1>6

LEMMA ReadKeeps ==
    ASSUME IInv, NEW p \in Process, Read(p)
    PROVE  IInv'
  <1>1. TypeOK /\ Local(p) /\ Pace(p) /\ tx[p] \in Tx /\ tx \in [Process -> Tx] /\ started \in Nat
    BY DEF IInv, TypeOK, Local
  <1>2. tx[p].pc = "read" /\ UNCHANGED <<table, log, lastId, started>>
    BY DEF Read
  <1>3. Call1(p) \in Calls
    BY <1>1, <1>2, Here
  <1>4. Call1(p).key \in Keys
    BY <1>3 DEF Calls
  <1>5. CASE Call1(p).op = "lockCandidate"
    <2>1. tx' = [tx EXCEPT ![p] = NextCall(tx[p])]
      BY <1>5 DEF Read
    <2>2. tx[p].pending = <<>> /\ tx[p].kind \notin Batch
      <3>1. Call1(p).op \notin Batch
        BY <1>5, Batches
      <3> QED
        BY <1>1, <1>2, <3>1, Here DEF Pace, Own
    <2>3. Call1(p).key \in Expirable \cup {"candidate2"}
      BY <1>3, <1>5 DEF Calls, OnCandidate
    <2> PICK k : k = Call1(p).key
      OBVIOUS
    <2>4. CASE LockCandidate(p)
      <3>1. CanLock(p, k) /\ lock' = [lock EXCEPT ![k] = p] /\ Current(p, k) # NoRow
        BY <2>4 DEF Read, LockCandidate
      <3>2. lock[k] = p \/ table[k] # NoRow
        <4>1. k \in Writes(p) => lock[k] = p
          BY <1>1, <2>3 DEF Local, Held, Revisions, Expirable
        <4> QED
          BY <3>1, <4>1 DEF Current, Writes
      <3>3. lock'[k] = p
        BY <1>1, <1>4, <3>1 DEF TypeOK
      <3> QED
        BY <1>1, <1>2, <1>4, <2>1, <2>2, <3>1, <3>2, <3>3, Advance DEF Takes
    <2>5. CASE ~LockCandidate(p)
      <3>1. lock' = lock /\ Current(p, k) = NoRow
        BY <1>5, <2>5 DEF Read, LockCandidate
      <3>2. tx[p].at = 1 => table[k] = NoRow
        BY <1>2, <3>1, ReadsCommitted
      <3> QED
        BY <1>1, <1>2, <1>4, <2>1, <2>2, <3>1, <3>2, Advance DEF Takes
    <2> QED
      BY <2>4, <2>5
  <1>6. CASE Call1(p).op # "lockCandidate"
    <2> PICK b : b = Current(p, Call1(p).key)
      OBVIOUS
    <2> PICK u : u = [tx[p] EXCEPT !.before = b, !.pc = "write"]
      OBVIOUS
    <2>1. tx' = [tx EXCEPT ![p] = u] /\ lock' = lock
      BY <1>6 DEF Read, LockCandidate
    <2>2. b \in Rows
      BY <1>1, <1>4, WritesTyped
    <2>3. /\ u \in Tx /\ u.pc = "write" /\ u.before = b
          /\ u.kind = tx[p].kind /\ u.script = tx[p].script /\ u.mine = tx[p].mine
          /\ u.events = tx[p].events /\ u.pending = tx[p].pending /\ u.at = tx[p].at
      BY <1>1, <2>2 DEF Tx
    <2>4. tx'[p] = u
      BY <1>1, <2>1
    <2>5. Call1(p)' = Call1(p) /\ Writes(p)' = Writes(p) /\ Awaiting(p)' = Awaiting(p)
      BY <2>3, <2>4 DEF Call1, Writes, Awaiting
    <2>6. Pace(p)'
      BY <1>1, <1>2, <1>6, <2>3, <2>4, <2>5 DEF Pace
    <2>7. First(p)'
      BY <1>1, <1>2, <2>1, <2>3, <2>4, <2>5 DEF Local, First
    <2>8. Seen(p)'
      <3>1. Call1(p).op \in Reading
        BY <1>1, <1>2, <1>6 DEF Pace
      <3>2. b # NoRow \/ (Call1(p).key = "item" /\ table["item"] = NoRow)
        BY <1>2, <3>1, ReadFinds
      <3> QED
        BY <1>2, <2>3, <2>4, <2>5, <3>2 DEF Seen
    <2>9. "watermark" \notin Old
      BY DEF Old
    <2>10. Sweep(p)'
      <3>1. tx[p].pending = <<>>
        BY <1>1, <1>2 DEF Pace
      <3>2. Awaiting(p) = {} /\ Len(tx[p].pending) # 2
        BY <3>1, NothingWaits DEF Awaiting
      <3>3. ASSUME tx[p].kind \in Batch PROVE Writes(p) = {}
        <4>1. tx[p].at = 1
          BY <1>1, <1>2, <3>3 DEF Local, Sweep
        <4> QED
          BY <1>1, <1>2, <4>1 DEF Local, First
      <3> QED
        BY <1>1, <1>2, <2>1, <2>3, <2>4, <2>5, <3>2, <3>3 DEF Local, Sweep
    <2> QED
      BY <1>1, <1>2, <2>1, <2>3, <2>6, <2>7, <2>8, <2>9, <2>10, Turns DEF Takes
  <1> QED
    BY <1>5, <1>6

LEMMA MarkKeeps ==
    ASSUME IInv, NEW p \in Process, Mark(p)
    PROVE  IInv'
  <1>1. TypeOK /\ Local(p) /\ Pace(p) /\ tx[p] \in Tx /\ tx \in [Process -> Tx] /\ started \in Nat
    BY DEF IInv, TypeOK, Local
  <1>2. tx[p].pc = "mark" /\ Takes(p, "watermark") /\ UNCHANGED <<table, log, lastId, started>>
    BY DEF Mark, Takes
  <1>3. "watermark" \notin Old
    BY DEF Old
  <1>4. CASE tx[p].pending = <<>>
    <2>1. tx' = [tx EXCEPT ![p] = NextCall(tx[p])]
      BY <1>4 DEF Mark
    <2>2. Call1(p).op # "lockCandidate"
      BY <1>1, <1>2 DEF Pace
    <2>3. tx[p].kind \in Batch => tx[p].at = 2
      BY <1>1, <1>2 DEF Local, Sweep
    <2> QED
      BY <1>1, <1>2, <1>3, <1>4, <2>1, <2>2, <2>3, Advance
  <1>5. CASE tx[p].pending # <<>>
    <2> PICK u : u = [tx[p] EXCEPT !.pc = "log"]
      OBVIOUS
    <2>1. tx' = [tx EXCEPT ![p] = u]
      BY <1>5 DEF Mark
    <2>2. /\ u \in Tx /\ u.pc = "log"
          /\ u.kind = tx[p].kind /\ u.script = tx[p].script /\ u.mine = tx[p].mine
          /\ u.events = tx[p].events /\ u.pending = tx[p].pending /\ u.at = tx[p].at
      BY <1>1 DEF Tx
    <2>3. tx'[p] = u
      BY <1>1, <2>1
    <2>4. Call1(p)' = Call1(p) /\ Awaiting(p)' = Awaiting(p)
      BY <2>2, <2>3 DEF Call1, Awaiting
    <2>5. Pace(p)'
      BY <1>1, <1>2, <1>5, <2>2, <2>3, <2>4 DEF Pace
    <2>6. First(p)'
      <3>1. tx[p].kind \notin Solo
        BY <1>1, <1>2, <1>5 DEF Local, First
      <3> QED
        BY <2>2, <2>3, <3>1 DEF First
    <2>7. Seen(p)'
      BY <2>2, <2>3 DEF Seen
    <2>8. Sweep(p)'
      BY <1>1, <1>2, <2>2, <2>3, <2>4 DEF Local, Sweep
    <2> QED
      BY <1>1, <1>2, <1>3, <2>1, <2>2, <2>5, <2>6, <2>7, <2>8, Turns
  <1> QED
    BY <1>4, <1>5

LEMMA BeginKeeps ==
    ASSUME IInv, NEW p \in Process, Begin(p)
    PROVE  IInv'
  <1>1. /\ TypeOK /\ Local(p) /\ tx \in [Process -> Tx] /\ started' \in Nat
        /\ tx[p] = Idle /\ UNCHANGED <<table, log, lastId, lock>>
    BY DEF IInv, TypeOK, Begin
  <1>2. PICK kind, script, seen :
          /\ kind \in AllWork /\ script \in Scripts(kind) /\ IdsAgree(script)
          /\ (seen = "" \/ seen = table["playbook"].text)
          /\ tx' = [tx EXCEPT ![p] = Proceed([Idle EXCEPT !.kind = kind, !.script = script,
                                                         !.seen = seen])]
    <2>1. Work \subseteq AllWork /\ Later \subseteq AllWork
      BY ConstantsAssumption
    <2>2. PICK kind \in IF started < 2 THEN Work ELSE Later : \E script \in Scripts(kind) :
          /\ IdsAgree(script)
          /\ tx' = [tx EXCEPT ![p] = Proceed([Idle EXCEPT !.kind = kind, !.script = script,
                        !.seen = IF kind = "revise" THEN table["playbook"].text ELSE ""])]
      BY DEF Begin
    <2>3. kind \in AllWork
      BY <2>1, <2>2
    <2>4. PICK script \in Scripts(kind) :
          /\ IdsAgree(script)
          /\ tx' = [tx EXCEPT ![p] = Proceed([Idle EXCEPT !.kind = kind, !.script = script,
                        !.seen = IF kind = "revise" THEN table["playbook"].text ELSE ""])]
      BY <2>2
    <2> PICK seen : seen = IF kind = "revise" THEN table["playbook"].text ELSE ""
      OBVIOUS
    <2>5. tx' = [tx EXCEPT ![p] = Proceed([Idle EXCEPT !.kind = kind, !.script = script,
                                                       !.seen = seen])]
      BY <2>4
    <2>6. script \in Scripts(kind) /\ IdsAgree(script)
      BY <2>4, Zenon
    <2> QED
      BY <2>3, <2>5, <2>6
  <1>3. /\ Running(kind, script) /\ kind \in AllWork
        /\ script \in Seq(Calls) /\ script # <<>> /\ Len(script) \in Nat
    <2>1. Running(kind, script)
      BY <1>2, ScriptsRun
    <2> QED
      BY <2>1 DEF Running
  <1>4. seen \in Text
    <2>1. table["playbook"] \in Row
      BY <1>1 DEF TypeOK, Rows, IInv, Standing, Lasting, Expirable, Old, Keys
    <2> QED
      BY <1>2, <2>1, TextNames DEF Row
  <1> PICK s : s = [Idle EXCEPT !.kind = kind, !.script = script, !.seen = seen]
    OBVIOUS
  <1>5. /\ s \in Tx /\ s.kind = kind /\ s.script = script /\ s.at = 1
        /\ s.mine = Idle.mine /\ s.events = {} /\ s.pending = <<>>
    BY <1>3, <1>4, IdleTyped DEF Tx
  <1> PICK u : u = Proceed(s)
    OBVIOUS
  <1>7. /\ FirstStep(s) \in {"read", "write"}
        /\ FirstStep(s) = "read" <=> script[1].op \in Reading \cup {"lockCandidate"}
    <2>1. 1 <= Len(script)
      BY <1>3
    <2> QED
      BY <1>3, <1>5, <2>1 DEF FirstStep
  <1>8. /\ u \in Tx /\ u.kind = kind /\ u.script = script /\ u.at = 1 /\ u.pc = FirstStep(s)
        /\ DOMAIN u.mine = {} /\ u.events = {} /\ u.pending = <<>>
    <2>1. s \in Tx
      BY <1>5
    <2>2. /\ u \in Tx /\ u.kind = s.kind /\ u.script = s.script /\ u.at = s.at /\ u.pc = FirstStep(s)
          /\ u.mine = s.mine /\ u.events = s.events /\ u.pending = s.pending
      BY <2>1, Proceeds, Zenon
    <2> QED
      BY <1>5, <2>2, IdleTyped
  <1>9. tx'[p] = u /\ \A q \in Process \ {p} : tx'[q] = tx[q]
    BY <1>1, <1>2
  <1>10. Writes(p)' = {} /\ Awaiting(p)' = {} /\ Call1(p)' = script[1]
    BY <1>8, <1>9, NothingWaits DEF Writes, Awaiting, Call1
  <1>11. kind = "deleteAssociation" => IdsAgree(script) /\ script[1].op = "deleteAssociation"
    <2>1. 1 \in 1..Len(script)
      BY <1>3
    <2> QED
      BY <1>2, <1>3, <2>1 DEF Running, Own, Solo
  <1>12. script[1] \in Calls /\ 1 \in 1..Len(script)
    BY <1>3
  <1>13. kind = "deleteAssociation" =>
           /\ Known("association") /\ \A e \in log : e.type # "deleteAssociation"
           /\ \A q \in Process : tx[q].kind # "deleteAssociation"
    <2>1. script[1].op = "deleteAssociation" => script[1].key = "association"
      BY <1>12 DEF Calls, OnAssociation
    <2> QED
      BY <1>11, <1>12, <2>1 DEF IdsAgree
  <1>14. \A k \in DOMAIN lock : lock[k] # p
    BY <1>1, IdleTyped DEF Local, First
  <1>15. TypeOK'
    <2>1. tx' \in [Process -> Tx]
      BY <1>1, <1>2, <1>8, <1>9
    <2> QED
      BY <1>1, <2>1 DEF TypeOK
  <1>16. Local(p)'
    <2>1. Pace(p)'
      BY <1>3, <1>7, <1>8, <1>9, <1>10, <1>12 DEF Pace
    <2>2. First(p)'
      BY <1>1, <1>7, <1>8, <1>9, <1>10, <1>14 DEF First
    <2>3. Held(p)' /\ Logged(p)'
      BY <1>8, <1>9, <1>10 DEF Held, Logged
    <2>4. Seen(p)'
      BY <1>7, <1>8, <1>9, <1>10 DEF Seen
    <2>5. Events(p)'
      BY <1>8, <1>9, FS_EmptySet DEF Events
    <2>6. Kept(p)'
      BY <1>1, <1>8, <1>9, <1>10, <1>13 DEF Kept, Known
    <2>7. Counts(p)' /\ Ends(p)' /\ CandidateFirst(p)'
      BY <1>8, <1>9, <1>10 DEF Counts, Ends, CandidateFirst
    <2>8. Sweep(p)'
      <3>1. tx'[p].pending = <<>>
        BY <1>8, <1>9
      <3>2. Len(tx'[p].pending) # 2
        BY <3>1
      <3> QED
        BY <1>1, <1>7, <1>8, <1>9, <1>10, <1>14, <3>2 DEF Sweep
    <2> QED
      BY <2>1, <2>2, <2>3, <2>4, <2>5, <2>6, <2>7, <2>8 DEF Local
  <1>17. \A q \in Process \ {p} : Apart(p, q)'
    BY <1>8, <1>9, <1>10, <1>13 DEF Apart
  <1>18. lastId <= lastId'
    BY <1>1 DEF TypeOK
  <1> QED
    BY <1>1, <1>9, <1>15, <1>16, <1>17, <1>18, OthersStay

-----------------------------------------------------------------------------
(* The event.                                                              *)

LEMMA OneWaits == \A k : {<<k>>[i] : i \in 1..Len(<<k>>)} = {k}
  OBVIOUS

LEMMA TwoWait == \A k, l : {<<k, l>>[i] : i \in 1..Len(<<k, l>>)} = {k, l}
  OBVIOUS

LEMMA OneIsShort == \A w, k : w = <<>> \/ w = <<k>> => Len(w) # 2
  OBVIOUS

LEMMA PendingParts ==
    ASSUME NEW w \in Pendings, w # <<>>
    PROVE  /\ Head(w) \in Keys /\ Tail(w) \in Pendings
           /\ {w[i] : i \in 1..Len(w)} = {Head(w)} \cup {Tail(w)[i] : i \in 1..Len(Tail(w))}
           /\ Len(w) = 1 => Tail(w) = <<>>
           /\ Len(w) > 1 => Len(w) = 2 /\ Tail(w) = <<w[2]>> /\ Head(w) = w[1]
  <1>1. CASE w \in {<<k>> : k \in Keys}
    <2>1. PICK k \in Keys : w = <<k>>
      BY <1>1
    <2>2. Head(w) = k /\ Tail(w) = <<>> /\ {w[i] : i \in 1..Len(w)} = {k}
      BY <2>1
    <2>3. <<>> \in Pendings
      BY DEF Pendings
    <2>4. Len(w) = 1
      BY <2>1
    <2> QED
      BY <2>1, <2>2, <2>3, <2>4, NothingWaits
  <1>2. CASE w \in {<<k, l>> : k, l \in Keys}
    <2>1. PICK r, k \in Keys : w = <<r, k>>
      BY <1>2
    <2>3. /\ Head(w) = r /\ Tail(w) = <<k>> /\ {w[i] : i \in 1..Len(w)} = {r, k} /\ Len(w) = 2
          /\ w[1] = r /\ w[2] = k
      BY <2>1
    <2>4. {Tail(w)[i] : i \in 1..Len(Tail(w))} = {k}
      <3>1. {<<k>>[i] : i \in 1..Len(<<k>>)} = {k}
        OBVIOUS
      <3> QED
        BY <2>3, <3>1, Zenon
    <2>6. <<k>> \in Pendings
      BY DEF Pendings
    <2>7. {w[i] : i \in 1..Len(w)} = {Head(w)} \cup {Tail(w)[i] : i \in 1..Len(Tail(w))}
      BY <2>3, <2>4, {r, k} = {r} \cup {k}, Zenon
    <2>8. Head(w) \in Keys /\ Tail(w) \in Pendings
      BY <2>3, <2>6, Zenon
    <2>9. Len(w) # 1 /\ Len(w) = 2 /\ Tail(w) = <<w[2]>> /\ Head(w) = w[1]
      BY <2>3
    <2> QED
      BY <2>7, <2>8, <2>9, Zenon
  <1> QED
    BY <1>1, <1>2 DEF Pendings

LEMMA LogEventKeeps ==
    ASSUME IInv, NEW p \in Process, LogEvent(p)
    PROVE  IInv'
  <1>1. /\ TypeOK /\ Local(p) /\ Pace(p) /\ tx[p] \in Tx /\ tx \in [Process -> Tx]
        /\ lastId \in Nat /\ tx[p].pc = "log"
        /\ lastId' = lastId + 1 /\ UNCHANGED <<table, log, lock, started>>
    BY DEF IInv, TypeOK, Local, LogEvent
  <1> PICK k : k = Head(tx[p].pending)
    OBVIOUS
  <1> PICK new : new = [id |-> lastId + 1, key |-> k, after |-> AfterImage(p, k), type |-> Call1(p).op]
    OBVIOUS
  <1> PICK pc : pc = IF Together(p) THEN "log" ELSE "mark"
    OBVIOUS
  <1> PICK u : u = [tx[p] EXCEPT !.events = @ \cup {new}, !.pending = Tail(@), !.pc = pc]
    OBVIOUS
  <1>2. tx' = [tx EXCEPT ![p] = u]
    BY <1>1 DEF LogEvent
  <1>3. /\ k \in Keys /\ Tail(tx[p].pending) \in Pendings /\ k \in Awaiting(p)
        /\ Awaiting(p) = {k} \cup {Tail(tx[p].pending)[i] : i \in 1..Len(Tail(tx[p].pending))}
        /\ Len(tx[p].pending) = 1 => Tail(tx[p].pending) = <<>>
        /\ Len(tx[p].pending) > 1 =>
             /\ Len(tx[p].pending) = 2 /\ Tail(tx[p].pending) = <<tx[p].pending[2]>>
             /\ k = tx[p].pending[1]
    BY <1>1, PendingParts DEF Pace, Tx, Awaiting
  <1>4. Call1(p) \in Calls /\ tx[p].at \in 1..Len(tx[p].script) /\ Named(k, Call1(p))
    BY <1>1, <1>3, Here DEF Pace
  <1>5. /\ new \in Event /\ new.id = lastId + 1 /\ new.key = k /\ new.type = Call1(p).op
        /\ new.after = Current(p, k)
    <2>1. Current(p, k) \in Rows
      BY <1>1, <1>3, WritesTyped
    <2>2. Call1(p).op \in Operations \cup {"created"}
      BY <1>4 DEF Calls
    <2> QED
      BY <1>1, <1>3, <2>1, <2>2 DEF Event, AfterImage
  <1>6. /\ u \in Tx /\ u.kind = tx[p].kind /\ u.script = tx[p].script /\ u.at = tx[p].at
        /\ u.mine = tx[p].mine /\ u.pc = pc /\ u.pending = Tail(tx[p].pending)
        /\ u.events = tx[p].events \cup {new}
    BY <1>1, <1>3, <1>5 DEF Tx
  <1>7. tx'[p] = u /\ \A q \in Process \ {p} : tx'[q] = tx[q]
    BY <1>1, <1>2
  <1>8. /\ Writes(p)' = Writes(p) /\ Call1(p)' = Call1(p)
        /\ Awaiting(p) = {k} \cup Awaiting(p)'
    <2>1. tx'[p].pending = Tail(tx[p].pending)
      BY <1>6, <1>7
    <2>2. Awaiting(p)' = {Tail(tx[p].pending)[i] : i \in 1..Len(Tail(tx[p].pending))}
      BY <2>1, Zenon DEF Awaiting
    <2>3. Awaiting(p) = {k} \cup Awaiting(p)'
      BY <1>3, <2>2, Zenon
    <2> QED
      BY <1>6, <1>7, <2>3 DEF Writes, Call1
  <1>9. \A j : GoneBefore(p, j)' <=> GoneBefore(p, j)
    BY <1>1, <1>6, <1>7, <1>8 DEF GoneBefore
  <1>10. /\ \A e \in tx[p].events : e.id \in Nat /\ e.id <= lastId
         /\ \A q \in Process : \A e \in tx[q].events : e.id \in Nat /\ e.id <= lastId
         /\ \A e \in log : e.id \in Nat /\ e.id <= lastId
    BY DEF IInv, TypeOK, Tx, Event, Numbered, Local, Events
  <1>11. TypeOK'
    <2>1. tx' \in [Process -> Tx]
      BY <1>1, <1>2, <1>6
    <2> QED
      BY <1>1, <2>1 DEF TypeOK
  <1>12. Pace(p)'
    <2>1. \A j \in Awaiting(p)' : Named(j, Call1(p))
      BY <1>1, <1>8 DEF Pace
    <2>2. u.pc = "log" => u.pending # <<>>
      <3>1. u.pc = "log" => Len(tx[p].pending) > 1
        BY <1>6 DEF Together
      <3>2. \A j : <<j>> # <<>>
        OBVIOUS
      <3> QED
        BY <1>3, <1>6, <3>1, <3>2
    <2>3. u.pc \in {"log", "mark"}
      BY <1>6
    <2> QED
      BY <1>1, <1>6, <1>7, <1>8, <2>1, <2>2, <2>3 DEF Pace
  <1>13. tx[p].kind \in Solo => tx[p].events = {} /\ Tail(tx[p].pending) = <<>>
    BY <1>1, <1>3 DEF Local, First
  <1>14. First(p)'
    <2>1. tx[p].kind \in Solo => u.pc = "mark"
      BY <1>1, <1>6, Here DEF Together, Own, Solo
    <2> QED
      BY <1>6, <1>7, <1>13, <2>1 DEF First
  <1>15. Held(p)' /\ Seen(p)'
    BY <1>1, <1>6, <1>7, <1>8 DEF Local, Held, Seen, Known
  <1>16. Logged(p)'
    <2>1. ASSUME NEW j \in Writes(p)
          PROVE  \/ j \in Awaiting(p)'
                 \/ \E e \in u.events : /\ e.key = j /\ e.after = tx[p].mine[j]
                                        /\ \A f \in u.events : f.key = j => f.id <= e.id
      <3>1. CASE j = k
        <4>1. new \in u.events /\ new.key = j /\ new.after = tx[p].mine[j]
          BY <1>5, <1>6, <2>1, <3>1 DEF Current, Writes
        <4>2. \A f \in u.events : f.id <= new.id
          BY <1>1, <1>5, <1>6, <1>10
        <4> QED
          BY <4>1, <4>2
      <3>2. CASE j # k /\ j \notin Awaiting(p)
        <4>1. PICK e \in tx[p].events : /\ e.key = j /\ e.after = tx[p].mine[j]
                                        /\ \A f \in tx[p].events : f.key = j => f.id <= e.id
          BY <1>1, <3>2 DEF Local, Logged
        <4>2. e \in u.events /\ \A f \in u.events : f.key = j => f.id <= e.id
          BY <1>5, <1>6, <3>2, <4>1
        <4> QED
          BY <4>1, <4>2
      <3> QED
        BY <1>8, <3>1, <3>2
    <2>2. \A j \in Awaiting(p)' : j \in Writes(p) \/ GoneBefore(p, j)
      BY <1>1, <1>8 DEF Local, Logged
    <2>3. k \in Writes(p) \/ (GoneBefore(p, k) /\ new.after = NoRow)
      <3>1. k \in Writes(p) \/ GoneBefore(p, k)
        BY <1>1, <1>3 DEF Local, Logged
      <3> QED
        BY <1>5, <3>1 DEF GoneBefore, Current, Writes
    <2>4. \A e \in u.events : e.key \in Writes(p) \/ (GoneBefore(p, e.key) /\ e.after = NoRow)
      BY <1>1, <1>5, <1>6, <2>3 DEF Local, Logged
    <2> QED
      BY <1>6, <1>7, <1>8, <1>9, <2>1, <2>2, <2>4 DEF Logged
  <1>17. Events(p)'
    <2>1. IsFiniteSet(u.events)
      BY <1>1, <1>6, FS_AddElement DEF Local, Events
    <2>2. ASSUME NEW e \in tx[p].events
          PROVE  /\ e.id > 0 /\ e.id <= lastId + 1
                 /\ \E i \in 1..Len(tx[p].script) :
                      e.type = tx[p].script[i].op /\ Named(e.key, tx[p].script[i])
                 /\ \A f \in u.events : e.id = f.id => e = f
                 /\ \A f \in log : e.id # f.id /\ (e.key = f.key => f.id < e.id \/ f.after = e.after)
      BY <1>1, <1>5, <1>6, <1>10, <2>2 DEF Local, Events
    <2>3. /\ new.id > 0 /\ new.id <= lastId + 1
          /\ \E i \in 1..Len(tx[p].script) :
               new.type = tx[p].script[i].op /\ Named(new.key, tx[p].script[i])
          /\ \A f \in u.events : new.id = f.id => new = f
          /\ \A f \in log : new.id # f.id /\ (new.key = f.key => f.id < new.id \/ f.after = new.after)
      <3>1. new.type = tx[p].script[tx[p].at].op /\ Named(new.key, tx[p].script[tx[p].at])
        BY <1>4, <1>5 DEF Call1
      <3> QED
        BY <1>1, <1>4, <1>5, <1>6, <1>10, <3>1
    <2>4. tx[p].kind \in Solo => \A e, f \in u.events : e = f
      BY <1>6, <1>13
    <2> QED
      BY <1>1, <1>6, <1>7, <2>1, <2>2, <2>3, <2>4 DEF Events
  <1>18. Kept(p)' /\ Counts(p)' /\ Ends(p)' /\ CandidateFirst(p)'
    BY <1>1, <1>6, <1>7, <1>8 DEF Local, Kept, Counts, Ends, CandidateFirst, Known
  <1>22. Sweep(p)'
    <2> SUFFICES ASSUME tx[p].kind \in Batch PROVE Sweep(p)'
      BY <1>6, <1>7 DEF Sweep
    <2>1. k \notin Awaiting(p)'
      <3>1. CASE Len(tx[p].pending) > 1
        <4> PICK j : j = tx[p].pending[2]
          OBVIOUS
        <4>1. tx'[p].pending = <<j>>
          BY <1>3, <1>6, <1>7, <3>1
        <4>4. Awaiting(p)' = {<<j>>[i] : i \in 1..Len(<<j>>)}
          BY <4>1, Zenon DEF Awaiting
        <4>2. Awaiting(p)' = {tx[p].pending[2]}
          BY <4>4, OneWaits
        <4>3. tx[p].pending[1] # tx[p].pending[2]
          BY <1>1, <1>3, <3>1 DEF Local, Sweep
        <4> QED
          BY <1>3, <3>1, <4>2, <4>3
      <3>2. CASE ~(Len(tx[p].pending) > 1)
        <4>1. tx'[p].pending = <<>>
          BY <1>1, <1>3, <1>6, <1>7, <3>2 DEF Pace, Tx, Pendings
        <4> QED
          BY <4>1, NothingWaits DEF Awaiting
      <3> QED
        BY <3>1, <3>2
    <2>2. ASSUME NEW e \in u.events
          PROVE  e.key \notin Awaiting(p)' /\ \A f \in u.events : e.key = f.key => e = f
      BY <1>1, <1>3, <1>5, <1>6, <1>8, <2>1 DEF Local, Sweep
    <2>3. Len(u.pending) # 2
      <3>1. CASE Len(tx[p].pending) > 1
        <4> PICK j : j = tx[p].pending[2]
          OBVIOUS
        <4>1. u.pending = <<j>>
          BY <1>3, <1>6, <3>1
        <4> QED
          BY <4>1, OneIsShort, Zenon
      <3>2. CASE ~(Len(tx[p].pending) > 1)
        <4>1. u.pending = <<>>
          BY <1>1, <1>3, <1>6, <3>2 DEF Pace, Tx, Pendings
        <4> QED
          BY <4>1, OneIsShort, Zenon
      <3> QED
        BY <3>1, <3>2
    <2>4. tx[p].at = 2 /\ u.pc \in {"log", "mark"}
      BY <1>1, <1>6 DEF Local, Sweep
    <2> QED
      BY <1>6, <1>7, <2>2, <2>3, <2>4 DEF Sweep
  <1>19. Local(p)'
    BY <1>12, <1>14, <1>15, <1>16, <1>17, <1>18, <1>22 DEF Local
  <1>20. ASSUME NEW q \in Process \ {p} PROVE Apart(p, q)'
    <2>1. Apart(p, q)
      BY DEF IInv
    <2>2. \A f \in tx[q].events : new.id # f.id
      BY <1>1, <1>5, <1>10
    <2>3. \A e \in u.events, f \in tx[q].events : e.id # f.id
      BY <1>6, <2>1, <2>2 DEF Apart
    <2> QED
      BY <1>6, <1>7, <1>8, <2>1, <2>3 DEF Apart, Writes
  <1>21. lastId <= lastId'
    BY <1>1
  <1> QED
    BY <1>1, <1>7, <1>11, <1>19, <1>20, <1>21, OthersStay

-----------------------------------------------------------------------------
(* The statement that changes a row.                                       *)

LEMMA Made ==
    ASSUME NEW c \in Calls, NEW row \in Rows, NEW before \in Rows, Matches(c, row, before),
           c.op # "lockCandidate"
    PROVE  /\ Effect(c, row, before) \in Rows
           /\ c.op \in Removing <=> Effect(c, row, before) = NoRow
           /\ c.op \notin Creating => row # NoRow
           /\ c.key \in Counted /\ c.op \notin Removing =>
                Effect(c, row, before).count = IF c.op \in Counting[c.key] THEN row.count + 1 ELSE row.count
           /\ c.op = "promoteCandidate" => Effect(c, row, before).text = "promoted"
           /\ c.op = "deleteExpiredKnowledgeCandidates" => row.text # "promoted"
           /\ c.op = "updateWorkItem" /\ c.expect # 0 => row.count = c.expect
  <1>1. c.op \in Operations /\ (c.key \in Counted => c.op \in OnFact \cup OnPlaybook \cup OnItem)
    BY DEF Calls, Counted
  <1>2. /\ c.op \notin Creating => row # NoRow
        /\ c.op = "deleteExpiredKnowledgeCandidates" => row.text # "promoted"
        /\ c.op = "updateWorkItem" => before # NoRow /\ c.expect \in {0, row.count}
    BY DEF Matches, Creating
  <1>3. c.key \in Counted => c.op \notin Creating
    BY <1>1 DEF Creating, OnFact, OnPlaybook, OnItem
  <1>4. CASE c.op \in Creating
    <2>1. Effect(c, row, before) \in Row
      BY <1>4, Created
    <2>2. c.op \notin Removing /\ c.op # "promoteCandidate"
      BY <1>4 DEF Creating, Removing, Deleting
    <2> QED
      BY <1>2, <1>3, <1>4, <2>1, <2>2, RowsApart DEF Rows
  <1>5. CASE c.op \in Removing
    <2>1. Effect(c, row, before) = NoRow
      BY <1>5, Removed
    <2>2. c.op # "promoteCandidate"
      BY <1>5 DEF Removing, Deleting
    <2> QED
      BY <1>2, <1>5, <2>1, <2>2 DEF Rows
  <1>6. CASE c.op \notin Creating \cup Removing
    <2>1. row \in Row
      BY <1>2, <1>6 DEF Rows
    <2>2. /\ Effect(c, row, before) \in Row
          /\ Effect(c, row, before).count =
               IF c.op \in Using THEN row.count + 1 ELSE row.count
          /\ c.op = "promoteCandidate" => Effect(c, row, before).text = "promoted"
      BY <1>1, <1>2, <1>6, <2>1, Updated
    <2>3. c.key \in Counted =>
            (c.op \in Counting[c.key] <=> c.op \in Using)
      <3>1. c.key \in {"fact", "fact1"} => c.op \in OnFact
        BY DEF Calls
      <3>2. c.key = "playbook" => c.op \in OnPlaybook
        BY DEF Calls
      <3>3. c.key = "item" => c.op \in OnItem
        BY DEF Calls
      <3> QED
        BY <3>1, <3>2, <3>3 DEF Counted, Counting, Using, OnFact, OnPlaybook, OnItem
    <2>4. c.key \in Counted =>
            Effect(c, row, before).count = IF c.op \in Counting[c.key] THEN row.count + 1 ELSE row.count
      BY <2>2, <2>3
    <2> QED
      BY <1>2, <1>6, <2>2, <2>4, RowsApart DEF Rows
  <1> QED
    BY <1>4, <1>5, <1>6

\* A statement after which p, as u, goes on to log, or that goes on to its next row.
Launches(p, u) ==
    /\ tx' = [tx EXCEPT ![p] = u] /\ UNCHANGED <<table, log, lastId>> /\ started' \in Nat
    /\ u.kind = tx[p].kind /\ u.script = tx[p].script /\ u.events = tx[p].events
    /\ \/ /\ u.pc = "log" /\ u.at = tx[p].at /\ u.pending # <<>>
          /\ u.kind \in Solo => Len(u.pending) = 1
       \/ u.pc = "write" /\ u.at = 2 /\ u.kind \in Batch

\* It has written the rows W.
Lays(p, u, W) ==
    /\ DOMAIN u.mine = Writes(p) \cup W
    /\ \A j \in Writes(p) \ W : u.mine[j] = tx[p].mine[j]
    /\ \A j \in W : IF j \in Revisions
                    THEN ~Known(j) /\ \A q \in Process : j \notin Writes(q)
                    ELSE j = Call1(p).key /\ CanLock(p, j) /\ lock'[j] = p

\* It logs them, or the row that was gone, with what it has to log already.
Notes(p, W) ==
    /\ W \cup Awaiting(p) \subseteq Awaiting(p)'
    /\ \A j \in Awaiting(p)' : j \in W \cup Writes(p) \/ GoneBefore(p, j)'

LEMMA Writing ==
    ASSUME IInv, NEW p \in Process, tx[p].pc = "write", NEW u \in Tx, Launches(p, u),
           NEW W \in SUBSET Keys, Lays(p, u, W), Notes(p, W), Takes(p, Call1(p).key),
           Call1(p).key \in Old => lock' = lock \/ Current(p, Call1(p).key) # NoRow,
           Pace(p)', Seen(p)', Kept(p)', Counts(p)', Ends(p)', Sweep(p)'
    PROVE  IInv'
  <1> USE DEF Launches, Lays, Notes
  <1>1. /\ TypeOK /\ Local(p) /\ Pace(p) /\ tx[p] \in Tx /\ tx \in [Process -> Tx]
        /\ Call1(p) \in Calls
    BY Here DEF IInv, TypeOK, Local
  <1>2. tx'[p] = u /\ \A q \in Process \ {p} : tx'[q] = tx[q]
    BY <1>1
  <1>3. Call1(p).key \in Keys \ Revisions
    BY <1>1 DEF Calls
  <1>4. /\ lock' \in [Keys \cup {"watermark"} -> Process \cup {Free}]
        /\ DOMAIN lock' = DOMAIN lock
        /\ \A j \in DOMAIN lock : lock[j] = p => lock'[j] = p
        /\ \A j \in DOMAIN lock :
             lock'[j] = lock[j] \/ (lock[j] \in {Free, p} /\ lock'[j] \in {Free, p})
        /\ \A j \in DOMAIN lock : lock'[j] = p => lock[j] = p \/ j = Call1(p).key
    <2>1. PICK k \in Keys \cup {"watermark"} : k = Call1(p).key
      BY <1>3
    <2>2. Takes(p, k)
      BY <2>1
    <2> HIDE DEF Launches, Lays, Notes
    <2> QED
      BY <2>1, <2>2, Taken
  <1>5. Writes(p)' = Writes(p) \cup W /\ Writes(p) \subseteq Keys
    BY <1>1, <1>2, WritesTyped DEF Writes
  <1>7. tx[p].kind \in Solo => tx[p].at = 1 /\ tx[p].events = {}
    BY <1>1, Here DEF Local, First
  <1>8. TypeOK'
    <2>1. tx' \in [Process -> Tx]
      BY <1>1, <1>2
    <2> QED
      BY <1>1, <1>4, <2>1 DEF TypeOK
  <1>10. First(p)'
    BY <1>2, <1>7 DEF First
  <1>11. Held(p)'
    <2>1. \A j \in Writes(p) : IF j \in Revisions THEN ~Known(j) ELSE lock'[j] = p
      BY <1>1, <1>4, <1>5 DEF Local, Held, TypeOK
    <2>2. \A j \in W : IF j \in Revisions THEN ~Known(j) ELSE lock'[j] = p
      OBVIOUS
    <2> QED
      BY <1>5, <2>1, <2>2 DEF Held, Known
  <1>13. Logged(p)'
    <2>1. ASSUME NEW j \in Writes(p) \ W, j \notin Awaiting(p)
          PROVE  \E e \in u.events : /\ e.key = j /\ e.after = u.mine[j]
                                     /\ \A f \in u.events : f.key = j => f.id <= e.id
      BY <1>1, <2>1 DEF Local, Logged
    <2>2. \A e \in u.events : e.key \in Writes(p)
      <3>1. \A e \in u.events : tx[p].kind # "deleteWorkItem"
        BY <1>7 DEF Solo
      <3> QED
        BY <1>1, <3>1 DEF Local, Logged, GoneBefore
    <2> QED
      BY <1>2, <1>5, <2>1, <2>2 DEF Logged
  <1>14. Events(p)'
    BY <1>1, <1>2 DEF Local, Events
  <1>15. CandidateFirst(p)'
    <2>1. "candidate" \in DOMAIN lock
      BY <1>4 DEF Keys, Old
    <2>2. u.kind \in Batch => u.kind # "promoteKnowledgeCandidate"
      BY Batches
    <2> QED
      BY <1>1, <1>2, <1>4, <2>1, <2>2 DEF Local, CandidateFirst
  <1>16. Local(p)'
    BY <1>10, <1>11, <1>13, <1>14, <1>15 DEF Local
  <1>17. ASSUME NEW q \in Process \ {p} PROVE Apart(p, q)'
    <2>1. Apart(p, q) /\ Held(q) /\ Writes(q)' = Writes(q)
      BY <1>2 DEF IInv, Local, Writes
    <2>2. \A j \in W : j \notin Writes(q)
      <3>1. \A j \in W \ Revisions : lock[j] \in {Free, p}
        BY DEF CanLock
      <3> QED
        BY <2>1, <3>1, ConstantsAssumption DEF Held
    <2> QED
      BY <1>2, <1>5, <2>1, <2>2 DEF Apart
  <1>18. \A j \in Old : lock'[j] = p => lock[j] = p \/ table[j] # NoRow
    <2>1. Old \subseteq DOMAIN lock
      BY <1>4 DEF Keys
    <2>2. SUFFICES ASSUME Call1(p).key \in Old, lock' # lock
                   PROVE  lock[Call1(p).key] = p \/ table[Call1(p).key] # NoRow
      BY <1>4, <2>1
    <2>3. Call1(p).key \in Writes(p) => lock[Call1(p).key] = p
      BY <1>1, <1>3 DEF Local, Held
    <2> QED
      BY <2>2, <2>3 DEF Current, Writes
  <1>19. lastId <= lastId'
    BY <1>1 DEF TypeOK
  <1> QED
    BY <1>2, <1>4, <1>8, <1>16, <1>17, <1>18, <1>19, OthersStay

\* p goes on to log what the call at hand names.
LEMMA LogsNext ==
    ASSUME IInv, NEW p \in Process, tx[p].pc = "write", NEW u, tx' = [tx EXCEPT ![p] = u],
           u.kind = tx[p].kind, u.script = tx[p].script, u.at = tx[p].at, u.pc = "log",
           u.pending # <<>>, \A j \in Awaiting(p)' : Named(j, Call1(p))
    PROVE  Pace(p)' /\ Seen(p)'
  <1>1. Pace(p) /\ tx'[p] = u
    BY DEF IInv, TypeOK, Local
  <1>2. Call1(p)' = Call1(p)
    BY <1>1 DEF Call1
  <1>3. \A j \in Awaiting(p)' : Named(j, Call1(p)')
    BY <1>2
  <1> QED
    BY <1>1, <1>2, <1>3 DEF Pace, Seen

\* What a transaction has written of counts, candidates and lasting rows it has still.
LEMMA Leaving ==
    ASSUME IInv, NEW p \in Process, UNCHANGED <<table, log>>, tx'[p].kind = tx[p].kind,
           tx'[p].script = tx[p].script, tx'[p].mine = tx[p].mine
    PROVE  Kept(p)' /\ Counts(p)' /\ Ends(p)'
  <1>1. Kept(p) /\ Counts(p) /\ Ends(p) /\ Writes(p)' = Writes(p)
    BY DEF IInv, Local, Writes
  <1>2. Kept(p)'
    BY <1>1 DEF Kept, Known
  <1>3. Counts(p)' /\ Ends(p)'
    BY <1>1 DEF Counts, Ends
  <1> QED
    BY <1>2, <1>3

\* A statement that found its row has made of it what it should, with rows R beside it.
Lands(p, R) ==
    /\ UNCHANGED <<table, log>> /\ tx'[p].kind = tx[p].kind /\ tx'[p].script = tx[p].script
    /\ Matches(Call1(p), Current(p, Call1(p).key), tx[p].before)
    /\ Writes(p)' = Writes(p) \cup {Call1(p).key} \cup R
    /\ tx'[p].mine[Call1(p).key] = Effect(Call1(p), Current(p, Call1(p).key), tx[p].before)
    /\ \A j \in Writes(p) : j # Call1(p).key /\ j \notin R => tx'[p].mine[j] = tx[p].mine[j]

\* What a statement that found its row leaves of counts, candidates and lasting rows.
LEMMA Keeping ==
    ASSUME IInv, NEW p \in Process, tx[p].pc = "write", NEW R \in SUBSET Revisions, Lands(p, R)
    PROVE  Kept(p)' /\ Counts(p)' /\ Ends(p)'
  <1> USE DEF Lands
  <1> PICK c : c = Call1(p)
    OBVIOUS
  <1> PICK k : k = c.key
    OBVIOUS
  <1> PICK row : row = Current(p, k)
    OBVIOUS
  <1> PICK made : made = tx'[p].mine[k]
    OBVIOUS
  <1>1. TypeOK /\ Local(p) /\ Pace(p) /\ tx[p] \in Tx
    BY DEF IInv, TypeOK, Local
  <1>2. /\ c \in Calls /\ c.op # "lockCandidate"
        /\ tx[p].kind \in Solo => tx[p].at = 1
        /\ tx[p].kind \in Own => c.op = tx[p].kind
        /\ c.op \in Own => tx[p].kind = c.op
    BY <1>1, Here DEF Pace
  <1>3. k \in Keys /\ row \in Rows /\ tx[p].before \in Rows
    BY <1>1, <1>2, WritesTyped DEF Calls, Tx
  <1>4. /\ c.op \in Removing <=> made = NoRow
        /\ c.op \notin Creating => row # NoRow
        /\ k \in Counted /\ c.op \notin Removing =>
             made.count = IF c.op \in Counting[k] THEN row.count + 1 ELSE row.count
        /\ c.op = "promoteCandidate" => made.text = "promoted"
        /\ c.op = "deleteExpiredKnowledgeCandidates" => row.text # "promoted"
        /\ c.op = "updateWorkItem" /\ c.expect # 0 => row.count = c.expect
    BY <1>2, <1>3, Made
  <1>5. tx[p].kind \in Own => row = table[k]
    BY OwnRow
  <1>6. \A j \in Writes(p)' \ {k} : j \in Revisions \/ (j \in Writes(p) /\ tx'[p].mine[j] = tx[p].mine[j])
    OBVIOUS
  <1>7. /\ Revisions \cap Lasting = {} /\ Revisions \cap Counted = {}
        /\ "association" \notin Revisions /\ Revisions \cap Expirable = {}
    BY DEF Revisions, Lasting, Old, Counted, Expirable
  <1>8. Kept(p)'
    <2>1. ASSUME NEW j \in Writes(p)' \cap Lasting PROVE tx'[p].mine[j] # NoRow
      <3>1. c.op \in Removing => k \notin Lasting
        BY <1>2, Batches DEF Calls, Removing, Deleting, OnItem, OnAssociation, Lasting, Old
      <3>2. j # k => j \in Writes(p) /\ tx'[p].mine[j] = tx[p].mine[j]
        BY <1>6, <1>7, <2>1
      <3> QED
        BY <1>1, <1>4, <2>1, <3>1, <3>2 DEF Local, Kept
    <2>2. "association" \in Writes(p)' /\ tx'[p].mine["association"] = NoRow =>
            tx[p].kind = "deleteAssociation"
      <3>1. k = "association" /\ c.op \in Removing => c.op = "deleteAssociation"
        BY <1>2, Batches DEF Calls, Removing, Deleting, OnAssociation, Expirable
      <3>2. c.op = "deleteAssociation" => tx[p].kind = "deleteAssociation"
        BY <1>2 DEF Own, Solo
      <3> QED
        BY <1>1, <1>4, <1>6, <1>7, <3>1, <3>2 DEF Local, Kept
    <2>3. tx[p].kind = "deleteAssociation" =>
            Known("association") /\ \A e \in log : e.type # "deleteAssociation"
      BY <1>1 DEF Local, Kept
    <2> QED
      BY <2>1, <2>2, <2>3 DEF Kept, Known
  <1>9. Counts(p)'
    <2>1. ASSUME NEW j \in Counted \cap Writes(p)'
          PROVE  IF tx[p].kind \in Counting[j] THEN tx'[p].mine[j].count = table[j].count + 1
                 ELSE tx'[p].mine[j] = NoRow \/ tx'[p].mine[j].count = table[j].count
      <3>1. CASE j # k
        <4>1. j \in Writes(p) /\ tx'[p].mine[j] = tx[p].mine[j]
          BY <1>6, <1>7, <2>1, <3>1
        <4> QED
          BY <1>1, <2>1, <4>1 DEF Local, Counts
      <3>2. CASE j = k
        <4>1. Counting[k] \subseteq Own /\ c.op \notin Creating
              /\ (c.op \in Removing => c.op \notin Counting[k])
          <5>1. Counting[k] \subseteq Own /\ Counting[k] \cap Removing = {}
            BY <2>1, <3>2, Batches DEF Counted, Counting, Own, Solo, Removing, Deleting
          <5>2. c.op \in OnFact \cup OnPlaybook \cup OnItem
            BY <1>2, <2>1, <3>2 DEF Calls, Counted
          <5>3. c.op \notin Creating
            BY <5>2 DEF Creating, OnFact, OnPlaybook, OnItem
          <5> QED
            BY <5>1, <5>3
        <4>2. CASE tx[p].kind \in Counting[k]
          <5>1. c.op = tx[p].kind /\ row = table[k]
            BY <1>2, <1>5, <4>1, <4>2
          <5> QED
            BY <1>4, <2>1, <3>2, <4>1, <4>2, <5>1
        <4>3. CASE tx[p].kind \notin Counting[k]
          <5>1. c.op \notin Counting[k]
            BY <1>2, <4>1, <4>3
          <5>2. row.count = table[k].count
            <6>1. CASE k \in Writes(p)
              <7>1. row = tx[p].mine[k] /\ row # NoRow
                BY <1>4, <4>1, <6>1 DEF Current, Writes
              <7> QED
                BY <1>1, <2>1, <3>2, <4>3, <6>1, <7>1 DEF Local, Counts
            <6>2. CASE k \notin Writes(p)
              BY <6>2 DEF Current, Writes
            <6> QED
              BY <6>1, <6>2
          <5> QED
            BY <1>4, <2>1, <3>2, <4>3, <5>1, <5>2
        <4> QED
          BY <4>2, <4>3
      <3> QED
        BY <3>1, <3>2
    <2>2. ASSUME tx[p].kind = "updateWorkItem", "item" \in Writes(p)', tx[p].script[1].expect # 0
          PROVE  table["item"].count = tx[p].script[1].expect
      <3>1. c.op = "updateWorkItem" /\ c = tx[p].script[1] /\ row = table[k]
        <4>1. tx[p].kind = "updateWorkItem" /\ tx[p].kind \in Solo /\ tx[p].kind \in Own
          BY <2>2 DEF Own, Solo
        <4>2. c.op = "updateWorkItem" /\ tx[p].at = 1
          BY <1>2, <4>1
        <4>3. row = table[k]
          BY <1>5, <4>1
        <4> QED
          BY <4>2, <4>3 DEF Call1
      <3>2. k = "item"
        BY <1>2, <3>1 DEF Calls, OnItem
      <3> QED
        BY <1>4, <2>2, <3>1, <3>2
    <2> QED
      BY <2>1, <2>2 DEF Counts
  <1>10. Ends(p)'
    <2>1. ASSUME NEW j \in Expirable \cap Writes(p)', j # k
          PROVE  /\ j \in Expirable \cap Writes(p)
                 /\ tx'[p].mine[j] = tx[p].mine[j]
      BY <1>6, <1>7, <2>1
    <2>2. ASSUME k \in Expirable, c.op = "deleteExpiredKnowledgeCandidates"
          PROVE  /\ tx[p].kind = "deleteExpiredKnowledgeCandidates"
                 /\ made = NoRow /\ table[k].text # "promoted"
      <3>1. tx[p].kind = "deleteExpiredKnowledgeCandidates" /\ tx[p].kind \in Own
        BY <1>2, <2>2, Batches DEF Own
      <3>2. c.op \in Removing
        BY <2>2 DEF Removing
      <3> QED
        BY <1>4, <1>5, <2>2, <3>1, <3>2
    <2>3. ASSUME k \in Expirable, c.op # "deleteExpiredKnowledgeCandidates"
          PROVE  tx[p].kind # "deleteExpiredKnowledgeCandidates" /\ made.text = "promoted"
      <3>1. c.op = "promoteCandidate"
        BY <1>2, <2>3 DEF Calls, OnCandidate
      <3>2. tx[p].kind # "deleteExpiredKnowledgeCandidates"
        BY <1>2, <2>3, Batches DEF Own
      <3> QED
        BY <1>4, <3>1, <3>2
    <2> QED
      BY <1>1, <2>1, <2>2, <2>3 DEF Local, Ends
  <1> QED
    BY <1>8, <1>9, <1>10

\* A statement that found its row has an event to write.  One that found none has one
\* only if it deletes a work item that was there when it was read.
LEMMA EventsTell ==
    ASSUME IInv, NEW p \in Process, Write(p), NEW c, c = Call1(p), NEW row, row = Current(p, c.key),
           NEW evs, evs = EventsOf(c, row, tx[p].before, Revision)
    PROVE  /\ c.op = "insertPlaybookRevision" =>
                Matches(c, row, tx[p].before) /\ evs = <<Revision, "playbook">> /\ c.key = "playbook"
           /\ c.op # "insertPlaybookRevision" => evs = <<c.key>> \/ evs = <<>>
           /\ Matches(c, row, tx[p].before) => evs # <<>>
           /\ ~Matches(c, row, tx[p].before) /\ evs # <<>> =>
                /\ tx[p].kind = "deleteWorkItem" /\ c.op = "deleteWorkItem" /\ c.key = "item"
                /\ "item" \notin Writes(p) /\ table["item"] = NoRow
  <1>1. /\ TypeOK /\ Local(p) /\ Pace(p) /\ tx[p].pc = "write"
    BY DEF IInv, Local, Write
  <1>2. c \in Calls /\ (c.op \in Solo => tx[p].kind = c.op /\ tx[p].at = 1)
    BY <1>1, Here DEF Own
  <1>3. c.op \in Reading => row # NoRow \/ (c.key = "item" /\ table["item"] = NoRow)
    BY <1>1, ReadFinds
  <1>4. c.op \in Reading => tx[p].before # NoRow \/ (c.key = "item" /\ table["item"] = NoRow)
    BY <1>1 DEF Local, Seen
  <1>5. c.key = "item" => c.op \in OnItem /\ c.op \in Solo
    BY <1>2 DEF Calls, OnItem, Solo
  <1>6. c.key = "item" => tx[p].at = 1 /\ row = table["item"] /\ "item" \notin Writes(p)
    BY <1>1, <1>2, <1>5, ReadsCommitted
  <1>7. Matches(c, row, tx[p].before) => c.op \in Creating \/ row # NoRow
    BY DEF Matches
  <1>8. Creating \cap Reading = {} /\ Deleting \subseteq Reading /\ Creating \cap Deleting = {}
    BY DEF Creating, Reading, Deleting
  <1>9. Matches(c, row, tx[p].before) /\ c.op \in Reading => tx[p].before # NoRow
    BY <1>4, <1>6, <1>7, <1>8
  <1>10. CASE c.op = "insertPlaybookRevision"
    <2>1. c.key = "playbook" /\ c.op \in Reading
      BY <1>2, <1>10 DEF Calls, OnPlaybook, Reading
    <2>2. row # NoRow
      BY <1>3, <2>1
    <2>3. Matches(c, row, tx[p].before)
      BY <1>10, <2>2 DEF Matches
    <2>4. PICK r : r = Revision
      OBVIOUS
    <2>5. evs = <<r, "playbook">>
      BY <1>10, <2>1, <2>4 DEF EventsOf
    <2>6. evs # <<>>
      BY <2>5
    <2> QED
      BY <1>10, <2>1, <2>3, <2>4, <2>5, <2>6, Zenon
  <1>11. CASE c.op # "insertPlaybookRevision"
    <2>1. evs = IF \/ c.op \in Deleting /\ tx[p].before # NoRow
                   \/ /\ c.op \notin Deleting /\ Matches(c, row, tx[p].before)
                      /\ c.op \in Reading => tx[p].before # NoRow
                THEN <<c.key>> ELSE <<>>
      BY <1>11 DEF EventsOf
    <2>2. Matches(c, row, tx[p].before) => evs # <<>>
      BY <1>8, <1>9, <2>1
    <2>3. ASSUME ~Matches(c, row, tx[p].before), evs # <<>>
          PROVE  c.op = "deleteWorkItem" /\ c.key = "item" /\ table["item"] = NoRow
      <3>1. c.op \in Deleting
        BY <2>1, <2>3
      <3>2. row = NoRow
        BY <2>3, <3>1 DEF Matches, Deleting
      <3>3. c.key = "item" /\ table["item"] = NoRow
        BY <1>3, <1>8, <3>1, <3>2
      <3> QED
        BY <1>5, <3>1, <3>3 DEF OnItem, Deleting
    <2>4. evs = <<c.key>> \/ evs = <<>>
      BY <2>1
    <2> QED
      BY <1>2, <1>6, <1>11, <2>2, <2>3, <2>4 DEF Solo
  <1> QED
    BY <1>10, <1>11

\* s goes on to log evs.
Launch(s, evs) == [s EXCEPT !.pc = "log", !.pending = evs]

LEMMA Launched ==
    ASSUME NEW s \in Tx, NEW evs \in Pendings, NEW u, u = Launch(s, evs)
    PROVE  /\ u \in Tx /\ u.kind = s.kind /\ u.script = s.script /\ u.at = s.at /\ u.events = s.events
           /\ u.mine = s.mine /\ u.pc = "log" /\ u.pending = evs
  BY DEF Tx, Launch

LEMMA TwoPend == \A k, l \in Keys : <<k, l>> \in Pendings
  BY DEF Pendings

LEMMA JoinNothing ==
    /\ <<>> \o <<>> = <<>>
    /\ \A k : <<>> \o <<k>> = <<k>>
    /\ \A k, l : <<>> \o <<k, l>> = <<k, l>>
  OBVIOUS

LEMMA WriteOneKeeps ==
    ASSUME IInv, NEW p \in Process, Write(p), Call1(p).op \notin Batch
    PROVE  IInv'
  <1> PICK c : c = Call1(p)
    OBVIOUS
  <1> PICK row : row = Current(p, c.key)
    OBVIOUS
  <1> PICK r : r = Revision
    OBVIOUS
  <1> PICK evs : evs = EventsOf(c, row, tx[p].before, r)
    OBVIOUS
  <1> PICK found : found = Matches(c, row, tx[p].before)
    OBVIOUS
  <1>1. /\ TypeOK /\ Local(p) /\ Pace(p) /\ tx[p] \in Tx /\ tx \in [Process -> Tx] /\ started \in Nat
        /\ tx[p].pc = "write" /\ tx[p].before \in Rows
    BY DEF IInv, TypeOK, Local, Write, Tx
  <1>3. c \in Calls /\ tx[p].kind \notin Batch /\ (tx[p].kind \in Own => c.op = tx[p].kind)
    BY <1>1, Here DEF Own
  <1>13. tx[p].pending = <<>> /\ Awaiting(p) = {}
    <2>1. tx[p].pending = <<>>
      BY <1>1, <1>3 DEF Pace
    <2> QED
      BY <2>1, NothingWaits DEF Awaiting
  <1>5. /\ c.op = "insertPlaybookRevision" => found /\ evs = <<r, "playbook">> /\ c.key = "playbook"
        /\ c.op # "insertPlaybookRevision" => evs = <<c.key>> \/ evs = <<>>
        /\ found => evs # <<>>
        /\ ~found /\ evs # <<>> =>
             /\ tx[p].kind = "deleteWorkItem" /\ c.op = "deleteWorkItem" /\ c.key = "item"
             /\ "item" \notin Writes(p) /\ table["item"] = NoRow
    BY EventsTell
  <1>2. /\ CanLock(p, c.key) /\ UNCHANGED <<table, log, lastId, started>>
        /\ c.op = "insertPlaybookRevision" => FreeRevisions # {}
        /\ lock' = IF found THEN [lock EXCEPT ![c.key] = p] ELSE lock
        /\ tx' = [tx EXCEPT ![p] = IF evs = <<>> THEN NextCall(Changed(p, c, row))
                                   ELSE Launch(Changed(p, c, row), evs)]
    <2>1. ~RowsLeft(p)
      BY DEF RowsLeft
    <2>3. tx[p].pending \o evs = evs
      BY <1>5, <1>13, JoinNothing, Zenon
    <2>4. tx' = [tx EXCEPT ![p] = Continue(p, Changed(p, c, row), evs)]
      BY <2>3, Zenon DEF Write
    <2> QED
      BY <2>1, <2>4, Zenon DEF Write, Launch, Continue
  <1>4. c.key \in Keys \ Revisions /\ c.op # "lockCandidate" /\ row \in Rows
    BY <1>1, <1>3, WritesTyped DEF Calls, Pace
  <1>6. Takes(p, c.key) /\ (found => lock'[c.key] = p)
    <2>1. DOMAIN lock = Keys \cup {"watermark"}
      BY <1>1 DEF TypeOK
    <2> QED
      BY <1>2, <1>4, <2>1 DEF Takes
  <1>7. c.key \in Old => lock' = lock \/ row # NoRow
    <2>1. c.key \in Old => c.op \notin Creating
      BY <1>3 DEF Calls, Old, New, Revisions
    <2> QED
      BY <1>2, <2>1 DEF Matches
  <1>8. CASE evs = <<>>
    <2>1. ~found /\ Changed(p, c, row) = tx[p]
      BY <1>5, <1>8 DEF Changed
    <2>2. tx' = [tx EXCEPT ![p] = NextCall(tx[p])] /\ lock' = lock
      BY <1>2, <1>8, <2>1
    <2>3. tx[p].pending = <<>>
      BY <1>13
    <2> QED
      BY <1>1, <1>2, <1>3, <1>4, <1>6, <2>2, <2>3, Advance
  <1> PICK made : made = Effect(c, row, tx[p].before)
    OBVIOUS
  <1>9. found => made \in Rows
    BY <1>1, <1>3, <1>4, Made
  <1>10. CASE found /\ c.op # "insertPlaybookRevision"
    <2> PICK s : s = Store(tx[p], c.key, made)
      OBVIOUS
    <2> PICK u : u = Launch(s, evs)
      OBVIOUS
    <2>1. evs = <<c.key>> /\ evs # <<>> /\ evs \in Pendings /\ Len(evs) = 1
      BY <1>4, <1>5, <1>10 DEF Pendings
    <2>2. /\ s \in Tx /\ s.kind = tx[p].kind /\ s.script = tx[p].script /\ s.at = tx[p].at
          /\ s.events = tx[p].events
          /\ DOMAIN s.mine = DOMAIN tx[p].mine \cup {c.key} /\ s.mine[c.key] = made
          /\ \A j \in DOMAIN tx[p].mine : j # c.key => s.mine[j] = tx[p].mine[j]
      BY <1>1, <1>4, <1>9, <1>10, Stored
    <2>3. /\ u \in Tx /\ u.kind = s.kind /\ u.script = s.script /\ u.at = s.at /\ u.events = s.events
          /\ u.mine = s.mine /\ u.pc = "log" /\ u.pending = evs
      BY <2>1, <2>2, Launched
    <2>4. tx' = [tx EXCEPT ![p] = u]
      <3>1. Changed(p, c, row) = s
        BY <1>10 DEF Changed
      <3> QED
        BY <1>2, <2>1, <3>1
    <2>5. tx'[p] = u
      BY <1>1, <2>4
    <2>6. Awaiting(p)' = {c.key}
      <3>1. tx'[p].pending = <<c.key>>
        BY <2>1, <2>3, <2>5
      <3>2. Awaiting(p)' = {<<c.key>>[i] : i \in 1..Len(<<c.key>>)}
        BY <3>1, Zenon DEF Awaiting
      <3> QED
        BY <3>2, OneWaits, Zenon
    <2>7. Writes(p)' = Writes(p) \cup {c.key}
      BY <2>2, <2>3, <2>5 DEF Writes
    <2>8. Kept(p)' /\ Counts(p)' /\ Ends(p)'
      <3>1. {} \in SUBSET Revisions /\ Writes(p)' = Writes(p) \cup {c.key} \cup {}
        BY <2>7
      <3>2. \A j \in Writes(p) : j # c.key /\ j \notin {} => tx'[p].mine[j] = tx[p].mine[j]
        BY <2>2, <2>3, <2>5 DEF Writes
      <3>3. tx'[p].mine[c.key] = made /\ tx'[p].kind = tx[p].kind /\ tx'[p].script = tx[p].script
        BY <2>2, <2>3, <2>5
      <3>4. Lands(p, {})
        BY <1>1, <1>2, <1>10, <3>1, <3>2, <3>3 DEF Lands
      <3> QED
        BY <1>1, <3>1, <3>4, Keeping
    <2>9. DOMAIN u.mine = Writes(p) \cup {c.key}
          /\ \A j \in Writes(p) \ {c.key} : u.mine[j] = tx[p].mine[j]
      BY <2>2, <2>3 DEF Writes
    <2>10. \A j \in Awaiting(p)' : Named(j, c) /\ j \in {c.key} \cup Writes(p)
      BY <2>6 DEF Named
    <2>11. {c.key} \in SUBSET Keys /\ {c.key} \cup Awaiting(p) \subseteq Awaiting(p)'
      BY <1>4, <1>13, <2>6
    <2>12. \A j \in {c.key} : IF j \in Revisions
                              THEN ~Known(j) /\ \A q \in Process : j \notin Writes(q)
                              ELSE j = c.key /\ CanLock(p, j) /\ lock'[j] = p
      BY <1>2, <1>4, <1>6, <1>10
    <2>13. PICK W : W = {c.key}
      OBVIOUS
    <2>14. Launches(p, u)
      <3>1. u.kind = tx[p].kind /\ u.script = tx[p].script /\ u.events = tx[p].events /\ u.at = tx[p].at
        BY <2>2, <2>3
      <3>2. u.pc = "log" /\ u.pending # <<>> /\ Len(u.pending) = 1
        BY <2>1, <2>3
      <3>3. UNCHANGED <<table, log, lastId>> /\ started' \in Nat
        BY <1>1, <1>2
      <3> QED
        BY <2>4, <3>1, <3>2, <3>3 DEF Launches
    <2>15. W \in SUBSET Keys /\ Lays(p, u, W)
      BY <2>9, <2>11, <2>12, <2>13 DEF Lays
    <2>16. Notes(p, W)
      BY <2>10, <2>11, <2>13 DEF Notes
    <2>17. Pace(p)' /\ Seen(p)'
      <3>1. u.kind = tx[p].kind /\ u.script = tx[p].script /\ u.at = tx[p].at
        BY <2>2, <2>3
      <3>2. u.pc = "log" /\ u.pending # <<>>
        BY <2>1, <2>3
      <3>3. \A j \in Awaiting(p)' : Named(j, Call1(p))
        BY <2>10
      <3> QED
        BY <1>1, <2>4, <3>1, <3>2, <3>3, LogsNext
    <2>18. Sweep(p)'
      BY <1>3, <2>2, <2>3, <2>5 DEF Sweep
    <2> QED
      BY <1>1, <1>6, <1>7, <2>3, <2>8, <2>14, <2>15, <2>16, <2>17, <2>18, Writing
  <1>11. CASE ~found /\ evs # <<>>
    <2> PICK u : u = Launch(tx[p], evs)
      OBVIOUS
    <2>1. evs = <<c.key>> /\ evs \in Pendings /\ Len(evs) = 1
      BY <1>4, <1>5, <1>11 DEF Pendings
    <2>2. /\ u \in Tx /\ u.kind = tx[p].kind /\ u.script = tx[p].script /\ u.at = tx[p].at
          /\ u.events = tx[p].events /\ u.mine = tx[p].mine /\ u.pc = "log" /\ u.pending = evs
      BY <1>1, <2>1, Launched
    <2>3. tx' = [tx EXCEPT ![p] = u]
      <3>1. Changed(p, c, row) = tx[p]
        BY <1>11 DEF Changed
      <3> QED
        BY <1>2, <1>11, <3>1
    <2>4. tx'[p] = u
      BY <1>1, <2>3
    <2>5. Awaiting(p)' = {c.key} /\ Writes(p)' = Writes(p)
      <3>1. tx'[p].pending = <<c.key>>
        BY <2>1, <2>2, <2>4
      <3>2. Awaiting(p)' = {<<c.key>>[i] : i \in 1..Len(<<c.key>>)}
        BY <3>1, Zenon DEF Awaiting
      <3>3. Awaiting(p)' = {c.key}
        BY <3>2, OneWaits, Zenon
      <3> QED
        BY <2>2, <2>4, <3>3 DEF Writes
    <2>6. GoneBefore(p, c.key)'
      BY <1>2, <1>5, <1>11, <2>2, <2>4, <2>5 DEF GoneBefore
    <2>7. Kept(p)' /\ Counts(p)' /\ Ends(p)'
      BY <1>2, <2>2, <2>4, Leaving
    <2>8. DOMAIN u.mine = Writes(p) \cup {} /\ \A j \in Writes(p) \ {} : u.mine[j] = tx[p].mine[j]
      BY <2>2 DEF Writes
    <2>9. \A j \in Awaiting(p)' : Named(j, c) /\ GoneBefore(p, j)'
      BY <2>5, <2>6 DEF Named
    <2>10. {} \in SUBSET Keys /\ {} \cup Awaiting(p) \subseteq Awaiting(p)'
      BY <1>13
    <2>11. \A j \in {} : IF j \in Revisions
                         THEN ~Known(j) /\ \A q \in Process : j \notin Writes(q)
                         ELSE j = c.key /\ CanLock(p, j) /\ lock'[j] = p
      OBVIOUS
    <2>12. PICK W : W = {}
      OBVIOUS
    <2>13. Launches(p, u)
      BY <1>1, <1>2, <1>11, <2>1, <2>2, <2>3 DEF Launches
    <2>14. W \in SUBSET Keys /\ Lays(p, u, W)
      BY <2>8, <2>10, <2>11, <2>12 DEF Lays
    <2>15. Notes(p, W)
      BY <2>9, <2>10, <2>12 DEF Notes
    <2>16. Pace(p)' /\ Seen(p)'
      BY <1>1, <1>11, <2>2, <2>3, <2>9, LogsNext
    <2>17. Sweep(p)'
      BY <1>3, <2>2, <2>4 DEF Sweep
    <2> QED
      BY <1>1, <1>6, <1>7, <2>2, <2>7, <2>13, <2>14, <2>15, <2>16, <2>17, Writing
  <1>12. CASE c.op = "insertPlaybookRevision"
    <2>1. found /\ evs = <<r, "playbook">> /\ c.key = "playbook"
      BY <1>5, <1>12
    <2>2. r \in Revisions /\ ~Known(r) /\ \A q \in Process : r \notin Writes(q)
      BY <1>2, <1>12 DEF Revision, FreeRevisions, Writes
    <2>3. r \in Keys
      BY <2>2 DEF Keys, New
    <2>20. PICK first : first = [Fresh EXCEPT !.text = tx[p].seen]
      OBVIOUS
    <2>4. first \in Rows
      <3>1. tx[p].seen \in Text
        BY <1>1 DEF Tx
      <3> QED
        BY <2>20, <3>1, FreshRow DEF Row, Rows
    <2> PICK v : v = Store(tx[p], r, first)
      OBVIOUS
    <2>5. /\ v \in Tx /\ v.kind = tx[p].kind /\ v.script = tx[p].script /\ v.at = tx[p].at
          /\ v.events = tx[p].events /\ v.before = tx[p].before
          /\ DOMAIN v.mine = DOMAIN tx[p].mine \cup {r} /\ v.mine[r] = first
          /\ \A j \in DOMAIN tx[p].mine : j # r => v.mine[j] = tx[p].mine[j]
      BY <1>1, <2>3, <2>4, Stored
    <2> PICK s : s = Store(v, c.key, made)
      OBVIOUS
    <2>6. /\ s \in Tx /\ s.kind = v.kind /\ s.script = v.script /\ s.at = v.at
          /\ s.events = v.events
          /\ DOMAIN s.mine = DOMAIN v.mine \cup {c.key} /\ s.mine[c.key] = made
          /\ \A j \in DOMAIN v.mine : j # c.key => s.mine[j] = v.mine[j]
      BY <1>4, <1>9, <2>1, <2>5, Stored
    <2> PICK u : u = Launch(s, evs)
      OBVIOUS
    <2>7. evs # <<>> /\ evs \in Pendings
      <3>1. \A k, l : <<k, l>> # <<>>
        OBVIOUS
      <3>2. "playbook" \in Keys
        BY DEF Keys, Old
      <3>4. <<r, "playbook">> \in Pendings
        BY <2>3, <3>2, TwoPend, Zenon
      <3> QED
        BY <2>1, <3>1, <3>4, Zenon
    <2>8. /\ u \in Tx /\ u.kind = s.kind /\ u.script = s.script /\ u.at = s.at /\ u.events = s.events
          /\ u.mine = s.mine /\ u.pc = "log" /\ u.pending = evs
      BY <2>6, <2>7, Launched
    <2>9. tx' = [tx EXCEPT ![p] = u]
      <3>1. Changed(p, c, row) = s
        BY <1>12, <2>1, <2>20 DEF Changed
      <3> QED
        BY <1>2, <2>7, <3>1
    <2>10. tx'[p] = u
      BY <1>1, <2>9
    <2>11. Awaiting(p)' = {r, c.key}
      <3>1. tx'[p].pending = <<r, c.key>>
        BY <2>1, <2>8, <2>10
      <3>2. Awaiting(p)' = {<<r, c.key>>[i] : i \in 1..Len(<<r, c.key>>)}
        BY <3>1, Zenon DEF Awaiting
      <3>3. {<<r, c.key>>[i] : i \in 1..Len(<<r, c.key>>)} = {r, c.key}
        BY TwoWait
      <3> QED
        BY <3>2, <3>3, Zenon
    <2>12. DOMAIN u.mine = Writes(p) \cup {r, c.key}
           /\ \A j \in Writes(p) \ {r, c.key} : u.mine[j] = tx[p].mine[j]
      BY <2>5, <2>6, <2>8 DEF Writes
    <2>13. Kept(p)' /\ Counts(p)' /\ Ends(p)'
      <3>1. {r} \in SUBSET Revisions /\ Writes(p)' = Writes(p) \cup {c.key} \cup {r}
        BY <2>2, <2>10, <2>12 DEF Writes
      <3>2. \A j \in Writes(p) : j # c.key /\ j \notin {r} => tx'[p].mine[j] = tx[p].mine[j]
        BY <2>10, <2>12
      <3>3. tx'[p].mine[c.key] = made /\ tx'[p].kind = tx[p].kind /\ tx'[p].script = tx[p].script
        BY <2>5, <2>6, <2>8, <2>10
      <3>4. Lands(p, {r})
        BY <1>1, <1>2, <2>1, <3>1, <3>2, <3>3 DEF Lands
      <3> QED
        BY <1>1, <3>1, <3>4, Keeping
    <2>14. \A j \in Awaiting(p)' : Named(j, c) /\ j \in {r, c.key} \cup Writes(p)
      BY <1>12, <2>2, <2>11 DEF Named
    <2>15. {r, c.key} \in SUBSET Keys /\ {r, c.key} \cup Awaiting(p) \subseteq Awaiting(p)'
      BY <1>4, <1>13, <2>3, <2>11
    <2>16. \A j \in {r, c.key} : IF j \in Revisions
                                 THEN ~Known(j) /\ \A q \in Process : j \notin Writes(q)
                                 ELSE j = c.key /\ CanLock(p, j) /\ lock'[j] = p
      BY <1>2, <1>4, <1>6, <2>1, <2>2
    <2>17. u.kind \notin Solo
      BY <1>3, <1>12, <2>5, <2>6, <2>8 DEF Own, Solo
    <2>18. PICK W : W = {r, c.key}
      OBVIOUS
    <2>19. Launches(p, u)
      <3>1. /\ u.kind = tx[p].kind /\ u.script = tx[p].script /\ u.events = tx[p].events
            /\ u.at = tx[p].at
        BY <2>5, <2>6, <2>8
      <3>2. u.pc = "log" /\ u.pending # <<>>
        BY <2>7, <2>8
      <3> QED
        BY <1>1, <1>2, <2>9, <2>17, <3>1, <3>2 DEF Launches
    <2>21. W \in SUBSET Keys /\ Lays(p, u, W)
      BY <2>12, <2>15, <2>16, <2>18 DEF Lays
    <2>22. Notes(p, W)
      BY <2>14, <2>15, <2>18 DEF Notes
    <2>23. Pace(p)' /\ Seen(p)'
      <3>1. u.kind = tx[p].kind /\ u.script = tx[p].script /\ u.at = tx[p].at
        BY <2>5, <2>6, <2>8
      <3>2. u.pc = "log" /\ u.pending # <<>>
        BY <2>7, <2>8
      <3>3. \A j \in Awaiting(p)' : Named(j, Call1(p))
        BY <2>14
      <3> QED
        BY <1>1, <2>9, <3>1, <3>2, <3>3, LogsNext
    <2>24. Sweep(p)'
      <3>1. tx'[p].kind = tx[p].kind
        BY <2>5, <2>6, <2>8, <2>10
      <3> QED
        BY <1>3, <3>1 DEF Sweep
    <2> QED
      BY <1>1, <1>6, <1>7, <2>8, <2>13, <2>19, <2>21, <2>22, <2>23, <2>24, Writing
  <1> QED
    BY <1>8, <1>10, <1>11, <1>12

Among(w) == {w[i] : i \in 1..Len(w)}

LEMMA AmongFew ==
    /\ Among(<<>>) = {}
    /\ \A k : Among(<<k>>) = {k}
    /\ \A k, l : Among(<<k, l>>) = {k, l}
  BY NothingWaits, OneWaits, TwoWait, Zenon DEF Among

LEMMA SameTwo ==
    ASSUME NEW s \in Seq(Keys), NEW t \in Seq(Keys), Len(s) = 2, Len(t) = 2,
           s[1] = t[1], s[2] = t[2]
    PROVE  s = t
  <1>1. \A i \in 1..Len(s) : s[i] = t[i]
    OBVIOUS
  <1> QED
    BY <1>1, SeqEqual

LEMMA JoinTwo ==
    ASSUME NEW j \in Keys, NEW k \in Keys
    PROVE  <<j>> \o <<k>> = <<j, k>>
  <1>1. <<j>> \in Seq(Keys) /\ <<k>> \in Seq(Keys) /\ <<j, k>> \in Seq(Keys)
    OBVIOUS
  <1> PICK s : s = <<j>> \o <<k>>
    OBVIOUS
  <1>2. /\ s \in Seq(Keys) /\ Len(s) = Len(<<j>>) + Len(<<k>>)
        /\ \A i \in 1..Len(<<j>>) + Len(<<k>>) :
             s[i] = IF i <= Len(<<j>>) THEN <<j>>[i] ELSE <<k>>[i - Len(<<j>>)]
    BY <1>1, ConcatProperties
  <1>3. Len(<<j>>) = 1 /\ Len(<<k>>) = 1 /\ <<j>>[1] = j /\ <<k>>[1] = k
    OBVIOUS
  <1>4. Len(s) = 2 /\ s[1] = j /\ s[2] = k
    BY <1>2, <1>3
  <1>5. Len(<<j, k>>) = 2 /\ <<j, k>>[1] = j /\ <<j, k>>[2] = k
    OBVIOUS
  <1> PICK t : t = <<j, k>>
    OBVIOUS
  <1>6. t \in Seq(Keys) /\ Len(t) = 2 /\ t[1] = j /\ t[2] = k
    BY <1>1, <1>5, Zenon
  <1>7. s = t
    BY <1>2, <1>4, <1>6, SameTwo, Zenon
  <1> QED
    BY <1>7

LEMMA JoinRow ==
    ASSUME NEW j \in Keys
    PROVE  <<j>> \o <<>> = <<j>>
  <1>1. <<j>> \in Seq(Keys)
    OBVIOUS
  <1> QED
    BY <1>1, ConcatEmptySeq

\* What a row adds to what the statement has to log already.
Appended(j, k, w, e, v) ==
    /\ v \in Pendings
    /\ Among(v) = Among(w) \cup Among(e)
    /\ v = <<>> => w = <<>> /\ e = <<>>
    /\ Len(v) = 2 => w = <<j>> /\ e = <<k>> /\ v[1] = j /\ v[2] = k

LEMMA Joins ==
    ASSUME NEW j, j \in Keys, NEW k, k \in Keys, NEW w, w = <<>> \/ w = <<j>>,
           NEW e, e = <<>> \/ e = <<k>>, NEW v, v = w \o e
    PROVE  Appended(j, k, w, e, v)
  <1>1. /\ <<j>> \o <<>> = <<j>> /\ <<j>> \o <<k>> = <<j, k>>
        /\ <<>> \o <<>> = <<>> /\ <<>> \o <<k>> = <<k>>
    BY JoinTwo, JoinRow, JoinNothing, Zenon
  <1>2. <<j>> \in Pendings /\ <<k>> \in Pendings /\ <<j, k>> \in Pendings /\ <<>> \in Pendings
    BY DEF Pendings
  <1>7. /\ \A l : <<l>> # <<>>
        /\ <<j, k>> # <<>> /\ <<j, k>>[1] = j /\ <<j, k>>[2] = k
    OBVIOUS
  <1>8. /\ \A l : Len(<<l>>) # 2
        /\ Len(<<>>) # 2
    OBVIOUS
  <1>3. CASE w = <<>> /\ e = <<>>
    <2>1. v = <<>>
      BY <1>1, <1>3, Zenon
    <2>2. Among(v) = {} /\ Among(w) = {} /\ Among(e) = {}
      BY <1>3, <2>1, AmongFew, Zenon
    <2>3. Len(v) # 2 /\ v \in Pendings
      BY <1>2, <1>8, <2>1, Zenon
    <2> QED
      BY <1>3, <2>2, <2>3 DEF Appended
  <1>4. CASE w = <<>> /\ e = <<k>>
    <2>1. v = <<k>>
      BY <1>1, <1>4, Zenon
    <2>2. Among(v) = {k} /\ Among(w) = {} /\ Among(e) = {k}
      BY <1>4, <2>1, AmongFew, Zenon
    <2>3. Len(v) # 2 /\ v # <<>> /\ v \in Pendings
      BY <1>2, <1>7, <1>8, <2>1, Zenon
    <2> QED
      BY <2>2, <2>3 DEF Appended
  <1>5. CASE w = <<j>> /\ e = <<>>
    <2>1. v = <<j>>
      BY <1>1, <1>5, Zenon
    <2>2. Among(v) = {j} /\ Among(w) = {j} /\ Among(e) = {}
      BY <1>5, <2>1, AmongFew, Zenon
    <2>3. Len(v) # 2 /\ v # <<>> /\ v \in Pendings
      BY <1>2, <1>7, <1>8, <2>1, Zenon
    <2> QED
      BY <2>2, <2>3 DEF Appended
  <1>6. CASE w = <<j>> /\ e = <<k>>
    <2>1. v = <<j, k>>
      BY <1>1, <1>6, Zenon
    <2>2. Among(v) = {j, k} /\ Among(w) = {j} /\ Among(e) = {k}
      BY <1>6, <2>1, AmongFew, Zenon
    <2>3. v # <<>> /\ v[1] = j /\ v[2] = k /\ v \in Pendings
      BY <1>2, <1>7, <2>1, Zenon
    <2> QED
      BY <1>6, <2>2, <2>3 DEF Appended
  <1> QED
    BY <1>3, <1>4, <1>5, <1>6

\* t goes on to the next row of its statement.
NextRowOf(t, evs) == [t EXCEPT !.at = @ + 1, !.pending = evs]

AtNextRow(t, evs, u) ==
    /\ u \in Tx /\ u.kind = t.kind /\ u.script = t.script /\ u.at = t.at + 1
    /\ u.events = t.events /\ u.mine = t.mine /\ u.pc = t.pc /\ u.before = t.before
    /\ u.pending = evs

LEMMA NextRow ==
    ASSUME NEW t \in Tx, NEW evs \in Pendings, NEW u, u = NextRowOf(t, evs)
    PROVE  AtNextRow(t, evs, u)
  <1>1. /\ u.kind = t.kind /\ u.script = t.script /\ u.at = t.at + 1
        /\ u.events = t.events /\ u.mine = t.mine /\ u.pc = t.pc /\ u.before = t.before
        /\ u.pending = evs
    BY DEF Tx, NextRowOf
  <1>2. t.at + 1 \in Nat
    BY DEF Tx
  <1>3. u \in Tx
    <2>1. u = [t EXCEPT !.at = t.at + 1, !.pending = evs]
      BY DEF NextRowOf
    <2> QED
      BY <1>2, <2>1 DEF Tx
  <1> QED
    BY <1>1, <1>3 DEF AtNextRow

\* Where a statement on several rows is: it has come to none of them, or to the first.
LEMMA SweptSoFar ==
    ASSUME IInv, NEW p \in Process, tx[p].pc = "write", tx[p].kind \in Batch
    PROVE  /\ tx[p].script \in Seq(Calls) /\ Len(tx[p].script) = 2
           /\ \A i \in {1, 2} : tx[p].script[i] \in Calls /\ tx[p].script[i].op = tx[p].kind
           /\ tx[p].script[1].key # tx[p].script[2].key
           /\ tx[p].at = 1 => Writes(p) = {} /\ tx[p].pending = <<>>
           /\ tx[p].at = 2 => /\ Writes(p) \subseteq {tx[p].script[1].key}
                              /\ tx[p].pending \in {<<>>, <<tx[p].script[1].key>>}
  <1>1. TypeOK /\ Local(p) /\ Pace(p) /\ tx[p] \in Tx
    BY DEF IInv, TypeOK, Local
  <1>2. Running(tx[p].kind, tx[p].script)
    BY <1>1 DEF Pace
  <1>3. /\ tx[p].script \in Seq(Calls) /\ Len(tx[p].script) = 2
        /\ tx[p].script[1].key # tx[p].script[2].key
    BY <1>2 DEF Running
  <1>4. \A i \in {1, 2} : tx[p].script[i] \in Calls /\ tx[p].script[i].op = tx[p].kind
    BY <1>2, <1>3 DEF Running, Own
  <1>5. /\ \A k \in Writes(p) \cup Awaiting(p) : tx[p].at = 2 /\ k = tx[p].script[1].key
        /\ Len(tx[p].pending) = 2 => tx[p].pending[1] # tx[p].pending[2]
    BY <1>1 DEF Local, Sweep
  <1> PICK j : j = tx[p].script[1].key
    OBVIOUS
  <1>6. tx[p].pending = <<>> \/ (tx[p].pending = <<j>> /\ j \in Awaiting(p))
    <2>1. tx[p].pending \in Pendings
      BY <1>1 DEF Tx
    <2>2. CASE tx[p].pending \in {<<k>> : k \in Keys}
      <3>1. PICK k \in Keys : tx[p].pending = <<k>>
        BY <2>2
      <3>2. k \in Awaiting(p)
        BY <3>1, OneWaits DEF Awaiting
      <3> QED
        BY <1>5, <3>1, <3>2
    <2>3. CASE tx[p].pending \in {<<k, l>> : k, l \in Keys}
      <3>1. PICK k, l \in Keys : tx[p].pending = <<k, l>>
        BY <2>3
      <3>2. k \in Awaiting(p) /\ l \in Awaiting(p)
        BY <3>1, TwoWait DEF Awaiting
      <3>3. Len(tx[p].pending) = 2 /\ tx[p].pending[1] = k /\ tx[p].pending[2] = l
        BY <3>1
      <3> QED
        BY <1>5, <3>2, <3>3
    <2> QED
      BY <2>1, <2>2, <2>3 DEF Pendings
  <1> QED
    BY <1>3, <1>4, <1>5, <1>6

LEMMA WriteRowKeeps ==
    ASSUME IInv, NEW p \in Process, Write(p), Call1(p).op \in Batch
    PROVE  IInv'
  <1> PICK c : c = Call1(p)
    OBVIOUS
  <1> PICK row : row = Current(p, c.key)
    OBVIOUS
  <1> PICK here : here = EventsOf(c, row, tx[p].before, Revision)
    OBVIOUS
  <1> PICK evs : evs = tx[p].pending \o here
    OBVIOUS
  <1> PICK found : found = Matches(c, row, tx[p].before)
    OBVIOUS
  <1> PICK t : t = Changed(p, c, row)
    OBVIOUS
  <1> PICK j : j = tx[p].script[1].key
    OBVIOUS
  <1> PICK W : W = IF found THEN {c.key} ELSE {}
    OBVIOUS
  <1>1. /\ TypeOK /\ Local(p) /\ Pace(p) /\ tx[p] \in Tx /\ tx \in [Process -> Tx] /\ started \in Nat
        /\ tx[p].pc = "write" /\ tx[p].before \in Rows
    BY DEF IInv, TypeOK, Local, Write, Tx
  <1>2. /\ c \in Calls /\ tx[p].kind \in Batch /\ c.op = tx[p].kind /\ c.op \in Batch
        /\ tx[p].at \in {1, 2}
    BY <1>1, Here, Batches DEF Own, Solo
  <1>3. /\ Len(tx[p].script) = 2
        /\ \A i \in {1, 2} : tx[p].script[i] \in Calls /\ tx[p].script[i].op = tx[p].kind
        /\ j # tx[p].script[2].key
        /\ tx[p].at = 1 => Writes(p) = {} /\ tx[p].pending = <<>> /\ c.key = j
        /\ tx[p].at = 2 => /\ Writes(p) \subseteq {j} /\ tx[p].pending \in {<<>>, <<j>>}
                           /\ c.key = tx[p].script[2].key
    BY <1>1, <1>2, SweptSoFar DEF Call1
  <1>4. /\ c.key \in Keys \ Revisions /\ c.op # "lockCandidate" /\ row \in Rows /\ j \in Keys
        /\ c.key \in RowsOf[c.op] /\ c.key \notin {"item", "watermark"}
        /\ c.op # "insertPlaybookRevision" /\ c.op # "deleteWorkItem"
    <2>1. c.key \in Keys \ Revisions /\ c.key \in RowsOf[c.op] /\ j \in Keys
      BY <1>2, <1>3 DEF Calls
    <2> QED
      BY <1>1, <1>2, <2>1, WritesTyped, Batches
  <1>5. here = IF found THEN <<c.key>> ELSE <<>>
    BY <1>2, <1>4, EventsTell
  <1>6. /\ CanLock(p, c.key) /\ UNCHANGED <<table, log, lastId, started>>
        /\ lock' = IF found THEN [lock EXCEPT ![c.key] = p] ELSE lock
        /\ tx' = [tx EXCEPT ![p] = Continue(p, t, evs)]
    BY Zenon DEF Write
  <1>7. Takes(p, c.key) /\ (found => lock'[c.key] = p)
    <2>1. DOMAIN lock = Keys \cup {"watermark"}
      BY <1>1 DEF TypeOK
    <2> QED
      BY <1>4, <1>6, <2>1 DEF Takes
  <1>8. c.key \in Old => lock' = lock \/ row # NoRow
    <2>1. c.key \in Old => c.op \notin Creating
      BY <1>2 DEF Calls, Old, New, Revisions
    <2> QED
      BY <1>6, <2>1 DEF Matches
  \* What has been written after this row.
  <1>9. found => Effect(c, row, tx[p].before) \in Rows
    BY <1>1, <1>2, <1>4, Made
  <1>10. /\ t \in Tx /\ t.kind = tx[p].kind /\ t.script = tx[p].script /\ t.at = tx[p].at
         /\ t.events = tx[p].events /\ t.before = tx[p].before /\ t.pc = tx[p].pc
         /\ DOMAIN t.mine = Writes(p) \cup W
         /\ found => t.mine[c.key] = Effect(c, row, tx[p].before)
         /\ \A k \in Writes(p) \ W : t.mine[k] = tx[p].mine[k]
         /\ ~found => t = tx[p]
    <2>1. CASE found
      <3> PICK made : made = Effect(c, row, tx[p].before)
        OBVIOUS
      <3>1. t = Store(tx[p], c.key, made)
        BY <1>4, <2>1 DEF Changed
      <3>2. /\ t \in Tx /\ t.kind = tx[p].kind /\ t.script = tx[p].script /\ t.at = tx[p].at
            /\ t.events = tx[p].events /\ t.before = tx[p].before
            /\ DOMAIN t.mine = DOMAIN tx[p].mine \cup {c.key} /\ t.mine[c.key] = made
            /\ \A k \in DOMAIN tx[p].mine : k # c.key => t.mine[k] = tx[p].mine[k]
        <4>1. made \in Rows /\ c.key \in Keys
          BY <1>4, <1>9, <2>1
        <4> QED
          BY <1>1, <3>1, <4>1, Stored
      <3>3. t.pc = tx[p].pc
        <4>1. made \in Rows /\ c.key \in Keys
          BY <1>4, <1>9, <2>1
        <4> QED
          BY <1>1, <3>1, <4>1, Stored
      <3>4. W = {c.key}
        BY <2>1
      <3>5. DOMAIN t.mine = Writes(p) \cup W /\ \A k \in Writes(p) \ W : t.mine[k] = tx[p].mine[k]
        BY <3>2, <3>4 DEF Writes
      <3> QED
        BY <2>1, <3>2, <3>3, <3>5
    <2>2. CASE ~found
      BY <1>1, <2>2 DEF Changed, Writes
    <2> QED
      BY <2>1, <2>2
  \* What there is to log after this row.
  <1>11. /\ evs \in Pendings
         /\ Among(evs) = Awaiting(p) \cup W
         /\ evs = <<>> => tx[p].pending = <<>> /\ ~found
         /\ Len(evs) = 2 => tx[p].at = 2 /\ evs[1] = j /\ evs[2] = c.key
    <2>1. here \in {<<>>, <<c.key>>} /\ tx[p].pending \in {<<>>, <<j>>}
      BY <1>2, <1>3, <1>5
    <2>2. /\ evs \in Pendings
          /\ Among(evs) = Awaiting(p) \cup Among(here)
          /\ evs = <<>> => tx[p].pending = <<>> /\ here = <<>>
          /\ Len(evs) = 2 => tx[p].pending = <<j>> /\ evs[1] = j /\ evs[2] = c.key
      <3>1. PICK w : w = tx[p].pending
        OBVIOUS
      <3>2. PICK k : k = c.key
        OBVIOUS
      <3>3. /\ evs \in Pendings
            /\ Among(evs) = Among(w) \cup Among(here)
            /\ evs = <<>> => w = <<>> /\ here = <<>>
            /\ Len(evs) = 2 => w = <<j>> /\ here = <<k>> /\ evs[1] = j /\ evs[2] = k
        <4>1. /\ w = <<>> \/ w = <<j>>
              /\ here = <<>> \/ here = <<k>>
              /\ j \in Keys /\ k \in Keys /\ evs = w \o here
          BY <1>4, <2>1, <3>1, <3>2
        <4>2. Appended(j, k, w, here, evs)
          BY <4>1, Joins, Zenon
        <4> QED
          BY <4>2 DEF Appended
      <3>4. Among(w) = Awaiting(p)
        BY <3>1, Zenon DEF Awaiting, Among
      <3> QED
        BY <3>1, <3>2, <3>3, <3>4
    <2>3. Among(here) = W
      BY <1>5, AmongFew
    <2>4. <<j>> # <<>> /\ <<c.key>> # <<>>
      OBVIOUS
    <2> QED
      BY <1>2, <1>3, <1>5, <2>2, <2>3, <2>4
  \* The lock it has taken is one of the statement's rows.
  <1>12. /\ tx[p].events = {}
         /\ \A k \in DOMAIN lock : lock'[k] = p => k \in RowsOf[tx[p].kind]
         /\ DOMAIN lock' = DOMAIN lock
    <2>1. /\ tx[p].events = {}
          /\ \A k \in DOMAIN lock : lock[k] = p => k \in RowsOf[tx[p].kind]
      BY <1>1, <1>2 DEF Local, Sweep
    <2>2. /\ DOMAIN lock' = DOMAIN lock
          /\ \A k \in DOMAIN lock : lock'[k] = p => lock[k] = p \/ k = c.key
      BY <1>4, <1>7, Taken
    <2> QED
      BY <1>2, <1>4, <2>1, <2>2
  \* What holds of p, as u, whichever row it was.
  <1>13. ASSUME NEW u, tx' = [tx EXCEPT ![p] = u], u.kind = tx[p].kind, u.script = tx[p].script,
                u.events = tx[p].events, u.mine = t.mine, u.pending = evs
         PROVE  /\ tx'[p] = u /\ Awaiting(p)' = Awaiting(p) \cup W /\ Writes(p)' = Writes(p) \cup W
                /\ Kept(p)' /\ Counts(p)' /\ Ends(p)'
                /\ W \in SUBSET Keys /\ Lays(p, u, W) /\ Notes(p, W)
                /\ \A k \in Awaiting(p)' : k \in RowsOf[c.op]
    <2>1. tx'[p] = u
      BY <1>1, <1>13
    <2>2. Awaiting(p)' = Awaiting(p) \cup W
      <3>1. tx'[p].pending = evs
        BY <1>13, <2>1
      <3>2. Awaiting(p)' = Among(evs)
        BY <3>1, Zenon DEF Awaiting, Among
      <3> QED
        BY <1>11, <3>2
    <2>3. Writes(p)' = Writes(p) \cup W
      BY <1>10, <1>13, <2>1 DEF Writes
    <2>4. Kept(p)' /\ Counts(p)' /\ Ends(p)'
      <3>1. CASE found
        <4>1. {} \in SUBSET Revisions /\ Writes(p)' = Writes(p) \cup {c.key} \cup {}
          BY <2>3, <3>1
        <4>2. /\ tx'[p].mine[c.key] = Effect(c, row, tx[p].before)
              /\ \A k \in Writes(p) : k # c.key /\ k \notin {} => tx'[p].mine[k] = tx[p].mine[k]
          BY <1>10, <1>13, <2>1, <3>1
        <4>3. Lands(p, {})
          BY <1>6, <1>13, <2>1, <3>1, <4>1, <4>2 DEF Lands
        <4> QED
          BY <1>1, <4>1, <4>3, Keeping
      <3>2. CASE ~found
        BY <1>6, <1>10, <1>13, <2>1, <3>2, Leaving
      <3> QED
        BY <3>1, <3>2
    <2>5. W \in SUBSET Keys
      BY <1>4
    <2>6. Lays(p, u, W)
      <3>1. \A k \in W : k \notin Revisions /\ k = c.key /\ CanLock(p, k) /\ lock'[k] = p
        BY <1>4, <1>6, <1>7
      <3> QED
        BY <1>10, <1>13, <3>1 DEF Lays
    <2>7. Awaiting(p) \subseteq Writes(p) /\ \A k \in Awaiting(p) : k \in RowsOf[c.op]
      <3>1. \A k \in Awaiting(p) : k \in Writes(p) \/ GoneBefore(p, k)
        BY <1>1 DEF Local, Logged
      <3>2. tx[p].kind # "deleteWorkItem"
        BY <1>2, <1>4
      <3>3. \A k \in Awaiting(p) : Named(k, c)
        BY <1>1 DEF Pace
      <3> QED
        BY <1>4, <3>1, <3>2, <3>3 DEF GoneBefore, Named
    <2>8. Notes(p, W)
      BY <2>2, <2>7 DEF Notes
    <2>9. \A k \in Awaiting(p)' : k \in RowsOf[c.op]
      BY <1>4, <2>2, <2>7
    <2> QED
      BY <2>1, <2>2, <2>3, <2>4, <2>5, <2>6, <2>8, <2>9
  \* On to the next row.
  <1>14. CASE tx[p].at = 1
    <2> PICK u : u = NextRowOf(t, evs)
      OBVIOUS
    <2>1. tx' = [tx EXCEPT ![p] = u]
      <3>1. RowsLeft(p)
        BY <1>2, <1>3, <1>14 DEF RowsLeft
      <3> QED
        BY <1>6, <3>1 DEF Continue, NextRowOf
    <2>2. /\ u \in Tx /\ u.kind = tx[p].kind /\ u.script = tx[p].script /\ u.at = 2
          /\ u.events = tx[p].events /\ u.before = tx[p].before /\ u.pc = "write"
          /\ u.mine = t.mine /\ u.pending = evs
      <3>1. /\ t \in Tx /\ t.at = 1 /\ t.kind = tx[p].kind /\ t.script = tx[p].script
            /\ t.events = tx[p].events /\ t.before = tx[p].before /\ t.pc = "write"
        BY <1>1, <1>10, <1>14
      <3>2. /\ u \in Tx /\ u.kind = t.kind /\ u.script = t.script /\ u.at = t.at + 1
            /\ u.events = t.events /\ u.mine = t.mine /\ u.pc = t.pc /\ u.before = t.before
            /\ u.pending = evs
        <4>1. AtNextRow(t, evs, u)
          BY <1>11, <3>1, NextRow, Zenon
        <4> QED
          BY <4>1 DEF AtNextRow
      <3>3. u.at = 2
        BY <3>1, <3>2
      <3> QED
        BY <3>1, <3>2, <3>3, Zenon
    <2>3. /\ tx'[p] = u /\ Awaiting(p)' = Awaiting(p) \cup W /\ Writes(p)' = Writes(p) \cup W
          /\ Kept(p)' /\ Counts(p)' /\ Ends(p)'
          /\ W \in SUBSET Keys /\ Lays(p, u, W) /\ Notes(p, W)
          /\ \A k \in Awaiting(p)' : k \in RowsOf[c.op]
      BY <1>13, <2>1, <2>2
    <2>4. Call1(p)' = tx[p].script[2] /\ Call1(p)' \in Calls /\ (Call1(p).op)' = c.op
      <3>1. tx'[p].script[tx'[p].at] = tx[p].script[2]
        BY <2>2, <2>3
      <3>2. Call1(p)' = tx[p].script[2]
        BY <3>1 DEF Call1
      <3> QED
        BY <1>2, <1>3, <3>2
    <2>5. Pace(p)'
      <3>1. \A k \in Awaiting(p)' : Named(k, Call1(p)')
        BY <1>2, <2>3, <2>4 DEF Named
      <3> QED
        <4>1. Running(tx'[p].kind, tx'[p].script)
          BY <1>1, <2>2, <2>3 DEF Pace
        <4>2. /\ tx'[p].pc = "write" /\ tx'[p].kind \in Batch
              /\ tx'[p].at \in 1..Len(tx'[p].script)
          <5>1. /\ tx'[p].pc = "write" /\ tx'[p].kind = tx[p].kind
                /\ tx'[p].at = 2 /\ tx'[p].script = tx[p].script
            BY <2>2, <2>3
          <5>2. 2 \in 1..Len(tx[p].script)
            BY <1>3
          <5> QED
            BY <1>2, <5>1, <5>2
        <4>3. (Call1(p).op)' # "lockCandidate"
          BY <1>4, <2>4
        <4> QED
          BY <3>1, <4>1, <4>2, <4>3 DEF Pace
    <2>6. Seen(p)'
      <3>1. c.op \in Reading => tx[p].before # NoRow
        BY <1>1, <1>4 DEF Local, Seen
      <3> QED
        BY <1>6, <2>2, <2>3, <2>4, <3>1 DEF Seen
    <2>7. Sweep(p)'
      <3>1. \A k \in Writes(p)' \cup Awaiting(p)' : k = tx[p].script[1].key
        <4>1. Awaiting(p) = {}
          BY <1>3, <1>14, NothingWaits DEF Awaiting
        <4> QED
          BY <1>3, <1>14, <2>3, <4>1
      <3>2. Len(tx'[p].pending) # 2
        <4>1. tx'[p].pending = evs /\ Len(evs) # 2
          <5>1. tx[p].at # 2
            BY <1>14
          <5>2. tx'[p].pending = evs
            BY <2>2, <2>3, Zenon
          <5> QED
            BY <1>11, <5>1, <5>2, Zenon
        <4> QED
          BY <4>1, Zenon
      <3>3. /\ tx'[p].kind = tx[p].kind /\ tx'[p].script = tx[p].script /\ tx'[p].at = 2
            /\ tx'[p].events = {} /\ tx'[p].pc = "write"
        BY <1>12, <2>2, <2>3
      <3> QED
        BY <1>12, <3>1, <3>2, <3>3 DEF Sweep
    <2>8. Launches(p, u)
      BY <1>1, <1>2, <1>6, <2>1, <2>2 DEF Launches
    <2> QED
      BY <1>1, <1>7, <1>8, <2>2, <2>3, <2>5, <2>6, <2>7, <2>8, Writing
  \* After the last row, with nothing to log.
  <1>15. CASE tx[p].at = 2 /\ evs = <<>>
    <2>1. tx' = [tx EXCEPT ![p] = NextCall(tx[p])] /\ lock' = lock /\ tx[p].pending = <<>>
      <3>1. ~RowsLeft(p)
        BY <1>3, <1>15 DEF RowsLeft
      <3> QED
        BY <1>6, <1>10, <1>11, <1>15, <3>1 DEF Continue
    <2> QED
      BY <1>1, <1>4, <1>6, <1>7, <1>15, <2>1, Advance
  \* After the last row, with something to log.
  <1>16. CASE tx[p].at = 2 /\ evs # <<>>
    <2> PICK u : u = Launch(t, evs)
      OBVIOUS
    <2>1. tx' = [tx EXCEPT ![p] = u]
      <3>1. ~RowsLeft(p)
        BY <1>3, <1>16 DEF RowsLeft
      <3> QED
        BY <1>6, <1>16, <3>1 DEF Continue, Launch
    <2>2. /\ u \in Tx /\ u.kind = tx[p].kind /\ u.script = tx[p].script /\ u.at = tx[p].at
          /\ u.events = tx[p].events /\ u.pc = "log" /\ u.mine = t.mine /\ u.pending = evs
      <3>1. PICK w \in Pendings : w = evs
        BY <1>11
      <3>2. /\ u \in Tx /\ u.kind = t.kind /\ u.script = t.script /\ u.at = t.at
            /\ u.events = t.events /\ u.mine = t.mine /\ u.pc = "log" /\ u.pending = w
        <4>1. t \in Tx /\ u = Launch(t, w)
          BY <1>10, <3>1
        <4> QED
          BY <4>1, Launched
      <3> QED
        BY <1>10, <3>1, <3>2
    <2>3. /\ tx'[p] = u /\ Awaiting(p)' = Awaiting(p) \cup W /\ Writes(p)' = Writes(p) \cup W
          /\ Kept(p)' /\ Counts(p)' /\ Ends(p)'
          /\ W \in SUBSET Keys /\ Lays(p, u, W) /\ Notes(p, W)
          /\ \A k \in Awaiting(p)' : k \in RowsOf[c.op]
      BY <1>13, <2>1, <2>2
    <2>4. Pace(p)' /\ Seen(p)'
      <3>1. \A k \in Awaiting(p)' : Named(k, Call1(p))
        BY <1>2, <2>3 DEF Named
      <3> QED
        BY <1>1, <1>16, <2>1, <2>2, <3>1, LogsNext
    <2>5. Sweep(p)'
      <3>1. /\ tx'[p].kind = tx[p].kind /\ tx'[p].script = tx[p].script /\ tx'[p].at = 2
            /\ tx'[p].events = {} /\ tx'[p].pc = "log" /\ tx'[p].pending = evs
        BY <1>12, <1>16, <2>2, <2>3
      <3>2. Len(evs) = 2 => evs[1] # evs[2]
        BY <1>3, <1>11, <1>16
      <3> QED
        BY <3>1, <3>2 DEF Sweep
    <2>6. Launches(p, u)
      <3>1. u.kind \notin Solo
        BY <1>2, <2>2, Batches DEF Solo
      <3> QED
        BY <1>1, <1>6, <1>16, <2>1, <2>2, <3>1 DEF Launches
    <2> QED
      BY <1>1, <1>7, <1>8, <2>2, <2>3, <2>4, <2>5, <2>6, Writing
  <1> QED
    BY <1>2, <1>14, <1>15, <1>16

LEMMA WriteKeeps ==
    ASSUME IInv, NEW p \in Process, Write(p)
    PROVE  IInv'
  BY WriteOneKeeps, WriteRowKeeps

LEMMA WriteThrowsKeeps ==
    ASSUME IInv, NEW p \in Process, WriteThrows(p)
    PROVE  IInv'
  <1>1. CASE Rollback(p)
    BY <1>1, RollbackKeeps
  <1>2. CASE ~Rollback(p)
    <2>1. /\ tx[p].pc = "write" /\ tx' = [tx EXCEPT ![p] = NextCall(tx[p])]
          /\ UNCHANGED <<table, log, lastId, lock, started>>
      BY <1>2 DEF WriteThrows
    <2>2. Pace(p) /\ started \in Nat
      BY DEF IInv, Local, TypeOK
    <2>3. tx[p].kind \notin Batch /\ tx[p].pending = <<>> /\ Call1(p).op # "lockCandidate"
      <3>1. tx[p].kind = "learn"
        BY <1>2 DEF WriteThrows
      <3> QED
        BY <2>1, <2>2, <3>1, Batches DEF Pace
    <2>4. "watermark" \notin Old
      BY DEF Old
    <2> QED
      BY <2>1, <2>2, <2>3, <2>4, Advance DEF Takes
  <1> QED
    BY <1>1, <1>2

-----------------------------------------------------------------------------
(* COMMIT.                                                                 *)

\* A row from the start that a transaction has written was there.
LEMMA WritesStanding ==
    ASSUME IInv, NEW p \in Process, NEW k \in Writes(p) \cap Old
    PROVE  table[k] # NoRow
  <1>1. k \notin Revisions
    BY DEF Old, Revisions
  <1>2. lock[k] = p
    BY <1>1 DEF IInv, Local, Held
  <1> QED
    BY <1>2, ConstantsAssumption DEF IInv, Standing

\* At COMMIT every row written has an event that shows it, the last of its row.
LEMMA AllLogged ==
    ASSUME IInv, NEW p \in Process, tx[p].pc = "commit"
    PROVE  /\ \A k \in Writes(p) : \E e \in tx[p].events :
                /\ e.key = k /\ e.after = tx[p].mine[k]
                /\ \A f \in tx[p].events : f.key = k => f.id <= e.id
           /\ \A e \in tx[p].events :
                e.key \in Writes(p) \/ (GoneBefore(p, e.key) /\ e.after = NoRow)
  <1>1. Pace(p) /\ Logged(p)
    BY DEF IInv, Local
  <1>2. tx[p].pending = <<>>
    BY <1>1 DEF Pace
  <1>3. Awaiting(p) = {}
    BY <1>2, NothingWaits DEF Awaiting
  <1> QED
    BY <1>1, <1>3 DEF Logged

\* The events of an operation that has a transaction of its own tell its kind and row.
LEMMA OwnEvents ==
    ASSUME IInv, NEW p \in Process, NEW e \in tx[p].events
    PROVE  /\ e \in Event /\ tx[p].pc # "idle"
           /\ e.type \in Own <=> tx[p].kind \in Own
           /\ e.type \in Own => tx[p].kind = e.type
           /\ \E c \in Calls : e.type = c.op /\ Named(e.key, c)
  <1>1. TypeOK /\ Pace(p) /\ Events(p) /\ First(p)
    BY DEF IInv, Local
  <1>2. e \in Event
    BY <1>1 DEF TypeOK, Tx
  <1>3. tx[p].pc # "idle"
    BY <1>1 DEF First
  <1>4. Running(tx[p].kind, tx[p].script)
    BY <1>1, <1>3 DEF Pace
  <1>5. PICK i \in 1..Len(tx[p].script) :
          e.type = tx[p].script[i].op /\ Named(e.key, tx[p].script[i])
    BY <1>1 DEF Events
  <1>6. tx[p].script[i] \in Calls
    BY <1>4, <1>5 DEF Running
  <1>7. e.type \in Own => tx[p].kind = e.type
    BY <1>4, <1>5 DEF Running
  <1>8. tx[p].kind \in Own => e.type = tx[p].kind
    BY <1>4, <1>5 DEF Running
  <1> QED
    BY <1>2, <1>3, <1>5, <1>6, <1>7, <1>8

\* What COMMIT does.
LEMMA Committed ==
    ASSUME IInv, NEW p \in Process, Commit(p)
    PROVE  /\ tx[p].pc = "commit" /\ log' = log \cup tx[p].events
           /\ \A k \in Keys : table'[k] = IF k \in Writes(p) THEN tx[p].mine[k] ELSE table[k]
           /\ tx'[p] = Idle /\ \A q \in Process \ {p} : tx'[q] = tx[q]
           /\ \A k \in DOMAIN lock : lock'[k] = IF lock[k] = p THEN Free ELSE lock[k]
           /\ DOMAIN lock' = DOMAIN lock /\ DOMAIN lock = Keys \cup {"watermark"}
           /\ UNCHANGED <<lastId, started>>
           /\ TypeOK'
  <1>1. TypeOK /\ tx \in [Process -> Tx] /\ IsFiniteSet(tx[p].events)
    BY DEF IInv, Local, Events, TypeOK
  <1>2. table' = [k \in Keys |-> Current(p, k)]
    BY DEF Commit
  <1>3. \A k \in Keys : table'[k] = IF k \in Writes(p) THEN tx[p].mine[k] ELSE table[k]
    BY <1>2 DEF Current, Writes
  <1>4. tx'[p] = Idle /\ \A q \in Process \ {p} : tx'[q] = tx[q]
    BY <1>1 DEF Commit
  <1>5. /\ \A k \in DOMAIN lock : lock'[k] = IF lock[k] = p THEN Free ELSE lock[k]
        /\ DOMAIN lock' = DOMAIN lock /\ DOMAIN lock = Keys \cup {"watermark"}
    BY <1>1 DEF Commit, TypeOK
  <1>6. TypeOK'
    <2>1. table' \in [Keys -> Rows]
      BY <1>1, <1>2, WritesTyped
    <2>2. log' \in SUBSET Event /\ IsFiniteSet(log')
      <3>1. tx[p].events \in SUBSET Event
        BY <1>1 DEF Tx
      <3>2. IsFiniteSet(log) /\ log \in SUBSET Event
        BY <1>1 DEF TypeOK
      <3>3. IsFiniteSet(log \cup tx[p].events)
        BY <1>1, <3>2, FS_Union
      <3> QED
        BY <3>1, <3>2, <3>3 DEF Commit
    <2>3. lock' \in [Keys \cup {"watermark"} -> Process \cup {Free}]
      BY <1>1 DEF Commit, TypeOK
    <2>4. tx' \in [Process -> Tx]
      BY <1>1, IdleTyped DEF Commit
    <2> QED
      BY <1>1, <2>1, <2>2, <2>3, <2>4 DEF Commit, TypeOK
  <1> QED
    BY <1>3, <1>4, <1>5, <1>6 DEF Commit

LEMMA CommitTables ==
    ASSUME IInv, NEW p \in Process, Commit(p)
    PROVE  Standing' /\ AssociationStands' /\ CandidateEnds' /\ Numbered'
  <1>1. /\ tx[p].pc = "commit" /\ log' = log \cup tx[p].events
        /\ \A k \in Keys : table'[k] = IF k \in Writes(p) THEN tx[p].mine[k] ELSE table[k]
        /\ \A k \in DOMAIN lock : lock'[k] = IF lock[k] = p THEN Free ELSE lock[k]
        /\ DOMAIN lock' = DOMAIN lock /\ DOMAIN lock = Keys \cup {"watermark"}
        /\ UNCHANGED lastId
    BY Committed
  <1>2. /\ Local(p) /\ Standing /\ Old \subseteq Keys /\ Lasting \subseteq Old
        /\ "association" \in Keys /\ Expirable \subseteq Old /\ "item" \notin Expirable
    BY DEF IInv, Keys, New, Old, Lasting, Expirable
  <1>3. Standing'
    <2>1. \A k \in Lasting : table'[k] # NoRow
      BY <1>1, <1>2 DEF Local, Kept, Standing
    <2>2. ASSUME NEW k \in Old, lock'[k] # Free PROVE table'[k] # NoRow
      <3>1. lock[k] # p /\ lock[k] # Free
        BY <1>1, <1>2, <2>2
      <3>2. k \notin Writes(p)
        BY <1>2, <3>1 DEF Local, Held, Old, Revisions
      <3> QED
        BY <1>1, <1>2, <3>1, <3>2 DEF Standing
    <2> QED
      BY <2>1, <2>2 DEF Standing
  <1>4. AssociationStands'
    <2> SUFFICES ASSUME Known("association")', \A e \in log' : e.type # "deleteAssociation"
                 PROVE  table'["association"] # NoRow
      BY DEF AssociationStands
    <2>1. CASE "association" \in Writes(p)
      <3>1. PICK e \in tx[p].events : e.key = "association"
        BY <1>1, <2>1, AllLogged
      <3>2. e.type # "deleteAssociation"
        BY <1>1
      <3>3. tx[p].kind # "deleteAssociation"
        BY <3>2, OwnEvents, Batches DEF Own, Solo
      <3> QED
        BY <1>1, <1>2, <2>1, <3>3 DEF Local, Kept
    <2>2. CASE "association" \notin Writes(p)
      <3>1. \A e \in tx[p].events : e.key # "association"
        BY <1>1, <2>2, AllLogged DEF GoneBefore
      <3>2. Known("association")
        BY <1>1, <3>1 DEF Known
      <3> QED
        BY <1>1, <1>2, <2>2, <3>2 DEF IInv, AssociationStands
    <2> QED
      BY <2>1, <2>2
  <1>5. CandidateEnds'
    <2>1. ASSUME NEW e \in log, e.type = "promoteCandidate", e.key \in Expirable
          PROVE  table'[e.key].text = "promoted"
      <3>1. table[e.key].text = "promoted"
        BY <2>1 DEF IInv, CandidateEnds
      <3>2. e.key \in Writes(p) => tx[p].mine[e.key].text = "promoted"
        BY <1>2, <2>1, <3>1 DEF Local, Ends
      <3> QED
        BY <1>1, <1>2, <2>1, <3>1, <3>2
    <2>2. ASSUME NEW e \in log, e.type = "deleteExpiredKnowledgeCandidates"
          PROVE  e.key \in Expirable /\ table'[e.key] = NoRow
      <3>1. e.key \in Expirable /\ table[e.key] = NoRow
        BY <2>2 DEF IInv, CandidateEnds
      <3>2. e.key \notin Writes(p)
        BY <1>2, <3>1, WritesStanding
      <3> QED
        BY <1>1, <1>2, <3>1, <3>2
    <2>3. ASSUME NEW e \in tx[p].events, e.type = "promoteCandidate", e.key \in Expirable
          PROVE  table'[e.key].text = "promoted"
      <3>1. e.key \in Writes(p)
        BY <1>1, <1>2, <2>3, AllLogged DEF GoneBefore
      <3>2. tx[p].kind # "deleteExpiredKnowledgeCandidates"
        BY <2>3, OwnEvents, Batches DEF Own, Solo
      <3> QED
        BY <1>1, <1>2, <2>3, <3>1, <3>2 DEF Local, Ends
    <2>4. ASSUME NEW e \in tx[p].events, e.type = "deleteExpiredKnowledgeCandidates"
          PROVE  e.key \in Expirable /\ table'[e.key] = NoRow
      <3>1. tx[p].kind = "deleteExpiredKnowledgeCandidates"
        BY <2>4, OwnEvents, Batches DEF Own, Solo
      <3>2. e.key \in Expirable
        <4>1. PICK c \in Calls : e.type = c.op /\ Named(e.key, c)
          BY OwnEvents
        <4>2. c.op \in Batch /\ RowsOf[c.op] = Expirable /\ c.op # "insertPlaybookRevision"
          BY <2>4, <4>1, Batches
        <4> QED
          BY <4>1, <4>2 DEF Calls, Named
      <3>3. e.key \in Writes(p)
        BY <1>1, <1>2, <3>2, AllLogged DEF GoneBefore
      <3> QED
        BY <1>1, <1>2, <3>1, <3>2, <3>3 DEF Local, Ends
    <2> QED
      BY <1>1, <2>1, <2>2, <2>3, <2>4 DEF CandidateEnds
  <1>6. Numbered'
    BY <1>1, <1>2 DEF IInv, Numbered, Local, Events
  <1> QED
    BY <1>3, <1>4, <1>5, <1>6

\* COMMIT adds one event to those that count a row if the transaction counts on it.
LEMMA CommitTells ==
    ASSUME IInv, NEW p \in Process, Commit(p), NEW k \in Counted
    PROVE  /\ Cardinality(Told(k, Counting[k])) \in Nat
           /\ Cardinality(Told(k, Counting[k])') = Cardinality(Told(k, Counting[k]))
                + IF k \in Writes(p) /\ tx[p].kind \in Counting[k] THEN 1 ELSE 0
  <1>1. tx[p].pc = "commit" /\ log' = log \cup tx[p].events
    BY Committed
  <1> PICK T : T = Told(k, Counting[k])
    OBVIOUS
  <1>2. IsFiniteSet(T) /\ Cardinality(T) \in Nat
    <2>1. T \subseteq log
      BY DEF Told
    <2>2. IsFiniteSet(log)
      BY DEF IInv, TypeOK
    <2> QED
      BY <2>1, <2>2, FS_Subset, FS_CardinalityType
  <1>3. Counting[k] \subseteq Own /\ "deleteWorkItem" \notin Counting[k]
    BY Batches DEF Counted, Counting, Own, Solo
  <1>4. Told(k, Counting[k])' = T \cup {e \in tx[p].events : e.key = k /\ e.type \in Counting[k]}
    BY <1>1 DEF Told
  <1>5. CASE k \in Writes(p) /\ tx[p].kind \in Counting[k]
    <2>1. PICK e \in tx[p].events : e.key = k
      BY <1>1, <1>5, AllLogged
    <2>2. e.type = tx[p].kind
      BY <1>3, <1>5, OwnEvents
    <2>3. \A f \in tx[p].events : f.key = k => e = f
      <3>1. CASE tx[p].kind \in Solo
        BY <3>1 DEF IInv, Local, Events
      <3>2. CASE tx[p].kind \in Batch
        BY <2>1, <3>2 DEF IInv, Local, Sweep
      <3> QED
        BY <1>3, <1>5, <3>1, <3>2 DEF Own
    <2>4. e \notin log
      BY DEF IInv, Local, Events
    <2>5. Told(k, Counting[k])' = T \cup {e}
      BY <1>4, <1>5, <2>1, <2>2, <2>3
    <2>6. e \notin T
      BY <2>4 DEF Told
    <2>7. Cardinality(T \cup {e}) = Cardinality(T) + 1
      BY <1>2, <2>6, FS_AddElement
    <2> QED
      BY <1>2, <1>5, <2>5, <2>7
  <1>6. CASE ~(k \in Writes(p) /\ tx[p].kind \in Counting[k])
    <2>1. ASSUME NEW e \in tx[p].events, e.key = k, e.type \in Counting[k] PROVE FALSE
      <3>1. tx[p].kind = e.type
        BY <1>3, <2>1, OwnEvents
      <3>2. k \in Writes(p)
        BY <1>1, <1>3, <2>1, <3>1, AllLogged DEF GoneBefore
      <3> QED
        BY <1>6, <2>1, <3>1, <3>2
    <2>2. Told(k, Counting[k])' = T
      BY <1>4, <2>1
    <2> QED
      BY <1>2, <1>6, <2>2
  <1> QED
    BY <1>5, <1>6

LEMMA CommitCounts ==
    ASSUME IInv, NEW p \in Process, Commit(p)
    PROVE  CountersExact'
  <1>1. \A k \in Keys : table'[k] = IF k \in Writes(p) THEN tx[p].mine[k] ELSE table[k]
    BY Committed
  <1>2. /\ Counted \subseteq Keys /\ Counted \subseteq Old
        /\ "fact" \in Lasting /\ "fact1" \in Lasting /\ "playbook" \in Lasting
    BY DEF Counted, Keys, Old, Lasting, Expirable
  <1>3. ASSUME NEW k \in Counted, table'[k] # NoRow
        PROVE  /\ table[k] # NoRow
               /\ table'[k].count = table[k].count
                    + IF k \in Writes(p) /\ tx[p].kind \in Counting[k] THEN 1 ELSE 0
    <2>1. k \in Writes(p) => table[k] # NoRow
      BY <1>2, WritesStanding
    <2>2. table[k] # NoRow
      BY <1>1, <1>2, <1>3, <2>1
    <2>3. table[k].count \in Nat
      <3>1. table[k] \in Row
        BY <1>2, <2>2 DEF IInv, TypeOK, Rows
      <3> QED
        BY <3>1 DEF Row
    <2>4. k \in Writes(p) => IF tx[p].kind \in Counting[k] THEN tx[p].mine[k].count = table[k].count + 1
                             ELSE tx[p].mine[k] = NoRow \/ tx[p].mine[k].count = table[k].count
      BY DEF IInv, Local, Counts
    <2> QED
      BY <1>1, <1>2, <1>3, <2>2, <2>3, <2>4
  <1>4. /\ table["fact"].count = Cardinality(Told("fact", Counting["fact"]))
        /\ table["fact1"].count = Cardinality(Told("fact1", Counting["fact1"]))
        /\ table["playbook"].count = Cardinality(Told("playbook", Counting["playbook"]))
        /\ table["item"] # NoRow =>
             table["item"].count = 1 + Cardinality(Told("item", Counting["item"]))
    BY DEF IInv, CountersExact, Counting
  <1>5. table'["fact"] # NoRow /\ table'["fact1"] # NoRow /\ table'["playbook"] # NoRow
    BY <1>2, CommitTables DEF Standing
  <1>6. "fact" \in Counted /\ "fact1" \in Counted /\ "playbook" \in Counted /\ "item" \in Counted
    BY DEF Counted
  <1>7. table'["fact"].count = Cardinality(Told("fact", Counting["fact"])')
    BY <1>3, <1>4, <1>5, <1>6, CommitTells
  <1>10. table'["fact1"].count = Cardinality(Told("fact1", Counting["fact1"])')
    BY <1>3, <1>4, <1>5, <1>6, CommitTells
  <1>8. table'["playbook"].count = Cardinality(Told("playbook", Counting["playbook"])')
    BY <1>3, <1>4, <1>5, <1>6, CommitTells
  <1>9. table'["item"] # NoRow =>
          table'["item"].count = 1 + Cardinality(Told("item", Counting["item"])')
    <2> SUFFICES ASSUME table'["item"] # NoRow
                 PROVE  table'["item"].count = 1 + Cardinality(Told("item", Counting["item"])')
      OBVIOUS
    <2> PICK n : n = IF "item" \in Writes(p) /\ tx[p].kind \in Counting["item"] THEN 1 ELSE 0
      OBVIOUS
    <2>1. table'["item"].count = table["item"].count + n /\ table["item"] # NoRow
      BY <1>3, <1>6
    <2>2. /\ Cardinality(Told("item", Counting["item"])) \in Nat
          /\ Cardinality(Told("item", Counting["item"])') = Cardinality(Told("item", Counting["item"])) + n
      BY <1>6, CommitTells
    <2>3. n \in Nat
      OBVIOUS
    <2> QED
      BY <1>4, <2>1, <2>2, <2>3
  <1> QED
    BY <1>7, <1>8, <1>9, <1>10 DEF CountersExact, Counting

\* What a COMMIT leaves to the other transactions.
LEMMA CommitOthers ==
    ASSUME IInv, NEW p \in Process, Commit(p), NEW q \in Process \ {p}
    PROVE  Local(q)'
  <1>1. /\ tx[p].pc = "commit" /\ log' = log \cup tx[p].events
        /\ \A k \in Keys : table'[k] = IF k \in Writes(p) THEN tx[p].mine[k] ELSE table[k]
        /\ tx'[q] = tx[q] /\ UNCHANGED lastId
        /\ \A k \in DOMAIN lock : lock'[k] = IF lock[k] = p THEN Free ELSE lock[k]
        /\ DOMAIN lock' = DOMAIN lock /\ DOMAIN lock = Keys \cup {"watermark"}
    BY Committed
  <1>2. Local(p) /\ Local(q) /\ Apart(p, q) /\ Apart(q, p) /\ q # p /\ Writes(q) \subseteq Keys
    BY WritesTyped DEF IInv
  <1>3. Call1(q)' = Call1(q) /\ Writes(q)' = Writes(q) /\ Awaiting(q)' = Awaiting(q)
    BY <1>1 DEF Call1, Writes, Awaiting
  <1>4. \A k \in DOMAIN lock : lock'[k] = q <=> lock[k] = q
    BY <1>1, <1>2, ConstantsAssumption
  <1>5. \A k \in Writes(q) : table'[k] = table[k]
    BY <1>1, <1>2 DEF Apart
  <1>6. \A k \in Old : table[k] = NoRow => k \notin Writes(p) /\ table'[k] = NoRow
    BY <1>1, WritesStanding DEF Keys
  <1>7. "item" \in Old /\ "candidate" \in Old /\ Old \subseteq Keys
    BY DEF Old, Keys
  <1>8. \A k : GoneBefore(q, k) => GoneBefore(q, k)'
    BY <1>1, <1>3, <1>6, <1>7 DEF GoneBefore
  <1>9. \A e \in tx[p].events : e.key \in Writes(p) \/ (e.key = "item" /\ table["item"] = NoRow /\ e.after = NoRow)
    BY <1>1, AllLogged DEF GoneBefore
  <1>10. \A e \in tx[q].events : e.key \in Writes(q) \/ (e.key = "item" /\ table["item"] = NoRow /\ e.after = NoRow)
    BY <1>2 DEF Local, Logged, GoneBefore
  <1>11. \A k : Known(k) => Known(k)'
    BY <1>1 DEF Known
  <1>12. Pace(q)'
    BY <1>1, <1>2, <1>3 DEF Local, Pace
  <1>13. First(q)'
    BY <1>1, <1>2, <1>3, <1>4 DEF Local, First
  <1>14. Held(q)'
    <2>1. ASSUME NEW k \in Writes(q), k \in Revisions PROVE ~Known(k)'
      <3>1. ~Known(k)
        BY <1>2, <2>1 DEF Local, Held
      <3>2. \A e \in tx[p].events : e.key # k
        BY <1>2, <1>9, <2>1 DEF Apart, Revisions
      <3> QED
        BY <1>1, <3>1, <3>2 DEF Known
    <2>2. ASSUME NEW k \in Writes(q), k \notin Revisions PROVE lock'[k] = q
      BY <1>1, <1>2, <1>4, <2>2 DEF Local, Held
    <2> QED
      BY <1>3, <2>1, <2>2 DEF Held
  <1>15. Seen(q)'
    BY <1>1, <1>2, <1>3, <1>6, <1>7 DEF Local, Seen
  <1>16. Logged(q)'
    BY <1>1, <1>2, <1>3, <1>8 DEF Local, Logged
  <1>17. Events(q)'
    <2>1. ASSUME NEW e \in tx[q].events, NEW f \in tx[p].events
          PROVE  e.id # f.id /\ (e.key = f.key => f.id < e.id \/ f.after = e.after)
      <3>1. e.id # f.id
        BY <1>2 DEF Apart
      <3>2. ASSUME e.key = f.key PROVE f.after = e.after
        <4>1. "item" \in Writes(p) \/ "item" \in Writes(q) => table["item"] # NoRow
          BY <1>2, <1>7, WritesStanding
        <4>2. e.key \notin Writes(q) \/ f.key \notin Writes(p)
          BY <1>2, <3>2 DEF Apart
        <4> QED
          BY <1>9, <1>10, <3>2, <4>1, <4>2
      <3> QED
        BY <3>1, <3>2
    <2> QED
      BY <1>1, <1>2, <2>1 DEF Local, Events
  <1>18. Kept(q)'
    <2>1. ASSUME tx[q].kind = "deleteAssociation"
          PROVE  \A e \in log' : e.type # "deleteAssociation"
      <3>1. tx[p].kind # "deleteAssociation"
        BY <1>2, <2>1 DEF Apart
      <3>2. \A e \in tx[p].events : e.type # "deleteAssociation"
        BY <3>1, OwnEvents, Batches DEF Own, Solo
      <3> QED
        BY <1>1, <1>2, <2>1, <3>2 DEF Local, Kept
    <2> QED
      BY <1>1, <1>2, <1>3, <1>11, <2>1 DEF Local, Kept
  <1>19. Counts(q)'
    BY <1>1, <1>2, <1>3, <1>5 DEF Local, Counts
  <1>20. Ends(q)'
    BY <1>1, <1>2, <1>3, <1>5 DEF Local, Ends
  <1>21. CandidateFirst(q)'
    BY <1>1, <1>2, <1>4, <1>6, <1>7 DEF Local, CandidateFirst
  <1>22. Sweep(q)'
    BY <1>1, <1>2, <1>3, <1>4 DEF Local, Sweep
  <1> QED
    BY <1>12, <1>13, <1>14, <1>15, <1>16, <1>17, <1>18, <1>19, <1>20, <1>21, <1>22 DEF Local

LEMMA CommitKeeps ==
    ASSUME IInv, NEW p \in Process, Commit(p)
    PROVE  IInv'
  <1>1. /\ tx'[p] = Idle /\ \A q \in Process \ {p} : tx'[q] = tx[q]
        /\ \A k \in DOMAIN lock : lock'[k] = IF lock[k] = p THEN Free ELSE lock[k]
        /\ DOMAIN lock' = DOMAIN lock /\ TypeOK'
    BY Committed
  <1>2. \A k \in DOMAIN lock' : lock'[k] # p
    BY <1>1, ConstantsAssumption
  <1>3. Local(p)'
    BY <1>1, <1>2, IdlesNext
  <1>4. \A q \in Process : Local(q)'
    BY <1>3, CommitOthers
  <1>5. ASSUME NEW q \in Process, NEW r \in Process, q # r PROVE Apart(q, r)'
    <2>1. CASE q = p
      BY <1>1, <2>1, IdleApartNext
    <2>2. CASE r = p
      <3>1. Apart(r, q)'
        BY <1>1, <2>2, IdleApartNext
      <3> QED
        BY <3>1 DEF Apart
    <2>3. CASE q # p /\ r # p
      <3>1. tx'[q] = tx[q] /\ tx'[r] = tx[r] /\ Apart(q, r)
        BY <1>1, <1>5, <2>3 DEF IInv
      <3> QED
        BY <3>1 DEF Apart, Writes
    <2> QED
      BY <2>1, <2>2, <2>3
  <1> QED
    BY <1>1, <1>4, <1>5, CommitTables, CommitCounts DEF IInv

-----------------------------------------------------------------------------
(* The invariant holds.                                                    *)

LEMMA Nine ==
    ASSUME NEW a, NEW b, NEW c, NEW d, NEW e, NEW f, NEW g, NEW h, NEW i
    PROVE  IsFiniteSet({a, b, c, d, e, f, g, h, i})
  <1>1. IsFiniteSet({} \cup {a})
    BY FS_EmptySet, FS_AddElement
  <1>2. IsFiniteSet({a} \cup {b})
    BY <1>1, FS_AddElement
  <1>3. IsFiniteSet({a, b} \cup {c})
    BY <1>2, FS_AddElement, {a} \cup {b} = {a, b}
  <1>4. IsFiniteSet({a, b, c} \cup {d})
    BY <1>3, FS_AddElement, {a, b} \cup {c} = {a, b, c}
  <1>5. IsFiniteSet({a, b, c, d} \cup {e})
    BY <1>4, FS_AddElement, {a, b, c} \cup {d} = {a, b, c, d}
  <1>6. IsFiniteSet({a, b, c, d, e} \cup {f})
    BY <1>5, FS_AddElement, {a, b, c, d} \cup {e} = {a, b, c, d, e}
  <1>7. IsFiniteSet({a, b, c, d, e, f} \cup {g})
    BY <1>6, FS_AddElement, {a, b, c, d, e} \cup {f} = {a, b, c, d, e, f}
  <1>8. IsFiniteSet({a, b, c, d, e, f, g} \cup {h})
    BY <1>7, FS_AddElement, {a, b, c, d, e, f} \cup {g} = {a, b, c, d, e, f, g}
  <1>9. IsFiniteSet({a, b, c, d, e, f, g, h} \cup {i})
    BY <1>8, FS_AddElement, {a, b, c, d, e, f, g} \cup {h} = {a, b, c, d, e, f, g, h}
  <1>10. {a, b, c, d, e, f, g, h} \cup {i} = {a, b, c, d, e, f, g, h, i}
    OBVIOUS
  <1> QED
    BY <1>9, <1>10

LEMMA InitHolds == Init => IInv
  <1> SUFFICES ASSUME Init PROVE IInv
    OBVIOUS
  <1>1. InsertWorkItem \in Row /\ InsertWorkItem.count = 1 /\ Fresh \in Row /\ Fresh.count = 0
    <2>1. InsertWorkItem = [Fresh EXCEPT !.count = 1]
      BY DEF InsertWorkItem
    <2>2. Fresh \in Row /\ 1 \in Nat
      BY FreshRow
    <2>3. InsertWorkItem \in Row /\ InsertWorkItem.count = 1
      BY <2>1, <2>2 DEF Row
    <2> QED
      BY <2>2, <2>3 DEF Fresh
  <1>2. /\ table \in [Keys -> Rows] /\ table["item"] = InsertWorkItem
        /\ \A k \in Old \ {"item"} : table[k] = Fresh
        /\ \A k \in Old : table[k] # NoRow
    BY <1>1, RowsApart DEF Init, Rows, Keys, Old
  <1>3. /\ \A e \in log : e.id = 0 /\ e.key \in Old /\ e.type = "created"
        /\ log \in SUBSET Event /\ IsFiniteSet(log)
    <2>1. PICK first : first = [k \in Old |-> [id |-> 0, key |-> k, after |-> table[k], type |-> "created"]]
      OBVIOUS
    <2>2. log = {[id |-> 0, key |-> k, after |-> table[k], type |-> "created"] : k \in Old}
      BY DEF Init
    <2>3. first \in Surjection(Old, log)
      BY <2>1, <2>2 DEF Surjection
    <2>4. IsFiniteSet(Old)
      BY Nine DEF Old
    <2>5. IsFiniteSet(log)
      BY <2>3, <2>4, FS_Surjection
    <2>6. log \in SUBSET Event
      BY <1>2, <2>2 DEF Event, Keys
    <2> QED
      BY <2>2, <2>5, <2>6
  <1>4. TypeOK
    <2>1. lock \in [Keys \cup {"watermark"} -> Process \cup {Free}]
      BY DEF Init
    <2>2. tx \in [Process -> Tx]
      BY IdleTyped DEF Init
    <2> QED
      BY <1>2, <1>3, <2>1, <2>2 DEF Init, TypeOK
  <1>5. Standing /\ Numbered
    BY <1>2, <1>3 DEF Init, Standing, Lasting, Expirable, Numbered, Keys
  <1>6. AssociationStands
    BY <1>3 DEF AssociationStands, Known, Old
  <1>7. CandidateEnds
    BY <1>3 DEF CandidateEnds
  <1>8. CountersExact
    <2>1. /\ \A k : Told(k, {"touchKnowledgeMemory", "touchKnowledgeMemories"}) = {}
          /\ Told("playbook", {"recordPlaybookUse"}) = {}
          /\ Told("item", {"updateWorkItem", "updateWorkItemStatus"}) = {}
      BY <1>3 DEF Told
    <2>2. Cardinality({}) = 0
      BY FS_EmptySet
    <2>3. /\ table["fact"].count = 0 /\ table["fact1"].count = 0
          /\ table["playbook"].count = 0 /\ table["item"].count = 1
      BY <1>1, <1>2 DEF Old
    <2> QED
      BY <2>1, <2>2, <2>3 DEF CountersExact
  <1>9. \A p \in Process : tx[p] = Idle /\ \A k \in DOMAIN lock : lock[k] # p
    BY ConstantsAssumption DEF Init
  <1> QED
    BY <1>4, <1>5, <1>6, <1>7, <1>8, <1>9, Idles, IdleApart DEF IInv

LEMMA StepKeeps == IInv /\ [Next]_vars => IInv'
  <1> SUFFICES ASSUME IInv, [Next]_vars PROVE IInv'
    OBVIOUS
  <1>1. CASE UNCHANGED vars
    <2>1. UNCHANGED <<table, log, lastId, lock, tx, started>>
      BY <1>1 DEF vars
    <2>2. TypeOK' /\ Standing' /\ AssociationStands' /\ CandidateEnds' /\ Numbered' /\ CountersExact'
      BY <2>1 DEF IInv, TypeOK, Standing, AssociationStands, CandidateEnds, Numbered, CountersExact,
         Told, Known
    <2>4. \A q, r \in Process : Apart(q, r) => Apart(q, r)'
      BY <2>1 DEF Apart, Writes
    <2>5. ASSUME NEW q \in Process PROVE Local(q)'
      <3>1. Local(q) /\ tx'[q] = tx[q]
        BY <2>1 DEF IInv
      <3>2. Call1(q)' = Call1(q) /\ Writes(q)' = Writes(q) /\ Awaiting(q)' = Awaiting(q)
        BY <2>1 DEF Call1, Writes, Awaiting
      <3>3. \A k : (Known(k)' <=> Known(k)) /\ (GoneBefore(q, k)' <=> GoneBefore(q, k))
        BY <2>1, <3>2 DEF Known, GoneBefore
      <3>4. Pace(q)' /\ First(q)' /\ Held(q)' /\ Seen(q)'
        BY <2>1, <3>1, <3>2, <3>3 DEF Local, Pace, First, Held, Seen
      <3>5. Logged(q)' /\ Events(q)'
        BY <2>1, <3>1, <3>2, <3>3 DEF Local, Logged, Events
      <3>6. Kept(q)' /\ Counts(q)' /\ Ends(q)' /\ CandidateFirst(q)' /\ Sweep(q)'
        BY <2>1, <3>1, <3>2, <3>3 DEF Local, Kept, Counts, Ends, CandidateFirst, Sweep
      <3> QED
        BY <3>4, <3>5, <3>6 DEF Local
    <2> QED
      BY <2>2, <2>4, <2>5 DEF IInv
  <1>2. CASE Next
    <2>1. PICK p \in Process : Begin(p) \/ Step(p) \/ Fail(p) \/ Victim(p)
      BY <1>2 DEF Next
    <2> QED
      BY <2>1, BeginKeeps, ReadKeeps, WriteKeeps, WriteThrowsKeeps, LogEventKeeps, MarkKeeps,
         CommitKeeps, RollbackKeeps DEF Step, Fail, Victim
  <1> QED
    BY <1>1, <1>2

\* The invariant of the transactions: their types, the rows, locks and events of each,
\* and what keeps two of them apart.
THEOREM Invariant == Spec => []IInv
  BY InitHolds, StepKeeps, PTL DEF Spec

\* No concurrent use is lost, however many connections count on one row.
THEOREM CountsEveryUse == Spec => []CountersExact
  <1>1. IInv => CountersExact
    BY DEF IInv
  <1> QED
    BY Invariant, <1>1, PTL

\* A candidate that was promoted does not expire, and one that expired is not promoted.
THEOREM EndsOnce == Spec => []PromotedOrExpired
  <1>1. IInv => PromotedOrExpired
    <2> SUFFICES ASSUME IInv, NEW e \in log, NEW f \in log, e.key = f.key,
                        e.type = "promoteCandidate", f.type = "deleteExpiredKnowledgeCandidates"
                 PROVE  FALSE
      BY DEF PromotedOrExpired
    <2>1. f.key \in Expirable /\ table[f.key] = NoRow
      BY DEF IInv, CandidateEnds
    <2>2. table[f.key].text = "promoted"
      BY <2>1 DEF IInv, CandidateEnds
    <2> QED
      BY <2>1, <2>2 DEF NoRow
  <1> QED
    BY Invariant, <1>1, PTL

-----------------------------------------------------------------------------
(* An expected version.                                                    *)

\* Only p's COMMIT ends p with something new in the log.
LEMMA CommitsIsCommit ==
    ASSUME IInv, [Next]_vars, NEW p \in Process, tx[p].pc = "commit", tx'[p] = Idle, log' # log
    PROVE  Commit(p)
  <1>1. PICK q \in Process : Begin(q) \/ Step(q) \/ Fail(q) \/ Victim(q)
    BY DEF Next, vars
  <1>2. Commit(q)
    BY <1>1 DEF Begin, Step, Read, Write, WriteThrows, LogEvent, Mark, Fail, Victim, Rollback
  <1>3. CASE q # p
    <2>1. tx'[p] = tx[p]
      BY <1>2, <1>3, Committed
    <2> QED
      BY <2>1, IdleTyped
  <1> QED
    BY <1>2, <1>3

\* Of the updates that expect one version one commits, on that version.
THEOREM HoldsExpectedVersion == Spec => ExpectedVersionHeld
  <1>1. ASSUME IInv, [Next]_vars, NEW p \in Process, Commits(p, "updateWorkItem"),
               tx[p].script[1].expect # 0
        PROVE  /\ table["item"].count = tx[p].script[1].expect
               /\ table'["item"].count = tx[p].script[1].expect + 1
    <2>1. Commit(p) /\ tx[p].kind = "updateWorkItem" /\ tx[p].pc = "commit" /\ log' # log
      BY <1>1, CommitsIsCommit DEF Commits
    <2>2. /\ log' = log \cup tx[p].events
          /\ \A k \in Keys : table'[k] = IF k \in Writes(p) THEN tx[p].mine[k] ELSE table[k]
      BY <1>1, <2>1, Committed
    <2>3. PICK e \in tx[p].events : TRUE
      BY <2>1, <2>2
    <2>4. e.type = "updateWorkItem" /\ \E c \in Calls : e.type = c.op /\ Named(e.key, c)
      BY <1>1, <2>1, OwnEvents, Batches DEF Own, Solo
    <2>5. e.key = "item"
      <3>1. PICK c \in Calls : e.type = c.op /\ Named(e.key, c)
        BY <2>4
      <3>2. c.op \notin Batch /\ c.op \in OnItem /\ c.op # "insertPlaybookRevision"
        BY <2>4, <3>1, Batches DEF OnItem
      <3> QED
        BY <3>1, <3>2 DEF Calls, Named
    <2>6. "item" \in Writes(p)
      BY <1>1, <2>1, <2>5, AllLogged DEF GoneBefore
    <2>7. table["item"].count = tx[p].script[1].expect
      BY <1>1, <2>1, <2>6 DEF IInv, Local, Counts
    <2>8. tx[p].mine["item"].count = table["item"].count + 1
      BY <1>1, <2>1, <2>6 DEF IInv, Local, Counts, Counted, Counting
    <2> QED
      BY <2>2, <2>6, <2>7, <2>8 DEF Keys, Old
  <1>2. IInv /\ [Next]_vars =>
          [\A p \in Process : Commits(p, "updateWorkItem") /\ tx[p].script[1].expect # 0 =>
              /\ table["item"].count = tx[p].script[1].expect
              /\ table'["item"].count = tx[p].script[1].expect + 1]_vars
    BY <1>1
  <1> QED
    BY Invariant, <1>2, PTL DEF Spec, ExpectedVersionHeld

-----------------------------------------------------------------------------
(* Deadlocks.                                                              *)

\* A transaction of one operation that has a lock and waits for another waits for the
\* watermark, or has only the candidate so far, or only rows of the statement it is in.
LEMMA Blocked ==
    ASSUME IInv, NEW p \in Process, tx[p].kind \notin Composite, NEW j \in DOMAIN lock, lock[j] = p,
           NEW k \in Awaited(p), k \in DOMAIN lock, lock[k] \notin {Free, p}
    PROVE  \/ k = "watermark"
           \/ k = "fact2" /\ j = "candidate"
           \/ /\ tx[p].kind \in Batch /\ {j, k} \subseteq RowsOf[tx[p].kind]
              /\ lock["watermark"] # p
  <1>1. TypeOK /\ Local(p) /\ Pace(p)
    BY DEF IInv, Local
  <1>2. tx[p].pc \in {"read", "write", "mark"} /\ (tx[p].pc = "mark" => k = "watermark")
    BY DEF Awaited
  <1>3. tx[p].pc \in {"read", "write"} => tx[p].at # 1 /\ k = Call1(p).key
    BY <1>1 DEF Awaited, Local, First
  <1>4. tx[p].at \in 1..Len(tx[p].script) /\ Running(tx[p].kind, tx[p].script)
    BY <1>1, <1>2 DEF Pace
  <1>6. CASE tx[p].pc \in {"read", "write"} /\ tx[p].kind \in Batch
    <2>1. \A i \in DOMAIN lock : lock[i] = p => i \in RowsOf[tx[p].kind]
      BY <1>1, <1>6 DEF Local, Sweep
    <2>2. "watermark" \in DOMAIN lock /\ "watermark" \notin RowsOf[tx[p].kind]
      BY <1>1, <1>6, Batches DEF TypeOK
    <2>3. Call1(p) \in Calls /\ Call1(p).op = tx[p].kind
      BY <1>1, <1>6, Here DEF Own
    <2>4. k \in RowsOf[tx[p].kind]
      BY <1>3, <1>6, <2>3 DEF Calls
    <2> QED
      BY <1>6, <2>1, <2>2, <2>4
  <1>5. CASE tx[p].pc \in {"read", "write"} /\ tx[p].kind \notin Batch
    <2>1. tx[p].kind = "promoteKnowledgeCandidate"
      BY <1>3, <1>4, <1>5 DEF Running
    <2>2. /\ Len(tx[p].script) = 3
          /\ tx[p].script[2].op = "insertKnowledgeMemory" /\ tx[p].script[2].key = "fact2"
          /\ tx[p].script[3].op = "promoteCandidate" /\ tx[p].script[3].key = "candidate"
      BY <1>1, <1>5, <2>1, PromotionAt
    <2>3. tx[p].at \in {2, 3}
      BY <1>3, <1>4, <1>5, <2>2
    <2>4. tx[p].pc = "write"
      BY <1>1, <1>5, <2>2, <2>3 DEF Pace, Call1, Reading
    <2>5. CASE tx[p].at = 2
      BY <1>1, <1>3, <2>1, <2>2, <2>4, <2>5 DEF Local, CandidateFirst, Call1
    <2>6. CASE tx[p].at = 3
      <3>1. k = "candidate"
        BY <1>3, <1>5, <2>2, <2>6 DEF Call1
      <3>2. lock["candidate"] = p \/ table["candidate"] = NoRow
        BY <1>1, <2>1, <2>6 DEF Local, CandidateFirst
      <3>3. lock["candidate"] # Free => table["candidate"] # NoRow
        BY DEF IInv, Standing, Old
      <3> QED
        BY <3>1, <3>2, <3>3
    <2> QED
      BY <2>3, <2>5, <2>6
  <1> QED
    BY <1>2, <1>5, <1>6

\* Two transactions of one operation each wait for each other only in two statements of
\* one kind that change several rows, which come to the rows in different orders.
THEOREM DeadlocksAreOfSeveral == Spec => []DeadlockNeedsSeveral
  <1>1. ASSUME IInv, NEW p \in Process, NEW q \in Process, Waits(p, q), Waits(q, p),
               tx[p].kind \notin Composite, tx[q].kind \notin Composite
        PROVE  /\ tx[p].kind = tx[q].kind /\ tx[p].kind \in Batch
               /\ lock["watermark"] \notin {p, q}
    <2>1. PICK k \in Awaited(p) : lock[k] = q /\ p # q
      BY <1>1 DEF Waits
    <2>2. PICK l \in Awaited(q) : lock[l] = p
      BY <1>1 DEF Waits
    <2>3. \A r \in Process : Awaited(r) \subseteq DOMAIN lock
      <3> SUFFICES ASSUME NEW r \in Process PROVE Awaited(r) \subseteq Keys \cup {"watermark"}
        BY <1>1 DEF IInv, TypeOK
      <3>1. tx[r].pc \in {"read", "write"} => Call1(r) \in Calls
        BY <1>1, Here DEF IInv, Local
      <3> QED
        BY <3>1 DEF Awaited, Calls
    <2>4. k \in DOMAIN lock /\ l \in DOMAIN lock
      BY <2>1, <2>2, <2>3
    <2>5. \/ k = "watermark"
          \/ k = "fact2" /\ l = "candidate"
          \/ /\ tx[p].kind \in Batch /\ {l, k} \subseteq RowsOf[tx[p].kind]
             /\ lock["watermark"] # p
      BY <1>1, <2>1, <2>2, <2>4, Blocked, ConstantsAssumption
    <2>6. \/ l = "watermark"
          \/ l = "fact2" /\ k = "candidate"
          \/ /\ tx[q].kind \in Batch /\ {k, l} \subseteq RowsOf[tx[q].kind]
             /\ lock["watermark"] # q
      BY <1>1, <2>1, <2>2, <2>4, Blocked, ConstantsAssumption
    <2>7. \A a, b \in Batch : RowsOf[a] \cap RowsOf[b] # {} => a = b
      BY Batches
    <2>8. \A a \in Batch : "fact2" \notin RowsOf[a] /\ "watermark" \notin RowsOf[a]
      BY Batches
    <2>9. /\ tx[p].kind \in Batch /\ {l, k} \subseteq RowsOf[tx[p].kind]
          /\ tx[q].kind \in Batch /\ {k, l} \subseteq RowsOf[tx[q].kind]
          /\ lock["watermark"] # p /\ lock["watermark"] # q
      BY <2>1, <2>2, <2>5, <2>6, <2>8
    <2> QED
      BY <2>7, <2>9
  <1>2. IInv => DeadlockNeedsSeveral
    BY <1>1 DEF DeadlockNeedsSeveral
  <1> QED
    BY Invariant, <1>2, PTL

-----------------------------------------------------------------------------
(* The tables implement AuditedStore.                                      *)

\* What the log shows of an event.
Shown(e) == [id |-> e.id, key |-> e.key, after |-> e.after]
Shows(S) == {[id |-> e.id, key |-> e.key, after |-> e.after] : e \in S}

\* The database starts with one event for each row.
LEMMA AuditedInit == Init => Audited!Init
  <1> SUFFICES ASSUME Init PROVE Audited!Init
    OBVIOUS
  <1>1. table \in [Keys -> Row \cup {NoRow}] /\ Old \subseteq Keys /\ \A k \in Keys \ Old : table[k] = NoRow
    BY InitHolds DEF IInv, TypeOK, Rows, Init, Keys, Old
  <1>2. Shows(log) = {[id |-> 0, key |-> k, after |-> table[k]] : k \in Old}
    <2>1. PICK L : L = {[id |-> 0, key |-> k, after |-> table[k], type |-> "created"] : k \in Old}
      OBVIOUS
    <2>2. \A e \in L : \E k \in Old : Shown(e) = [id |-> 0, key |-> k, after |-> table[k]]
      BY <2>1 DEF Shown
    <2>3. ASSUME NEW k \in Old
          PROVE  \E e \in L : Shown(e) = [id |-> 0, key |-> k, after |-> table[k]]
      <3>1. PICK e : e = [id |-> 0, key |-> k, after |-> table[k], type |-> "created"]
        OBVIOUS
      <3>2. e \in L
        BY <2>1, <3>1
      <3> QED
        BY <3>1, <3>2 DEF Shown
    <2>4. Shows(log) = {Shown(e) : e \in L}
      BY <2>1, Zenon DEF Init, Shows, Shown
    <2> QED
      BY <2>2, <2>3, <2>4
  <1>3. Shows(log) \subseteq Audited!Event
    BY <1>1, <1>2 DEF Audited!Event
  <1>4. ASSUME NEW k \in Keys
        PROVE  \/ Audited!OfKey(Shows(log), k) = {} /\ table[k] = NoRow
               \/ \E e \in Shows(log) : /\ e.key = k /\ Audited!LastIn(Shows(log), e)
                                        /\ e.after = table[k]
    <2>1. CASE k \in Old
      <3>1. PICK e \in Shows(log) : e = [id |-> 0, key |-> k, after |-> table[k]]
        BY <1>2, <2>1
      <3>2. \A f \in Shows(log) : f.id = 0
        BY <1>2
      <3>3. Audited!LastIn(Shows(log), e)
        BY <3>1, <3>2 DEF Audited!LastIn, Audited!OfKey
      <3> QED
        BY <3>1, <3>3
    <2>2. CASE k \notin Old
      <3>1. \A f \in Shows(log) : f.key \in Old
        BY <1>2
      <3> QED
        BY <1>1, <2>2, <3>1 DEF Audited!OfKey
    <2> QED
      BY <2>1, <2>2
  <1> QED
    BY <1>1, <1>3, <1>4 DEF Audited!Init, Audited!ReplayIsLive, Shows

\* The last event of a row that a COMMIT brings shows the row as it is then.
LEMMA LastShows ==
    ASSUME IInv, NEW p \in Process, tx[p].pc = "commit", NEW k \in Keys,
           NEW s \in Shows(tx[p].events), s.key = k
    PROVE  /\ \E e \in Shows(tx[p].events) : e.key = k /\ Audited!LastIn(Shows(tx[p].events), e)
           /\ \A e \in Shows(tx[p].events) :
                e.key = k /\ Audited!LastIn(Shows(tx[p].events), e)
                  => e.after = IF k \in Writes(p) THEN tx[p].mine[k] ELSE table[k]
  <1>1. tx[p].events \in SUBSET Event /\ Events(p)
    BY DEF IInv, TypeOK, Tx, Local
  <1>2. PICK r \in tx[p].events : s = Shown(r)
    BY DEF Shows, Shown
  <1>3. r.key = k
    BY <1>2 DEF Shown
  <1>4. CASE k \in Writes(p)
    <2>1. PICK e \in tx[p].events :
             /\ e.key = k /\ e.after = tx[p].mine[k]
             /\ \A f \in tx[p].events : f.key = k => f.id <= e.id
      BY <1>4, AllLogged
    <2>2. Shown(e) \in Shows(tx[p].events) /\ Shown(e).key = k /\ Shown(e).id = e.id
      BY <2>1 DEF Shows, Shown
    <2>3. \A f \in Shows(tx[p].events) : f.key = k => f.id <= e.id
      BY <2>1 DEF Shows
    <2>4. Audited!LastIn(Shows(tx[p].events), Shown(e))
      BY <2>2, <2>3 DEF Audited!LastIn, Audited!OfKey
    <2>5. ASSUME NEW g \in Shows(tx[p].events), g.key = k, Audited!LastIn(Shows(tx[p].events), g)
          PROVE  g.after = tx[p].mine[k]
      <3>1. e.id <= g.id /\ g.id <= e.id
        BY <2>2, <2>3, <2>5 DEF Audited!LastIn, Audited!OfKey
      <3>2. PICK h \in tx[p].events : g = Shown(h)
        BY DEF Shows, Shown
      <3>3. h.id = e.id
        <4>1. h.id \in Nat /\ e.id \in Nat /\ h.id = g.id
          BY <1>1, <2>1, <3>2 DEF Event, Shown
        <4> QED
          BY <3>1, <4>1
      <3>4. h = e
        BY <1>1, <3>3 DEF Events
      <3> QED
        BY <2>1, <3>2, <3>4 DEF Shown
    <2> QED
      BY <1>4, <2>2, <2>4, <2>5
  <1>5. CASE k \notin Writes(p)
    <2>1. GoneBefore(p, k)
      BY <1>2, <1>3, <1>5, AllLogged
    <2>2. \A e, f \in tx[p].events : e = f
      BY <1>1, <2>1 DEF GoneBefore, Events, Solo
    <2>3. \A e \in Shows(tx[p].events) : e = s
      BY <2>2 DEF Shows
    <2>4. s.id <= s.id
      BY <1>1, <1>2 DEF Event, Shown
    <2>5. Audited!LastIn(Shows(tx[p].events), s)
      BY <2>3, <2>4 DEF Audited!LastIn, Audited!OfKey
    <2>6. s.after = NoRow
      <3>1. r.after = NoRow
        BY <1>3, <1>5, AllLogged
      <3> QED
        BY <1>2, <3>1 DEF Shown
    <2>7. table[k] = NoRow
      BY <2>1 DEF GoneBefore
    <2> QED
      BY <1>5, <2>3, <2>5, <2>6, <2>7
  <1> QED
    BY <1>4, <1>5

\* A COMMIT that logs something records it.
LEMMA CommitRecords ==
    ASSUME IInv, NEW p \in Process, Commit(p), tx[p].events # {}
    PROVE  Audited!Next
  <1>1. /\ tx[p].pc = "commit" /\ log' = log \cup tx[p].events
        /\ \A k \in Keys : table'[k] = IF k \in Writes(p) THEN tx[p].mine[k] ELSE table[k]
        /\ TypeOK'
    BY Committed
  <1>2. /\ log \in SUBSET Event /\ tx[p].events \in SUBSET Event
        /\ Events(p) /\ table \in [Keys -> Rows]
    BY DEF IInv, TypeOK, Tx, Local
  <1>3. PICK new : new = Shows(tx[p].events)
    OBVIOUS
  <1>4. new # {}
    BY <1>3 DEF Shows
  <1>5. Shows(log') = Shows(log) \cup new
    <2>1. \A S, T : Shows(S \cup T) = Shows(S) \cup Shows(T)
      BY DEF Shows
    <2> QED
      BY <1>1, <1>3, <2>1
  <1>6. \A e \in new : \E g \in tx[p].events : e.id = g.id /\ e.key = g.key /\ e.after = g.after /\ e = Shown(g)
    BY <1>3 DEF Shows, Shown
  <1>7. \A f \in Shows(log) : \E g \in log : f.id = g.id /\ f.key = g.key /\ f.after = g.after
    BY DEF Shows
  <1>8. \A e \in new, f \in Shows(log) : e # f /\ (f.key = e.key => f.id < e.id \/ f.after = e.after)
    BY <1>2, <1>6, <1>7 DEF Events
  <1>9. \A e, f \in new : e.id = f.id => e = f
    BY <1>2, <1>6 DEF Events
  <1>10. {e \in Shows(log') : e \notin Shows(log)} = new
    BY <1>5, <1>8
  <1> DEFINE Added == {e \in Shows(log') : e \notin Shows(log)}
  <1>11. Added = new
    BY <1>10
  <1> HIDE DEF Added
  <1>12. table' = [k \in Keys |->
            IF Audited!OfKey(Added, k) = {} THEN table[k]
            ELSE (CHOOSE e \in Added : e.key = k /\ Audited!LastIn(Added, e)).after]
    <2>1. ASSUME NEW k \in Keys, Audited!OfKey(Added, k) = {}
          PROVE  table'[k] = table[k]
      <3>1. \A g \in tx[p].events : Shown(g) \in Added /\ Shown(g).key = g.key
        BY <1>3, <1>11 DEF Shows, Shown
      <3>2. \A g \in tx[p].events : g.key # k
        BY <2>1, <3>1 DEF Audited!OfKey
      <3>3. k \notin Writes(p)
        BY <1>1, <3>2, AllLogged
      <3> QED
        BY <1>1, <3>3
    <2>2. ASSUME NEW k \in Keys, Audited!OfKey(Added, k) # {}
          PROVE  table'[k] = (CHOOSE e \in Added : e.key = k /\ Audited!LastIn(Added, e)).after
      <3>1. PICK s \in new : s.key = k
        BY <1>11, <2>2 DEF Audited!OfKey
      <3>2. /\ \E e \in new : e.key = k /\ Audited!LastIn(new, e)
            /\ \A e \in new : e.key = k /\ Audited!LastIn(new, e) => e.after = table'[k]
        BY <1>1, <1>3, <3>1, LastShows
      <3>3. \A e : Audited!LastIn(new, e) <=> Audited!LastIn(Added, e)
        BY <1>11 DEF Audited!LastIn, Audited!OfKey
      <3>4. /\ \E e \in Added : e.key = k /\ Audited!LastIn(Added, e)
            /\ \A e \in Added : e.key = k /\ Audited!LastIn(Added, e) => e.after = table'[k]
        BY <1>11, <3>2, <3>3
      <3> QED
        BY <3>4
    <2>3. table' \in [Keys -> Rows]
      BY <1>1 DEF TypeOK
    <2> QED
      BY <2>1, <2>2, <2>3
  <1>13. Added # {} /\ Shows(log') = Shows(log) \cup Added
    BY <1>4, <1>5, <1>11
  <1>14. /\ \A e \in Added, f \in Shows(log) : f.key = e.key => f.id < e.id \/ f.after = e.after
         /\ \A e, f \in Added : e.id = f.id => e = f
    BY <1>8, <1>9, <1>11
  <1>15. Audited!Record(Added)
    BY <1>12, <1>13, <1>14 DEF Audited!Record, Shows
  <1> QED
    BY <1>15, Zenon DEF Added, Audited!Next, Shows

\* Every step of PgStore records changes of the tables or leaves tables and log alone.
LEMMA StepRecords == IInv /\ [Next]_vars => [Audited!Next]_(Audited!vars)
  <1>1. ASSUME UNCHANGED <<table, log>> PROVE UNCHANGED Audited!vars
    BY <1>1 DEF Audited!vars
  <1>2. ASSUME UNCHANGED vars PROVE UNCHANGED Audited!vars
    BY <1>1, <1>2 DEF vars
  <1>3. ASSUME IInv, NEW p \in Process, Begin(p) \/ Step(p) \/ Fail(p) \/ Victim(p)
        PROVE  Audited!Next \/ UNCHANGED Audited!vars
    <2>1. CASE ~Commit(p)
      <3>1. UNCHANGED <<table, log>>
        BY <1>3, <2>1 DEF Begin, Step, Read, Write, WriteThrows, LogEvent, Mark, Fail, Victim, Rollback
      <3> QED
        BY <1>1, <3>1
    <2>2. CASE Commit(p) /\ tx[p].events = {}
      <3>1. /\ tx[p].pc = "commit" /\ log' = log \cup tx[p].events
            /\ \A k \in Keys : table'[k] = IF k \in Writes(p) THEN tx[p].mine[k] ELSE table[k]
            /\ TypeOK' /\ TypeOK
        BY <1>3, <2>2, Committed DEF IInv
      <3>2. Writes(p) = {}
        BY <1>3, <2>2, <3>1, AllLogged
      <3>3. table' = table
        BY <3>1, <3>2 DEF TypeOK
      <3> QED
        BY <1>1, <2>2, <3>1, <3>3
    <2> QED
      BY <1>3, <2>1, <2>2, CommitRecords
  <1> QED
    BY <1>2, <1>3 DEF Next

\* Replaying the log gives the tables: PgStore implements AuditedStore.
THEOREM LogTellsTables == Spec => KeepsRecord
  BY Invariant, AuditedInit, StepRecords, PTL DEF Spec, KeepsRecord, Audited!Spec
-----------------------------------------------------------------------------
(***************************************************************************)
(* Who may see a row.  The in-memory adapter and the replay filter rows    *)
(* with matchesScopeLevel and isBaseVisible; the SQL adapters have each    *)
(* written that rule again, as a where clause.                             *)
(***************************************************************************)

CONSTANTS None, WorkingTtl

Rule == INSTANCE StorageKernel
SQLite == INSTANCE SqliteStorage
Postgres == INSTANCE PostgresStorage

\* Scopes of any names.
AnyScope(scope) ==
  scope = [tenant |-> scope.tenant, system |-> scope.system, workspace |-> scope.workspace,
           collab |-> scope.collab, scope |-> scope.scope]

(* Snapshots of one row: its class, if it has one, is not taken away. *)
ClassStays(e) ==
  e.after # None /\ Rule!SnapshotClass(e.after) = None => Rule!SnapshotClass(e.before) = None

\* Within a tenant, the visibility clauses are the rule; for an unknown class, and for
\* none, the row is private.
LEMMA ClausesAreTheRule ==
    ASSUME NEW class, NEW own, NEW scope, None \notin Rule!Classes,
           own.tenant = scope.tenant
    PROVE  /\ SQLite!VisibilityWhereForScope(class, own, scope) = Rule!IsBaseVisible(class, own, scope)
           /\ Postgres!VisibilityWhere(class, own, scope) = Rule!IsBaseVisible(class, own, scope)
<1>1. (\A f \in {"system", "workspace", "collab", "scope"} : own[f] = scope[f])
        <=> /\ own.system = scope.system /\ own.workspace = scope.workspace
            /\ own.collab = scope.collab /\ own.scope = scope.scope
  OBVIOUS
<1>2. None \notin {"tenant", "workspace", "shared_collaboration"}
  BY DEF Rule!Classes
<1>3. SQLite!VisibilityWhereForScope(class, own, scope) <=> Rule!IsBaseVisible(class, own, scope)
  BY <1>1, <1>2 DEF SQLite!VisibilityWhereForScope, Rule!IsBaseVisible, SQLite!NoCollaboration,
     Rule!NoCollaboration
<1>4. Postgres!VisibilityWhere(class, own, scope) <=> Rule!IsBaseVisible(class, own, scope)
  BY <1>1, <1>2 DEF Postgres!VisibilityWhere, Rule!IsBaseVisible, Postgres!NoCollaboration,
     Rule!NoCollaboration
<1> QED
  BY <1>3, <1>4 DEF SQLite!VisibilityWhereForScope, Postgres!VisibilityWhere, Rule!IsBaseVisible

\* The breadth of a read, as each adapter writes it.
LEMMA BreadthsAgree ==
    ASSUME NEW own, NEW scope, NEW level \in Rule!Levels, AnyScope(own), AnyScope(scope)
    PROVE  /\ SQLite!ScopeWhereForLevel(own, scope, level) <=> Rule!MatchesScopeLevel(own, scope, level)
           /\ Postgres!WideScopeWhere(own, scope, level) <=> Rule!MatchesScopeLevel(own, scope, level)
           /\ Rule!MatchesScopeLevel(own, scope, level) => own.tenant = scope.tenant
<1>1. own = scope => own.tenant = scope.tenant /\ own.system = scope.system
  OBVIOUS
<1>2. level \in {"scope", "workspace", "system", "tenant"}
  BY DEF Rule!Levels
<1> QED
  BY <1>1, <1>2 DEF SQLite!ScopeWhereForLevel, Postgres!WideScopeWhere, Rule!MatchesScopeLevel,
     Rule!MatchesScope

(* A read across scopes lets through the same rows on SQLite, on Postgres and in
   memory, whatever the scopes, the breadth, and the class of the row: the where
   clauses of the two SQL adapters are crossScopeVisible.  So are those of the event
   log, by the class of the row that an event records. *)
THEOREM VisibilityAgrees ==
    ASSUME NEW row, NEW e, NEW scope, NEW level \in Rule!Levels, None \notin Rule!Classes,
           AnyScope(row.own), AnyScope(e.own), AnyScope(scope), ClassStays(e)
    PROVE  /\ SQLite!WideAndVisible(row, scope, level) <=> Rule!CrossScopeVisible(row, scope, level)
           /\ Postgres!WideAndVisible(row, scope, level) <=> Rule!CrossScopeVisible(row, scope, level)
           /\ (SQLite!ScopeWhereForLevel(e.own, scope, level) /\ SQLite!EventVisibilityWhereForScope(e, scope))
                <=> /\ Rule!MatchesScopeLevel(e.own, scope, level)
                    /\ Rule!IsBaseVisible(Rule!EventVisibilityClass(e), e.own, scope)
           /\ (Postgres!WideScopeWhere(e.own, scope, level) /\ Postgres!EventVisibilityWhere(e, scope))
                <=> /\ Rule!MatchesScopeLevel(e.own, scope, level)
                    /\ Rule!IsBaseVisible(Rule!EventVisibilityClass(e), e.own, scope)
<1> DEFINE recorded == Rule!Given(Rule!SnapshotClass(e.after), Rule!SnapshotClass(e.before))
<1>1. /\ SQLite!WideAndVisible(row, scope, level) <=> Rule!CrossScopeVisible(row, scope, level)
      /\ Postgres!WideAndVisible(row, scope, level) <=> Rule!CrossScopeVisible(row, scope, level)
  BY BreadthsAgree, ClausesAreTheRule DEF SQLite!WideAndVisible, Postgres!WideAndVisible, Rule!CrossScopeVisible
<1>2. /\ SQLite!EventVisibilityWhereForScope(e, scope) = SQLite!VisibilityWhereForScope(recorded, e.own, scope)
      /\ Postgres!EventVisibilityWhere(e, scope) = Postgres!VisibilityWhere(recorded, e.own, scope)
  BY DEF SQLite!EventVisibilityWhereForScope, Postgres!EventVisibilityWhere, SQLite!Given, Postgres!Given,
     Rule!Given, SQLite!SnapshotClass, Postgres!SnapshotClass, Rule!SnapshotClass
\* Where the snapshot has no class, or an unknown one, both rules are that of a private row.
<1>3. \/ recorded = Rule!EventVisibilityClass(e)
      \/ recorded \notin Rule!Classes /\ Rule!EventVisibilityClass(e) = "private"
  <2>1. Rule!SnapshotClass(None) = None
    BY DEF Rule!SnapshotClass
  <2>2. recorded = Rule!SnapshotClass(IF e.after # None THEN e.after ELSE e.before)
    BY <2>1 DEF Rule!Given, ClassStays
  <2> QED
    BY <2>2 DEF Rule!EventVisibilityClass
<1>4. Rule!IsBaseVisible(recorded, e.own, scope) <=> Rule!IsBaseVisible(Rule!EventVisibilityClass(e), e.own, scope)
  BY <1>3 DEF Rule!IsBaseVisible, Rule!Classes
<1>5. /\ SQLite!ScopeWhereForLevel(e.own, scope, level) <=> Rule!MatchesScopeLevel(e.own, scope, level)
      /\ Postgres!WideScopeWhere(e.own, scope, level) <=> Rule!MatchesScopeLevel(e.own, scope, level)
      /\ Rule!MatchesScopeLevel(e.own, scope, level) => e.own.tenant = scope.tenant
  BY BreadthsAgree
<1>6. ASSUME e.own.tenant = scope.tenant
      PROVE  /\ SQLite!VisibilityWhereForScope(recorded, e.own, scope) <=> Rule!IsBaseVisible(recorded, e.own, scope)
             /\ Postgres!VisibilityWhere(recorded, e.own, scope) <=> Rule!IsBaseVisible(recorded, e.own, scope)
  BY <1>6, ClausesAreTheRule
<1> QED
  <2> HIDE DEF recorded
  <2> QED
    BY <1>1, <1>2, <1>4, <1>5, <1>6
====
