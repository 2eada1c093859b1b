----------------------- MODULE SessionDeletionProofs -----------------------
(* What SessionDeletion keeps for every number of requests, uploads, cleanup  *)
(* passes and faults, and for every page size.  The argument: a request that  *)
(* may still write holds the stored copy of an open fence (FenceInv), so what *)
(* a pass sees behind a closed fence can only shrink; an original that is     *)
(* stored or under way has its ticket (CoverInv), so no open ticket means no  *)
(* original; hence every flag a pass or the tombstone carries stays true      *)
(* (EvidenceInv), and a verified tombstone is nobody's copy (FinalInv).       *)
EXTENDS SessionDeletion, FiniteSetTheorems, TLAPS

Steps == {"idle", "done", "fence", "publish", "read", "write", "purge", "readTicket", "ticket",
          "put", "wait", "settle", "add", "close", "checkpoint", "clean", "erase", "tickets",
          "originals", "erase originals", "settled", "forget", "release", "report"}

\* TypeOK in four parts, the control points included.
ControlType ==
    /\ pc \in [Actors -> Steps]
    /\ on \in [Actors -> Containers \cup {"attachments"}]
    /\ batch \in [Actors -> SUBSET Rows]
    /\ unresolved \subseteq Passes

ChildType ==
    /\ fence \in [Containers -> {Absent, "open", "closed"}]
    /\ fresh \in [Containers -> SUBSET Requests]
    /\ rows \in [Containers -> SUBSET Rows]

UploadType ==
    /\ session \in [kind: {Absent, "initializing", "active", "tombstone"}, required: BOOLEAN]
    /\ tickets \in [Uploaders -> {Absent, "unsettled", "settled", "forgotten"}]
    /\ put \in [Uploaders -> {Absent, "out", "landed", "lost"}]
    /\ blobs \subseteq Uploaders
    /\ faults \in Nat

StatusType ==
    /\ record \in Status
    /\ progress \in [Passes -> Status]

LeaseType ==
    /\ lease \in [token: Passes \cup {None}, live: BOOLEAN]
    /\ lease.live => lease.token # None
    /\ holder \in {None, lease.token}

TypeInv == ControlType /\ ChildType /\ UploadType /\ StatusType /\ LeaseType

\* A pass works only on a deletion; nothing was written before the reservation.
StartInv ==
    /\ \A p \in Passes: pc[p] # "idle" => Deleting
    /\ pc[Creator] = "idle" => session.kind = Absent
    /\ session.kind = Absent => \A a \in Requests: pc[a] = "idle"
    /\ session.kind = Absent => \A u \in Uploaders: tickets[u] = Absent

\* What a pass does beyond its first two steps it does behind closed fences.
Behind == {"checkpoint", "clean", "erase", "tickets", "originals", "erase originals", "settled",
           "forget", "release"}

\* Only an open fence can still be written over; a pass past "close" has closed both.
FenceInv ==
    /\ \A c \in Containers: fresh[c] # {} => fence[c] = "open"
    /\ on[Creator] \in Containers
    /\ \A p \in Passes:
          /\ pc[p] = "idle" => on[p] = "messages"
          /\ pc[p] \in {"close", "clean", "erase"} => on[p] \in Containers
          /\ pc[p] = "close" /\ on[p] = "documents" => fence["messages"] = "closed"
          /\ pc[p] \in Behind => \A c \in Containers: fence[c] = "closed"

\* An upload has its ticket before its PUT, on a parent that names the store.
CoverInv ==
    /\ \A u \in Uploaders:
          /\ pc[u] \in {"put", "wait"} => tickets[u] = "unsettled"
          /\ pc[u] = "settle" => put[u] = "landed"
          /\ pc[u] \in {"readTicket", "ticket"} => session.required
    /\ TicketsCover

NoneUnsettled == \A u \in Uploaders: tickets[u] # "unsettled"

MessagesGone == fence["messages"] = "closed" /\ rows["messages"] = {}
DocumentsGone == fence["documents"] = "closed" /\ rows["documents"] = {}
OriginalsGone == fence["documents"] = "closed" /\ blobs = {} /\ NoneUnsettled
NothingLeft ==
    /\ MessagesGone /\ DocumentsGone /\ OriginalsGone
    /\ \A u \in Uploaders: ~Open(u)

\* What a status claims is so.
Evidence(status) ==
    /\ status.messages => MessagesGone
    /\ status.documents => DocumentsGone
    /\ status.attachments => OriginalsGone
    /\ status.state = "cleanup_verified"
          => status.messages /\ status.documents /\ status.attachments /\ NothingLeft

\* The claims of the status a pass has in hand, and what it found on the way to them.
Honest(p) ==
    /\ Evidence(progress[p])
    /\ pc[p] \in {"originals", "erase originals"} /\ p \notin unresolved => NoneUnsettled
    /\ pc[p] \in {"settled", "forget"} => progress[p].attachments
    /\ pc[p] \in {"erase originals", "forget"} => batch[p] \subseteq Uploaders

EvidenceInv == Evidence(record) /\ \A p \in Passes: Honest(p)

\* A verified tombstone has no pass that could still write over it.
FinalInv ==
    /\ record.state = "cleanup_verified" => holder = None /\ Deleting
    /\ \A p \in Passes: progress[p].state = "cleanup_verified" => pc[p] = "release"

\* What no step takes back.
Kept ==
    /\ MessagesGone => MessagesGone'
    /\ DocumentsGone => DocumentsGone'
    /\ (\A c \in Containers: fence[c] = "closed") /\ NoneUnsettled => NoneUnsettled'
    /\ OriginalsGone => OriginalsGone'
    /\ NothingLeft => NothingLeft'

\* A step leaves what a pass has in hand alone.
Rests(p) ==
    /\ pc'[p] = pc[p] /\ batch'[p] = batch[p] /\ progress'[p] = progress[p]
    /\ p \in unresolved' <=> p \in unresolved

\* What a step may not bring back.
Stays ==
    /\ Deleting => session'.kind = "tombstone"
    /\ \A c \in Containers: fence[c] = "closed"
          => fence'[c] = "closed" /\ rows'[c] \subseteq rows[c]

IInv == TypeInv /\ StartInv /\ FenceInv /\ CoverInv /\ EvidenceInv /\ FinalInv

-----------------------------------------------------------------------------
(* Types.                                                                    *)

\* A page that a query returns has rows of the set queried, and is empty only if
\* that is.
LEMMA PageOf ==
    ASSUME NEW S, IsFiniteSet(S), NEW page \in Pages(S)
    PROVE  page \subseteq S /\ (page = {} => S = {})
<1>1. page \subseteq S
  BY DEF Pages
<1>2. ASSUME page = {} PROVE S = {}
  <2>1. Cardinality(page) = 0
    BY <1>2, FS_EmptySet
  <2>2. Cardinality(S) = 0
    BY <2>1, FS_CardinalityType, DeletionAssumption DEF Pages
  <2> QED
    BY <2>2, FS_EmptySet
<1> QED
  BY <1>1, <1>2

\* A request or a pass that ends keeps the types of what it had in hand.
LEMMA LeaveTyped ==
    ASSUME ControlType, StatusType, NEW a \in Actors, Leave(a)
    PROVE  ControlType' /\ progress' \in [Passes -> Status]
BY DEF Leave, Gone, Go, ControlType, StatusType, Status, NewStatus, Actors, Steps, Containers

\* So does a pass that turns to report its failure.
LEMMA ReportTyped ==
    ASSUME ControlType, StatusType, NEW p \in Passes, ToReport(p)
    PROVE  ControlType' /\ progress' \in [Passes -> Status]
<1> DEFINE reported == [progress[p] EXCEPT !.state = "retryable", !.reason = "failed",
                                           !.attachments = FALSE]
<1>1. reported \in Status
  BY DEF StatusType, Status
<1>2. progress' = [progress EXCEPT ![p] = reported]
  BY DEF ToReport
<1>3. progress' \in [Passes -> Status]
  BY <1>1, <1>2 DEF StatusType
<1> QED
  BY <1>3 DEF ToReport, Go, ControlType, Actors, Steps

\* So does what is said of a partition.
LEMMA VerifiedTyped ==
    ASSUME StatusType, NEW p \in Passes, NEW c, NEW empty \in BOOLEAN, Verified(p, c, empty)
    PROVE  progress' \in [Passes -> Status]
<1>1. [progress[p] EXCEPT !.messages = empty] \in Status
  BY DEF StatusType, Status
<1>2. [progress[p] EXCEPT !.documents = empty] \in Status
  BY DEF StatusType, Status
<1> QED
  BY <1>1, <1>2 DEF Verified, StatusType

\* So does the verdict on the originals.
LEMMA JudgeTyped ==
    ASSUME ControlType, StatusType, NEW p \in Passes, NEW empty \in BOOLEAN, Judge(p, empty)
    PROVE  /\ pc' \in [Actors -> Steps]
           /\ progress' \in [Passes -> Status]
<1>1. Judged(progress[p], empty, p \in unresolved) \in Status
  BY DEF StatusType, Status, Judged
<1>2. progress' \in [Passes -> Status]
  BY <1>1 DEF StatusType, Judge
<1> QED
  BY <1>2 DEF Judge, Go, ControlType, Actors, Steps

-----------------------------------------------------------------------------
(* What a pass does to the status it has in hand.                            *)

\* A pass that turns to report its failure drops its claim on the originals only.
LEMMA Reported ==
    ASSUME ControlType, StatusType, NEW p \in Passes, ToReport(p)
    PROVE  /\ pc' = [pc EXCEPT ![p] = "report"]
           /\ \A q \in Passes \ {p}: progress'[q] = progress[q]
           /\ progress'[p].state = "retryable"
           /\ progress'[p].messages = progress[p].messages
           /\ progress'[p].documents = progress[p].documents
           /\ progress'[p].attachments = FALSE
<1> DEFINE reported == [progress[p] EXCEPT !.state = "retryable", !.reason = "failed",
                                           !.attachments = FALSE]
<1>1. /\ reported.state = "retryable" /\ reported.attachments = FALSE
      /\ reported.messages = progress[p].messages
      /\ reported.documents = progress[p].documents
  BY DEF StatusType, Status
<1>2. progress' = [progress EXCEPT ![p] = reported]
  BY DEF ToReport
<1>3. progress'[p] = reported /\ \A q \in Passes \ {p}: progress'[q] = progress[q]
  BY <1>2 DEF StatusType
<1> QED
  BY <1>1, <1>3 DEF ToReport, Go

\* The answer on a partition changes the claim on that partition only.
LEMMA VerifiedEffect ==
    ASSUME StatusType, NEW p \in Passes, NEW c \in Containers, NEW empty \in BOOLEAN,
           Verified(p, c, empty)
    PROVE  /\ \A q \in Passes \ {p}: progress'[q] = progress[q]
           /\ progress'[p].state = progress[p].state
           /\ progress'[p].messages = IF c = "messages" THEN empty ELSE progress[p].messages
           /\ progress'[p].documents = IF c = "messages" THEN progress[p].documents ELSE empty
           /\ progress'[p].attachments = progress[p].attachments
BY DEF Verified, StatusType, Status, Containers

\* The verdict on the originals changes the claim on them and the next step only.
LEMMA JudgeEffect ==
    ASSUME ControlType, StatusType, NEW p \in Passes, NEW empty \in BOOLEAN, Judge(p, empty)
    PROVE  /\ \A q \in Passes \ {p}: progress'[q] = progress[q]
           /\ progress'[p].state = progress[p].state
           /\ progress'[p].messages = progress[p].messages
           /\ progress'[p].documents = progress[p].documents
           /\ progress'[p].attachments = (empty /\ p \notin unresolved)
           /\ pc' = [pc EXCEPT ![p] = IF empty /\ p \notin unresolved THEN "settled" ELSE "release"]
<1>1. progress'[p] = Judged(progress[p], empty, p \in unresolved)
      /\ \A q \in Passes \ {p}: progress'[q] = progress[q]
  BY DEF Judge, StatusType
<1>2. LET judged == Judged(progress[p], empty, p \in unresolved)
      IN  /\ judged.state = progress[p].state
          /\ judged.messages = progress[p].messages
          /\ judged.documents = progress[p].documents
          /\ judged.attachments = (empty /\ p \notin unresolved)
  BY DEF Judged, StatusType, Status
<1>3. pc' = [pc EXCEPT ![p] = IF empty /\ p \notin unresolved THEN "settled" ELSE "release"]
  BY DEF Judge, Go
<1> QED
  BY <1>1, <1>2, <1>3

\* Who leaves touches nothing that a pass has in hand but its own.
LEMMA LeaveRests ==
    ASSUME ControlType, StatusType, NEW a \in Actors, Leave(a), NEW p \in Passes \ {a}
    PROVE  Rests(p)
BY DeletionAssumption DEF Leave, Gone, Go, Rests, ControlType, StatusType, Actors

\* A pass that ends has a fresh status and waits to be asked for again.
LEMMA LeaveFresh ==
    ASSUME ControlType, StatusType, NEW p \in Passes, Leave(p)
    PROVE  pc'[p] = "idle" /\ progress'[p] = NewStatus
BY DeletionAssumption DEF Leave, Gone, Go, ControlType, StatusType, Actors

\* Each step keeps the control points, partitions and pages in hand in their types.
LEMMA ControlStep == IInv /\ [Next]_vars => ControlType'
<1> SUFFICES ASSUME IInv, [Next]_vars PROVE ControlType'
  OBVIOUS
<1> USE DeletionAssumption DEF Requests, Actors, Containers, Go, deletion, partitions, uploads,
   local, Work, Rows, ControlType, FenceInv, Steps
<1>h. TypeInv /\ FenceInv
  BY DEF IInv
<1>t. ControlType /\ ChildType /\ UploadType /\ StatusType
  BY <1>h DEF TypeInv
<1>1. CASE Reserve
  BY <1>h, <1>t, <1>1 DEF Reserve, Others
<1>2. CASE CreateFence
  BY ZenonT(40), <1>h, <1>t, <1>2, LeaveTyped DEF CreateFence, Others
<1>3. CASE Publish
  BY <1>h, <1>t, <1>3, LeaveTyped DEF Publish, Others
<1>4. ASSUME NEW a \in Requests, ReadFence(a) PROVE ControlType'
  BY <1>h, <1>t, <1>4, LeaveTyped DEF ReadFence, Others
<1>5. ASSUME NEW a \in Requests, LostRace(a) PROVE ControlType'
  BY <1>h, <1>t, <1>5, LeaveTyped DEF LostRace, Others
<1>6. ASSUME NEW w \in Writers, BeginWrite(w) PROVE ControlType'
  <2>1. PICK c \in Containers: Access(w, c, "read")
    BY <1>6 DEF BeginWrite
  <2> QED
    BY <1>h, <1>t, <2>1 DEF Access, Others
<1>7. ASSUME NEW w \in Writers, WriteMessage(w) PROVE ControlType'
  BY <1>h, <1>t, <1>7, LeaveTyped DEF WriteMessage, Fenced, Others
<1>8. ASSUME NEW w \in Writers, RemoveDocument(w) PROVE ControlType'
  <2>1. PICK d \in rows["documents"]: batch' = [batch EXCEPT ![w] = {d}]
    BY <1>8 DEF RemoveDocument
  <2>2. rows["documents"] \in SUBSET Rows
    BY <1>t DEF ChildType
  <2>3. {d} \in SUBSET Rows
    BY <2>1, <2>2
  <2> QED
    BY <1>h, <1>t, <1>8, <2>1, <2>3 DEF RemoveDocument, Others
<1>9. ASSUME NEW w \in Writers, PurgeOriginal(w) PROVE ControlType'
  BY <1>h, <1>t, <1>9, LeaveTyped DEF PurgeOriginal, Others
<1>10. ASSUME NEW u \in Uploaders, BeginText(u) PROVE ControlType'
  BY <1>h, <1>t, <1>10 DEF BeginText, Access, Active, Others
<1>11. ASSUME NEW u \in Uploaders, BeginUpload(u) PROVE ControlType'
  BY <1>h, <1>t, <1>11 DEF BeginUpload, Active, Others
<1>12. ASSUME NEW u \in Uploaders, ReadTicketFence(u) PROVE ControlType'
  BY <1>h, <1>t, <1>12, LeaveTyped DEF ReadTicketFence, Others
<1>13. ASSUME NEW u \in Uploaders, CreateTicket(u) PROVE ControlType'
  BY <1>h, <1>t, <1>13 DEF CreateTicket, Fenced, Others
<1>14. ASSUME NEW u \in Uploaders, LostTicketRace(u) PROVE ControlType'
  BY <1>h, <1>t, <1>14, LeaveTyped DEF LostTicketRace, Others
<1>15. ASSUME NEW u \in Uploaders, StartPut(u) PROVE ControlType'
  BY <1>h, <1>t, <1>15 DEF StartPut, At, Others
<1>16. ASSUME NEW u \in Uploaders, PutLands(u) PROVE ControlType'
  BY <1>h, <1>t, <1>16 DEF PutLands, Others
<1>17. ASSUME NEW u \in Uploaders, PutReturns(u) PROVE ControlType'
  BY <1>h, <1>t, <1>17 DEF PutReturns, At, Others
<1>18. ASSUME NEW u \in Uploaders, PutFails(u) PROVE ControlType'
  BY <1>h, <1>t, <1>18 DEF PutFails, At, Others
<1>19. ASSUME NEW u \in Uploaders, Settle(u) PROVE ControlType'
  BY <1>h, <1>t, <1>19, LeaveTyped DEF Settle, Others
<1>20. ASSUME NEW u \in Uploaders, BeginAdd(u) PROVE ControlType'
  BY <1>h, <1>t, <1>20 DEF BeginAdd, Access, Active, Others
<1>21. ASSUME NEW u \in Uploaders, AddDocument(u) PROVE ControlType'
  BY <1>h, <1>t, <1>21, LeaveTyped DEF AddDocument, Fenced, Others
<1>22. ASSUME NEW a \in Requests, Denied(a) PROVE ControlType'
  BY <1>h, <1>t, <1>22, LeaveTyped DEF Denied, Deleting, Others
<1>23. CASE BeginDeletion
  BY <1>h, <1>t, <1>23 DEF BeginDeletion
<1>24. ASSUME NEW p \in Passes, Claim(p) PROVE ControlType'
  BY <1>h, <1>t, <1>24 DEF Claim, Deleting, Claimable
<1>25. ASSUME NEW p \in Passes, CloseFence(p) PROVE ControlType'
  BY ZenonT(40), <1>h, <1>t, <1>25 DEF CloseFence, Closed, PassOnly
<1>26. ASSUME NEW p \in Passes, Checkpoint(p) PROVE ControlType'
  BY <1>h, <1>t, <1>26, ReportTyped DEF Checkpoint, AfterCheckpoint
<1>27. ASSUME NEW p \in Passes, QueryRows(p) PROVE ControlType'
  <2>1. on[p] \in Containers
    BY <1>h, <1>27 DEF QueryRows
  <2>2. PICK page \in Pages(rows[on[p]]):
            /\ pc' = [pc EXCEPT ![p] = IF page = {} THEN "checkpoint" ELSE "erase"]
            /\ on' = IF page = {} THEN [on EXCEPT ![p] = Following(on[p])] ELSE on
            /\ batch' = IF page = {} THEN batch ELSE [batch EXCEPT ![p] = page]
    BY <1>27 DEF QueryRows
  <2>3. page \in SUBSET Rows
    BY <1>t, <2>1, <2>2 DEF ChildType, Pages
  <2>4. Following(on[p]) \in Containers \cup {"attachments"}
    BY DEF Following
  <2> QED
    BY <1>h, <1>t, <1>27, <2>2, <2>3, <2>4 DEF QueryRows
<1>28. ASSUME NEW p \in Passes, EraseRow(p) PROVE ControlType'
  <2>1. PICK row \in batch[p]:
            /\ batch' = [batch EXCEPT ![p] = @ \ {row}]
            /\ \/ UNCHANGED <<on, pc>>
               \/ /\ on' = [on EXCEPT ![p] = Following(on[p])]
                  /\ pc' = [pc EXCEPT ![p] = "checkpoint"]
    BY <1>28 DEF EraseRow
  <2>2. batch[p] \ {row} \in SUBSET Rows
    BY <1>t
  <2>3. Following(on[p]) \in Containers \cup {"attachments"}
    BY DEF Following
  <2>4. pc' \in [Actors -> Steps] /\ on' \in [Actors -> Containers \cup {"attachments"}]
    <3>1. CASE UNCHANGED <<on, pc>>
      BY <1>t, <3>1
    <3>2. CASE /\ on' = [on EXCEPT ![p] = Following(on[p])]
               /\ pc' = [pc EXCEPT ![p] = "checkpoint"]
      BY <1>t, <2>3, <3>2
    <3> QED
      BY <2>1, <3>1, <3>2
  <2> QED
    BY <1>h, <1>t, <1>28, <2>1, <2>2, <2>4 DEF EraseRow
<1>29. ASSUME NEW p \in Passes, QueryUnsettled(p) PROVE ControlType'
  BY <1>h, <1>t, <1>29 DEF QueryUnsettled, At, Closed, PassOnly
<1>30. ASSUME NEW p \in Passes, ListOriginals(p) PROVE ControlType'
  <2>1. CASE Judge(p, TRUE) /\ UNCHANGED batch
    BY <1>h, <1>t, <1>30, <2>1, JudgeTyped DEF ListOriginals
  <2>2. ASSUME NEW page \in Pages(blobs), batch' = [batch EXCEPT ![p] = page],
               pc' = [pc EXCEPT ![p] = "erase originals"]
        PROVE  ControlType'
    <3>1. page \in SUBSET Rows
      BY <1>t, <2>2 DEF UploadType, Pages
    <3> QED
      BY <1>h, <1>t, <1>30, <2>2, <3>1 DEF ListOriginals
  <2> QED
    BY <1>30, <2>1, <2>2 DEF ListOriginals
<1>31. ASSUME NEW p \in Passes, EraseOriginal(p) PROVE ControlType'
  <2>1. PICK u \in batch[p]: /\ batch' = [batch EXCEPT ![p] = @ \ {u}]
                             /\ Judge(p, FALSE) \/ UNCHANGED pc
    BY <1>31 DEF EraseOriginal
  <2>2. batch[p] \ {u} \in SUBSET Rows
    BY <1>t
  <2>3. pc' \in [Actors -> Steps]
    BY <1>t, <2>1, JudgeTyped
  <2> QED
    BY <1>h, <1>t, <1>31, <2>1, <2>2, <2>3 DEF EraseOriginal
<1>32. ASSUME NEW p \in Passes, QuerySettled(p) PROVE ControlType'
  <2>1. PICK page \in Pages({u \in Uploaders: Open(u)}):
            /\ batch' = [batch EXCEPT ![p] = page]
            /\ pc' = [pc EXCEPT ![p] = IF page = {} THEN "release" ELSE "forget"]
    BY <1>32 DEF QuerySettled
  <2>2. page \in SUBSET Rows
    BY <2>1 DEF Pages
  <2> QED
    BY <1>h, <1>t, <1>32, <2>1, <2>2 DEF QuerySettled
<1>33. ASSUME NEW p \in Passes, ForgetTicket(p) PROVE ControlType'
  <2>1. PICK u \in batch[p]:
            /\ batch' = [batch EXCEPT ![p] = @ \ {u}]
            /\ pc' = [pc EXCEPT ![p] = IF batch[p] = {u} THEN "release" ELSE "forget"]
    BY <1>33 DEF ForgetTicket
  <2>2. batch[p] \ {u} \in SUBSET Rows
    BY <1>t
  <2> QED
    BY <1>h, <1>t, <1>33, <2>1, <2>2 DEF ForgetTicket
<1>34. ASSUME NEW p \in Passes, Release(p) PROVE ControlType'
  BY <1>h, <1>t, <1>34, LeaveTyped, ReportTyped DEF Release, ReleasedLease, NoLease
<1>35. ASSUME NEW p \in Passes, Report(p) PROVE ControlType'
  BY <1>h, <1>t, <1>35, LeaveTyped DEF Report, ReleasedLease, NoLease
<1>36. ASSUME NEW p \in Passes, CallFails(p) PROVE ControlType'
  BY <1>h, <1>t, <1>36, ReportTyped DEF CallFails, Working, Fault
<1>37. ASSUME NEW p \in Passes, CheckpointUnknown(p) PROVE ControlType'
  BY <1>h, <1>t, <1>37, ReportTyped DEF CheckpointUnknown, Fault, ReleasedLease, NoLease
<1>38. ASSUME NEW p \in Passes, OtherStore(p) PROVE ControlType'
  BY <1>h, <1>t, <1>38 DEF OtherStore
<1>39. CASE LeaseExpires
  BY <1>h, <1>t, <1>39 DEF LeaseExpires
<1>40. ASSUME NEW a \in Actors, Crash(a) PROVE ControlType'
  BY <1>h, <1>t, <1>40, LeaveTyped DEF Crash, Working, Fault
<1>41. CASE UNCHANGED vars
  BY <1>h, <1>t, <1>41 DEF vars
<1> QED
  BY <1>1, <1>2, <1>3, <1>4, <1>5, <1>6, <1>7, <1>8, <1>9, <1>10, <1>11, <1>12, <1>13, <1>14,
     <1>15, <1>16, <1>17, <1>18, <1>19, <1>20, <1>21, <1>22, <1>23, <1>24, <1>25, <1>26, <1>27,
     <1>28, <1>29, <1>30, <1>31, <1>32, <1>33, <1>34, <1>35, <1>36, <1>37, <1>38, <1>39, <1>40,
     <1>41 DEF Next, Create, Write, Upload, Reconcile, Faults

\* Each step keeps the fences and the rows behind them in their types.
LEMMA ChildStep == IInv /\ [Next]_vars => ChildType'
<1> SUFFICES ASSUME IInv, [Next]_vars PROVE ChildType'
  OBVIOUS
<1> USE DeletionAssumption DEF Requests, Actors, Containers, Go, deletion, partitions, uploads,
   local, Work, Rows, ChildType, FenceInv, Absent
<1>h. TypeInv /\ FenceInv
  BY DEF IInv
<1>t. ControlType /\ ChildType
  BY <1>h DEF TypeInv
<1>1. CASE Reserve
  BY <1>h, <1>t, <1>1 DEF Reserve, Others
<1>2. CASE CreateFence
  BY <1>h, <1>t, <1>2 DEF CreateFence, Leave, Gone, Others
<1>3. CASE Publish
  BY <1>h, <1>t, <1>3 DEF Publish, Leave, Gone, Others
<1>4. ASSUME NEW a \in Requests, ReadFence(a) PROVE ChildType'
  BY <1>h, <1>t, <1>4 DEF ReadFence, Leave, Gone, Others
<1>5. ASSUME NEW a \in Requests, LostRace(a) PROVE ChildType'
  BY <1>h, <1>t, <1>5 DEF LostRace, Leave, Gone, Others
<1>6. ASSUME NEW w \in Writers, BeginWrite(w) PROVE ChildType'
  BY <1>h, <1>t, <1>6 DEF BeginWrite, Access, Active, Others
<1>7. ASSUME NEW w \in Writers, WriteMessage(w) PROVE ChildType'
  BY <1>h, <1>t, <1>7 DEF WriteMessage, Fenced, Leave, Gone, Others
<1>8. ASSUME NEW w \in Writers, RemoveDocument(w) PROVE ChildType'
  BY <1>h, <1>t, <1>8 DEF RemoveDocument, Fenced, Others
<1>9. ASSUME NEW w \in Writers, PurgeOriginal(w) PROVE ChildType'
  BY <1>h, <1>t, <1>9 DEF PurgeOriginal, Leave, Gone, Others
<1>10. ASSUME NEW u \in Uploaders, BeginText(u) PROVE ChildType'
  BY <1>h, <1>t, <1>10 DEF BeginText, Access, Active, Others
<1>11. ASSUME NEW u \in Uploaders, BeginUpload(u) PROVE ChildType'
  BY <1>h, <1>t, <1>11 DEF BeginUpload, Active, Others
<1>12. ASSUME NEW u \in Uploaders, ReadTicketFence(u) PROVE ChildType'
  BY <1>h, <1>t, <1>12 DEF ReadTicketFence, Leave, Gone, Others
<1>13. ASSUME NEW u \in Uploaders, CreateTicket(u) PROVE ChildType'
  BY <1>h, <1>t, <1>13 DEF CreateTicket, Fenced, Others
<1>14. ASSUME NEW u \in Uploaders, LostTicketRace(u) PROVE ChildType'
  BY <1>h, <1>t, <1>14 DEF LostTicketRace, Leave, Gone, Others
<1>15. ASSUME NEW u \in Uploaders, StartPut(u) PROVE ChildType'
  BY <1>h, <1>t, <1>15 DEF StartPut, At, Others
<1>16. ASSUME NEW u \in Uploaders, PutLands(u) PROVE ChildType'
  BY <1>h, <1>t, <1>16 DEF PutLands, Others
<1>17. ASSUME NEW u \in Uploaders, PutReturns(u) PROVE ChildType'
  BY <1>h, <1>t, <1>17 DEF PutReturns, At, Others
<1>18. ASSUME NEW u \in Uploaders, PutFails(u) PROVE ChildType'
  BY <1>h, <1>t, <1>18 DEF PutFails, At, Others
<1>19. ASSUME NEW u \in Uploaders, Settle(u) PROVE ChildType'
  BY <1>h, <1>t, <1>19 DEF Settle, Leave, Gone, Others
<1>20. ASSUME NEW u \in Uploaders, BeginAdd(u) PROVE ChildType'
  BY <1>h, <1>t, <1>20 DEF BeginAdd, Access, Active, Others
<1>21. ASSUME NEW u \in Uploaders, AddDocument(u) PROVE ChildType'
  BY <1>h, <1>t, <1>21 DEF AddDocument, Fenced, Leave, Gone, Others
<1>22. ASSUME NEW a \in Requests, Denied(a) PROVE ChildType'
  BY <1>h, <1>t, <1>22 DEF Denied, Leave, Gone, Deleting, Others
<1>23. CASE BeginDeletion
  BY <1>h, <1>t, <1>23 DEF BeginDeletion
<1>24. ASSUME NEW p \in Passes, Claim(p) PROVE ChildType'
  BY <1>h, <1>t, <1>24 DEF Claim, Deleting, Claimable
<1>25. ASSUME NEW p \in Passes, CloseFence(p) PROVE ChildType'
  BY <1>h, <1>t, <1>25 DEF CloseFence, Closed, PassOnly
<1>26. ASSUME NEW p \in Passes, Checkpoint(p) PROVE ChildType'
  BY <1>h, <1>t, <1>26 DEF Checkpoint, AfterCheckpoint, ToReport
<1>27. ASSUME NEW p \in Passes, QueryRows(p) PROVE ChildType'
  BY <1>h, <1>t, <1>27 DEF QueryRows, Closed, Pages, Verified, Following, PassOnly
<1>28. ASSUME NEW p \in Passes, EraseRow(p) PROVE ChildType'
  BY <1>h, <1>t, <1>28 DEF EraseRow, Verified, Following, PassOnly
<1>29. ASSUME NEW p \in Passes, QueryUnsettled(p) PROVE ChildType'
  BY <1>h, <1>t, <1>29 DEF QueryUnsettled, At, Closed, PassOnly
<1>30. ASSUME NEW p \in Passes, ListOriginals(p) PROVE ChildType'
  BY <1>h, <1>t, <1>30 DEF ListOriginals, Judge, Pages, PassOnly
<1>31. ASSUME NEW p \in Passes, EraseOriginal(p) PROVE ChildType'
  BY <1>h, <1>t, <1>31 DEF EraseOriginal, Judge, PassOnly
<1>32. ASSUME NEW p \in Passes, QuerySettled(p) PROVE ChildType'
  BY <1>h, <1>t, <1>32 DEF QuerySettled, Pages, Closed, PassOnly
<1>33. ASSUME NEW p \in Passes, ForgetTicket(p) PROVE ChildType'
  BY <1>h, <1>t, <1>33 DEF ForgetTicket, PassOnly
<1>34. ASSUME NEW p \in Passes, Release(p) PROVE ChildType'
  BY <1>h, <1>t, <1>34 DEF Release, ReleasedLease, NoLease, Leave, Gone, ToReport
<1>35. ASSUME NEW p \in Passes, Report(p) PROVE ChildType'
  BY <1>h, <1>t, <1>35 DEF Report, ReleasedLease, NoLease, Leave, Gone
<1>36. ASSUME NEW p \in Passes, CallFails(p) PROVE ChildType'
  BY <1>h, <1>t, <1>36 DEF CallFails, Working, Fault, ToReport
<1>37. ASSUME NEW p \in Passes, CheckpointUnknown(p) PROVE ChildType'
  BY <1>h, <1>t, <1>37 DEF CheckpointUnknown, Fault, ReleasedLease, NoLease, ToReport
<1>38. ASSUME NEW p \in Passes, OtherStore(p) PROVE ChildType'
  BY <1>h, <1>t, <1>38 DEF OtherStore
<1>39. CASE LeaseExpires
  BY <1>h, <1>t, <1>39 DEF LeaseExpires
<1>40. ASSUME NEW a \in Actors, Crash(a) PROVE ChildType'
  BY <1>h, <1>t, <1>40 DEF Crash, Working, Fault, Leave, Gone
<1>41. CASE UNCHANGED vars
  BY <1>h, <1>t, <1>41 DEF vars
<1> QED
  BY <1>1, <1>2, <1>3, <1>4, <1>5, <1>6, <1>7, <1>8, <1>9, <1>10, <1>11, <1>12, <1>13, <1>14,
     <1>15, <1>16, <1>17, <1>18, <1>19, <1>20, <1>21, <1>22, <1>23, <1>24, <1>25, <1>26, <1>27,
     <1>28, <1>29, <1>30, <1>31, <1>32, <1>33, <1>34, <1>35, <1>36, <1>37, <1>38, <1>39, <1>40,
     <1>41 DEF Next, Create, Write, Upload, Reconcile, Faults

\* Each step keeps the parent, the tickets, the PUTs and the originals in their types.
LEMMA UploadStep == IInv /\ [Next]_vars => UploadType'
<1> SUFFICES ASSUME IInv, [Next]_vars PROVE UploadType'
  OBVIOUS
<1> USE DeletionAssumption DEF Requests, Actors, Containers, Go, deletion, partitions, uploads,
   local, Work, Rows, UploadType, Absent
<1>h. TypeInv
  BY DEF IInv
<1>t. ControlType /\ UploadType
  BY <1>h DEF TypeInv
<1>1. CASE Reserve
  BY <1>h, <1>t, <1>1 DEF Reserve, Others
<1>2. CASE CreateFence
  BY <1>h, <1>t, <1>2 DEF CreateFence, Leave, Gone, Others
<1>3. CASE Publish
  BY <1>h, <1>t, <1>3 DEF Publish, Leave, Gone, Others
<1>4. ASSUME NEW a \in Requests, ReadFence(a) PROVE UploadType'
  BY <1>h, <1>t, <1>4 DEF ReadFence, Leave, Gone, Others
<1>5. ASSUME NEW a \in Requests, LostRace(a) PROVE UploadType'
  BY <1>h, <1>t, <1>5 DEF LostRace, Leave, Gone, Others
<1>6. ASSUME NEW w \in Writers, BeginWrite(w) PROVE UploadType'
  BY <1>h, <1>t, <1>6 DEF BeginWrite, Access, Active, Others
<1>7. ASSUME NEW w \in Writers, WriteMessage(w) PROVE UploadType'
  BY <1>h, <1>t, <1>7 DEF WriteMessage, Fenced, Leave, Gone, Others
<1>8. ASSUME NEW w \in Writers, RemoveDocument(w) PROVE UploadType'
  BY <1>h, <1>t, <1>8 DEF RemoveDocument, Fenced, Others
<1>9. ASSUME NEW w \in Writers, PurgeOriginal(w) PROVE UploadType'
  BY <1>h, <1>t, <1>9 DEF PurgeOriginal, Leave, Gone, Others
<1>10. ASSUME NEW u \in Uploaders, BeginText(u) PROVE UploadType'
  BY <1>h, <1>t, <1>10 DEF BeginText, Access, Active, Others
<1>11. ASSUME NEW u \in Uploaders, BeginUpload(u) PROVE UploadType'
  BY <1>h, <1>t, <1>11 DEF BeginUpload, Active, Others
<1>12. ASSUME NEW u \in Uploaders, ReadTicketFence(u) PROVE UploadType'
  BY <1>h, <1>t, <1>12 DEF ReadTicketFence, Leave, Gone, Others
<1>13. ASSUME NEW u \in Uploaders, CreateTicket(u) PROVE UploadType'
  BY <1>h, <1>t, <1>13 DEF CreateTicket, Fenced, Others
<1>14. ASSUME NEW u \in Uploaders, LostTicketRace(u) PROVE UploadType'
  BY <1>h, <1>t, <1>14 DEF LostTicketRace, Leave, Gone, Others
<1>15. ASSUME NEW u \in Uploaders, StartPut(u) PROVE UploadType'
  BY <1>h, <1>t, <1>15 DEF StartPut, At, Others
<1>16. ASSUME NEW u \in Uploaders, PutLands(u) PROVE UploadType'
  BY <1>h, <1>t, <1>16 DEF PutLands, Others
<1>17. ASSUME NEW u \in Uploaders, PutReturns(u) PROVE UploadType'
  BY <1>h, <1>t, <1>17 DEF PutReturns, At, Others
<1>18. ASSUME NEW u \in Uploaders, PutFails(u) PROVE UploadType'
  BY <1>h, <1>t, <1>18 DEF PutFails, At, Others
<1>19. ASSUME NEW u \in Uploaders, Settle(u) PROVE UploadType'
  BY <1>h, <1>t, <1>19 DEF Settle, Leave, Gone, Others
<1>20. ASSUME NEW u \in Uploaders, BeginAdd(u) PROVE UploadType'
  BY <1>h, <1>t, <1>20 DEF BeginAdd, Access, Active, Others
<1>21. ASSUME NEW u \in Uploaders, AddDocument(u) PROVE UploadType'
  BY <1>h, <1>t, <1>21 DEF AddDocument, Fenced, Leave, Gone, Others
<1>22. ASSUME NEW a \in Requests, Denied(a) PROVE UploadType'
  BY <1>h, <1>t, <1>22 DEF Denied, Leave, Gone, Deleting, Others
<1>23. CASE BeginDeletion
  BY <1>h, <1>t, <1>23 DEF BeginDeletion
<1>24. ASSUME NEW p \in Passes, Claim(p) PROVE UploadType'
  BY <1>h, <1>t, <1>24 DEF Claim, Deleting, Claimable
<1>25. ASSUME NEW p \in Passes, CloseFence(p) PROVE UploadType'
  BY <1>h, <1>t, <1>25 DEF CloseFence, Closed, PassOnly
<1>26. ASSUME NEW p \in Passes, Checkpoint(p) PROVE UploadType'
  BY <1>h, <1>t, <1>26 DEF Checkpoint, AfterCheckpoint, ToReport
<1>27. ASSUME NEW p \in Passes, QueryRows(p) PROVE UploadType'
  BY <1>h, <1>t, <1>27 DEF QueryRows, Closed, Verified, Following, PassOnly
<1>28. ASSUME NEW p \in Passes, EraseRow(p) PROVE UploadType'
  BY <1>h, <1>t, <1>28 DEF EraseRow, Verified, Following, PassOnly
<1>29. ASSUME NEW p \in Passes, QueryUnsettled(p) PROVE UploadType'
  BY <1>h, <1>t, <1>29 DEF QueryUnsettled, At, Closed, PassOnly
<1>30. ASSUME NEW p \in Passes, ListOriginals(p) PROVE UploadType'
  BY <1>h, <1>t, <1>30 DEF ListOriginals, Judge, PassOnly
<1>31. ASSUME NEW p \in Passes, EraseOriginal(p) PROVE UploadType'
  BY <1>h, <1>t, <1>31 DEF EraseOriginal, Judge, PassOnly
<1>32. ASSUME NEW p \in Passes, QuerySettled(p) PROVE UploadType'
  BY <1>h, <1>t, <1>32 DEF QuerySettled, Closed, PassOnly
<1>33. ASSUME NEW p \in Passes, ForgetTicket(p) PROVE UploadType'
  BY <1>h, <1>t, <1>33 DEF ForgetTicket, PassOnly
<1>34. ASSUME NEW p \in Passes, Release(p) PROVE UploadType'
  BY <1>h, <1>t, <1>34 DEF Release, ReleasedLease, NoLease, Leave, Gone, ToReport
<1>35. ASSUME NEW p \in Passes, Report(p) PROVE UploadType'
  BY <1>h, <1>t, <1>35 DEF Report, ReleasedLease, NoLease, Leave, Gone
<1>36. ASSUME NEW p \in Passes, CallFails(p) PROVE UploadType'
  BY <1>h, <1>t, <1>36 DEF CallFails, Working, Fault, ToReport
<1>37. ASSUME NEW p \in Passes, CheckpointUnknown(p) PROVE UploadType'
  BY <1>h, <1>t, <1>37 DEF CheckpointUnknown, Fault, ReleasedLease, NoLease, ToReport
<1>38. ASSUME NEW p \in Passes, OtherStore(p) PROVE UploadType'
  BY <1>h, <1>t, <1>38 DEF OtherStore
<1>39. CASE LeaseExpires
  BY <1>h, <1>t, <1>39 DEF LeaseExpires
<1>40. ASSUME NEW a \in Actors, Crash(a) PROVE UploadType'
  BY <1>h, <1>t, <1>40 DEF Crash, Working, Fault, Leave, Gone
<1>41. CASE UNCHANGED vars
  BY <1>h, <1>t, <1>41 DEF vars
<1> QED
  BY <1>1, <1>2, <1>3, <1>4, <1>5, <1>6, <1>7, <1>8, <1>9, <1>10, <1>11, <1>12, <1>13, <1>14,
     <1>15, <1>16, <1>17, <1>18, <1>19, <1>20, <1>21, <1>22, <1>23, <1>24, <1>25, <1>26, <1>27,
     <1>28, <1>29, <1>30, <1>31, <1>32, <1>33, <1>34, <1>35, <1>36, <1>37, <1>38, <1>39, <1>40,
     <1>41 DEF Next, Create, Write, Upload, Reconcile, Faults

\* Each step keeps the tombstone's status and those in hand in their type.
LEMMA StatusStep == IInv /\ [Next]_vars => StatusType'
<1> SUFFICES ASSUME IInv, [Next]_vars PROVE StatusType'
  OBVIOUS
<1> USE DeletionAssumption DEF Requests, Actors, Containers, Go, deletion, partitions, uploads,
   local, Work, StatusType
<1>h. TypeInv
  BY DEF IInv
<1>t. ControlType /\ StatusType /\ NewStatus \in Status
  BY <1>h DEF TypeInv, NewStatus, Status
<1>1. CASE Reserve
  BY <1>h, <1>t, <1>1 DEF Reserve, Others
<1>2. CASE CreateFence
  BY <1>h, <1>t, <1>2, LeaveTyped DEF CreateFence, Others
<1>3. CASE Publish
  BY <1>h, <1>t, <1>3, LeaveTyped DEF Publish, Others
<1>4. ASSUME NEW a \in Requests, ReadFence(a) PROVE StatusType'
  BY <1>h, <1>t, <1>4, LeaveTyped DEF ReadFence, Others
<1>5. ASSUME NEW a \in Requests, LostRace(a) PROVE StatusType'
  BY <1>h, <1>t, <1>5, LeaveTyped DEF LostRace, Others
<1>6. ASSUME NEW w \in Writers, BeginWrite(w) PROVE StatusType'
  BY <1>h, <1>t, <1>6 DEF BeginWrite, Access, Active, Others
<1>7. ASSUME NEW w \in Writers, WriteMessage(w) PROVE StatusType'
  BY <1>h, <1>t, <1>7, LeaveTyped DEF WriteMessage, Fenced, Others
<1>8. ASSUME NEW w \in Writers, RemoveDocument(w) PROVE StatusType'
  BY <1>h, <1>t, <1>8 DEF RemoveDocument, Fenced, Others
<1>9. ASSUME NEW w \in Writers, PurgeOriginal(w) PROVE StatusType'
  BY <1>h, <1>t, <1>9, LeaveTyped DEF PurgeOriginal, Others
<1>10. ASSUME NEW u \in Uploaders, BeginText(u) PROVE StatusType'
  BY <1>h, <1>t, <1>10 DEF BeginText, Access, Active, Others
<1>11. ASSUME NEW u \in Uploaders, BeginUpload(u) PROVE StatusType'
  BY <1>h, <1>t, <1>11 DEF BeginUpload, Active, Others
<1>12. ASSUME NEW u \in Uploaders, ReadTicketFence(u) PROVE StatusType'
  BY <1>h, <1>t, <1>12, LeaveTyped DEF ReadTicketFence, Others
<1>13. ASSUME NEW u \in Uploaders, CreateTicket(u) PROVE StatusType'
  BY <1>h, <1>t, <1>13 DEF CreateTicket, Fenced, Others
<1>14. ASSUME NEW u \in Uploaders, LostTicketRace(u) PROVE StatusType'
  BY <1>h, <1>t, <1>14, LeaveTyped DEF LostTicketRace, Others
<1>15. ASSUME NEW u \in Uploaders, StartPut(u) PROVE StatusType'
  BY <1>h, <1>t, <1>15 DEF StartPut, At, Others
<1>16. ASSUME NEW u \in Uploaders, PutLands(u) PROVE StatusType'
  BY <1>h, <1>t, <1>16 DEF PutLands, Others
<1>17. ASSUME NEW u \in Uploaders, PutReturns(u) PROVE StatusType'
  BY <1>h, <1>t, <1>17 DEF PutReturns, At, Others
<1>18. ASSUME NEW u \in Uploaders, PutFails(u) PROVE StatusType'
  BY <1>h, <1>t, <1>18 DEF PutFails, At, Others
<1>19. ASSUME NEW u \in Uploaders, Settle(u) PROVE StatusType'
  BY <1>h, <1>t, <1>19, LeaveTyped DEF Settle, Others
<1>20. ASSUME NEW u \in Uploaders, BeginAdd(u) PROVE StatusType'
  BY <1>h, <1>t, <1>20 DEF BeginAdd, Access, Active, Others
<1>21. ASSUME NEW u \in Uploaders, AddDocument(u) PROVE StatusType'
  BY <1>h, <1>t, <1>21, LeaveTyped DEF AddDocument, Fenced, Others
<1>22. ASSUME NEW a \in Requests, Denied(a) PROVE StatusType'
  BY <1>h, <1>t, <1>22, LeaveTyped DEF Denied, Deleting, Others
<1>23. CASE BeginDeletion
  BY <1>h, <1>t, <1>23 DEF BeginDeletion
<1>24. ASSUME NEW p \in Passes, Claim(p) PROVE StatusType'
  BY <1>h, <1>t, <1>24 DEF Claim, Deleting, Claimable, Status
<1>25. ASSUME NEW p \in Passes, CloseFence(p) PROVE StatusType'
  BY <1>h, <1>t, <1>25 DEF CloseFence, Closed, PassOnly
<1>26. ASSUME NEW p \in Passes, Checkpoint(p) PROVE StatusType'
  BY <1>h, <1>t, <1>26, ReportTyped DEF Checkpoint, AfterCheckpoint
<1>27. ASSUME NEW p \in Passes, QueryRows(p) PROVE StatusType'
  BY <1>h, <1>t, <1>27, VerifiedTyped DEF QueryRows, Closed, Following, PassOnly
<1>28. ASSUME NEW p \in Passes, EraseRow(p) PROVE StatusType'
  BY <1>h, <1>t, <1>28, VerifiedTyped DEF EraseRow, Following, PassOnly
<1>29. ASSUME NEW p \in Passes, QueryUnsettled(p) PROVE StatusType'
  BY <1>h, <1>t, <1>29 DEF QueryUnsettled, At, Closed, PassOnly
<1>30. ASSUME NEW p \in Passes, ListOriginals(p) PROVE StatusType'
  BY <1>h, <1>t, <1>30, JudgeTyped DEF ListOriginals, PassOnly
<1>31. ASSUME NEW p \in Passes, EraseOriginal(p) PROVE StatusType'
  BY <1>h, <1>t, <1>31, JudgeTyped DEF EraseOriginal, PassOnly
<1>32. ASSUME NEW p \in Passes, QuerySettled(p) PROVE StatusType'
  BY <1>h, <1>t, <1>32 DEF QuerySettled, Closed, PassOnly, Status
<1>33. ASSUME NEW p \in Passes, ForgetTicket(p) PROVE StatusType'
  BY <1>h, <1>t, <1>33 DEF ForgetTicket, PassOnly
<1>34. ASSUME NEW p \in Passes, Release(p) PROVE StatusType'
  BY <1>h, <1>t, <1>34, LeaveTyped, ReportTyped DEF Release, ReleasedLease, NoLease
<1>35. ASSUME NEW p \in Passes, Report(p) PROVE StatusType'
  BY <1>h, <1>t, <1>35, LeaveTyped DEF Report, ReleasedLease, NoLease
<1>36. ASSUME NEW p \in Passes, CallFails(p) PROVE StatusType'
  BY <1>h, <1>t, <1>36, ReportTyped DEF CallFails, Working, Fault
<1>37. ASSUME NEW p \in Passes, CheckpointUnknown(p) PROVE StatusType'
  BY <1>h, <1>t, <1>37, ReportTyped DEF CheckpointUnknown, Fault, ReleasedLease, NoLease
<1>38. ASSUME NEW p \in Passes, OtherStore(p) PROVE StatusType'
  BY <1>h, <1>t, <1>38 DEF OtherStore, Status
<1>39. CASE LeaseExpires
  BY <1>h, <1>t, <1>39 DEF LeaseExpires
<1>40. ASSUME NEW a \in Actors, Crash(a) PROVE StatusType'
  BY <1>h, <1>t, <1>40, LeaveTyped DEF Crash, Working, Fault
<1>41. CASE UNCHANGED vars
  BY <1>h, <1>t, <1>41 DEF vars
<1> QED
  BY <1>1, <1>2, <1>3, <1>4, <1>5, <1>6, <1>7, <1>8, <1>9, <1>10, <1>11, <1>12, <1>13, <1>14,
     <1>15, <1>16, <1>17, <1>18, <1>19, <1>20, <1>21, <1>22, <1>23, <1>24, <1>25, <1>26, <1>27,
     <1>28, <1>29, <1>30, <1>31, <1>32, <1>33, <1>34, <1>35, <1>36, <1>37, <1>38, <1>39, <1>40,
     <1>41 DEF Next, Create, Write, Upload, Reconcile, Faults

\* Each step keeps the lease in its type, and its holder the one it names.
LEMMA LeaseStep == IInv /\ [Next]_vars => LeaseType'
<1> SUFFICES ASSUME IInv, [Next]_vars PROVE LeaseType'
  OBVIOUS
<1> USE DeletionAssumption DEF Requests, Actors, Containers, Go, deletion, partitions, uploads,
   local, Work, LeaseType
<1>h. TypeInv
  BY DEF IInv
<1>t. ControlType /\ LeaseType
  BY <1>h DEF TypeInv
<1>1. CASE Reserve
  BY <1>h, <1>t, <1>1 DEF Reserve, Others
<1>2. CASE CreateFence
  BY <1>h, <1>t, <1>2 DEF CreateFence, Others
<1>3. CASE Publish
  BY <1>h, <1>t, <1>3 DEF Publish, Others
<1>4. ASSUME NEW a \in Requests, ReadFence(a) PROVE LeaseType'
  BY <1>h, <1>t, <1>4 DEF ReadFence, Others
<1>5. ASSUME NEW a \in Requests, LostRace(a) PROVE LeaseType'
  BY <1>h, <1>t, <1>5 DEF LostRace, Others
<1>6. ASSUME NEW w \in Writers, BeginWrite(w) PROVE LeaseType'
  BY <1>h, <1>t, <1>6 DEF BeginWrite, Access, Active, Others
<1>7. ASSUME NEW w \in Writers, WriteMessage(w) PROVE LeaseType'
  BY <1>h, <1>t, <1>7 DEF WriteMessage, Fenced, Others
<1>8. ASSUME NEW w \in Writers, RemoveDocument(w) PROVE LeaseType'
  BY <1>h, <1>t, <1>8 DEF RemoveDocument, Fenced, Others
<1>9. ASSUME NEW w \in Writers, PurgeOriginal(w) PROVE LeaseType'
  BY <1>h, <1>t, <1>9 DEF PurgeOriginal, Others
<1>10. ASSUME NEW u \in Uploaders, BeginText(u) PROVE LeaseType'
  BY <1>h, <1>t, <1>10 DEF BeginText, Access, Active, Others
<1>11. ASSUME NEW u \in Uploaders, BeginUpload(u) PROVE LeaseType'
  BY <1>h, <1>t, <1>11 DEF BeginUpload, Active, Others
<1>12. ASSUME NEW u \in Uploaders, ReadTicketFence(u) PROVE LeaseType'
  BY <1>h, <1>t, <1>12 DEF ReadTicketFence, Others
<1>13. ASSUME NEW u \in Uploaders, CreateTicket(u) PROVE LeaseType'
  BY <1>h, <1>t, <1>13 DEF CreateTicket, Fenced, Others
<1>14. ASSUME NEW u \in Uploaders, LostTicketRace(u) PROVE LeaseType'
  BY <1>h, <1>t, <1>14 DEF LostTicketRace, Others
<1>15. ASSUME NEW u \in Uploaders, StartPut(u) PROVE LeaseType'
  BY <1>h, <1>t, <1>15 DEF StartPut, At, Others
<1>16. ASSUME NEW u \in Uploaders, PutLands(u) PROVE LeaseType'
  BY <1>h, <1>t, <1>16 DEF PutLands, Others
<1>17. ASSUME NEW u \in Uploaders, PutReturns(u) PROVE LeaseType'
  BY <1>h, <1>t, <1>17 DEF PutReturns, At, Others
<1>18. ASSUME NEW u \in Uploaders, PutFails(u) PROVE LeaseType'
  BY <1>h, <1>t, <1>18 DEF PutFails, At, Others
<1>19. ASSUME NEW u \in Uploaders, Settle(u) PROVE LeaseType'
  BY <1>h, <1>t, <1>19 DEF Settle, Others
<1>20. ASSUME NEW u \in Uploaders, BeginAdd(u) PROVE LeaseType'
  BY <1>h, <1>t, <1>20 DEF BeginAdd, Access, Active, Others
<1>21. ASSUME NEW u \in Uploaders, AddDocument(u) PROVE LeaseType'
  BY <1>h, <1>t, <1>21 DEF AddDocument, Fenced, Others
<1>22. ASSUME NEW a \in Requests, Denied(a) PROVE LeaseType'
  BY <1>h, <1>t, <1>22 DEF Denied, Deleting, Others
<1>23. CASE BeginDeletion
  BY <1>h, <1>t, <1>23 DEF BeginDeletion
<1>24. ASSUME NEW p \in Passes, Claim(p) PROVE LeaseType'
  BY <1>h, <1>t, <1>24 DEF Claim, Deleting, Claimable
<1>25. ASSUME NEW p \in Passes, CloseFence(p) PROVE LeaseType'
  BY <1>h, <1>t, <1>25 DEF CloseFence, Closed, PassOnly
<1>26. ASSUME NEW p \in Passes, Checkpoint(p) PROVE LeaseType'
  BY <1>h, <1>t, <1>26 DEF Checkpoint, AfterCheckpoint
<1>27. ASSUME NEW p \in Passes, QueryRows(p) PROVE LeaseType'
  BY <1>h, <1>t, <1>27 DEF QueryRows, Closed, Verified, Following, PassOnly
<1>28. ASSUME NEW p \in Passes, EraseRow(p) PROVE LeaseType'
  BY <1>h, <1>t, <1>28 DEF EraseRow, Verified, Following, PassOnly
<1>29. ASSUME NEW p \in Passes, QueryUnsettled(p) PROVE LeaseType'
  BY <1>h, <1>t, <1>29 DEF QueryUnsettled, At, Closed, PassOnly
<1>30. ASSUME NEW p \in Passes, ListOriginals(p) PROVE LeaseType'
  BY <1>h, <1>t, <1>30 DEF ListOriginals, Judge, PassOnly
<1>31. ASSUME NEW p \in Passes, EraseOriginal(p) PROVE LeaseType'
  BY <1>h, <1>t, <1>31 DEF EraseOriginal, Judge, PassOnly
<1>32. ASSUME NEW p \in Passes, QuerySettled(p) PROVE LeaseType'
  BY <1>h, <1>t, <1>32 DEF QuerySettled, Closed, PassOnly
<1>33. ASSUME NEW p \in Passes, ForgetTicket(p) PROVE LeaseType'
  BY <1>h, <1>t, <1>33 DEF ForgetTicket, PassOnly
<1>34. ASSUME NEW p \in Passes, Release(p) PROVE LeaseType'
  <2>1. CASE holder = p
    <3>1. lease' = NoLease /\ holder' = None
      BY <1>34, <2>1 DEF Release, ReleasedLease
    <3>2. NoLease \in [token: Passes \cup {None}, live: BOOLEAN] /\ NoLease.live = FALSE
          /\ NoLease.token = None
      BY DEF NoLease
    <3> QED
      BY <3>1, <3>2
  <2>2. CASE holder # p
    BY <1>h, <1>t, <1>34, <2>2 DEF Release
  <2> QED
    BY <2>1, <2>2
<1>35. ASSUME NEW p \in Passes, Report(p) PROVE LeaseType'
  <2>1. CASE holder = p
    <3>1. lease' = NoLease /\ holder' = None
      BY <1>35, <2>1 DEF Report, ReleasedLease
    <3>2. NoLease \in [token: Passes \cup {None}, live: BOOLEAN] /\ NoLease.live = FALSE
          /\ NoLease.token = None
      BY DEF NoLease
    <3> QED
      BY <3>1, <3>2
  <2>2. CASE holder # p
    BY <1>h, <1>t, <1>35, <2>2 DEF Report
  <2> QED
    BY <2>1, <2>2
<1>36. ASSUME NEW p \in Passes, CallFails(p) PROVE LeaseType'
  BY <1>h, <1>t, <1>36 DEF CallFails, Working, Fault
<1>37. ASSUME NEW p \in Passes, CheckpointUnknown(p) PROVE LeaseType'
  BY <1>h, <1>t, <1>37 DEF CheckpointUnknown, Fault, ReleasedLease, NoLease
<1>38. ASSUME NEW p \in Passes, OtherStore(p) PROVE LeaseType'
  BY <1>h, <1>t, <1>38 DEF OtherStore
<1>39. CASE LeaseExpires
  BY <1>h, <1>t, <1>39 DEF LeaseExpires
<1>40. ASSUME NEW a \in Actors, Crash(a) PROVE LeaseType'
  BY <1>h, <1>t, <1>40 DEF Crash, Working, Fault
<1>41. CASE UNCHANGED vars
  BY <1>h, <1>t, <1>41 DEF vars
<1> QED
  BY <1>1, <1>2, <1>3, <1>4, <1>5, <1>6, <1>7, <1>8, <1>9, <1>10, <1>11, <1>12, <1>13, <1>14,
     <1>15, <1>16, <1>17, <1>18, <1>19, <1>20, <1>21, <1>22, <1>23, <1>24, <1>25, <1>26, <1>27,
     <1>28, <1>29, <1>30, <1>31, <1>32, <1>33, <1>34, <1>35, <1>36, <1>37, <1>38, <1>39, <1>40,
     <1>41 DEF Next, Create, Write, Upload, Reconcile, Faults

\* Passes come with the deletion, requests with the reservation.
LEMMA StartStep == IInv /\ [Next]_vars => StartInv'
<1> SUFFICES ASSUME IInv, [Next]_vars PROVE StartInv'
  OBVIOUS
<1> USE DeletionAssumption DEF Requests, Actors, Go, StartInv, Deleting, Absent, deletion,
   partitions, uploads, local, Work
<1>h. StartInv /\ TypeInv
  BY DEF IInv
<1>t. /\ pc \in [Actors -> Steps]
      /\ tickets \in [Uploaders -> {Absent, "unsettled", "settled", "forgotten"}]
      /\ session \in [kind: {Absent, "initializing", "active", "tombstone"}, required: BOOLEAN]
  BY <1>h DEF TypeInv, ControlType, ChildType, UploadType, StatusType, LeaseType
<1>1. CASE Reserve
  BY <1>h, <1>t, <1>1 DEF Reserve, Others
<1>2. CASE CreateFence
  BY <1>h, <1>t, <1>2 DEF CreateFence, Leave, Gone, Others
<1>3. CASE Publish
  BY <1>h, <1>t, <1>3 DEF Publish, Leave, Gone, Others
<1>4. ASSUME NEW a \in Requests, ReadFence(a) PROVE StartInv'
  BY <1>h, <1>t, <1>4 DEF ReadFence, Leave, Gone, Others
<1>5. ASSUME NEW a \in Requests, LostRace(a) PROVE StartInv'
  BY <1>h, <1>t, <1>5 DEF LostRace, Leave, Gone, Others
<1>6. ASSUME NEW w \in Writers, BeginWrite(w) PROVE StartInv'
  BY <1>h, <1>t, <1>6 DEF BeginWrite, Access, Active, Others
<1>7. ASSUME NEW w \in Writers, WriteMessage(w) PROVE StartInv'
  BY <1>h, <1>t, <1>7 DEF WriteMessage, Fenced, Leave, Gone, Others
<1>8. ASSUME NEW w \in Writers, RemoveDocument(w) PROVE StartInv'
  BY <1>h, <1>t, <1>8 DEF RemoveDocument, Fenced, Others
<1>9. ASSUME NEW w \in Writers, PurgeOriginal(w) PROVE StartInv'
  BY <1>h, <1>t, <1>9 DEF PurgeOriginal, Leave, Gone, Others
<1>10. ASSUME NEW u \in Uploaders, BeginText(u) PROVE StartInv'
  BY <1>h, <1>t, <1>10 DEF BeginText, Access, Active, Others
<1>11. ASSUME NEW u \in Uploaders, BeginUpload(u) PROVE StartInv'
  BY <1>h, <1>t, <1>11 DEF BeginUpload, Active, Others
<1>12. ASSUME NEW u \in Uploaders, ReadTicketFence(u) PROVE StartInv'
  BY <1>h, <1>t, <1>12 DEF ReadTicketFence, Leave, Gone, Others
<1>13. ASSUME NEW u \in Uploaders, CreateTicket(u) PROVE StartInv'
  BY <1>h, <1>t, <1>13 DEF CreateTicket, Fenced, Others
<1>14. ASSUME NEW u \in Uploaders, LostTicketRace(u) PROVE StartInv'
  BY <1>h, <1>t, <1>14 DEF LostTicketRace, Leave, Gone, Others
<1>15. ASSUME NEW u \in Uploaders, StartPut(u) PROVE StartInv'
  BY <1>h, <1>t, <1>15 DEF StartPut, At, Others
<1>16. ASSUME NEW u \in Uploaders, PutLands(u) PROVE StartInv'
  BY <1>h, <1>t, <1>16 DEF PutLands, Others
<1>17. ASSUME NEW u \in Uploaders, PutReturns(u) PROVE StartInv'
  BY <1>h, <1>t, <1>17 DEF PutReturns, At, Others
<1>18. ASSUME NEW u \in Uploaders, PutFails(u) PROVE StartInv'
  BY <1>h, <1>t, <1>18 DEF PutFails, At, Others
<1>19. ASSUME NEW u \in Uploaders, Settle(u) PROVE StartInv'
  BY <1>h, <1>t, <1>19 DEF Settle, Leave, Gone, Others
<1>20. ASSUME NEW u \in Uploaders, BeginAdd(u) PROVE StartInv'
  BY <1>h, <1>t, <1>20 DEF BeginAdd, Access, Active, Others
<1>21. ASSUME NEW u \in Uploaders, AddDocument(u) PROVE StartInv'
  BY <1>h, <1>t, <1>21 DEF AddDocument, Fenced, Leave, Gone, Others
<1>22. ASSUME NEW a \in Requests, Denied(a) PROVE StartInv'
  BY <1>h, <1>t, <1>22 DEF Denied, Leave, Gone, Deleting, Others
<1>23. CASE BeginDeletion
  BY <1>h, <1>t, <1>23 DEF BeginDeletion
<1>24. ASSUME NEW p \in Passes, Claim(p) PROVE StartInv'
  BY <1>h, <1>t, <1>24 DEF Claim, Deleting, Claimable
<1>25. ASSUME NEW p \in Passes, CloseFence(p) PROVE StartInv'
  BY <1>h, <1>t, <1>25 DEF CloseFence, Closed, PassOnly
<1>26. ASSUME NEW p \in Passes, Checkpoint(p) PROVE StartInv'
  BY <1>h, <1>t, <1>26 DEF Checkpoint, AfterCheckpoint, ToReport
<1>27. ASSUME NEW p \in Passes, QueryRows(p) PROVE StartInv'
  BY <1>h, <1>t, <1>27 DEF QueryRows, Closed, Verified, Following, PassOnly
<1>28. ASSUME NEW p \in Passes, EraseRow(p) PROVE StartInv'
  BY <1>h, <1>t, <1>28 DEF EraseRow, Verified, Following, PassOnly
<1>29. ASSUME NEW p \in Passes, QueryUnsettled(p) PROVE StartInv'
  BY <1>h, <1>t, <1>29 DEF QueryUnsettled, At, Closed, PassOnly
<1>30. ASSUME NEW p \in Passes, ListOriginals(p) PROVE StartInv'
  BY ZenonT(40), <1>h, <1>t, <1>30 DEF ListOriginals, Judge, PassOnly
<1>31. ASSUME NEW p \in Passes, EraseOriginal(p) PROVE StartInv'
  BY <1>h, <1>t, <1>31 DEF EraseOriginal, Judge, PassOnly
<1>32. ASSUME NEW p \in Passes, QuerySettled(p) PROVE StartInv'
  BY <1>h, <1>t, <1>32 DEF QuerySettled, Closed, PassOnly
<1>33. ASSUME NEW p \in Passes, ForgetTicket(p) PROVE StartInv'
  BY <1>h, <1>t, <1>33 DEF ForgetTicket, PassOnly
<1>34. ASSUME NEW p \in Passes, Release(p) PROVE StartInv'
  BY <1>h, <1>t, <1>34 DEF Release, ReleasedLease, NoLease, Leave, Gone, ToReport
<1>35. ASSUME NEW p \in Passes, Report(p) PROVE StartInv'
  BY <1>h, <1>t, <1>35 DEF Report, ReleasedLease, NoLease, Leave, Gone
<1>36. ASSUME NEW p \in Passes, CallFails(p) PROVE StartInv'
  BY <1>h, <1>t, <1>36 DEF CallFails, Working, Fault, ToReport
<1>37. ASSUME NEW p \in Passes, CheckpointUnknown(p) PROVE StartInv'
  BY <1>h, <1>t, <1>37 DEF CheckpointUnknown, Fault, ReleasedLease, NoLease, ToReport
<1>38. ASSUME NEW p \in Passes, OtherStore(p) PROVE StartInv'
  BY <1>h, <1>t, <1>38 DEF OtherStore
<1>39. CASE LeaseExpires
  BY <1>h, <1>t, <1>39 DEF LeaseExpires
<1>40. ASSUME NEW a \in Actors, Crash(a) PROVE StartInv'
  BY <1>h, <1>t, <1>40 DEF Crash, Working, Fault, Leave, Gone
<1>41. CASE UNCHANGED vars
  BY <1>h, <1>t, <1>41 DEF vars
<1> QED
  BY <1>1, <1>2, <1>3, <1>4, <1>5, <1>6, <1>7, <1>8, <1>9, <1>10, <1>11, <1>12, <1>13, <1>14,
     <1>15, <1>16, <1>17, <1>18, <1>19, <1>20, <1>21, <1>22, <1>23, <1>24, <1>25, <1>26, <1>27,
     <1>28, <1>29, <1>30, <1>31, <1>32, <1>33, <1>34, <1>35, <1>36, <1>37, <1>38, <1>39, <1>40,
     <1>41 DEF Next, Create, Write, Upload, Reconcile, Faults

\* A copy of a fence that is still the stored one is of an open fence, and what a pass
\* has closed stays closed.
LEMMA FenceStep == IInv /\ [Next]_vars => FenceInv'
<1> SUFFICES ASSUME IInv, [Next]_vars PROVE FenceInv'
  OBVIOUS
<1> USE DeletionAssumption DEF Requests, Actors, Containers, Go, FenceInv, Behind, Absent,
   deletion, partitions, uploads, local, Work
<1>h. FenceInv /\ TypeInv
  BY DEF IInv
<1>t. /\ pc \in [Actors -> Steps]
      /\ fence \in [Containers -> {Absent, "open", "closed"}]
      /\ fresh \in [Containers -> SUBSET Requests]
      /\ on \in [Actors -> Containers \cup {"attachments"}]
  BY <1>h DEF TypeInv, ControlType, ChildType, UploadType, StatusType, LeaseType
<1>1. CASE Reserve
  BY <1>h, <1>t, <1>1 DEF Reserve, Others
<1>2. CASE CreateFence
  <2>1. \A q \in Passes: pc'[q] = pc[q] /\ on'[q] = on[q]
    BY <1>t, <1>2 DEF CreateFence, Leave, Gone
  <2>2. on'[Creator] \in Containers
    BY <1>h, <1>t, <1>2 DEF CreateFence, Leave, Gone
  <2>3. /\ fresh' = fresh
        /\ \/ fence' = fence
           \/ /\ fence[on[Creator]] = Absent
              /\ fence' = [fence EXCEPT ![on[Creator]] = "open"]
    BY <1>2 DEF CreateFence, Leave, Gone
  <2>4. \A c \in Containers: fence'[c] = fence[c] \/ (fence[c] = Absent /\ fence'[c] = "open")
    BY <1>t, <2>3
  <2> QED
    BY <1>h, <2>1, <2>2, <2>3, <2>4
<1>3. CASE Publish
  BY <1>h, <1>t, <1>3 DEF Publish, Leave, Gone, Others
<1>4. ASSUME NEW a \in Requests, ReadFence(a) PROVE FenceInv'
  <2>1. \A q \in Passes: pc'[q] = pc[q] /\ on'[q] = on[q]
    BY <1>t, <1>4 DEF ReadFence, Leave, Gone
  <2>2. on'[Creator] \in Containers
    BY <1>h, <1>t, <1>4 DEF ReadFence, Leave, Gone
  <2>3. \A c \in Containers: /\ fresh'[c] # {} => fence'[c] = "open"
                             /\ fence[c] = "closed" => fence'[c] = "closed"
    BY <1>h, <1>t, <1>4 DEF ReadFence, Leave, Gone
  <2> QED
    BY <1>h, <2>1, <2>2, <2>3
<1>5. ASSUME NEW a \in Requests, LostRace(a) PROVE FenceInv'
  BY ZenonT(40), <1>h, <1>t, <1>5 DEF LostRace, Leave, Gone, Others
<1>6. ASSUME NEW w \in Writers, BeginWrite(w) PROVE FenceInv'
  <2>1. \A q \in Passes: pc'[q] = pc[q] /\ on'[q] = on[q]
    BY <1>t, <1>6 DEF BeginWrite, Access
  <2>2. on'[Creator] \in Containers
    BY <1>h, <1>t, <1>6 DEF BeginWrite, Access
  <2>3. \A c \in Containers: /\ fresh'[c] # {} => fence'[c] = "open"
                             /\ fence[c] = "closed" => fence'[c] = "closed"
    BY <1>h, <1>t, <1>6 DEF BeginWrite, Access
  <2> QED
    BY <1>h, <2>1, <2>2, <2>3
<1>7. ASSUME NEW w \in Writers, WriteMessage(w) PROVE FenceInv'
  BY <1>h, <1>t, <1>7 DEF WriteMessage, Fenced, Leave, Gone, Others
<1>8. ASSUME NEW w \in Writers, RemoveDocument(w) PROVE FenceInv'
  BY <1>h, <1>t, <1>8 DEF RemoveDocument, Fenced, Others
<1>9. ASSUME NEW w \in Writers, PurgeOriginal(w) PROVE FenceInv'
  BY <1>h, <1>t, <1>9 DEF PurgeOriginal, Leave, Gone, Others
<1>10. ASSUME NEW u \in Uploaders, BeginText(u) PROVE FenceInv'
  BY <1>h, <1>t, <1>10 DEF BeginText, Access, Active, Others
<1>11. ASSUME NEW u \in Uploaders, BeginUpload(u) PROVE FenceInv'
  BY <1>h, <1>t, <1>11 DEF BeginUpload, Active, Others
<1>12. ASSUME NEW u \in Uploaders, ReadTicketFence(u) PROVE FenceInv'
  <2>1. \A q \in Passes: pc'[q] = pc[q] /\ on'[q] = on[q]
    BY <1>t, <1>12 DEF ReadTicketFence, Leave, Gone
  <2>2. on'[Creator] \in Containers
    BY <1>h, <1>t, <1>12 DEF ReadTicketFence, Leave, Gone
  <2>3. \A c \in Containers: /\ fresh'[c] # {} => fence'[c] = "open"
                             /\ fence[c] = "closed" => fence'[c] = "closed"
    BY <1>h, <1>t, <1>12 DEF ReadTicketFence, Leave, Gone
  <2> QED
    BY <1>h, <2>1, <2>2, <2>3
<1>13. ASSUME NEW u \in Uploaders, CreateTicket(u) PROVE FenceInv'
  BY <1>h, <1>t, <1>13 DEF CreateTicket, Fenced, Others
<1>14. ASSUME NEW u \in Uploaders, LostTicketRace(u) PROVE FenceInv'
  BY ZenonT(40), <1>h, <1>t, <1>14 DEF LostTicketRace, Leave, Gone, Others
<1>15. ASSUME NEW u \in Uploaders, StartPut(u) PROVE FenceInv'
  BY <1>h, <1>t, <1>15 DEF StartPut, At, Others
<1>16. ASSUME NEW u \in Uploaders, PutLands(u) PROVE FenceInv'
  BY <1>h, <1>t, <1>16 DEF PutLands, Others
<1>17. ASSUME NEW u \in Uploaders, PutReturns(u) PROVE FenceInv'
  BY <1>h, <1>t, <1>17 DEF PutReturns, At, Others
<1>18. ASSUME NEW u \in Uploaders, PutFails(u) PROVE FenceInv'
  BY <1>h, <1>t, <1>18 DEF PutFails, At, Others
<1>19. ASSUME NEW u \in Uploaders, Settle(u) PROVE FenceInv'
  <2>1. \A q \in Passes: pc'[q] = pc[q] /\ on'[q] = on[q]
    BY <1>t, <1>19 DEF Settle, Leave, Gone
  <2>2. on'[Creator] \in Containers
    BY <1>h, <1>t, <1>19 DEF Settle, Leave, Gone
  <2>3. \A c \in Containers: /\ fresh'[c] # {} => fence'[c] = "open"
                             /\ fence[c] = "closed" => fence'[c] = "closed"
    BY <1>h, <1>t, <1>19 DEF Settle, Leave, Gone
  <2> QED
    BY <1>h, <2>1, <2>2, <2>3
<1>20. ASSUME NEW u \in Uploaders, BeginAdd(u) PROVE FenceInv'
  BY <1>h, <1>t, <1>20 DEF BeginAdd, Access, Active, Others
<1>21. ASSUME NEW u \in Uploaders, AddDocument(u) PROVE FenceInv'
  BY <1>h, <1>t, <1>21 DEF AddDocument, Fenced, Leave, Gone, Others
<1>22. ASSUME NEW a \in Requests, Denied(a) PROVE FenceInv'
  BY <1>h, <1>t, <1>22 DEF Denied, Leave, Gone, Deleting, Others
<1>23. CASE BeginDeletion
  BY <1>h, <1>t, <1>23 DEF BeginDeletion
<1>24. ASSUME NEW p \in Passes, Claim(p) PROVE FenceInv'
  BY <1>h, <1>t, <1>24 DEF Claim, Deleting, Claimable
<1>25. ASSUME NEW p \in Passes, CloseFence(p) PROVE FenceInv'
  BY ZenonT(40), <1>h, <1>t, <1>25 DEF CloseFence, Closed, PassOnly
<1>26. ASSUME NEW p \in Passes, Checkpoint(p) PROVE FenceInv'
  BY ZenonT(40), <1>h, <1>t, <1>26 DEF Checkpoint, AfterCheckpoint, ToReport
<1>27. ASSUME NEW p \in Passes, QueryRows(p) PROVE FenceInv'
  BY ZenonT(40), <1>h, <1>t, <1>27 DEF QueryRows, Closed, Verified, Following, PassOnly
<1>28. ASSUME NEW p \in Passes, EraseRow(p) PROVE FenceInv'
  BY ZenonT(40), <1>h, <1>t, <1>28 DEF EraseRow, Verified, Following, PassOnly
<1>29. ASSUME NEW p \in Passes, QueryUnsettled(p) PROVE FenceInv'
  BY <1>h, <1>t, <1>29 DEF QueryUnsettled, At, Closed, PassOnly
<1>30. ASSUME NEW p \in Passes, ListOriginals(p) PROVE FenceInv'
  BY ZenonT(40), <1>h, <1>t, <1>30 DEF ListOriginals, Judge, PassOnly
<1>31. ASSUME NEW p \in Passes, EraseOriginal(p) PROVE FenceInv'
  BY ZenonT(40), <1>h, <1>t, <1>31 DEF EraseOriginal, Judge, PassOnly
<1>32. ASSUME NEW p \in Passes, QuerySettled(p) PROVE FenceInv'
  BY <1>h, <1>t, <1>32 DEF QuerySettled, Closed, PassOnly
<1>33. ASSUME NEW p \in Passes, ForgetTicket(p) PROVE FenceInv'
  BY <1>h, <1>t, <1>33 DEF ForgetTicket, PassOnly
<1>34. ASSUME NEW p \in Passes, Release(p) PROVE FenceInv'
  BY ZenonT(40), <1>h, <1>t, <1>34 DEF Release, ReleasedLease, NoLease, Leave, Gone, ToReport
<1>35. ASSUME NEW p \in Passes, Report(p) PROVE FenceInv'
  BY <1>h, <1>t, <1>35 DEF Report, ReleasedLease, NoLease, Leave, Gone
<1>36. ASSUME NEW p \in Passes, CallFails(p) PROVE FenceInv'
  BY <1>h, <1>t, <1>36 DEF CallFails, Working, Fault, ToReport
<1>37. ASSUME NEW p \in Passes, CheckpointUnknown(p) PROVE FenceInv'
  BY <1>h, <1>t, <1>37 DEF CheckpointUnknown, Fault, ReleasedLease, NoLease, ToReport
<1>38. ASSUME NEW p \in Passes, OtherStore(p) PROVE FenceInv'
  BY <1>h, <1>t, <1>38 DEF OtherStore
<1>39. CASE LeaseExpires
  BY <1>h, <1>t, <1>39 DEF LeaseExpires
<1>40. ASSUME NEW a \in Actors, Crash(a) PROVE FenceInv'
  BY <1>h, <1>t, <1>40 DEF Crash, Working, Fault, Leave, Gone
<1>41. CASE UNCHANGED vars
  BY <1>h, <1>t, <1>41 DEF vars
<1> QED
  BY <1>1, <1>2, <1>3, <1>4, <1>5, <1>6, <1>7, <1>8, <1>9, <1>10, <1>11, <1>12, <1>13, <1>14,
     <1>15, <1>16, <1>17, <1>18, <1>19, <1>20, <1>21, <1>22, <1>23, <1>24, <1>25, <1>26, <1>27,
     <1>28, <1>29, <1>30, <1>31, <1>32, <1>33, <1>34, <1>35, <1>36, <1>37, <1>38, <1>39, <1>40,
     <1>41 DEF Next, Create, Write, Upload, Reconcile, Faults

\* No step takes back what is verified behind closed fences: a row needs a fresh copy
\* of an open fence, an original needs a ticket, and so does a ticket need the fence.
LEMMA KeptStep == IInv /\ [Next]_vars => Kept
<1> SUFFICES ASSUME IInv, [Next]_vars PROVE Kept
  OBVIOUS
<1> USE DeletionAssumption DEF Requests, Actors, Containers, Go, deletion, partitions, uploads,
   local, Work, Kept, MessagesGone, DocumentsGone, OriginalsGone, NothingLeft, NoneUnsettled,
   TicketsCover, CoverInv, FenceInv, Open
<1>h. TypeInv /\ StartInv /\ FenceInv /\ CoverInv /\ EvidenceInv
  BY DEF IInv
<1>t. ControlType /\ UploadType /\ ChildType /\ StatusType
  BY <1>h DEF TypeInv
<1>1. CASE Reserve
  BY <1>h, <1>t, <1>1 DEF Reserve, Others, ControlType, UploadType, ChildType, StartInv
<1>2. CASE CreateFence
  <2>1. CASE fence[on[Creator]] # Absent
    BY <1>h, <1>2, <2>1 DEF CreateFence, Others
  <2>2. CASE fence[on[Creator]] = Absent
    <3>1. \A c \in Containers: fence[c] # Absent => fence'[c] = fence[c]
      BY <1>t, <1>2, <2>2 DEF CreateFence, ChildType
    <3>2. rows' = rows /\ tickets' = tickets /\ blobs' = blobs
      BY <1>2, <2>2 DEF CreateFence
    <3> QED
      BY <3>1, <3>2 DEF Absent
  <2> QED
    BY <2>1, <2>2
<1>3. CASE Publish
  BY <1>h, <1>t, <1>3 DEF Publish, Gone, Others, ControlType, UploadType, ChildType
<1>4. ASSUME NEW a \in Requests, ReadFence(a) PROVE Kept
  BY <1>h, <1>t, <1>4 DEF ReadFence, Gone, Others, ControlType, UploadType, ChildType
<1>5. ASSUME NEW a \in Requests, LostRace(a) PROVE Kept
  BY <1>h, <1>t, <1>5 DEF LostRace, Gone, Others, ControlType, UploadType, ChildType
<1>6. ASSUME NEW w \in Writers, BeginWrite(w) PROVE Kept
  BY <1>h, <1>t, <1>6 DEF BeginWrite, Access, Active, Others, ControlType, UploadType, ChildType
<1>7. ASSUME NEW w \in Writers, WriteMessage(w) PROVE Kept
  BY <1>h, <1>t, <1>7 DEF WriteMessage, Fenced, Gone, Others, ControlType, UploadType, ChildType
<1>8. ASSUME NEW w \in Writers, RemoveDocument(w) PROVE Kept
  BY <1>h, <1>t, <1>8 DEF RemoveDocument, Fenced, Others, ControlType, UploadType, ChildType
<1>9. ASSUME NEW w \in Writers, PurgeOriginal(w) PROVE Kept
  BY <1>h, <1>t, <1>9 DEF PurgeOriginal, Gone, Others, ControlType, UploadType, ChildType
<1>10. ASSUME NEW u \in Uploaders, BeginText(u) PROVE Kept
  BY <1>h, <1>t, <1>10 DEF BeginText, Access, Active, Others, ControlType, UploadType, ChildType
<1>11. ASSUME NEW u \in Uploaders, BeginUpload(u) PROVE Kept
  BY <1>h, <1>t, <1>11 DEF BeginUpload, Active, Others, ControlType, UploadType, ChildType
<1>12. ASSUME NEW u \in Uploaders, ReadTicketFence(u) PROVE Kept
  BY <1>h, <1>t, <1>12 DEF ReadTicketFence, Gone, Others, ControlType, UploadType, ChildType
<1>13. ASSUME NEW u \in Uploaders, CreateTicket(u) PROVE Kept
  BY <1>h, <1>t, <1>13 DEF CreateTicket, Fenced, Others, ControlType, UploadType, ChildType
<1>14. ASSUME NEW u \in Uploaders, LostTicketRace(u) PROVE Kept
  BY <1>h, <1>t, <1>14 DEF LostTicketRace, Gone, Others, ControlType, UploadType, ChildType
<1>15. ASSUME NEW u \in Uploaders, StartPut(u) PROVE Kept
  BY <1>h, <1>t, <1>15 DEF StartPut, At, Others, ControlType, UploadType, ChildType
<1>16. ASSUME NEW u \in Uploaders, PutLands(u) PROVE Kept
  BY <1>h, <1>t, <1>16 DEF PutLands, Others, ControlType, UploadType, ChildType
<1>17. ASSUME NEW u \in Uploaders, PutReturns(u) PROVE Kept
  BY <1>h, <1>t, <1>17 DEF PutReturns, At, Others, ControlType, UploadType, ChildType
<1>18. ASSUME NEW u \in Uploaders, PutFails(u) PROVE Kept
  BY <1>h, <1>t, <1>18 DEF PutFails, At, Others, ControlType, UploadType, ChildType
<1>19. ASSUME NEW u \in Uploaders, Settle(u) PROVE Kept
  BY <1>h, <1>t, <1>19 DEF Settle, Gone, Others, ControlType, UploadType, ChildType
<1>20. ASSUME NEW u \in Uploaders, BeginAdd(u) PROVE Kept
  BY <1>h, <1>t, <1>20 DEF BeginAdd, Access, Active, Others, ControlType, UploadType, ChildType
<1>21. ASSUME NEW u \in Uploaders, AddDocument(u) PROVE Kept
  BY <1>h, <1>t, <1>21 DEF AddDocument, Fenced, Gone, Others, ControlType, UploadType, ChildType
<1>22. ASSUME NEW a \in Requests, Denied(a) PROVE Kept
  BY <1>h, <1>t, <1>22 DEF Denied, Gone, Deleting, Others, ControlType, UploadType, ChildType
<1>23. CASE BeginDeletion
  BY <1>h, <1>t, <1>23 DEF BeginDeletion, ControlType, UploadType, ChildType
<1>24. ASSUME NEW p \in Passes, Claim(p) PROVE Kept
  BY <1>h, <1>t, <1>24 DEF Claim, Deleting, Claimable, ControlType, UploadType, ChildType
<1>25. ASSUME NEW p \in Passes, CloseFence(p) PROVE Kept
  BY <1>h, <1>t, <1>25 DEF CloseFence, Closed, PassOnly, ControlType, UploadType, ChildType
<1>26. ASSUME NEW p \in Passes, Checkpoint(p) PROVE Kept
  BY <1>h, <1>t, <1>26 DEF Checkpoint, AfterCheckpoint, ControlType, UploadType, ChildType
<1>27. ASSUME NEW p \in Passes, QueryRows(p) PROVE Kept
  BY <1>h, <1>t, <1>27 DEF QueryRows, Closed, Following, PassOnly, ControlType, UploadType,
     ChildType
<1>28. ASSUME NEW p \in Passes, EraseRow(p) PROVE Kept
  BY <1>h, <1>t, <1>28 DEF EraseRow, Following, PassOnly, ControlType, UploadType, ChildType
<1>29. ASSUME NEW p \in Passes, QueryUnsettled(p) PROVE Kept
  BY <1>h, <1>t, <1>29 DEF QueryUnsettled, At, Closed, PassOnly, ControlType, UploadType,
     ChildType
<1>30. ASSUME NEW p \in Passes, ListOriginals(p) PROVE Kept
  BY <1>h, <1>t, <1>30 DEF ListOriginals, PassOnly, ControlType, UploadType, ChildType
<1>31. ASSUME NEW p \in Passes, EraseOriginal(p) PROVE Kept
  <2>1. blobs' \subseteq blobs /\ UNCHANGED <<partitions, tickets, put>>
    BY <1>31 DEF EraseOriginal
  <2> QED
    BY <2>1
<1>32. ASSUME NEW p \in Passes, QuerySettled(p) PROVE Kept
  BY <1>h, <1>t, <1>32 DEF QuerySettled, Closed, PassOnly, ControlType, UploadType, ChildType
<1>33. ASSUME NEW p \in Passes, ForgetTicket(p) PROVE Kept
  <2>1. OriginalsGone
    BY <1>h, <1>33 DEF ForgetTicket, EvidenceInv, Honest, Evidence
  <2>2. \A u \in Uploaders: tickets'[u] \in {tickets[u], "forgotten"}
    BY <1>t, <1>33 DEF ForgetTicket, UploadType
  <2>3. fence' = fence /\ rows' = rows /\ blobs' = blobs
    BY <1>33 DEF ForgetTicket
  <2> QED
    BY <2>1, <2>2, <2>3
<1>34. ASSUME NEW p \in Passes, Release(p) PROVE Kept
  BY <1>h, <1>t, <1>34 DEF Release, ReleasedLease, NoLease, Gone, ControlType, UploadType,
     ChildType
<1>35. ASSUME NEW p \in Passes, Report(p) PROVE Kept
  BY <1>h, <1>t, <1>35 DEF Report, ReleasedLease, NoLease, Gone, ControlType, UploadType,
     ChildType
<1>36. ASSUME NEW p \in Passes, CallFails(p) PROVE Kept
  BY <1>h, <1>t, <1>36 DEF CallFails, Working, Fault, ControlType, UploadType, ChildType
<1>37. ASSUME NEW p \in Passes, CheckpointUnknown(p) PROVE Kept
  BY <1>h, <1>t, <1>37 DEF CheckpointUnknown, Fault, ReleasedLease, NoLease, ControlType,
     UploadType, ChildType
<1>38. ASSUME NEW p \in Passes, OtherStore(p) PROVE Kept
  BY <1>h, <1>t, <1>38 DEF OtherStore, ControlType, UploadType, ChildType
<1>39. CASE LeaseExpires
  BY <1>h, <1>t, <1>39 DEF LeaseExpires, ControlType, UploadType, ChildType
<1>40. ASSUME NEW a \in Actors, Crash(a) PROVE Kept
  BY <1>h, <1>t, <1>40 DEF Crash, Working, Fault, Gone, ControlType, UploadType, ChildType
<1>41. CASE UNCHANGED vars
  BY <1>h, <1>t, <1>41 DEF vars
<1> QED
  BY <1>1, <1>2, <1>3, <1>4, <1>5, <1>6, <1>7, <1>8, <1>9, <1>10, <1>11, <1>12, <1>13, <1>14,
     <1>15, <1>16, <1>17, <1>18, <1>19, <1>20, <1>21, <1>22, <1>23, <1>24, <1>25, <1>26, <1>27,
     <1>28, <1>29, <1>30, <1>31, <1>32, <1>33, <1>34, <1>35, <1>36, <1>37, <1>38, <1>39, <1>40,
     <1>41 DEF Next, Create, Write, Upload, Reconcile, Faults

\* Tickets come before PUTs, and go only when no original is left.
LEMMA CoverStep == IInv /\ [Next]_vars => CoverInv'
<1> SUFFICES ASSUME IInv, [Next]_vars PROVE CoverInv'
  OBVIOUS
<1> USE DeletionAssumption DEF Requests, Actors, Containers, Go, deletion, partitions, uploads,
   local, Work, CoverInv, TicketsCover, Open, Absent
<1>h. TypeInv /\ StartInv /\ FenceInv /\ CoverInv /\ EvidenceInv
  BY DEF IInv
<1>t. ControlType /\ UploadType /\ StatusType
  BY <1>h DEF TypeInv
<1>1. CASE Reserve
  BY <1>h, <1>t, <1>1 DEF Reserve, Others, ControlType, UploadType, StartInv
<1>2. CASE CreateFence
  BY <1>h, <1>t, <1>2 DEF CreateFence, Leave, Gone, Others, ControlType, UploadType
<1>3. CASE Publish
  BY <1>h, <1>t, <1>3 DEF Publish, Leave, Gone, Others, ControlType, UploadType
<1>4. ASSUME NEW a \in Requests, ReadFence(a) PROVE CoverInv'
  BY <1>h, <1>t, <1>4 DEF ReadFence, Leave, Gone, Others, ControlType, UploadType
<1>5. ASSUME NEW a \in Requests, LostRace(a) PROVE CoverInv'
  BY <1>h, <1>t, <1>5 DEF LostRace, Leave, Gone, Others, ControlType, UploadType
<1>6. ASSUME NEW w \in Writers, BeginWrite(w) PROVE CoverInv'
  BY <1>h, <1>t, <1>6 DEF BeginWrite, Access, Active, Others, ControlType, UploadType
<1>7. ASSUME NEW w \in Writers, WriteMessage(w) PROVE CoverInv'
  BY <1>h, <1>t, <1>7 DEF WriteMessage, Fenced, Leave, Gone, Others, ControlType, UploadType
<1>8. ASSUME NEW w \in Writers, RemoveDocument(w) PROVE CoverInv'
  BY <1>h, <1>t, <1>8 DEF RemoveDocument, Fenced, Others, ControlType, UploadType
<1>9. ASSUME NEW w \in Writers, PurgeOriginal(w) PROVE CoverInv'
  BY <1>h, <1>t, <1>9 DEF PurgeOriginal, Leave, Gone, Others, ControlType, UploadType
<1>10. ASSUME NEW u \in Uploaders, BeginText(u) PROVE CoverInv'
  BY <1>h, <1>t, <1>10 DEF BeginText, Access, Active, Others, ControlType, UploadType
<1>11. ASSUME NEW u \in Uploaders, BeginUpload(u) PROVE CoverInv'
  BY <1>h, <1>t, <1>11 DEF BeginUpload, Active, Others, ControlType, UploadType
<1>12. ASSUME NEW u \in Uploaders, ReadTicketFence(u) PROVE CoverInv'
  BY <1>h, <1>t, <1>12 DEF ReadTicketFence, Leave, Gone, Others, ControlType, UploadType
<1>13. ASSUME NEW u \in Uploaders, CreateTicket(u) PROVE CoverInv'
  BY <1>h, <1>t, <1>13 DEF CreateTicket, Fenced, Others, ControlType, UploadType
<1>14. ASSUME NEW u \in Uploaders, LostTicketRace(u) PROVE CoverInv'
  BY <1>h, <1>t, <1>14 DEF LostTicketRace, Leave, Gone, Others, ControlType, UploadType
<1>15. ASSUME NEW u \in Uploaders, StartPut(u) PROVE CoverInv'
  BY <1>h, <1>t, <1>15 DEF StartPut, At, Others, ControlType, UploadType
<1>16. ASSUME NEW u \in Uploaders, PutLands(u) PROVE CoverInv'
  BY <1>h, <1>t, <1>16 DEF PutLands, Others, ControlType, UploadType
<1>17. ASSUME NEW u \in Uploaders, PutReturns(u) PROVE CoverInv'
  BY <1>h, <1>t, <1>17 DEF PutReturns, At, Others, ControlType, UploadType
<1>18. ASSUME NEW u \in Uploaders, PutFails(u) PROVE CoverInv'
  BY <1>h, <1>t, <1>18 DEF PutFails, At, Others, ControlType, UploadType
<1>19. ASSUME NEW u \in Uploaders, Settle(u) PROVE CoverInv'
  BY <1>h, <1>t, <1>19 DEF Settle, Leave, Gone, Others, ControlType, UploadType
<1>20. ASSUME NEW u \in Uploaders, BeginAdd(u) PROVE CoverInv'
  BY <1>h, <1>t, <1>20 DEF BeginAdd, Access, Active, Others, ControlType, UploadType
<1>21. ASSUME NEW u \in Uploaders, AddDocument(u) PROVE CoverInv'
  BY <1>h, <1>t, <1>21 DEF AddDocument, Fenced, Leave, Gone, Others, ControlType, UploadType
<1>22. ASSUME NEW a \in Requests, Denied(a) PROVE CoverInv'
  BY <1>h, <1>t, <1>22 DEF Denied, Leave, Gone, Deleting, Others, ControlType, UploadType
<1>23. CASE BeginDeletion
  BY <1>h, <1>t, <1>23 DEF BeginDeletion, ControlType, UploadType
<1>24. ASSUME NEW p \in Passes, Claim(p) PROVE CoverInv'
  BY <1>h, <1>t, <1>24 DEF Claim, Deleting, Claimable, ControlType, UploadType
<1>25. ASSUME NEW p \in Passes, CloseFence(p) PROVE CoverInv'
  BY <1>h, <1>t, <1>25 DEF CloseFence, Closed, PassOnly, ControlType, UploadType
<1>26. ASSUME NEW p \in Passes, Checkpoint(p) PROVE CoverInv'
  BY <1>h, <1>t, <1>26 DEF Checkpoint, AfterCheckpoint, ToReport, ControlType, UploadType
<1>27. ASSUME NEW p \in Passes, QueryRows(p) PROVE CoverInv'
  BY <1>h, <1>t, <1>27 DEF QueryRows, Closed, Verified, Following, PassOnly, ControlType,
     UploadType
<1>28. ASSUME NEW p \in Passes, EraseRow(p) PROVE CoverInv'
  BY <1>h, <1>t, <1>28 DEF EraseRow, Verified, Following, PassOnly, ControlType, UploadType
<1>29. ASSUME NEW p \in Passes, QueryUnsettled(p) PROVE CoverInv'
  BY <1>h, <1>t, <1>29 DEF QueryUnsettled, At, Closed, PassOnly, ControlType, UploadType
<1>30. ASSUME NEW p \in Passes, ListOriginals(p) PROVE CoverInv'
  <2>1. \E to \in Steps \ {"put", "wait", "settle", "readTicket", "ticket"}:
            pc' = [pc EXCEPT ![p] = to]
    BY <1>30, <1>t, JudgeEffect DEF ListOriginals, Steps
  <2> QED
    BY ZenonT(40), <1>h, <1>t, <1>30, <2>1 DEF ListOriginals, PassOnly, ControlType, UploadType
<1>31. ASSUME NEW p \in Passes, EraseOriginal(p) PROVE CoverInv'
  <2>1. \/ pc' = pc
        \/ \E to \in Steps \ {"put", "wait", "settle", "readTicket", "ticket"}:
              pc' = [pc EXCEPT ![p] = to]
    BY <1>31, <1>t, JudgeEffect DEF EraseOriginal, Steps
  <2>2. blobs' \subseteq blobs
    BY <1>31 DEF EraseOriginal
  <2> QED
    BY ZenonT(40), <1>h, <1>t, <1>31, <2>1, <2>2 DEF EraseOriginal, PassOnly, ControlType, UploadType
<1>32. ASSUME NEW p \in Passes, QuerySettled(p) PROVE CoverInv'
  BY <1>h, <1>t, <1>32 DEF QuerySettled, Closed, PassOnly, ControlType, UploadType
<1>33. ASSUME NEW p \in Passes, ForgetTicket(p) PROVE CoverInv'
  <2>1. OriginalsGone
    BY <1>h, <1>33 DEF ForgetTicket, EvidenceInv, Honest, Evidence
  <2>2. \A u \in Uploaders: tickets'[u] \in {tickets[u], "forgotten"}
    BY <1>t, <1>33 DEF ForgetTicket, UploadType
  <2> QED
    BY <1>h, <1>t, <1>33, <2>1, <2>2 DEF ForgetTicket, PassOnly, ControlType, UploadType,
       OriginalsGone, NoneUnsettled
<1>34. ASSUME NEW p \in Passes, Release(p) PROVE CoverInv'
  BY <1>h, <1>t, <1>34 DEF Release, ReleasedLease, NoLease, Leave, Gone, ToReport, ControlType,
     UploadType
<1>35. ASSUME NEW p \in Passes, Report(p) PROVE CoverInv'
  BY <1>h, <1>t, <1>35 DEF Report, ReleasedLease, NoLease, Leave, Gone, ControlType, UploadType
<1>36. ASSUME NEW p \in Passes, CallFails(p) PROVE CoverInv'
  BY <1>h, <1>t, <1>36 DEF CallFails, Working, Fault, ToReport, ControlType, UploadType
<1>37. ASSUME NEW p \in Passes, CheckpointUnknown(p) PROVE CoverInv'
  BY <1>h, <1>t, <1>37 DEF CheckpointUnknown, Fault, ReleasedLease, NoLease, ToReport,
     ControlType, UploadType
<1>38. ASSUME NEW p \in Passes, OtherStore(p) PROVE CoverInv'
  BY <1>h, <1>t, <1>38 DEF OtherStore, ControlType, UploadType
<1>39. CASE LeaseExpires
  BY <1>h, <1>t, <1>39 DEF LeaseExpires, ControlType, UploadType
<1>40. ASSUME NEW a \in Actors, Crash(a) PROVE CoverInv'
  BY <1>h, <1>t, <1>40 DEF Crash, Working, Fault, Leave, Gone, ControlType, UploadType
<1>41. CASE UNCHANGED vars
  BY <1>h, <1>t, <1>41 DEF vars
<1> QED
  BY <1>1, <1>2, <1>3, <1>4, <1>5, <1>6, <1>7, <1>8, <1>9, <1>10, <1>11, <1>12, <1>13, <1>14,
     <1>15, <1>16, <1>17, <1>18, <1>19, <1>20, <1>21, <1>22, <1>23, <1>24, <1>25, <1>26, <1>27,
     <1>28, <1>29, <1>30, <1>31, <1>32, <1>33, <1>34, <1>35, <1>36, <1>37, <1>38, <1>39, <1>40,
     <1>41 DEF Next, Create, Write, Upload, Reconcile, Faults

\* A pass that verifies has only its release to write, and gives the tombstone up by it.
LEMMA FinalStep == IInv /\ [Next]_vars => FinalInv'
<1> SUFFICES ASSUME IInv, [Next]_vars PROVE FinalInv'
  OBVIOUS
<1> USE DeletionAssumption DEF Requests, Actors, Containers, Go, deletion, partitions, uploads,
   local, Work, FinalInv, Deleting, Absent
<1>h. TypeInv /\ StartInv /\ FenceInv /\ FinalInv
  BY DEF IInv
<1>t. /\ ControlType /\ StatusType /\ LeaseType /\ NewStatus.state = "pending"
      /\ session \in [kind: {Absent, "initializing", "active", "tombstone"}, required: BOOLEAN]
  BY <1>h DEF TypeInv, NewStatus, UploadType
<1>1. CASE Reserve
  BY <1>h, <1>t, <1>1 DEF Reserve, Others, ControlType, StatusType, StartInv
<1>2. CASE CreateFence
  BY <1>h, <1>t, <1>2 DEF CreateFence, Leave, Gone, Others, ControlType, StatusType
<1>3. CASE Publish
  BY <1>h, <1>t, <1>3 DEF Publish, Leave, Gone, Others, ControlType, StatusType
<1>4. ASSUME NEW a \in Requests, ReadFence(a) PROVE FinalInv'
  BY <1>h, <1>t, <1>4 DEF ReadFence, Leave, Gone, Others, ControlType, StatusType
<1>5. ASSUME NEW a \in Requests, LostRace(a) PROVE FinalInv'
  BY <1>h, <1>t, <1>5 DEF LostRace, Leave, Gone, Others, ControlType, StatusType
<1>6. ASSUME NEW w \in Writers, BeginWrite(w) PROVE FinalInv'
  BY <1>h, <1>t, <1>6 DEF BeginWrite, Access, Active, Others, ControlType, StatusType
<1>7. ASSUME NEW w \in Writers, WriteMessage(w) PROVE FinalInv'
  BY <1>h, <1>t, <1>7 DEF WriteMessage, Fenced, Leave, Gone, Others, ControlType, StatusType
<1>8. ASSUME NEW w \in Writers, RemoveDocument(w) PROVE FinalInv'
  BY <1>h, <1>t, <1>8 DEF RemoveDocument, Fenced, Others, ControlType, StatusType
<1>9. ASSUME NEW w \in Writers, PurgeOriginal(w) PROVE FinalInv'
  BY <1>h, <1>t, <1>9 DEF PurgeOriginal, Leave, Gone, Others, ControlType, StatusType
<1>10. ASSUME NEW u \in Uploaders, BeginText(u) PROVE FinalInv'
  BY <1>h, <1>t, <1>10 DEF BeginText, Access, Active, Others, ControlType, StatusType
<1>11. ASSUME NEW u \in Uploaders, BeginUpload(u) PROVE FinalInv'
  BY <1>h, <1>t, <1>11 DEF BeginUpload, Active, Others, ControlType, StatusType
<1>12. ASSUME NEW u \in Uploaders, ReadTicketFence(u) PROVE FinalInv'
  BY <1>h, <1>t, <1>12 DEF ReadTicketFence, Leave, Gone, Others, ControlType, StatusType
<1>13. ASSUME NEW u \in Uploaders, CreateTicket(u) PROVE FinalInv'
  BY <1>h, <1>t, <1>13 DEF CreateTicket, Fenced, Others, ControlType, StatusType
<1>14. ASSUME NEW u \in Uploaders, LostTicketRace(u) PROVE FinalInv'
  BY <1>h, <1>t, <1>14 DEF LostTicketRace, Leave, Gone, Others, ControlType, StatusType
<1>15. ASSUME NEW u \in Uploaders, StartPut(u) PROVE FinalInv'
  BY <1>h, <1>t, <1>15 DEF StartPut, At, Others, ControlType, StatusType
<1>16. ASSUME NEW u \in Uploaders, PutLands(u) PROVE FinalInv'
  BY <1>h, <1>t, <1>16 DEF PutLands, Others, ControlType, StatusType
<1>17. ASSUME NEW u \in Uploaders, PutReturns(u) PROVE FinalInv'
  BY <1>h, <1>t, <1>17 DEF PutReturns, At, Others, ControlType, StatusType
<1>18. ASSUME NEW u \in Uploaders, PutFails(u) PROVE FinalInv'
  BY <1>h, <1>t, <1>18 DEF PutFails, At, Others, ControlType, StatusType
<1>19. ASSUME NEW u \in Uploaders, Settle(u) PROVE FinalInv'
  BY <1>h, <1>t, <1>19 DEF Settle, Leave, Gone, Others, ControlType, StatusType
<1>20. ASSUME NEW u \in Uploaders, BeginAdd(u) PROVE FinalInv'
  BY <1>h, <1>t, <1>20 DEF BeginAdd, Access, Active, Others, ControlType, StatusType
<1>21. ASSUME NEW u \in Uploaders, AddDocument(u) PROVE FinalInv'
  BY <1>h, <1>t, <1>21 DEF AddDocument, Fenced, Leave, Gone, Others, ControlType, StatusType
<1>22. ASSUME NEW a \in Requests, Denied(a) PROVE FinalInv'
  BY <1>h, <1>t, <1>22 DEF Denied, Leave, Gone, Deleting, Others, ControlType, StatusType
<1>23. CASE BeginDeletion
  BY <1>h, <1>t, <1>23 DEF BeginDeletion, ControlType, StatusType
<1>24. ASSUME NEW p \in Passes, Claim(p) PROVE FinalInv'
  BY <1>h, <1>t, <1>24 DEF Claim, Deleting, Claimable, ControlType, StatusType
<1>25. ASSUME NEW p \in Passes, CloseFence(p) PROVE FinalInv'
  BY <1>h, <1>t, <1>25 DEF CloseFence, Closed, PassOnly, ControlType, StatusType
<1>26. ASSUME NEW p \in Passes, Checkpoint(p) PROVE FinalInv'
  <2>1. CASE holder = p
    BY <1>h, <1>t, <1>26, <2>1, Reported DEF Checkpoint, ControlType, StatusType, LeaseType,
       ReleasedLease, NoLease
  <2>2. CASE holder # p
    BY ZenonT(40), <1>h, <1>t, <1>26, <2>2, Reported DEF Checkpoint, ControlType, StatusType
  <2> QED
    BY <2>1, <2>2
<1>27. ASSUME NEW p \in Passes, QueryRows(p) PROVE FinalInv'
  <2>1. ASSUME NEW empty \in BOOLEAN, Verified(p, on[p], empty)
        PROVE  \A q \in Passes: progress'[q].state = progress[q].state
    <3>1. on[p] \in Containers
      BY <1>h, <1>27 DEF QueryRows, FenceInv
    <3> QED
      BY <1>t, <2>1, <3>1, VerifiedEffect
  <2>2. progress[p].state # "cleanup_verified"
    BY <1>h, <1>27 DEF QueryRows
  <2>3. \A q \in Passes \ {p}: pc'[q] = pc[q]
    BY <1>t, <1>27 DEF QueryRows, ControlType
  <2>4. \A q \in Passes: progress'[q].state = progress[q].state
    BY <1>27, <2>1 DEF QueryRows
  <2> QED
    BY <1>h, <1>t, <1>27, <2>4, <2>2, <2>3 DEF QueryRows, PassOnly
<1>28. ASSUME NEW p \in Passes, EraseRow(p) PROVE FinalInv'
  <2>1. ASSUME NEW empty \in BOOLEAN, Verified(p, on[p], empty)
        PROVE  \A q \in Passes: progress'[q].state = progress[q].state
    <3>1. on[p] \in Containers
      BY <1>h, <1>28 DEF EraseRow, FenceInv
    <3> QED
      BY <1>t, <2>1, <3>1, VerifiedEffect
  <2>2. progress[p].state # "cleanup_verified"
    BY <1>h, <1>28 DEF EraseRow
  <2>3. \A q \in Passes \ {p}: pc'[q] = pc[q]
    BY <1>t, <1>28 DEF EraseRow, ControlType
  <2>4. \A q \in Passes: progress'[q].state = progress[q].state
    BY <1>28, <2>1 DEF EraseRow
  <2> QED
    BY <1>h, <1>t, <1>28, <2>4, <2>2, <2>3 DEF EraseRow, PassOnly
<1>29. ASSUME NEW p \in Passes, QueryUnsettled(p) PROVE FinalInv'
  BY <1>h, <1>t, <1>29 DEF QueryUnsettled, At, Closed, PassOnly, ControlType, StatusType
<1>30. ASSUME NEW p \in Passes, ListOriginals(p) PROVE FinalInv'
  <2>1. \A q \in Passes: progress'[q].state = progress[q].state
    BY <1>h, <1>t, <1>30, JudgeEffect DEF ListOriginals
  <2>2. progress[p].state # "cleanup_verified"
    BY <1>h, <1>30 DEF ListOriginals
  <2>3. ASSUME NEW empty \in BOOLEAN, Judge(p, empty)
        PROVE  \A q \in Passes \ {p}: pc'[q] = pc[q]
    BY <1>t, <2>3, JudgeEffect DEF ControlType
  <2>4. \A q \in Passes \ {p}: pc'[q] = pc[q]
    BY <1>t, <1>30, <2>3 DEF ListOriginals, ControlType
  <2> QED
    BY <1>h, <1>t, <1>30, <2>1, <2>2, <2>4 DEF ListOriginals, PassOnly
<1>31. ASSUME NEW p \in Passes, EraseOriginal(p) PROVE FinalInv'
  <2>1. \A q \in Passes: progress'[q].state = progress[q].state
    BY <1>h, <1>t, <1>31, JudgeEffect DEF EraseOriginal
  <2>2. progress[p].state # "cleanup_verified"
    BY <1>h, <1>31 DEF EraseOriginal
  <2>3. ASSUME NEW empty \in BOOLEAN, Judge(p, empty)
        PROVE  \A q \in Passes \ {p}: pc'[q] = pc[q]
    BY <1>t, <2>3, JudgeEffect DEF ControlType
  <2>4. \A q \in Passes \ {p}: pc'[q] = pc[q]
    BY <1>t, <1>31, <2>3 DEF EraseOriginal, ControlType
  <2> QED
    BY <1>h, <1>t, <1>31, <2>1, <2>2, <2>4 DEF EraseOriginal, PassOnly
<1>32. ASSUME NEW p \in Passes, QuerySettled(p) PROVE FinalInv'
  BY <1>h, <1>t, <1>32 DEF QuerySettled, Pages, Closed, PassOnly, ControlType, StatusType
<1>33. ASSUME NEW p \in Passes, ForgetTicket(p) PROVE FinalInv'
  BY <1>h, <1>t, <1>33 DEF ForgetTicket, PassOnly, ControlType, StatusType
<1>34. ASSUME NEW p \in Passes, Release(p) PROVE FinalInv'
  <2>1. CASE holder = p
    <3>1. holder' = None /\ Deleting' /\ progress' = [progress EXCEPT ![p] = NewStatus]
      BY <1>h, <1>34, <2>1 DEF Release, Leave, StartInv
    <3>2. pc' = [pc EXCEPT ![p] = "idle"]
      BY <1>34, <2>1 DEF Release, Leave, Gone
    <3> QED
      BY <1>h, <1>t, <3>1, <3>2 DEF ControlType, StatusType
  <2>2. CASE holder # p
    BY ZenonT(40), <1>h, <1>t, <1>34, <2>2, Reported DEF Release, ControlType, StatusType
  <2> QED
    BY <2>1, <2>2
<1>35. ASSUME NEW p \in Passes, Report(p) PROVE FinalInv'
  BY <1>h, <1>t, <1>35 DEF Report, ReleasedLease, NoLease, Leave, Gone, ControlType, StatusType
<1>36. ASSUME NEW p \in Passes, CallFails(p) PROVE FinalInv'
  BY <1>h, <1>t, <1>36 DEF CallFails, Working, Fault, ToReport, ControlType, StatusType
<1>37. ASSUME NEW p \in Passes, CheckpointUnknown(p) PROVE FinalInv'
  <2>2. holder' = None /\ Deleting'
    BY <1>h, <1>37 DEF CheckpointUnknown, StartInv
  <2>3. ToReport(p)
    BY <1>37 DEF CheckpointUnknown
  <2>4. /\ pc' = [pc EXCEPT ![p] = "report"] /\ progress'[p].state = "retryable"
        /\ \A q \in Passes \ {p}: progress'[q] = progress[q]
    BY <1>t, <2>3, Reported
  <2> QED
    BY <1>h, <1>t, <2>2, <2>4 DEF ControlType
<1>38. ASSUME NEW p \in Passes, OtherStore(p) PROVE FinalInv'
  BY <1>h, <1>t, <1>38 DEF OtherStore, ControlType, StatusType
<1>39. CASE LeaseExpires
  BY <1>h, <1>t, <1>39 DEF LeaseExpires, ControlType, StatusType
<1>40. ASSUME NEW a \in Actors, Crash(a) PROVE FinalInv'
  BY <1>h, <1>t, <1>40 DEF Crash, Working, Fault, Leave, Gone, ControlType, StatusType
<1>41. CASE UNCHANGED vars
  BY <1>h, <1>t, <1>41 DEF vars
<1> QED
  BY <1>1, <1>2, <1>3, <1>4, <1>5, <1>6, <1>7, <1>8, <1>9, <1>10, <1>11, <1>12, <1>13, <1>14,
     <1>15, <1>16, <1>17, <1>18, <1>19, <1>20, <1>21, <1>22, <1>23, <1>24, <1>25, <1>26, <1>27,
     <1>28, <1>29, <1>30, <1>31, <1>32, <1>33, <1>34, <1>35, <1>36, <1>37, <1>38, <1>39, <1>40,
     <1>41 DEF Next, Create, Write, Upload, Reconcile, Faults

-----------------------------------------------------------------------------
(* Evidence.                                                                 *)

\* A claim stays true while nothing is taken back.
LEMMA RecordKept ==
    ASSUME Kept, Evidence(record), record' = record
    PROVE  Evidence(record)'
BY DEF Kept, Evidence

\* So does the claim of the status that a pass has in hand.
LEMMA ClaimKept ==
    ASSUME Kept, NEW p \in Passes, Evidence(progress[p]), progress'[p] = progress[p]
    PROVE  Evidence(progress[p])'
BY DEF Kept, Evidence

\* The status of a pass, written into the tombstone.
LEMMA ClaimWritten ==
    ASSUME Kept, NEW p \in Passes, Evidence(progress[p]), record' = progress[p]
    PROVE  Evidence(record)'
BY DEF Kept, Evidence

\* A pass that a step leaves alone stays honest.
LEMMA RestIsHonest ==
    ASSUME Kept, FenceInv, NEW p \in Passes, Honest(p), Rests(p)
    PROVE  Honest(p)'
BY ClaimKept DEF Kept, Honest, Rests, FenceInv, Behind

\* A fresh status claims nothing.
LEMMA FreshIsHonest ==
    ASSUME NEW p \in Passes, progress'[p] = NewStatus, pc'[p] = "idle"
    PROVE  Honest(p)'
BY DEF Honest, Evidence, NewStatus

\* A failure claims nothing about originals, and what else it claims is so.
LEMMA ReportIsHonest ==
    ASSUME Kept, ControlType, StatusType, NEW p \in Passes, Honest(p), ToReport(p)
    PROVE  Honest(p)' /\ \A q \in Passes \ {p}: Rests(q)
<1>1. pc'[p] = "report" /\ \A q \in Passes \ {p}: pc'[q] = pc[q]
  BY Reported DEF ControlType, Actors
<1>2. Honest(p)'
  BY Reported, <1>1 DEF Kept, Honest, Evidence
<1>3. \A q \in Passes \ {p}: batch'[q] = batch[q] /\ unresolved' = unresolved
  BY DEF ToReport, ControlType, Actors
<1> QED
  BY <1>1, <1>2, <1>3, Reported DEF Rests

\* Each step of a pass keeps the claims in hand, and each write of them, true.
LEMMA EvidenceStep == IInv /\ [Next]_vars => EvidenceInv'
<1> SUFFICES ASSUME IInv, [Next]_vars PROVE EvidenceInv'
  OBVIOUS
<1> USE DeletionAssumption DEF Requests, Actors, Containers, Go, deletion, partitions, uploads,
   local, Work
<1>h. TypeInv /\ StartInv /\ FenceInv /\ CoverInv /\ EvidenceInv /\ FinalInv
  BY DEF IInv
<1>t. ControlType /\ UploadType /\ ChildType /\ StatusType /\ LeaseType
  BY <1>h DEF TypeInv
<1>k. Kept
  BY KeptStep
<1>1. CASE Reserve
  <2>1. \A q \in Passes: Rests(q)
    BY <1>t, <1>1, LeaveRests DEF Reserve, Others, ControlType, Rests
  <2>2. record' = record
    BY <1>1 DEF Reserve, Others
  <2> QED
    BY <1>h, <1>k, <1>t, <2>1, <2>2, RecordKept, RestIsHonest DEF EvidenceInv
<1>2. CASE CreateFence
  <2>1. \A q \in Passes: Rests(q)
    BY <1>t, <1>2, LeaveRests DEF CreateFence, Others, ControlType, Rests
  <2>2. record' = record
    BY <1>2 DEF CreateFence, Others
  <2> QED
    BY <1>h, <1>k, <1>t, <2>1, <2>2, RecordKept, RestIsHonest DEF EvidenceInv
<1>3. CASE Publish
  <2>1. \A q \in Passes: Rests(q)
    BY <1>t, <1>3, LeaveRests DEF Publish, Others, ControlType, Rests
  <2>2. record' = record
    BY <1>3 DEF Publish, Others
  <2> QED
    BY <1>h, <1>k, <1>t, <2>1, <2>2, RecordKept, RestIsHonest DEF EvidenceInv
<1>4. ASSUME NEW a \in Requests, ReadFence(a) PROVE EvidenceInv'
  <2>1. \A q \in Passes: Rests(q)
    BY <1>t, <1>4, LeaveRests DEF ReadFence, Others, ControlType, Rests
  <2>2. record' = record
    BY <1>4 DEF ReadFence, Others
  <2> QED
    BY <1>h, <1>k, <1>t, <2>1, <2>2, RecordKept, RestIsHonest DEF EvidenceInv
<1>5. ASSUME NEW a \in Requests, LostRace(a) PROVE EvidenceInv'
  <2>1. \A q \in Passes: Rests(q)
    BY <1>t, <1>5, LeaveRests DEF LostRace, Others, ControlType, Rests
  <2>2. record' = record
    BY <1>5 DEF LostRace, Others
  <2> QED
    BY <1>h, <1>k, <1>t, <2>1, <2>2, RecordKept, RestIsHonest DEF EvidenceInv
<1>6. ASSUME NEW w \in Writers, BeginWrite(w) PROVE EvidenceInv'
  <2>1. \A q \in Passes: Rests(q)
    BY <1>t, <1>6, LeaveRests DEF BeginWrite, Access, Active, Others, ControlType, Rests
  <2>2. record' = record
    BY <1>6 DEF BeginWrite, Access, Active, Others
  <2> QED
    BY <1>h, <1>k, <1>t, <2>1, <2>2, RecordKept, RestIsHonest DEF EvidenceInv
<1>7. ASSUME NEW w \in Writers, WriteMessage(w) PROVE EvidenceInv'
  <2>1. \A q \in Passes: Rests(q)
    BY <1>t, <1>7, LeaveRests DEF WriteMessage, Fenced, Others, ControlType, Rests
  <2>2. record' = record
    BY <1>7 DEF WriteMessage, Fenced, Others
  <2> QED
    BY <1>h, <1>k, <1>t, <2>1, <2>2, RecordKept, RestIsHonest DEF EvidenceInv
<1>8. ASSUME NEW w \in Writers, RemoveDocument(w) PROVE EvidenceInv'
  <2>1. \A q \in Passes: Rests(q)
    BY <1>t, <1>8, LeaveRests DEF RemoveDocument, Fenced, Others, ControlType, Rests
  <2>2. record' = record
    BY <1>8 DEF RemoveDocument, Fenced, Others
  <2> QED
    BY <1>h, <1>k, <1>t, <2>1, <2>2, RecordKept, RestIsHonest DEF EvidenceInv
<1>9. ASSUME NEW w \in Writers, PurgeOriginal(w) PROVE EvidenceInv'
  <2>1. \A q \in Passes: Rests(q)
    BY <1>t, <1>9, LeaveRests DEF PurgeOriginal, Others, ControlType, Rests
  <2>2. record' = record
    BY <1>9 DEF PurgeOriginal, Others
  <2> QED
    BY <1>h, <1>k, <1>t, <2>1, <2>2, RecordKept, RestIsHonest DEF EvidenceInv
<1>10. ASSUME NEW u \in Uploaders, BeginText(u) PROVE EvidenceInv'
  <2>1. \A q \in Passes: Rests(q)
    BY <1>t, <1>10, LeaveRests DEF BeginText, Access, Active, Others, ControlType, Rests
  <2>2. record' = record
    BY <1>10 DEF BeginText, Access, Active, Others
  <2> QED
    BY <1>h, <1>k, <1>t, <2>1, <2>2, RecordKept, RestIsHonest DEF EvidenceInv
<1>11. ASSUME NEW u \in Uploaders, BeginUpload(u) PROVE EvidenceInv'
  <2>1. \A q \in Passes: Rests(q)
    BY <1>t, <1>11, LeaveRests DEF BeginUpload, Active, Others, ControlType, Rests
  <2>2. record' = record
    BY <1>11 DEF BeginUpload, Active, Others
  <2> QED
    BY <1>h, <1>k, <1>t, <2>1, <2>2, RecordKept, RestIsHonest DEF EvidenceInv
<1>12. ASSUME NEW u \in Uploaders, ReadTicketFence(u) PROVE EvidenceInv'
  <2>1. \A q \in Passes: Rests(q)
    BY <1>t, <1>12, LeaveRests DEF ReadTicketFence, Others, ControlType, Rests
  <2>2. record' = record
    BY <1>12 DEF ReadTicketFence, Others
  <2> QED
    BY <1>h, <1>k, <1>t, <2>1, <2>2, RecordKept, RestIsHonest DEF EvidenceInv
<1>13. ASSUME NEW u \in Uploaders, CreateTicket(u) PROVE EvidenceInv'
  <2>1. \A q \in Passes: Rests(q)
    BY <1>t, <1>13, LeaveRests DEF CreateTicket, Fenced, Others, ControlType, Rests
  <2>2. record' = record
    BY <1>13 DEF CreateTicket, Fenced, Others
  <2> QED
    BY <1>h, <1>k, <1>t, <2>1, <2>2, RecordKept, RestIsHonest DEF EvidenceInv
<1>14. ASSUME NEW u \in Uploaders, LostTicketRace(u) PROVE EvidenceInv'
  <2>1. \A q \in Passes: Rests(q)
    BY <1>t, <1>14, LeaveRests DEF LostTicketRace, Others, ControlType, Rests
  <2>2. record' = record
    BY <1>14 DEF LostTicketRace, Others
  <2> QED
    BY <1>h, <1>k, <1>t, <2>1, <2>2, RecordKept, RestIsHonest DEF EvidenceInv
<1>15. ASSUME NEW u \in Uploaders, StartPut(u) PROVE EvidenceInv'
  <2>1. \A q \in Passes: Rests(q)
    BY <1>t, <1>15, LeaveRests DEF StartPut, At, Others, ControlType, Rests
  <2>2. record' = record
    BY <1>15 DEF StartPut, At, Others
  <2> QED
    BY <1>h, <1>k, <1>t, <2>1, <2>2, RecordKept, RestIsHonest DEF EvidenceInv
<1>16. ASSUME NEW u \in Uploaders, PutLands(u) PROVE EvidenceInv'
  <2>1. \A q \in Passes: Rests(q)
    BY <1>t, <1>16, LeaveRests DEF PutLands, Others, ControlType, Rests
  <2>2. record' = record
    BY <1>16 DEF PutLands, Others
  <2> QED
    BY <1>h, <1>k, <1>t, <2>1, <2>2, RecordKept, RestIsHonest DEF EvidenceInv
<1>17. ASSUME NEW u \in Uploaders, PutReturns(u) PROVE EvidenceInv'
  <2>1. \A q \in Passes: Rests(q)
    BY <1>t, <1>17, LeaveRests DEF PutReturns, At, Others, ControlType, Rests
  <2>2. record' = record
    BY <1>17 DEF PutReturns, At, Others
  <2> QED
    BY <1>h, <1>k, <1>t, <2>1, <2>2, RecordKept, RestIsHonest DEF EvidenceInv
<1>18. ASSUME NEW u \in Uploaders, PutFails(u) PROVE EvidenceInv'
  <2>1. \A q \in Passes: Rests(q)
    BY <1>t, <1>18, LeaveRests DEF PutFails, At, Others, ControlType, Rests
  <2>2. record' = record
    BY <1>18 DEF PutFails, At, Others
  <2> QED
    BY <1>h, <1>k, <1>t, <2>1, <2>2, RecordKept, RestIsHonest DEF EvidenceInv
<1>19. ASSUME NEW u \in Uploaders, Settle(u) PROVE EvidenceInv'
  <2>1. \A q \in Passes: Rests(q)
    BY <1>t, <1>19, LeaveRests DEF Settle, Others, ControlType, Rests
  <2>2. record' = record
    BY <1>19 DEF Settle, Others
  <2> QED
    BY <1>h, <1>k, <1>t, <2>1, <2>2, RecordKept, RestIsHonest DEF EvidenceInv
<1>20. ASSUME NEW u \in Uploaders, BeginAdd(u) PROVE EvidenceInv'
  <2>1. \A q \in Passes: Rests(q)
    BY <1>t, <1>20, LeaveRests DEF BeginAdd, Access, Active, Others, ControlType, Rests
  <2>2. record' = record
    BY <1>20 DEF BeginAdd, Access, Active, Others
  <2> QED
    BY <1>h, <1>k, <1>t, <2>1, <2>2, RecordKept, RestIsHonest DEF EvidenceInv
<1>21. ASSUME NEW u \in Uploaders, AddDocument(u) PROVE EvidenceInv'
  <2>1. \A q \in Passes: Rests(q)
    BY <1>t, <1>21, LeaveRests DEF AddDocument, Fenced, Others, ControlType, Rests
  <2>2. record' = record
    BY <1>21 DEF AddDocument, Fenced, Others
  <2> QED
    BY <1>h, <1>k, <1>t, <2>1, <2>2, RecordKept, RestIsHonest DEF EvidenceInv
<1>22. ASSUME NEW a \in Requests, Denied(a) PROVE EvidenceInv'
  <2>1. \A q \in Passes: Rests(q)
    BY <1>t, <1>22, LeaveRests DEF Denied, Deleting, Others, ControlType, Rests
  <2>2. record' = record
    BY <1>22 DEF Denied, Deleting, Others
  <2> QED
    BY <1>h, <1>k, <1>t, <2>1, <2>2, RecordKept, RestIsHonest DEF EvidenceInv
<1>23. CASE BeginDeletion
  <2>1. \A q \in Passes: Rests(q)
    BY <1>23 DEF BeginDeletion, Rests
  <2>2. Evidence(record)'
    BY <1>23 DEF BeginDeletion, Evidence, NewStatus
  <2> QED
    BY <1>h, <1>k, <2>1, <2>2, RestIsHonest DEF EvidenceInv
<1>24. ASSUME NEW p \in Passes, Claim(p) PROVE EvidenceInv'
  <2>o. \A q \in Passes \ {p}: Rests(q)
    BY <1>t, <1>24 DEF Claim, ControlType, StatusType, Rests
  <2>1. /\ record'.messages = record.messages /\ record'.documents = record.documents
        /\ record'.attachments = record.attachments /\ record'.state = "pending"
    BY <1>t, <1>24 DEF Claim, StatusType, Status
  <2>r. Evidence(record)'
    BY <1>h, <1>k, <2>1 DEF EvidenceInv, Evidence, Kept
  <2>2. progress'[p] = record' /\ pc'[p] = "close"
    BY <1>t, <1>24 DEF Claim, ControlType, StatusType
  <2>p. Honest(p)'
    BY <2>r, <2>2 DEF Honest, Evidence
  <2> QED
    BY <1>h, <1>k, <1>t, <2>o, <2>r, <2>p, RestIsHonest DEF EvidenceInv
<1>25. ASSUME NEW p \in Passes, CloseFence(p) PROVE EvidenceInv'
  <2>o. \A q \in Passes \ {p}: Rests(q)
    BY <1>t, <1>25 DEF CloseFence, Closed, PassOnly, ControlType, StatusType, Rests
  <2>r. Evidence(record)'
    BY <1>h, <1>k, <1>25, RecordKept DEF EvidenceInv, CloseFence, PassOnly
  <2>1. pc'[p] \in {"close", "checkpoint"} /\ progress'[p] = progress[p]
    BY <1>t, <1>25 DEF CloseFence, ControlType
  <2>p. Honest(p)'
    BY <1>h, <1>k, <2>1, ClaimKept DEF EvidenceInv, Honest
  <2> QED
    BY <1>h, <1>k, <1>t, <2>o, <2>r, <2>p, RestIsHonest DEF EvidenceInv
<1>26. ASSUME NEW p \in Passes, Checkpoint(p) PROVE EvidenceInv'
  <2>1. CASE holder = p
    <3>1. /\ record' = progress[p] /\ progress' = progress
          /\ batch' = batch /\ unresolved' = unresolved
      BY <1>26, <2>1 DEF Checkpoint
    <3>2. pc'[p] \in {"clean", "tickets"} /\ \A q \in Passes \ {p}: pc'[q] = pc[q]
      BY <1>t, <1>26, <2>1 DEF Checkpoint, AfterCheckpoint, ControlType
    <3>3. Honest(p)'
      BY <1>h, <1>k, <3>1, <3>2, ClaimKept DEF EvidenceInv, Honest
    <3>4. \A q \in Passes \ {p}: Rests(q)
      BY <3>1, <3>2 DEF Rests
    <3>5. Evidence(record)'
      BY <1>h, <1>k, <3>1, ClaimWritten DEF EvidenceInv, Honest
    <3> QED
      BY <1>h, <1>k, <3>3, <3>4, <3>5, RestIsHonest DEF EvidenceInv
  <2>2. CASE holder # p
    <3>1. ToReport(p) /\ record' = record
      BY <1>26, <2>2 DEF Checkpoint
    <3> QED
      BY <1>h, <1>k, <1>t, <3>1, RecordKept, ReportIsHonest, RestIsHonest DEF EvidenceInv
  <2> QED
    BY <2>1, <2>2
<1>27. ASSUME NEW p \in Passes, QueryRows(p) PROVE EvidenceInv'
  <2>c. on[p] \in Containers /\ IsFiniteSet(rows[on[p]])
    <3>1. on[p] \in Containers
      BY <1>h, <1>27 DEF QueryRows, FenceInv
    <3>2. rows[on[p]] \subseteq Rows
      BY <1>t, <3>1 DEF ChildType
    <3>3. IsFiniteSet(Rows)
      BY FS_AddElement DEF Rows
    <3> QED
      BY <3>1, <3>2, <3>3, FS_Subset
  <2>d. \/ progress' = progress
        \/ Verified(p, on[p], TRUE) /\ rows[on[p]] = {}
    BY <1>27, <2>c, PageOf DEF QueryRows
  <2>o. \A q \in Passes \ {p}: Rests(q)
    BY <1>t, <1>27, <2>c, <2>d, VerifiedEffect DEF QueryRows, PassOnly, ControlType, Rests
  <2>r. Evidence(record)'
    BY <1>h, <1>k, <1>27, RecordKept DEF EvidenceInv, QueryRows, PassOnly
  <2>2. pc'[p] \in {"erase", "checkpoint"}
    BY <1>t, <1>27 DEF QueryRows, ControlType
  <2>p. Honest(p)'
    <3>1. CASE progress' = progress
      BY <1>h, <1>k, <2>2, <3>1, ClaimKept DEF EvidenceInv, Honest
    <3>2. CASE Verified(p, on[p], TRUE) /\ rows[on[p]] = {}
      <4>1. fence'[on[p]] = "closed" /\ rows'[on[p]] = {}
        BY <1>t, <1>27, <2>c, <3>2 DEF QueryRows, Closed, ChildType
      <4>2. on[p] = "messages" => MessagesGone'
        BY <4>1 DEF MessagesGone
      <4>3. on[p] = "documents" => DocumentsGone'
        BY <4>1 DEF DocumentsGone
      <4>4. progress[p].state # "cleanup_verified"
        BY <1>h, <1>27 DEF QueryRows, FinalInv
      <4>5. Evidence(progress[p])
        BY <1>h DEF EvidenceInv, Honest
      <4>6. /\ progress'[p].state = progress[p].state
            /\ progress'[p].attachments = progress[p].attachments
            /\ progress'[p].messages => progress[p].messages \/ on[p] = "messages"
            /\ progress'[p].documents => progress[p].documents \/ on[p] = "documents"
        BY <1>t, <2>c, <3>2, VerifiedEffect
      <4>7. Evidence(progress[p])'
        BY <1>k, <4>2, <4>3, <4>4, <4>5, <4>6 DEF Evidence, Kept
      <4> QED
        BY <2>2, <4>7 DEF Honest
    <3> QED
      BY <2>d, <3>1, <3>2
  <2> QED
    BY <1>h, <1>k, <1>t, <2>o, <2>r, <2>p, RestIsHonest DEF EvidenceInv
<1>28. ASSUME NEW p \in Passes, EraseRow(p) PROVE EvidenceInv'
  <2>c. on[p] \in Containers
    BY <1>h, <1>28 DEF EraseRow, FenceInv
  <2>d. progress' = progress \/ Verified(p, on[p], FALSE)
    BY <1>28 DEF EraseRow
  <2>o. \A q \in Passes \ {p}: Rests(q)
    BY ZenonT(40), <1>t, <1>28, VerifiedEffect, <2>c, <2>d DEF EraseRow, Following, PassOnly, ControlType,
       StatusType, Rests
  <2>r. Evidence(record)'
    BY <1>h, <1>k, <1>28, RecordKept DEF EvidenceInv, EraseRow, PassOnly
  <2>1. on[p] \in Containers
    BY <1>h, <1>28 DEF EraseRow, FenceInv
  <2>2. pc'[p] \in {"erase", "checkpoint"}
    BY <1>t, <1>28 DEF EraseRow, ControlType
  <2>p. Honest(p)'
    <3>1. CASE progress' = progress
      BY <1>h, <1>k, <2>2, <3>1, ClaimKept DEF EvidenceInv, Honest
    <3>2. CASE Verified(p, on[p], FALSE)
      <4>1. progress[p].state # "cleanup_verified" /\ Evidence(progress[p])
        BY <1>h, <1>28 DEF EraseRow, FinalInv, EvidenceInv, Honest
      <4>2. /\ progress'[p].state = progress[p].state
            /\ progress'[p].attachments = progress[p].attachments
            /\ progress'[p].messages => progress[p].messages
            /\ progress'[p].documents => progress[p].documents
        BY <1>t, <2>c, <3>2, VerifiedEffect
      <4>3. Evidence(progress[p])'
        BY <1>k, <4>1, <4>2 DEF Evidence, Kept
      <4> QED
        BY <2>2, <4>3 DEF Honest
    <3> QED
      BY <2>d, <3>1, <3>2
  <2> QED
    BY <1>h, <1>k, <1>t, <2>o, <2>r, <2>p, RestIsHonest DEF EvidenceInv
<1>29. ASSUME NEW p \in Passes, QueryUnsettled(p) PROVE EvidenceInv'
  <2>o. \A q \in Passes \ {p}: Rests(q)
    BY <1>t, <1>29 DEF QueryUnsettled, At, Closed, PassOnly, ControlType, StatusType, Rests
  <2>r. Evidence(record)'
    BY <1>h, <1>k, <1>29, RecordKept DEF EvidenceInv, QueryUnsettled, PassOnly
  <2>1. pc'[p] = "originals" /\ progress'[p] = progress[p]
    BY <1>t, <1>29 DEF QueryUnsettled, At, ControlType
  <2>2. p \notin unresolved' => NoneUnsettled'
    BY <1>29 DEF QueryUnsettled, NoneUnsettled
  <2>p. Honest(p)'
    BY <1>h, <1>k, <2>1, <2>2, ClaimKept DEF EvidenceInv, Honest
  <2> QED
    BY <1>h, <1>k, <1>t, <2>o, <2>r, <2>p, RestIsHonest DEF EvidenceInv
<1>30. ASSUME NEW p \in Passes, ListOriginals(p) PROVE EvidenceInv'
  <2>1. CASE Judge(p, TRUE) /\ blobs = {}
    <3>j. pc' = [pc EXCEPT ![p] = IF p \notin unresolved THEN "settled" ELSE "release"]
          /\ \A q \in Passes \ {p}: progress'[q] = progress[q]
      BY <1>t, <2>1, JudgeEffect
    <3>1. pc'[p] \in {"settled", "release"} /\ (pc'[p] = "settled" => p \notin unresolved)
      BY <1>t, <3>j DEF ControlType
    <3>2. p \notin unresolved => OriginalsGone'
      <4>1. fence["documents"] = "closed" /\ (p \notin unresolved => NoneUnsettled)
        BY <1>h, <1>30 DEF ListOriginals, FenceInv, Behind, EvidenceInv, Honest
      <4> QED
        BY <1>k, <2>1, <4>1 DEF OriginalsGone, Kept
    <3>3. progress[p].state # "cleanup_verified"
      BY <1>h, <1>30 DEF ListOriginals, FinalInv
    <3>p. Honest(p)'
      BY <1>h, <1>k, <1>t, <2>1, <3>1, <3>2, <3>3, JudgeEffect DEF EvidenceInv, Honest,
         Evidence, Kept
    <3>4. batch' = batch /\ unresolved' = unresolved /\ record' = record
      <4>1. unresolved' = unresolved /\ record' = record
        BY <1>30 DEF ListOriginals, PassOnly
      <4>2. CASE batch' = batch
        BY <4>1, <4>2
      <4>3. ASSUME pc' = [pc EXCEPT ![p] = "erase originals"] PROVE FALSE
        BY <1>t, <3>j, <4>3 DEF ControlType
      <4> QED
        BY <1>30, <4>1, <4>2, <4>3 DEF ListOriginals
    <3>o. \A q \in Passes \ {p}: Rests(q)
      BY <1>t, <3>j, <3>4 DEF Rests, ControlType
    <3> QED
      BY <1>h, <1>k, <3>4, <3>o, <3>p, RecordKept, RestIsHonest DEF EvidenceInv
  <2>2. ASSUME NEW page \in Pages(blobs), batch' = [batch EXCEPT ![p] = page],
               pc' = [pc EXCEPT ![p] = "erase originals"], UNCHANGED progress
        PROVE  EvidenceInv'
    <3>1. page \subseteq Uploaders
      BY <1>t, <2>2 DEF UploadType, Pages
    <3>2. unresolved' = unresolved /\ record' = record /\ pc[p] = "originals"
      BY <1>30 DEF ListOriginals, PassOnly
    <3>3. (\A c \in Containers: fence[c] = "closed") /\ (p \notin unresolved => NoneUnsettled)
      BY <1>h, <3>2 DEF FenceInv, Behind, EvidenceInv, Honest
    <3>p. Honest(p)'
      BY <1>h, <1>k, <1>t, <2>2, <3>1, <3>2, <3>3, ClaimKept DEF EvidenceInv, Honest, Kept,
         ControlType
    <3>o. \A q \in Passes \ {p}: Rests(q)
      BY <1>t, <2>2, <3>2 DEF Rests, ControlType
    <3> QED
      BY <1>h, <1>k, <3>2, <3>o, <3>p, RecordKept, RestIsHonest DEF EvidenceInv
  <2>3. ~session.required => blobs = {}
    BY <1>h, <1>t DEF CoverInv, TicketsCover, UploadType
  <2>4. IsFiniteSet(blobs)
    <3>1. blobs \subseteq Requests
      BY <1>t DEF UploadType
    <3> QED
      BY <3>1, FS_Subset
  <2>5. CASE session.required
    <3>1. PICK page \in Pages(blobs):
              IF page = {} THEN Judge(p, TRUE) /\ UNCHANGED batch
              ELSE /\ batch' = [batch EXCEPT ![p] = page]
                   /\ pc' = [pc EXCEPT ![p] = "erase originals"]
                   /\ UNCHANGED progress
      BY <1>30, <2>5 DEF ListOriginals
    <3>2. page = {} => blobs = {}
      BY <2>4, PageOf
    <3> QED
      BY <2>1, <2>2, <3>1, <3>2
  <2> QED
    BY <1>30, <2>1, <2>3, <2>5 DEF ListOriginals
<1>31. ASSUME NEW p \in Passes, EraseOriginal(p) PROVE EvidenceInv'
  <2>1. pc[p] = "erase originals" /\ record' = record /\ unresolved' = unresolved
    BY <1>31 DEF EraseOriginal, PassOnly
  <2>2. batch'[p] \subseteq batch[p] /\ \A q \in Passes \ {p}: batch'[q] = batch[q]
    BY ZenonT(40), <1>t, <1>31 DEF EraseOriginal, ControlType
  <2>3. Judge(p, FALSE) \/ (pc' = pc /\ progress' = progress)
    BY <1>31 DEF EraseOriginal
  <2>4. (\A c \in Containers: fence[c] = "closed") /\ (p \notin unresolved => NoneUnsettled)
    BY <1>h, <2>1 DEF FenceInv, Behind, EvidenceInv, Honest
  <2>5. CASE Judge(p, FALSE)
    <3>j. pc' = [pc EXCEPT ![p] = "release"] /\ \A q \in Passes \ {p}: progress'[q] = progress[q]
      BY <1>t, <2>5, JudgeEffect
    <3>1. pc'[p] = "release"
      BY <1>t, <3>j DEF ControlType
    <3>2. progress[p].state # "cleanup_verified"
      BY <1>h, <2>1 DEF FinalInv
    <3>p. Honest(p)'
      BY <1>h, <1>k, <1>t, <2>5, <3>1, <3>2, JudgeEffect DEF EvidenceInv, Honest, Evidence, Kept
    <3>o. \A q \in Passes \ {p}: Rests(q)
      BY <1>t, <2>1, <2>2, <3>j DEF Rests, ControlType
    <3> QED
      BY <1>h, <1>k, <2>1, <3>o, <3>p, RecordKept, RestIsHonest DEF EvidenceInv
  <2>6. CASE pc' = pc /\ progress' = progress
    <3>p. Honest(p)'
      BY <1>h, <1>k, <2>1, <2>2, <2>4, <2>6, ClaimKept DEF EvidenceInv, Honest, Kept
    <3>o. \A q \in Passes \ {p}: Rests(q)
      BY <2>1, <2>2, <2>6 DEF Rests
    <3> QED
      BY <1>h, <1>k, <2>1, <3>o, <3>p, RecordKept, RestIsHonest DEF EvidenceInv
  <2> QED
    BY <2>3, <2>5, <2>6
<1>32. ASSUME NEW p \in Passes, QuerySettled(p) PROVE EvidenceInv'
  <2>1. PICK page \in Pages({u \in Uploaders: Open(u)}):
            /\ batch' = [batch EXCEPT ![p] = page]
            /\ pc' = [pc EXCEPT ![p] = IF page = {} THEN "release" ELSE "forget"]
    BY <1>32 DEF QuerySettled
  <2>2. pc[p] = "settled" /\ record' = record /\ unresolved' = unresolved
    BY <1>32 DEF QuerySettled, PassOnly
  <2>3. page \subseteq Uploaders /\ batch'[p] = page /\ pc'[p] \in {"release", "forget"}
    BY <1>t, <2>1 DEF Pages, ControlType
  <2>4. progress[p].attachments
    BY <1>h, <2>2 DEF EvidenceInv, Honest
  <2>p. Honest(p)'
    <3>1. CASE progress' = progress
      BY <1>h, <1>k, <2>3, <2>4, <3>1, ClaimKept DEF EvidenceInv, Honest
    <3>2. CASE /\ {u \in Uploaders: Open(u)} = {} /\ progress[p].messages /\ progress[p].documents
               /\ progress' = [progress EXCEPT ![p] = [@ EXCEPT !.state = "cleanup_verified"]]
      <4>1. NothingLeft
        BY <1>h, <2>4, <3>2 DEF EvidenceInv, Honest, Evidence, NothingLeft
      <4>2. NothingLeft' /\ MessagesGone' /\ DocumentsGone' /\ OriginalsGone'
        BY <1>k, <4>1 DEF Kept, NothingLeft
      <4>3. progress'[p].messages /\ progress'[p].documents /\ progress'[p].attachments
        BY <1>t, <2>4, <3>2 DEF StatusType, Status
      <4>4. Evidence(progress[p])'
        BY <4>2, <4>3 DEF Evidence
      <4> QED
        BY <2>3, <4>3, <4>4 DEF Honest
    <3> QED
      BY <1>32, <3>1, <3>2 DEF QuerySettled
  <2>o. \A q \in Passes \ {p}: Rests(q)
    BY <1>t, <1>32, <2>1, <2>2 DEF QuerySettled, Rests, ControlType, StatusType
  <2> QED
    BY <1>h, <1>k, <2>2, <2>o, <2>p, RecordKept, RestIsHonest DEF EvidenceInv
<1>33. ASSUME NEW p \in Passes, ForgetTicket(p) PROVE EvidenceInv'
  <2>o. \A q \in Passes \ {p}: Rests(q)
    BY <1>t, <1>33 DEF ForgetTicket, PassOnly, ControlType, StatusType, Rests
  <2>r. Evidence(record)'
    BY <1>h, <1>k, <1>33, RecordKept DEF EvidenceInv, ForgetTicket, PassOnly
  <2>1. pc'[p] \in {"release", "forget"} /\ progress'[p] = progress[p] /\ pc[p] = "forget"
    BY <1>t, <1>33 DEF ForgetTicket, ControlType
  <2>2. batch'[p] \subseteq batch[p]
    BY <1>t, <1>33 DEF ForgetTicket, ControlType
  <2>p. Honest(p)'
    BY <1>h, <1>k, <2>1, <2>2, ClaimKept DEF EvidenceInv, Honest
  <2> QED
    BY <1>h, <1>k, <1>t, <2>o, <2>r, <2>p, RestIsHonest DEF EvidenceInv
<1>34. ASSUME NEW p \in Passes, Release(p) PROVE EvidenceInv'
  <2>1. CASE holder = p
    <3>1. record' = progress[p] /\ Leave(p)
      BY <1>34, <2>1 DEF Release
    <3>2. Evidence(record)'
      BY <1>h, <1>k, <3>1, ClaimWritten DEF EvidenceInv, Honest
    <3>3. Honest(p)' /\ \A q \in Passes \ {p}: Rests(q)
      BY <1>t, <3>1, LeaveRests, LeaveFresh, FreshIsHonest
    <3> QED
      BY <1>h, <1>k, <3>2, <3>3, RestIsHonest DEF EvidenceInv
  <2>2. CASE holder # p
    <3>1. ToReport(p) /\ record' = record
      BY <1>34, <2>2 DEF Release
    <3> QED
      BY <1>h, <1>k, <1>t, <3>1, RecordKept, ReportIsHonest, RestIsHonest DEF EvidenceInv
  <2> QED
    BY <2>1, <2>2
<1>35. ASSUME NEW p \in Passes, Report(p) PROVE EvidenceInv'
  <2>1. CASE holder = p
    <3>1. record' = progress[p] /\ Leave(p)
      BY <1>35, <2>1 DEF Report
    <3>2. Evidence(record)'
      BY <1>h, <1>k, <3>1, ClaimWritten DEF EvidenceInv, Honest
    <3>3. Honest(p)' /\ \A q \in Passes \ {p}: Rests(q)
      BY <1>t, <3>1, LeaveRests, LeaveFresh, FreshIsHonest
    <3> QED
      BY <1>h, <1>k, <3>2, <3>3, RestIsHonest DEF EvidenceInv
  <2>2. CASE holder # p
    <3>1. record' = record /\ Leave(p)
      BY <1>35, <2>2 DEF Report
    <3>3. Honest(p)' /\ \A q \in Passes \ {p}: Rests(q)
      BY <1>t, <3>1, LeaveRests, LeaveFresh, FreshIsHonest
    <3> QED
      BY <1>h, <1>k, <3>1, <3>3, RecordKept, RestIsHonest DEF EvidenceInv
  <2> QED
    BY <2>1, <2>2
<1>36. ASSUME NEW p \in Passes, CallFails(p) PROVE EvidenceInv'
  <2>1. ToReport(p) /\ record' = record
    BY <1>36 DEF CallFails
  <2> QED
    BY <1>h, <1>k, <1>t, <2>1, RecordKept, ReportIsHonest, RestIsHonest DEF EvidenceInv
<1>37. ASSUME NEW p \in Passes, CheckpointUnknown(p) PROVE EvidenceInv'
  <2>1. ToReport(p) /\ record' = progress[p]
    BY <1>37 DEF CheckpointUnknown
  <2>2. Evidence(record)'
    BY <1>h, <1>k, <2>1, ClaimWritten DEF EvidenceInv, Honest
  <2> QED
    BY <1>h, <1>k, <1>t, <2>1, <2>2, ReportIsHonest, RestIsHonest DEF EvidenceInv
<1>38. ASSUME NEW p \in Passes, OtherStore(p) PROVE EvidenceInv'
  <2> DEFINE failed == [progress[p] EXCEPT !.state = "retryable", !.reason = "failed",
                                           !.attachments = FALSE]
  <2>1. /\ failed.messages = progress[p].messages /\ failed.documents = progress[p].documents
        /\ failed.attachments = FALSE /\ failed.state = "retryable"
    BY <1>t DEF StatusType, Status
  <2>2. progress' = [progress EXCEPT ![p] = failed] /\ pc' = [pc EXCEPT ![p] = "release"]
        /\ batch' = batch /\ unresolved' = unresolved /\ record' = record
    BY <1>38 DEF OtherStore
  <2> HIDE DEF failed
  <2>3. progress'[p] = failed /\ pc'[p] = "release"
    BY <1>t, <2>2 DEF StatusType, ControlType
  <2>p. Honest(p)'
    BY <1>h, <1>k, <2>1, <2>3 DEF EvidenceInv, Honest, Evidence, Kept
  <2>o. \A q \in Passes \ {p}: Rests(q)
    BY <1>t, <2>2 DEF Rests, StatusType, ControlType
  <2> QED
    BY <1>h, <1>k, <2>2, <2>o, <2>p, RecordKept, RestIsHonest DEF EvidenceInv
<1>39. CASE LeaseExpires
  <2>1. \A q \in Passes: Rests(q)
    BY <1>39 DEF LeaseExpires, Rests
  <2>2. record' = record
    BY <1>39 DEF LeaseExpires
  <2> QED
    BY <1>h, <1>k, <2>1, <2>2, RecordKept, RestIsHonest DEF EvidenceInv
<1>40. ASSUME NEW a \in Actors, Crash(a) PROVE EvidenceInv'
  <2>1. Leave(a) /\ record' = record
    BY <1>40 DEF Crash
  <2>2. \A q \in Passes: Honest(q)'
    BY <1>h, <1>k, <1>t, <2>1, LeaveRests, LeaveFresh, FreshIsHonest, RestIsHonest DEF
       EvidenceInv
  <2> QED
    BY <1>h, <1>k, <2>1, <2>2, RecordKept DEF EvidenceInv
<1>41. CASE UNCHANGED vars
  BY <1>h, <1>t, <1>k, RecordKept, RestIsHonest, <1>41 DEF vars, EvidenceInv, Rests
<1> QED
  BY <1>1, <1>2, <1>3, <1>4, <1>5, <1>6, <1>7, <1>8, <1>9, <1>10, <1>11, <1>12, <1>13, <1>14,
     <1>15, <1>16, <1>17, <1>18, <1>19, <1>20, <1>21, <1>22, <1>23, <1>24, <1>25, <1>26, <1>27,
     <1>28, <1>29, <1>30, <1>31, <1>32, <1>33, <1>34, <1>35, <1>36, <1>37, <1>38, <1>39, <1>40,
     <1>41 DEF Next, Create, Write, Upload, Reconcile, Faults

\* No step publishes, reopens or adds what NothingReturns rules out.
LEMMA StaysStep == IInv /\ [Next]_vars => Stays
<1> SUFFICES ASSUME IInv, [Next]_vars PROVE Stays
  OBVIOUS
<1> USE DeletionAssumption DEF Requests, Actors, Containers, Go, deletion, partitions, uploads,
   local, Work, Stays, Deleting, Absent
<1>h. TypeInv /\ StartInv /\ FenceInv
  BY DEF IInv
<1>t. ControlType /\ UploadType /\ ChildType
  BY <1>h DEF TypeInv
<1>1. CASE Reserve
  BY <1>h, <1>t, <1>1 DEF Reserve, Others, FenceInv, UploadType, ChildType, StartInv,
     ControlType
<1>2. CASE CreateFence
  <2>1. session' = session /\ rows' = rows
    BY <1>2 DEF CreateFence, Leave, Gone
  <2>2. \A c \in Containers: fence[c] = "closed" => fence'[c] = "closed"
    BY <1>t, <1>2 DEF CreateFence, ChildType
  <2> QED
    BY <1>h, <2>1, <2>2 DEF StartInv
<1>3. CASE Publish
  BY <1>h, <1>t, <1>3 DEF Publish, Others, FenceInv, UploadType, ChildType
<1>4. ASSUME NEW a \in Requests, ReadFence(a) PROVE Stays
  BY <1>h, <1>t, <1>4 DEF ReadFence, Others, FenceInv, UploadType, ChildType
<1>5. ASSUME NEW a \in Requests, LostRace(a) PROVE Stays
  BY <1>h, <1>t, <1>5 DEF LostRace, Others, FenceInv, UploadType, ChildType
<1>6. ASSUME NEW w \in Writers, BeginWrite(w) PROVE Stays
  BY <1>h, <1>t, <1>6 DEF BeginWrite, Access, Active, Others, FenceInv, UploadType, ChildType
<1>7. ASSUME NEW w \in Writers, WriteMessage(w) PROVE Stays
  BY <1>h, <1>t, <1>7 DEF WriteMessage, Fenced, Others, FenceInv, UploadType, ChildType
<1>8. ASSUME NEW w \in Writers, RemoveDocument(w) PROVE Stays
  BY <1>h, <1>t, <1>8 DEF RemoveDocument, Fenced, Others, FenceInv, UploadType, ChildType
<1>9. ASSUME NEW w \in Writers, PurgeOriginal(w) PROVE Stays
  BY <1>h, <1>t, <1>9 DEF PurgeOriginal, Others, FenceInv, UploadType, ChildType
<1>10. ASSUME NEW u \in Uploaders, BeginText(u) PROVE Stays
  BY <1>h, <1>t, <1>10 DEF BeginText, Access, Active, Others, FenceInv, UploadType, ChildType
<1>11. ASSUME NEW u \in Uploaders, BeginUpload(u) PROVE Stays
  BY <1>h, <1>t, <1>11 DEF BeginUpload, Active, Others, FenceInv, UploadType, ChildType
<1>12. ASSUME NEW u \in Uploaders, ReadTicketFence(u) PROVE Stays
  BY <1>h, <1>t, <1>12 DEF ReadTicketFence, Others, FenceInv, UploadType, ChildType
<1>13. ASSUME NEW u \in Uploaders, CreateTicket(u) PROVE Stays
  BY <1>h, <1>t, <1>13 DEF CreateTicket, Fenced, Others, FenceInv, UploadType, ChildType
<1>14. ASSUME NEW u \in Uploaders, LostTicketRace(u) PROVE Stays
  BY <1>h, <1>t, <1>14 DEF LostTicketRace, Others, FenceInv, UploadType, ChildType
<1>15. ASSUME NEW u \in Uploaders, StartPut(u) PROVE Stays
  BY <1>h, <1>t, <1>15 DEF StartPut, At, Others, FenceInv, UploadType, ChildType
<1>16. ASSUME NEW u \in Uploaders, PutLands(u) PROVE Stays
  BY <1>h, <1>t, <1>16 DEF PutLands, Others, FenceInv, UploadType, ChildType
<1>17. ASSUME NEW u \in Uploaders, PutReturns(u) PROVE Stays
  BY <1>h, <1>t, <1>17 DEF PutReturns, At, Others, FenceInv, UploadType, ChildType
<1>18. ASSUME NEW u \in Uploaders, PutFails(u) PROVE Stays
  BY <1>h, <1>t, <1>18 DEF PutFails, At, Others, FenceInv, UploadType, ChildType
<1>19. ASSUME NEW u \in Uploaders, Settle(u) PROVE Stays
  BY <1>h, <1>t, <1>19 DEF Settle, Others, FenceInv, UploadType, ChildType
<1>20. ASSUME NEW u \in Uploaders, BeginAdd(u) PROVE Stays
  BY <1>h, <1>t, <1>20 DEF BeginAdd, Access, Active, Others, FenceInv, UploadType, ChildType
<1>21. ASSUME NEW u \in Uploaders, AddDocument(u) PROVE Stays
  BY <1>h, <1>t, <1>21 DEF AddDocument, Fenced, Others, FenceInv, UploadType, ChildType
<1>22. ASSUME NEW a \in Requests, Denied(a) PROVE Stays
  BY <1>h, <1>t, <1>22 DEF Denied, Deleting, Others, FenceInv, UploadType, ChildType
<1>23. CASE BeginDeletion
  BY <1>h, <1>t, <1>23 DEF BeginDeletion, FenceInv, UploadType, ChildType
<1>24. ASSUME NEW p \in Passes, Claim(p) PROVE Stays
  BY <1>h, <1>t, <1>24 DEF Claim, Deleting, Claimable, FenceInv, UploadType, ChildType
<1>25. ASSUME NEW p \in Passes, CloseFence(p) PROVE Stays
  BY <1>h, <1>t, <1>25 DEF CloseFence, Closed, PassOnly, FenceInv, UploadType, ChildType
<1>26. ASSUME NEW p \in Passes, Checkpoint(p) PROVE Stays
  BY <1>h, <1>t, <1>26 DEF Checkpoint, AfterCheckpoint, FenceInv, UploadType, ChildType
<1>27. ASSUME NEW p \in Passes, QueryRows(p) PROVE Stays
  BY <1>h, <1>t, <1>27 DEF QueryRows, Closed, Following, PassOnly, FenceInv, UploadType,
     ChildType
<1>28. ASSUME NEW p \in Passes, EraseRow(p) PROVE Stays
  BY <1>h, <1>t, <1>28 DEF EraseRow, Following, PassOnly, FenceInv, UploadType, ChildType
<1>29. ASSUME NEW p \in Passes, QueryUnsettled(p) PROVE Stays
  BY <1>h, <1>t, <1>29 DEF QueryUnsettled, At, Closed, PassOnly, FenceInv, UploadType, ChildType
<1>30. ASSUME NEW p \in Passes, ListOriginals(p) PROVE Stays
  BY <1>h, <1>t, <1>30 DEF ListOriginals, PassOnly, FenceInv, UploadType, ChildType
<1>31. ASSUME NEW p \in Passes, EraseOriginal(p) PROVE Stays
  BY <1>h, <1>t, <1>31 DEF EraseOriginal, PassOnly, FenceInv, UploadType, ChildType
<1>32. ASSUME NEW p \in Passes, QuerySettled(p) PROVE Stays
  BY <1>h, <1>t, <1>32 DEF QuerySettled, Closed, PassOnly, FenceInv, UploadType, ChildType
<1>33. ASSUME NEW p \in Passes, ForgetTicket(p) PROVE Stays
  BY <1>h, <1>t, <1>33 DEF ForgetTicket, PassOnly, FenceInv, UploadType, ChildType
<1>34. ASSUME NEW p \in Passes, Release(p) PROVE Stays
  BY <1>h, <1>t, <1>34 DEF Release, ReleasedLease, NoLease, FenceInv, UploadType, ChildType
<1>35. ASSUME NEW p \in Passes, Report(p) PROVE Stays
  BY <1>h, <1>t, <1>35 DEF Report, ReleasedLease, NoLease, FenceInv, UploadType, ChildType
<1>36. ASSUME NEW p \in Passes, CallFails(p) PROVE Stays
  BY <1>h, <1>t, <1>36 DEF CallFails, Working, Fault, FenceInv, UploadType, ChildType
<1>37. ASSUME NEW p \in Passes, CheckpointUnknown(p) PROVE Stays
  BY <1>h, <1>t, <1>37 DEF CheckpointUnknown, Fault, ReleasedLease, NoLease, FenceInv,
     UploadType, ChildType
<1>38. ASSUME NEW p \in Passes, OtherStore(p) PROVE Stays
  BY <1>h, <1>t, <1>38 DEF OtherStore, FenceInv, UploadType, ChildType
<1>39. CASE LeaseExpires
  BY <1>h, <1>t, <1>39 DEF LeaseExpires, FenceInv, UploadType, ChildType
<1>40. ASSUME NEW a \in Actors, Crash(a) PROVE Stays
  BY <1>h, <1>t, <1>40 DEF Crash, Working, Fault, FenceInv, UploadType, ChildType
<1>41. CASE UNCHANGED vars
  BY <1>h, <1>t, <1>41 DEF vars
<1> QED
  BY <1>1, <1>2, <1>3, <1>4, <1>5, <1>6, <1>7, <1>8, <1>9, <1>10, <1>11, <1>12, <1>13, <1>14,
     <1>15, <1>16, <1>17, <1>18, <1>19, <1>20, <1>21, <1>22, <1>23, <1>24, <1>25, <1>26, <1>27,
     <1>28, <1>29, <1>30, <1>31, <1>32, <1>33, <1>34, <1>35, <1>36, <1>37, <1>38, <1>39, <1>40,
     <1>41 DEF Next, Create, Write, Upload, Reconcile, Faults

-----------------------------------------------------------------------------
(* The invariant and what follows from it.                                   *)

\* The conversation does not exist yet, so nothing is claimed of it.
LEMMA Initially == Init => IInv
<1> SUFFICES ASSUME Init PROVE IInv
  OBVIOUS
<1> USE DeletionAssumption DEF Init, Absent, NewStatus, NoLease
<1>1. TypeInv
  BY DEF TypeInv, ControlType, ChildType, UploadType, StatusType, LeaseType, Status, Steps,
         Containers, Actors, Requests, Rows
<1>2. StartInv
  BY DEF StartInv, Actors, Requests, Deleting
<1>3. FenceInv
  BY DEF FenceInv, Behind, Containers, Actors
<1>4. CoverInv
  BY DEF CoverInv, TicketsCover, Open, Actors, Requests
<1>5. EvidenceInv
  BY DEF EvidenceInv, Honest, Evidence, Actors
<1>6. FinalInv
  BY DEF FinalInv
<1> QED
  BY <1>1, <1>2, <1>3, <1>4, <1>5, <1>6 DEF IInv

\* Every step of a request, a pass, an upload or a fault keeps the invariant.
LEMMA Inductive == IInv /\ [Next]_vars => IInv'
<1> SUFFICES ASSUME IInv, [Next]_vars PROVE IInv'
  OBVIOUS
<1>1. TypeInv'
  BY ControlStep, ChildStep, UploadStep, StatusStep, LeaseStep DEF TypeInv
<1> QED
  BY <1>1, StartStep, FenceStep, CoverStep, EvidenceStep, FinalStep DEF IInv

\* The inductive invariant holds in every reachable state.
THEOREM Invariant == Spec => []IInv
BY Initially, Inductive, PTL DEF Spec

\* Every reachable state is well typed, for any number of requests, uploads and passes.
THEOREM TypeCorrect == Spec => []TypeOK
<1>1. IInv => TypeOK
  BY DEF IInv, TypeInv, ControlType, ChildType, UploadType, StatusType, LeaseType, TypeOK
<1> QED
  BY <1>1, Invariant, PTL

\* Whatever the tombstone says was verified is so (DeletionStatus, the flags a
\* client is shown): whoever wrote before, whichever pass wrote last, and however
\* late a PUT lands.
THEOREM EvidenceTrue == Spec => []EvidenceHolds
<1>1. IInv => EvidenceHolds
  <2> SUFFICES ASSUME IInv PROVE EvidenceHolds
    OBVIOUS
  <2>1. Evidence(record)
    BY DEF IInv, EvidenceInv
  <2>2. NoneUnsettled => \A u \in Uploaders: tickets[u] # "unsettled" /\ put[u] # "out"
    BY DEF IInv, CoverInv, TicketsCover, NoneUnsettled
  <2> QED
    BY <2>1, <2>2 DEF Evidence, EvidenceHolds, MessagesGone, DocumentsGone, OriginalsGone,
                      NothingLeft
<1> QED
  BY <1>1, Invariant, PTL

\* No original is stored, or on its way, without a ticket that holds a cleanup up
\* (reserve_attachment_upload and settle_attachment_upload).
THEOREM UploadsCovered == Spec => []TicketsCover
<1>1. IInv => TicketsCover
  BY DEF IInv, CoverInv
<1> QED
  BY <1>1, Invariant, PTL

\* No pass that lost its lease or an acknowledgement writes over a verified
\* tombstone (claim_deletion and checkpoint_deletion).
THEOREM VerdictStands == Spec => VerifiedIsFinal
<1>1. IInv /\ [Next]_vars => [record.state = "cleanup_verified" => record' = record]_vars
  <2> SUFFICES ASSUME IInv, Next, record.state = "cleanup_verified" PROVE record' = record
    BY DEF vars, deletion
  <2>1. holder = None /\ Deleting
    BY DEF IInv, FinalInv
  <2>2. None \notin Passes
    BY DeletionAssumption DEF Actors
  <2> USE DEF deletion, Others, PassOnly
  <2>3. ASSUME NEW p \in Passes, Reconcile(p) PROVE record' = record
    BY <2>1, <2>2, <2>3 DEF Reconcile, Claim, CloseFence, Checkpoint, QueryRows, EraseRow,
       QueryUnsettled, ListOriginals, EraseOriginal, QuerySettled, ForgetTicket, Release, Report
  <2>4. ASSUME Faults PROVE record' = record
    BY <2>1, <2>2, <2>4 DEF Faults, Crash, CallFails, CheckpointUnknown, OtherStore
  <2>5. ASSUME Create PROVE record' = record
    BY <2>5 DEF Create, Reserve, CreateFence, Publish
  <2>6. ASSUME NEW w \in Writers, Write(w) \/ Denied(w) PROVE record' = record
    BY <2>6 DEF Write, Denied, BeginWrite, Access, ReadFence, LostRace, WriteMessage,
       RemoveDocument, PurgeOriginal
  <2>7. ASSUME NEW u \in Uploaders, Upload(u) \/ PutLands(u) \/ Denied(u) PROVE record' = record
    BY <2>7 DEF Upload, Denied, PutLands, BeginText, BeginUpload, Access, ReadTicketFence,
       CreateTicket, LostTicketRace, StartPut, PutReturns, PutFails, Settle, BeginAdd, ReadFence,
       LostRace, AddDocument
  <2>8. ~BeginDeletion
    BY <2>1 DEF BeginDeletion, Deleting
  <2> QED
    BY <2>3, <2>4, <2>5, <2>6, <2>7, <2>8 DEF Next, LeaseExpires
<1> QED
  BY <1>1, Invariant, PTL DEF Spec, VerifiedIsFinal

\* A deleted conversation is not published, a closed fence is not reopened, and
\* nothing is added behind it (_create_fenced_session, _fenced_batch and
\* _closed_fence_barrier).
THEOREM StaysGone == Spec => NothingReturns
<1>1. IInv /\ [Next]_vars => [Stays]_vars
  BY StaysStep
<1>2. [Stays]_vars <=> [/\ Deleting => session'.kind = "tombstone"
                        /\ \A c \in Containers: fence[c] = "closed"
                              => fence'[c] = "closed" /\ rows'[c] \subseteq rows[c]]_vars
  BY DEF Stays
<1> QED
  BY <1>1, <1>2, Invariant, PTL DEF Spec, NothingReturns

=============================================================================
