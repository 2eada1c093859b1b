-------------------------- MODULE SessionDeletion --------------------------
(* Resumable deletion of one version-1 conversation (sessions/               *)
(* cosmos_deletion.py, deletion_service.py): the conversation record, the     *)
(* fences of its message and document partitions, upload tickets and the      *)
(* retained originals in the Blob store, against the request that creates the *)
(* conversation, requests that write to it, uploads whose PUT may land after  *)
(* their client gave up, and overlapping cleanup passes.                      *)
(* A read of one document followed by its conditional replace, tried again    *)
(* after a lost race and with nothing kept in between, is one step; a fence   *)
(* that is read for a later batch is not.                                     *)
EXTENDS Naturals, FiniteSets

CONSTANTS
    Writers,     \* requests that add or remove a message, or remove a document
    Uploaders,   \* requests that upload a document
    Passes,      \* executions of reconcile
    Creator,     \* the request that creates the conversation
    ChatHead,    \* the control row that goes with the messages of a user
    Page,        \* CLEANUP_ITEMS
    MaxFaults,   \* bound: crashes, failed calls and stalls
    None

Containers == {"messages", "documents"}
Requests == Writers \cup Uploaders
Actors == Requests \cup Passes \cup {Creator}
Rows == Requests \cup {ChatHead}

ASSUME DeletionAssumption ==
    /\ Page \in Nat \ {0}
    /\ MaxFaults \in Nat
    /\ Writers \cap Uploaders = {}
    /\ Passes \cap (Requests \cup {Creator}) = {}
    /\ Creator \notin Requests
    /\ IsFiniteSet(Requests)
    /\ {None, ChatHead} \cap Actors = {}

VARIABLES
    session,    \* the conversation record: its kind and attachmentStorageRequired
    record,     \* DeletionRecord.status, once the record is a tombstone
    lease,      \* its lease: whose token, and not expired
    holder,     \* the pass whose copy of the tombstone is the stored one
    fence,      \* the fence of each partition
    fresh,      \* requests whose copy of a fence is the stored one
    rows,       \* the rows of each partition, named after the request that made them
    tickets,    \* UploadIntent of each upload
    put,        \* the Blob PUT of each upload
    blobs,      \* retained originals
    pc, on,     \* each actor's next step, and the partition it works on
    batch,      \* rows, originals or tickets an actor has still to remove
    progress,   \* the status a pass is going to write
    unresolved, \* passes that found an unsettled ticket
    faults

deletion == <<record, lease, holder>>
partitions == <<fence, fresh, rows>>
uploads == <<tickets, put, blobs>>
local == <<pc, on, batch, progress, unresolved>>
vars == <<session, deletion, partitions, uploads, local, faults>>

Absent == "absent"
NewStatus == [state |-> "pending", reason |-> "none",
              messages |-> FALSE, documents |-> FALSE, attachments |-> FALSE]
NoLease == [token |-> None, live |-> FALSE]

Deleting == session.kind = "tombstone"
Active == session.kind = "active"

Init ==
    /\ session = [kind |-> Absent, required |-> FALSE]
    /\ record = NewStatus
    /\ lease = NoLease
    /\ holder = None
    /\ fence = [c \in Containers |-> Absent]
    /\ fresh = [c \in Containers |-> {}]
    /\ rows = [c \in Containers |-> {}]
    /\ tickets = [u \in Uploaders |-> Absent]
    /\ put = [u \in Uploaders |-> Absent]
    /\ blobs = {}
    /\ pc = [a \in Actors |-> "idle"]
    /\ on = [a \in Actors |-> "messages"]
    /\ batch = [a \in Actors |-> {}]
    /\ progress = [p \in Passes |-> NewStatus]
    /\ unresolved = {}
    /\ faults = 0

Go(a, to) == pc' = [pc EXCEPT ![a] = to]

At(a, step, to) ==
    /\ pc[a] = step
    /\ Go(a, to)

\* A request is served once; a pass may be asked for again.
Gone(a) == IF a \in Passes THEN "idle" ELSE "done"

Leave(a) ==
    /\ Go(a, Gone(a))
    /\ on' = [on EXCEPT ![a] = "messages"]
    /\ batch' = [batch EXCEPT ![a] = {}]
    /\ progress' = IF a \in Passes THEN [progress EXCEPT ![a] = NewStatus] ELSE progress
    /\ unresolved' = unresolved \ {a}

\* What a step of a request leaves alone besides the variables it names.
Work == <<batch, progress, unresolved>>
Others == UNCHANGED <<deletion, faults>>

-----------------------------------------------------------------------------
(* _create_fenced_session: reservation, two fences, publication.             *)

Reserve ==
    /\ pc[Creator] = "idle"
    /\ \E required \in BOOLEAN: session' = [kind |-> "initializing", required |-> required]
    /\ Go(Creator, "fence")
    /\ UNCHANGED <<partitions, uploads, on, Work>> /\ Others

\* A fence that exists already is never adopted or reopened.
CreateFence ==
    LET c == on[Creator]
    IN  /\ pc[Creator] = "fence"
        /\ IF fence[c] # Absent
           THEN Leave(Creator) /\ UNCHANGED partitions
           ELSE /\ fence' = [fence EXCEPT ![c] = "open"]
                /\ Go(Creator, IF c = "messages" THEN "fence" ELSE "publish")
                /\ on' = [on EXCEPT ![Creator] = "documents"]
                /\ UNCHANGED <<fresh, rows, Work>>
        /\ UNCHANGED <<session, uploads>> /\ Others

\* Only over the reservation itself: a discard in between has changed its ETag.
Publish ==
    /\ pc[Creator] = "publish"
    /\ session' = IF session.kind = "initializing" THEN [session EXCEPT !.kind = "active"]
                                                   ELSE session
    /\ Leave(Creator)
    /\ UNCHANGED <<partitions, uploads>> /\ Others

-----------------------------------------------------------------------------
(* Ordinary writes: _active_raw, then _fenced_batch.                         *)

\* The conditional patch of the parent: a stale read grants nothing.
Access(a, c, to) ==
    /\ Active
    /\ Go(a, to)
    /\ on' = [on EXCEPT ![a] = c]
    /\ UNCHANGED <<session, partitions, uploads, Work>> /\ Others

BeginWrite(w) == pc[w] = "idle" /\ \E c \in Containers: Access(w, c, "read")

\* The fence is read; a closed one ends the request.
ReadFence(a) ==
    LET c == on[a]
    IN  /\ pc[a] = "read"
        /\ IF fence[c] = "open"
           THEN /\ fresh' = [fresh EXCEPT ![c] = @ \cup {a}]
                /\ Go(a, "write")
                /\ UNCHANGED <<on, Work>>
           ELSE Leave(a) /\ UNCHANGED fresh
        /\ UNCHANGED <<session, fence, rows, uploads>> /\ Others

\* Mutant of Fenced: the batch does not carry the fence's ETag.
FencedBlindly(a, c) == fresh' = [fresh EXCEPT ![c] = {}] /\ UNCHANGED fence

\* The batch replaces the fence it read together with the rows it changes.
Fenced(a, c) ==
    /\ a \in fresh[c]
    /\ fresh' = [fresh EXCEPT ![c] = {}]
    /\ UNCHANGED fence

\* The fence changed since it was read: read again, or give up after
\* CAS_ATTEMPTS.
LostRace(a) ==
    /\ pc[a] = "write"
    /\ a \notin fresh[on[a]]
    /\ \/ Go(a, "read") /\ UNCHANGED <<on, Work>>
       \/ Leave(a)
    /\ UNCHANGED <<session, partitions, uploads>> /\ Others

\* A user's message moves the control row of the turn in its own batch.
WriteMessage(w) ==
    /\ pc[w] = "write" /\ on[w] = "messages"
    /\ Fenced(w, "messages")
    /\ \/ \E added \in {{w}, {w, ChatHead}}: rows' = [rows EXCEPT !.messages = @ \cup added]
       \/ \E m \in rows.messages \ {ChatHead}: rows' = [rows EXCEPT !.messages = @ \ {m}]
    /\ Leave(w)
    /\ UNCHANGED <<session, uploads>> /\ Others

\* delete_document; the original is purged after it, as well as may be.
RemoveDocument(w) ==
    /\ pc[w] = "write" /\ on[w] = "documents"
    /\ Fenced(w, "documents")
    /\ \E d \in rows.documents:
          /\ rows' = [rows EXCEPT !.documents = @ \ {d}]
          /\ batch' = [batch EXCEPT ![w] = {d}]
    /\ Go(w, "purge")
    /\ UNCHANGED <<session, uploads, on, progress, unresolved>> /\ Others

PurgeOriginal(w) ==
    /\ pc[w] = "purge"
    /\ blobs' \in {blobs, blobs \ batch[w]}
    /\ Leave(w)
    /\ UNCHANGED <<session, partitions, tickets, put>> /\ Others

Write(w) == BeginWrite(w) \/ ReadFence(w) \/ LostRace(w) \/ WriteMessage(w)
              \/ RemoveDocument(w) \/ PurgeOriginal(w)

-----------------------------------------------------------------------------
(* upload_document: ticket, PUT, acknowledgement, row.                       *)

\* The original is not retained, or the conversation is asked for it: the exact
\* store is recorded on the active parent first.
BeginText(u) == pc[u] = "idle" /\ Access(u, "documents", "read")

BeginUpload(u) ==
    /\ pc[u] = "idle"
    /\ Active
    /\ session' = [session EXCEPT !.required = TRUE]
    /\ Go(u, "readTicket")
    /\ on' = [on EXCEPT ![u] = "documents"]
    /\ UNCHANGED <<partitions, uploads, Work>> /\ Others

ReadTicketFence(u) ==
    /\ pc[u] = "readTicket"
    /\ IF fence.documents = "open"
       THEN /\ fresh' = [fresh EXCEPT !.documents = @ \cup {u}]
            /\ Go(u, "ticket")
            /\ UNCHANGED <<on, Work>>
       ELSE Leave(u) /\ UNCHANGED fresh
    /\ UNCHANGED <<session, fence, rows, uploads>> /\ Others

CreateTicket(u) ==
    /\ pc[u] = "ticket"
    /\ Fenced(u, "documents")
    /\ tickets' = [tickets EXCEPT ![u] = "unsettled"]
    /\ Go(u, "put")
    /\ UNCHANGED <<session, rows, put, blobs, on, Work>> /\ Others

LostTicketRace(u) ==
    /\ pc[u] = "ticket"
    /\ u \notin fresh.documents
    /\ \/ Go(u, "readTicket") /\ UNCHANGED <<on, Work>>
       \/ Leave(u)
    /\ UNCHANGED <<session, partitions, uploads>> /\ Others

StartPut(u) ==
    /\ At(u, "put", "wait")
    /\ put' = [put EXCEPT ![u] = "out"]
    /\ UNCHANGED <<session, partitions, tickets, blobs, on, Work>> /\ Others

\* The store performs a PUT, or never will; the client may be gone by then.
PutLands(u) ==
    /\ put[u] = "out"
    /\ \/ put' = [put EXCEPT ![u] = "landed"] /\ blobs' = blobs \cup {u}
       \/ put' = [put EXCEPT ![u] = "lost"] /\ UNCHANGED blobs
    /\ UNCHANGED <<session, partitions, tickets, local>> /\ Others

\* Mutant of PutReturns: an error of the client is taken for the end of the PUT.
PutReturnsAnyhow(u) ==
    /\ At(u, "wait", "settle")
    /\ UNCHANGED <<session, partitions, uploads, on, Work>> /\ Others

PutReturns(u) ==
    /\ put[u] = "landed"
    /\ At(u, "wait", "settle")
    /\ UNCHANGED <<session, partitions, uploads, on, Work>> /\ Others

\* An error or a timeout proves nothing: the ticket stays, the text is kept.
PutFails(u) ==
    /\ At(u, "wait", "add")
    /\ UNCHANGED <<session, partitions, uploads, on, Work>> /\ Others

\* settle_attachment_upload: also after the deletion was asked for.
Settle(u) ==
    /\ pc[u] = "settle"
    /\ IF tickets[u] = "unsettled"
       THEN tickets' = [tickets EXCEPT ![u] = "settled"] /\ Go(u, "add") /\ UNCHANGED <<on, Work>>
       ELSE Leave(u) /\ UNCHANGED tickets
    /\ UNCHANGED <<session, partitions, put, blobs>> /\ Others

BeginAdd(u) == pc[u] = "add" /\ Access(u, "documents", "read")

AddDocument(u) ==
    /\ pc[u] = "write"
    /\ Fenced(u, "documents")
    /\ rows' = [rows EXCEPT !.documents = @ \cup {u}]
    /\ Leave(u)
    /\ UNCHANGED <<session, uploads>> /\ Others

\* The conversation is gone for a request that asks for it.
Denied(a) ==
    /\ pc[a] \in {"idle", "add"}
    /\ Deleting
    /\ Leave(a)
    /\ UNCHANGED <<session, partitions, uploads>> /\ Others

Upload(u) ==
    \/ BeginText(u) \/ BeginUpload(u) \/ ReadTicketFence(u) \/ CreateTicket(u)
    \/ LostTicketRace(u) \/ StartPut(u) \/ PutReturns(u) \/ PutFails(u) \/ Settle(u)
    \/ BeginAdd(u) \/ ReadFence(u) \/ LostRace(u) \/ AddDocument(u)

-----------------------------------------------------------------------------
(* begin_deletion, claim_deletion, checkpoint_deletion.                      *)

\* The owner's request replaces the parent, or the reservation, for good.
BeginDeletion ==
    /\ session.kind \in {"active", "initializing"}
    /\ session' = [session EXCEPT !.kind = "tombstone"]
    /\ record' = NewStatus
    /\ UNCHANGED <<lease, holder, partitions, uploads, local, faults>>

\* Mutant of Claimable: a lease is free only once it was given back.
ClaimableIfReleased == lease.token = None

Claimable == lease.token = None \/ ~lease.live

Claim(p) ==
    /\ pc[p] = "idle"
    /\ Deleting
    /\ record.state # "cleanup_verified"
    /\ Claimable
    /\ lease' = [token |-> p, live |-> TRUE]
    /\ holder' = p
    /\ record' = [record EXCEPT !.state = "pending", !.reason = "none"]
    /\ progress' = [progress EXCEPT ![p] = record']
    /\ Go(p, "close")
    /\ UNCHANGED <<session, partitions, uploads, on, batch, unresolved, faults>>

\* The lease runs out while its pass is gone, or while it stalls.
LeaseExpires ==
    /\ lease.live
    /\ lease' = [lease EXCEPT !.live = FALSE]
    /\ \/ pc[lease.token] = "idle" /\ UNCHANGED faults
       \/ pc[lease.token] # "idle" /\ faults < MaxFaults /\ faults' = faults + 1
    /\ UNCHANGED <<session, record, holder, partitions, uploads, local>>

-----------------------------------------------------------------------------
(* reconcile: one bounded pass.                                              *)

PassOnly == UNCHANGED <<session, deletion, faults>>

\* _closed_fence_barrier: an open fence is closed, a missing one created closed.
Closed(c) ==
    /\ fence' = [fence EXCEPT ![c] = "closed"]
    /\ fresh' = [fresh EXCEPT ![c] = {}]

\* close_deletion_fences, one partition after the other.
CloseFence(p) ==
    /\ pc[p] = "close"
    /\ Closed(on[p])
    /\ IF on[p] = "messages"
       THEN on' = [on EXCEPT ![p] = "documents"] /\ UNCHANGED pc
       ELSE on' = [on EXCEPT ![p] = "messages"] /\ Go(p, "checkpoint")
    /\ UNCHANGED <<rows, uploads, Work>> /\ PassOnly

\* The lost lease: its pass still tries to report, over the copy it has.
ToReport(p) ==
    /\ progress' = [progress EXCEPT ![p] = [@ EXCEPT !.state = "retryable", !.reason = "failed",
                                                     !.attachments = FALSE]]
    /\ Go(p, "report")
    /\ batch' = [batch EXCEPT ![p] = {}]
    /\ UNCHANGED <<on, unresolved>>

\* Where the pass goes on after a checkpoint.
AfterCheckpoint(p) == IF on[p] = "attachments" THEN "tickets" ELSE "clean"

Checkpoint(p) ==
    /\ pc[p] = "checkpoint"
    /\ IF holder = p
       THEN /\ record' = progress[p]
            /\ Go(p, AfterCheckpoint(p))
            /\ UNCHANGED <<on, Work>>
       ELSE ToReport(p) /\ UNCHANGED record
    /\ UNCHANGED <<session, lease, holder, partitions, uploads, faults>>

\* At most Page members of a set that a query returns.
Pages(S) == {page \in SUBSET S: Cardinality(page) = IF Cardinality(S) < Page
                                                    THEN Cardinality(S) ELSE Page}

Following(c) == IF c = "messages" THEN "documents" ELSE "attachments"

Verified(p, c, empty) ==
    progress' = [progress EXCEPT ![p] = IF c = "messages" THEN [@ EXCEPT !.messages = empty]
                                                          ELSE [@ EXCEPT !.documents = empty]]

\* cleanup_child_page: an empty answer, behind the closed fence, is evidence.
QueryRows(p) ==
    LET c == on[p]
    IN  /\ pc[p] = "clean"
        /\ Closed(c)
        /\ \E page \in Pages(rows[c]):
              IF page = {}
              THEN /\ Verified(p, c, TRUE)
                   /\ on' = [on EXCEPT ![p] = Following(c)]
                   /\ Go(p, "checkpoint")
                   /\ UNCHANGED batch
              ELSE /\ batch' = [batch EXCEPT ![p] = page]
                   /\ Go(p, "erase")
                   /\ UNCHANGED <<on, progress>>
        /\ UNCHANGED <<rows, uploads, unresolved>> /\ PassOnly

\* Mutant of EraseRow: a page that was worked off counts as the last one.
EraseRowAndVerify(p) ==
    LET c == on[p]
    IN  /\ pc[p] = "erase"
        /\ \E row \in batch[p]:
              /\ rows' = [rows EXCEPT ![c] = @ \ {row}]
              /\ batch' = [batch EXCEPT ![p] = @ \ {row}]
              /\ IF batch[p] = {row}
                 THEN /\ Verified(p, c, TRUE)
                      /\ on' = [on EXCEPT ![p] = Following(c)]
                      /\ Go(p, "checkpoint")
                 ELSE UNCHANGED <<on, progress, pc>>
        /\ UNCHANGED <<fence, fresh, uploads, unresolved>> /\ PassOnly

\* Its rows are deleted one by one; a row that is gone already is no error.
EraseRow(p) ==
    LET c == on[p]
    IN  /\ pc[p] = "erase"
        /\ \E row \in batch[p]:
              /\ rows' = [rows EXCEPT ![c] = @ \ {row}]
              /\ batch' = [batch EXCEPT ![p] = @ \ {row}]
              /\ IF batch[p] = {row}
                 THEN /\ Verified(p, c, FALSE)
                      /\ on' = [on EXCEPT ![p] = Following(c)]
                      /\ Go(p, "checkpoint")
                 ELSE UNCHANGED <<on, progress, pc>>
        /\ UNCHANGED <<fence, fresh, uploads, unresolved>> /\ PassOnly

Open(u) == tickets[u] \in {"unsettled", "settled"}

\* deletion_uploads(unsettled_only): read before the originals are listed.
QueryUnsettled(p) ==
    /\ At(p, "tickets", "originals")
    /\ Closed("documents")
    /\ unresolved' = IF \E u \in Uploaders: tickets[u] = "unsettled"
                     THEN unresolved \cup {p} ELSE unresolved \ {p}
    /\ UNCHANGED <<rows, uploads, on, batch, progress>> /\ PassOnly

\* The verdict over an empty, or a not yet empty, listing.
Judged(status, empty, left) ==
    LET checked == [status EXCEPT !.attachments = empty /\ ~left]
    IN  IF left THEN [checked EXCEPT !.reason = "uploads_unresolved"] ELSE checked

Judge(p, empty) ==
    LET left == p \in unresolved
    IN  /\ progress' = [progress EXCEPT ![p] = Judged(progress[p], empty, left)]
        /\ Go(p, IF empty /\ ~left THEN "settled" ELSE "release")

\* reconcile_session: where no original was ever retained there is no store to ask.
ListOriginals(p) ==
    /\ pc[p] = "originals"
    /\ IF ~session.required
       THEN Judge(p, TRUE) /\ UNCHANGED batch
       ELSE \E page \in Pages(blobs):
               IF page = {}
               THEN Judge(p, TRUE) /\ UNCHANGED batch
               ELSE /\ batch' = [batch EXCEPT ![p] = page]
                    /\ Go(p, "erase originals")
                    /\ UNCHANGED progress
    /\ UNCHANGED <<partitions, uploads, on, unresolved>> /\ PassOnly

\* The configured store is not the one recorded for the conversation.
OtherStore(p) ==
    /\ pc[p] = "originals"
    /\ session.required
    /\ faults < MaxFaults
    /\ faults' = faults + 1
    /\ progress' = [progress EXCEPT ![p] = [@ EXCEPT !.state = "retryable", !.reason = "failed",
                                                     !.attachments = FALSE]]
    /\ Go(p, "release")
    /\ UNCHANGED <<session, deletion, partitions, uploads, on, batch, unresolved>>

EraseOriginal(p) ==
    /\ pc[p] = "erase originals"
    /\ \E u \in batch[p]:
          /\ blobs' = blobs \ {u}
          /\ batch' = [batch EXCEPT ![p] = @ \ {u}]
          /\ IF batch[p] = {u} THEN Judge(p, FALSE) ELSE UNCHANGED <<progress, pc>>
    /\ UNCHANGED <<partitions, tickets, put, on, unresolved>> /\ PassOnly

\* deletion_uploads of any kind: none left is the last condition of the verdict.
QuerySettled(p) ==
    LET open == {u \in Uploaders: Open(u)}
        clean == open = {} /\ progress[p].messages /\ progress[p].documents
    IN  /\ pc[p] = "settled"
        /\ \E page \in Pages(open):
              /\ batch' = [batch EXCEPT ![p] = page]
              /\ Go(p, IF page = {} THEN "release" ELSE "forget")
        /\ progress' = IF clean THEN [progress EXCEPT ![p] = [@ EXCEPT !.state = "cleanup_verified"]]
                                ELSE progress
        /\ Closed("documents")
        /\ UNCHANGED <<rows, uploads, on, unresolved>> /\ PassOnly

\* remove_settled_uploads.
ForgetTicket(p) ==
    /\ pc[p] = "forget"
    /\ \E u \in batch[p]:
          /\ tickets' = [tickets EXCEPT ![u] = "forgotten"]
          /\ batch' = [batch EXCEPT ![p] = @ \ {u}]
          /\ Go(p, IF batch[p] = {u} THEN "release" ELSE "forget")
    /\ UNCHANGED <<partitions, put, blobs, on, progress, unresolved>> /\ PassOnly

\* Mutant of ReleasedLease: the token goes and its date stays.
ReleasedToken == [lease EXCEPT !.token = None]

ReleasedLease == NoLease

\* checkpoint_deletion(release): only over the tombstone as this pass left it.
Release(p) ==
    /\ pc[p] = "release"
    /\ IF holder = p
       THEN /\ record' = progress[p]
            /\ lease' = ReleasedLease
            /\ holder' = None
            /\ Leave(p)
       ELSE ToReport(p) /\ UNCHANGED deletion
    /\ UNCHANGED <<session, partitions, uploads, faults>>

\* Mutant of Report: the failure is written whoever owns the deletion by now.
ReportBlindly(p) ==
    /\ pc[p] = "report"
    /\ record' = progress[p]
    /\ lease' = NoLease
    /\ holder' = None
    /\ Leave(p)
    /\ UNCHANGED <<session, partitions, uploads, faults>>

Report(p) ==
    /\ pc[p] = "report"
    /\ IF holder = p
       THEN record' = progress[p] /\ lease' = ReleasedLease /\ holder' = None
       ELSE UNCHANGED deletion
    /\ Leave(p)
    /\ UNCHANGED <<session, partitions, uploads, faults>>

Reconcile(p) ==
    \/ Claim(p) \/ CloseFence(p) \/ Checkpoint(p) \/ QueryRows(p) \/ EraseRow(p)
    \/ QueryUnsettled(p) \/ ListOriginals(p) \/ EraseOriginal(p) \/ QuerySettled(p)
    \/ ForgetTicket(p) \/ Release(p) \/ Report(p)

-----------------------------------------------------------------------------
(* Faults.                                                                   *)

Fault == faults < MaxFaults /\ faults' = faults + 1

Working(a) == pc[a] \notin {"idle", "done"}

Crash(a) ==
    /\ Working(a)
    /\ Fault
    /\ holder' = IF holder = a THEN None ELSE holder
    /\ fresh' = [c \in Containers |-> fresh[c] \ {a}]
    /\ Leave(a)
    /\ UNCHANGED <<session, record, lease, fence, rows, uploads>>

\* A call of the store fails, or the pass takes longer than it may.
CallFails(p) ==
    /\ Working(p) /\ pc[p] # "report"
    /\ Fault
    /\ ToReport(p)
    /\ UNCHANGED <<session, deletion, partitions, uploads>>

\* A checkpoint that was written and not acknowledged: the copy is stale now.
CheckpointUnknown(p) ==
    /\ pc[p] \in {"checkpoint", "release"}
    /\ holder = p
    /\ Fault
    /\ record' = progress[p]
    /\ lease' = IF pc[p] = "release" THEN ReleasedLease ELSE lease
    /\ holder' = None
    /\ ToReport(p)
    /\ UNCHANGED <<session, partitions, uploads>>

Faults ==
    \/ \E a \in Actors: Crash(a)
    \/ \E p \in Passes: CallFails(p) \/ CheckpointUnknown(p) \/ OtherStore(p)

-----------------------------------------------------------------------------
Create == Reserve \/ CreateFence \/ Publish

Next ==
    \/ Create
    \/ \E w \in Writers: Write(w) \/ Denied(w)
    \/ \E u \in Uploaders: Upload(u) \/ PutLands(u) \/ Denied(u)
    \/ BeginDeletion
    \/ \E p \in Passes: Reconcile(p)
    \/ LeaseExpires
    \/ Faults

Spec == Init /\ [][Next]_vars

\* The owner asks for passes until one reports the end; a request that was taken
\* up is served; time passes.
LiveSpec ==
    /\ Spec
    /\ \A p \in Passes: WF_vars(Reconcile(p))
    /\ \A u \in Uploaders: WF_vars(Upload(u) \/ Denied(u))
    /\ WF_vars(LeaseExpires)

-----------------------------------------------------------------------------
(* Properties.                                                               *)

Status == [state: {"pending", "retryable", "cleanup_verified"},
           reason: {"none", "uploads_unresolved", "failed"},
           messages: BOOLEAN, documents: BOOLEAN, attachments: BOOLEAN]

TypeOK ==
    /\ session \in [kind: {Absent, "initializing", "active", "tombstone"}, required: BOOLEAN]
    /\ record \in Status
    /\ lease \in [token: Passes \cup {None}, live: BOOLEAN]
    /\ lease.live => lease.token # None
    /\ holder \in {None, lease.token}
    /\ fence \in [Containers -> {Absent, "open", "closed"}]
    /\ fresh \in [Containers -> SUBSET Requests]
    /\ rows \in [Containers -> SUBSET Rows]
    /\ tickets \in [Uploaders -> {Absent, "unsettled", "settled", "forgotten"}]
    /\ put \in [Uploaders -> {Absent, "out", "landed", "lost"}]
    /\ blobs \subseteq Uploaders
    /\ on \in [Actors -> Containers \cup {"attachments"}]
    /\ batch \in [Actors -> SUBSET Rows]
    /\ progress \in [Passes -> Status]
    /\ unresolved \subseteq Passes
    /\ faults \in Nat

\* What the tombstone says was verified is so, and stays so: no message or
\* document is left behind the closed fence; no original is stored and none can
\* still arrive; nothing at all remains once the cleanup is verified.
EvidenceHolds ==
    Deleting =>
    /\ record.messages => fence.messages = "closed" /\ rows.messages = {}
    /\ record.documents => fence.documents = "closed" /\ rows.documents = {}
    /\ record.attachments => /\ blobs = {}
                             /\ \A u \in Uploaders: tickets[u] # "unsettled" /\ put[u] # "out"
    /\ record.state = "cleanup_verified"
          => /\ record.messages /\ record.documents /\ record.attachments
             /\ \A u \in Uploaders: ~Open(u)

\* A PUT under way has an unsettled ticket, and an original that is stored has
\* one that was not forgotten, on a conversation that remembers it needs a store:
\* so no cleanup passes over them (reserve_attachment_upload before the PUT).
TicketsCover ==
    \A u \in Uploaders:
        /\ put[u] = "out" => tickets[u] = "unsettled"
        /\ u \in blobs => Open(u)
        /\ Open(u) => session.required

\* The verdict of a pass is never overwritten by a pass that lost its lease or
\* the acknowledgement of its own checkpoint.
VerifiedIsFinal == [][record.state = "cleanup_verified" => record' = record]_vars

\* Nothing comes back: a deleted conversation is not published by the request
\* that was creating it, a closed fence is not reopened, and no write that read
\* the fence before it was closed adds a row after.
NothingReturns ==
    [][/\ Deleting => session'.kind = "tombstone"
       /\ \A c \in Containers: fence[c] = "closed"
             => fence'[c] = "closed" /\ rows'[c] \subseteq rows[c]]_vars

\* A deletion that was asked for is verified in the end, unless the fate of an
\* upload can no longer be known.
CleanupCompletes ==
    Deleting ~> \/ record.state = "cleanup_verified"
                \/ \E u \in Uploaders: /\ tickets[u] = "unsettled"
                                        /\ pc[u] \notin {"put", "wait", "settle"}
=============================================================================
