---------------------------- MODULE MemoryForget ----------------------------
(* The memories of one user in their Cosmos partition (memory/               *)
(* cosmos_store.py, cosmos_service.py) and the routes that save, forget and   *)
(* delete a document of the library (routers/library.py).                     *)
(*                                                                            *)
(* Every write goes in one batch with an If-Match replace of the state        *)
(* document, which holds the epoch, the pending cutoffs and the preference;   *)
(* the purge alone deletes by the ETags of the records.  "fresh" is the set   *)
(* of requests whose captured state is the stored one: a replace empties it.  *)
(* A record is its own ETag, since an update raises its version and no        *)
(* identity is used twice.  A capture followed by its conditional replace,    *)
(* tried again after a lost race and with nothing kept in between, is one     *)
(* step; a state that is captured before a model call is not.                 *)
EXTENDS Naturals, FiniteSets

CONSTANTS
    Workers,        \* requests, on any replica
    Items,          \* identities of memories, none of which is used again
    Sessions, Documents,
    Everything,     \* the scope of a whole user
    None,
    PageSize,       \* _PURGE_BATCH_SIZE
    MaxMoves,       \* bound: forgets begun and preference changes, together
    MaxVersion      \* bound: versions of a memory

Sources == Sessions \cup Documents
Scopes == Sources \cup {Everything}

ASSUME MemoryAssumption ==
    /\ Sessions \cap Documents = {}
    /\ {None, Everything} \cap Sources = {}
    /\ None # Everything
    /\ PageSize \in Nat
    /\ {MaxMoves, MaxVersion} \subseteq Nat

VARIABLES
    epoch,      \* MemoryState.epoch
    cutoffs,    \* MemoryState.cutoffs, one at most for a scope
    preference, \* MemoryPreference.version: each change turns it on or off
    marker,     \* the documentState of each document
    records,    \* the memories
    library,    \* documents whose manifest exists
    fresh,      \* requests whose captured state is the stored one
    pc, job,    \* the next step of each request, and what it carries
    page,       \* records a batch is about to delete, as they were read
    finished    \* history: the cutoffs of the forgets that reported success

store == <<epoch, cutoffs, preference, marker, records, library>>
local == <<pc, job, page>>
vars == <<store, fresh, local, finished>>

-----------------------------------------------------------------------------
(* Records and cutoffs                                                     *)

Blank(s) == [state |-> s, source |-> None, epoch |-> 0, basis |-> 0,
             version |-> 0, origin |-> "user", generation |-> 0]
Absent == Blank("absent")
Gone == Blank("gone")

\* A memory: where it came from, the epoch it was written under, and, for the
\* properties, the epoch and the preference its last writer had begun under; the
\* latter also of the writer that deleted it.
Record == [state : {"absent", "live", "gone"}, source : Sources \cup {None},
           epoch : Nat, basis : Nat, version : Nat, origin : {"user", "implicit"},
           generation : Nat]

Live(i) == records[i].state = "live"

\* Mutant: a cutoff also spares what was written just before it.
AppliesBelow(c, r) ==
    /\ r.state = "live"
    /\ r.epoch + 1 < c.before
    /\ c.scope \in {Everything, r.source}

\* ForgetCutoff.applies, and the purge query.
Applies(c, r) ==
    /\ r.state = "live"
    /\ r.epoch < c.before
    /\ c.scope \in {Everything, r.source}

\* What a read returns: no pending cutoff applies to it.
Visible(i) == Live(i) /\ \A c \in cutoffs : ~Applies(c, records[i])

On(p) == p % 2 = 0

Held(i) == [item |-> i, record |-> records[i]]

\* Every record of a page is still as it was read.
Intact(w) == \A h \in page[w] : records[h.item] = h.record

NoJob == [op |-> "none", scope |-> None, item |-> None, held |-> Absent,
          origin |-> "user", epoch |-> 0, generation |-> 0, before |-> 0]

Cutoff(w) == [scope |-> job[w].scope, before |-> job[w].before]

\* The records a forget has still to purge.
Candidates(w) == {i \in Items : Applies(Cutoff(w), records[i])}

Go(w, p) == pc' = [pc EXCEPT ![w] = p]

End(w) == /\ Go(w, "idle")
          /\ job' = [job EXCEPT ![w] = NoJob]
          /\ page' = [page EXCEPT ![w] = {}]

\* A lost race: the loop starts over at step p, or has done so often enough.
Again(w, p) ==
    \/ Go(w, p) /\ page' = [page EXCEPT ![w] = {}] /\ UNCHANGED job
    \/ End(w)

-----------------------------------------------------------------------------
(* Planned writes: create, update, delete, and what remember applies       *)

Plan(w, j) ==
    /\ pc[w] = "idle"
    /\ job' = [job EXCEPT ![w] = [j EXCEPT !.epoch = epoch,
                  !.generation = IF j.origin = "implicit" THEN preference ELSE 0]]
    /\ fresh' = fresh \cup {w}
    /\ Go(w, "commit")
    /\ UNCHANGED <<store, page, finished>>

\* create_memory, or an addition that remember plans for a conversation.
PlanCreate(w) ==
    \/ Plan(w, [NoJob EXCEPT !.op = "create"])
    \/ /\ On(preference)
       /\ \E s \in Sessions \cup {None} :
            Plan(w, [NoJob EXCEPT !.op = "create", !.scope = s, !.origin = "implicit"])

\* update_memory and delete_memory on a record the caller can see; remember
\* plans them too, on records it wrote.
PlanChange(w) ==
    \E i \in Items, op \in {"update", "delete"}, o \in {"user", "implicit"} :
      /\ Visible(i)
      /\ o = "implicit" => On(preference) /\ records[i].origin = "implicit"
      /\ op = "update" => records[i].version < MaxVersion
      /\ Plan(w, [NoJob EXCEPT !.op = op, !.item = i, !.held = records[i], !.origin = o])

\* Mutant: the preference is on again, whatever happened in between.
ConsentsNow(w) == job[w].origin = "implicit" => On(preference)

\* An automatic write needs the preference it was planned under.
Consents(w) ==
    job[w].origin = "implicit" => On(preference) /\ preference = job[w].generation

Written(w, source, version) ==
    [state |-> "live", source |-> source, epoch |-> epoch, basis |-> job[w].epoch,
     version |-> version, origin |-> job[w].origin, generation |-> job[w].generation]

Committing(w) == pc[w] = "commit" /\ w \in fresh

HeldStands(w) == job[w].op # "create" => records[job[w].item] = job[w].held

\* The batch of commit_create, commit_update or commit_delete.
Commit(w) ==
    /\ Committing(w)
    /\ Consents(w)
    /\ HeldStands(w)
    /\ \/ /\ job[w].op = "create"
          /\ \E i \in Items :
               /\ records[i] = Absent
               /\ records' = [records EXCEPT ![i] = Written(w, job[w].scope, 1)]
       \/ /\ job[w].op = "update"
          /\ records' = [records EXCEPT ![job[w].item] =
                           Written(w, @.source, @.version + 1)]
       \/ /\ job[w].op = "delete"
          /\ records' = [records EXCEPT ![job[w].item] =
                           [Gone EXCEPT !.origin = job[w].origin,
                                        !.generation = job[w].generation]]
    /\ fresh' = {}
    /\ End(w)
    /\ UNCHANGED <<epoch, cutoffs, preference, marker, library, finished>>

\* The preference moved, or the record did: MemoryPreferenceConflict, 412, 404.
RefuseCommit(w) ==
    /\ Committing(w)
    /\ ~Consents(w) \/ ~HeldStands(w)
    /\ fresh' = fresh \ {w}
    /\ End(w)
    /\ UNCHANGED <<store, finished>>

\* Mutant: a write is tried again whatever the fence has become.
RecaptureAnyway(w) ==
    /\ pc[w] = "commit"
    /\ w \notin fresh
    /\ Again(w, "commit")
    /\ fresh' = IF pc'[w] = "commit" THEN fresh \cup {w} ELSE fresh
    /\ UNCHANGED <<store, finished>>

\* MemoryFenceConflict: the state is captured again, and a write that was
\* planned before a forget is refused.
Recapture(w) ==
    /\ pc[w] = "commit"
    /\ w \notin fresh
    /\ IF epoch = job[w].epoch THEN Again(w, "commit") ELSE End(w)
    /\ fresh' = IF pc'[w] = "commit" THEN fresh \cup {w} ELSE fresh
    /\ UNCHANGED <<store, finished>>

-----------------------------------------------------------------------------
(* A document is saved to memory                                           *)

\* save_document_to_memory: the manifest is there, its gist is embedded.  The epoch
\* is not captured before that, and is recorded for the properties only.
StartSave(w) ==
    /\ pc[w] = "idle"
    /\ \E d \in library :
         job' = [job EXCEPT ![w] = [NoJob EXCEPT !.op = "save", !.scope = d,
                                                 !.epoch = epoch]]
    /\ Go(w, "read")
    /\ UNCHANGED <<store, fresh, page, finished>>

\* replace_document reads the state, the marker and the saved records.  Whatever
\* changes the marker or adds a record moves the state, so one step reads all.
ReadSource(w) ==
    /\ pc[w] = "read"
    /\ \/ /\ marker[job[w].scope] = "deleted"
          /\ End(w)
          /\ UNCHANGED fresh
       \/ /\ marker[job[w].scope] # "deleted"
          /\ fresh' = fresh \cup {w}
          /\ page' = [page EXCEPT ![w] =
                        {Held(i) : i \in {x \in Items : Live(x) /\ records[x].source = job[w].scope}}]
          /\ Go(w, "replace")
          /\ UNCHANGED job
    /\ UNCHANGED <<store, finished>>

Replaceable(w) == w \in fresh /\ Intact(w)

\* One batch: the state, the active marker, the old records out, the new one in.
ReplaceSource(w) ==
    /\ pc[w] = "replace"
    /\ Replaceable(w)
    /\ marker' = [marker EXCEPT ![job[w].scope] = "active"]
    /\ \E n \in Items :
         /\ records[n] = Absent
         /\ records' = [i \in Items |->
              IF i = n THEN Written(w, job[w].scope, 1)
              ELSE IF i \in {h.item : h \in page[w]} THEN Gone ELSE records[i]]
    /\ fresh' = {}
    /\ End(w)
    /\ UNCHANGED <<epoch, cutoffs, preference, library, finished>>

ReplaceLost(w) ==
    /\ pc[w] = "replace"
    /\ ~Replaceable(w)
    /\ fresh' = fresh \ {w}
    /\ Again(w, "read")
    /\ UNCHANGED <<store, finished>>

-----------------------------------------------------------------------------
(* Forgetting                                                              *)

\* /forget, /forget me, or forget_document_from_memory.
StartForget(w) ==
    /\ pc[w] = "idle"
    /\ \E s \in Sessions \cup library \cup {Everything} :
         job' = [job EXCEPT ![w] = [NoJob EXCEPT !.op = "forget", !.scope = s]]
    /\ Go(w, "begin")
    /\ UNCHANGED <<store, fresh, page, finished>>

\* delete_document of the library.
StartDelete(w) ==
    /\ pc[w] = "idle"
    /\ \E d \in library :
         job' = [job EXCEPT ![w] = [NoJob EXCEPT !.op = "remove", !.scope = d]]
    /\ Go(w, "mark")
    /\ UNCHANGED <<store, fresh, page, finished>>

\* Mutant: the tombstone is written beside the state, not in a batch with it.
MarkBeside(w) ==
    /\ pc[w] = "mark"
    /\ marker' = [marker EXCEPT ![job[w].scope] = "deleted"]
    /\ Go(w, "begin")
    /\ UNCHANGED <<epoch, cutoffs, preference, records, library, fresh, job, page, finished>>

\* delete_document_source: the source is fenced before it is purged.
MarkDeleted(w) ==
    /\ pc[w] = "mark"
    /\ marker' = [marker EXCEPT ![job[w].scope] = "deleted"]
    /\ fresh' = IF marker[job[w].scope] = "deleted" THEN fresh ELSE {}
    /\ Go(w, "begin")
    /\ UNCHANGED <<epoch, cutoffs, preference, records, library, job, page, finished>>

\* _begin_forget: a pending cutoff of the scope is taken over as it is.
BeginForget(w) ==
    /\ pc[w] = "begin"
    /\ \/ \E c \in cutoffs :
            /\ c.scope = job[w].scope
            /\ job' = [job EXCEPT ![w].before = c.before]
            /\ UNCHANGED <<epoch, cutoffs, fresh>>
       \/ /\ \A c \in cutoffs : c.scope # job[w].scope
          /\ epoch + preference < MaxMoves
          /\ epoch' = epoch + 1
          /\ cutoffs' = cutoffs \cup {[scope |-> job[w].scope, before |-> epoch + 1]}
          /\ job' = [job EXCEPT ![w].before = epoch + 1]
          /\ fresh' = {}
    /\ Go(w, "purge")
    /\ UNCHANGED <<preference, marker, records, library, page, finished>>

\* _list_purge_candidates: a page of them, or none is left.
ListPage(w) ==
    /\ pc[w] = "purge"
    /\ \/ /\ Candidates(w) = {}
          /\ Go(w, "verify")
          /\ UNCHANGED page
       \/ \E S \in SUBSET Candidates(w) :
            /\ S # {}
            /\ S = Candidates(w) \/ Cardinality(S) = PageSize
            /\ Cardinality(S) <= PageSize
            /\ page' = [page EXCEPT ![w] = {Held(i) : i \in S}]
            /\ Go(w, "delete")
    /\ UNCHANGED <<store, fresh, job, finished>>

DeletePage(w) ==
    /\ pc[w] = "delete"
    /\ Intact(w)
    /\ records' = [i \in Items |-> IF i \in {h.item : h \in page[w]} THEN Gone ELSE records[i]]
    /\ Go(w, "purge")
    /\ page' = [page EXCEPT ![w] = {}]
    /\ UNCHANGED <<epoch, cutoffs, preference, marker, library, fresh, job, finished>>

\* 404 or 412: some record of the page was rewritten or is gone.
PageLost(w) ==
    /\ pc[w] = "delete"
    /\ ~Intact(w)
    /\ Again(w, "purge")
    /\ UNCHANGED <<store, fresh, finished>>

\* _count_purge_candidates.
Verify(w) ==
    /\ pc[w] = "verify"
    /\ IF Candidates(w) = {} THEN Go(w, "clear") /\ UNCHANGED <<job, page>>
                             ELSE End(w)
    /\ UNCHANGED <<store, fresh, finished>>

Retained(w) ==
    {c \in cutoffs : /\ c.scope # job[w].scope
                     /\ ~(job[w].scope = Everything /\ c.before <= job[w].before)}

\* _clear_cutoff; the forget reports what it deleted.
ClearCutoff(w) ==
    /\ pc[w] = "clear"
    /\ cutoffs' = Retained(w)
    /\ fresh' = IF Retained(w) = cutoffs THEN fresh ELSE {}
    /\ finished' = finished \cup {Cutoff(w)}
    /\ \/ /\ job[w].op = "forget"
          /\ End(w)
       \/ /\ job[w].op = "remove"
          /\ Go(w, "unlist")
          /\ UNCHANGED <<job, page>>
    /\ UNCHANGED <<epoch, preference, marker, records, library>>

\* repo.delete_document: the manifest goes last.
RemoveManifest(w) ==
    /\ pc[w] = "unlist"
    /\ library' = library \ {job[w].scope}
    /\ End(w)
    /\ UNCHANGED <<epoch, cutoffs, preference, marker, records, fresh, finished>>

-----------------------------------------------------------------------------
\* set_preference, against the preference the owner saw.
SetPreference ==
    /\ epoch + preference < MaxMoves
    /\ preference' = preference + 1
    /\ fresh' = {}
    /\ UNCHANGED <<epoch, cutoffs, marker, records, library, local, finished>>

\* A crash, a failed call or a cancelled request, at any of its steps.
Stop(w) ==
    /\ pc[w] # "idle"
    /\ fresh' = fresh \ {w}
    /\ End(w)
    /\ UNCHANGED <<store, finished>>

Init ==
    /\ epoch = 0
    /\ cutoffs = {}
    /\ preference = 0
    /\ marker = [d \in Documents |-> "none"]
    /\ records = [i \in Items |-> Absent]
    /\ library = Documents
    /\ fresh = {}
    /\ pc = [w \in Workers |-> "idle"]
    /\ job = [w \in Workers |-> NoJob]
    /\ page = [w \in Workers |-> {}]
    /\ finished = {}

Write(w) == PlanCreate(w) \/ PlanChange(w) \/ Commit(w) \/ RefuseCommit(w) \/ Recapture(w)

Save(w) == StartSave(w) \/ ReadSource(w) \/ ReplaceSource(w) \/ ReplaceLost(w)

Forget(w) ==
    \/ StartForget(w) \/ StartDelete(w) \/ MarkDeleted(w) \/ BeginForget(w)
    \/ ListPage(w) \/ DeletePage(w) \/ PageLost(w) \/ Verify(w) \/ ClearCutoff(w)
    \/ RemoveManifest(w)

Next == SetPreference \/ \E w \in Workers : Write(w) \/ Save(w) \/ Forget(w) \/ Stop(w)

Spec == Init /\ [][Next]_vars

-----------------------------------------------------------------------------
(* Properties                                                              *)

Steps == {"idle", "commit", "read", "replace", "mark", "begin", "purge", "delete",
          "verify", "clear", "unlist"}
Ops == {"none", "create", "update", "delete", "save", "forget", "remove"}
CutoffType == [scope : Scopes, before : Nat]

\* Every variable stays in its type: the documents of cosmos_store.py and the
\* local state of the requests.
TypeOK ==
    /\ epoch \in Nat
    /\ cutoffs \subseteq CutoffType
    /\ preference \in Nat
    /\ marker \in [Documents -> {"none", "active", "deleted"}]
    /\ records \in [Items -> Record]
    /\ library \subseteq Documents
    /\ fresh \subseteq Workers
    /\ pc \in [Workers -> Steps]
    /\ job \in [Workers -> [op : Ops, scope : Scopes \cup {None}, item : Items \cup {None},
                            held : Record, origin : {"user", "implicit"}, epoch : Nat,
                            generation : Nat, before : Nat]]
    /\ page \in [Workers -> SUBSET [item : Items, record : Record]]
    /\ finished \subseteq CutoffType

\* A memory that a save of a document has stored, and nobody updated since.
FromSave(r) == r.source \in Documents /\ r.version = 1

Covers(c, r) == r.state = "live" /\ c.scope \in {Everything, r.source}

\* Once a forget has reported success, nothing from before its cutoff is in the
\* store again, nor what a create, an update or an automatic write planned before
\* the cutoff and committed, under a newer epoch, after it.  A save captures the
\* state only after it has embedded: one begun before the forget may land after it.
ForgottenForGood ==
    \A c \in finished, i \in Items :
      Covers(c, records[i]) =>
        /\ records[i].epoch >= c.before
        /\ records[i].basis >= c.before \/ FromSave(records[i])

\* What a step may never do to a deleted source: lift its tombstone, or store
\* another memory of it, although saves read the marker before they embed and
\* commit in a batch.
KeepsTombstones ==
    \A d \in Documents : marker[d] = "deleted" =>
      /\ marker'[d] = "deleted"
      /\ \A i \in Items : Live(i)' /\ records'[i].source = d =>
                            Live(i) /\ records[i].source = d

TombstonesHold == [][KeepsTombstones]_vars

\* No automatic write, deletions included, is committed under a preference other
\* than the one it was planned under, also when that was turned off and on again
\* meanwhile and the write is tried again after a lost race.
AutomaticStaysOff ==
    [][\A i \in Items :
         records'[i] # records[i] /\ records'[i].origin = "implicit"
           => On(preference) /\ records'[i].generation = preference]_vars
=============================================================================
