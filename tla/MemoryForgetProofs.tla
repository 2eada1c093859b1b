------------------------- MODULE MemoryForgetProofs -------------------------
(* What MemoryForget keeps for every number of requests, memories, sessions,  *)
(* documents and retries.  The argument: whoever moves the epoch or marks a   *)
(* document empties "fresh", so a writer whose captured state is still the    *)
(* stored one planned under the epoch it writes (InHand), and every live      *)
(* memory bears the epoch of its plan, unless a save has stored it and nobody *)
(* has updated it since (StoreInv); a forget that has verified its purge      *)
(* leaves nothing a later planned write could bring back, since whatever is   *)
(* stored after it has an epoch its cutoff does not reach.                    *)
EXTENDS MemoryForget, TLAPS

-----------------------------------------------------------------------------
(* The invariant                                                           *)

Job == [op : Ops, scope : Scopes \cup {None}, item : Items \cup {None},
        held : Record, origin : {"user", "implicit"}, epoch : Nat,
        generation : Nat, before : Nat]

StoreType ==
    /\ epoch \in Nat
    /\ cutoffs \subseteq CutoffType
    /\ preference \in Nat
    /\ marker \in [Documents -> {"none", "active", "deleted"}]
    /\ records \in [Items -> Record]
    /\ library \subseteq Documents
    /\ fresh \subseteq Workers
    /\ finished \subseteq CutoffType

LocalType ==
    /\ pc \in [Workers -> Steps]
    /\ job \in [Workers -> Job]
    /\ page \in [Workers -> SUBSET [item : Items, record : Record]]

Purging == {"purge", "delete", "verify", "clear"}

\* What a request carries at each of its steps.
Errand(w) ==
    /\ pc[w] = "commit" =>
         /\ job[w].op \in {"create", "update", "delete"}
         /\ job[w].op = "create" => job[w].scope \in Sessions \cup {None}
         /\ job[w].op # "create" => job[w].item \in Items /\ job[w].held.state = "live"
    /\ pc[w] \in {"read", "replace"} => job[w].scope \in Documents /\ job[w].origin = "user"
    /\ pc[w] \in {"mark", "unlist"} => job[w].scope \in Documents
    /\ pc[w] \in Purging \cup {"begin"} => job[w].scope \in Scopes
    /\ job[w].op = "remove" => job[w].scope \in Documents

\* What it knows of the store: the epoch and the marker while its captured state
\* is the stored one, and, once it has verified its purge, that nothing is left.
InHand(w) ==
    /\ pc[w] = "commit" /\ w \in fresh => job[w].epoch = epoch
    /\ pc[w] = "replace" /\ w \in fresh => marker[job[w].scope] # "deleted"
    /\ pc[w] \in Purging => job[w].before <= epoch
    /\ pc[w] = "clear" => Candidates(w) = {}

\* A memory bears the epoch of its plan; a save captures none before it commits.
Bears(r) == r.basis = r.epoch \/ FromSave(r)

\* No cutoff lies ahead of the epoch, nor does a memory, and a finished forget
\* reaches none.
StoreInv ==
    /\ \A c \in cutoffs : c.before <= epoch
    /\ \A i \in Items : Live(i) => records[i].epoch <= epoch /\ Bears(records[i])
    /\ \A c \in finished : c.before <= epoch /\ \A i \in Items : ~Applies(c, records[i])

IInv ==
    /\ StoreType /\ LocalType
    /\ \A w \in Workers : Errand(w)
    /\ \A w \in Workers : InHand(w)
    /\ StoreInv

-----------------------------------------------------------------------------
(* Steps of one request leave the others alone                             *)

\* The local state of the other requests.
OthersKeep(w) ==
    \A v \in Workers \ {w} :
      /\ pc'[v] = pc[v] /\ job'[v] = job[v]
      /\ v \in fresh' => v \in fresh

\* A request without a job is of its types.
LEMMA NoJobType == NoJob \in Job /\ Absent \in Record /\ Gone \in Record
BY MemoryAssumption DEF NoJob, Job, Absent, Gone, Blank, Record, Ops, Scopes, Sources

\* The end of a request.
LEMMA EndType ==
  ASSUME LocalType, NEW w \in Workers, End(w)
  PROVE  /\ LocalType'
         /\ pc'[w] = "idle" /\ job'[w] = NoJob
         /\ \A v \in Workers \ {w} : pc'[v] = pc[v] /\ job'[v] = job[v]
BY NoJobType DEF End, Go, LocalType, Steps

\* A retry, or its end.
LEMMA AgainType ==
  ASSUME LocalType, NEW w \in Workers, NEW p \in Steps, Again(w, p)
  PROVE  /\ LocalType'
         /\ \/ pc'[w] = p /\ job'[w] = job[w]
            \/ pc'[w] = "idle" /\ job'[w] = NoJob
         /\ \A v \in Workers \ {w} : pc'[v] = pc[v] /\ job'[v] = job[v]
<1>1. CASE End(w)
  BY <1>1, EndType
<1>2. CASE ~End(w)
  <2>1. /\ page' = [page EXCEPT ![w] = {}]
        /\ pc' = [pc EXCEPT ![w] = p]
        /\ UNCHANGED job
    BY <1>2 DEF Again, Go
  <2> QED BY <2>1 DEF LocalType
<1> QED BY <1>1, <1>2

\* A record a writer stores.
LEMMA WrittenType ==
  ASSUME StoreType, LocalType, NEW w \in Workers,
         NEW s \in Sources \cup {None}, NEW n \in Nat
  PROVE  /\ Written(w, s, n) \in Record
         /\ Written(w, s, n).state = "live" /\ Written(w, s, n).source = s
         /\ Written(w, s, n).version = n
         /\ Written(w, s, n).epoch = epoch /\ Written(w, s, n).basis = job[w].epoch
         /\ Written(w, s, n).origin = job[w].origin
         /\ Written(w, s, n).generation = job[w].generation
BY DEF Written, Record, StoreType, LocalType, Job

-----------------------------------------------------------------------------
(* What any step does to the store                                         *)

\* A memory stays, goes, or is written under the present epoch.
RecordsMove ==
    \A i \in Items :
      \/ records'[i] = records[i]
      \/ records'[i].state = "gone"
      \/ /\ Live(i)' /\ epoch' = epoch
         /\ records'[i].epoch = epoch /\ Bears(records'[i])

\* The epoch only grows, a new cutoff lies at it, and a captured state that is
\* still the stored one has seen every epoch and every marker.
StoreMove ==
    /\ epoch' >= epoch
    /\ RecordsMove
    /\ fresh' # {} => epoch' = epoch /\ marker' = marker
    /\ \A c \in cutoffs' : c \in cutoffs \/ c.before = epoch'

\* A step that moves the store so spares what the other requests know.
LEMMA OthersKept ==
  ASSUME IInv, StoreType', NEW w \in Workers, OthersKeep(w), StoreMove,
         NEW v \in Workers \ {w}
  PROVE  Errand(v)' /\ InHand(v)'
<1>1. pc'[v] = pc[v] /\ job'[v] = job[v] /\ (v \in fresh' => v \in fresh)
  BY DEF OthersKeep
<1>2. Errand(v) /\ InHand(v)
  BY DEF IInv
<1>3. Errand(v)'
  BY <1>1, <1>2 DEF Errand
<1>4. epoch \in Nat /\ epoch' \in Nat /\ job[v].before \in Nat
  BY DEF IInv, StoreType, LocalType, Job
<1>5. pc'[v] = "commit" /\ v \in fresh' => job'[v].epoch = epoch'
  BY <1>1, <1>2 DEF StoreMove, InHand
<1>6. pc'[v] = "replace" /\ v \in fresh' => marker'[job'[v].scope] # "deleted"
  BY <1>1, <1>2 DEF StoreMove, InHand
<1>7. pc'[v] \in Purging => job'[v].before <= epoch'
  BY <1>1, <1>2, <1>4 DEF StoreMove, InHand
<1>8. ASSUME pc'[v] = "clear" PROVE Candidates(v)' = {}
  <2>1. Candidates(v) = {} /\ job[v].before <= epoch
    BY <1>1, <1>2, <1>8 DEF InHand, Purging
  <2>2. Cutoff(v)' = Cutoff(v) /\ Cutoff(v).before = job[v].before
    BY <1>1 DEF Cutoff
  <2>3. ASSUME NEW i \in Items PROVE ~Applies(Cutoff(v)', records'[i])
    <3>1. ~Applies(Cutoff(v), records[i])
      BY <2>1 DEF Candidates
    <3>2. CASE records'[i] = records[i]
      BY <3>1, <3>2, <2>2
    <3>3. CASE records'[i].state = "gone"
      BY <3>3 DEF Applies
    <3>4. CASE records'[i].epoch = epoch
      BY <3>4, <2>1, <2>2, <1>4 DEF Applies
    <3> QED BY <3>2, <3>3, <3>4 DEF StoreMove, RecordsMove
  <2> QED BY <2>3 DEF Candidates
<1> QED BY <1>3, <1>5, <1>6, <1>7, <1>8 DEF InHand

\* It spares the memories and the cutoffs, and what finished forgets achieved.
LEMMA StoreKept ==
  ASSUME IInv, StoreType', StoreMove,
         \A c \in finished' : \/ c \in finished
                              \/ /\ c.before <= epoch
                                 /\ \A i \in Items : ~Applies(c, records[i])
  PROVE  StoreInv'
<1>1. epoch \in Nat /\ epoch' \in Nat /\ epoch <= epoch'
  BY DEF IInv, StoreType, StoreMove
<1>2. ASSUME NEW c \in cutoffs' PROVE c.before <= epoch'
  <2>1. c.before \in Nat
    BY DEF StoreType, CutoffType
  <2> QED BY <1>1, <2>1 DEF StoreMove, IInv, StoreInv
<1>3. ASSUME NEW i \in Items, Live(i)'
      PROVE  records'[i].epoch <= epoch' /\ Bears(records'[i])
  <2>1. CASE records'[i] = records[i]
    <3>1. records[i].epoch <= epoch /\ Bears(records[i]) /\ records[i].epoch \in Nat
      BY <2>1, <1>3 DEF IInv, StoreInv, Live, StoreType, Record
    <3> QED BY <3>1, <2>1, <1>1
  <2>2. CASE records'[i].state = "gone"
    BY <2>2, <1>3 DEF Live
  <2>3. CASE records'[i].epoch = epoch /\ Bears(records'[i])
    BY <2>3, <1>1
  <2> QED BY <2>1, <2>2, <2>3 DEF StoreMove, RecordsMove
<1>4. ASSUME NEW c \in finished'
      PROVE  c.before <= epoch' /\ \A i \in Items : ~Applies(c, records'[i])
  <2>1. c.before \in Nat
    BY DEF StoreType, CutoffType
  <2>2. c.before <= epoch /\ \A i \in Items : ~Applies(c, records[i])
    BY DEF IInv, StoreInv
  <2>3. ASSUME NEW i \in Items PROVE ~Applies(c, records'[i])
    <3>1. CASE records'[i] = records[i]
      BY <3>1, <2>2
    <3>2. CASE records'[i].state = "gone"
      BY <3>2 DEF Applies
    <3>3. CASE records'[i].epoch = epoch
      BY <3>3, <2>1, <2>2, <1>1 DEF Applies
    <3> QED BY <3>1, <3>2, <3>3 DEF StoreMove, RecordsMove
  <2> QED BY <2>1, <2>2, <2>3, <1>1
<1> QED BY <1>2, <1>3, <1>4 DEF StoreInv

\* What is left to show of a step of w.
Sound(w) ==
    /\ StoreType' /\ LocalType'
    /\ Errand(w)' /\ InHand(w)'
    /\ OthersKeep(w) /\ StoreMove

\* It keeps the invariant, when it finishes no forget.
LEMMA SoundStep ==
  ASSUME IInv, NEW w \in Workers, Sound(w), finished' = finished
  PROVE  IInv'
<1>1. \A v \in Workers : Errand(v)' /\ InHand(v)'
  BY OthersKept DEF Sound
<1>2. \A c \in finished' : \/ c \in finished
                           \/ /\ c.before <= epoch
                              /\ \A i \in Items : ~Applies(c, records[i])
  OBVIOUS
<1>3. StoreType' /\ StoreMove
  BY DEF Sound
<1>4. StoreInv'
  BY <1>2, <1>3, StoreKept
<1> QED BY <1>1, <1>4 DEF IInv, Sound

\* A step that reads at most, and takes nothing into fresh but w.
Quiet(w) ==
    /\ UNCHANGED <<store, finished>>
    /\ \A v \in Workers \ {w} : pc'[v] = pc[v] /\ job'[v] = job[v]
    /\ fresh' \subseteq fresh \cup {w}

\* Such a step moves nothing.
LEMMA QuietMove ==
  ASSUME IInv, NEW w \in Workers, Quiet(w)
  PROVE  StoreType' /\ OthersKeep(w) /\ StoreMove
BY DEF Quiet, IInv, StoreType, store, OthersKeep, StoreMove, RecordsMove

\* A purged memory is gone.
LEMMA GoneIsGone == Gone \in Record /\ Gone.state = "gone" /\ Gone.origin = "user"
BY NoJobType DEF Gone, Blank

\* A request that is over has nothing in hand.
LEMMA OverSound ==
  ASSUME NEW w, pc'[w] = "idle", job'[w] = NoJob
  PROVE  Errand(w)' /\ InHand(w)'
BY DEF Errand, InHand, Purging, NoJob

-----------------------------------------------------------------------------
(* Planned writes                                                          *)

\* The outcome of a plan.
LEMMA PlanSound ==
  ASSUME IInv, NEW w \in Workers, NEW j \in Job, Plan(w, j),
         j.op \in {"create", "update", "delete"},
         j.op = "create" => j.scope \in Sessions \cup {None},
         j.op # "create" => j.item \in Items /\ j.held.state = "live"
  PROVE  IInv'
<1> DEFINE k == [j EXCEPT !.epoch = epoch,
                 !.generation = IF j.origin = "implicit" THEN preference ELSE 0]
<1>1. k \in Job /\ k.op = j.op /\ k.scope = j.scope /\ k.item = j.item
      /\ k.held = j.held /\ k.epoch = epoch
  BY DEF Job, IInv, StoreType
<1>2. /\ job' = [job EXCEPT ![w] = k] /\ pc' = [pc EXCEPT ![w] = "commit"]
      /\ UNCHANGED <<store, page, finished>> /\ fresh' = fresh \cup {w}
  BY DEF Plan, Go
<1>3. LocalType' /\ pc'[w] = "commit" /\ job'[w] = k
  BY <1>1, <1>2 DEF IInv, LocalType, Steps
<1>4. Quiet(w)
  BY <1>2 DEF Quiet, IInv, LocalType
<1>5. Errand(w)' /\ InHand(w)'
  BY <1>1, <1>2, <1>3 DEF Errand, InHand, Purging, store
<1> QED BY <1>2, <1>3, <1>4, <1>5, QuietMove, SoundStep DEF Sound

\* PlanCreate keeps the invariant.
LEMMA PlanCreateKeeps ==
  ASSUME IInv, NEW w \in Workers, PlanCreate(w)
  PROVE  IInv'
<1>1. CASE Plan(w, [NoJob EXCEPT !.op = "create"])
  <2>1. [NoJob EXCEPT !.op = "create"] \in Job
    BY NoJobType DEF Job, Ops
  <2> QED BY <1>1, <2>1, PlanSound DEF NoJob
<1>2. ASSUME NEW s \in Sessions \cup {None},
             Plan(w, [NoJob EXCEPT !.op = "create", !.scope = s, !.origin = "implicit"])
      PROVE  IInv'
  <2>1. [NoJob EXCEPT !.op = "create", !.scope = s, !.origin = "implicit"] \in Job
    BY NoJobType DEF Job, Ops, Scopes, Sources
  <2> QED BY <1>2, <2>1, PlanSound DEF NoJob
<1> QED BY <1>1, <1>2 DEF PlanCreate

\* PlanChange keeps the invariant.
LEMMA PlanChangeKeeps ==
  ASSUME IInv, NEW w \in Workers, PlanChange(w)
  PROVE  IInv'
<1>1. PICK i \in Items, op \in {"update", "delete"}, o \in {"user", "implicit"} :
        /\ Visible(i)
        /\ Plan(w, [NoJob EXCEPT !.op = op, !.item = i, !.held = records[i], !.origin = o])
  BY DEF PlanChange
<1> DEFINE j == [NoJob EXCEPT !.op = op, !.item = i, !.held = records[i], !.origin = o]
<1>2. records[i] \in Record /\ records[i].state = "live"
  BY <1>1 DEF IInv, StoreType, Visible, Live
<1>3. j \in Job /\ j.op = op /\ j.item = i /\ j.held = records[i]
  BY <1>2, NoJobType DEF Job, Ops, NoJob
<1> QED BY <1>1, <1>2, <1>3, PlanSound

\* The records a commit leaves: one of them new, raised or gone.
LEMMA CommitMoves ==
  ASSUME IInv, NEW w \in Workers, Commit(w)
  PROVE  records' \in [Items -> Record] /\ RecordsMove
<1>1. /\ job[w].epoch = epoch /\ job[w] \in Job /\ epoch' = epoch
      /\ records \in [Items -> Record]
  BY DEF Commit, Committing, IInv, InHand, LocalType, StoreType
<1>2. CASE job[w].op = "create"
  <2>1. PICK i \in Items : records' = [records EXCEPT ![i] = Written(w, job[w].scope, 1)]
    BY <1>2 DEF Commit
  <2>2. job[w].scope \in Sources \cup {None}
    BY <1>2 DEF IInv, Errand, Commit, Committing, Sources
  <2> DEFINE r == Written(w, job[w].scope, 1)
  <2>3. r \in Record /\ r.state = "live" /\ r.epoch = epoch /\ r.basis = epoch
    BY <1>1, <2>2, WrittenType DEF IInv
  <2> HIDE DEF r
  <2> QED BY <1>1, <2>1, <2>3 DEF r, RecordsMove, Live, Bears
<1>3. CASE job[w].op = "update"
  <2>1. job[w].item \in Items
    BY <1>3 DEF IInv, Errand, Commit, Committing
  <2> DEFINE r == records[job[w].item]
  <2>2. records' = [records EXCEPT ![job[w].item] = Written(w, r.source, r.version + 1)]
    BY <1>3 DEF Commit
  <2>3. r.source \in Sources \cup {None} /\ r.version + 1 \in Nat
    BY <1>1, <2>1 DEF Record
  <2>4. /\ Written(w, r.source, r.version + 1) \in Record
        /\ Written(w, r.source, r.version + 1).state = "live"
        /\ Written(w, r.source, r.version + 1).epoch = epoch
        /\ Written(w, r.source, r.version + 1).basis = epoch
    BY <1>1, <2>3, WrittenType DEF IInv
  <2> QED BY <1>1, <2>1, <2>2, <2>4 DEF RecordsMove, Live, Bears
<1>4. CASE job[w].op = "delete"
  <2> DEFINE r == [Gone EXCEPT !.origin = job[w].origin, !.generation = job[w].generation]
  <2>1. records' = [records EXCEPT ![job[w].item] = r]
    BY <1>4 DEF Commit
  <2>2. r \in Record /\ r.state = "gone"
    BY <1>1, GoneIsGone DEF Record, Job
  <2> HIDE DEF r
  <2> QED BY <1>1, <2>1, <2>2 DEF RecordsMove
<1> QED BY <1>2, <1>3, <1>4 DEF Commit

\* Commit keeps the invariant.
LEMMA CommitKeeps ==
  ASSUME IInv, NEW w \in Workers, Commit(w)
  PROVE  IInv'
<1>1. End(w) /\ UNCHANGED <<epoch, cutoffs, preference, marker, library, finished>> /\ fresh' = {}
  BY DEF Commit
<1>2. /\ LocalType' /\ pc'[w] = "idle" /\ job'[w] = NoJob
      /\ \A v \in Workers \ {w} : pc'[v] = pc[v] /\ job'[v] = job[v]
  BY <1>1, EndType DEF IInv
<1>3. StoreType' /\ StoreMove
  BY <1>1, CommitMoves DEF IInv, StoreType, StoreMove
<1>4. OthersKeep(w)
  BY <1>1, <1>2 DEF OthersKeep
<1> QED BY <1>1, <1>2, <1>3, <1>4, OverSound, SoundStep DEF Sound

\* A request that ends without a write keeps the invariant.
LEMMA EndKeeps ==
  ASSUME IInv, NEW w \in Workers, End(w), fresh' \subseteq fresh \cup {w},
         UNCHANGED <<store, finished>>
  PROVE  IInv'
<1>1. /\ LocalType' /\ pc'[w] = "idle" /\ job'[w] = NoJob
      /\ \A v \in Workers \ {w} : pc'[v] = pc[v] /\ job'[v] = job[v]
  BY EndType DEF IInv
<1>2. Quiet(w)
  BY <1>1 DEF Quiet
<1> QED BY <1>1, <1>2, QuietMove, OverSound, SoundStep DEF Sound

\* Recapture keeps the invariant: only under the epoch of the plan is the new
\* state taken.
LEMMA RecaptureKeeps ==
  ASSUME IInv, NEW w \in Workers, Recapture(w)
  PROVE  IInv'
<1>1. UNCHANGED <<store, finished>> /\ fresh' \subseteq fresh \cup {w}
  BY DEF Recapture
<1>2. CASE epoch = job[w].epoch
  <2>1. Again(w, "commit") /\ "commit" \in Steps /\ pc[w] = "commit"
    BY <1>2 DEF Recapture, Steps
  <2>2. /\ LocalType'
        /\ \/ pc'[w] = "commit" /\ job'[w] = job[w]
           \/ pc'[w] = "idle" /\ job'[w] = NoJob
        /\ \A v \in Workers \ {w} : pc'[v] = pc[v] /\ job'[v] = job[v]
    BY <2>1, AgainType DEF IInv
  <2>3. Quiet(w)
    BY <1>1, <2>2 DEF Quiet
  <2>4. CASE pc'[w] = "commit" /\ job'[w] = job[w]
    <3>1. Errand(w)' /\ InHand(w)'
      BY <2>1, <2>4, <1>1, <1>2 DEF IInv, Errand, InHand, Purging, store
    <3> QED BY <1>1, <2>2, <2>3, <3>1, QuietMove, SoundStep DEF Sound
  <2>5. CASE pc'[w] = "idle" /\ job'[w] = NoJob
    BY <1>1, <2>2, <2>3, <2>5, QuietMove, OverSound, SoundStep DEF Sound
  <2> QED BY <2>2, <2>4, <2>5
<1>3. CASE epoch # job[w].epoch
  BY <1>1, <1>3, EndKeeps DEF Recapture
<1> QED BY <1>2, <1>3

-----------------------------------------------------------------------------
(* Saves                                                                   *)

\* A request that takes its first step with a job keeps the invariant.
LEMMA StartKeeps ==
  ASSUME IInv, NEW w \in Workers, NEW j \in Job, NEW p \in {"read", "begin", "mark"},
         j.scope \in Scopes, j.origin = "user",
         p # "begin" => j.scope \in Documents, j.op = "remove" => j.scope \in Documents,
         job' = [job EXCEPT ![w] = j], Go(w, p),
         UNCHANGED <<store, fresh, page, finished>>
  PROVE  IInv'
<1>1. LocalType' /\ pc'[w] = p /\ job'[w] = j
  BY DEF IInv, LocalType, Steps, Go
<1>2. Quiet(w)
  BY DEF Quiet, Go, IInv, LocalType
<1>3. Errand(w)' /\ InHand(w)'
  BY <1>1 DEF Errand, InHand, Purging
<1> QED BY <1>1, <1>2, <1>3, QuietMove, SoundStep DEF Sound

\* The steps that start a save, a forget or a deletion keep the invariant.
LEMMA StartsKeep ==
  ASSUME IInv, NEW w \in Workers, StartSave(w) \/ StartForget(w) \/ StartDelete(w)
  PROVE  IInv'
<1>1. library \subseteq Documents /\ Documents \subseteq Scopes /\ Sessions \subseteq Scopes
      /\ Everything \in Scopes /\ epoch \in Nat
  BY DEF IInv, StoreType, Scopes, Sources
<1>2. CASE StartSave(w)
  <2>1. PICK d \in library :
          job' = [job EXCEPT ![w] = [NoJob EXCEPT !.op = "save", !.scope = d, !.epoch = epoch]]
    BY <1>2 DEF StartSave
  <2> DEFINE j == [NoJob EXCEPT !.op = "save", !.scope = d, !.epoch = epoch]
  <2>2. j \in Job /\ j.op = "save" /\ j.scope = d /\ j.origin = "user"
    BY <1>1, NoJobType DEF Job, Ops, NoJob
  <2> HIDE DEF j
  <2> QED BY <1>1, <1>2, <2>1, <2>2, StartKeeps DEF j, StartSave
<1>3. CASE StartForget(w)
  <2>1. PICK s \in Sessions \cup library \cup {Everything} :
          job' = [job EXCEPT ![w] = [NoJob EXCEPT !.op = "forget", !.scope = s]]
    BY <1>3 DEF StartForget
  <2> DEFINE j == [NoJob EXCEPT !.op = "forget", !.scope = s]
  <2>2. j \in Job /\ j.op = "forget" /\ j.scope = s /\ j.origin = "user" /\ s \in Scopes
    BY <1>1, NoJobType DEF Job, Ops, NoJob
  <2> HIDE DEF j
  <2> QED BY <1>3, <2>1, <2>2, StartKeeps DEF j, StartForget
<1>4. CASE StartDelete(w)
  <2>1. PICK d \in library : job' = [job EXCEPT ![w] = [NoJob EXCEPT !.op = "remove", !.scope = d]]
    BY <1>4 DEF StartDelete
  <2> DEFINE j == [NoJob EXCEPT !.op = "remove", !.scope = d]
  <2>2. j \in Job /\ j.op = "remove" /\ j.scope = d /\ j.origin = "user"
    BY <1>1, NoJobType DEF Job, Ops, NoJob
  <2> HIDE DEF j
  <2> QED BY <1>1, <1>4, <2>1, <2>2, StartKeeps DEF j, StartDelete
<1> QED BY <1>2, <1>3, <1>4

\* ReadSource keeps the invariant: a deleted document is not saved.
LEMMA ReadSourceKeeps ==
  ASSUME IInv, NEW w \in Workers, ReadSource(w)
  PROVE  IInv'
<1>1. CASE marker[job[w].scope] = "deleted"
  BY <1>1, EndKeeps DEF ReadSource
<1>2. CASE marker[job[w].scope] # "deleted"
  <2>1. /\ pc' = [pc EXCEPT ![w] = "replace"] /\ fresh' = fresh \cup {w}
        /\ page' = [page EXCEPT ![w] =
             {Held(i) : i \in {x \in Items : Live(x) /\ records[x].source = job[w].scope}}]
        /\ UNCHANGED <<job, store, finished>>
    BY <1>2 DEF ReadSource, Go
  <2>2. \A i \in Items : Held(i) \in [item : Items, record : Record]
    BY DEF Held, IInv, StoreType
  <2>3. LocalType' /\ pc'[w] = "replace" /\ job'[w] = job[w]
    BY <2>1, <2>2 DEF IInv, LocalType, Steps
  <2>4. Quiet(w)
    BY <2>1 DEF Quiet, IInv, LocalType
  <2>5. Errand(w)' /\ InHand(w)'
    BY <1>2, <2>1, <2>3 DEF ReadSource, IInv, Errand, InHand, Purging, store
  <2> QED BY <2>1, <2>3, <2>4, <2>5, QuietMove, SoundStep DEF Sound
<1> QED BY <1>1, <1>2

\* The records a replacement leaves: a new one, and the old ones gone.
LEMMA ReplaceMoves ==
  ASSUME IInv, NEW w \in Workers, ReplaceSource(w)
  PROVE  records' \in [Items -> Record] /\ RecordsMove
<1>1. PICK n \in Items :
        records' = [i \in Items |->
          IF i = n THEN Written(w, job[w].scope, 1)
          ELSE IF i \in {h.item : h \in page[w]} THEN Gone ELSE records[i]]
  BY DEF ReplaceSource
<1> DEFINE r == Written(w, job[w].scope, 1)
<1>2. job[w].scope \in Documents /\ job[w].scope \in Sources \cup {None}
  BY DEF IInv, Errand, ReplaceSource, Sources
<1>3. /\ r \in Record /\ r.state = "live" /\ r.epoch = epoch
      /\ r.source \in Documents /\ r.version = 1
  BY <1>2, WrittenType DEF IInv
<1>4. epoch' = epoch /\ records \in [Items -> Record]
  BY DEF ReplaceSource, IInv, StoreType
<1> HIDE DEF r
<1>5. records' \in [Items -> Record]
  BY <1>1, <1>3, <1>4, GoneIsGone DEF r
<1>6. ASSUME NEW i \in Items
      PROVE  \/ records'[i] = records[i]
             \/ records'[i].state = "gone"
             \/ records'[i] = r
  BY <1>1, GoneIsGone DEF r
<1> QED BY <1>3, <1>4, <1>5, <1>6 DEF RecordsMove, Live, Bears, FromSave

\* ReplaceSource keeps the invariant.
LEMMA ReplaceSourceKeeps ==
  ASSUME IInv, NEW w \in Workers, ReplaceSource(w)
  PROVE  IInv'
<1>1. /\ End(w) /\ UNCHANGED <<epoch, cutoffs, preference, library, finished>> /\ fresh' = {}
      /\ marker' = [marker EXCEPT ![job[w].scope] = "active"]
  BY DEF ReplaceSource
<1>2. /\ LocalType' /\ pc'[w] = "idle" /\ job'[w] = NoJob
      /\ \A v \in Workers \ {w} : pc'[v] = pc[v] /\ job'[v] = job[v]
  BY <1>1, EndType DEF IInv
<1>3. StoreType' /\ StoreMove
  <2>1. records' \in [Items -> Record] /\ RecordsMove
    BY ReplaceMoves
  <2>2. StoreType'
    BY <1>1, <2>1 DEF IInv, StoreType
  <2>3. StoreMove
    BY <1>1, <2>1 DEF IInv, StoreType, StoreMove
  <2> QED BY <2>2, <2>3
<1>4. OthersKeep(w)
  BY <1>1, <1>2 DEF OthersKeep
<1> QED BY <1>1, <1>2, <1>3, <1>4, OverSound, SoundStep DEF Sound

\* A lost race of a save or of a purge keeps the invariant.
LEMMA LostKeeps ==
  ASSUME IInv, NEW w \in Workers, NEW p \in {"read", "purge"},
         Again(w, p), fresh' \subseteq fresh, UNCHANGED <<store, finished>>,
         pc[w] = IF p = "read" THEN "replace" ELSE "delete"
  PROVE  IInv'
<1>1. /\ LocalType'
      /\ \/ pc'[w] = p /\ job'[w] = job[w]
         \/ pc'[w] = "idle" /\ job'[w] = NoJob
      /\ \A v \in Workers \ {w} : pc'[v] = pc[v] /\ job'[v] = job[v]
  BY AgainType DEF IInv, Steps
<1>2. Quiet(w)
  BY <1>1 DEF Quiet
<1>3. CASE pc'[w] = p /\ job'[w] = job[w]
  <2>1. Errand(w)' /\ InHand(w)'
    BY <1>3 DEF IInv, Errand, InHand, Purging, store
  <2> QED BY <1>1, <1>2, <2>1, QuietMove, SoundStep DEF Sound
<1>4. CASE pc'[w] = "idle" /\ job'[w] = NoJob
  BY <1>1, <1>2, <1>4, QuietMove, OverSound, SoundStep DEF Sound
<1> QED BY <1>1, <1>3, <1>4

-----------------------------------------------------------------------------
(* Forgets                                                                 *)

\* MarkDeleted keeps the invariant: a save that has read another marker must
\* read again.
LEMMA MarkDeletedKeeps ==
  ASSUME IInv, NEW w \in Workers, MarkDeleted(w)
  PROVE  IInv'
<1>1. /\ pc[w] = "mark" /\ pc' = [pc EXCEPT ![w] = "begin"] /\ job' = job
      /\ UNCHANGED <<epoch, cutoffs, preference, records, library, page, finished>>
      /\ marker' = [marker EXCEPT ![job[w].scope] = "deleted"]
      /\ fresh' = IF marker[job[w].scope] = "deleted" THEN fresh ELSE {}
  BY DEF MarkDeleted, Go
<1>2. job[w].scope \in Documents
  BY <1>1 DEF IInv, Errand
<1>3. fresh' # {} => marker' = marker
  BY <1>1, <1>2 DEF IInv, StoreType
<1>4. StoreType' /\ StoreMove
  BY <1>1, <1>2, <1>3 DEF IInv, StoreType, StoreMove, RecordsMove
<1>5. LocalType' /\ pc'[w] = "begin" /\ job'[w] = job[w] /\ OthersKeep(w)
  BY <1>1 DEF IInv, LocalType, Steps, OthersKeep
<1>6. Errand(w)' /\ InHand(w)'
  BY <1>1, <1>2, <1>5 DEF IInv, Errand, InHand, Purging, Scopes, Sources
<1> QED BY <1>1, <1>4, <1>5, <1>6, SoundStep DEF Sound

\* BeginForget keeps the invariant.
LEMMA BeginForgetKeeps ==
  ASSUME IInv, NEW w \in Workers, BeginForget(w)
  PROVE  IInv'
<1>1. /\ pc[w] = "begin" /\ pc' = [pc EXCEPT ![w] = "purge"]
      /\ UNCHANGED <<preference, marker, records, library, page, finished>>
  BY DEF BeginForget, Go
<1>2. job[w].scope \in Scopes /\ job[w] \in Job
  BY <1>1 DEF IInv, Errand, LocalType
<1>3. PICK b \in Nat :
        /\ job' = [job EXCEPT ![w].before = b]
        /\ b <= epoch'
        /\ StoreType' /\ StoreMove /\ fresh' \subseteq fresh
  <2>1. CASE \E c \in cutoffs : /\ job' = [job EXCEPT ![w].before = c.before]
                                /\ UNCHANGED <<epoch, cutoffs, fresh>>
    <3>1. PICK c \in cutoffs : job' = [job EXCEPT ![w].before = c.before]
      BY <2>1
    <3>2. c.before \in Nat /\ c.before <= epoch
      BY DEF IInv, StoreType, StoreInv, CutoffType
    <3>3. StoreType' /\ StoreMove
      BY <1>1, <2>1 DEF IInv, StoreType, StoreMove, RecordsMove
    <3> QED BY <2>1, <3>1, <3>2, <3>3
  <2>2. CASE /\ epoch' = epoch + 1 /\ fresh' = {}
             /\ cutoffs' = cutoffs \cup {[scope |-> job[w].scope, before |-> epoch + 1]}
             /\ job' = [job EXCEPT ![w].before = epoch + 1]
    <3>1. StoreType'
      BY <1>1, <1>2, <2>2 DEF IInv, StoreType, CutoffType
    <3>2. StoreMove
      BY <1>1, <2>2 DEF IInv, StoreType, StoreMove, RecordsMove
    <3>3. epoch + 1 \in Nat /\ epoch + 1 <= epoch'
      BY <2>2 DEF IInv, StoreType
    <3> QED BY <2>2, <3>1, <3>2, <3>3
  <2> QED BY <2>1, <2>2 DEF BeginForget
<1>4. LocalType' /\ pc'[w] = "purge" /\ job'[w] = [job[w] EXCEPT !.before = b]
  BY <1>1, <1>2, <1>3 DEF IInv, LocalType, Steps, Job
<1>5. OthersKeep(w)
  BY <1>1, <1>3 DEF IInv, LocalType, OthersKeep
<1>6. Errand(w)' /\ InHand(w)'
  BY <1>1, <1>2, <1>3, <1>4 DEF IInv, Errand, InHand, Purging, Job
<1> QED BY <1>1, <1>3, <1>4, <1>5, <1>6, SoundStep DEF Sound

\* ListPage keeps the invariant.
LEMMA ListPageKeeps ==
  ASSUME IInv, NEW w \in Workers, ListPage(w)
  PROVE  IInv'
<1>1. pc[w] = "purge" /\ UNCHANGED <<store, fresh, job, finished>>
  BY DEF ListPage
<1>2. PICK p \in {"verify", "delete"} : pc' = [pc EXCEPT ![w] = p]
  BY DEF ListPage, Go
<1>3. LocalType'
  <2>1. CASE UNCHANGED page
    BY <1>1, <1>2, <2>1 DEF IInv, LocalType, Steps
  <2>2. ASSUME NEW S \in SUBSET Candidates(w), page' = [page EXCEPT ![w] = {Held(i) : i \in S}]
        PROVE  LocalType'
    <3>1. \A i \in S : Held(i) \in [item : Items, record : Record]
      BY DEF Held, Candidates, IInv, StoreType
    <3> QED BY <1>1, <1>2, <2>2, <3>1 DEF IInv, LocalType, Steps
  <2> QED BY <2>1, <2>2 DEF ListPage
<1>4. Quiet(w)
  BY <1>1, <1>2 DEF Quiet, IInv, LocalType
<1>5. pc'[w] = p /\ job'[w] = job[w]
  BY <1>1, <1>2 DEF IInv, LocalType
<1>6. Errand(w)' /\ InHand(w)'
  BY <1>1, <1>5 DEF IInv, Errand, InHand, Purging, store
<1> QED BY <1>1, <1>3, <1>4, <1>6, QuietMove, SoundStep DEF Sound

\* DeletePage keeps the invariant.
LEMMA DeletePageKeeps ==
  ASSUME IInv, NEW w \in Workers, DeletePage(w)
  PROVE  IInv'
<1>1. /\ pc[w] = "delete" /\ pc' = [pc EXCEPT ![w] = "purge"]
      /\ records' = [i \in Items |-> IF i \in {h.item : h \in page[w]} THEN Gone ELSE records[i]]
      /\ page' = [page EXCEPT ![w] = {}]
      /\ UNCHANGED <<epoch, cutoffs, preference, marker, library, fresh, job, finished>>
  BY DEF DeletePage, Go
<1>2. StoreType' /\ StoreMove
  BY <1>1, GoneIsGone DEF IInv, StoreType, StoreMove, RecordsMove
<1>3. LocalType' /\ pc'[w] = "purge" /\ job'[w] = job[w] /\ OthersKeep(w)
  BY <1>1 DEF IInv, LocalType, Steps, OthersKeep
<1>4. Errand(w)' /\ InHand(w)'
  BY <1>1, <1>3 DEF IInv, Errand, InHand, Purging
<1> QED BY <1>1, <1>2, <1>3, <1>4, SoundStep DEF Sound

\* Verify keeps the invariant.
LEMMA VerifyKeeps ==
  ASSUME IInv, NEW w \in Workers, Verify(w)
  PROVE  IInv'
<1>1. CASE Candidates(w) = {}
  <2>1. /\ pc[w] = "verify" /\ pc' = [pc EXCEPT ![w] = "clear"]
        /\ UNCHANGED <<job, page, store, fresh, finished>>
    BY <1>1 DEF Verify, Go
  <2>2. LocalType' /\ pc'[w] = "clear" /\ job'[w] = job[w]
    BY <2>1 DEF IInv, LocalType, Steps
  <2>3. Quiet(w)
    BY <2>1 DEF Quiet, IInv, LocalType
  <2>4. Candidates(w)' = {}
    BY <1>1, <2>1 DEF Candidates, Cutoff, Applies, store
  <2>5. Errand(w)' /\ InHand(w)'
    BY <2>1, <2>2, <2>4 DEF IInv, Errand, InHand, Purging, store
  <2> QED BY <2>1, <2>2, <2>3, <2>5, QuietMove, SoundStep DEF Sound
<1>2. CASE Candidates(w) # {}
  BY <1>2, EndKeeps DEF Verify
<1> QED BY <1>1, <1>2

\* ClearCutoff keeps the invariant: nothing the cutoff reaches is left.
LEMMA ClearCutoffKeeps ==
  ASSUME IInv, NEW w \in Workers, ClearCutoff(w)
  PROVE  IInv'
<1>1. /\ pc[w] = "clear" /\ cutoffs' = Retained(w)
      /\ fresh' \subseteq fresh /\ finished' = finished \cup {Cutoff(w)}
      /\ UNCHANGED <<epoch, preference, marker, records, library>>
  BY DEF ClearCutoff
<1>2. job[w].scope \in Scopes /\ job[w] \in Job /\ job[w].before <= epoch /\ Candidates(w) = {}
  BY <1>1 DEF IInv, Errand, InHand, Purging, LocalType
<1>3. Cutoff(w) \in CutoffType /\ Cutoff(w).before <= epoch
      /\ \A i \in Items : ~Applies(Cutoff(w), records[i])
  BY <1>2 DEF Cutoff, CutoffType, Job, Candidates
<1>4. StoreType' /\ StoreMove
  <2>1. Retained(w) \subseteq cutoffs
    BY DEF Retained
  <2> QED BY <1>1, <1>3, <2>1 DEF IInv, StoreType, StoreMove, RecordsMove
<1>5. StoreInv'
  BY <1>1, <1>3, <1>4, StoreKept
<1>6. /\ LocalType'
      /\ \/ pc'[w] = "idle" /\ job'[w] = NoJob
         \/ pc'[w] = "unlist" /\ job'[w] = job[w] /\ job[w].op = "remove"
      /\ \A v \in Workers \ {w} : pc'[v] = pc[v] /\ job'[v] = job[v]
  <2>1. CASE End(w)
    BY <2>1, EndType DEF IInv
  <2>2. CASE /\ job[w].op = "remove" /\ pc' = [pc EXCEPT ![w] = "unlist"]
             /\ UNCHANGED <<job, page>>
    BY <2>2 DEF IInv, LocalType, Steps
  <2> QED BY <2>1, <2>2 DEF ClearCutoff, Go
<1>7. Errand(w)' /\ InHand(w)'
  <2>1. CASE pc'[w] = "idle" /\ job'[w] = NoJob
    BY <2>1, OverSound
  <2>2. CASE pc'[w] = "unlist" /\ job'[w] = job[w] /\ job[w].op = "remove"
    BY <2>2 DEF IInv, Errand, InHand, Purging
  <2> QED BY <1>6, <2>1, <2>2
<1>8. OthersKeep(w)
  BY <1>1, <1>6 DEF OthersKeep
<1>9. \A v \in Workers \ {w} : Errand(v)' /\ InHand(v)'
  BY <1>4, <1>8, OthersKept
<1> QED BY <1>4, <1>5, <1>6, <1>7, <1>9 DEF IInv

\* RemoveManifest keeps the invariant.
LEMMA RemoveManifestKeeps ==
  ASSUME IInv, NEW w \in Workers, RemoveManifest(w)
  PROVE  IInv'
<1>1. /\ End(w) /\ library' = library \ {job[w].scope}
      /\ UNCHANGED <<epoch, cutoffs, preference, marker, records, fresh, finished>>
  BY DEF RemoveManifest
<1>2. /\ LocalType' /\ pc'[w] = "idle" /\ job'[w] = NoJob
      /\ \A v \in Workers \ {w} : pc'[v] = pc[v] /\ job'[v] = job[v]
  BY <1>1, EndType DEF IInv
<1>3. StoreType' /\ StoreMove /\ OthersKeep(w)
  BY <1>1, <1>2 DEF IInv, StoreType, StoreMove, RecordsMove, OthersKeep
<1> QED BY <1>1, <1>2, <1>3, OverSound, SoundStep DEF Sound

\* SetPreference keeps the invariant.
LEMMA SetPreferenceKeeps ==
  ASSUME IInv, SetPreference
  PROVE  IInv'
<1>1. /\ preference' = preference + 1 /\ fresh' = {}
      /\ UNCHANGED <<epoch, cutoffs, marker, records, library, pc, job, page, finished>>
  BY DEF SetPreference, local
<1>2. StoreType' /\ LocalType' /\ StoreInv'
  BY <1>1 DEF IInv, StoreType, LocalType, StoreInv, Live, Applies
<1>3. ASSUME NEW v \in Workers PROVE Errand(v)' /\ InHand(v)'
  <2>1. Candidates(v)' = Candidates(v)
    BY <1>1 DEF Candidates, Cutoff, Applies
  <2> QED BY <1>1, <2>1 DEF IInv, Errand, InHand
<1> QED BY <1>2, <1>3 DEF IInv

-----------------------------------------------------------------------------
(* The invariant holds                                                     *)

\* It holds at first.
LEMMA InitKeeps == Init => IInv
<1> SUFFICES ASSUME Init PROVE IInv
  OBVIOUS
<1>1. StoreType /\ LocalType
  BY NoJobType DEF Init, StoreType, LocalType, Steps
<1>2. \A w \in Workers : Errand(w) /\ InHand(w)
  BY DEF Init, Errand, InHand, Purging, NoJob
<1>3. StoreInv
  BY DEF Init, StoreInv, Live, Absent, Blank
<1> QED BY <1>1, <1>2, <1>3 DEF IInv

\* Every step keeps it.
LEMMA NextKeeps == IInv /\ [Next]_vars => IInv'
<1> SUFFICES ASSUME IInv, [Next]_vars PROVE IInv'
  OBVIOUS
<1>1. CASE SetPreference
  BY <1>1, SetPreferenceKeeps
<1>2. ASSUME NEW w \in Workers, Write(w) PROVE IInv'
  <2>1. CASE RefuseCommit(w)
    BY <2>1, EndKeeps DEF RefuseCommit
  <2> QED BY <1>2, <2>1, PlanCreateKeeps, PlanChangeKeeps, CommitKeeps, RecaptureKeeps DEF Write
<1>3. ASSUME NEW w \in Workers, Save(w) PROVE IInv'
  <2>1. CASE ReplaceLost(w)
    BY <2>1, LostKeeps DEF ReplaceLost
  <2> QED BY <1>3, <2>1, StartsKeep, ReadSourceKeeps, ReplaceSourceKeeps DEF Save
<1>4. ASSUME NEW w \in Workers, Forget(w) PROVE IInv'
  <2>1. CASE PageLost(w)
    BY <2>1, LostKeeps DEF PageLost
  <2> QED BY <1>4, <2>1, StartsKeep, MarkDeletedKeeps, BeginForgetKeeps, ListPageKeeps,
             DeletePageKeeps, VerifyKeeps, ClearCutoffKeeps, RemoveManifestKeeps DEF Forget
<1>5. ASSUME NEW w \in Workers, Stop(w) PROVE IInv'
  BY <1>5, EndKeeps DEF Stop
<1>6. CASE UNCHANGED vars
  <2>1. UNCHANGED <<store, fresh, pc, job, page, finished>>
    BY <1>6 DEF vars, local
  <2>2. StoreType' /\ LocalType' /\ StoreInv'
    BY <2>1 DEF IInv, StoreType, LocalType, StoreInv, Live, Applies, store
  <2>3. ASSUME NEW v \in Workers PROVE Errand(v)' /\ InHand(v)'
    <3>1. Candidates(v)' = Candidates(v)
      BY <2>1 DEF Candidates, Cutoff, Applies, store
    <3> QED BY <2>1, <3>1 DEF IInv, Errand, InHand, store
  <2> QED BY <2>2, <2>3 DEF IInv
<1> QED BY <1>1, <1>2, <1>3, <1>4, <1>5, <1>6 DEF Next

\* The invariant holds of every behaviour.
LEMMA Invariant == Spec => []IInv
BY InitKeeps, NextKeeps, PTL DEF Spec

-----------------------------------------------------------------------------
(* The theorems                                                            *)

\* Every document of cosmos_store.py and what each request carries stay in
\* their types.
THEOREM TypeCorrect == Spec => []TypeOK
<1>1. IInv => TypeOK
  BY DEF IInv, StoreType, LocalType, Job, TypeOK
<1> QED BY <1>1, Invariant, PTL

\* Once a forget has reported success, nothing of its scope from before its
\* cutoff is in the store again, nor a write that was planned before the cutoff,
\* whatever was retried or updated around it.  A save that was begun before it
\* is not excluded: it captures the state only after it has embedded.
THEOREM Forgotten == Spec => []ForgottenForGood
<1>1. ASSUME IInv, NEW c \in finished, NEW i \in Items, Covers(c, records[i])
      PROVE  /\ records[i].epoch >= c.before
             /\ records[i].basis >= c.before \/ FromSave(records[i])
  <2>1. ~Applies(c, records[i]) /\ Bears(records[i])
    BY <1>1 DEF IInv, StoreInv, Covers, Live
  <2>2. records[i].epoch \in Nat /\ c.before \in Nat
    BY <1>1 DEF IInv, StoreType, Record, CutoffType
  <2>3. records[i].epoch >= c.before
    BY <1>1, <2>1, <2>2 DEF Applies, Covers
  <2> QED BY <2>1, <2>3 DEF Bears
<1>2. IInv => ForgottenForGood
  BY <1>1 DEF ForgottenForGood
<1> QED BY <1>2, Invariant, PTL

\* The steps of a request that store no memory: those that leave the memories
\* alone and those that only purge.
StoresNothing == \A i \in Items : records'[i] = records[i] \/ records'[i] = Gone

\* Only a commit and a replacement store memories.
LEMMA OthersStoreNothing ==
  ASSUME IInv, [Next]_vars
  PROVE  \/ StoresNothing /\ (marker' = marker \/ \E w \in Workers : MarkDeleted(w))
         \/ \E w \in Workers : Commit(w) \/ ReplaceSource(w)
<1>1. CASE UNCHANGED <<records, marker>>
  BY <1>1 DEF StoresNothing
<1>2. ASSUME NEW w \in Workers, MarkDeleted(w) PROVE UNCHANGED records
  BY <1>2 DEF MarkDeleted
<1>3. ASSUME NEW w \in Workers, DeletePage(w) PROVE StoresNothing /\ marker' = marker
  BY <1>3 DEF DeletePage, StoresNothing
<1>4. ASSUME NEW w \in Workers, Write(w) PROVE Commit(w) \/ UNCHANGED <<records, marker>>
  BY <1>4 DEF Write, PlanCreate, PlanChange, Plan, RefuseCommit, Recapture, store
<1>5. ASSUME NEW w \in Workers, Save(w) PROVE ReplaceSource(w) \/ UNCHANGED <<records, marker>>
  BY <1>5 DEF Save, StartSave, ReadSource, ReplaceLost, store
<1>6. ASSUME NEW w \in Workers, Forget(w)
      PROVE  MarkDeleted(w) \/ DeletePage(w) \/ UNCHANGED <<records, marker>>
  BY <1>6 DEF Forget, StartForget, StartDelete, BeginForget, ListPage, PageLost, Verify,
              ClearCutoff, RemoveManifest, store
<1>7. CASE SetPreference \/ UNCHANGED vars \/ \E w \in Workers : Stop(w)
  BY <1>1, <1>7 DEF SetPreference, vars, store, Stop
<1> QED BY <1>1, <1>2, <1>3, <1>4, <1>5, <1>6, <1>7 DEF Next, StoresNothing

\* What a commit stores: under the epoch and, of itself, under the preference of
\* its plan, which a deletion leaves too; and never a memory of a document that
\* had none there.
LEMMA CommitStores ==
  ASSUME IInv, NEW w \in Workers, Commit(w), NEW i \in Items, records'[i] # records[i]
  PROVE  /\ records'[i].origin = "implicit" => On(preference) /\ records'[i].generation = preference
         /\ Live(i)' /\ records'[i].source \in Documents =>
              Live(i) /\ records[i].source = records'[i].source
<1>1. job[w] \in Job /\ records \in [Items -> Record]
  BY DEF IInv, LocalType, StoreType
<1>2. /\ records'[i].origin = job[w].origin /\ records'[i].generation = job[w].generation
      /\ Live(i)' /\ records'[i].source \in Documents =>
           Live(i) /\ records[i].source = records'[i].source
  <2>1. CASE job[w].op = "create"
    <3>1. PICK x \in Items : records' = [records EXCEPT ![x] = Written(w, job[w].scope, 1)]
      BY <2>1 DEF Commit
    <3>2. job[w].scope \in Sessions \cup {None}
      BY <2>1 DEF IInv, Errand, Commit, Committing
    <3>3. job[w].scope \notin Documents /\ job[w].scope \in Sources \cup {None}
      BY <3>2, MemoryAssumption DEF Sources
    <3>4. records'[i] = Written(w, job[w].scope, 1)
      BY <1>1, <3>1
    <3> QED BY <3>3, <3>4, WrittenType DEF IInv
  <2>2. CASE job[w].op = "update"
    <3>1. job[w].item \in Items /\ records[job[w].item].state = "live"
      BY <2>2 DEF IInv, Errand, Commit, Committing, HeldStands
    <3>2. records' = [records EXCEPT ![job[w].item] =
                        Written(w, records[job[w].item].source, records[job[w].item].version + 1)]
      BY <2>2 DEF Commit
    <3>3. i = job[w].item
      BY <1>1, <3>2
    <3>4. records[i].source \in Sources \cup {None} /\ records[i].version + 1 \in Nat
      BY <1>1 DEF Record
    <3>5. records'[i] = Written(w, records[i].source, records[i].version + 1)
      BY <1>1, <3>2, <3>3
    <3> QED BY <3>1, <3>3, <3>4, <3>5, WrittenType DEF IInv, Live
  <2>3. CASE job[w].op = "delete"
    <3> DEFINE r == [Gone EXCEPT !.origin = job[w].origin, !.generation = job[w].generation]
    <3>1. records' = [records EXCEPT ![job[w].item] = r]
      BY <2>3 DEF Commit
    <3>2. r.state = "gone" /\ r.origin = job[w].origin /\ r.generation = job[w].generation
      BY DEF Gone, Blank
    <3> HIDE DEF r
    <3>3. records'[i] = r
      BY <1>1, <3>1
    <3> QED BY <3>2, <3>3 DEF Live
  <2> QED BY <2>1, <2>2, <2>3 DEF Commit
<1> QED BY <1>2 DEF Commit, Consents

\* What a replacement stores or purges: a memory of its document, on the owner's
\* request.
LEMMA ReplaceStores ==
  ASSUME IInv, NEW w \in Workers, ReplaceSource(w), NEW i \in Items, records'[i] # records[i]
  PROVE  /\ records'[i].origin = "user"
         /\ Live(i)' => records'[i].source = job[w].scope
<1>1. PICK n \in Items :
        records' = [x \in Items |->
          IF x = n THEN Written(w, job[w].scope, 1)
          ELSE IF x \in {h.item : h \in page[w]} THEN Gone ELSE records[x]]
  BY DEF ReplaceSource
<1>2. records'[i] \in {Gone, Written(w, job[w].scope, 1)}
  BY <1>1
<1>3. job[w].scope \in Sources \cup {None} /\ job[w].origin = "user"
  BY DEF ReplaceSource, IInv, Errand, Sources
<1>4. /\ Written(w, job[w].scope, 1).origin = "user"
      /\ Written(w, job[w].scope, 1).source = job[w].scope
  BY <1>3, WrittenType DEF IInv
<1> QED BY <1>2, <1>4, GoneIsGone DEF Live

\* A deleted document stays deleted and gets no further memory, although a save
\* reads the marker long before it writes.
THEOREM TombstonesKept == Spec => TombstonesHold
<1>1. IInv /\ [Next]_vars => KeepsTombstones
  <2> SUFFICES ASSUME IInv, [Next]_vars, NEW d \in Documents, marker[d] = "deleted"
               PROVE  /\ marker'[d] = "deleted"
                      /\ \A i \in Items : Live(i)' /\ records'[i].source = d =>
                                            Live(i) /\ records[i].source = d
    BY DEF KeepsTombstones
  <2>1. CASE StoresNothing /\ (marker' = marker \/ \E w \in Workers : MarkDeleted(w))
    <3>1. \A i \in Items : Live(i)' => records'[i] = records[i]
      BY <2>1, GoneIsGone DEF StoresNothing, Live
    <3>2. marker'[d] = "deleted"
      BY <2>1 DEF MarkDeleted, IInv, StoreType
    <3> QED BY <3>1, <3>2 DEF Live
  <2>2. ASSUME NEW w \in Workers, Commit(w)
        PROVE  /\ marker' = marker
               /\ \A i \in Items : Live(i)' /\ records'[i].source = d =>
                                     Live(i) /\ records[i].source = d
    BY <2>2, CommitStores DEF Commit, Live
  <2>3. ASSUME NEW w \in Workers, ReplaceSource(w)
        PROVE  /\ marker'[d] = "deleted"
               /\ \A i \in Items : Live(i)' /\ records'[i].source = d =>
                                     Live(i) /\ records[i].source = d
    <3>1. job[w].scope # d
      BY <2>3 DEF ReplaceSource, Replaceable, IInv, InHand
    <3>2. marker'[d] = marker[d]
      BY <2>3, <3>1 DEF ReplaceSource, IInv, StoreType
    <3> QED BY <2>3, <3>1, <3>2, ReplaceStores DEF Live
  <2> QED BY <2>1, <2>2, <2>3, OthersStoreNothing
<1> QED BY <1>1, Invariant, PTL DEF Spec, TombstonesHold

\* An automatic write, a deletion among them, is committed under the preference
\* it was planned under, while that is on.
THEOREM AutomaticWritesConsent == Spec => AutomaticStaysOff
<1> DEFINE Consented == \A i \in Items :
             records'[i] # records[i] /\ records'[i].origin = "implicit"
               => On(preference) /\ records'[i].generation = preference
<1>1. IInv /\ [Next]_vars => Consented
  BY OthersStoreNothing, CommitStores, ReplaceStores, GoneIsGone DEF StoresNothing
<1> QED BY <1>1, Invariant, PTL DEF Spec, AutomaticStaysOff
=============================================================================
