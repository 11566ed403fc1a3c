--------------------------- MODULE PinStoreProofs ---------------------------
(***************************************************************************)
(* Proofs about PinStore, for every number of ids, documents, captures and *)
(* operators.  With one call at a time the directory always loads, no      *)
(* record is ever overwritten by another and the files implement           *)
(* PinRegister.  With calls that overlap and are killed anywhere, ids      *)
(* leave no gap, links lead to names and what is cited stays recoverable;  *)
(* and as long as no two of them are adds, the rules hold, an id means one *)
(* pin and none is overwritten by another.                                 *)
(***************************************************************************)
EXTENDS PinStore, TLAPS

(***************************************************************************)
(* The inductive invariant.  At most one call is in progress; until it     *)
(* opens its file the register it loaded is the one on disk, so what it    *)
(* checked against its own register holds of the directory.                *)
(***************************************************************************)
Active(o) == pc[o] # "idle"

Alone == \A o, p \in Operators : Active(o) /\ Active(p) => o = p

Amending == {"capture", "recheck", "set_archive", "set_notes"}

\* Record r continues record q: the same pin, keeping an archive copy.
Continues(q, r) ==
  /\ Facts(r) = Facts(q)
  /\ q.archive # None => r.archive # None

NextIn(s, i) ==
  /\ i \in Ids
  /\ \A j \in DOMAIN s : j < i
  /\ i = 1 \/ i - 1 \in DOMAIN s

\* What a call knows of the register it loaded and of the record it makes.
CallInv(o) ==
  /\ pc[o] # "overlay"
  /\ pc[o] # "flush" => torn = {} /\ snap[o] = files
  /\ pc[o] = "flush" => torn = {id[o]} /\ files = Without(snap[o], id[o])
  /\ Sound(snap[o])
  /\ draft[o] \in Draft
  /\ draft[o].merged_into = None \/ pc[o] \in Amending \cup {"open", "flush"}
  /\ pc[o] \in {"exists", "fetch"} /\ id[o] # None => NextIn(snap[o], id[o])
  /\ pc[o] \in {"archive", "check", "archived"} => NextIn(snap[o], id[o])
  /\ pc[o] \notin {"mint", "exists", "fetch"} => draft[o] \in Source
  /\ pc[o] \notin {"mint", "exists", "fetch"} => Reproduced(draft[o])
  /\ pc[o] \in Amending =>
       /\ id[o] \in DOMAIN snap[o]
       /\ draft[o] = [snap[o][id[o]] EXCEPT !.archive = draft[o].archive]
       /\ snap[o][id[o]].archive # None => draft[o].archive # None
       /\ pc[o] = "set_notes" => draft[o] = snap[o][id[o]]
  /\ pc[o] \in {"open", "flush"} =>
       /\ SourceInvariants(With(snap[o], id[o], draft[o]))
       /\ \/ NextIn(snap[o], id[o]) /\ draft[o].merged_into = None
          \/ id[o] \in DOMAIN snap[o] /\ Continues(snap[o][id[o]], draft[o])

IInv ==
  /\ TypeOK
  /\ Alone
  /\ Idle => torn = {} /\ Sound(files)
  /\ \A o \in Operators : Active(o) => CallInv(o)

(***************************************************************************)
(* Registers.                                                              *)
(***************************************************************************)
\* The register of the abstract specification is this one.
LEMMA SameSound == \A s : Register!Sound(s) <=> Sound(s)
BY DEF Register!Sound, Sound, Register!IsRegister, IsRegister,
   Register!SourceInvariants, SourceInvariants, Register!LinksResolve,
   LinksResolve, Register!CitedHasArchive, CitedHasArchive,
   Register!OnePinPerVersion, OnePinPerVersion,
   Register!OneLivePinPerDocument, OneLivePinPerDocument,
   Register!DuplicateOf, DuplicateOf, Register!SameDocumentOf, SameDocumentOf,
   Register!LiveSources, LiveSources, Register!SupersededIds, SupersededIds,
   Register!Reproduced, Reproduced, Register!Source, Source,
   Register!Ids, Ids

\* Adding or replacing one record yields a register.
LEMMA WithRegister ==
  ASSUME NEW s, IsRegister(s), NEW i \in Ids, NEW r \in Source
  PROVE  /\ IsRegister(With(s, i, r))
         /\ DOMAIN With(s, i, r) = DOMAIN s \cup {i}
         /\ With(s, i, r)[i] = r
         /\ \A j \in DOMAIN s : j # i => With(s, i, r)[j] = s[j]
BY DEF IsRegister, With

LEMMA WithoutRegister ==
  ASSUME NEW s, IsRegister(s), NEW i
  PROVE  /\ IsRegister(Without(s, i))
         /\ DOMAIN Without(s, i) = DOMAIN s \ {i}
BY DEF IsRegister, Without

\* Truncating a file and then writing it is replacing its record.
LEMMA WithWithout ==
  ASSUME NEW s, NEW i, NEW r
  PROVE  With(Without(s, i), i, r) = With(s, i, r)
<1>1. DOMAIN Without(s, i) \cup {i} = DOMAIN s \cup {i}
  BY DEF Without
<1>2. \A j \in DOMAIN s \cup {i} : j # i => Without(s, i)[j] = s[j]
  BY DEF Without
<1> QED BY <1>1, <1>2 DEF With

LEMMA EmptyRegister == Sound([i \in {} |-> None])
BY DEF Sound, IsRegister, SourceInvariants, LinksResolve,
       CitedHasArchive, OnePinPerVersion, OneLivePinPerDocument, LiveSources,
       DuplicateOf

\* Writing a reproduced record that passed the rules keeps the register sound.
LEMMA WriteKeepsSound ==
  ASSUME NEW s, Sound(s), NEW i \in Ids, NEW r \in Source, Reproduced(r),
         SourceInvariants(With(s, i, r))
  PROVE  Sound(With(s, i, r))
<1>1. /\ IsRegister(s)
      /\ \A j \in DOMAIN s : Reproduced(s[j])
  BY DEF Sound, Reproduced
<1>2. /\ IsRegister(With(s, i, r))
      /\ DOMAIN With(s, i, r) = DOMAIN s \cup {i}
      /\ With(s, i, r)[i] = r
      /\ \A j \in DOMAIN s : j # i => With(s, i, r)[j] = s[j]
  BY <1>1, WithRegister
<1>3. \A j \in DOMAIN With(s, i, r) : Reproduced(With(s, i, r)[j])
  <2>1. SUFFICES ASSUME NEW j \in DOMAIN With(s, i, r)
                 PROVE  Reproduced(With(s, i, r)[j])
    OBVIOUS
  <2>2. CASE j = i
    BY <1>2, <2>2
  <2>3. CASE j # i
    <3>1. j \in DOMAIN s /\ With(s, i, r)[j] = s[j]
      BY <1>2, <2>1, <2>3
    <3> QED BY <3>1, <1>1
  <2> QED BY <2>2, <2>3
<1> QED BY <1>2, <1>3 DEF Sound

\* Marking a pin as a duplicate breaks no rule: it leaves fewer live pins.
LEMMA MergeKeepsSound ==
  ASSUME NEW s, Sound(s), NEW i \in DOMAIN s, NEW j \in DOMAIN s
  PROVE  Sound([s EXCEPT ![i].merged_into = j])
<1> DEFINE t == [s EXCEPT ![i].merged_into = j]
<1>1. IsRegister(s) /\ SourceInvariants(s)
  BY DEF Sound
<1>2. IsRegister(t) /\ DOMAIN t = DOMAIN s
  BY <1>1 DEF IsRegister, Source
<1>3. \A k \in DOMAIN s :
        /\ t[k].version = s[k].version /\ t[k].citation = s[k].citation
        /\ t[k].drift = s[k].drift /\ t[k].archive = s[k].archive
        /\ t[k].cited = s[k].cited /\ t[k].supersedes = s[k].supersedes
        /\ t[k].merged_into \in {s[k].merged_into, j}
        /\ t[k].merged_into = None => s[k].merged_into = None
  BY <1>1, RegistryAssumption DEF IsRegister, Source
<1>4. LinksResolve(t)
  BY <1>1, <1>2, <1>3 DEF SourceInvariants, LinksResolve
<1>5. CitedHasArchive(t)
  BY <1>1, <1>2, <1>3 DEF SourceInvariants, CitedHasArchive
<1>6. OnePinPerVersion(t)
  BY <1>1, <1>2, <1>3 DEF SourceInvariants, OnePinPerVersion, DuplicateOf
<1>7. LiveSources(t) \subseteq LiveSources(s)
  BY <1>2, <1>3 DEF LiveSources, SupersededIds
<1>8. OneLivePinPerDocument(t)
  <2>1. \A k, m \in LiveSources(s) :
          s[k].citation = s[m].citation /\ s[k].drift = s[m].drift => k = m
    BY <1>1 DEF SourceInvariants, OneLivePinPerDocument, SameDocumentOf
  <2>2. LiveSources(s) \subseteq DOMAIN s
    BY DEF LiveSources
  <2>3. \A k, m \in LiveSources(t) :
          t[k].citation = t[m].citation /\ t[k].drift = t[m].drift => k = m
    BY <2>1, <2>2, <1>3, <1>7
  <2> QED BY <2>3 DEF OneLivePinPerDocument, SameDocumentOf
<1>9. \A k \in DOMAIN t : Reproduced(t[k])
  BY <1>2, <1>3 DEF Sound, Reproduced
<1> QED BY <1>2, <1>4, <1>5, <1>6, <1>8, <1>9
        DEF Sound, SourceInvariants

(***************************************************************************)
(* Steps that touch no file.                                               *)
(***************************************************************************)
LEMMA OthersIdle ==
  ASSUME IInv, NEW o \in Operators, Idle \/ Active(o)
  PROVE  \A p \in Operators : p # o => ~Active(p)
BY DEF IInv, Alone, Idle, Active

\* What the call of o may rely on before a step that touches no file.
LEMMA Before ==
  ASSUME IInv, NEW o \in Operators, Idle \/ (Active(o) /\ pc[o] # "flush")
  PROVE  torn = {} /\ Sound(files)
BY DEF IInv, CallInv, Idle, Active

LEMMA LocalStep ==
  ASSUME IInv, NEW o \in Operators, Idle \/ (Active(o) /\ pc[o] # "flush"),
         UNCHANGED <<files, torn, lost>>,
         \A p \in Operators : p # o => pc'[p] = pc[p],
         TypeOK',
         pc'[o] # "idle" => CallInv(o)'
  PROVE  IInv'
<1>1. \A p \in Operators : p # o => ~Active(p)'
  BY OthersIdle DEF Active
<1>2. Alone'
  BY <1>1 DEF Alone, Active
<1>3. (Idle => torn = {} /\ Sound(files))'
  BY Before
<1>4. \A p \in Operators : Active(p)' => CallInv(p)'
  BY <1>1 DEF Active
<1> QED BY <1>2, <1>3, <1>4 DEF IInv

\* Every refusal, failure and end of a call that wrote nothing.
LEMMA ReturnStep ==
  ASSUME IInv, NEW o \in Operators, Idle \/ (Active(o) /\ pc[o] # "flush"),
         UNCHANGED <<files, torn, lost>>,
         NEW r \in Results, Return(o, r)
  PROVE  IInv'
<1>1. TypeOK'
  BY EmptyRegister DEF IInv, TypeOK, Return, Steps, Sound
<1>2. /\ pc'[o] = "idle"
      /\ \A p \in Operators : p # o => pc'[p] = pc[p]
  BY DEF Return, IInv, TypeOK
<1> QED BY <1>1, <1>2, LocalStep

LEMMA AddLoadStep ==
  ASSUME IInv, Idle, NEW o \in Operators,
         NEW v \in Versions, NEW cit \in Citations, AddLoad(o, v, cit)
  PROVE  IInv'
<1>1. UNCHANGED <<files, torn, lost>>
  BY DEF AddLoad
<1>2. CASE pc' = [pc EXCEPT ![o] = "mint"] /\ ~\E r \in Results : Return(o, r)
  <2> DEFINE blank == [version |-> v, citation |-> cit, drift |-> None,
                       archive |-> None, cited |-> FALSE, supersedes |-> None,
                       merged_into |-> None, notes |-> None]
  <2>1. /\ pc' = [pc EXCEPT ![o] = "mint"]
        /\ snap' = [snap EXCEPT ![o] = files]
        /\ draft' = [draft EXCEPT ![o] = blank]
        /\ UNCHANGED <<id, result>>
    BY <1>2 DEF AddLoad, Results
  <2>2. blank \in Draft
    BY DEF Draft
  <2>3. torn = {} /\ Sound(files)
    BY Before
  <2>4. TypeOK'
    BY <1>1, <2>1, <2>2 DEF IInv, TypeOK, Steps
  <2>5. /\ pc'[o] = "mint" /\ snap'[o] = files /\ draft'[o] = blank
        /\ \A p \in Operators : p # o => pc'[p] = pc[p]
    BY <2>1 DEF IInv, TypeOK
  <2>6. CallInv(o)'
    BY <1>1, <2>2, <2>3, <2>5 DEF CallInv, Amending
  <2> QED BY <1>1, <2>4, <2>5, <2>6, LocalStep
<1>3. CASE \E r \in Results : Return(o, r)
  BY <1>1, <1>3, ReturnStep
<1> QED BY <1>2, <1>3 DEF AddLoad, Results

LEMMA AddMintStep ==
  ASSUME IInv, NEW o \in Operators, AddMint(o)
  PROVE  IInv'
<1>1. /\ UNCHANGED <<files, torn, lost, snap, draft, result>>
      /\ pc[o] = "mint" /\ pc' = [pc EXCEPT ![o] = "exists"] /\ Active(o)
  BY DEF AddMint, Go, Active
<1>2. PICK i \in Ids \cup {None} : /\ id' = [id EXCEPT ![o] = i]
                                   /\ i # None => NextSourceId(i)
  BY DEF AddMint
<1>3. TypeOK'
  BY <1>1, <1>2 DEF IInv, TypeOK, Steps
<1>4. /\ pc'[o] = "exists" /\ id'[o] = i
      /\ \A p \in Operators : p # o => pc'[p] = pc[p]
  BY <1>1, <1>2 DEF IInv, TypeOK
<1>5. CallInv(o)
  BY <1>1 DEF IInv
<1>6. i # None => NextIn(snap[o], i)
  BY <1>1, <1>2, <1>5 DEF CallInv, NextSourceId, Names, NextIn
<1>7. CallInv(o)'
  BY <1>1, <1>4, <1>5, <1>6 DEF CallInv, Amending
<1> QED BY <1>1, <1>3, <1>4, <1>7, LocalStep

LEMMA AddExistsStep ==
  ASSUME IInv, NEW o \in Operators, AddExists(o)
  PROVE  IInv'
<1>1. UNCHANGED <<files, torn, lost>> /\ pc[o] = "exists" /\ Active(o)
  BY DEF AddExists, Go, Active
<1>2. CASE Return(o, "refused")
  BY <1>1, <1>2, ReturnStep DEF Results
<1>3. CASE Go(o, "exists", "fetch") /\ UNCHANGED <<snap, id, draft, result>>
  <2>1. TypeOK'
    BY <1>1, <1>3 DEF Go, IInv, TypeOK, Steps
  <2>2. pc'[o] = "fetch" /\ \A p \in Operators : p # o => pc'[p] = pc[p]
    BY <1>3 DEF Go, IInv, TypeOK
  <2>3. CallInv(o)
    BY <1>1 DEF IInv
  <2>4. CallInv(o)'
    BY <1>1, <1>3, <2>2, <2>3 DEF CallInv, Amending
  <2> QED BY <1>1, <2>1, <2>2, <2>4, LocalStep
<1> QED BY <1>2, <1>3 DEF AddExists

\* The record pin() returns, through either way of reading the document.
LEMMA FetchedStep ==
  ASSUME IInv, NEW o \in Operators, pc[o] = "fetch", id[o] # None,
         UNCHANGED <<files, torn, lost>>,
         NEW d \in Drifts, NEW c \in Captures \cup {None},
         c # None => Shows[c] = d,
         NEW sup \in Ids \cup {None}, Fetched(o, d, c, sup)
  PROVE  IInv'
<1> DEFINE cand == [draft[o] EXCEPT !.drift = d, !.archive = c, !.supersedes = sup]
<1>1. Active(o) /\ CallInv(o)
  BY DEF IInv, Active
<1>2. CASE Return(o, "refused")
  BY <1>1, <1>2, ReturnStep DEF Results
<1>3. ASSUME NEW q \in {"archive", "check"}, pc' = [pc EXCEPT ![o] = q],
             draft' = [draft EXCEPT ![o] = cand], UNCHANGED <<snap, id, result>>
      PROVE  IInv'
  <2>1. cand \in Source /\ cand \in Draft
    BY <1>1 DEF CallInv, Draft, Source
  <2>2. Reproduced(cand) /\ cand.merged_into = None
    BY <1>1 DEF CallInv, Draft, Reproduced, Amending
  <2>3. TypeOK'
    BY <1>3, <2>1 DEF IInv, TypeOK, Steps
  <2>4. /\ pc'[o] = q /\ draft'[o] = cand
        /\ \A p \in Operators : p # o => pc'[p] = pc[p]
    BY <1>3 DEF IInv, TypeOK
  <2>5. CallInv(o)'
    <3> HIDE DEF cand
    <3> QED BY <1>1, <1>3, <2>1, <2>2, <2>4 DEF CallInv, Amending
  <2> QED BY <1>1, <2>3, <2>4, <2>5, LocalStep
<1>4. \/ Return(o, "refused")
      \/ /\ \E q \in {"archive", "check"} : pc' = [pc EXCEPT ![o] = q]
         /\ draft' = [draft EXCEPT ![o] = cand]
         /\ UNCHANGED <<snap, id, result>>
  BY DEF Fetched
<1> QED BY <1>2, <1>3, <1>4

LEMMA AddFetchStep ==
  ASSUME IInv, NEW o \in Operators, AddFetch(o)
  PROVE  IInv'
<1>1. UNCHANGED <<files, torn, lost>> /\ pc[o] = "fetch" /\ Active(o)
  BY DEF AddFetch, Active
<1>2. CASE Return(o, "refused") \/ Return(o, "raised")
  BY <1>1, <1>2, ReturnStep DEF Results
<1>3. CASE /\ id[o] # None
           /\ \E d \in Drifts, sup \in Ids \cup {None} : Fetched(o, d, None, sup)
  BY <1>1, <1>3, FetchedStep
<1>4. CASE /\ id[o] # None
           /\ \E c \in Captures \ lost, sup \in Ids \cup {None} :
                Fetched(o, Shows[c], c, sup)
  BY <1>1, <1>4, FetchedStep, RegistryAssumption
<1> QED BY <1>2, <1>3, <1>4 DEF AddFetch

\* archive() attaches a capture that reproduces the record under assembly.
LEMMA AttachStep ==
  ASSUME IInv, NEW o \in Operators, UNCHANGED <<files, torn, lost>>,
         NEW next, pc' = [pc EXCEPT ![o] = next],
         \/ pc[o] = "archive" /\ next = "archived"
         \/ pc[o] \in {"capture", "recheck"} /\ next = "set_archive",
         NEW c \in Reproducing(draft[o].drift),
         draft' = [draft EXCEPT ![o].archive = c],
         UNCHANGED <<snap, id, result>>
  PROVE  IInv'
<1> DEFINE rec == [draft[o] EXCEPT !.archive = c]
<1>1. Active(o) /\ CallInv(o) /\ pc[o] # "flush" /\ TypeOK
  BY DEF IInv, Active
<1>2. rec \in Source /\ rec \in Draft /\ Reproduced(rec)
  BY <1>1 DEF CallInv, Draft, Source, Reproduced, Reproducing
<1>3. /\ rec.archive # None /\ rec.merged_into = draft[o].merged_into
      /\ pc[o] \in Amending =>
           rec = [snap[o][id[o]] EXCEPT !.archive = rec.archive]
  BY <1>1, <1>2, RegistryAssumption
     DEF CallInv, Draft, Reproducing, Amending, Sound, IsRegister, Source
<1>4. draft' = [draft EXCEPT ![o] = rec]
  BY <1>1 DEF TypeOK
<1>5. TypeOK'
  <2> HIDE DEF rec
  <2> QED BY <1>1, <1>2, <1>4 DEF TypeOK, Steps
<1>6. /\ pc'[o] = next /\ draft'[o] = rec
      /\ \A p \in Operators : p # o => pc'[p] = pc[p]
  BY <1>1, <1>4 DEF TypeOK
<1>7. CallInv(o)'
  <2> HIDE DEF rec
  <2> QED BY <1>1, <1>2, <1>3, <1>6 DEF CallInv, Amending
<1> QED BY <1>1, <1>5, <1>6, <1>7, LocalStep

LEMMA AddArchiveStep ==
  ASSUME IInv, NEW o \in Operators, AddArchive(o)
  PROVE  IInv'
<1>1. UNCHANGED <<files, torn, lost>> /\ pc[o] = "archive" /\ Active(o)
  BY DEF AddArchive, Active, Go
<1> QED BY <1>1, AttachStep, ReturnStep DEF AddArchive, Go, Results

LEMMA ArchiveCaptureStep ==
  ASSUME IInv, NEW o \in Operators, ArchiveCapture(o)
  PROVE  IInv'
<1>1. UNCHANGED <<files, torn, lost>> /\ pc[o] = "capture" /\ Active(o)
  BY DEF ArchiveCapture, Active, Go
<1> QED BY <1>1, AttachStep, ReturnStep DEF ArchiveCapture, Go, Results

LEMMA RepairRecheckStep ==
  ASSUME IInv, NEW o \in Operators, RepairRecheck(o)
  PROVE  IInv'
<1>1. UNCHANGED <<files, torn, lost>> /\ pc[o] = "recheck" /\ Active(o)
  BY DEF RepairRecheck, Active, Go
<1> QED BY <1>1, AttachStep, ReturnStep DEF RepairRecheck, Go, Results

LEMMA AddCheckStep ==
  ASSUME IInv, NEW o \in Operators, NEW cited \in BOOLEAN,
         NEW n \in Notes \cup {None}, AddCheck(o, cited, n)
  PROVE  IInv'
<1> DEFINE rec == [draft[o] EXCEPT !.cited = cited, !.notes = n]
<1>1. /\ UNCHANGED <<files, torn, lost>> /\ pc[o] \in {"check", "archived"}
      /\ Active(o) /\ CallInv(o) /\ TypeOK
  BY DEF AddCheck, Active, IInv
<1>2. CASE Return(o, "refused")
  BY <1>1, <1>2, ReturnStep DEF Results
<1>3. ASSUME SourceInvariants(With(snap[o], id[o], rec)),
             pc' = [pc EXCEPT ![o] = "open"],
             draft' = [draft EXCEPT ![o] = rec], UNCHANGED <<snap, id, result>>
      PROVE  IInv'
  <2>1. /\ rec \in Source /\ rec \in Draft /\ Reproduced(rec)
        /\ rec.merged_into = None
    BY <1>1 DEF CallInv, Draft, Source, Reproduced, Amending
  <2> HIDE DEF rec
  <2>2. TypeOK'
    BY <1>1, <1>3, <2>1 DEF TypeOK, Steps
  <2>3. /\ pc'[o] = "open" /\ draft'[o] = rec
        /\ \A p \in Operators : p # o => pc'[p] = pc[p]
    BY <1>1, <1>3 DEF TypeOK
  <2>4. CallInv(o)'
    BY <1>1, <1>3, <2>1, <2>3 DEF CallInv, Amending
  <2> QED BY <1>1, <2>2, <2>3, <2>4, LocalStep
<1> QED BY <1>2, <1>3 DEF AddCheck

(***************************************************************************)
(* The amendments.                                                         *)
(***************************************************************************)
LEMMA AmendLoadStep ==
  ASSUME IInv, Idle, NEW o \in Operators, NEW i \in Ids,
         UNCHANGED <<files, torn, lost>>,
         \/ /\ i \in DOMAIN files
            /\ \E q \in Amending : pc' = [pc EXCEPT ![o] = q]
            /\ snap' = [snap EXCEPT ![o] = files]
            /\ id' = [id EXCEPT ![o] = i]
            /\ draft' = [draft EXCEPT ![o] = files[i]]
            /\ UNCHANGED result
         \/ \E r \in Results : Return(o, r)
  PROVE  IInv'
<1>1. CASE \E r \in Results : Return(o, r)
  BY <1>1, ReturnStep
<1>2. ASSUME i \in DOMAIN files, NEW q \in Amending,
             pc' = [pc EXCEPT ![o] = q], snap' = [snap EXCEPT ![o] = files],
             id' = [id EXCEPT ![o] = i],
             draft' = [draft EXCEPT ![o] = files[i]], UNCHANGED result
      PROVE  IInv'
  <2>1. torn = {} /\ Sound(files) /\ TypeOK
    BY Before DEF IInv
  <2>2. files[i] \in Source /\ Reproduced(files[i])
    BY <1>2, <2>1 DEF Sound, IsRegister
  <2>3. files[i] \in Draft
    BY <2>2 DEF Source, Draft
  <2>4. TypeOK'
    BY <1>2, <2>1, <2>3 DEF TypeOK, Steps, Amending
  <2>5. /\ pc'[o] = q /\ snap'[o] = files /\ id'[o] = i /\ draft'[o] = files[i]
        /\ \A p \in Operators : p # o => pc'[p] = pc[p]
    BY <1>2, <2>1 DEF TypeOK
  <2>6. CallInv(o)'
    <3>1. files[i] = [files[i] EXCEPT !.archive = files[i].archive]
      BY <2>2 DEF Source
    <3> QED BY <1>2, <2>1, <2>2, <2>3, <2>5, <3>1 DEF CallInv, Amending
  <2> QED BY <2>4, <2>5, <2>6, LocalStep
<1> QED BY <1>1, <1>2

LEMMA AmendLoadsStep ==
  ASSUME IInv, Idle, NEW o \in Operators, NEW i \in Ids,
         ArchiveLoad(o, i) \/ RepairLoad(o, i) \/ NoteLoad(o, i)
  PROVE  IInv'
BY AmendLoadStep DEF ArchiveLoad, RepairLoad, NoteLoad, AmendLoad, Amending, Results

\* The record that replaces the file's is the one the rules were run on,
\* because the file still holds what the call loaded.
LEMMA AmendStep ==
  ASSUME IInv, NEW o \in Operators, pc[o] \in {"set_archive", "set_notes"},
         UNCHANGED <<files, torn, lost>>,
         NEW rec \in Source, Reproduced(rec),
         Continues(snap[o][id[o]], rec),
         \/ /\ SourceInvariants(With(snap[o], id[o], rec))
            /\ draft' = [draft EXCEPT ![o] = rec]
            /\ pc' = [pc EXCEPT ![o] = "open"]
            /\ UNCHANGED <<snap, id, result>>
         \/ \E r \in Results : Return(o, r)
  PROVE  IInv'
<1>1. Active(o) /\ CallInv(o) /\ TypeOK
  BY DEF Active, IInv
<1>2. CASE \E r \in Results : Return(o, r)
  BY <1>1, <1>2, ReturnStep
<1>3. ASSUME SourceInvariants(With(snap[o], id[o], rec)),
             draft' = [draft EXCEPT ![o] = rec],
             pc' = [pc EXCEPT ![o] = "open"], UNCHANGED <<snap, id, result>>
      PROVE  IInv'
  <2>1. rec \in Draft
    BY DEF Source, Draft
  <2>2. TypeOK'
    BY <1>1, <1>3, <2>1 DEF TypeOK, Steps
  <2>3. /\ pc'[o] = "open" /\ draft'[o] = rec
        /\ \A q \in Operators : q # o => pc'[q] = pc[q]
    BY <1>1, <1>3 DEF TypeOK
  <2>4. CallInv(o)'
    BY <1>1, <1>3, <2>1, <2>3 DEF CallInv, Amending
  <2> QED BY <1>1, <2>2, <2>3, <2>4, LocalStep
<1> QED BY <1>2, <1>3

LEMMA UnwrittenContinues ==
  ASSUME NEW o, CallInv(o), pc[o] \in Amending
  PROVE  Continues(snap[o][id[o]], draft[o])
BY DEF CallInv, Amending, Continues, Facts, Source, Sound, IsRegister

LEMMA WriteArchivesStep ==
  ASSUME IInv, NEW o \in Operators, WriteArchives(o)
  PROVE  IInv'
<1> DEFINE rec == [files[id[o]] EXCEPT !.archive = draft[o].archive]
<1>1. /\ UNCHANGED <<files, torn, lost>> /\ pc[o] = "set_archive"
      /\ CallInv(o) /\ TypeOK /\ Active(o)
  BY DEF WriteArchives, IInv, Active
<1>2. CASE \E r \in Results : Return(o, r)
  BY <1>1, <1>2, ReturnStep
<1>3. CASE /\ SourceInvariants(With(snap[o], id[o], draft[o]))
           /\ draft' = [draft EXCEPT ![o] = rec]
           /\ pc' = [pc EXCEPT ![o] = "open"]
           /\ UNCHANGED <<snap, id, result>>
  <2>1. rec = draft[o]
    BY <1>1 DEF CallInv, Amending
  <2>2. Continues(snap[o][id[o]], draft[o])
    BY <1>1, UnwrittenContinues DEF Amending
  <2> QED BY <1>1, <1>3, <2>1, <2>2, AmendStep DEF CallInv, Amending
<1> QED BY <1>1, <1>2, <1>3 DEF WriteArchives, Amend, Results

LEMMA NoteWriteStep ==
  ASSUME IInv, NEW o \in Operators, NEW n \in Notes, NoteWrite(o, n)
  PROVE  IInv'
<1> DEFINE rec == [draft[o] EXCEPT !.notes = n]
<1>1. /\ UNCHANGED <<files, torn, lost>> /\ pc[o] = "set_notes"
      /\ CallInv(o) /\ TypeOK /\ Active(o)
  BY DEF NoteWrite, IInv, Active
<1>2. CASE \E r \in Results : Return(o, r)
  BY <1>1, <1>2, ReturnStep
<1>3. CASE /\ SourceInvariants(With(snap[o], id[o], rec))
           /\ draft' = [draft EXCEPT ![o] = [files[id[o]] EXCEPT !.notes = n]]
           /\ pc' = [pc EXCEPT ![o] = "open"]
           /\ UNCHANGED <<snap, id, result>>
  <2>1. files[id[o]] = draft[o]
    BY <1>1 DEF CallInv, Amending
  <2>2. Continues(snap[o][id[o]], draft[o])
    BY <1>1, UnwrittenContinues DEF Amending
  <2>3. /\ rec \in Source /\ Reproduced(rec)
        /\ Continues(snap[o][id[o]], rec)
    BY <1>1, <2>2 DEF CallInv, Amending, Source, Reproduced, Continues, Facts
  <2> QED BY <1>1, <1>3, <2>1, <2>3, AmendStep
<1> QED BY <1>1, <1>2, <1>3 DEF NoteWrite, Amend, Results

(***************************************************************************)
(* The write itself, and the world.                                        *)
(***************************************************************************)
LEMMA OpenStep ==
  ASSUME IInv, NEW o \in Operators, Open(o)
  PROVE  IInv'
<1>1. /\ pc[o] = "open" /\ Active(o) /\ CallInv(o) /\ TypeOK
      /\ pc' = [pc EXCEPT ![o] = "flush"]
      /\ files' = Without(files, id[o]) /\ torn' = torn \cup {id[o]}
      /\ UNCHANGED <<lost, snap, id, draft, result>>
  BY DEF Open, Go, Active, IInv
<1>2. /\ snap[o] = files /\ torn = {} /\ Sound(files) /\ id[o] \in Ids
  BY <1>1 DEF CallInv, NextIn, Sound, IsRegister
<1>3. IsRegister(files')
  BY <1>1, <1>2, WithoutRegister DEF Sound
<1>4. TypeOK'
  BY <1>1, <1>2, <1>3 DEF TypeOK, Steps
<1>5. pc'[o] = "flush" /\ \A q \in Operators : q # o => pc'[q] = pc[q]
  BY <1>1 DEF TypeOK
<1>6. \A q \in Operators : q # o => ~Active(q)'
  BY <1>1, <1>5, OthersIdle DEF Active
<1>7. Alone' /\ ~Idle'
  BY <1>5, <1>6 DEF Alone, Active, Idle
<1>8. CallInv(o)'
  BY <1>1, <1>2, <1>5 DEF CallInv, Amending
<1> QED BY <1>4, <1>6, <1>7, <1>8 DEF IInv, Active

LEMMA FlushStep ==
  ASSUME IInv, NEW o \in Operators, Flush(o)
  PROVE  IInv' /\ files' = With(snap[o], id[o], draft[o]) /\ Idle'
<1>1. Active(o) /\ CallInv(o) /\ TypeOK /\ pc[o] = "flush"
  BY DEF Flush, Active, IInv, CallInv
<1>2. /\ files' = With(files, id[o], draft[o]) /\ torn' = torn \ {id[o]}
      /\ UNCHANGED lost
  BY <1>1 DEF Flush
<1>3. /\ Sound(snap[o]) /\ id[o] \in Ids /\ draft[o] \in Source
      /\ Reproduced(draft[o]) /\ torn = {id[o]}
      /\ SourceInvariants(With(snap[o], id[o], draft[o]))
      /\ files = Without(snap[o], id[o])
  BY <1>1 DEF CallInv, NextIn, Sound, IsRegister
<1>4. files' = With(snap[o], id[o], draft[o])
  BY <1>2, <1>3, WithWithout
<1>5. torn' = {} /\ Sound(files')
  BY <1>2, <1>3, <1>4, WriteKeepsSound
<1>6. \A q \in Operators : pc'[q] = "idle"
  BY <1>1, OthersIdle DEF Flush, Active, TypeOK
<1>7. TypeOK'
  <2>1. \A q \in Operators : IsRegister(snap'[q])
    BY <1>1, EmptyRegister DEF Flush, TypeOK, Sound
  <2>2. pc' \in [Operators -> Steps]
    BY <1>6 DEF Flush, Steps
  <2> QED BY <1>1, <1>5, <2>1, <2>2 DEF Flush, TypeOK, Sound, Results
<1> QED BY <1>4, <1>5, <1>6, <1>7 DEF IInv, Alone, Active, Idle

LEMMA KilledStep ==
  ASSUME IInv, NEW o \in Operators, KilledElsewhere(o)
  PROVE  IInv'
BY ReturnStep DEF KilledElsewhere, Crash, Active, Results

LEMMA LoseStep ==
  ASSUME IInv, NEW c \in Captures, Lose(c)
  PROVE  IInv'
BY DEF IInv, TypeOK, Alone, Active, Idle, CallInv, Lose

LEMMA MergeStep ==
  ASSUME IInv, Idle, NEW i \in Ids, NEW j \in Ids, MergeByHand(i, j)
  PROVE  IInv'
<1>1. torn = {} /\ Sound(files) /\ TypeOK
  BY DEF IInv
<1>2. Sound(files') /\ UNCHANGED <<torn, lost, pc, snap, id, draft, result>>
  BY <1>1, MergeKeepsSound DEF MergeByHand
<1>3. TypeOK'
  BY <1>1, <1>2 DEF TypeOK, Sound
<1> QED BY <1>1, <1>2, <1>3 DEF IInv, Alone, Active, Idle

(***************************************************************************)
(* The theorems.                                                           *)
(***************************************************************************)
LEMMA InitHolds == Init => IInv
<1>1. ASSUME Init PROVE TypeOK
  BY <1>1, EmptyRegister DEF Init, TypeOK, Steps, Results, Sound
<1> QED BY <1>1, EmptyRegister DEF Init, IInv, Alone, Active

LEMMA StepHolds == IInv /\ [SerialNext]_vars => IInv'
<1>1. ASSUME IInv, Idle, NEW o \in Operators, Start(o) PROVE IInv'
  BY <1>1, AddLoadStep, AmendLoadsStep DEF Start
<1>2. ASSUME IInv, NEW o \in Operators, Step(o) PROVE IInv'
  BY <1>2, AddMintStep, AddExistsStep, AddFetchStep, AddArchiveStep, AddCheckStep,
     ArchiveCaptureStep, RepairRecheckStep, WriteArchivesStep, NoteWriteStep,
     OpenStep, FlushStep DEF Step
<1>3. ASSUME IInv, UNCHANGED vars PROVE IInv'
  BY <1>3 DEF vars, IInv, TypeOK, Alone, Active, Idle, CallInv
<1> QED BY <1>1, <1>2, <1>3, KilledStep, LoseStep, MergeStep DEF SerialNext

\* The invariant holds of every behaviour with one call at a time, for every
\* number of ids, documents, captures and operators.
THEOREM Inductive == SerialSpec => []IInv
BY InitHolds, StepHolds, PTL DEF SerialSpec

\* Every variable keeps its type: in particular no call mints an id past the
\* highest name, and a file that parses holds a complete record.
THEOREM TypeCorrect == SerialSpec => []TypeOK
<1>1. IInv => TypeOK
  BY DEF IInv
<1> QED BY <1>1, Inductive, PTL

\* No sequence of add, archive, repair and note leaves a directory that the
\* next command refuses to load.
THEOREM AlwaysLoads == SerialSpec => []RegisterLoads
<1>1. IInv => RegisterLoads
  BY DEF IInv, RegisterLoads, Loads, Sound
<1> QED BY <1>1, Inductive, PTL

\* An add writes under a name no file has, an amendment over its own record.
THEOREM AddsNeverOverwrite == SerialSpec => []NeverOverwrites
<1>1. IInv => NeverOverwrites
  <2>1. SUFFICES ASSUME IInv, NEW o \in Operators, pc[o] = "open",
                        id[o] \in Names
                 PROVE  /\ id[o] \in DOMAIN files \cap DOMAIN snap[o]
                        /\ files[id[o]].version = snap[o][id[o]].version
                        /\ draft[o].version = files[id[o]].version
    BY DEF NeverOverwrites
  <2>2. CallInv(o) /\ TypeOK
    BY <2>1 DEF IInv, Active
  <2>3. id[o] \in DOMAIN snap[o] /\ snap[o] = files
    BY <2>1, <2>2 DEF CallInv, NextIn, Names, TypeOK, IsRegister, Ids
  <2>4. Continues(snap[o][id[o]], draft[o])
    BY <2>1, <2>2, <2>3 DEF CallInv, NextIn, TypeOK, IsRegister, Ids
  <2> QED BY <2>3, <2>4 DEF Continues, Facts
<1> QED BY <1>1, Inductive, PTL

\* Whatever was attached, lost and repaired, an attached capture reproduces
\* its pin.
THEOREM ArchivesAlwaysReproduce == SerialSpec => []ArchivesReproduce
<1>1. IInv => ArchivesReproduce
  <2>1. SUFFICES ASSUME IInv, NEW i \in DOMAIN files PROVE Reproduced(files[i])
    BY DEF ArchivesReproduce
  <2>2. CASE Idle
    BY <2>1, <2>2 DEF IInv, Sound
  <2>3. ASSUME NEW o \in Operators, Active(o) PROVE Reproduced(files[i])
    <3>1. CallInv(o)
      BY <2>1, <2>3 DEF IInv
    <3>2. CASE pc[o] # "flush"
      BY <2>1, <3>1, <3>2 DEF CallInv, Sound
    <3>3. CASE pc[o] = "flush"
      <4>1. i \in DOMAIN snap[o] /\ files[i] = snap[o][i]
        BY <2>1, <3>1, <3>3 DEF CallInv, Without
      <4> QED BY <3>1, <4>1 DEF CallInv, Sound
    <3> QED BY <3>2, <3>3
  <2> QED BY <2>2, <2>3 DEF Idle, Active
<1> QED BY <1>1, Inductive, PTL

(***************************************************************************)
(* The shortcut and the authority agree: the duplicate rules applied       *)
(* before the archive step leave the final check one thing to refuse.      *)
(***************************************************************************)
Ruled == {"mint", "exists", "fetch", "archive", "check", "archived"}

\* What the early rules have established for a call at each step of an add.
RuleInv(o) ==
  /\ pc[o] \in Ruled => DuplicateOf(snap[o], draft[o].version) = {}
  /\ pc[o] \in {"archive", "check", "archived"} =>
       SameDocumentOf(With(snap[o], id[o], draft[o]), draft[o]) \subseteq {id[o]}
  /\ pc[o] = "archived" => draft[o].archive # None

RInv == \A o \in Operators : RuleInv(o)

\* The second duplicate rule reads four fields of the new record.
LEMMA DocumentRule ==
  ASSUME NEW s, NEW i, NEW q, NEW r,
         r.citation = q.citation, r.drift = q.drift,
         r.supersedes = q.supersedes, r.merged_into = q.merged_into
  PROVE  SameDocumentOf(With(s, i, r), r) = SameDocumentOf(With(s, i, q), q)
<1> DEFINE w == With(s, i, r)
           x == With(s, i, q)
<1>1. DOMAIN w = DOMAIN x
  BY DEF With
<1>2. \A j \in DOMAIN w : /\ w[j].citation = x[j].citation
                          /\ w[j].drift = x[j].drift
                          /\ w[j].supersedes = x[j].supersedes
                          /\ w[j].merged_into = x[j].merged_into
  BY DEF With
<1> HIDE DEF w, x
<1>3. SupersededIds(w) = SupersededIds(x)
  BY <1>1, <1>2 DEF SupersededIds
<1>4. LiveSources(w) = LiveSources(x)
  BY <1>1, <1>2, <1>3 DEF LiveSources
<1>5. SameDocumentOf(w, r) = SameDocumentOf(x, q)
  BY <1>1, <1>2, <1>4 DEF SameDocumentOf, LiveSources
<1> QED BY <1>5 DEF w, x

\* An archived record that the early rules let through, and whose supersedes
\* names a pin, satisfies every rule of the load path.
LEMMA FinalCheckPasses ==
  ASSUME NEW s, Sound(s), NEW i, NextIn(s, i), NEW r \in Source,
         r.merged_into = None, r.archive # None,
         r.supersedes \in DOMAIN s \cup {i, None},
         DuplicateOf(s, r.version) = {},
         SameDocumentOf(With(s, i, r), r) \subseteq {i}
  PROVE  SourceInvariants(With(s, i, r))
<1> DEFINE w == With(s, i, r)
<1>1. /\ i \in Ids /\ i \notin DOMAIN s
      /\ IsRegister(s) /\ SourceInvariants(s)
  BY DEF Sound, NextIn, IsRegister, Ids
<1>2. /\ DOMAIN w = DOMAIN s \cup {i}
      /\ w[i] = r
      /\ \A j \in DOMAIN s : w[j] = s[j]
  BY <1>1 DEF With
<1> HIDE DEF w
<1>3. LinksResolve(w)
  BY <1>1, <1>2 DEF SourceInvariants, LinksResolve
<1>4. CitedHasArchive(w)
  BY <1>1, <1>2 DEF SourceInvariants, CitedHasArchive
<1>5. OnePinPerVersion(w)
  <2>1. SUFFICES ASSUME NEW j \in DOMAIN w, NEW k \in DOMAIN w,
                        w[j].version = w[k].version
                 PROVE  j = k
    BY DEF OnePinPerVersion, DuplicateOf
  <2>2. CASE j = i \/ k = i
    BY <1>1, <1>2, <2>1, <2>2 DEF DuplicateOf
  <2>3. CASE j # i /\ k # i
    BY <1>1, <1>2, <2>1, <2>3
       DEF SourceInvariants, OnePinPerVersion, DuplicateOf
  <2> QED BY <2>2, <2>3
<1>6. OneLivePinPerDocument(w)
  <2>1. LiveSources(w) \subseteq LiveSources(s) \cup {i}
    BY <1>2 DEF LiveSources, SupersededIds
  <2>2. SUFFICES ASSUME NEW j \in LiveSources(w), NEW k \in LiveSources(w),
                        w[k].citation = w[j].citation, w[k].drift = w[j].drift
                 PROVE  j = k
    BY DEF OneLivePinPerDocument, SameDocumentOf
  <2>3. CASE j = i \/ k = i
    <3>1. SameDocumentOf(w, r) \subseteq {i}
      BY DEF w
    <3> QED BY <1>2, <2>2, <2>3, <3>1 DEF SameDocumentOf
  <2>4. CASE j # i /\ k # i
    <3>1. /\ j \in LiveSources(s) /\ k \in LiveSources(s)
          /\ w[j] = s[j] /\ w[k] = s[k]
      BY <1>2, <2>1, <2>2, <2>4 DEF LiveSources
    <3> QED BY <1>1, <2>2, <3>1
            DEF SourceInvariants, OneLivePinPerDocument, SameDocumentOf
  <2> QED BY <2>3, <2>4
<1> QED BY <1>3, <1>4, <1>5, <1>6 DEF SourceInvariants, w

\* A step of the one call in progress can disturb the rules of that call only.
LEMMA RuleStep ==
  ASSUME IInv, RInv, NEW o \in Operators, Idle \/ Active(o),
         \A p \in Operators : p # o => pc'[p] \in {pc[p], "overlay"},
         pc'[o] \in Ruled => RuleInv(o)'
  PROVE  RInv'
<1>1. \A p \in Operators : p # o => pc'[p] \in {"idle", "overlay"}
  BY OthersIdle DEF Active
<1> QED BY <1>1 DEF RInv, RuleInv, Ruled

LEMMA RuleAddLoad ==
  ASSUME IInv, RInv, Idle, NEW o \in Operators,
         NEW v \in Versions, NEW cit \in Citations, AddLoad(o, v, cit)
  PROVE  RInv'
<1>1. /\ pc'[o] \in {"mint", "idle"}
      /\ \A p \in Operators : p # o => pc'[p] = pc[p]
  BY DEF AddLoad, Return, IInv, TypeOK
<1>2. pc'[o] = "mint" =>
        /\ DuplicateOf(files, v) = {}
        /\ snap'[o] = files /\ draft'[o].version = v
  BY DEF AddLoad, Return, IInv, TypeOK
<1>3. pc'[o] \in Ruled => RuleInv(o)'
  BY <1>1, <1>2 DEF RuleInv, Ruled
<1> QED BY <1>1, <1>3, RuleStep

LEMMA RuleAmendLoad ==
  ASSUME IInv, RInv, Idle, NEW o \in Operators, NEW i \in Ids,
         ArchiveLoad(o, i) \/ RepairLoad(o, i) \/ NoteLoad(o, i)
  PROVE  RInv'
<1>1. /\ pc'[o] \in {"capture", "recheck", "set_notes", "idle"}
      /\ \A p \in Operators : p # o => pc'[p] = pc[p]
  BY DEF ArchiveLoad, RepairLoad, NoteLoad, AmendLoad, Return, IInv, TypeOK
<1> QED BY <1>1, RuleStep DEF Ruled

LEMMA RuleFetched ==
  ASSUME IInv, RInv, NEW o \in Operators, pc[o] = "fetch",
         NEW d \in Drifts, NEW c \in Captures \cup {None},
         NEW sup \in Ids \cup {None}, Fetched(o, d, c, sup)
  PROVE  RInv'
<1> DEFINE cand == [draft[o] EXCEPT !.drift = d, !.archive = c, !.supersedes = sup]
<1>1. Active(o) /\ CallInv(o) /\ RuleInv(o)
  BY DEF IInv, Active, RInv
<1>2. /\ pc'[o] \in {"archive", "check", "idle"}
      /\ \A p \in Operators : p # o => pc'[p] = pc[p]
  BY DEF Fetched, Return, IInv, TypeOK
<1>3. pc'[o] # "idle" =>
        /\ draft'[o] = cand /\ snap'[o] = snap[o] /\ id'[o] = id[o]
        /\ SameDocumentOf(With(snap[o], id[o], cand), cand) \ {id[o]} = {}
  BY DEF Fetched, Return, IInv, TypeOK
<1>4. cand.version = draft[o].version
  BY <1>1 DEF CallInv, Draft
<1> HIDE DEF cand
<1>5. pc'[o] \in Ruled => RuleInv(o)'
  BY <1>1, <1>2, <1>3, <1>4 DEF RuleInv, Ruled
<1> QED BY <1>1, <1>2, <1>5, RuleStep

LEMMA RuleArchive ==
  ASSUME IInv, RInv, NEW o \in Operators, AddArchive(o)
  PROVE  RInv'
<1>1. Active(o) /\ CallInv(o) /\ RuleInv(o) /\ pc[o] = "archive"
  BY DEF AddArchive, Go, IInv, Active, RInv
<1>2. /\ pc'[o] \in {"archived", "idle"}
      /\ \A p \in Operators : p # o => pc'[p] = pc[p]
  BY DEF AddArchive, Go, Return, IInv, TypeOK
<1>3. ASSUME pc'[o] = "archived"
      PROVE  /\ snap'[o] = snap[o] /\ id'[o] = id[o]
             /\ \E c \in Captures : draft'[o] = [draft[o] EXCEPT !.archive = c]
  BY <1>3 DEF AddArchive, Return, Reproducing, IInv, TypeOK
<1>4. ASSUME pc'[o] = "archived" PROVE RuleInv(o)'
  <2>1. PICK c \in Captures : draft'[o] = [draft[o] EXCEPT !.archive = c]
    BY <1>3, <1>4
  <2>2. /\ draft'[o].archive = c /\ c # None
        /\ draft'[o].version = draft[o].version
        /\ draft'[o].citation = draft[o].citation
        /\ draft'[o].drift = draft[o].drift
        /\ draft'[o].supersedes = draft[o].supersedes
        /\ draft'[o].merged_into = draft[o].merged_into
    BY <1>1, <2>1, RegistryAssumption DEF CallInv, Draft
  <2>3. SameDocumentOf(With(snap[o], id[o], draft'[o]), draft'[o])
          = SameDocumentOf(With(snap[o], id[o], draft[o]), draft[o])
    BY <2>2, DocumentRule
  <2> QED BY <1>1, <1>3, <1>4, <2>2, <2>3 DEF RuleInv, Ruled
<1> QED BY <1>1, <1>2, <1>4, RuleStep DEF Ruled

LEMMA RuleHolds == IInv /\ RInv /\ [SerialNext]_vars => RInv'
<1> SUFFICES ASSUME IInv, RInv, [SerialNext]_vars PROVE RInv'
  OBVIOUS
<1>1. ASSUME Idle, NEW o \in Operators, Start(o) PROVE RInv'
  BY <1>1, RuleAddLoad, RuleAmendLoad DEF Start
<1>2. ASSUME NEW o \in Operators, Step(o) PROVE RInv'
  <2>1. CASE AddMint(o) \/ AddExists(o)
    <3>1. Active(o) /\ RuleInv(o) /\ pc[o] \in {"mint", "exists"}
      BY <2>1 DEF AddMint, AddExists, Go, Active, RInv
    <3>2. /\ pc'[o] \in {"exists", "fetch", "idle"}
          /\ \A p \in Operators : p # o => pc'[p] = pc[p]
      BY <2>1 DEF AddMint, AddExists, Go, Return, IInv, TypeOK
    <3>3. pc'[o] # "idle" => snap'[o] = snap[o] /\ draft'[o] = draft[o]
      BY <2>1 DEF AddMint, AddExists, Go, Return, IInv, TypeOK
    <3> QED BY <3>1, <3>2, <3>3, RuleStep DEF RuleInv, Ruled
  <2>2. CASE AddFetch(o)
    <3>1. CASE \E d \in Drifts, c \in Captures \cup {None},
                  sup \in Ids \cup {None} : Fetched(o, d, c, sup)
      BY <2>2, <3>1, RuleFetched DEF AddFetch
    <3>2. CASE Return(o, "refused") \/ Return(o, "raised")
      <4>1. /\ Active(o) /\ pc'[o] = "idle"
            /\ \A p \in Operators : p # o => pc'[p] = pc[p]
        BY <2>2, <3>2 DEF AddFetch, Return, Active, IInv, TypeOK
      <4> QED BY <4>1, RuleStep DEF Ruled
    <3> QED BY <2>2, <3>1, <3>2, RegistryAssumption DEF AddFetch
  <2>3. CASE \/ \E cited \in BOOLEAN, n \in Notes \cup {None} : AddCheck(o, cited, n)
             \/ ArchiveCapture(o) \/ RepairRecheck(o) \/ WriteArchives(o)
             \/ \E n \in Notes : NoteWrite(o, n)
    <3>1. /\ Active(o) /\ pc'[o] \in {"open", "set_archive", "idle"}
          /\ \A p \in Operators : p # o => pc'[p] = pc[p]
      BY <2>3 DEF AddCheck, ArchiveCapture, RepairRecheck, WriteArchives,
                  NoteWrite, Amend, Return, Go, Active, IInv, TypeOK
    <3> QED BY <3>1, RuleStep DEF Ruled
  <2>4. CASE Open(o) \/ Flush(o)
    <3>1. /\ Active(o) /\ pc'[o] \in {"flush", "idle"}
          /\ \A p \in Operators : p # o => pc'[p] \in {pc[p], "overlay"}
      BY <2>4 DEF Open, Flush, Go, Active, IInv, TypeOK
    <3> QED BY <3>1, RuleStep DEF Ruled
  <2> QED BY <1>2, <2>1, <2>2, <2>3, <2>4, RuleArchive DEF Step
<1>3. ASSUME NEW o \in Operators, KilledElsewhere(o) PROVE RInv'
  <2>1. /\ Active(o) /\ pc'[o] = "idle"
        /\ \A p \in Operators : p # o => pc'[p] = pc[p]
    BY <1>3 DEF KilledElsewhere, Crash, Return, Active, IInv, TypeOK
  <2> QED BY <2>1, RuleStep DEF Ruled
<1>4. CASE UNCHANGED <<pc, snap, id, draft>>
  BY <1>4 DEF RInv, RuleInv
<1> QED BY <1>1, <1>2, <1>3, <1>4 DEF SerialNext, Lose, MergeByHand, vars

\* The final check can refuse an archived record for one reason only: its
\* supersedes names no pin.  Every other rule was applied, to the same
\* register and with the same answer, before the archive step.
THEOREM EarlyRulesAgree == SerialSpec => LateRefusalIsADanglingLink
<1>1. Init => RInv
  BY DEF Init, RInv, RuleInv, Ruled
<1>2. IInv /\ RInv /\ [SerialNext]_vars =>
        [\A o \in Operators :
           /\ pc[o] = "archived" /\ pc'[o] = "idle" /\ result'[o] = "refused"
           => draft[o].supersedes \notin DOMAIN snap[o] \cup {id[o], None}]_vars
  <2>1. SUFFICES ASSUME IInv, RInv, SerialNext, NEW o \in Operators,
                        pc[o] = "archived", pc'[o] = "idle",
                        result'[o] = "refused"
                 PROVE  draft[o].supersedes \notin DOMAIN snap[o] \cup {id[o], None}
    OBVIOUS
  <2>2. Active(o) /\ CallInv(o) /\ RuleInv(o) /\ pc'[o] # pc[o] /\ ~Idle
    BY <2>1 DEF Active, IInv, RInv, Idle
  <2>3. PICK p \in Operators : Step(p) \/ KilledElsewhere(p)
    BY <2>1, <2>2 DEF SerialNext, Lose, MergeByHand
  <2>4. Active(p)
    BY <2>3 DEF Step, AddMint, AddExists, AddFetch, AddArchive, AddCheck, ArchiveCapture,
       RepairRecheck, WriteArchives, NoteWrite, Open, Flush, Go,
       KilledElsewhere, Crash, Active
  <2>5. p = o
    BY <2>1, <2>2, <2>4 DEF IInv, Alone
  <2>6. ~KilledElsewhere(o)
    BY <2>1 DEF KilledElsewhere, Crash, Return, IInv, TypeOK
  <2>7. PICK cited \in BOOLEAN, n \in Notes \cup {None} : AddCheck(o, cited, n)
    BY <2>1, <2>3, <2>5, <2>6
       DEF Step, AddMint, AddExists, AddFetch, AddArchive, ArchiveCapture, RepairRecheck,
           WriteArchives, NoteWrite, Open, Flush, Go
  <2> DEFINE rec == [draft[o] EXCEPT !.cited = cited, !.notes = n]
  <2>8. ~SourceInvariants(With(snap[o], id[o], rec))
    BY <2>1, <2>7 DEF AddCheck, IInv, TypeOK
  <2>9. /\ rec \in Source /\ rec.merged_into = None /\ rec.archive # None
        /\ rec.version = draft[o].version /\ rec.citation = draft[o].citation
        /\ rec.drift = draft[o].drift /\ rec.supersedes = draft[o].supersedes
        /\ rec.merged_into = draft[o].merged_into
    BY <2>1, <2>2 DEF CallInv, RuleInv, Source, Amending
  <2> HIDE DEF rec
  <2>10. /\ DuplicateOf(snap[o], rec.version) = {}
         /\ SameDocumentOf(With(snap[o], id[o], rec), rec) \subseteq {id[o]}
    BY <2>1, <2>2, <2>9, DocumentRule DEF RuleInv, Ruled
  <2>11. Sound(snap[o]) /\ NextIn(snap[o], id[o])
    BY <2>1, <2>2 DEF CallInv
  <2>12. rec.supersedes \notin DOMAIN snap[o] \cup {id[o], None}
    BY <2>8, <2>9, <2>10, <2>11, FinalCheckPasses
  <2> QED BY <2>9, <2>12
<1> QED BY <1>1, <1>2, RuleHolds, Inductive, PTL
        DEF SerialSpec, LateRefusalIsADanglingLink

(***************************************************************************)
(* Refinement.                                                             *)
(***************************************************************************)
LEMMA PinsAtRest ==
  ASSUME \A o \in Operators : pc[o] # "flush"
  PROVE  Pins = files
BY DEF Pins

LEMMA PinsWhileWriting ==
  ASSUME IInv, NEW o \in Operators, pc[o] = "flush"
  PROVE  Pins = snap[o]
<1>1. \A p \in Operators : pc[p] = "flush" => p = o
  BY DEF IInv, Alone, Active
<1>2. (CHOOSE p \in Operators : pc[p] = "flush") = o
  BY <1>1
<1> QED BY <1>2 DEF Pins

\* A step of o that leaves the files alone and does not open one shows a
\* reader nothing.
LEMMA QuietStep ==
  ASSUME IInv, NEW o \in Operators, Idle \/ (Active(o) /\ pc[o] # "flush"),
         UNCHANGED files, pc'[o] # "flush",
         \A p \in Operators : p # o => pc'[p] = pc[p]
  PROVE  UNCHANGED Pins
<1>1. \A p \in Operators : pc[p] # "flush" /\ pc'[p] # "flush"
  BY OthersIdle DEF Active, Idle
<1>2. Pins = files
  BY <1>1, PinsAtRest
<1>3. Pins' = files'
  BY <1>1 DEF Pins
<1> QED BY <1>2, <1>3

LEMMA StartIsQuiet ==
  ASSUME IInv, Idle, NEW o \in Operators, Start(o)
  PROVE  UNCHANGED Pins
<1>1. /\ UNCHANGED files /\ pc'[o] # "flush"
      /\ \A p \in Operators : p # o => pc'[p] = pc[p]
  BY DEF Start, AddLoad, ArchiveLoad, RepairLoad, NoteLoad, AmendLoad, Return,
         IInv, TypeOK
<1> QED BY <1>1, QuietStep

LEMMA CallIsQuiet ==
  ASSUME IInv, NEW o \in Operators, Step(o), pc[o] \notin {"open", "flush"}
  PROVE  UNCHANGED Pins
<1>1. Active(o) /\ pc[o] # "overlay" /\ TypeOK
  BY DEF Step, AddMint, AddExists, AddFetch, AddArchive, AddCheck, ArchiveCapture,
         RepairRecheck, WriteArchives, NoteWrite, Open, Flush, Go, Active,
         IInv, CallInv
<1>2. /\ UNCHANGED files
      /\ \E q \in Steps \ {"flush"} : pc' = [pc EXCEPT ![o] = q]
  <2>1. CASE AddMint(o) \/ AddExists(o)
    BY <2>1 DEF AddMint, AddExists, Go, Return, Steps
  <2>2. CASE AddFetch(o)
    BY <2>2 DEF AddFetch, Fetched, Return, Steps
  <2>3. CASE AddArchive(o) \/ ArchiveCapture(o) \/ RepairRecheck(o)
    BY <2>3 DEF AddArchive, ArchiveCapture, RepairRecheck, Go, Return, Steps
  <2>4. CASE \E cited \in BOOLEAN, n \in Notes \cup {None} : AddCheck(o, cited, n)
    BY <2>4 DEF AddCheck, Return, Steps
  <2>5. CASE WriteArchives(o) \/ \E n \in Notes : NoteWrite(o, n)
    BY <2>5 DEF WriteArchives, NoteWrite, Amend, Return, Steps
  <2>6. ~Open(o) /\ ~Flush(o)
    BY <1>1 DEF Open, Flush, Go
  <2> QED BY <2>1, <2>2, <2>3, <2>4, <2>5, <2>6 DEF Step
<1>3. pc'[o] # "flush" /\ \A p \in Operators : p # o => pc'[p] = pc[p]
  BY <1>1, <1>2 DEF TypeOK, Steps
<1> QED BY <1>1, <1>2, <1>3, QuietStep

LEMMA OpenIsQuiet ==
  ASSUME IInv, NEW o \in Operators, Open(o)
  PROVE  UNCHANGED Pins
<1>1. Active(o) /\ pc[o] = "open" /\ CallInv(o) /\ TypeOK
  BY DEF Open, Go, Active, IInv
<1>2. \A p \in Operators : pc[p] # "flush"
  BY <1>1, OthersIdle DEF Active
<1>3. Pins = snap[o]
  BY <1>1, <1>2, PinsAtRest DEF CallInv
<1>4. /\ pc'[o] = "flush" /\ snap' = snap
      /\ \A p \in Operators : p # o => pc'[p] # "flush"
  BY <1>1, <1>2 DEF Open, Go, TypeOK
<1>5. (CHOOSE p \in Operators : pc'[p] = "flush") = o
  BY <1>4
<1>6. Pins' = snap[o]
  BY <1>4, <1>5 DEF Pins
<1> QED BY <1>3, <1>6

\* The instance's operators are this module's.
LEMMA SameWith == \A s, i, r : Register!With(s, i, r) = With(s, i, r)
BY DEF Register!With, With

\* Closing the file of an add mints a pin; of an amendment, amends one.
LEMMA FlushIsAWrite ==
  ASSUME IInv, NEW o \in Operators, Flush(o)
  PROVE  Register!Next
<1>1. Active(o) /\ CallInv(o) /\ TypeOK /\ pc[o] = "flush"
  BY DEF Flush, Active, IInv, CallInv
<1>2. Pins = snap[o]
  BY <1>1, PinsWhileWriting
<1>3. IInv' /\ files' = With(snap[o], id[o], draft[o]) /\ Idle'
  BY FlushStep
<1>4. Pins' = With(snap[o], id[o], draft[o])
  BY <1>3 DEF Pins, Idle
<1>5. Sound(Pins') /\ Register!Sound(Pins')
  BY <1>3, <1>4, SameSound DEF IInv
<1>6. /\ IsRegister(snap[o]) /\ id[o] \in Ids /\ draft[o] \in Source
      /\ \/ NextIn(snap[o], id[o]) /\ draft[o].merged_into = None
         \/ id[o] \in DOMAIN snap[o] /\ Continues(snap[o][id[o]], draft[o])
  BY <1>1 DEF CallInv, Sound, NextIn, IsRegister
<1>7. /\ DOMAIN Pins' = DOMAIN Pins \cup {id[o]}
      /\ Pins'[id[o]] = draft[o]
      /\ Pins' = Register!With(Pins, id[o], Pins'[id[o]])
  <2>1. /\ DOMAIN With(snap[o], id[o], draft[o]) = DOMAIN snap[o] \cup {id[o]}
        /\ With(snap[o], id[o], draft[o])[id[o]] = draft[o]
    BY DEF With
  <2>2. Pins' = Register!With(Pins, id[o], draft[o])
    BY <1>2, <1>4, SameWith
  <2> QED BY <1>2, <1>4, <2>1, <2>2
<1>8. CASE NextIn(snap[o], id[o]) /\ draft[o].merged_into = None
  <2>1. Register!Mint
    BY <1>2, <1>6, <1>7, <1>8 DEF Register!Mint, NextIn, Register!Ids, Ids
  <2> QED BY <1>5, <2>1 DEF Register!Next
<1>9. CASE id[o] \in DOMAIN snap[o] /\ Continues(snap[o][id[o]], draft[o])
  <2>1. Register!Amend
    BY <1>2, <1>6, <1>7, <1>9
       DEF Register!Amend, Continues, Register!Facts, Facts
  <2> QED BY <1>5, <2>1 DEF Register!Next
<1> QED BY <1>6, <1>8, <1>9

LEMMA MergeIsAWrite ==
  ASSUME IInv, Idle, NEW i \in Ids, NEW j \in Ids, MergeByHand(i, j)
  PROVE  Register!Next
<1>1. IsRegister(files) /\ Sound(files) /\ IInv'
  BY MergeStep DEF IInv, Sound
<1>2. Pins = files /\ Pins' = files' /\ Idle'
  BY DEF Pins, Idle, MergeByHand
<1>3. Register!Sound(Pins')
  BY <1>1, <1>2, SameSound DEF IInv
<1>4. /\ i \in DOMAIN files /\ DOMAIN files' = DOMAIN files
      /\ files'[i] = [files[i] EXCEPT !.merged_into = j]
      /\ files' = With(files, i, files'[i])
  BY <1>1 DEF MergeByHand, With, IsRegister
<1>5. Facts(files'[i]) = Facts(files[i]) /\ files'[i].archive = files[i].archive
  BY <1>1, <1>4 DEF Facts, IsRegister, Source
<1>6. Register!Amend
  BY <1>2, <1>4, <1>5, SameWith DEF Register!Amend, Register!Facts, Facts
<1> QED BY <1>3, <1>6 DEF Register!Next

\* With one call at a time, what a reader sees is a register that only grows,
\* record by consistent record, and in which a pin keeps its facts and its
\* archive copy.
THEOREM Implementation == SerialSpec => ImplementsRegister
<1>1. Init => Register!Init
  BY DEF Init, Register!Init, Pins
<1>2. IInv /\ [SerialNext]_vars => [Register!Next]_Pins
  <2>1. SUFFICES ASSUME IInv, [SerialNext]_vars
                 PROVE  Register!Next \/ UNCHANGED Pins
    OBVIOUS
  <2>2. CASE UNCHANGED vars
    BY <2>2 DEF vars, Pins
  <2>3. CASE Idle /\ \E o \in Operators : Start(o)
    BY <2>1, <2>3, StartIsQuiet
  <2>4. ASSUME NEW o \in Operators, Step(o)
        PROVE  Register!Next \/ UNCHANGED Pins
    <3>1. CASE pc[o] \notin {"open", "flush"}
      BY <2>1, <2>4, <3>1, CallIsQuiet
    <3>2. CASE pc[o] = "open"
      <4>1. Open(o)
        BY <2>4, <3>2 DEF Step, AddMint, AddExists, AddFetch, AddArchive, AddCheck,
           ArchiveCapture, RepairRecheck, WriteArchives, NoteWrite, Flush, Go
      <4> QED BY <2>1, <4>1, OpenIsQuiet
    <3>3. CASE pc[o] = "flush"
      <4>1. Flush(o)
        BY <2>4, <3>3 DEF Step, AddMint, AddExists, AddFetch, AddArchive, AddCheck,
           ArchiveCapture, RepairRecheck, WriteArchives, NoteWrite, Open, Go
      <4> QED BY <2>1, <4>1, FlushIsAWrite
    <3> QED BY <3>1, <3>2, <3>3
  <2>5. ASSUME NEW o \in Operators, KilledElsewhere(o)
        PROVE  UNCHANGED Pins
    <3>1. /\ Active(o) /\ pc[o] # "flush" /\ UNCHANGED files
          /\ pc'[o] = "idle" /\ \A p \in Operators : p # o => pc'[p] = pc[p]
      BY <2>1, <2>5 DEF KilledElsewhere, Crash, Return, Active, IInv, TypeOK
    <3> QED BY <2>1, <3>1, QuietStep
  <2>6. CASE \E c \in Captures : Lose(c)
    BY <2>6 DEF Lose, Pins
  <2>7. CASE Idle /\ \E i, j \in Ids : MergeByHand(i, j)
    BY <2>1, <2>7, MergeIsAWrite
  <2> QED BY <2>1, <2>2, <2>3, <2>4, <2>5, <2>6, <2>7 DEF SerialNext
<1> QED BY <1>1, <1>2, Inductive, PTL
        DEF SerialSpec, ImplementsRegister, Register!Spec

(***************************************************************************)
(* Calls that overlap and are killed anywhere.  Nothing is known any more  *)
(* of the register a call loaded but that its names are still taken, so    *)
(* each call carries what it has checked of its own record.                *)
(***************************************************************************)
Writing == {"open", "flush", "overlay"}

Typed(o) ==
  /\ Active(o) => draft[o] \in Draft
  /\ pc[o] \notin {"idle", "mint", "exists", "fetch"} =>
       draft[o] \in Source /\ id[o] \in Ids

\* An amendment about to set a copy has one; a record about to be written has
\* one if it is cited.
Recoverable(o) ==
  /\ pc[o] = "set_archive" => draft[o].archive # None
  /\ pc[o] \in Writing /\ draft[o].cited => draft[o].archive # None

\* What a call loaded, and what its record links to, is in the directory, and
\* its id, when it has one, leaves no gap.
Named(o) ==
  /\ DOMAIN snap[o] \subseteq Names
  /\ pc[o] \in {"exists", "fetch"} /\ id[o] # None =>
       id[o] = 1 \/ id[o] - 1 \in Names
  /\ pc[o] \notin {"idle", "mint", "exists", "fetch"} =>
       id[o] = 1 \/ id[o] - 1 \in Names
  /\ pc[o] \in {"flush", "overlay"} => id[o] \in Names
  /\ pc[o] \in Writing =>
       {draft[o].supersedes, draft[o].merged_into}
         \subseteq Names \cup {id[o], None}

OverlapInv ==
  /\ TypeOK
  /\ CitedIsRecoverable
  /\ LinksLeadToNames
  /\ \A o \in Operators : Typed(o) /\ Recoverable(o) /\ Named(o)

OthersKept(o) ==
  \A p \in Operators \ {o} :
    /\ pc'[p] = pc[p] /\ snap'[p] = snap[p]
    /\ id'[p] = id[p] /\ draft'[p] = draft[p]

\* A step that touches no file leaves the other calls as they were.
LEMMA OverlapLocal ==
  ASSUME OverlapInv, NEW o \in Operators, UNCHANGED <<files, torn>>,
         OthersKept(o), TypeOK', Typed(o)', Recoverable(o)', Named(o)'
  PROVE  OverlapInv'
<1>1. (CitedIsRecoverable /\ LinksLeadToNames)'
  BY DEF OverlapInv, CitedIsRecoverable, CitedHasArchive, LinksLeadToNames, Names
<1>2. ASSUME NEW p \in Operators, p # o
      PROVE  Typed(p)' /\ Recoverable(p)' /\ Named(p)'
  BY <1>2 DEF OverlapInv, OthersKept, Typed, Recoverable, Named, Names, Active
<1> QED BY <1>1, <1>2 DEF OverlapInv

LEMMA OverlapReturn ==
  ASSUME OverlapInv, NEW o \in Operators, UNCHANGED <<files, torn, lost>>,
         NEW r \in Results, Return(o, r)
  PROVE  OverlapInv'
<1>1. TypeOK
  BY DEF OverlapInv
<1>2. TypeOK'
  BY <1>1, EmptyRegister DEF TypeOK, Return, Steps, Sound
<1>3. pc'[o] = "idle" /\ snap'[o] = [i \in {} |-> None] /\ OthersKept(o)
  BY <1>1 DEF Return, TypeOK, OthersKept
<1>4. Typed(o)' /\ Recoverable(o)' /\ Named(o)'
  BY <1>3 DEF Typed, Recoverable, Named, Active, Writing
<1> QED BY <1>2, <1>3, <1>4, OverlapLocal

LEMMA OverlapAddLoad ==
  ASSUME OverlapInv, NEW o \in Operators,
         NEW v \in Versions, NEW cit \in Citations, AddLoad(o, v, cit)
  PROVE  OverlapInv'
<1> DEFINE blank == [version |-> v, citation |-> cit, drift |-> None,
                     archive |-> None, cited |-> FALSE, supersedes |-> None,
                     merged_into |-> None, notes |-> None]
<1>1. UNCHANGED <<files, torn, lost>> /\ TypeOK
  BY DEF AddLoad, OverlapInv
<1>2. CASE \E r \in Results : Return(o, r)
  BY <1>1, <1>2, OverlapReturn
<1>3. CASE /\ pc' = [pc EXCEPT ![o] = "mint"]
           /\ snap' = [snap EXCEPT ![o] = files]
           /\ draft' = [draft EXCEPT ![o] = blank]
           /\ UNCHANGED <<id, result>>
  <2>1. blank \in Draft
    BY DEF Draft
  <2> HIDE DEF blank
  <2>2. TypeOK'
    BY <1>1, <1>3, <2>1 DEF TypeOK, Steps
  <2>3. /\ pc'[o] = "mint" /\ snap'[o] = files /\ draft'[o] = blank
        /\ OthersKept(o)
    BY <1>1, <1>3 DEF TypeOK, OthersKept
  <2>4. Typed(o)' /\ Recoverable(o)' /\ Named(o)'
    BY <1>1, <2>1, <2>3 DEF Typed, Recoverable, Named, Names, Active, Writing
  <2> QED BY <1>1, <2>2, <2>3, <2>4, OverlapLocal
<1> QED BY <1>2, <1>3 DEF AddLoad, Results

LEMMA OverlapAmendLoad ==
  ASSUME OverlapInv, NEW o \in Operators, NEW i \in Ids,
         ArchiveLoad(o, i) \/ RepairLoad(o, i) \/ NoteLoad(o, i)
  PROVE  OverlapInv'
<1>1. UNCHANGED <<files, torn, lost>> /\ TypeOK
  BY DEF ArchiveLoad, RepairLoad, NoteLoad, AmendLoad, OverlapInv
<1>2. CASE \E r \in Results : Return(o, r)
  BY <1>1, <1>2, OverlapReturn
<1>3. ASSUME i \in DOMAIN files, NEW q \in {"capture", "recheck", "set_notes"},
             pc' = [pc EXCEPT ![o] = q], snap' = [snap EXCEPT ![o] = files],
             id' = [id EXCEPT ![o] = i], draft' = [draft EXCEPT ![o] = files[i]],
             UNCHANGED result
      PROVE  OverlapInv'
  <2>1. files[i] \in Source /\ files[i] \in Draft
    BY <1>1, <1>3 DEF TypeOK, IsRegister, Source, Draft
  <2>2. TypeOK'
    BY <1>1, <1>3, <2>1 DEF TypeOK, Steps
  <2>3. /\ pc'[o] = q /\ snap'[o] = files /\ id'[o] = i
        /\ draft'[o] = files[i] /\ OthersKept(o)
    BY <1>1, <1>3 DEF TypeOK, OthersKept
  <2>4. i = 1 \/ i - 1 \in Names
    BY <1>3 DEF OverlapInv, LinksLeadToNames, Names
  <2>5. Typed(o)' /\ Recoverable(o)' /\ Named(o)'
    BY <1>1, <1>3, <2>1, <2>3, <2>4
       DEF Typed, Recoverable, Named, Names, Active, Writing
  <2> QED BY <1>1, <2>2, <2>3, <2>5, OverlapLocal
<1> QED BY <1>2, <1>3
        DEF ArchiveLoad, RepairLoad, NoteLoad, AmendLoad, Results

LEMMA OverlapMint ==
  ASSUME OverlapInv, NEW o \in Operators, AddMint(o)
  PROVE  OverlapInv'
<1>1. /\ UNCHANGED <<files, torn, lost, snap, draft, result>> /\ TypeOK
      /\ pc[o] = "mint" /\ pc' = [pc EXCEPT ![o] = "exists"]
  BY DEF AddMint, Go, OverlapInv
<1>2. PICK i \in Ids \cup {None} : /\ id' = [id EXCEPT ![o] = i]
                                   /\ i # None => NextSourceId(i)
  BY DEF AddMint
<1>3. TypeOK'
  BY <1>1, <1>2 DEF TypeOK, Steps
<1>4. pc'[o] = "exists" /\ id'[o] = i /\ OthersKept(o)
  BY <1>1, <1>2 DEF TypeOK, OthersKept
<1>5. Typed(o) /\ Named(o)
  BY DEF OverlapInv
<1>6. Typed(o)' /\ Recoverable(o)' /\ Named(o)'
  BY <1>1, <1>2, <1>4, <1>5
     DEF Typed, Recoverable, Named, NextSourceId, Names, Active, Writing
<1> QED BY <1>1, <1>3, <1>4, <1>6, OverlapLocal

LEMMA OverlapExists ==
  ASSUME OverlapInv, NEW o \in Operators, AddExists(o)
  PROVE  OverlapInv'
<1>1. UNCHANGED <<files, torn, lost>> /\ pc[o] = "exists" /\ TypeOK
  BY DEF AddExists, Go, OverlapInv
<1>2. CASE Return(o, "refused")
  BY <1>1, <1>2, OverlapReturn DEF Results
<1>3. CASE Go(o, "exists", "fetch") /\ UNCHANGED <<snap, id, draft, result>>
  <2>1. TypeOK'
    BY <1>1, <1>3 DEF Go, TypeOK, Steps
  <2>2. pc'[o] = "fetch" /\ OthersKept(o)
    BY <1>1, <1>3 DEF Go, TypeOK, OthersKept
  <2>3. Typed(o) /\ Named(o)
    BY DEF OverlapInv
  <2>4. Typed(o)' /\ Recoverable(o)' /\ Named(o)'
    BY <1>1, <1>3, <2>2, <2>3
       DEF Typed, Recoverable, Named, Names, Active, Writing
  <2> QED BY <1>1, <2>1, <2>2, <2>4, OverlapLocal
<1> QED BY <1>2, <1>3 DEF AddExists

LEMMA OverlapFetch ==
  ASSUME OverlapInv, NEW o \in Operators, AddFetch(o)
  PROVE  OverlapInv'
<1>1. UNCHANGED <<files, torn, lost>> /\ pc[o] = "fetch" /\ TypeOK
  BY DEF AddFetch, OverlapInv
<1>2. CASE \E r \in Results : Return(o, r)
  BY <1>1, <1>2, OverlapReturn
<1>3. ASSUME id[o] # None,
             NEW d \in Drifts, NEW c \in Captures \cup {None},
             NEW sup \in Ids \cup {None}, NEW q \in {"archive", "check"},
             pc' = [pc EXCEPT ![o] = q],
             draft' = [draft EXCEPT ![o] = [draft[o] EXCEPT
               !.drift = d, !.archive = c, !.supersedes = sup]],
             UNCHANGED <<snap, id, result>>
      PROVE  OverlapInv'
  <2> DEFINE cand == [draft[o] EXCEPT !.drift = d, !.archive = c,
                                      !.supersedes = sup]
  <2>1. Typed(o) /\ Named(o)
    BY DEF OverlapInv
  <2>2. cand \in Source /\ cand \in Draft
    BY <1>1, <2>1 DEF Typed, Active, Draft, Source
  <2>3. draft' = [draft EXCEPT ![o] = cand]
    BY <1>3
  <2> HIDE DEF cand
  <2>4. TypeOK'
    BY <1>1, <1>3, <2>2, <2>3 DEF TypeOK, Steps
  <2>5. pc'[o] = q /\ draft'[o] = cand /\ OthersKept(o)
    BY <1>1, <1>3, <2>3 DEF TypeOK, OthersKept
  <2>6. id'[o] = id[o] /\ id[o] \in Ids /\ snap'[o] = snap[o]
    BY <1>1, <1>3 DEF TypeOK
  <2>7. Typed(o)' /\ Recoverable(o)'
    BY <2>2, <2>5, <2>6 DEF Typed, Recoverable, Active, Writing
  <2>8. Named(o)'
    BY <1>1, <1>3, <2>1, <2>5, <2>6 DEF Named, Names, Writing
  <2> QED BY <1>1, <2>4, <2>5, <2>7, <2>8, OverlapLocal
<1>4. ASSUME id[o] # None,
             NEW d \in Drifts, NEW c \in Captures \cup {None},
             NEW sup \in Ids \cup {None}, Fetched(o, d, c, sup)
      PROVE  OverlapInv'
  <2> DEFINE cand == [draft[o] EXCEPT !.drift = d, !.archive = c,
                                      !.supersedes = sup]
  <2>1. \/ Return(o, "refused")
        \/ /\ \E q \in {"archive", "check"} : pc' = [pc EXCEPT ![o] = q]
           /\ draft' = [draft EXCEPT ![o] = cand]
           /\ UNCHANGED <<snap, id, result>>
    BY <1>4 DEF Fetched
  <2>2. "refused" \in Results
    BY DEF Results
  <2> QED BY <1>2, <1>3, <1>4, <2>1, <2>2
<1> QED BY <1>2, <1>4, RegistryAssumption DEF AddFetch, Results

\* archive() attaches a capture to the record under assembly, or none.
LEMMA OverlapCapture ==
  ASSUME OverlapInv, NEW o \in Operators,
         AddArchive(o) \/ ArchiveCapture(o) \/ RepairRecheck(o)
  PROVE  OverlapInv'
<1>1. /\ UNCHANGED <<files, torn, lost>> /\ TypeOK
      /\ pc[o] \in {"archive", "capture", "recheck"}
  BY DEF AddArchive, ArchiveCapture, RepairRecheck, Go, OverlapInv
<1>2. CASE \E r \in Results : Return(o, r)
  BY <1>1, <1>2, OverlapReturn
<1>3. ASSUME NEW q \in {"archived", "set_archive"}, NEW c \in Captures,
             pc' = [pc EXCEPT ![o] = q],
             draft' = [draft EXCEPT ![o].archive = c],
             UNCHANGED <<snap, id, result>>
      PROVE  OverlapInv'
  <2> DEFINE rec == [draft[o] EXCEPT !.archive = c]
  <2>1. Typed(o) /\ Named(o)
    BY DEF OverlapInv
  <2>2. rec \in Source /\ rec \in Draft /\ rec.archive # None
    BY <1>1, <2>1, RegistryAssumption DEF Typed, Active, Draft, Source
  <2>3. draft' = [draft EXCEPT ![o] = rec]
    BY <1>3, <1>1 DEF TypeOK
  <2> HIDE DEF rec
  <2>4. TypeOK'
    BY <1>1, <1>3, <2>2, <2>3 DEF TypeOK, Steps
  <2>5. pc'[o] = q /\ draft'[o] = rec /\ OthersKept(o)
    BY <1>1, <1>3, <2>3 DEF TypeOK, OthersKept
  <2>6. Typed(o)' /\ Recoverable(o)' /\ Named(o)'
    BY <1>1, <1>3, <2>1, <2>2, <2>5
       DEF Typed, Recoverable, Named, Names, Active, Writing
  <2> QED BY <1>1, <2>4, <2>5, <2>6, OverlapLocal
<1> QED BY <1>2, <1>3
        DEF AddArchive, ArchiveCapture, RepairRecheck, Go, Reproducing, Results

\* The final check ties a record's links to what the call loaded.
LEMMA OverlapCheck ==
  ASSUME OverlapInv, NEW o \in Operators, NEW cited \in BOOLEAN,
         NEW n \in Notes \cup {None}, AddCheck(o, cited, n)
  PROVE  OverlapInv'
<1> DEFINE rec == [draft[o] EXCEPT !.cited = cited, !.notes = n]
<1>1. /\ UNCHANGED <<files, torn, lost>> /\ pc[o] \in {"check", "archived"}
      /\ TypeOK
  BY DEF AddCheck, OverlapInv
<1>2. CASE \E r \in Results : Return(o, r)
  BY <1>1, <1>2, OverlapReturn
<1>3. CASE /\ SourceInvariants(With(snap[o], id[o], rec))
           /\ pc' = [pc EXCEPT ![o] = "open"]
           /\ draft' = [draft EXCEPT ![o] = rec]
           /\ UNCHANGED <<snap, id, result>>
  <2>1. Typed(o) /\ Named(o)
    BY DEF OverlapInv
  <2>2. rec \in Source /\ rec \in Draft
    BY <1>1, <2>1 DEF Typed, Active, Draft, Source
  <2> HIDE DEF rec
  <2>3. /\ rec.cited => rec.archive # None
        /\ {rec.supersedes, rec.merged_into}
             \subseteq DOMAIN snap[o] \cup {id[o], None}
    BY <1>3 DEF SourceInvariants, CitedHasArchive, LinksResolve, With
  <2>4. TypeOK'
    BY <1>1, <1>3, <2>2 DEF TypeOK, Steps
  <2>5. pc'[o] = "open" /\ draft'[o] = rec /\ OthersKept(o)
    BY <1>1, <1>3 DEF TypeOK, OthersKept
  <2>6. Typed(o)' /\ Recoverable(o)' /\ Named(o)'
    BY <1>1, <1>3, <2>1, <2>2, <2>3, <2>5
       DEF Typed, Recoverable, Named, Names, Active, Writing
  <2> QED BY <1>1, <2>4, <2>5, <2>6, OverlapLocal
<1> QED BY <1>2, <1>3 DEF AddCheck, Results

\* An amendment replaces one field of whatever record the file holds by now.
LEMMA OverlapAmend ==
  ASSUME OverlapInv, NEW o \in Operators,
         WriteArchives(o) \/ \E n \in Notes : NoteWrite(o, n)
  PROVE  OverlapInv'
<1>1. /\ UNCHANGED <<files, torn, lost>> /\ TypeOK
      /\ pc[o] \in {"set_archive", "set_notes"}
  BY DEF WriteArchives, NoteWrite, OverlapInv
<1>2. CASE \E r \in Results : Return(o, r)
  BY <1>1, <1>2, OverlapReturn
<1>3. ASSUME NEW rec, id[o] \in DOMAIN files,
             \/ /\ rec = [files[id[o]] EXCEPT !.archive = draft[o].archive]
                /\ pc[o] = "set_archive"
             \/ \E n \in Notes : rec = [files[id[o]] EXCEPT !.notes = n],
             draft' = [draft EXCEPT ![o] = rec],
             pc' = [pc EXCEPT ![o] = "open"], UNCHANGED <<snap, id, result>>
      PROVE  OverlapInv'
  <2> DEFINE old == files[id[o]]
  <2>1. Typed(o) /\ Named(o) /\ Recoverable(o)
    BY DEF OverlapInv
  <2>2. old \in Source
    BY <1>1, <1>3 DEF TypeOK, IsRegister
  <2>3. draft[o] \in Source
    BY <1>1, <2>1 DEF Typed
  <2>4. rec \in Source /\ rec \in Draft
    BY <1>3, <2>2, <2>3 DEF Source, Draft
  <2>5. /\ rec.cited = old.cited /\ rec.supersedes = old.supersedes
        /\ rec.merged_into = old.merged_into
        /\ rec.archive = old.archive
             \/ (rec.archive = draft[o].archive /\ pc[o] = "set_archive")
    BY <1>3, <2>2, <2>3 DEF Source
  <2>6. /\ rec.cited => rec.archive # None
        /\ {rec.supersedes, rec.merged_into} \subseteq Names \cup {None}
    BY <1>3, <2>1, <2>5 DEF Recoverable, OverlapInv, CitedIsRecoverable,
       CitedHasArchive, LinksLeadToNames
  <2>7. TypeOK'
    BY <1>1, <1>3, <2>4 DEF TypeOK, Steps
  <2>8. pc'[o] = "open" /\ draft'[o] = rec /\ OthersKept(o)
    BY <1>1, <1>3 DEF TypeOK, OthersKept
  <2>9. Typed(o)' /\ Recoverable(o)' /\ Named(o)'
    BY <1>1, <1>3, <2>1, <2>4, <2>6, <2>8
       DEF Typed, Recoverable, Named, Names, Active, Writing
  <2> QED BY <1>1, <2>7, <2>8, <2>9, OverlapLocal
<1> QED BY <1>2, <1>3 DEF WriteArchives, NoteWrite, Amend, Results

\* Opening a file takes its name, or finds it taken.
LEMMA OverlapOpen ==
  ASSUME OverlapInv, NEW o \in Operators, Open(o)
  PROVE  OverlapInv' /\ Names' = Names \cup {id[o]}
<1>1. /\ pc[o] = "open" /\ pc' = [pc EXCEPT ![o] = "flush"]
      /\ files' = Without(files, id[o]) /\ torn' = torn \cup {id[o]}
      /\ UNCHANGED <<lost, snap, id, draft, result>> /\ TypeOK
  BY DEF Open, Go, OverlapInv
<1>2. Typed(o) /\ Recoverable(o) /\ Named(o)
  BY DEF OverlapInv
<1>3. id[o] \in Ids
  BY <1>1, <1>2 DEF Typed
<1>4. /\ IsRegister(files') /\ DOMAIN files' = DOMAIN files \ {id[o]}
      /\ \A i \in DOMAIN files' : files'[i] = files[i]
  BY <1>1, WithoutRegister DEF TypeOK, Without
<1>5. Names' = Names \cup {id[o]}
  BY <1>1, <1>4 DEF Names
<1>6. TypeOK'
  BY <1>1, <1>3, <1>4 DEF TypeOK, Steps
<1>7. CitedIsRecoverable'
  BY <1>4 DEF OverlapInv, CitedIsRecoverable, CitedHasArchive
<1>8. LinksLeadToNames'
  BY <1>1, <1>2, <1>4, <1>5 DEF OverlapInv, LinksLeadToNames, Named
<1>9. ASSUME NEW p \in Operators
      PROVE  Typed(p)' /\ Recoverable(p)' /\ Named(p)'
  <2>1. Typed(p) /\ Recoverable(p) /\ Named(p)
    BY DEF OverlapInv
  <2>2. /\ pc'[p] = pc[p] \/ (p = o /\ pc'[p] = "flush")
        /\ snap'[p] = snap[p] /\ id'[p] = id[p] /\ draft'[p] = draft[p]
    BY <1>1 DEF TypeOK
  <2> QED BY <1>1, <1>5, <2>1, <2>2
          DEF Typed, Recoverable, Named, Active, Writing
<1> QED BY <1>5, <1>6, <1>7, <1>8, <1>9 DEF OverlapInv

\* Closing a file leaves its record, or nothing that can be read; another call
\* that has it open goes on.
LEMMA OverlapFlush ==
  ASSUME OverlapInv, NEW o \in Operators, Flush(o)
  PROVE  OverlapInv' /\ Names' = Names
<1>1. TypeOK /\ pc[o] \in {"flush", "overlay"} /\ UNCHANGED lost
  BY DEF Flush, OverlapInv
<1>2. Typed(o) /\ Recoverable(o) /\ Named(o)
  BY DEF OverlapInv
<1>3. id[o] \in Ids /\ draft[o] \in Source /\ id[o] \in Names
  BY <1>1, <1>2 DEF Typed, Named
<1>4. /\ IsRegister(files')
      /\ torn' \in SUBSET Ids
      /\ \A i \in DOMAIN files' :
           \/ i \in DOMAIN files /\ files'[i] = files[i]
           \/ i = id[o] /\ files'[i] = draft[o]
      /\ Names' = Names
  <2>1. CASE files' = With(files, id[o], draft[o]) /\ torn' = torn \ {id[o]}
    <3> DEFINE new == With(files, id[o], draft[o])
    <3>1. /\ IsRegister(new) /\ DOMAIN new = DOMAIN files \cup {id[o]}
          /\ new[id[o]] = draft[o]
          /\ \A i \in DOMAIN files : i # id[o] => new[i] = files[i]
      <4>1. IsRegister(files)
        BY <1>1 DEF TypeOK
      <4> QED BY <1>3, <4>1 DEF IsRegister, With
    <3> HIDE DEF new
    <3>2. torn' \in SUBSET Ids /\ Names' = Names
      BY <1>1, <1>3, <2>1, <3>1 DEF TypeOK, Names, new
    <3> QED BY <2>1, <3>1, <3>2 DEF new
  <2>2. CASE files' = Without(files, id[o]) /\ torn' = torn \cup {id[o]}
    BY <1>1, <1>3, <2>2, WithoutRegister DEF TypeOK, Names, Without
  <2> QED BY <2>1, <2>2 DEF Flush
<1>5. /\ pc'[o] = "idle" /\ snap'[o] = [i \in {} |-> None]
      /\ \A p \in Operators \ {o} :
           /\ pc'[p] = pc[p] \/ (pc[p] = "flush" /\ pc'[p] = "overlay")
           /\ snap'[p] = snap[p] /\ id'[p] = id[p] /\ draft'[p] = draft[p]
  BY <1>1 DEF Flush, TypeOK
<1>6. TypeOK'
  <2>1. \A p \in Operators : IsRegister(snap'[p])
    BY <1>1, <1>5, EmptyRegister DEF TypeOK, Sound
  <2>2. pc' \in [Operators -> Steps]
    BY <1>1 DEF Flush, TypeOK, Steps
  <2> QED BY <1>1, <1>4, <2>1, <2>2 DEF Flush, TypeOK, Results
<1>7. CitedIsRecoverable'
  BY <1>1, <1>2, <1>4
     DEF OverlapInv, CitedIsRecoverable, CitedHasArchive, Recoverable, Writing
<1>8. LinksLeadToNames'
  BY <1>1, <1>2, <1>3, <1>4 DEF OverlapInv, LinksLeadToNames, Named, Writing
<1>9. ASSUME NEW p \in Operators
      PROVE  Typed(p)' /\ Recoverable(p)' /\ Named(p)'
  <2>1. CASE p = o
    BY <1>5, <2>1 DEF Typed, Recoverable, Named, Active, Writing
  <2>2. CASE p # o
    <3>1. Typed(p) /\ Recoverable(p) /\ Named(p)
      BY DEF OverlapInv
    <3> QED BY <1>4, <1>5, <2>2, <3>1
            DEF Typed, Recoverable, Named, Active, Writing
  <2> QED BY <2>1, <2>2
<1> QED BY <1>4, <1>6, <1>7, <1>8, <1>9 DEF OverlapInv

LEMMA OverlapInit == Init => OverlapInv
<1>1. ASSUME Init PROVE TypeOK /\ DOMAIN files = {} /\ torn = {}
  BY <1>1, EmptyRegister DEF Init, TypeOK, Steps, Results, Sound
<1> QED BY <1>1 DEF Init, OverlapInv, CitedIsRecoverable, CitedHasArchive,
        LinksLeadToNames, Names, Typed, Recoverable, Named, Active, Writing

\* What a step of overlapping calls can be, one case per way of stepping.
LEMMA OverlapStep ==
  OverlapInv /\ [ConcurrentNext]_vars => OverlapInv' /\ Names \subseteq Names'
<1> SUFFICES ASSUME OverlapInv, [ConcurrentNext]_vars
             PROVE  OverlapInv' /\ Names \subseteq Names'
  OBVIOUS
<1>1. CASE UNCHANGED vars
  BY <1>1 DEF vars, OverlapInv, TypeOK, CitedIsRecoverable, CitedHasArchive,
     LinksLeadToNames, Names, Typed, Recoverable, Named, Active
<1>2. ASSUME NEW o \in Operators, Start(o)
      PROVE  OverlapInv' /\ Names \subseteq Names'
  <2>1. UNCHANGED <<files, torn>>
    BY <1>2 DEF Start, AddLoad, ArchiveLoad, RepairLoad, NoteLoad, AmendLoad
  <2> QED BY <1>2, <2>1, OverlapAddLoad, OverlapAmendLoad DEF Start, Names
<1>3. ASSUME NEW o \in Operators, Step(o), ~Open(o), ~Flush(o)
      PROVE  OverlapInv' /\ Names \subseteq Names'
  <2>1. UNCHANGED <<files, torn>>
    BY <1>3 DEF Step, AddMint, AddExists, AddFetch, AddArchive, AddCheck, ArchiveCapture,
       RepairRecheck, WriteArchives, NoteWrite
  <2>2. OverlapInv'
    BY <1>3, OverlapMint, OverlapExists, OverlapFetch, OverlapCapture, OverlapCheck,
       OverlapAmend DEF Step
  <2> QED BY <2>1, <2>2 DEF Names
<1>4. ASSUME NEW o \in Operators, Open(o) \/ Flush(o)
      PROVE  OverlapInv' /\ Names \subseteq Names'
  BY <1>4, OverlapOpen, OverlapFlush
<1>5. ASSUME NEW o \in Operators, KilledElsewhere(o) \/ KilledMidWrite(o)
      PROVE  OverlapInv' /\ Names \subseteq Names'
  BY <1>5, OverlapReturn
     DEF KilledElsewhere, KilledMidWrite, Crash, Results, Names
<1>6. ASSUME NEW c \in Captures, Lose(c)
      PROVE  OverlapInv' /\ Names \subseteq Names'
  BY <1>6 DEF Lose, OverlapInv, TypeOK, CitedIsRecoverable, CitedHasArchive,
     LinksLeadToNames, Names, Typed, Recoverable, Named, Active
<1> QED BY <1>1, <1>2, <1>3, <1>4, <1>5, <1>6 DEF ConcurrentNext

LEMMA OverlapInductive == ConcurrentSpec => []OverlapInv
<1>1. OverlapInv /\ [ConcurrentNext]_vars => OverlapInv'
  BY OverlapStep
<1> QED BY <1>1, OverlapInit, PTL DEF ConcurrentSpec

\* However calls overlap and wherever they are killed, every variable keeps
\* its type; in particular a record read from a file is a record.
THEOREM TypesSurviveOverlap == ConcurrentSpec => []TypeOK
<1>1. OverlapInv => TypeOK
  BY DEF OverlapInv
<1> QED BY <1>1, OverlapInductive, PTL

\* A cited pin that can be read has an archive copy, although the check that
\* says so is made against a register that may be stale.
THEOREM CitedStaysRecoverable == ConcurrentSpec => []CitedIsRecoverable
<1>1. OverlapInv => CitedIsRecoverable
  BY DEF OverlapInv
<1> QED BY <1>1, OverlapInductive, PTL

\* However calls overlap and wherever they are killed, ids leave no gap and
\* what a record links to is a name of the directory, although the id was
\* minted and the links were checked against stale directories.
THEOREM LinksKeepLeadingToNames == ConcurrentSpec => []LinksLeadToNames
<1>1. OverlapInv => LinksLeadToNames
  BY DEF OverlapInv
<1> QED BY <1>1, OverlapInductive, PTL

\* A name once taken stays taken: no write, overlap or kill gives it back to
\* a next_source_id that reads the directory later.  (One that read it before
\* may have minted the same name.)
THEOREM NamesStayTaken == ConcurrentSpec => [][Names \subseteq Names']_vars
<1>1. OverlapInv /\ [ConcurrentNext]_vars => [Names \subseteq Names']_vars
  BY OverlapStep
<1> QED BY <1>1, OverlapInductive, PTL DEF ConcurrentSpec

(***************************************************************************)
(* One add at a time.  Nothing in the code keeps two adds apart, and two   *)
(* that overlap may lose a record; were they kept apart, and nothing else, *)
(* amendments could overlap and calls be killed anywhere.  The register g  *)
(* the calls agree on holds every record ever closed: a file that can be   *)
(* read, and what a call loaded, is the pin g holds at that id, but for    *)
(* its archive copy and its notes.                                         *)
(***************************************************************************)
Adding(o) ==
  \/ pc[o] \in {"mint", "exists", "fetch", "archive", "check", "archived"}
  \/ pc[o] \in Writing /\ id[o] \notin DOMAIN snap[o]

OneAdd == \A o, p \in Operators : Adding(o) /\ Adding(p) => o = p

SamePin(q, r) == Facts(q) = Facts(r) /\ q.merged_into = r.merged_into

PartOf(s, g) ==
  DOMAIN s \subseteq DOMAIN g /\ \A i \in DOMAIN s : SamePin(s[i], g[i])

\* Until its file is open, an add knows every name; then its own is torn.
AddAgrees(o, g) ==
  /\ DOMAIN snap[o] = DOMAIN g
  /\ pc[o] \notin {"flush", "overlay"} => DOMAIN g = Names
  /\ pc[o] \notin {"mint", "flush", "overlay"} => id[o] \notin Names
  /\ pc[o] # "overlay"
  /\ pc[o] = "flush" => id[o] \in torn
  /\ pc[o] \in Writing => SourceInvariants(With(snap[o], id[o], draft[o]))

AmendmentAgrees(o) ==
  /\ id[o] \in DOMAIN snap[o]
  /\ SamePin(draft[o], snap[o][id[o]])

CallAgrees(o, g) ==
  /\ PartOf(snap[o], g)
  /\ Adding(o) => AddAgrees(o, g)
  /\ Active(o) /\ ~Adding(o) => AmendmentAgrees(o)
  /\ pc[o] \notin {"idle", "mint", "exists", "fetch"} => Reproduced(draft[o])

Agreed(g) ==
  /\ Sound(g)
  /\ DOMAIN g \subseteq Names
  /\ PartOf(files, g)
  /\ ArchivesReproduce
  /\ \A o \in Operators : CallAgrees(o, g)

\* Two registers of the same pins keep the same rules, cited ones aside.
LEMMA SamePinsSameRules ==
  ASSUME NEW s, NEW t, DOMAIN t = DOMAIN s,
         \A i \in DOMAIN s : SamePin(t[i], s[i]),
         SourceInvariants(s), CitedHasArchive(t)
  PROVE  SourceInvariants(t)
<1>1. \A i \in DOMAIN s :
        /\ t[i].version = s[i].version /\ t[i].citation = s[i].citation
        /\ t[i].drift = s[i].drift /\ t[i].supersedes = s[i].supersedes
        /\ t[i].merged_into = s[i].merged_into
  BY DEF SamePin, Facts
<1>2. LinksResolve(t)
  BY <1>1 DEF SourceInvariants, LinksResolve
<1>3. OnePinPerVersion(t)
  BY <1>1 DEF SourceInvariants, OnePinPerVersion, DuplicateOf
<1>4. LiveSources(t) = LiveSources(s) /\ LiveSources(s) \subseteq DOMAIN s
  <2>1. SupersededIds(t) = SupersededIds(s)
    BY <1>1 DEF SupersededIds
  <2> QED BY <1>1, <2>1 DEF LiveSources
<1>5. OneLivePinPerDocument(t)
  BY <1>1, <1>4
     DEF SourceInvariants, OneLivePinPerDocument, SameDocumentOf
<1> QED BY <1>2, <1>3, <1>5 DEF SourceInvariants

\* With no file half written, the files are the whole of g.
LEMMA AllFilesRead ==
  ASSUME OverlapInv, NEW g, Agreed(g), torn = {}
  PROVE  DOMAIN files = DOMAIN g /\ DOMAIN files = Names /\ SourceInvariants(files)
<1>1. DOMAIN files = DOMAIN g /\ DOMAIN files = Names
  BY DEF Agreed, PartOf, Names
<1>2. CitedHasArchive(files)
  BY DEF OverlapInv, CitedIsRecoverable
<1> QED BY <1>1, <1>2, SamePinsSameRules DEF Agreed, PartOf, Sound

\* A step that touches no file leaves the agreement of the others alone.
LEMMA AgreeLocal ==
  ASSUME NEW g, Agreed(g), NEW o \in Operators, UNCHANGED <<files, torn>>,
         OthersKept(o), CallAgrees(o, g)'
  PROVE  Agreed(g)'
<1>1. ASSUME NEW p \in Operators, p # o PROVE CallAgrees(p, g)'
  BY <1>1 DEF Agreed, CallAgrees, OthersKept, Adding, AddAgrees,
     AmendmentAgrees, Names, Active
<1> QED BY <1>1 DEF Agreed, Names, ArchivesReproduce

LEMMA AgreeReturn ==
  ASSUME OverlapInv, NEW g, Agreed(g), NEW o \in Operators,
         UNCHANGED <<files, torn, lost>>, NEW r \in Results, Return(o, r)
  PROVE  Agreed(g)'
<1>1. pc'[o] = "idle" /\ snap'[o] = [i \in {} |-> None] /\ OthersKept(o)
  BY DEF Return, OverlapInv, TypeOK, OthersKept
<1>2. CallAgrees(o, g)'
  BY <1>1 DEF CallAgrees, PartOf, Adding, Active, Writing
<1> QED BY <1>1, <1>2, AgreeLocal

LEMMA AgreeAddLoad ==
  ASSUME OverlapInv, NEW g, Agreed(g), NEW o \in Operators,
         NEW v \in Versions, NEW cit \in Citations, AddLoad(o, v, cit)
  PROVE  Agreed(g)'
<1>1. UNCHANGED <<files, torn, lost>> /\ TypeOK
  BY DEF AddLoad, OverlapInv
<1>2. CASE \E r \in Results : Return(o, r)
  BY <1>1, <1>2, AgreeReturn
<1>3. CASE torn = {} /\ AddLoad(o, v, cit) /\ ~\E r \in Results : Return(o, r)
  <2>1. pc'[o] = "mint" /\ snap'[o] = files /\ OthersKept(o)
    BY <1>1, <1>3 DEF AddLoad, TypeOK, OthersKept, Results
  <2>2. DOMAIN files = DOMAIN g /\ DOMAIN files = Names
    BY <1>3, AllFilesRead
  <2>3. CallAgrees(o, g)'
    BY <1>1, <2>1, <2>2
       DEF CallAgrees, Agreed, PartOf, Adding, AddAgrees, Active, Writing, Names
  <2> QED BY <1>1, <2>1, <2>3, AgreeLocal
<1> QED BY <1>2, <1>3 DEF AddLoad, Loads, Results

LEMMA AgreeAmendLoad ==
  ASSUME OverlapInv, NEW g, Agreed(g), NEW o \in Operators, NEW i \in Ids,
         ArchiveLoad(o, i) \/ RepairLoad(o, i) \/ NoteLoad(o, i)
  PROVE  Agreed(g)'
<1>1. UNCHANGED <<files, torn, lost>> /\ TypeOK
  BY DEF ArchiveLoad, RepairLoad, NoteLoad, AmendLoad, OverlapInv
<1>2. CASE \E r \in Results : Return(o, r)
  BY <1>1, <1>2, AgreeReturn
<1>3. ASSUME i \in DOMAIN files, NEW q \in {"capture", "recheck", "set_notes"},
             pc' = [pc EXCEPT ![o] = q], snap' = [snap EXCEPT ![o] = files],
             id' = [id EXCEPT ![o] = i], draft' = [draft EXCEPT ![o] = files[i]]
      PROVE  Agreed(g)'
  <2>1. /\ pc'[o] = q /\ snap'[o] = files /\ id'[o] = i
        /\ draft'[o] = files[i] /\ OthersKept(o)
    BY <1>1, <1>3 DEF TypeOK, OthersKept
  <2>2. PartOf(files, g) /\ Reproduced(files[i])
    BY <1>3 DEF Agreed, ArchivesReproduce
  <2>3. CallAgrees(o, g)'
    BY <1>3, <2>1, <2>2
       DEF CallAgrees, Adding, AmendmentAgrees, SamePin, Writing
  <2> QED BY <1>1, <2>1, <2>3, AgreeLocal
<1> QED BY <1>2, <1>3
        DEF ArchiveLoad, RepairLoad, NoteLoad, AmendLoad, Results

LEMMA AgreeMint ==
  ASSUME OverlapInv, NEW g, Agreed(g), NEW o \in Operators, AddMint(o)
  PROVE  Agreed(g)'
<1>1. /\ UNCHANGED <<files, torn, lost, snap, draft, result>> /\ TypeOK
      /\ pc[o] = "mint" /\ pc' = [pc EXCEPT ![o] = "exists"]
  BY DEF AddMint, Go, OverlapInv
<1>2. PICK i \in Ids \cup {None} : /\ id' = [id EXCEPT ![o] = i]
                                   /\ i # None => NextSourceId(i)
  BY DEF AddMint
<1>3. pc'[o] = "exists" /\ id'[o] = i /\ OthersKept(o)
  BY <1>1, <1>2 DEF TypeOK, OthersKept
<1>4. i \notin Names
  <2>1. Names \subseteq Ids
    BY <1>1 DEF Names, TypeOK, IsRegister
  <2> QED BY <1>2, <2>1, RegistryAssumption DEF NextSourceId, Ids
<1>5. CallAgrees(o, g)'
  BY <1>1, <1>3, <1>4
     DEF Agreed, CallAgrees, Adding, AddAgrees, Names, Writing
<1> QED BY <1>1, <1>3, <1>5, AgreeLocal

LEMMA AgreeExists ==
  ASSUME OverlapInv, NEW g, Agreed(g), NEW o \in Operators, AddExists(o)
  PROVE  Agreed(g)'
<1>1. UNCHANGED <<files, torn, lost>> /\ pc[o] = "exists" /\ TypeOK
  BY DEF AddExists, Go, OverlapInv
<1>2. CASE Return(o, "refused")
  BY <1>1, <1>2, AgreeReturn DEF Results
<1>3. CASE Go(o, "exists", "fetch") /\ UNCHANGED <<snap, id, draft, result>>
  <2>1. pc'[o] = "fetch" /\ OthersKept(o)
    BY <1>1, <1>3 DEF Go, TypeOK, OthersKept
  <2>2. CallAgrees(o, g)'
    BY <1>1, <1>3, <2>1
       DEF Agreed, CallAgrees, Adding, AddAgrees, Names, Writing
  <2> QED BY <1>1, <1>3, <2>1, <2>2, AgreeLocal
<1> QED BY <1>2, <1>3 DEF AddExists

LEMMA AgreeFetch ==
  ASSUME OverlapInv, NEW g, Agreed(g), NEW o \in Operators, AddFetch(o)
  PROVE  Agreed(g)'
<1>1. UNCHANGED <<files, torn, lost>> /\ pc[o] = "fetch" /\ TypeOK
  BY DEF AddFetch, OverlapInv
<1>2. CASE \E r \in Results : Return(o, r)
  BY <1>1, <1>2, AgreeReturn
<1>3. ASSUME NEW d \in Drifts, NEW c \in Captures \cup {None},
             c # None => Shows[c] = d,
             NEW sup \in Ids \cup {None}, NEW q \in {"archive", "check"},
             pc' = [pc EXCEPT ![o] = q],
             draft' = [draft EXCEPT ![o] = [draft[o] EXCEPT
               !.drift = d, !.archive = c, !.supersedes = sup]],
             UNCHANGED <<snap, id, result>>
      PROVE  Agreed(g)'
  <2> DEFINE cand == [draft[o] EXCEPT !.drift = d, !.archive = c,
                                      !.supersedes = sup]
  <2>1. draft[o] \in Draft
    BY <1>1 DEF OverlapInv, Typed, Active
  <2>2. Reproduced(cand)
    BY <1>3, <2>1 DEF Reproduced, Draft
  <2>3. draft' = [draft EXCEPT ![o] = cand]
    BY <1>3
  <2> HIDE DEF cand
  <2>4. pc'[o] = q /\ draft'[o] = cand /\ OthersKept(o)
    BY <1>1, <1>3, <2>3 DEF TypeOK, OthersKept
  <2>5. CallAgrees(o, g)'
    BY <1>1, <1>3, <2>2, <2>4
       DEF Agreed, CallAgrees, Adding, AddAgrees, Names, Writing
  <2> QED BY <1>1, <1>3, <2>4, <2>5, AgreeLocal
<1>4. ASSUME NEW d \in Drifts, NEW c \in Captures \cup {None},
             c # None => Shows[c] = d,
             NEW sup \in Ids \cup {None}, Fetched(o, d, c, sup)
      PROVE  Agreed(g)'
  BY <1>2, <1>3, <1>4 DEF Fetched, Results
<1> QED BY <1>2, <1>4, RegistryAssumption DEF AddFetch, Results

LEMMA AgreeCapture ==
  ASSUME OverlapInv, NEW g, Agreed(g), NEW o \in Operators,
         AddArchive(o) \/ ArchiveCapture(o) \/ RepairRecheck(o)
  PROVE  Agreed(g)'
<1>1. /\ UNCHANGED <<files, torn, lost>> /\ TypeOK
      /\ pc[o] \in {"archive", "capture", "recheck"}
  BY DEF AddArchive, ArchiveCapture, RepairRecheck, Go, OverlapInv
<1>2. CASE \E r \in Results : Return(o, r)
  BY <1>1, <1>2, AgreeReturn
<1>3. ASSUME NEW q, NEW c \in Reproducing(draft[o].drift),
             \/ pc[o] = "archive" /\ q = "archived"
             \/ pc[o] \in {"capture", "recheck"} /\ q = "set_archive",
             pc' = [pc EXCEPT ![o] = q],
             draft' = [draft EXCEPT ![o].archive = c],
             UNCHANGED <<snap, id, result>>
      PROVE  Agreed(g)'
  <2> DEFINE rec == [draft[o] EXCEPT !.archive = c]
  <2>1. draft[o] \in Source
    BY <1>1 DEF OverlapInv, Typed
  <2>2. Reproduced(rec) /\ SamePin(rec, draft[o])
    BY <2>1 DEF Source, Reproduced, Reproducing, SamePin, Facts
  <2>3. draft' = [draft EXCEPT ![o] = rec]
    BY <1>3, <1>1 DEF TypeOK
  <2> HIDE DEF rec
  <2>4. pc'[o] = q /\ draft'[o] = rec /\ OthersKept(o)
    BY <1>1, <1>3, <2>3 DEF TypeOK, OthersKept
  <2>5. CallAgrees(o, g)'
    BY <1>1, <1>3, <2>2, <2>4
       DEF Agreed, CallAgrees, Adding, AddAgrees, AmendmentAgrees, SamePin,
           Names, Writing, Active
  <2> QED BY <1>1, <1>3, <2>4, <2>5, AgreeLocal
<1> QED BY <1>1, <1>2, <1>3
        DEF AddArchive, ArchiveCapture, RepairRecheck, Go, Results

LEMMA AgreeCheck ==
  ASSUME OverlapInv, NEW g, Agreed(g), NEW o \in Operators,
         NEW cited \in BOOLEAN, NEW n \in Notes \cup {None},
         AddCheck(o, cited, n)
  PROVE  Agreed(g)'
<1> DEFINE rec == [draft[o] EXCEPT !.cited = cited, !.notes = n]
<1>1. /\ UNCHANGED <<files, torn, lost>> /\ pc[o] \in {"check", "archived"}
      /\ TypeOK
  BY DEF AddCheck, OverlapInv
<1>2. CASE \E r \in Results : Return(o, r)
  BY <1>1, <1>2, AgreeReturn
<1>3. CASE /\ SourceInvariants(With(snap[o], id[o], rec))
           /\ pc' = [pc EXCEPT ![o] = "open"]
           /\ draft' = [draft EXCEPT ![o] = rec]
           /\ UNCHANGED <<snap, id, result>>
  <2>1. draft[o] \in Source /\ Reproduced(draft[o])
    BY <1>1 DEF OverlapInv, Typed, Agreed, CallAgrees
  <2>2. Reproduced(rec)
    BY <2>1 DEF Source, Reproduced
  <2> HIDE DEF rec
  <2>3. pc'[o] = "open" /\ draft'[o] = rec /\ OthersKept(o)
    BY <1>1, <1>3 DEF TypeOK, OthersKept
  <2>4. CallAgrees(o, g)'
    BY <1>1, <1>3, <2>2, <2>3
       DEF Agreed, CallAgrees, Adding, AddAgrees, Names, Writing
  <2> QED BY <1>1, <1>3, <2>3, <2>4, AgreeLocal
<1> QED BY <1>2, <1>3 DEF AddCheck, Results

\* The record an amendment reads again is the pin it loaded.
LEMMA AgreeAmend ==
  ASSUME OverlapInv, NEW g, Agreed(g), NEW o \in Operators,
         WriteArchives(o) \/ \E n \in Notes : NoteWrite(o, n)
  PROVE  Agreed(g)'
<1>1. /\ UNCHANGED <<files, torn, lost>> /\ TypeOK
      /\ pc[o] \in {"set_archive", "set_notes"}
  BY DEF WriteArchives, NoteWrite, OverlapInv
<1>2. CASE \E r \in Results : Return(o, r)
  BY <1>1, <1>2, AgreeReturn
<1>3. ASSUME NEW rec, id[o] \in DOMAIN files,
             \/ /\ rec = [files[id[o]] EXCEPT !.archive = draft[o].archive]
                /\ pc[o] = "set_archive"
             \/ \E n \in Notes : rec = [files[id[o]] EXCEPT !.notes = n],
             draft' = [draft EXCEPT ![o] = rec],
             pc' = [pc EXCEPT ![o] = "open"], UNCHANGED <<snap, id, result>>
      PROVE  Agreed(g)'
  <2> DEFINE old == files[id[o]]
  <2>1. old \in Source /\ draft[o] \in Source
    BY <1>1, <1>3 DEF TypeOK, IsRegister, OverlapInv, Typed
  <2>2. SamePin(rec, old)
    BY <1>3, <2>1 DEF Source, SamePin, Facts
  <2>3. /\ PartOf(snap[o], g) /\ AmendmentAgrees(o)
        /\ Reproduced(draft[o]) /\ Reproduced(old) /\ SamePin(old, g[id[o]])
    BY <1>1, <1>3 DEF Agreed, CallAgrees, ArchivesReproduce, PartOf, Adding,
       Active, Writing
  <2>4. /\ id[o] \in DOMAIN snap[o] /\ SamePin(rec, snap[o][id[o]])
        /\ old.drift = draft[o].drift
    BY <2>2, <2>3 DEF AmendmentAgrees, PartOf, SamePin, Facts
  <2>5. Reproduced(rec)
    BY <1>3, <2>1, <2>3, <2>4 DEF Source, Reproduced
  <2>6. pc'[o] = "open" /\ draft'[o] = rec /\ OthersKept(o)
    BY <1>1, <1>3 DEF TypeOK, OthersKept
  <2>7. CallAgrees(o, g)'
    BY <1>1, <1>3, <2>3, <2>4, <2>5, <2>6
       DEF CallAgrees, Adding, AmendmentAgrees, Writing
  <2> QED BY <1>1, <1>3, <2>6, <2>7, AgreeLocal
<1> QED BY <1>2, <1>3 DEF WriteArchives, NoteWrite, Amend, Results

LEMMA AgreeOpen ==
  ASSUME OverlapInv, OneAdd, NEW g, Agreed(g), NEW o \in Operators, Open(o)
  PROVE  Agreed(g)'
<1>1. /\ pc[o] = "open" /\ pc' = [pc EXCEPT ![o] = "flush"]
      /\ files' = Without(files, id[o]) /\ torn' = torn \cup {id[o]}
      /\ UNCHANGED <<lost, snap, id, draft, result>> /\ TypeOK
  BY DEF Open, Go, OverlapInv
<1>2. Names' = Names \cup {id[o]}
  BY OverlapOpen
<1>3. PartOf(files', g) /\ ArchivesReproduce'
  BY <1>1 DEF Agreed, PartOf, ArchivesReproduce, Without
<1>4. CallAgrees(o, g)'
  BY <1>1 DEF Agreed, CallAgrees, TypeOK, Adding, AddAgrees,
     AmendmentAgrees, Writing, Active
<1>5. ASSUME NEW p \in Operators, p # o PROVE CallAgrees(p, g)'
  <2>1. /\ pc'[p] = pc[p] /\ snap'[p] = snap[p] /\ id'[p] = id[p]
        /\ draft'[p] = draft[p] /\ CallAgrees(p, g)
    BY <1>1, <1>5 DEF TypeOK, Agreed
  <2>2. Adding(p) => Names' = Names
    <3>1. Adding(p) => ~Adding(o)
      BY <1>5 DEF OneAdd
    <3>2. ~Adding(o) => id[o] \in DOMAIN g
      BY <1>1 DEF Agreed, CallAgrees, AmendmentAgrees, PartOf, Active
    <3> QED BY <1>2, <3>1, <3>2 DEF Agreed
  <2> QED BY <1>1, <2>1, <2>2 DEF CallAgrees, Adding, AddAgrees,
          AmendmentAgrees, Active
<1> QED BY <1>2, <1>3, <1>4, <1>5 DEF Agreed

Extends(h, g) == PartOf(g, h)

\* A closed amendment is the pin that g holds.
LEMMA AgreeFlushAmendment ==
  ASSUME OverlapInv, NEW g, Agreed(g), NEW o \in Operators, Flush(o), ~Adding(o)
  PROVE  Agreed(g)'
<1>1. TypeOK /\ pc[o] \in {"flush", "overlay"} /\ Active(o)
  BY DEF Flush, OverlapInv, Active
<1>2. /\ id[o] \in DOMAIN g /\ SamePin(draft[o], g[id[o]])
      /\ Reproduced(draft[o])
  BY <1>1 DEF Agreed, CallAgrees, AmendmentAgrees, PartOf, SamePin
<1>3. /\ PartOf(files', g) /\ ArchivesReproduce'
      /\ torn \ {id[o]} \subseteq torn'
  BY <1>2 DEF Flush, With, Without, Agreed, PartOf, ArchivesReproduce
<1>4. Names' = Names
  BY OverlapFlush
<1>5. /\ pc'[o] = "idle" /\ snap'[o] = [i \in {} |-> None]
      /\ \A p \in Operators \ {o} :
           /\ pc'[p] = pc[p]
              \/ (pc[p] = "flush" /\ pc'[p] = "overlay" /\ id[p] = id[o])
           /\ snap'[p] = snap[p] /\ id'[p] = id[p] /\ draft'[p] = draft[p]
  BY <1>1 DEF Flush, TypeOK
<1>6. ASSUME NEW p \in Operators PROVE CallAgrees(p, g)'
  <2>1. CASE p = o
    BY <1>5, <2>1 DEF CallAgrees, PartOf, Adding, Active, Writing
  <2>2. CASE p # o
    <3>1. CallAgrees(p, g)
      BY DEF Agreed
    <3>2. Adding(p) /\ pc[p] \in Writing => id[p] # id[o]
      BY <1>2, <3>1 DEF CallAgrees, AddAgrees, Adding, Writing
    <3> QED BY <1>3, <1>4, <1>5, <2>2, <3>1, <3>2
            DEF CallAgrees, Adding, AddAgrees, AmendmentAgrees, Active, Writing
  <2> QED BY <2>1, <2>2
<1> QED BY <1>3, <1>4, <1>6 DEF Agreed

\* A closed add is one more pin of g: it was checked against all the others.
LEMMA AgreeFlushAdd ==
  ASSUME OverlapInv, OneAdd, NEW g, Agreed(g), NEW o \in Operators, Flush(o),
         Adding(o), NEW h, h = With(g, id[o], draft[o])
  PROVE  Agreed(h)' /\ Extends(h, g)
<1>1. TypeOK /\ pc[o] = "flush" /\ Typed(o) /\ Recoverable(o) /\ CallAgrees(o, g)
  BY DEF Flush, OverlapInv, Agreed, CallAgrees, AddAgrees
<1>2. /\ DOMAIN snap[o] = DOMAIN g /\ id[o] \notin DOMAIN g
      /\ SourceInvariants(With(snap[o], id[o], draft[o]))
      /\ id[o] \in Ids /\ draft[o] \in Source /\ Reproduced(draft[o])
  BY <1>1 DEF CallAgrees, AddAgrees, Adding, Typed, Writing
<1>3. IsRegister(g) /\ CitedHasArchive(g) /\ \A i \in DOMAIN g : Reproduced(g[i])
  BY DEF Agreed, Sound, SourceInvariants
<1>4. /\ DOMAIN h = DOMAIN g \cup {id[o]} /\ h[id[o]] = draft[o]
      /\ \A i \in DOMAIN g : h[i] = g[i]
  BY <1>2 DEF With
<1>5. Extends(h, g)
  BY <1>4 DEF Extends, PartOf, SamePin
<1>6. Sound(h)
  <2> DEFINE s == With(snap[o], id[o], draft[o])
  <2>1. IsRegister(h)
    BY <1>2, <1>3 DEF IsRegister, With
  <2>2. \A i \in DOMAIN h : Reproduced(h[i])
    BY <1>2, <1>3, <1>4
  <2>3. CitedHasArchive(h)
    BY <1>1, <1>3, <1>4 DEF CitedHasArchive, Recoverable, Writing
  <2>4. DOMAIN s = DOMAIN h /\ \A i \in DOMAIN s : SamePin(h[i], s[i])
    BY <1>1, <1>2, <1>4 DEF CallAgrees, PartOf, SamePin, With
  <2>5. SourceInvariants(s)
    BY <1>2
  <2> HIDE DEF s
  <2>6. SourceInvariants(h)
    BY <2>3, <2>4, <2>5, SamePinsSameRules
  <2> QED BY <2>1, <2>2, <2>6 DEF Sound
<1>7. files' = With(files, id[o], draft[o])
  BY <1>1 DEF Flush
<1>8. PartOf(files', h) /\ ArchivesReproduce'
  BY <1>2, <1>4, <1>7
     DEF Agreed, PartOf, With, ArchivesReproduce, SamePin
<1>9. Names' = Names /\ DOMAIN h \subseteq Names'
  BY <1>1, <1>4, OverlapFlush DEF Agreed, OverlapInv, Named
<1>10. /\ pc'[o] = "idle" /\ snap'[o] = [i \in {} |-> None]
       /\ \A p \in Operators \ {o} :
            /\ pc'[p] = pc[p] \/ (pc[p] = "flush" /\ pc'[p] = "overlay")
            /\ snap'[p] = snap[p] /\ id'[p] = id[p] /\ draft'[p] = draft[p]
  BY <1>1 DEF Flush, TypeOK
<1>11. ASSUME NEW p \in Operators PROVE CallAgrees(p, h)'
  <2>1. CASE p = o
    BY <1>10, <2>1 DEF CallAgrees, PartOf, Adding, Active, Writing
  <2>2. CASE p # o
    <3>1. CallAgrees(p, g) /\ ~Adding(p)
      BY <2>2 DEF Agreed, OneAdd
    <3>2. PartOf(snap[p], h)
      BY <1>4, <3>1 DEF CallAgrees, PartOf
    <3> QED BY <1>10, <2>2, <3>1, <3>2
            DEF CallAgrees, Adding, AmendmentAgrees, Active, Writing
  <2> QED BY <2>1, <2>2
<1> QED BY <1>5, <1>6, <1>8, <1>9, <1>11 DEF Agreed

LEMMA AgreeInit == Init => Agreed([i \in {} |-> None])
<1> SUFFICES ASSUME Init PROVE Agreed([i \in {} |-> None])
  OBVIOUS
<1>1. /\ DOMAIN files = {} /\ \A o \in Operators : pc[o] = "idle"
      /\ \A o \in Operators : snap[o] = files
  BY DEF Init
<1> QED BY <1>1, EmptyRegister DEF Agreed, PartOf, ArchivesReproduce,
        CallAgrees, Adding, Active, Writing

LEMMA AgreeStep ==
  ASSUME OverlapInv, OneAdd, [ConcurrentNext]_vars, NEW g, Agreed(g)
  PROVE  \E h : Agreed(h)' /\ Extends(h, g)
<1>1. Extends(g, g)
  BY DEF Extends, PartOf, SamePin
<1>2. CASE UNCHANGED vars \/ \E c \in Captures : Lose(c)
  <2>1. UNCHANGED <<files, torn, pc, snap, id, draft>>
    BY <1>2 DEF vars, Lose
  <2>2. Agreed(g)'
    BY <2>1 DEF Agreed, Names, ArchivesReproduce, CallAgrees, Adding,
       AddAgrees, AmendmentAgrees, Active
  <2> QED BY <1>1, <2>2
<1>3. ASSUME NEW o \in Operators, Start(o) PROVE Agreed(g)'
  BY <1>3, AgreeAddLoad, AgreeAmendLoad DEF Start
<1>4. ASSUME NEW o \in Operators, Step(o), ~Flush(o) PROVE Agreed(g)'
  BY <1>4, AgreeMint, AgreeExists, AgreeFetch, AgreeCapture, AgreeCheck, AgreeAmend,
     AgreeOpen DEF Step
<1>5. ASSUME NEW o \in Operators, Flush(o)
      PROVE  \E h : Agreed(h)' /\ Extends(h, g)
  <2>1. CASE Adding(o)
    <3>1. PICK h : h = With(g, id[o], draft[o])
      OBVIOUS
    <3>2. Agreed(h)' /\ Extends(h, g)
      BY <1>5, <2>1, <3>1, AgreeFlushAdd
    <3> QED BY <3>2
  <2>2. CASE ~Adding(o)
    BY <1>1, <1>5, <2>2, AgreeFlushAmendment
  <2> QED BY <2>1, <2>2
<1>6. ASSUME NEW o \in Operators, KilledElsewhere(o) \/ KilledMidWrite(o)
      PROVE  Agreed(g)'
  BY <1>6, AgreeReturn DEF KilledElsewhere, KilledMidWrite, Crash, Results
<1>7. CASE \E o \in Operators : Start(o) \/ (Step(o) /\ ~Flush(o))
             \/ KilledElsewhere(o) \/ KilledMidWrite(o)
  <2>1. Agreed(g)'
    BY <1>7, <1>3, <1>4, <1>6
  <2> QED BY <1>1, <2>1
<1> QED BY <1>2, <1>5, <1>7 DEF ConcurrentNext

Agree == \E g : Agreed(g)

LEMMA AgreeInductive == ConcurrentSpec /\ []OneAdd => [](OverlapInv /\ Agree)
<1>1. Init => Agree
  BY AgreeInit DEF Agree
<1>2. OverlapInv /\ OneAdd /\ Agree /\ [ConcurrentNext]_vars => Agree'
  BY AgreeStep DEF Agree
<1> QED BY <1>1, <1>2, OverlapInductive, PTL DEF ConcurrentSpec

\* While no two adds overlap, the directory loads whenever no file is being
\* written or was left half written: amendments may race and calls be killed.
THEOREM OneAddKeepsTheRules ==
  ConcurrentSpec /\ []OneAdd => [](torn = {} => Loads)
<1>1. OverlapInv /\ Agree => (torn = {} => Loads)
  BY AllFilesRead DEF Agree, Loads
<1> QED BY <1>1, AgreeInductive, PTL

\* While no two adds overlap, an archive copy reads as its pin's drift value,
\* although a racing amendment sets it on whatever the file holds by then.
THEOREM OneAddKeepsArchives ==
  ConcurrentSpec /\ []OneAdd => []ArchivesReproduce
<1>1. Agree => ArchivesReproduce
  BY DEF Agree, Agreed
<1> QED BY <1>1, AgreeInductive, PTL

\* While no two adds overlap, the name an add is about to take is free and
\* an amendment is about to write the pin it loaded.
THEOREM OneAddOverwritesNothing ==
  ConcurrentSpec /\ []OneAdd =>
    [](\A o \in Operators : pc[o] = "open" =>
         \/ Adding(o) /\ id[o] \notin Names
         \/ id[o] \in DOMAIN snap[o] /\ SamePin(draft[o], snap[o][id[o]]))
<1> DEFINE Kept == \A o \in Operators : pc[o] = "open" =>
         \/ Adding(o) /\ id[o] \notin Names
         \/ id[o] \in DOMAIN snap[o] /\ SamePin(draft[o], snap[o][id[o]])
<1>1. Agree => Kept
  BY DEF Agree, Agreed, CallAgrees, AddAgrees, AmendmentAgrees, Active
<1> HIDE DEF Kept
<1>2. ConcurrentSpec /\ []OneAdd => []Kept
  BY <1>1, AgreeInductive, PTL
<1> QED BY <1>2 DEF Kept

\* The facts the file of i states are f.
States(i, f) == i \in DOMAIN files /\ Facts(files[i]) = f

\* While no two adds overlap, an id means one pin for ever: whenever its file
\* can be read again, through any number of rewrites and kills, it states the
\* document, the citation and the chain it stated first.
THEOREM OneAddKeepsMeanings ==
  ASSUME NEW i, NEW f
  PROVE  ConcurrentSpec /\ []OneAdd =>
           [](States(i, f) => [](i \in DOMAIN files => States(i, f)))
<1> DEFINE Means == \E g : Agreed(g) /\ i \in DOMAIN g /\ Facts(g[i]) = f
<1>1. Agree /\ States(i, f) => Means
  BY DEF Agree, Agreed, PartOf, SamePin, States
<1>2. Means => (i \in DOMAIN files => States(i, f))
  BY DEF Agreed, PartOf, SamePin, States
<1>3. OverlapInv /\ OneAdd /\ Means /\ [ConcurrentNext]_vars => Means'
  <2> SUFFICES ASSUME OverlapInv, OneAdd, [ConcurrentNext]_vars,
                      NEW g, Agreed(g), i \in DOMAIN g, Facts(g[i]) = f
               PROVE  Means'
    OBVIOUS
  <2>1. PICK h : Agreed(h)' /\ Extends(h, g)
    BY AgreeStep
  <2>2. i \in DOMAIN h /\ Facts(h[i]) = f
    BY <2>1 DEF Extends, PartOf, SamePin
  <2> QED BY <2>1, <2>2
<1> HIDE DEF Means
<1> QED BY <1>1, <1>2, <1>3, AgreeInductive, PTL DEF ConcurrentSpec
=============================================================================
