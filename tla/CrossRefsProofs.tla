--------------------------- MODULE CrossRefsProofs ---------------------------
(***************************************************************************)
(* Proofs about CrossRefs.  The invariant keeps what each answer rested    *)
(* on: a commit the hook let pass, the references and roots it read; a     *)
(* job that answered, its checkouts, which are those of the run for as     *)
(* long as the run has an answer.                                          *)
(***************************************************************************)
EXTENDS CrossRefs, TLAPS

Evidence ==
  /\ commit # None /\ commit.tree # None =>
       CheckRefs(commit.tree, commit.copies) = {}
  /\ run # None =>
       /\ run.result["refs"] = "pass" =>
            /\ \A r \in Registers : run.got["refs"][r] # None
            /\ CheckRefs(commit.refs, Checkout("refs")) = {}
       /\ run.result["refs"] = "dangling" =>
            /\ \A r \in Registers : run.got["refs"][r] # None
            /\ CheckRefs(commit.refs, Checkout("refs")) # {}
       /\ run.result["join"] = "pass" =>
            /\ \A r \in Registers : run.got["join"][r] # None
            /\ Loads(commit.refs)

IInv == TypeOK /\ Evidence

(***************************************************************************)
(* Type correctness.                                                       *)
(***************************************************************************)
\* A file rewritten or removed leaves one file of a name.
LEMMA RewritesAreCheckouts ==
  ASSUME NEW r \in Registers, NEW f \in Files(r),
         NEW files \in Checkouts(r), NEW new \in Rewrites(files, f)
  PROVE  new \in Checkouts(r)
<1>1. new \in SUBSET Files(r)
  BY DEF Checkouts, Rewrites, Without
<1>2. ASSUME NEW g \in new, NEW h \in new, g.dir = h.dir, g.id = h.id
      PROVE  g = h
  BY <1>2 DEF Checkouts, Rewrites, Without
<1> QED
  BY <1>1, <1>2 DEF Checkouts

\* A register's checkouts are files.
LEMMA CheckoutsAreFiles ==
  ASSUME NEW r \in Registers
  PROVE  Checkouts(r) \subseteq SUBSET AllFiles
BY DEF Checkouts, AllFiles

LEMMA InitTypeOK == Init => TypeOK
<1> SUFFICES ASSUME Init PROVE TypeOK
  OBVIOUS
<1>1. PICK o \in Officials, p \in Persons,
           missing \in {None} \cup UNION {Files(r) : r \in Registers} :
        main = [r \in Registers |->
                  {f \in Files(r) \ {missing} :
                     f.names = IF f.dir = "conflicts" THEN o
                               ELSE IF f.dir = "filings" THEN p
                               ELSE None}]
  BY DEF Init
<1>2. ASSUME NEW r \in Registers PROVE main[r] \in Checkouts(r)
  <2>1. main[r] \in SUBSET Files(r)
    BY <1>1
  <2>2. ASSUME NEW f \in main[r], NEW g \in main[r], f.dir = g.dir, f.id = g.id
        PROVE  f = g
    <3>1. f.names = g.names
      BY <1>1, <2>2
    <3>2. f \in Files(r) /\ g \in Files(r)
      BY <2>1, <2>2
    <3> QED
      BY <2>2, <3>1, <3>2 DEF Files, File, Registers
  <2> QED
    BY <2>1, <2>2 DEF Checkouts
<1>3. main \in [Registers -> SUBSET AllFiles]
  BY <1>1, <1>2, CheckoutsAreFiles
<1>4. /\ copy \in [Registers -> (SUBSET AllFiles) \cup {None}]
      /\ \A r \in Registers : copy[r] \in Checkouts(r) \cup {None}
  BY <1>2, <1>3 DEF Init
<1>5. {data, index} \subseteq Held
  BY DEF Init, Held
<1>6. edits \in 0 .. MaxEdits
  BY CrossRefsAssumption DEF Init
<1> QED
  BY <1>2, <1>3, <1>4, <1>5, <1>6 DEF Init, TypeOK

LEMMA NextTypeOK == TypeOK /\ [Next]_vars => TypeOK'
<1> SUFFICES ASSUME TypeOK, [Next]_vars PROVE TypeOK'
  OBVIOUS
<1> USE DEF TypeOK
<1>1. CASE UNCHANGED vars
  BY <1>1 DEF vars
<1>2. ASSUME NEW r \in Registers, NEW f \in Files(r), EditMain(r, f)
      PROVE  TypeOK'
  <2>1. PICK files \in Rewrites(main[r], f) : main' = [main EXCEPT ![r] = files]
    BY <1>2 DEF EditMain
  <2>2. files \in Checkouts(r)
    BY <1>2, <2>1, RewritesAreCheckouts
  <2>3. files \in SUBSET AllFiles
    BY <2>2, CheckoutsAreFiles
  <2>4. edits' \in 0 .. MaxEdits
    BY <1>2, CrossRefsAssumption DEF EditMain, Edit
  <2> QED
    BY <1>2, <2>1, <2>2, <2>3, <2>4 DEF EditMain
<1>3. ASSUME NEW r \in Registers, NEW f \in Files(r), EditCopy(r, f)
      PROVE  TypeOK'
  <2>1. PICK files \in Rewrites(copy[r], f) : copy' = [copy EXCEPT ![r] = files]
    BY <1>3 DEF EditCopy
  <2>2. files \in Checkouts(r)
    <3>1. copy[r] \in Checkouts(r)
      BY <1>3 DEF EditCopy
    <3> QED
      BY <1>3, <2>1, <3>1, RewritesAreCheckouts
  <2>3. files \in SUBSET AllFiles
    BY <2>2, CheckoutsAreFiles
  <2>4. edits' \in 0 .. MaxEdits
    BY <1>3, CrossRefsAssumption DEF EditCopy, Edit
  <2> QED
    BY <1>3, <2>1, <2>2, <2>3, <2>4 DEF EditCopy
<1>4. ASSUME NEW r \in Registers, RemoveCopy(r)
      PROVE  TypeOK'
  <2>1. edits' \in 0 .. MaxEdits
    BY <1>4, CrossRefsAssumption DEF RemoveCopy, Edit
  <2> QED
    BY <1>4, <2>1 DEF RemoveCopy
<1>5. ASSUME NEW r \in Registers, Pull(r)
      PROVE  TypeOK'
  BY <1>5 DEF Pull
<1>6. ASSUME NEW x \in Nodes \cup Sources, NEW ref \in Holdable(x), EditRefs(x, ref)
      PROVE  TypeOK'
  <2>1. edits' \in 0 .. MaxEdits
    BY <1>6, CrossRefsAssumption DEF EditRefs, Edit
  <2>2. ref \in Refs
    BY <1>6 DEF Holdable, Refs
  <2>3. data' \in Held
    BY <1>6, <2>2 DEF EditRefs, Held
  <2> QED
    BY <1>6, <2>1, <2>3 DEF EditRefs
<1>7. CASE Stage
  BY <1>7 DEF Stage
<1>8. ASSUME NEW hooked \in BOOLEAN, Commit(hooked)
      PROVE  TypeOK'
  <2>1. commit' \in [refs: Held, tree: Held \cup {None},
                     copies: [Registers -> (SUBSET AllFiles) \cup {None}] \cup {None}]
    BY <1>8 DEF Commit
  <2> QED
    BY <1>8, <2>1 DEF Commit
<1>9. CASE Start
  BY <1>9 DEF Start
<1>10. ASSUME NEW j \in Jobs, FetchFails(j)
       PROVE  TypeOK'
  BY <1>10 DEF FetchFails, Results
<1>11. ASSUME NEW j \in Jobs, Finish(j)
       PROVE  TypeOK'
  <2>1. XrefCI(commit.refs, Checkout(j)) \in Results
    BY DEF XrefCI, Results
  <2> QED
    BY <1>11, <2>1 DEF Finish, Results
<1>12. ASSUME NEW j \in Jobs, NEW r \in Registers, Fetch(j, r)
       PROVE  TypeOK'
  BY <1>12 DEF Fetch
<1> QED
  BY <1>1, <1>2, <1>3, <1>4, <1>5, <1>6, <1>7, <1>8, <1>9, <1>10, <1>11, <1>12
  DEF Next

(***************************************************************************)
(* What each answer rested on.                                             *)
(***************************************************************************)
LEMMA InitEvidence == Init => Evidence
BY DEF Init, Evidence

\* A checkout is None only before it is fetched.
LEMMA CheckoutsAreNotNone ==
  ASSUME TypeOK, run # None, NEW j \in Jobs, NEW r \in Registers,
         run.got[j][r] # None
  PROVE  Checkout(j)[r] # None
<1>1. run.got[j][r] \in SUBSET AllFiles
  BY DEF TypeOK
<1>2. Checkout(j)[r] = {f \in run.got[j][r] : f.dir \in Sparse(j)}
  BY DEF Checkout
<1>3. Checkout(j)[r] \in SUBSET AllFiles
  BY <1>1, <1>2
<1> QED
  BY <1>3, CrossRefsAssumption

LEMMA NextEvidence == TypeOK /\ Evidence /\ [Next]_vars => Evidence'
<1> SUFFICES ASSUME TypeOK, Evidence, [Next]_vars PROVE Evidence'
  OBVIOUS
<1>1. CASE UNCHANGED <<commit, run>>
  BY <1>1 DEF Evidence, Checkout
<1>2. ASSUME NEW hooked \in BOOLEAN, Commit(hooked)
      PROVE  Evidence'
  <2>1. run' = None
    BY <1>2 DEF Commit
  <2>2. CASE hooked
    BY <1>2, <2>1, <2>2 DEF Commit, HookPasses, Evidence
  <2>3. CASE ~hooked
    BY <1>2, <2>1, <2>3 DEF Commit, Evidence
  <2> QED
    BY <2>2, <2>3
<1>3. CASE Start
  <2>1. /\ commit' = commit
        /\ run'.result = [j \in Jobs |-> None]
    BY <1>3 DEF Start
  <2>2. run'.result["refs"] = None /\ run'.result["join"] = None
    BY <2>1 DEF Jobs
  <2> QED
    BY <2>1, <2>2, CrossRefsAssumption DEF Evidence, Results
<1>4. ASSUME NEW j \in Jobs, NEW r \in Registers, Fetch(j, r)
      PROVE  Evidence'
  <2>1. /\ commit' = commit
        /\ run # None /\ run.result[j] = None
        /\ run' = [run EXCEPT !.got[j][r] = main[r]]
    BY <1>4 DEF Fetch
  <2>2. /\ run'.result = run.result
        /\ \A i \in Jobs : i # j => run'.got[i] = run.got[i]
    BY <2>1 DEF TypeOK
  <2>3. \A i \in Jobs : i # j => Checkout(i)' = Checkout(i)
    BY <2>2 DEF Checkout
  <2>4. None \notin Results
    BY CrossRefsAssumption
  <2>5. CASE j = "refs"
    BY <2>1, <2>2, <2>3, <2>4, <2>5 DEF Evidence, Jobs, Results
  <2>6. CASE j = "join"
    BY <2>1, <2>2, <2>3, <2>4, <2>6 DEF Evidence, Jobs, Results
  <2> QED
    BY <2>5, <2>6 DEF Jobs
<1>5. ASSUME NEW j \in Jobs, FetchFails(j)
      PROVE  Evidence'
  <2>1. /\ commit' = commit
        /\ run # None
        /\ run'.got = run.got
        /\ run'.result[j] = "no checkout"
        /\ \A i \in Jobs : i # j => run'.result[i] = run.result[i]
    BY <1>5 DEF FetchFails, TypeOK
  <2>2. \A i \in Jobs : Checkout(i)' = Checkout(i)
    BY <2>1 DEF Checkout
  <2> QED
    BY <2>1, <2>2 DEF Evidence, Jobs
<1>6. ASSUME NEW j \in Jobs, Finish(j)
      PROVE  Evidence'
  <2>1. /\ commit' = commit
        /\ run # None
        /\ run'.got = run.got
        /\ \A r \in Registers : run.got[j][r] # None
        /\ run'.result[j] = IF j = "refs" THEN XrefCI(commit.refs, Checkout(j))
                            ELSE IF Loads(commit.refs) THEN "pass" ELSE "raises"
        /\ \A i \in Jobs : i # j => run'.result[i] = run.result[i]
    BY <1>6 DEF Finish, TypeOK
  <2>2. \A i \in Jobs : Checkout(i)' = Checkout(i)
    BY <2>1 DEF Checkout
  <2>3. CASE j = "refs"
    <3>1. /\ run'.result["refs"] = "pass" => CheckRefs(commit.refs, Checkout("refs")) = {}
          /\ run'.result["refs"] = "dangling" =>
               CheckRefs(commit.refs, Checkout("refs")) # {}
      BY <2>1, <2>3 DEF XrefCI
    <3> QED
      BY <2>1, <2>2, <2>3, <3>1 DEF Evidence, Jobs
  <2>4. CASE j = "join"
    BY <2>1, <2>2, <2>4 DEF Evidence, Jobs
  <2> QED
    BY <2>3, <2>4 DEF Jobs
<1>7. CASE UNCHANGED vars
  BY <1>1, <1>7 DEF vars
<1>8. ASSUME NEW r \in Registers, NEW f \in Files(r), EditMain(r, f) \/ EditCopy(r, f)
      PROVE  Evidence'
  BY <1>1, <1>8 DEF EditMain, EditCopy
<1>9. ASSUME NEW r \in Registers, RemoveCopy(r) \/ Pull(r)
      PROVE  Evidence'
  BY <1>1, <1>9 DEF RemoveCopy, Pull
<1>10. ASSUME NEW x \in Nodes \cup Sources, NEW ref \in Holdable(x), EditRefs(x, ref)
       PROVE  Evidence'
  BY <1>1, <1>10 DEF EditRefs
<1>11. CASE Stage
  BY <1>1, <1>11 DEF Stage
<1> QED
  BY <1>2, <1>3, <1>4, <1>5, <1>6, <1>7, <1>8, <1>9, <1>10, <1>11 DEF Next

\* Every variable keeps its type, each register and each working copy holds
\* one file of a name, and every answer its evidence.
LEMMA Invariance == Spec => []IInv
<1>1. Init => IInv
  BY InitTypeOK, InitEvidence DEF IInv
<1>2. IInv /\ [Next]_vars => IInv'
  BY NextTypeOK, NextEvidence DEF IInv
<1> QED
  BY <1>1, <1>2, PTL DEF Spec

\* For any registers, nodes, copies and number of edits, every variable keeps
\* its type and a checkout holds one file of a name.
THEOREM TypeCorrect == Spec => []TypeOK
<1>1. IInv => TypeOK
  BY DEF IInv
<1> QED
  BY <1>1, Invariance, PTL

(***************************************************************************)
(* One conflict, one node.                                                 *)
(***************************************************************************)
LEMMA SectionsOfOneNode ==
  ASSUME TypeOK, NEW roots \in {main, copy},
         NEW m \in Nodes, NEW n \in Nodes, m # n,
         Join(m, data, roots) # None, Join(n, data, roots) # None,
         NEW a \in data[m], NEW b \in data[n],
         a.register = "vi", b.register = "vi"
  PROVE  Join(m, data, roots)[a].with \cap Join(n, data, roots)[b].with = {}
<1>1. /\ Loads(data)
      /\ roots["vi"] # None
      /\ Join(m, data, roots)[a] = Section(a, roots["vi"])
      /\ Join(n, data, roots)[b] = Section(b, roots["vi"])
  BY DEF Join
<1>2. roots["vi"] \in Checkouts("vi")
  BY <1>1 DEF TypeOK, Registers
<1>3. /\ Join(m, data, roots)[a].with = CountedConflicts(a.local_id, roots["vi"])
      /\ Join(n, data, roots)[b].with = CountedConflicts(b.local_id, roots["vi"])
  BY <1>1 DEF Section, VISection
<1>4. ASSUME NEW c \in CountedConflicts(a.local_id, roots["vi"]),
             c \in CountedConflicts(b.local_id, roots["vi"])
      PROVE  FALSE
  <2>1. PICK f \in roots["vi"] : /\ f.dir = "conflicts" /\ f.names = a.local_id
                                 /\ c.conflict = f.id
    BY <1>4 DEF CountedConflicts
  <2>2. PICK g \in roots["vi"] : /\ g.dir = "conflicts" /\ g.names = b.local_id
                                 /\ c.conflict = g.id
    BY <1>4 DEF CountedConflicts
  <2>3. f = g
    BY <1>2, <2>1, <2>2 DEF Checkouts
  <2> QED
    BY <1>1, <2>1, <2>2, <2>3 DEF Loads
<1> QED
  BY <1>3, <1>4

\* Whatever the nodes, the conflicts and the checkouts, no two nodes that load
\* list one conflict: an official's id stands on one node, and a conflict
\* names one official.
THEOREM ConflictsCountOnce == Spec => []NoConflictIsCountedTwice
<1>1. TypeOK => NoConflictIsCountedTwice
  BY SectionsOfOneNode DEF NoConflictIsCountedTwice
<1>2. IInv => NoConflictIsCountedTwice
  BY <1>1 DEF IInv
<1> QED
  BY <1>2, Invariance, PTL

(***************************************************************************)
(* The hook and the existence check.                                       *)
(***************************************************************************)
\* The existence check's checkouts hold every directory the rules name.
LEMMA CheckoutsSuffice ==
  ASSUME TypeOK, run # None, NEW ref \in Refs,
         NEW r \in Registers, run.got["refs"][r] # None,
         NEW f \in run.got["refs"][r], Bears(f, ref)
  PROVE  f \in Checkout("refs")[r]
<1>1. Checkout("refs")[r] = {g \in run.got["refs"][r] : g.dir \in Sparse("refs")}
  BY DEF Checkout
<1>2. f.dir \in {"officials", "recipients", "conflicts", "persons", "entities",
                "filings", "records"}
  BY DEF Bears, DirsOf
<1> QED
  BY <1>1, <1>2 DEF Sparse

LEMMA RefsHaveRegisters == \A ref \in Refs : ref.register \in Registers
BY DEF Refs, Identities, Mentions, Ref, Registers

\* For any registers and commits, a check that goes red after the hook has
\* let the commit pass has one of the three causes.
THEOREM RedHasACause == Spec => []RedAfterTheHookHasACause
<1>1. ASSUME IInv, run # None, run.result["refs"] = "dangling", commit.tree # None
      PROVE  \E x \in Nodes \cup Sources : \E ref \in commit.refs[x] :
               LET r == ref.register
               IN /\ ~ResolveRef(ref, run.got["refs"][r])
                  /\ \/ ref \notin commit.tree[x]
                     \/ commit.copies[r] = None
                     \/ \E f \in commit.copies[r] \ run.got["refs"][r] : Bears(f, ref)
  <2>1. /\ commit # None
        /\ CheckRefs(commit.refs, Checkout("refs")) # {}
        /\ \A r \in Registers : run.got["refs"][r] # None
    BY <1>1 DEF IInv, Evidence, TypeOK
  <2>2. PICK x \in Nodes \cup Sources, ref \in Refs :
          ref \in commit.refs[x] /\ Dangling(ref, Checkout("refs"))
    BY <2>1 DEF CheckRefs
  <2>3. ref.register \in Registers
    BY <2>2, RefsHaveRegisters
  <2>4. ~ResolveRef(ref, run.got["refs"][ref.register])
    BY <1>1, <2>1, <2>2, <2>3, CheckoutsSuffice DEF IInv, Dangling, ResolveRef
  <2>5. CheckRefs(commit.tree, commit.copies) = {}
    BY <1>1, <2>1 DEF IInv, Evidence
  <2>6. ASSUME ref \in commit.tree[x], commit.copies[ref.register] # None
        PROVE  \E f \in commit.copies[ref.register] \ run.got["refs"][ref.register] :
                 Bears(f, ref)
    <3>1. ~Dangling(ref, commit.copies)
      <4>1. <<x, ref>> \in (Nodes \cup Sources) \X Refs
        BY <2>2
      <4>2. <<x, ref>>[1] = x /\ <<x, ref>>[2] = ref
        OBVIOUS
      <4>3. <<x, ref>> \notin CheckRefs(commit.tree, commit.copies)
        BY <2>5
      <4> QED
        BY <2>6, <4>1, <4>2, <4>3 DEF CheckRefs
    <3>2. PICK f \in commit.copies[ref.register] : Bears(f, ref)
      BY <2>6, <3>1 DEF Dangling, ResolveRef
    <3> QED
      BY <2>4, <3>2 DEF ResolveRef
  <2> QED
    BY <2>2, <2>4, <2>6
<1>2. IInv => RedAfterTheHookHasACause
  BY <1>1 DEF RedAfterTheHookHasACause
<1> QED
  BY <1>2, Invariance, PTL

(***************************************************************************)
(* The existence check and the join.                                       *)
(***************************************************************************)
\* The join's checkouts hold what the vi, person, filing and record sections
\* are read from.
LEMMA JoinReadsAll ==
  ASSUME TypeOK, run # None, NEW r \in Registers, run.got["join"][r] # None,
         NEW dir \in {"conflicts", "recipients", "holdings", "persons", "filings",
                      "records"}
  PROVE  {f \in Checkout("join")[r] : f.dir = dir} =
           {f \in run.got["join"][r] : f.dir = dir}
<1>1. Checkout("join")[r] = {g \in run.got["join"][r] : g.dir \in Sparse("join")}
  BY DEF Checkout
<1>2. dir \in Sparse("join")
  BY DEF Sparse
<1> QED
  BY <1>1, <1>2

\* Sections are read alike from two roots that agree on those directories.
LEMMA SectionsAreAlike ==
  ASSUME NEW ref \in Refs, ref.local_id \notin Entities, NEW S, NEW T,
         \A dir \in {"conflicts", "recipients", "holdings", "persons", "filings",
                    "records"} :
           {f \in S : f.dir = dir} = {f \in T : f.dir = dir}
  PROVE  Section(ref, S) = Section(ref, T)
<1>1. \A dir \in {"conflicts", "recipients", "holdings", "persons", "filings",
                   "records"} :
        \A f : f.dir = dir => (f \in S <=> f \in T)
  <2> SUFFICES ASSUME NEW dir \in {"conflicts", "recipients", "holdings", "persons",
                                   "filings", "records"},
                      NEW f, f.dir = dir
               PROVE  f \in S <=> f \in T
    OBVIOUS
  <2>1. {g \in S : g.dir = dir} = {g \in T : g.dir = dir}
    OBVIOUS
  <2>2. f \in {g \in S : g.dir = dir} <=> f \in {g \in T : g.dir = dir}
    BY <2>1
  <2> QED
    BY <2>2
<1>2. CASE ref.register = "vi"
  <2>1. {g \in S : g.dir = "conflicts" /\ g.names = ref.local_id} =
          {g \in T : g.dir = "conflicts" /\ g.names = ref.local_id}
    BY <1>1
  <2>2. \A f : (\E h \in S : h.dir = "holdings" /\ h.id = f.id) <=>
               (\E h \in T : h.dir = "holdings" /\ h.id = f.id)
    BY <1>1
  <2>3. \A id : (\E h \in S : h.dir = "recipients" /\ h.id = id) <=>
                (\E h \in T : h.dir = "recipients" /\ h.id = id)
    BY <1>1
  <2>4. CountedConflicts(ref.local_id, S) = CountedConflicts(ref.local_id, T)
    BY <2>1, <2>2, <2>3 DEF CountedConflicts
  <2> QED
    BY <1>2, <2>4 DEF Section, VISection
<1>3. CASE ref.register = "cp"
  <2>1. Reads("filings", ref, S) = Reads("filings", ref, T)
    BY <1>1 DEF Reads
  <2>2. Reads("persons", ref, S) = Reads("persons", ref, T)
    BY <1>1 DEF Reads
  <2>3. {g \in S : g.dir = "filings" /\ g.names = ref.local_id} =
          {g \in T : g.dir = "filings" /\ g.names = ref.local_id}
    BY <1>1
  <2>4. ref.ref_type = "record_mention" \/ ref.local_id \in Persons
    BY <1>3 DEF Refs, Identities, Mentions, Ref
  <2> QED
    <3>1. CPSection(ref, S) = CPSection(ref, T)
      BY <2>1, <2>2, <2>3, <2>4 DEF CPSection
    <3> QED
      BY <1>3, <3>1 DEF Section
<1>4. CASE ref.register = "sovereign"
  <2>1. Reads("records", ref, S) = Reads("records", ref, T)
    BY <1>1 DEF Reads
  <2>2. SovereignSection(ref, S) = SovereignSection(ref, T)
    BY <2>1 DEF SovereignSection
  <2> QED
    BY <1>4, <2>2 DEF Section
<1> QED
  BY <1>2, <1>3, <1>4, RefsHaveRegisters DEF Registers

\* A file of an identity's directories that bears a person's id is a person's.
LEMMA PersonsArePersons ==
  ASSUME NEW ref \in Refs, ref.local_id \in Persons,
         NEW f \in AllFiles, f.dir \in {"persons", "entities"}, f.id = ref.local_id
  PROVE  f.dir = "persons"
<1>1. f.dir = "entities" => f.id \in Entities
  <2>1. PICK r \in Registers : f \in Files(r)
    BY DEF AllFiles
  <2>2. CASE r = "vi"
    BY <2>1, <2>2 DEF Files, File
  <2>3. CASE r = "cp"
    BY <2>1, <2>3 DEF Files, File
  <2>4. CASE r = "sovereign"
    BY <2>1, <2>4 DEF Files, File
  <2> QED
    BY <2>2, <2>3, <2>4 DEF Registers
<1> QED
  BY <1>1, CrossRefsAssumption

\* The file a person, a filing or a record resolves by, but for one that only
\* mentions the record, is the one its section is read from.
LEMMA FoundIsRead ==
  ASSUME NEW ref \in Refs, ref.register # "vi", ref.local_id \notin Entities,
         NEW root \in SUBSET AllFiles, NEW f \in root, Bears(f, ref),
         ref.register = "sovereign" => f.id = ref.local_id
  PROVE  Section(ref, root).own
<1>1. CASE ref.register = "cp"
  <2>1. CASE ref.ref_type = "record_mention"
    <3>1. f.dir = "filings" /\ f.id = ref.local_id
      BY <1>1, <2>1 DEF Bears, DirsOf
    <3> QED
      BY <1>1, <2>1, <3>1 DEF Section, CPSection, Reads
  <2>2. CASE ref.ref_type # "record_mention"
    <3>1. ref.ref_type = "identity" /\ ref.local_id \in Persons
      BY <1>1, <2>2 DEF Refs, Identities, Mentions, Ref
    <3>2. f.dir \in {"persons", "entities"} /\ f.id = ref.local_id
      BY <1>1, <3>1 DEF Bears, DirsOf
    <3>3. f.dir = "persons"
      BY <3>1, <3>2, PersonsArePersons
    <3> QED
      BY <1>1, <2>2, <3>1, <3>2, <3>3 DEF Section, CPSection, Reads
  <2> QED
    BY <2>1, <2>2
<1>2. CASE ref.register = "sovereign"
  <2>1. f.dir = "records" /\ f.id = ref.local_id
    BY <1>2 DEF Bears, DirsOf
  <2> QED
    BY <1>2, <2>1 DEF Section, SovereignSection, Reads
<1> QED
  BY <1>1, <1>2, RefsHaveRegisters DEF Registers

\* For any registers and commits, and wherever main moved: when both jobs
\* pass, the join job's sections are those of the main it fetched, and hold the
\* record the existence check found, but for the four exceptions.
THEOREM GreenIsJoined == Spec => []GreenMeansJoined
<1>1. ASSUME IInv, run # None, run.result = [j \in Jobs |-> "pass"],
             NEW n \in Nodes, NEW ref \in commit.refs[n],
             ref.local_id \notin Entities
      PROVE  LET r == ref.register
                 section == Join(n, commit.refs, Checkout("join"))[ref]
             IN /\ section = Section(ref, run.got["join"][r])
                /\ \/ section.own
                   \/ r = "vi"
                   \/ OnlyMentioned(ref, run.got["refs"][r])
                   \/ \E f \in run.got["refs"][r] \ run.got["join"][r] : Bears(f, ref)
  <2> DEFINE root == run.got["join"][ref.register]
             checked == run.got["refs"][ref.register]
  <2>1. /\ TypeOK /\ commit # None
        /\ commit.refs \in Held /\ ref \in Refs
    BY <1>1 DEF IInv, TypeOK, Held
  <2>2. run.result["refs"] = "pass" /\ run.result["join"] = "pass"
    BY <1>1 DEF Jobs
  <2>3. /\ \A r \in Registers : run.got["join"][r] # None /\ run.got["refs"][r] # None
        /\ Loads(commit.refs)
        /\ CheckRefs(commit.refs, Checkout("refs")) = {}
    BY <1>1, <2>2 DEF IInv, Evidence
  <2>4. ref.register \in Registers
    BY <2>1, RefsHaveRegisters
  <2>5. \A r \in Registers : /\ Checkout("join")[r] # None
                             /\ Checkout("refs")[r] # None
    BY <1>1, <2>1, <2>3, CheckoutsAreNotNone DEF Jobs
  <2>6. \A b \in commit.refs[n] : b.register \in Registers
    BY <2>1, RefsHaveRegisters DEF Held
  <2>7. Join(n, commit.refs, Checkout("join"))[ref] =
          Section(ref, Checkout("join")[ref.register])
    BY <1>1, <2>3, <2>5, <2>6 DEF Join
  <2>8. Section(ref, Checkout("join")[ref.register]) = Section(ref, root)
    BY <1>1, <2>1, <2>3, <2>4, JoinReadsAll, SectionsAreAlike
  <2>9. ResolveRef(ref, Checkout("refs")[ref.register])
    <3>1. <<n, ref>> \in (Nodes \cup Sources) \X Refs
      BY <2>1
    <3>2. <<n, ref>>[1] = n /\ <<n, ref>>[2] = ref
      OBVIOUS
    <3>3. ~Dangling(ref, Checkout("refs"))
      BY <1>1, <2>3, <3>1, <3>2 DEF CheckRefs
    <3> QED
      BY <2>4, <2>5, <3>3 DEF Dangling
  <2>10. PICK f \in checked : Bears(f, ref)
    <3>1. Checkout("refs")[ref.register] =
            {f \in checked : f.dir \in Sparse("refs")}
      BY <1>1, <2>3, <2>4 DEF Checkout
    <3> QED
      BY <2>9, <3>1 DEF ResolveRef
  <2>11. root \in SUBSET AllFiles
    BY <1>1, <2>1, <2>3, <2>4 DEF TypeOK, Jobs
  <2>12. \/ Section(ref, root).own
         \/ ref.register = "vi"
         \/ OnlyMentioned(ref, checked)
         \/ \E g \in checked \ root : Bears(g, ref)
    <3> SUFFICES ASSUME ref.register # "vi",
                        ~OnlyMentioned(ref, checked),
                        \A g \in checked : Bears(g, ref) => g \in root
                 PROVE  Section(ref, root).own
      OBVIOUS
    <3>1. \E g \in checked : /\ Bears(g, ref)
                             /\ ref.register = "sovereign" => g.id = ref.local_id
      <4>1. CASE ref.register # "sovereign"
        BY <2>10, <4>1
      <4>2. CASE ref.register = "sovereign"
        <5>1. f.dir = "records" /\ (f.id = ref.local_id \/ f.names = ref.local_id)
          BY <2>10, <4>2 DEF Bears, DirsOf
        <5>2. Reads("records", ref, checked)
          BY <4>2, <5>1 DEF OnlyMentioned, Reads
        <5> QED
          BY <4>2, <5>2 DEF Reads, Bears, DirsOf
      <4> QED
        BY <4>1, <4>2
    <3> QED
      BY <1>1, <2>1, <2>11, <3>1, FoundIsRead
  <2> QED
    BY <2>7, <2>8, <2>12
<1>2. IInv => GreenMeansJoined
  BY <1>1 DEF GreenMeansJoined
<1> QED
  BY <1>2, Invariance, PTL
=============================================================================
