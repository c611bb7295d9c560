------------------------- MODULE TemplateStoreProofs -------------------------
(***************************************************************************)
(* Proofs about TemplateStore for any number of concurrent calls and       *)
(* writes.  A call works with a copy of the row; what makes the properties *)
(* inductive is what is known of that copy (CopyFacts).                    *)
(***************************************************************************)
EXTENDS TemplateStore, TLAPS

Jobs == [step : Steps, copy : Templates \cup {NoTemplate}, content : BOOLEAN]

\* A copy is an earlier or the present row, with a version that counts no more
\* than the changes so far.
CopyFacts ==
    \A c \in Callers :
        /\ job[c].step \in {"cache", "change", "delete"} =>
              Exists /\ job[c].copy \in Templates /\ job[c].copy.rev <= row.rev
        /\ job[c].step = "change" => job[c].copy.version \in 1..1 + changes

RowVersion == IF Exists THEN row.version >= 1 ELSE changes = 0

IInv == TypeOK /\ CopyFacts /\ RowVersion /\ VersionWithinChanges
          /\ StaleHasCause

-------------------------------------------------------------------------------
(* Jobs and rows *)

\* The jobs the actions make.
LEMMA NewJobs ==
    /\ Idle \in Jobs /\ Idle.step = "idle"
    /\ \A step \in Steps, copy \in Templates \cup {NoTemplate} :
          /\ Call(step, copy) \in Jobs
          /\ Call(step, copy).step = step /\ Call(step, copy).copy = copy
    /\ \A copy \in Templates \cup {NoTemplate}, content \in BOOLEAN :
          [step |-> "change", copy |-> copy, content |-> content] \in Jobs
BY DEF Jobs, Idle, Call, Steps

\* The fields of a template.
LEMMA TemplateFields ==
    \A t \in Templates : /\ t.rev \in Nat /\ t.content \in Nat /\ t.version \in Nat
                         /\ t.active \in BOOLEAN
                         /\ t = [rev |-> t.rev, content |-> t.content,
                                 version |-> t.version, active |-> t.active]
BY DEF Templates

LEMMA MakeTemplate ==
    ASSUME NEW r \in Nat, NEW k \in Nat, NEW v \in Nat, NEW a \in BOOLEAN
    PROVE  [rev |-> r, content |-> k, version |-> v, active |-> a] \in Templates
BY DEF Templates

\* The edits that update and deactivate make.
LEMMA Edits ==
    ASSUME NEW t \in Templates, NEW r \in Nat, NEW v \in Nat
    PROVE  /\ [t EXCEPT !.rev = r] \in Templates
           /\ [t EXCEPT !.rev = r].rev = r /\ [t EXCEPT !.rev = r].version = t.version
           /\ [t EXCEPT !.rev = r, !.active = FALSE] \in Templates
           /\ [t EXCEPT !.rev = r, !.active = FALSE].rev = r
           /\ [t EXCEPT !.rev = r, !.active = FALSE].version = t.version
           /\ [t EXCEPT !.rev = r, !.content = r, !.version = v] \in Templates
           /\ [t EXCEPT !.rev = r, !.content = r, !.version = v].rev = r
           /\ [t EXCEPT !.rev = r, !.content = r, !.version = v].version = v
<1>1. [t EXCEPT !.rev = r] \in Templates
  BY DEF Templates
<1>2. [t EXCEPT !.rev = r, !.active = FALSE] \in Templates
  BY DEF Templates
<1>3. [t EXCEPT !.rev = r, !.content = r, !.version = v] \in Templates
  BY DEF Templates
<1>4. [t EXCEPT !.rev = r].rev = r /\ [t EXCEPT !.rev = r].version = t.version
  BY DEF Templates
<1>5. /\ [t EXCEPT !.rev = r, !.active = FALSE].rev = r
      /\ [t EXCEPT !.rev = r, !.active = FALSE].version = t.version
  BY DEF Templates
<1>6. /\ [t EXCEPT !.rev = r, !.content = r, !.version = v].rev = r
      /\ [t EXCEPT !.rev = r, !.content = r, !.version = v].version = v
  BY DEF Templates
<1> QED
  BY <1>1, <1>2, <1>3, <1>4, <1>5, <1>6

LEMMA CreatedIsTemplate ==
    /\ Created \in Templates /\ Created # NoTemplate
    /\ Created.rev = 1 /\ Created.version = 1 /\ Created.active
<1>1. Created \in Templates
  BY MakeTemplate DEF Created
<1>2. Created.rev = 1 /\ Created.version = 1
  BY DEF Created
<1>3. Created.active
  BY DEF Created
<1> QED
  BY <1>1, <1>2, <1>3, StoreAssumption

\* A template that is deactivated keeps its version.
LEMMA DeactivatedRow ==
    ASSUME row \in Templates
    PROVE  /\ Deactivated \in Templates /\ Deactivated.rev = row.rev + 1
           /\ Deactivated.version = row.version
<1>1. row.rev + 1 \in Nat
  BY TemplateFields
<1> QED
  BY <1>1, Edits DEF Deactivated

\* A template that is changed is a template.
LEMMA ChangedRow ==
    ASSUME TypeOK, Exists, NEW c \in Callers,
           job[c].copy \in Templates, job[c].content \in BOOLEAN
    PROVE  /\ Changed(c) \in Templates /\ Changed(c).rev = row.rev + 1
           /\ job[c].content => Changed(c).version = job[c].copy.version + 1
           /\ ~job[c].content => Changed(c).version = row.version
<1>1. row \in Templates
  BY DEF TypeOK, Exists
<1>2. row.rev + 1 \in Nat /\ job[c].copy.version + 1 \in Nat
  BY <1>1, TemplateFields
<1>3. CASE job[c].content
  <2> DEFINE r == row.rev + 1
             v == job[c].copy.version + 1
             new == [row EXCEPT !.rev = r, !.content = r, !.version = v]
  <2>1. Changed(c) = new
    BY <1>3, Zenon DEF Changed
  <2>2. r \in Nat /\ v \in Nat
    BY <1>2
  <2> HIDE DEF r, v
  <2>3. new \in Templates /\ new.rev = r /\ new.version = v
    BY <1>1, <2>2 DEF Templates
  <2> HIDE DEF new
  <2> QED
    BY <1>3, <2>1, <2>3 DEF r, v
<1>4. CASE ~job[c].content
  <2> DEFINE r == row.rev + 1
             new == [row EXCEPT !.rev = r]
  <2>1. Changed(c) = new
    BY <1>4, Zenon DEF Changed
  <2> HIDE DEF r
  <2>2. new \in Templates /\ new.rev = r /\ new.version = row.version
    BY <1>1, <1>2, Edits DEF r
  <2> HIDE DEF new
  <2> QED
    BY <1>4, <2>1, <2>2 DEF r
<1> QED
  BY <1>3, <1>4

-------------------------------------------------------------------------------
(* Steps of one call *)

\* A step gives one call a new job and leaves the others alone.
Turns(c, call) ==
    /\ call \in Jobs
    /\ job'[c] = call
    /\ \A d \in Callers : d # c => job'[d] = job[d]
    /\ job' \in [Callers -> Jobs]

LEMMA JobTurns ==
    ASSUME job \in [Callers -> Jobs], NEW c \in Callers,
           NEW call \in Jobs, job' = [job EXCEPT ![c] = call]
    PROVE  Turns(c, call)
BY DEF Turns

\* The rows, copies and counts an action may leave behind for the rest of
\* the invariant to hold.
LEMMA Kept ==
    ASSUME IInv, NEW c \in Callers, NEW call \in Jobs, Turns(c, call),
           row' \in Templates \cup {NoTemplate}, changes' \in Nat, excused' \in BOOLEAN,
           cached' \in {cached, NoTemplate} \/ (job[c].step = "cache" /\ cached' = job[c].copy),
           Exists => Exists' /\ row'.rev >= row.rev,
           changes' >= changes,
           RowVersion', VersionWithinChanges',
           /\ call.step \in {"cache", "change", "delete"} =>
                 Exists' /\ call.copy \in Templates /\ call.copy.rev <= row'.rev
           /\ call.step = "change" => call.copy.version \in 1..1 + changes'
    PROVE  TypeOK' /\ CopyFacts'
<1> USE DEF IInv
<1>t. /\ row \in Templates \cup {NoTemplate} /\ cached \in Templates \cup {NoTemplate}
      /\ changes \in Nat
      /\ cached # NoTemplate => Exists /\ cached.rev <= row.rev
  BY DEF TypeOK
<1>n. NoTemplate \notin Templates
  BY StoreAssumption
<1>r. \A t \in Templates : t.rev \in Nat /\ t.version \in Nat
  BY TemplateFields
<1>1. \A t \in Templates : Exists /\ t.rev <= row.rev => Exists' /\ t.rev <= row'.rev
  BY <1>t, <1>r DEF Exists
<1>2. cached' \in Templates \cup {NoTemplate}
  BY <1>t DEF CopyFacts
<1>3. cached' # NoTemplate => Exists' /\ cached'.rev <= row'.rev
  BY <1>1, <1>t DEF CopyFacts
<1>4. TypeOK'
  BY <1>2, <1>3 DEF TypeOK, Turns, Jobs
<1>5. CopyFacts'
  <2> SUFFICES ASSUME NEW d \in Callers
               PROVE  /\ job'[d].step \in {"cache", "change", "delete"} =>
                            Exists' /\ job'[d].copy \in Templates /\ job'[d].copy.rev <= row'.rev
                      /\ job'[d].step = "change" => job'[d].copy.version \in 1..1 + changes'
    BY DEF CopyFacts
  <2>1. CASE d = c
    BY <2>1 DEF Turns
  <2>2. CASE d # c
    <3>1. job'[d] = job[d]
      BY <2>2 DEF Turns
    <3>2. job[d].step \in {"cache", "change", "delete"} =>
             Exists' /\ job[d].copy \in Templates /\ job[d].copy.rev <= row'.rev
      BY <1>1 DEF CopyFacts
    <3>3. job[d].step = "change" => job[d].copy.version \in 1..1 + changes'
      BY <1>t, <3>2, <1>r DEF CopyFacts
    <3> QED
      BY <3>1, <3>2, <3>3
  <2> QED
    BY <2>1, <2>2
<1> QED
  BY <1>4, <1>5

\* A step that leaves the row and the entry alone, and is not the delete
\* that an entry waits for.
LEMMA StaleKept ==
    ASSUME StaleHasCause, NEW c \in Callers, job[c].step # "delete",
           \A d \in Callers : d # c => job'[d] = job[d],
           UNCHANGED <<row, cached, excused>>
    PROVE  StaleHasCause'
BY DEF StaleHasCause

\* The write of c: what Write and Abort share.
LEMMA CommitFacts ==
    ASSUME IInv, NEW c \in Callers, Commit(c)
    PROVE  /\ row' \in Templates /\ Exists' /\ row'.rev = row.rev + 1
           /\ changes' \in Nat /\ changes' >= changes
           /\ RowVersion' /\ VersionWithinChanges'
           /\ cached # NoTemplate => cached.rev < row'.rev
<1> USE DEF IInv
<1>1. /\ Exists /\ row \in Templates /\ changes \in Nat
      /\ cached # NoTemplate => cached \in Templates /\ cached.rev <= row.rev
      /\ job \in [Callers -> Jobs]
  BY DEF Commit, TypeOK, Exists, Jobs
<1>2. job[c] \in Jobs
  BY <1>1
<1>3. job[c].content \in BOOLEAN
  BY <1>2 DEF Jobs
<1>4. NoTemplate \notin Templates
  BY StoreAssumption
<1>5. row.version \in Nat /\ row.rev \in Nat
      /\ (cached # NoTemplate => cached.rev \in Nat)
  BY <1>1, TemplateFields
<1>6. row.version >= 1 /\ row.version <= 1 + changes /\ (row.version = 1 <=> changes = 0)
  BY <1>1 DEF RowVersion, VersionWithinChanges
<1>7. ASSUME row' \in Templates, row'.rev = row.rev + 1,
             row'.version >= 1, row'.version <= 1 + changes',
             row'.version = 1 <=> changes' = 0, changes' \in Nat, changes' >= changes
      PROVE  /\ row' \in Templates /\ Exists' /\ row'.rev = row.rev + 1
             /\ changes' \in Nat /\ changes' >= changes
             /\ RowVersion' /\ VersionWithinChanges'
             /\ cached # NoTemplate => cached.rev < row'.rev
  BY <1>1, <1>4, <1>5, <1>7 DEF Exists, RowVersion, VersionWithinChanges
<1>8. CASE job[c].step = "change"
  <2>1. row' = Changed(c) /\ changes' = IF job[c].content THEN changes + 1 ELSE changes
    BY <1>8 DEF Commit
  <2>2. job[c].copy \in Templates /\ job[c].copy.version \in 1..1 + changes
    BY <1>8 DEF CopyFacts
  <2>3. CASE job[c].content
    <3>1. row' \in Templates /\ row'.rev = row.rev + 1 /\ row'.version = job[c].copy.version + 1
      BY <1>1, <1>3, <2>1, <2>2, <2>3, ChangedRow
    <3>2. changes' = changes + 1
      BY <2>1, <2>3
    <3> QED
      BY <1>1, <1>7, <2>2, <3>1, <3>2
  <2>4. CASE ~job[c].content
    <3>1. row' \in Templates /\ row'.rev = row.rev + 1 /\ row'.version = row.version
      BY <1>1, <1>3, <2>1, <2>2, <2>4, ChangedRow
    <3>2. changes' = changes
      BY <2>1, <2>4
    <3> QED
      BY <1>1, <1>5, <1>6, <1>7, <3>1, <3>2
  <2> QED
    BY <2>3, <2>4
<1>9. CASE job[c].step = "deactivate"
  <2>1. row' = Deactivated /\ changes' = changes
    BY <1>9 DEF Commit
  <2>2. row' \in Templates /\ row'.rev = row.rev + 1 /\ row'.version = row.version
    BY <1>1, <2>1, DeactivatedRow
  <2> QED
    BY <1>1, <1>5, <1>6, <1>7, <2>1, <2>2
<1> QED
  BY <1>8, <1>9 DEF Commit

LEMMA IInvNext == IInv /\ [Next]_vars => IInv'
<1> SUFFICES ASSUME IInv, [Next]_vars PROVE IInv'
  OBVIOUS
<1> USE DEF IInv
<1>t. /\ row \in Templates \cup {NoTemplate} /\ cached \in Templates \cup {NoTemplate}
      /\ job \in [Callers -> Jobs] /\ excused \in BOOLEAN /\ changes \in Nat
  BY DEF TypeOK, Jobs
<1>e. cached # NoTemplate => Exists /\ cached.rev <= row.rev
  BY DEF TypeOK
<1>n. NoTemplate \notin Templates
  BY StoreAssumption
<1>r. \A u \in Templates : u.rev \in Nat /\ u.version \in Nat
  BY TemplateFields
<1>s. Steps = {"idle", "insert", "read", "cache", "change", "deactivate", "delete"}
  BY DEF Steps
<1>v. UNCHANGED <<row, changes>> => RowVersion' /\ VersionWithinChanges'
  BY DEF RowVersion, VersionWithinChanges, Exists
\* A call turns to something that needs no copy, or to a copy of the row.
<1>q. ASSUME NEW c \in Callers, job[c].step # "delete", NEW call \in Jobs,
             job' = [job EXCEPT ![c] = call],
             UNCHANGED <<row, cached, excused, changes>>,
             \/ call.step \notin {"cache", "change", "delete"}
             \/ /\ Exists /\ call.copy = row /\ call.step # "delete"
      PROVE  IInv'
  <2>1. Turns(c, call)
    BY <1>q, <1>t, JobTurns
  <2>2. StaleHasCause'
    BY <1>q, <2>1, StaleKept DEF Turns
  <2>3. Exists => row.rev \in Nat /\ row.version \in 1..1 + changes
    BY <1>t, <1>r DEF RowVersion, VersionWithinChanges, Exists
  <2>4. TypeOK' /\ CopyFacts'
    BY <1>q, <1>t, <1>v, <2>1, <2>3, Kept DEF Exists
  <2> QED
    BY <1>q, <1>v, <2>2, <2>4
<1>1. ASSUME NEW c \in Callers, Create(c) \/ FindByCode(c) \/ RenderTemplate(c) \/ Deactivate(c)
      PROVE  IInv'
  <2>1. PICK call \in Jobs : /\ Start(c, call)
                             /\ call.step \in {"insert", "read", "deactivate"}
    BY <1>1, <1>s, <1>t, NewJobs DEF Create, FindByCode, RenderTemplate, Deactivate
  <2> QED
    BY <1>1, <1>q, <2>1 DEF Start, Create, FindByCode, RenderTemplate, Deactivate
<1>2. ASSUME NEW c \in Callers, Update(c) PROVE IInv'
  <2>1. PICK content \in BOOLEAN :
           Start(c, [step |-> "change", copy |-> row, content |-> content])
    BY <1>2 DEF Update
  <2>2. [step |-> "change", copy |-> row, content |-> content] \in Jobs
    BY <1>t, NewJobs
  <2> QED
    BY <1>2, <1>q, <2>1, <2>2 DEF Start, Update
<1>3. ASSUME NEW c \in Callers, Read(c) PROVE IInv'
  <2>1. CASE Exists /\ row.active
    <3>1. job' = [job EXCEPT ![c] = Call("cache", row)]
      BY <1>3, <2>1 DEF Read, Continue
    <3>2. Call("cache", row) \in Jobs /\ Call("cache", row).step = "cache" /\ Call("cache", row).copy = row
      BY <1>s, <1>t, NewJobs
    <3> QED
      BY <1>3, <1>q, <2>1, <3>1, <3>2 DEF Read
  <2>2. CASE ~(Exists /\ row.active)
    <3>1. job' = [job EXCEPT ![c] = Idle]
      BY <1>3, <2>2 DEF Read, Return
    <3> QED
      BY <1>3, <1>q, <3>1, NewJobs DEF Read
  <2> QED
    BY <2>1, <2>2
<1>4. ASSUME NEW c \in Callers, Insert(c) PROVE IInv'
  <2>1. CASE Exists
    <3>1. job' = [job EXCEPT ![c] = Idle]
      BY <1>4, <2>1 DEF Insert, Return
    <3> QED
      BY <1>4, <1>q, <2>1, <3>1, NewJobs DEF Insert
  <2>2. CASE ~Exists
    <3> DEFINE call == Call("cache", Created)
    <3>1. /\ row' = Created /\ job' = [job EXCEPT ![c] = call]
          /\ UNCHANGED <<cached, excused, changes>>
      BY <1>4, <2>2 DEF Insert, Continue
    <3>2. call \in Jobs /\ call.step = "cache" /\ call.copy = Created
      BY <1>s, CreatedIsTemplate, NewJobs
    <3> HIDE DEF call
    <3>3. Turns(c, call)
      BY <1>t, <3>1, <3>2, JobTurns
    <3>4. cached = NoTemplate /\ changes = 0
      BY <1>e, <2>2 DEF RowVersion
    <3>5. Exists' /\ RowVersion' /\ VersionWithinChanges'
      BY <3>1, <3>4, CreatedIsTemplate DEF Exists, RowVersion, VersionWithinChanges
    <3>6. TypeOK' /\ CopyFacts'
      <4>1. Created.rev <= Created.rev /\ changes' \in Nat /\ changes' >= changes
        BY <1>t, <3>1, <3>4, CreatedIsTemplate
      <4> QED
        BY <1>t, <2>2, <3>1, <3>2, <3>3, <3>5, <4>1, CreatedIsTemplate, Kept
    <3>7. StaleHasCause'
      BY <3>1, <3>4 DEF StaleHasCause
    <3> QED
      BY <3>5, <3>6, <3>7
  <2> QED
    BY <2>1, <2>2
\* A call ends, or turns to its delete, and the row stays or moves on.
<1>k. ASSUME NEW c \in Callers, NEW call \in Jobs, job' = [job EXCEPT ![c] = call],
             row' \in Templates \cup {NoTemplate}, changes' \in Nat, excused' \in BOOLEAN,
             cached' \in {cached, NoTemplate} \/ (job[c].step = "cache" /\ cached' = job[c].copy),
             Exists => Exists' /\ row'.rev >= row.rev,
             changes' >= changes, RowVersion', VersionWithinChanges', StaleHasCause',
             \/ call.step = "idle"
             \/ call.step = "delete" /\ Exists' /\ call.copy = row'
      PROVE  IInv'
  <2>1. Turns(c, call)
    BY <1>k, <1>t, JobTurns
  <2>2. Exists' => row' \in Templates /\ row'.rev <= row'.rev
    BY <1>k, <1>r DEF Exists
  <2>3. /\ call.step \in {"cache", "change", "delete"} =>
              Exists' /\ call.copy \in Templates /\ call.copy.rev <= row'.rev
        /\ call.step # "cache" /\ call.step # "change"
    BY <1>k, <2>2
  <2>4. TypeOK' /\ CopyFacts'
    BY <1>k, <2>1, <2>3, Kept
  <2> QED
    BY <1>k, <2>4
<1>w. Exists => row.rev >= row.rev
  BY <1>t, <1>r DEF Exists
<1>x. changes >= changes
  BY <1>t
\* The row stays and the call ends.
<1>f. ASSUME NEW c \in Callers, job' = [job EXCEPT ![c] = Idle],
             UNCHANGED <<row, changes>>, excused' \in BOOLEAN,
             cached' \in {cached, NoTemplate} \/ (job[c].step = "cache" /\ cached' = job[c].copy),
             StaleHasCause'
      PROVE  IInv'
  <2>1. Exists => Exists' /\ row'.rev >= row.rev
    BY <1>f, <1>w DEF Exists
  <2>2. changes' >= changes /\ changes' \in Nat /\ row' \in Templates \cup {NoTemplate}
    BY <1>f, <1>t, <1>x
  <2> QED
    BY <1>f, <1>k, <1>v, <2>1, <2>2, NewJobs
<1>5. ASSUME NEW c \in Callers, CacheTemplate(c) PROVE IInv'
  <2>1. job[c].step = "cache" /\ job' = [job EXCEPT ![c] = Idle] /\ UNCHANGED <<row, changes>>
    BY <1>5 DEF CacheTemplate, Return
  <2>2. CASE Fill(job[c].copy)
    <3>1. cached' = job[c].copy /\ excused' = (cached' # row)
      BY <2>2 DEF Fill
    <3>2. StaleHasCause' /\ excused' \in BOOLEAN
      BY <2>1, <3>1 DEF StaleHasCause
    <3> QED
      BY <1>f, <2>1, <3>1, <3>2
  <2>3. CASE UNCHANGED <<cached, excused>>
    <3>1. job[c].step # "delete"
      BY <2>1
    <3> QED
      BY <1>q, <2>1, <2>3, <3>1, NewJobs
  <2> QED
    BY <1>5, <2>2, <2>3 DEF CacheTemplate
<1>6. ASSUME NEW c \in Callers, Write(c) PROVE IInv'
  <2> DEFINE call == Call("delete", row')
  <2>1. /\ Commit(c) /\ job' = [job EXCEPT ![c] = call]
        /\ UNCHANGED <<cached, excused>>
    BY <1>6 DEF Write, Continue
  <2>2. /\ row' \in Templates /\ Exists' /\ row'.rev = row.rev + 1
        /\ changes' \in Nat /\ changes' >= changes
        /\ RowVersion' /\ VersionWithinChanges'
        /\ cached # NoTemplate => cached.rev < row'.rev
    BY <2>1, CommitFacts
  <2>3. call \in Jobs /\ call.step = "delete" /\ call.copy = row'
    BY <1>s, <2>2, NewJobs
  <2> HIDE DEF call
  <2>4. job'[c] = call
    BY <1>t, <2>1
  <2>5. StaleHasCause'
    BY <2>1, <2>2, <2>3, <2>4 DEF StaleHasCause
  <2>6. Exists => row'.rev >= row.rev
    BY <1>t, <1>r, <2>2 DEF Exists
  <2> QED
    BY <1>k, <1>t, <2>1, <2>2, <2>3, <2>5, <2>6
<1>7. ASSUME NEW c \in Callers, Delete(c) PROVE IInv'
  <2>1. /\ job' = [job EXCEPT ![c] = Idle] /\ UNCHANGED <<row, changes>>
        /\ \/ cached' = NoTemplate /\ excused' = FALSE
           \/ cached' = cached /\ excused' = (cached # NoTemplate)
    BY <1>7 DEF Delete, Return
  <2>2. StaleHasCause'
    BY <2>1 DEF StaleHasCause
  <2> QED
    BY <1>f, <2>1, <2>2
<1>8. ASSUME NEW c \in Callers, Abort(c) PROVE IInv'
  <2>1. job' = [job EXCEPT ![c] = Idle] /\ cached' = cached
    BY <1>8 DEF Abort, Return
  <2>2. CASE /\ UNCHANGED <<row, changes>>
             /\ excused' = (excused \/ (job[c].step = "delete" /\ cached # NoTemplate))
    <3>1. CASE job[c].step = "delete"
      <4>1. StaleHasCause' /\ excused' \in BOOLEAN
        BY <1>t, <2>1, <2>2, <3>1 DEF StaleHasCause
      <4> QED
        BY <1>f, <2>1, <2>2, <4>1
    <3>2. CASE job[c].step # "delete"
      <4>1. excused' = excused
        BY <1>t, <2>2, <3>2
      <4> QED
        BY <1>q, <2>1, <2>2, <3>2, <4>1, NewJobs
    <3> QED
      BY <3>1, <3>2
  <2>3. CASE job[c].step = "insert" /\ ~Exists /\ row' = Created /\ UNCHANGED <<excused, changes>>
    <3>1. cached = NoTemplate /\ changes = 0
      BY <1>e, <2>3 DEF RowVersion
    <3>2. Exists' /\ RowVersion' /\ VersionWithinChanges'
      BY <2>3, <3>1, CreatedIsTemplate DEF Exists, RowVersion, VersionWithinChanges
    <3>3. StaleHasCause'
      BY <2>1, <3>1 DEF StaleHasCause
    <3>4. changes' \in Nat /\ changes' >= changes /\ row' \in Templates \cup {NoTemplate}
      BY <1>t, <1>x, <2>3, CreatedIsTemplate
    <3> QED
      BY <1>k, <1>t, <2>1, <2>3, <3>2, <3>3, <3>4, NewJobs
  <2>4. CASE Commit(c) /\ excused' = (cached # NoTemplate)
    <3>1. /\ row' \in Templates /\ Exists' /\ row'.rev = row.rev + 1
          /\ changes' \in Nat /\ changes' >= changes
          /\ RowVersion' /\ VersionWithinChanges'
      BY <2>4, CommitFacts
    <3>2. StaleHasCause' /\ excused' \in BOOLEAN
      BY <2>1, <2>4 DEF StaleHasCause
    <3>3. Exists => row'.rev >= row.rev
      BY <1>t, <1>r, <3>1 DEF Exists
    <3> QED
      BY <1>k, <2>1, <3>1, <3>2, <3>3, NewJobs
  <2> QED
    BY <1>8, <2>2, <2>3, <2>4 DEF Abort
<1>9. ASSUME Expire PROVE IInv'
  <2>1. cached' = NoTemplate /\ excused' = FALSE /\ UNCHANGED <<row, job, changes>>
    BY <1>9 DEF Expire
  <2>2. CopyFacts'
    BY <2>1 DEF CopyFacts, Exists
  <2>3. TypeOK' /\ StaleHasCause'
    BY <2>1 DEF TypeOK, StaleHasCause
  <2> QED
    BY <1>v, <2>1, <2>2, <2>3
<1>10. ASSUME UNCHANGED vars PROVE IInv'
  <2>1. UNCHANGED <<row, cached, job, excused, changes>>
    BY <1>10 DEF vars
  <2>2. CopyFacts' /\ TypeOK'
    BY <2>1 DEF CopyFacts, TypeOK, Exists
  <2>3. StaleHasCause'
    BY <2>1 DEF StaleHasCause
  <2> QED
    BY <1>v, <2>1, <2>2, <2>3
<1> QED
  BY <1>1, <1>2, <1>3, <1>4, <1>5, <1>6, <1>7, <1>8, <1>9, <1>10 DEF Next

LEMMA InitIInv == Init => IInv
<1> SUFFICES ASSUME Init PROVE IInv
  OBVIOUS
<1>1. TypeOK
  BY NewJobs, StoreAssumption DEF Init, TypeOK, Jobs
<1>2. CopyFacts
  BY NewJobs DEF Init, CopyFacts
<1>3. RowVersion /\ VersionWithinChanges /\ StaleHasCause
  BY DEF Init, Exists, RowVersion, VersionWithinChanges, StaleHasCause
<1> QED
  BY <1>1, <1>2, <1>3 DEF IInv

-------------------------------------------------------------------------------
(* Theorems *)

\* The inductive invariant holds of every behaviour.
THEOREM Invariance == Spec => []IInv
BY InitIInv, IInvNext, PTL DEF Spec

\* Every variable keeps its type, and the entry is never newer than the row,
\* whatever order concurrent fills and writes take.
THEOREM TypeCorrect == Spec => []TypeOK
<1>1. IInv => TypeOK
  BY DEF IInv
<1> QED
  BY Invariance, <1>1, PTL

\* A stale entry always has one of the causes that update,
\* deactivate and findByCode leave open, for any number of calls.
THEOREM StaleEntriesHaveCause == Spec => []StaleHasCause
<1>1. IInv => StaleHasCause
  BY DEF IInv
<1> QED
  BY Invariance, <1>1, PTL

\* The version of update never runs ahead of the content, although two
\* updates may write the same version.
THEOREM VersionsFollowChanges == Spec => []VersionWithinChanges
<1>1. IInv => VersionWithinChanges
  BY DEF IInv
<1> QED
  BY Invariance, <1>1, PTL

-------------------------------------------------------------------------------
(* Late copies                                                             *)

\* Call c is about to store a copy of the row, which has moved on.
Late(c) == job[c].step = "cache" /\ job[c].copy # row

\* Only a write makes a copy late, and an entry that is out of date was so
\* before, unless the row was written or a late copy was stored: with no late
\* copy and no stale entry, the entry stays right until the next write, whatever
\* calls read, store, delete or break off (template.service.ts 114-133).
StaleOnlyFromLate ==
    row' = row =>
        /\ \A c \in Callers : Late(c)' => Late(c)
        /\ cached' \notin {NoTemplate, row} =>
               cached' = cached \/ \E c \in Callers : Late(c) /\ cached' = job[c].copy

\* What every step of a call does to its copy, its row and the entry.  Only an
\* active row, or a new one, is copied for the cache.
Moves(c) ==
    /\ \A d \in Callers : d # c => job'[d] = job[d]
    /\ job'[c].copy \in {NoTemplate, row'}
    /\ job'[c].step = "cache" => job'[c].copy = row' /\ (Exists => row.active)
    /\ \/ cached' \in {NoTemplate, cached}
       \/ job[c].step = "cache" /\ cached' = job[c].copy

\* What a step may do to the row: leave it, insert it, or write it.
RowMoves(c) ==
    \/ row' = row
    \/ ~Exists /\ row' = Created
    \/ Commit(c)

LEMMA CallMoves ==
    ASSUME IInv, NEW c \in Callers,
           \/ Create(c) \/ Insert(c) \/ CacheTemplate(c) \/ FindByCode(c) \/ RenderTemplate(c)
           \/ Read(c) \/ Update(c) \/ Deactivate(c) \/ Write(c) \/ Delete(c) \/ Abort(c)
    PROVE  Moves(c) /\ RowMoves(c)
<1>t. row \in Templates \cup {NoTemplate} /\ job \in [Callers -> Jobs]
  BY DEF IInv, TypeOK, Jobs
<1>e. Exists => row \in Templates
  BY <1>t DEF Exists
<1>c. Idle.step = "idle" /\ Idle.copy = NoTemplate
  BY DEF Idle
\* The three ways a call goes on.
<1>r. ASSUME Return(c), cached' \in {NoTemplate, cached} \/ (job[c].step = "cache" /\ cached' = job[c].copy)
      PROVE  Moves(c)
  BY <1>c, <1>r, <1>t DEF Return, Moves
<1>g. ASSUME NEW step \in Steps, Continue(c, step, row'), row' \in Templates, cached' = cached,
             step = "cache" /\ Exists => row.active
      PROVE  Moves(c)
  <2>1. Call(step, row').copy = row' /\ Call(step, row').step = step
    BY DEF Call
  <2> QED
    BY <1>g, <1>t, <2>1 DEF Continue, Moves
<1>b. ASSUME NEW call, call.copy \in {NoTemplate, row'}, call.step # "cache", Start(c, call),
             cached' = cached
      PROVE  Moves(c)
  BY <1>b, <1>t DEF Start, Moves
<1>1. CASE Create(c) \/ FindByCode(c) \/ RenderTemplate(c)
  <2>1. PICK step \in {"insert", "read"} : Start(c, Call(step, NoTemplate)) /\ UNCHANGED <<row, cached>>
    BY <1>1 DEF Create, FindByCode, RenderTemplate
  <2>2. Call(step, NoTemplate).copy = NoTemplate /\ Call(step, NoTemplate).step = step
    BY DEF Call
  <2> QED
    BY <1>b, <2>1, <2>2 DEF RowMoves
<1>2. CASE Insert(c)
  <2>1. CASE Exists
    BY <1>2, <1>r, <2>1 DEF Insert, RowMoves
  <2>2. CASE ~Exists
    <3>1. row' = Created /\ Continue(c, "cache", row') /\ UNCHANGED cached
      BY <1>2, <2>2 DEF Insert
    <3>2. Moves(c)
      BY <1>g, <2>2, <3>1, CreatedIsTemplate DEF Steps
    <3> QED
      BY <2>2, <3>1, <3>2 DEF RowMoves
  <2> QED
    BY <2>1, <2>2
<1>3. CASE CacheTemplate(c)
  BY <1>3, <1>r DEF CacheTemplate, Fill, RowMoves
<1>4. CASE Read(c)
  <2>1. CASE Exists /\ row.active
    <3>1. row' = row /\ Continue(c, "cache", row') /\ UNCHANGED cached
      BY <1>4, <2>1 DEF Read
    <3> QED
      BY <1>e, <1>g, <2>1, <3>1 DEF Steps, RowMoves
  <2>2. CASE ~(Exists /\ row.active)
    BY <1>4, <1>r, <2>2 DEF Read, RowMoves
  <2> QED
    BY <2>1, <2>2
<1>5. CASE Update(c)
  <2>1. PICK content \in BOOLEAN : Start(c, [step |-> "change", copy |-> row, content |-> content])
    BY <1>5 DEF Update
  <2> DEFINE call == [step |-> "change", copy |-> row, content |-> content]
  <2>2. call.copy = row /\ call.step = "change" /\ Start(c, call)
    BY <2>1
  <2> HIDE DEF call
  <2> QED
    BY <1>5, <1>b, <2>2 DEF Update, RowMoves
<1>6. CASE Deactivate(c)
  <2>1. Call("deactivate", row).copy = row /\ Call("deactivate", row).step = "deactivate"
    BY DEF Call
  <2> QED
    BY <1>6, <1>b, <2>1 DEF Deactivate, RowMoves
<1>7. CASE Write(c)
  <2>1. Commit(c) /\ Continue(c, "delete", row') /\ UNCHANGED cached
    BY <1>7 DEF Write
  <2>2. row' \in Templates
    BY <2>1, CommitFacts
  <2> QED
    BY <1>g, <2>1, <2>2 DEF Steps, RowMoves
<1>8. CASE Delete(c)
  BY <1>8, <1>r DEF Delete, RowMoves
<1>9. CASE Abort(c)
  BY <1>9, <1>r DEF Abort, RowMoves
<1> QED
  BY <1>1, <1>2, <1>3, <1>4, <1>5, <1>6, <1>7, <1>8, <1>9

LEMMA LateNext == IInv /\ [Next]_vars => StaleOnlyFromLate
<1> SUFFICES ASSUME IInv, [Next]_vars, row' = row PROVE StaleOnlyFromLate
  BY DEF StaleOnlyFromLate
<1>1. ASSUME NEW c \in Callers, Moves(c) PROVE StaleOnlyFromLate
  <2>1. ASSUME NEW d \in Callers, Late(d)' PROVE Late(d)
    BY <1>1, <2>1 DEF Moves, Late
  <2>2. ASSUME cached' \notin {NoTemplate, row}, cached' # cached
        PROVE  Late(c) /\ cached' = job[c].copy
    BY <1>1, <2>2 DEF Moves, Late
  <2> QED
    BY <2>1, <2>2 DEF StaleOnlyFromLate
<1>2. CASE Expire \/ UNCHANGED vars
  BY <1>2 DEF Expire, vars, StaleOnlyFromLate, Late
<1> QED
  BY <1>1, <1>2, CallMoves DEF Next

\* For any number of calls and writes: the safety half of EventuallyFresh.
THEOREM LateCopiesDwindle == Spec => [][StaleOnlyFromLate]_vars
BY LateNext, Invariance, PTL DEF Spec

LEMMA DyingOutNext == IInv /\ [Next]_vars => DyingOut
<1> SUFFICES ASSUME IInv, [Next]_vars, Exists, ~row.active PROVE DyingOut
  BY DEF DyingOut
<1>t. row \in Templates /\ job \in [Callers -> Jobs]
  BY DEF IInv, TypeOK, Jobs, Exists
<1>1. ASSUME NEW c \in Callers, Moves(c), RowMoves(c) PROVE DyingOut
  <2>1. job'[c].step # "cache"
    BY <1>1 DEF Moves
  <2>2. Storing' \subseteq Storing
    BY <1>1, <2>1 DEF Moves, Storing
  <2>3. cached' \notin {NoTemplate, cached} =>
            c \in Storing /\ c \notin Storing' /\ cached' = job[c].copy
    BY <1>1, <2>1 DEF Moves, Storing
  <2>4. ~row'.active
    <3>1. CASE row' = row
      BY <3>1
    <3>2. CASE Commit(c) /\ job[c].step = "change"
      BY <1>t, <3>2 DEF Commit, Changed, Templates
    <3>3. CASE Commit(c) /\ job[c].step = "deactivate"
      BY <1>t, <3>3 DEF Commit, Deactivated, Templates
    <3> QED
      BY <1>1, <3>1, <3>2, <3>3 DEF RowMoves, Commit
  <2> QED
    BY <2>2, <2>3, <2>4 DEF DyingOut
<1>2. CASE Expire \/ UNCHANGED vars
  BY <1>2 DEF Expire, vars, DyingOut, Storing
<1> QED
  BY <1>1, <1>2, CallMoves DEF Next

\* findByCode against deactivate: for any number of calls, a deactivated
\* template comes back to the cache at most once for every call that had read
\* it before, and no call reads it again.
THEOREM DeactivatedTemplatesDieOut == Spec => DeactivatedDiesOut
BY DyingOutNext, Invariance, PTL DEF Spec, DeactivatedDiesOut

-------------------------------------------------------------------------------
(* When a version is lost                                                  *)

\* A copy with the content of the row has its version, too: contents are new
\* whenever they change.
Contents ==
    /\ Exists => row.content <= row.rev
    /\ \A c \in Callers : job[c].copy # NoTemplate =>
           /\ Exists
           /\ job[c].copy.content <= row.rev
           /\ job[c].copy.content = row.content => job[c].copy.version = row.version

\* A change of the content raises the version, unless the update that writes it
\* had read the row before an earlier change: two updates that do not overlap
\* never share a version (template.service.ts 147-171).
VersionRisesAlone ==
    Exists /\ row'.content # row.content /\ row'.version <= row.version =>
        \E c \in Callers :
            job[c].step = "change" /\ job[c].content /\ job[c].copy.content # row.content

\* What a committed write does to content and version.
LEMMA CommitContent ==
    ASSUME IInv, NEW c \in Callers, Commit(c)
    PROVE  /\ row \in Templates /\ row' \in Templates /\ row'.rev = row.rev + 1
           /\ \/ row'.content = row.content /\ row'.version = row.version
              \/ /\ row'.content = row.rev + 1 /\ row'.version = job[c].copy.version + 1
                 /\ job[c].step = "change" /\ job[c].content
<1>1. /\ row \in Templates /\ row.rev + 1 \in Nat /\ row.rev \in Nat
      /\ row' \in Templates /\ row'.rev = row.rev + 1
  BY CommitFacts, TemplateFields DEF IInv, TypeOK, Commit, Exists
<1>2. CASE job[c].step = "change" /\ job[c].content
  <2> DEFINE r == row.rev + 1
             v == job[c].copy.version + 1
             new == [row EXCEPT !.rev = r, !.content = r, !.version = v]
  <2>1. row' = new
    BY <1>2, Zenon DEF Commit, Changed
  <2> HIDE DEF r, v
  <2>2. new.content = r /\ new.version = v
    BY <1>1 DEF Templates
  <2> HIDE DEF new
  <2> QED
    BY <1>1, <1>2, <2>1, <2>2 DEF r, v
<1>3. CASE job[c].step = "change" /\ ~job[c].content
  <2> DEFINE r == row.rev + 1
             new == [row EXCEPT !.rev = r]
  <2>1. row' = new
    BY <1>3, Zenon DEF Commit, Changed
  <2> HIDE DEF r
  <2>2. new.content = row.content /\ new.version = row.version
    BY <1>1 DEF Templates
  <2> HIDE DEF new
  <2> QED
    BY <1>1, <2>1, <2>2
<1>4. CASE job[c].step = "deactivate"
  <2> DEFINE r == row.rev + 1
             new == [row EXCEPT !.rev = r, !.active = FALSE]
  <2>1. row' = new
    BY <1>4, Zenon DEF Commit, Deactivated
  <2> HIDE DEF r
  <2>2. new.content = row.content /\ new.version = row.version
    BY <1>1 DEF Templates
  <2> HIDE DEF new
  <2> QED
    BY <1>1, <2>1, <2>2
<1> QED
  BY <1>2, <1>3, <1>4 DEF Commit

LEMMA ContentsNext == IInv /\ Contents /\ [Next]_vars => Contents'
<1> SUFFICES ASSUME IInv, Contents, [Next]_vars PROVE Contents'
  OBVIOUS
<1>t. /\ row \in Templates \cup {NoTemplate}
      /\ \A c \in Callers : job[c].copy \in Templates \cup {NoTemplate}
  BY DEF IInv, TypeOK
<1>n. NoTemplate \notin Templates
  BY StoreAssumption
<1>f. \A u \in Templates : u.rev \in Nat /\ u.content \in Nat
  BY TemplateFields
\* What the copies a call keeps still say of the row after a step.
<1>1. ASSUME NEW c \in Callers, RowMoves(c)
      PROVE  /\ Exists' => row'.content <= row'.rev
             /\ \A d \in Callers : job[d].copy # NoTemplate =>
                    /\ Exists'
                    /\ job[d].copy.content <= row'.rev
                    /\ job[d].copy.content = row'.content => job[d].copy.version = row'.version
  <2>1. CASE row' = row
    BY <2>1 DEF Contents, Exists
  <2>2. CASE ~Exists /\ row' = Created
    <3>1. row'.content = 1 /\ row'.rev = 1
      BY <2>2 DEF Created
    <3>2. \A d \in Callers : job[d].copy = NoTemplate
      BY <2>2 DEF Contents
    <3> QED
      BY <3>1, <3>2
  <2>3. CASE Commit(c)
    <3>1. /\ row \in Templates /\ row' \in Templates /\ row'.rev = row.rev + 1
          /\ \/ row'.content = row.content /\ row'.version = row.version
             \/ row'.content = row.rev + 1
      BY <2>3, CommitContent
    <3>2. Exists /\ Exists' /\ row.rev \in Nat /\ row.content \in Nat
      BY <1>f, <1>n, <3>1 DEF Exists
    <3>3. row'.content <= row'.rev
      BY <3>1, <3>2 DEF Contents
    <3>4. ASSUME NEW d \in Callers, job[d].copy # NoTemplate
          PROVE  /\ job[d].copy.content <= row'.rev
                 /\ job[d].copy.content = row'.content => job[d].copy.version = row'.version
      <4>1. job[d].copy.content \in Nat
        BY <1>f, <1>t, <3>4
      <4>2. /\ job[d].copy.content <= row.rev
            /\ job[d].copy.content = row.content => job[d].copy.version = row.version
        BY <3>4 DEF Contents
      <4> QED
        BY <3>1, <3>2, <4>1, <4>2
    <3> QED
      BY <3>2, <3>3, <3>4
  <2> QED
    BY <1>1, <2>1, <2>2, <2>3 DEF RowMoves
<1>2. ASSUME NEW c \in Callers, Moves(c), RowMoves(c) PROVE Contents'
  <2>1. ASSUME NEW d \in Callers, job'[d].copy # NoTemplate
        PROVE  /\ Exists'
               /\ job'[d].copy.content <= row'.rev
               /\ job'[d].copy.content = row'.content => job'[d].copy.version = row'.version
    <3>1. CASE d = c
      <4>1. job'[d].copy = row'
        BY <1>2, <2>1, <3>1 DEF Moves
      <4>2. Exists'
        BY <2>1, <4>1 DEF Exists
      <4> QED
        BY <1>1, <1>2, <4>1, <4>2
    <3>2. CASE d # c
      <4>1. job'[d] = job[d]
        BY <1>2, <3>2 DEF Moves
      <4> QED
        BY <1>1, <1>2, <2>1, <4>1
    <3> QED
      BY <3>1, <3>2
  <2> QED
    BY <1>1, <1>2, <2>1 DEF Contents
<1>3. CASE Expire \/ UNCHANGED vars
  BY <1>3 DEF Expire, vars, Contents, Exists
<1> QED
  BY <1>2, <1>3, CallMoves DEF Next

LEMMA VersionNext == IInv /\ Contents /\ [Next]_vars => VersionRisesAlone
<1> SUFFICES ASSUME IInv, Contents, [Next]_vars,
                    Exists, row'.content # row.content, row'.version <= row.version
             PROVE  \E c \in Callers :
                        job[c].step = "change" /\ job[c].content /\ job[c].copy.content # row.content
  BY DEF VersionRisesAlone
<1>1. row' # row
  OBVIOUS
<1>2. PICK c \in Callers : RowMoves(c)
  BY <1>1, CallMoves DEF Next, Expire, vars
<1>3. Commit(c)
  BY <1>1, <1>2 DEF RowMoves
<1>4. /\ row \in Templates /\ row'.version = job[c].copy.version + 1
      /\ job[c].step = "change" /\ job[c].content
  BY <1>3, CommitContent
<1>5. job[c].copy \in Templates
  BY <1>4 DEF IInv, CopyFacts
<1>6. job[c].copy.version \in Nat /\ row.version \in Nat
  BY <1>4, <1>5, TemplateFields
<1>7. job[c].copy.version # row.version
  BY <1>4, <1>6
<1>8. job[c].copy.content # row.content
  BY <1>5, <1>7, StoreAssumption DEF Contents
<1> QED
  BY <1>4, <1>8

\* The converse of the finding about VersionFollowsContent: it takes two
\* overlapping updates, for any number of calls and writes.
THEOREM VersionsRiseAlone == Spec => [][VersionRisesAlone]_vars
<1>1. Init => Contents
  <2>1. Idle.copy = NoTemplate
    BY DEF Idle
  <2> QED
    BY <2>1 DEF Init, Contents, Exists
<1> QED
  BY <1>1, ContentsNext, VersionNext, Invariance, PTL DEF Spec

===============================================================================
