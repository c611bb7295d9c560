---------------------------- MODULE TemplateStore ----------------------------
(***************************************************************************)
(* One template code of apps/template-service/src/template/                *)
(* template.service.ts: the row, its version, and the Redis entry          *)
(* `template:<code>`.  Nothing in the code relates two codes.              *)
(*                                                                         *)
(* Calls run concurrently; each action is the code between two awaits.  A  *)
(* row is named by its revision, the number of writes committed so far,    *)
(* and its content by the revision that wrote it.                          *)
(***************************************************************************)
EXTENDS Integers

CONSTANTS
    Callers,      \* concurrent calls
    NoTemplate,   \* no row, or no entry
    MaxWrites     \* bound: committed writes of the row

Templates == [rev : Nat, content : Nat, version : Nat, active : BOOLEAN]

ASSUME StoreAssumption ==
    /\ NoTemplate \notin Templates
    /\ MaxWrites \in Nat

VARIABLES
    row,        \* the row, or NoTemplate
    cached,     \* the Redis entry, or NoTemplate
    job,        \* job[c]: what call c is doing
    excused,    \* history: the entry is out of date for a reason that the code
                \*   leaves open: see Fill, Delete and Abort
    changes     \* history: committed changes of the content

vars == <<row, cached, job, excused, changes>>

Exists == row # NoTemplate

\* A call and the copy of the template it has; content tells whether an
\* update brings new content.
Idle == [step |-> "idle", copy |-> NoTemplate, content |-> FALSE]

Call(step, copy) == [step |-> step, copy |-> copy, content |-> FALSE]

Start(c, call) == job[c].step = "idle" /\ job' = [job EXCEPT ![c] = call]

Continue(c, step, copy) == job' = [job EXCEPT ![c] = Call(step, copy)]

Return(c) == job' = [job EXCEPT ![c] = Idle]

-------------------------------------------------------------------------------
(* Redis *)

\* setex: the entry is out of date at once if the row has moved on.
Fill(copy) == cached' = copy /\ excused' = (copy # row)

\* Mutant: set without a TTL.
ExpireNever == FALSE /\ UNCHANGED vars

\* The TTL of two hours.
Expire ==
    /\ cached # NoTemplate
    /\ cached' = NoTemplate
    /\ excused' = FALSE
    /\ UNCHANGED <<row, job, changes>>

\* cacheTemplate, the end of create and of findByCode: a Redis error fails
\* the call although the database has answered.
CacheTemplate(c) ==
    /\ job[c].step = "cache"
    /\ Fill(job[c].copy) \/ UNCHANGED <<cached, excused>>
    /\ Return(c)
    /\ UNCHANGED <<row, changes>>

-------------------------------------------------------------------------------
(* create and findByCode *)

\* create finds no template with this code; else it answers 409.
Create(c) ==
    /\ ~Exists
    /\ Start(c, Call("insert", NoTemplate))
    /\ UNCHANGED <<row, cached, excused, changes>>

Created == [rev |-> 1, content |-> 1, version |-> 1, active |-> TRUE]

\* Mutant: the insert is not awaited and does not take place.
InsertNotAwaited(c) ==
    /\ job[c].step = "insert"
    /\ Continue(c, "cache", Created)
    /\ UNCHANGED <<row, cached, excused, changes>>

\* template.create: the code is unique, a second insert throws.
Insert(c) ==
    /\ job[c].step = "insert"
    /\ IF Exists THEN UNCHANGED row /\ Return(c)
                 ELSE row' = Created /\ Continue(c, "cache", Created)
    /\ UNCHANGED <<cached, excused, changes>>

\* findByCode misses the cache, or Redis fails; a hit returns the entry and
\* changes nothing.
FindByCode(c) ==
    /\ Start(c, Call("read", NoTemplate))
    /\ UNCHANGED <<row, cached, excused, changes>>

\* Rendering what findByCode returns changes nothing.
RenderTemplate(c) == FindByCode(c)

\* Mutant: the query does not ask for is_active.
ReadAny(c) ==
    /\ job[c].step = "read"
    /\ IF Exists THEN Continue(c, "cache", row) ELSE Return(c)
    /\ UNCHANGED <<row, cached, excused, changes>>

\* findUnique where is_active: true; else a 404.
Read(c) ==
    /\ job[c].step = "read"
    /\ IF Exists /\ row.active THEN Continue(c, "cache", row) ELSE Return(c)
    /\ UNCHANGED <<row, cached, excused, changes>>

-------------------------------------------------------------------------------
(* update and deactivate *)

\* Both find the template by its id first, or answer 404.  An update may
\* bring new content.
Update(c) ==
    /\ Exists
    /\ \E content \in BOOLEAN :
          Start(c, [step |-> "change", copy |-> row, content |-> content])
    /\ UNCHANGED <<row, cached, excused, changes>>

Deactivate(c) ==
    /\ Exists
    /\ Start(c, Call("deactivate", row))
    /\ UNCHANGED <<row, cached, excused, changes>>

\* Mutant: every update counts as a change of the content.
ChangedAlways(c) ==
    [row EXCEPT !.rev = @ + 1, !.version = job[c].copy.version + 1,
                !.content = IF job[c].content THEN row.rev + 1 ELSE @]

\* What update writes: the version is the one it read, plus one.
Changed(c) ==
    IF job[c].content
    THEN [row EXCEPT !.rev = @ + 1, !.content = row.rev + 1,
                     !.version = job[c].copy.version + 1]
    ELSE [row EXCEPT !.rev = @ + 1]

Deactivated == [row EXCEPT !.rev = @ + 1, !.active = FALSE]

\* The write of c: template.update in update and in deactivate.
Commit(c) ==
    /\ Exists
    /\ row.rev < MaxWrites
    /\ \/ /\ job[c].step = "change"
          /\ row' = Changed(c)
          /\ changes' = IF job[c].content THEN changes + 1 ELSE changes
       \/ /\ job[c].step = "deactivate"
          /\ row' = Deactivated
          /\ UNCHANGED changes

Write(c) ==
    /\ Commit(c)
    /\ Continue(c, "delete", row')
    /\ UNCHANGED <<cached, excused>>

\* Mutant: the entry of a template that is inactive by now is not deleted.
DeleteIfActive(c) ==
    /\ job[c].step = "delete"
    /\ IF job[c].copy.active THEN cached' = NoTemplate /\ excused' = FALSE
                             ELSE UNCHANGED <<cached, excused>>
    /\ Return(c)
    /\ UNCHANGED <<row, changes>>

\* cache.del; a Redis error fails the call and the entry stays.
Delete(c) ==
    /\ job[c].step = "delete"
    /\ \/ cached' = NoTemplate /\ excused' = FALSE
       \/ UNCHANGED cached /\ excused' = (cached # NoTemplate)
    /\ Return(c)
    /\ UNCHANGED <<row, changes>>

\* The call breaks off: a database error, at a write before or after its
\* commit, or the end of the process.
Abort(c) ==
    /\ job[c].step # "idle"
    /\ \/ /\ UNCHANGED <<row, changes>>
          /\ excused' = (excused \/ (job[c].step = "delete" /\ cached # NoTemplate))
       \/ /\ job[c].step = "insert" /\ ~Exists
          /\ row' = Created
          /\ UNCHANGED <<excused, changes>>
       \/ Commit(c) /\ excused' = (cached # NoTemplate)
    /\ Return(c)
    /\ UNCHANGED cached

-------------------------------------------------------------------------------
(* Specification *)

Init ==
    /\ row = NoTemplate
    /\ cached = NoTemplate
    /\ job = [c \in Callers |-> Idle]
    /\ excused = FALSE
    /\ changes = 0

Next ==
    \/ \E c \in Callers :
          \/ Create(c) \/ Insert(c) \/ CacheTemplate(c)
          \/ FindByCode(c) \/ RenderTemplate(c) \/ Read(c)
          \/ Update(c) \/ Deactivate(c) \/ Write(c) \/ Delete(c) \/ Abort(c)
    \/ Expire

Spec == Init /\ [][Next]_vars

\* Redis expires the entry by itself; no call is bound to go on.
FairSpec == Spec /\ WF_vars(Expire)

-------------------------------------------------------------------------------
(* Properties *)

Steps == {"idle", "insert", "read", "cache", "change", "deactivate", "delete"}

\* Every variable keeps its type, and the entry is never newer than the row.
TypeOK ==
    /\ row \in Templates \cup {NoTemplate}
    /\ cached \in Templates \cup {NoTemplate}
    /\ cached # NoTemplate => Exists /\ cached.rev <= row.rev
    /\ job \in [Callers -> [step : Steps, copy : Templates \cup {NoTemplate}, content : BOOLEAN]]
    /\ excused \in BOOLEAN
    /\ changes \in Nat

\* An entry that differs from the row has a reason: the call that changed the
\* row is about to delete it, or a call stored a copy it had read before, or
\* the delete failed, or that call broke off.  A template that was updated or
\* deactivated is served in no other case (template.service.ts 114-133,
\* 173-177 and 198-203).
StaleHasCause ==
    cached \notin {NoTemplate, row} =>
        \/ excused
        \/ \E c \in Callers : job[c].step = "delete" /\ cached.rev < job[c].copy.rev

\* Calls about to store the copy they have.
Storing == {c \in Callers : job[c].step = "cache"}

DyingOut ==
    Exists /\ ~row.active =>
        /\ ~row'.active
        /\ Storing' \subseteq Storing
        /\ cached' \notin {NoTemplate, cached} =>
              \E c \in Storing \ Storing' : cached' = job[c].copy

\* A deactivated template dies out of the cache: it is not active again, no call
\* gets a copy of it any more, and an entry comes back only from a call that had
\* read the template before and has not stored it yet, once for each such call
\* (template.service.ts 114-133 against 193-203).
DeactivatedDiesOut == [][DyingOut]_vars

\* The version says no more than the content did: it never exceeds one plus
\* the number of changes, and an unchanged template has version 1, however
\* concurrent updates interleave.
VersionWithinChanges ==
    Exists => /\ row.version <= 1 + changes
              /\ row.version = 1 <=> changes = 0

\* Once the row is left alone, the entry is right from some time on.
EventuallyFresh == <>[](cached \in {NoTemplate, row})

\* template.service.ts:165 "Increment version when content changes".
VersionFollowsContent ==
    [][Exists /\ row'.content # row.content => row'.version > row.version]_vars

===============================================================================
