---------------------------- MODULE UserDirectory ----------------------------
(***************************************************************************)
(* One user account: registration through the gateway (register of         *)
(* apps/api-gateway/src/auth/auth.service.ts) and the user service         *)
(* (apps/user-service/src/users/users.service.ts) with its row and the two *)
(* Redis entries of the user, `user:<id>` and `user:email:<email>`.        *)
(* Nothing in the code relates two addresses.                              *)
(*                                                                         *)
(* Clients run concurrently; each action is the code between two awaits.   *)
(* The contents of the row are its revision: how many writes were          *)
(* committed.  A cached copy is the revision it was read at.               *)
(***************************************************************************)
EXTENDS Integers

CONSTANTS
    Clients,      \* clients, each with a password of its own
    NoClient,     \* the owner of an account that does not exist
    MaxWrites     \* bound: committed writes of the row

ASSUME ClientsAssumption ==
    /\ NoClient \notin Clients
    /\ MaxWrites \in Nat

Keys == {"id", "email"}

VARIABLES
    row,        \* the revision of the row, 0 if there is none
    owner,      \* the client whose password hash the row holds
    cached,     \* cached[k]: the revision in Redis under key k, 0 if absent
    job,        \* job[c]: the call client c waits for
    answer,     \* answer[c]: the response to the registration of c
    excused     \* history: the keys whose entry is out of date for a reason that
                \*   the code leaves open: see Fill, Invalidate and Lost

vars == <<row, owner, cached, job, answer, excused>>

Idle == [step |-> "idle", op |-> "none", rev |-> 0]

Goto(c, there) == job' = [job EXCEPT ![c].step = there]
GotoWith(c, there, rev) == job' = [job EXCEPT ![c].step = there, ![c].rev = rev]

\* The call returns or throws; a registration gets its response, unless the
\* client has given up waiting.
Reply(c, a) ==
    /\ job' = [job EXCEPT ![c] = Idle]
    /\ answer' = IF job[c].op = "create" /\ answer[c] = "none"
                 THEN [answer EXCEPT ![c] = a] ELSE answer

-------------------------------------------------------------------------------
(* Redis: get answers null on an error; set and del may fail *)

\* setex: the entry is out of date at once if the row has moved on.
Fill(k, rev) ==
    /\ cached' = [cached EXCEPT ![k] = rev]
    /\ excused' = IF rev = row THEN excused \ {k} ELSE excused \cup {k}

\* Mutant: set without a TTL.
ExpireNever(k) == FALSE /\ UNCHANGED vars

\* The TTL of five minutes.
Expire(k) ==
    /\ cached[k] # 0
    /\ cached' = [cached EXCEPT ![k] = 0]
    /\ excused' = excused \ {k}
    /\ UNCHANGED <<row, owner, job, answer>>

\* A committed write whose invalidation is never tried leaves the entries.
Lost == excused' = excused \cup {k \in Keys : cached[k] # 0}

-------------------------------------------------------------------------------
(* Registration *)

\* POST /auth/register at the gateway, or POST /users at the user service.
Register(c) ==
    /\ job[c].step = "idle"
    /\ answer[c] = "none"
    /\ \E first \in {"gateway", "check"} :
          job' = [job EXCEPT ![c] = [step |-> first, op |-> "create", rev |-> 0]]
    /\ UNCHANGED <<row, owner, cached, answer, excused>>

\* Both services look the address up before they go on.
CheckFree(c, step, next) ==
    /\ job[c].step = step
    /\ IF row # 0 THEN Reply(c, "exists") ELSE Goto(c, next) /\ UNCHANGED answer
    /\ UNCHANGED <<row, owner, cached, excused>>

GatewayCheck(c) == CheckFree(c, "gateway", "check")
ServiceCheck(c) == CheckFree(c, "check", "insert")

\* Mutant: the insert replaces a row with the same address.
Upsert(c) ==
    /\ job[c].step = "insert"
    /\ row' = IF row = 0 THEN 1 ELSE row
    /\ owner' = c
    /\ GotoWith(c, "cache", row')
    /\ UNCHANGED <<cached, answer, excused>>

\* user.create: the address is unique, a second insert throws.
Insert(c) ==
    /\ job[c].step = "insert"
    /\ IF row = 0
       THEN row' = 1 /\ owner' = c /\ GotoWith(c, "cache", 1) /\ UNCHANGED answer
       ELSE UNCHANGED <<row, owner>> /\ Reply(c, "failed")
    /\ UNCHANGED <<cached, excused>>

\* The gateway's request breaks off; the user service goes on.
GiveUp(c) ==
    /\ job[c].op = "create"
    /\ answer[c] = "none"
    /\ answer' = [answer EXCEPT ![c] = "failed"]
    /\ UNCHANGED <<row, owner, cached, job, excused>>

\* What login requires: bcrypt.compare with the hash of the row.
CanLogin(c) == row # 0 /\ owner = c

-------------------------------------------------------------------------------
(* Reading *)

\* get finds nothing, or Redis fails; a hit returns the entry and changes
\* nothing.
Miss(c, k) ==
    /\ job[c].step = "idle"
    /\ job' = [job EXCEPT ![c] = [step |-> "read", op |-> k, rev |-> 0]]
    /\ UNCHANGED <<row, owner, cached, answer, excused>>

FindOne(c)     == Miss(c, "id")
FindByEmail(c) == Miss(c, "email")

\* findUnique; an unknown user is a 404.
ReadRow(c) ==
    /\ job[c].step = "read"
    /\ IF row = 0
       THEN Reply(c, "none")
       ELSE GotoWith(c, IF job[c].op = "email" THEN "fillEmail" ELSE "cache", row) /\ UNCHANGED answer
    /\ UNCHANGED <<row, owner, cached, excused>>

\* findByEmail stores its own key first; there a Redis error fails the call.
FillEmail(c) ==
    /\ job[c].step = "fillEmail"
    /\ \/ Fill("email", job[c].rev) /\ Goto(c, "cache") /\ UNCHANGED answer
       \/ Reply(c, "failed") /\ UNCHANGED <<cached, excused>>
    /\ UNCHANGED <<row, owner>>

\* cacheUser, the end of create, findOne, findByEmail and update: it stores
\* the copy the call has, and swallows Redis errors.
CacheUser(c) ==
    /\ job[c].step = "cache"
    /\ Fill("id", job[c].rev) \/ UNCHANGED <<cached, excused>>
    /\ Reply(c, "created")
    /\ UNCHANGED <<row, owner>>

-------------------------------------------------------------------------------
(* Updating *)

\* update finds the user, or answers 404.
Update(c) ==
    /\ job[c].step = "idle"
    /\ row # 0
    /\ job' = [job EXCEPT ![c] = [step |-> "commit", op |-> "update", rev |-> 0]]
    /\ UNCHANGED <<row, owner, cached, answer, excused>>

\* Mutant: the write is not awaited and does not take place.
CommitNotAwaited(c) ==
    /\ job[c].step = "commit"
    /\ row < MaxWrites
    /\ GotoWith(c, "invalidate", row + 1)
    /\ UNCHANGED <<row, owner, cached, answer, excused>>

Commit(c) ==
    /\ job[c].step = "commit"
    /\ row < MaxWrites
    /\ row' = row + 1
    /\ GotoWith(c, "invalidate", row + 1)
    /\ UNCHANGED <<owner, cached, answer, excused>>

\* Mutant: only the entry under the id is deleted.
InvalidateId(c) ==
    /\ job[c].step = "invalidate"
    /\ cached' = [cached EXCEPT !["id"] = 0]
    /\ excused' = excused \ {"id"}
    /\ Goto(c, "cache")
    /\ UNCHANGED <<row, owner, answer>>

\* invalidateUserCache sends both deletes together and swallows the error of
\* either; update then caches its own result.
Invalidate(c) ==
    /\ job[c].step = "invalidate"
    /\ \E deleted \in SUBSET Keys :
          /\ cached' = [k \in Keys |-> IF k \in deleted THEN 0 ELSE cached[k]]
          /\ excused' = {k \in Keys \ deleted : cached[k] # 0}
    /\ Goto(c, "cache")
    /\ UNCHANGED <<row, owner, answer>>

-------------------------------------------------------------------------------
(* Failures *)

\* A database call throws, a write before or after its commit.
DatabaseFails(c) ==
    /\ job[c].step \in {"gateway", "check", "insert", "read", "commit"}
    /\ \/ UNCHANGED <<row, owner, excused>>
       \/ job[c].step = "insert" /\ row = 0 /\ row' = 1 /\ owner' = c /\ UNCHANGED excused
       \/ job[c].step = "commit" /\ row < MaxWrites /\ row' = row + 1 /\ Lost /\ UNCHANGED owner
    /\ Reply(c, "failed")
    /\ UNCHANGED cached

\* The user service exits and pm2 starts it again.
Crash ==
    LET inService == {c \in Clients : job[c].step \notin {"idle", "gateway"}}
    IN  /\ inService # {}
        /\ job' = [c \in Clients |-> IF c \in inService THEN Idle ELSE job[c]]
        /\ answer' = [c \in Clients |->
               IF c \in inService /\ job[c].op = "create" /\ answer[c] = "none"
               THEN "failed" ELSE answer[c]]
        /\ IF \E c \in inService : job[c].step = "invalidate" THEN Lost ELSE UNCHANGED excused
        /\ UNCHANGED <<row, owner, cached>>

-------------------------------------------------------------------------------
(* Specification *)

Init ==
    /\ row = 0
    /\ owner = NoClient
    /\ cached = [k \in Keys |-> 0]
    /\ job = [c \in Clients |-> Idle]
    /\ answer = [c \in Clients |-> "none"]
    /\ excused = {}

Next ==
    \/ \E c \in Clients :
          \/ Register(c) \/ GatewayCheck(c) \/ ServiceCheck(c) \/ Insert(c) \/ GiveUp(c)
          \/ FindOne(c) \/ FindByEmail(c) \/ ReadRow(c) \/ FillEmail(c) \/ CacheUser(c)
          \/ Update(c) \/ Commit(c) \/ Invalidate(c)
          \/ DatabaseFails(c)
    \/ \E k \in Keys : Expire(k)
    \/ Crash

Spec == Init /\ [][Next]_vars

\* Redis expires entries by itself; no call is bound to go on.
FairSpec == Spec /\ \A k \in Keys : WF_vars(Expire(k))

-------------------------------------------------------------------------------
(* Properties *)

Steps == {"idle", "gateway", "check", "insert", "read", "fillEmail", "cache", "commit",
          "invalidate"}

\* Every variable keeps its type, and no copy is newer than the row.
TypeOK ==
    /\ row \in Nat
    /\ owner \in Clients \cup {NoClient}
    /\ cached \in [Keys -> 0..row]
    /\ job \in [Clients -> [step : Steps, op : {"none", "create", "update"} \cup Keys, rev : 0..row]]
    /\ answer \in [Clients -> {"none", "created", "exists", "failed"}]
    /\ excused \subseteq Keys

\* Whoever is told that the account was created owns it: two clients that
\* register one address together, on both paths, are never both told so, and
\* the password of the one that is told works (auth.service.ts 78-118 and
\* users.service.ts 24-49, the unique address of schema.prisma).
CreatedCanLogin == \A c \in Clients : answer[c] = "created" => CanLogin(c)

\* A cached user that differs from the row has a reason: the update that
\* changed the row is about to delete the entry, or a call stored a copy it
\* had read before (findOne, findByEmail, and update itself), or a delete
\* failed, or the update broke off after its commit.  No other interleaving
\* of the fills, deletes and refills leaves either key out of date.
StaleHasCause ==
    \A k \in Keys :
        cached[k] \notin {0, row} =>
            \/ k \in excused
            \/ \E c \in Clients : job[c].step = "invalidate" /\ cached[k] < job[c].rev

\* Once updates stop, both entries are right for ever from some time on:
\* whatever was left out of date, and whatever late fills follow.
EventuallyFresh == <>[](\A k \in Keys : cached[k] \in {0, row})

===============================================================================
