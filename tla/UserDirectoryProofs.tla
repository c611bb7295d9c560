------------------------- MODULE UserDirectoryProofs -------------------------
(***************************************************************************)
(* Proofs about the safety of UserDirectory for any number of clients and  *)
(* writes.  A client is told "created" by the last step of its call, so    *)
(* the invariant has to know which calls that end there are creations, and *)
(* that the row of such a call is the client's own (Creations).            *)
(***************************************************************************)
EXTENDS UserDirectory, TLAPS

Ops == {"none", "create", "update"} \cup Keys

Jobs(rev) == [step : Steps, op : Ops, rev : 0..rev]

\* A call that ends in "cache" is a creation only if it inserted the row.
Creations ==
    \A c \in Clients :
        /\ job[c].step \in {"commit", "invalidate"} => job[c].op = "update"
        /\ job[c].step \in {"read", "fillEmail"} => job[c].op \in Keys
        /\ job[c].step = "cache" /\ job[c].op = "create" => CanLogin(c)

IInv == TypeOK /\ Creations /\ CreatedCanLogin /\ StaleHasCause

-------------------------------------------------------------------------------
(* Jobs *)

LEMMA IdleJob == Idle \in Jobs(0) /\ Idle.step = "idle" /\ Idle.op = "none" /\ Idle.rev = 0
BY DEF Idle, Jobs, Steps, Ops

\* What a step does to one call and not to the others.
LEMMA GotoTurn ==
    ASSUME TypeOK, NEW c \in Clients, NEW there \in Steps, Goto(c, there)
    PROVE  /\ job'[c].step = there /\ job'[c].op = job[c].op /\ job'[c].rev = job[c].rev
           /\ job'[c] \in Jobs(row)
           /\ \A d \in Clients : d # c => job'[d] = job[d]
           /\ DOMAIN job' = Clients /\ job' = [d \in Clients |-> job'[d]]
BY DEF TypeOK, Goto, Jobs, Ops

LEMMA GotoWithTurn ==
    ASSUME TypeOK, NEW c \in Clients, NEW there \in Steps, NEW rev \in Nat, GotoWith(c, there, rev)
    PROVE  /\ job'[c].step = there /\ job'[c].op = job[c].op /\ job'[c].rev = rev
           /\ job'[c] \in [step : Steps, op : Ops, rev : {rev}]
           /\ \A d \in Clients : d # c => job'[d] = job[d]
           /\ DOMAIN job' = Clients /\ job' = [d \in Clients |-> job'[d]]
BY DEF TypeOK, GotoWith, Ops

LEMMA ReplyTurn ==
    ASSUME TypeOK, NEW c \in Clients, NEW a \in {"none", "created", "exists", "failed"}, Reply(c, a)
    PROVE  /\ job'[c] = Idle
           /\ \A d \in Clients : d # c => job'[d] = job[d]
           /\ DOMAIN job' = Clients /\ job' = [d \in Clients |-> job'[d]]
           /\ answer' \in [Clients -> {"none", "created", "exists", "failed"}]
           /\ \A d \in Clients : d # c => answer'[d] = answer[d]
           /\ answer'[c] = answer[c] \/ (answer'[c] = a /\ job[c].op = "create")
BY DEF TypeOK, Reply

-------------------------------------------------------------------------------
(* Steps of one call *)

Answers == {"none", "created", "exists", "failed"}

\* Only c may turn to another job and get an answer.
OnlyTurn(c) ==
    /\ DOMAIN job' = Clients /\ job' = [d \in Clients |-> job'[d]]
    /\ \A d \in Clients : d # c => job'[d] = job[d]
    /\ answer' \in [Clients -> Answers]
    /\ \A d \in Clients : d # c => answer'[d] = answer[d]

\* What a step must leave behind for the invariant to hold.
LEMMA Kept ==
    ASSUME IInv, NEW c \in Clients, OnlyTurn(c), job'[c] \in Jobs(row'),
           row' \in Nat, row' >= row, owner' \in Clients \cup {NoClient},
           row # 0 => owner' = owner,
           cached' \in [Keys -> 0..row'], excused' \subseteq Keys,
           job'[c].step \in {"commit", "invalidate"} => job'[c].op = "update",
           job'[c].step \in {"read", "fillEmail"} => job'[c].op \in Keys,
           job'[c].step = "cache" /\ job'[c].op = "create" => CanLogin(c)',
           answer'[c] = "created" => CanLogin(c)',
           StaleHasCause'
    PROVE  IInv'
<1> USE DEF IInv
<1>1. row \in Nat /\ job \in [Clients -> Jobs(row)]
  BY DEF TypeOK, Jobs, Ops
<1>2. \A d \in Clients : CanLogin(d) => CanLogin(d)'
  BY <1>1 DEF CanLogin
<1>3. \A d \in Clients : job'[d] \in Jobs(row')
  <2> SUFFICES ASSUME NEW d \in Clients, d # c PROVE job'[d] \in Jobs(row')
    OBVIOUS
  <2>1. job'[d] = job[d] /\ job[d] \in Jobs(row)
    BY <1>1 DEF OnlyTurn
  <2>2. 0..row \subseteq 0..row'
    BY <1>1
  <2> QED
    BY <2>1, <2>2 DEF Jobs
<1>4. job' \in [Clients -> Jobs(row')]
  BY <1>3 DEF OnlyTurn
<1>5. TypeOK'
  BY <1>4 DEF TypeOK, Jobs, Ops, OnlyTurn, Answers
<1>6. Creations'
  <2> SUFFICES ASSUME NEW d \in Clients
               PROVE  /\ job'[d].step \in {"commit", "invalidate"} => job'[d].op = "update"
                      /\ job'[d].step \in {"read", "fillEmail"} => job'[d].op \in Keys
                      /\ job'[d].step = "cache" /\ job'[d].op = "create" => CanLogin(d)'
    BY DEF Creations
  <2>1. CASE d = c
    BY <2>1
  <2>2. CASE d # c
    BY <1>2, <2>2 DEF OnlyTurn, Creations
  <2> QED
    BY <2>1, <2>2
<1>7. CreatedCanLogin'
  BY <1>2 DEF CreatedCanLogin, OnlyTurn
<1> QED
  BY <1>5, <1>6, <1>7

\* A step that leaves the row and the cache alone, and is no invalidation.
LEMMA StaleKept ==
    ASSUME StaleHasCause, NEW c \in Clients, job[c].step # "invalidate",
           \A d \in Clients : d # c => job'[d] = job[d],
           UNCHANGED <<row, cached, excused>>
    PROVE  StaleHasCause'
BY DEF StaleHasCause

\* The step of c that only moves it on.
LEMMA MovesOn ==
    ASSUME IInv, NEW c \in Clients, OnlyTurn(c), job[c].step # "invalidate",
           job'[c] \in Jobs(row), UNCHANGED <<row, owner, cached, excused>>,
           job'[c].step \in {"commit", "invalidate"} => job'[c].op = "update",
           job'[c].step \in {"read", "fillEmail"} => job'[c].op \in Keys,
           job'[c].step = "cache" => job'[c].op # "create",
           answer'[c] \in {answer[c], "exists", "failed", "none"}
    PROVE  IInv'
<1> USE DEF IInv
<1>1. StaleHasCause'
  BY StaleKept DEF OnlyTurn
<1>2. answer'[c] = "created" => CanLogin(c)'
  BY DEF CreatedCanLogin, CanLogin
<1>3. row' >= row /\ row' \in Nat
  BY DEF TypeOK
<1>4. job'[c] \in Jobs(row') /\ cached' \in [Keys -> 0..row']
  BY DEF TypeOK
<1>5. owner' \in Clients \cup {NoClient} /\ excused' \subseteq Keys
  BY DEF TypeOK
<1> QED
  BY <1>1, <1>2, <1>3, <1>4, <1>5, Kept

\* A call that returns without a new account.
LEMMA Returns ==
    ASSUME IInv, NEW c \in Clients, job[c].step # "invalidate",
           NEW a \in {"none", "exists", "failed"}, Reply(c, a),
           UNCHANGED <<row, owner, cached, excused>>
    PROVE  IInv'
<1>1. TypeOK /\ row \in Nat
  BY DEF IInv, TypeOK
<1>2. OnlyTurn(c) /\ job'[c] = Idle /\ answer'[c] \in {answer[c], a}
  BY <1>1, ReplyTurn DEF OnlyTurn, Answers
<1>3. Idle \in Jobs(row)
  BY <1>1, IdleJob DEF Jobs
<1> QED
  BY <1>2, <1>3, IdleJob, MovesOn
-------------------------------------------------------------------------------
(* The invariant is inductive *)

\* Looking the address up.
LEMMA CheckKeeps ==
    ASSUME IInv, NEW c \in Clients, NEW step \in Steps, NEW next \in {"check", "insert"},
           step # "invalidate", CheckFree(c, step, next)
    PROVE  IInv'
<1>1. TypeOK /\ job[c].step # "invalidate" /\ UNCHANGED <<row, owner, cached, excused>>
  BY DEF IInv, CheckFree
<1>2. CASE row # 0
  BY <1>1, <1>2, Returns DEF CheckFree
<1>3. CASE row = 0
  <2>1. Goto(c, next) /\ answer' = answer /\ next \in Steps
    BY <1>3 DEF CheckFree, Steps
  <2>2. /\ job'[c].step = next /\ job'[c] \in Jobs(row)
        /\ \A d \in Clients : d # c => job'[d] = job[d]
        /\ DOMAIN job' = Clients /\ job' = [d \in Clients |-> job'[d]]
    BY <1>1, <2>1, GotoTurn
  <2>3. OnlyTurn(c)
    BY <1>1, <2>1, <2>2 DEF OnlyTurn, TypeOK, Answers
  <2> QED
    BY <1>1, <2>1, <2>2, <2>3, MovesOn
<1> QED
  BY <1>2, <1>3

\* The insert of c, whether or not its call hears of it: the row is new, so
\* nothing is cached and no other client has been told "created".
LEMMA InsertFacts ==
    ASSUME IInv, NEW c \in Clients, row = 0, row' = 1, owner' = c,
           UNCHANGED <<cached, excused>>
    PROVE  /\ row' \in Nat /\ row' >= row /\ owner' \in Clients \cup {NoClient}
           /\ cached' \in [Keys -> 0..row'] /\ excused' \subseteq Keys
           /\ CanLogin(c)' /\ StaleHasCause'
<1> USE DEF IInv
<1>1. cached \in [Keys -> 0..0] /\ excused \subseteq Keys
  BY DEF TypeOK
<1>2. \A k \in Keys : cached'[k] = 0
  BY <1>1
<1>3. cached' \in [Keys -> 0..row']
  BY <1>1
<1>4. StaleHasCause'
  BY <1>2 DEF StaleHasCause
<1> QED
  BY <1>1, <1>3, <1>4 DEF CanLogin

\* The write of an update.
LEMMA CommitKeeps ==
    ASSUME IInv, row' = row + 1, UNCHANGED <<owner, cached>>
    PROVE  /\ row \in Nat /\ row' \in Nat /\ row' >= row
           /\ owner' \in Clients \cup {NoClient} /\ cached' \in [Keys -> 0..row']
           /\ \A k \in Keys : cached'[k] \in Nat /\ cached'[k] < row'
<1>1. /\ row \in Nat /\ owner \in Clients \cup {NoClient} /\ cached \in [Keys -> 0..row]
  BY DEF IInv, TypeOK
<1> QED
  BY <1>1

LEMMA FillKeeps ==
    ASSUME IInv, NEW c \in Clients, NEW k \in Keys, Fill(k, job[c].rev),
           job[c].step # "invalidate",
           \A d \in Clients : d # c => job'[d] = job[d], row' = row
    PROVE  /\ cached' \in [Keys -> 0..row] /\ excused' \subseteq Keys
           /\ StaleHasCause'
<1> USE DEF IInv
<1>1. job[c].rev \in 0..row /\ cached \in [Keys -> 0..row] /\ excused \subseteq Keys
  BY DEF TypeOK
<1>2. cached' \in [Keys -> 0..row] /\ excused' \subseteq Keys
  BY <1>1 DEF Fill
<1>3. cached'[k] = job[c].rev /\ (job[c].rev # row => k \in excused')
  BY <1>1 DEF Fill
<1>4. \A h \in Keys : h # k => cached'[h] = cached[h] /\ (h \in excused' <=> h \in excused)
  BY <1>1 DEF Fill
<1>5. StaleHasCause'
  <2> SUFFICES ASSUME NEW h \in Keys, cached'[h] \notin {0, row'}
               PROVE  \/ h \in excused'
                      \/ \E d \in Clients : job'[d].step = "invalidate" /\ cached'[h] < job'[d].rev
    BY DEF StaleHasCause
  <2>1. CASE h = k
    BY <1>3, <2>1
  <2>2. CASE h # k
    BY <1>4, <2>2 DEF StaleHasCause
  <2> QED
    BY <2>1, <2>2
<1> QED
  BY <1>2, <1>5

LEMMA IInvNext == IInv /\ [Next]_vars => IInv'
<1> SUFFICES ASSUME IInv, [Next]_vars PROVE IInv'
  OBVIOUS
<1> USE DEF IInv
<1>t. /\ row \in Nat /\ owner \in Clients \cup {NoClient} /\ cached \in [Keys -> 0..row]
      /\ job \in [Clients -> Jobs(row)] /\ answer \in [Clients -> Answers] /\ excused \subseteq Keys
  BY DEF TypeOK, Jobs, Ops, Answers
<1>s. /\ Steps = {"idle", "gateway", "check", "insert", "read", "fillEmail", "cache", "commit",
                  "invalidate"}
      /\ Ops = {"none", "create", "update", "id", "email"} /\ Keys = {"id", "email"}
  BY DEF Steps, Ops, Keys
<1>n. row' = row => row' \in Nat /\ row' >= row
  BY <1>t
\* A call begins.
<1>b. ASSUME NEW c \in Clients, job[c].step = "idle", NEW step \in Steps, NEW op \in Ops,
             job' = [job EXCEPT ![c] = [step |-> step, op |-> op, rev |-> 0]],
             UNCHANGED <<row, owner, cached, answer, excused>>,
             step \notin {"cache", "invalidate"},
             step = "commit" => op = "update",
             step \in {"read", "fillEmail"} => op \in Keys
      PROVE  IInv'
  <2> DEFINE j == [step |-> step, op |-> op, rev |-> 0]
  <2>1. j \in Jobs(row) /\ j.step = step /\ j.op = op
    BY <1>t DEF Jobs
  <2>2. job' = [job EXCEPT ![c] = j]
    BY <1>b
  <2> HIDE DEF j
  <2>3. job'[c] = j /\ OnlyTurn(c)
    BY <1>b, <1>t, <2>2 DEF OnlyTurn
  <2> QED
    BY <1>b, <2>1, <2>3, MovesOn
<1>1. ASSUME NEW c \in Clients, Register(c) PROVE IInv'
  BY <1>1, <1>b, <1>s DEF Register
<1>2. ASSUME NEW c \in Clients, FindOne(c) \/ FindByEmail(c) PROVE IInv'
  BY <1>2, <1>b, <1>s DEF FindOne, FindByEmail, Miss
<1>3. ASSUME NEW c \in Clients, Update(c) PROVE IInv'
  BY <1>3, <1>b, <1>s DEF Update
<1>4. ASSUME NEW c \in Clients, GatewayCheck(c) \/ ServiceCheck(c) PROVE IInv'
  BY <1>4, <1>s, CheckKeeps DEF GatewayCheck, ServiceCheck
<1>5. ASSUME NEW c \in Clients, Insert(c) PROVE IInv'
  <2>1. CASE row = 0
    <3>1. /\ row' = 1 /\ owner' = c /\ GotoWith(c, "cache", 1)
          /\ UNCHANGED <<answer, cached, excused>> /\ job[c].step = "insert"
      BY <1>5, <2>1 DEF Insert
    <3>2. /\ job'[c].step = "cache" /\ job'[c] \in [step : Steps, op : Ops, rev : {1}]
          /\ \A d \in Clients : d # c => job'[d] = job[d]
          /\ DOMAIN job' = Clients /\ job' = [d \in Clients |-> job'[d]]
      BY <1>s, <3>1, GotoWithTurn
    <3>3. OnlyTurn(c) /\ job'[c] \in Jobs(row')
      BY <1>t, <3>1, <3>2 DEF OnlyTurn, Jobs
    <3>4. /\ row' \in Nat /\ row' >= row /\ owner' \in Clients \cup {NoClient}
          /\ cached' \in [Keys -> 0..row'] /\ excused' \subseteq Keys
          /\ CanLogin(c)' /\ StaleHasCause'
      BY <2>1, <3>1, InsertFacts
    <3> QED
      BY <2>1, <3>2, <3>3, <3>4, Kept
  <2>2. CASE row # 0
    <3>1. Reply(c, "failed") /\ job[c].step # "invalidate" /\ UNCHANGED <<row, owner, cached, excused>>
      BY <1>5, <2>2 DEF Insert
    <3> QED
      BY <3>1, Returns
  <2> QED
    BY <2>1, <2>2
<1>6. ASSUME NEW c \in Clients, GiveUp(c) PROVE IInv'
  <2>1. /\ answer' = [answer EXCEPT ![c] = "failed"]
        /\ UNCHANGED <<row, owner, cached, job, excused>>
    BY <1>6 DEF GiveUp
  <2>2. OnlyTurn(c) /\ job'[c] = job[c] /\ answer'[c] = "failed"
    BY <1>t, <2>1 DEF OnlyTurn, Answers
  <2>3. StaleHasCause'
    BY <2>1 DEF StaleHasCause
  <2>4. job'[c] \in Jobs(row')
    BY <1>t, <2>1
  <2>5. /\ job'[c].step \in {"commit", "invalidate"} => job'[c].op = "update"
        /\ job'[c].step \in {"read", "fillEmail"} => job'[c].op \in Keys
        /\ job'[c].step = "cache" /\ job'[c].op = "create" => CanLogin(c)'
    BY <2>1 DEF Creations, CanLogin
  <2> QED
    BY <1>n, <1>t, <2>1, <2>2, <2>3, <2>4, <2>5, Kept
<1>7. ASSUME NEW c \in Clients, ReadRow(c) PROVE IInv'
  <2>0. job[c].step = "read" /\ UNCHANGED <<row, owner, cached, excused>>
    BY <1>7 DEF ReadRow
  <2>1. CASE row = 0
    <3>1. Reply(c, "none")
      BY <1>7, <2>1 DEF ReadRow
    <3> QED
      BY <2>0, <3>1, Returns
  <2>2. CASE row # 0
    <3>1. PICK there \in {"fillEmail", "cache"} : GotoWith(c, there, row) /\ answer' = answer
      BY <1>7, <2>2 DEF ReadRow
    <3>2. /\ job'[c].step = there /\ job'[c].op = job[c].op
          /\ job'[c] \in [step : Steps, op : Ops, rev : {row}]
          /\ \A d \in Clients : d # c => job'[d] = job[d]
          /\ DOMAIN job' = Clients /\ job' = [d \in Clients |-> job'[d]]
      BY <1>s, <1>t, <3>1, GotoWithTurn
    <3>3. OnlyTurn(c) /\ job'[c] \in Jobs(row)
      BY <1>t, <3>1, <3>2 DEF OnlyTurn, Jobs
    <3>4. job'[c].op \in Keys
      BY <2>0, <3>2 DEF Creations
    <3> QED
      BY <1>s, <2>0, <3>1, <3>2, <3>3, <3>4, MovesOn
  <2> QED
    BY <2>1, <2>2
<1>8. ASSUME NEW c \in Clients, FillEmail(c) PROVE IInv'
  <2>0. job[c].step = "fillEmail" /\ UNCHANGED <<row, owner>> /\ job[c].op \in Keys
    BY <1>8 DEF FillEmail, Creations
  <2>1. CASE Fill("email", job[c].rev) /\ Goto(c, "cache") /\ UNCHANGED answer
    <3>1. /\ job'[c].step = "cache" /\ job'[c].op = job[c].op /\ job'[c] \in Jobs(row)
          /\ \A d \in Clients : d # c => job'[d] = job[d]
          /\ DOMAIN job' = Clients /\ job' = [d \in Clients |-> job'[d]]
      BY <1>s, <2>1, GotoTurn
    <3>2. OnlyTurn(c) /\ job'[c] \in Jobs(row')
      BY <1>t, <2>0, <2>1, <3>1 DEF OnlyTurn
    <3>3. cached' \in [Keys -> 0..row] /\ excused' \subseteq Keys /\ StaleHasCause'
      BY <1>s, <2>0, <2>1, <3>1, FillKeeps
    <3>4. answer'[c] = "created" => CanLogin(c)'
      BY <2>0, <2>1 DEF CreatedCanLogin, CanLogin
    <3>5. job'[c].op # "create"
      BY <1>s, <2>0, <3>1
    <3>6. cached' \in [Keys -> 0..row']
      BY <2>0, <3>3
    <3> QED
      BY <1>n, <1>t, <2>0, <3>1, <3>2, <3>3, <3>4, <3>5, <3>6, Kept
  <2>2. CASE Reply(c, "failed") /\ UNCHANGED <<cached, excused>>
    BY <2>0, <2>2, Returns
  <2> QED
    BY <1>8, <2>1, <2>2 DEF FillEmail
<1>9. ASSUME NEW c \in Clients, CacheUser(c) PROVE IInv'
  <2>0. job[c].step = "cache" /\ UNCHANGED <<row, owner>> /\ Reply(c, "created")
    BY <1>9 DEF CacheUser
  <2>1. /\ job'[c] = Idle /\ OnlyTurn(c)
        /\ \A d \in Clients : d # c => job'[d] = job[d]
        /\ answer'[c] = answer[c] \/ (answer'[c] = "created" /\ job[c].op = "create")
    BY <2>0, ReplyTurn DEF OnlyTurn, Answers
  <2>2. answer'[c] = "created" => CanLogin(c)'
    BY <2>0, <2>1 DEF CreatedCanLogin, Creations, CanLogin
  <2>3. cached' \in [Keys -> 0..row'] /\ excused' \subseteq Keys /\ StaleHasCause'
    <3>1. CASE Fill("id", job[c].rev)
      BY <1>s, <2>0, <2>1, <3>1, FillKeeps
    <3>2. CASE UNCHANGED <<cached, excused>>
      BY <1>t, <2>0, <2>1, <3>2, StaleKept
    <3> QED
      BY <1>9, <3>1, <3>2 DEF CacheUser
  <2>4. job'[c] \in Jobs(row')
    BY <1>t, <2>0, <2>1, IdleJob DEF Jobs
  <2> QED
    BY <1>n, <1>t, <2>0, <2>1, <2>2, <2>3, <2>4, IdleJob, Kept
<1>10. ASSUME NEW c \in Clients, Commit(c) PROVE IInv'
  <2>1. /\ row' = row + 1 /\ GotoWith(c, "invalidate", row + 1)
        /\ UNCHANGED <<owner, cached, answer, excused>> /\ job[c].step = "commit"
    BY <1>10 DEF Commit
  <2>2. /\ row' \in Nat /\ row' >= row /\ owner' \in Clients \cup {NoClient}
        /\ cached' \in [Keys -> 0..row']
        /\ \A k \in Keys : cached'[k] \in Nat /\ cached'[k] < row'
    BY <2>1, CommitKeeps
  <2>3. /\ job'[c].step = "invalidate" /\ job'[c].op = job[c].op /\ job'[c].rev = row'
        /\ job'[c] \in [step : Steps, op : Ops, rev : {row'}]
        /\ \A d \in Clients : d # c => job'[d] = job[d]
        /\ DOMAIN job' = Clients /\ job' = [d \in Clients |-> job'[d]]
    BY <1>s, <2>1, <2>2, GotoWithTurn
  <2>4. OnlyTurn(c) /\ job'[c] \in Jobs(row')
    BY <1>t, <2>1, <2>2, <2>3 DEF OnlyTurn, Jobs
  <2>5. StaleHasCause'
    BY <2>2, <2>3 DEF StaleHasCause
  <2>6. job'[c].op = "update"
    BY <2>1, <2>3 DEF Creations
  <2>7. answer'[c] = "created" => CanLogin(c)'
    BY <1>t, <2>1 DEF CreatedCanLogin, CanLogin
  <2> QED
    BY <1>t, <2>1, <2>2, <2>3, <2>4, <2>5, <2>6, <2>7, Kept
<1>11. ASSUME NEW c \in Clients, Invalidate(c) PROVE IInv'
  <2>1. PICK deleted \in SUBSET Keys :
           /\ cached' = [k \in Keys |-> IF k \in deleted THEN 0 ELSE cached[k]]
           /\ excused' = {k \in Keys \ deleted : cached[k] # 0}
    BY <1>11 DEF Invalidate
  <2>2. job[c].step = "invalidate" /\ Goto(c, "cache") /\ UNCHANGED <<row, owner, answer>>
    BY <1>11 DEF Invalidate
  <2>3. /\ job'[c].step = "cache" /\ job'[c].op = job[c].op /\ job'[c] \in Jobs(row)
        /\ \A d \in Clients : d # c => job'[d] = job[d]
        /\ DOMAIN job' = Clients /\ job' = [d \in Clients |-> job'[d]]
    BY <1>s, <2>2, GotoTurn
  <2>4. OnlyTurn(c) /\ job'[c] \in Jobs(row') /\ job'[c].op = "update"
    BY <1>t, <2>2, <2>3 DEF OnlyTurn, Creations
  <2>5. cached' \in [Keys -> 0..row'] /\ excused' \subseteq Keys
    BY <1>t, <2>1, <2>2
  <2>6. \A k \in Keys : cached'[k] # 0 => k \in excused'
    BY <1>t, <2>1
  <2>7. StaleHasCause'
    BY <2>6 DEF StaleHasCause
  <2>8. answer'[c] = "created" => CanLogin(c)'
    BY <2>2 DEF CreatedCanLogin, CanLogin
  <2> QED
    BY <1>n, <1>t, <2>2, <2>3, <2>4, <2>5, <2>7, <2>8, Kept
<1>12. ASSUME NEW c \in Clients, DatabaseFails(c) PROVE IInv'
  <2>0. /\ job[c].step \in {"gateway", "check", "insert", "read", "commit"}
        /\ Reply(c, "failed") /\ UNCHANGED cached
    BY <1>12 DEF DatabaseFails
  <2>1. CASE UNCHANGED <<row, owner, excused>>
    BY <2>0, <2>1, Returns
  <2>2. /\ job'[c] = Idle /\ OnlyTurn(c)
        /\ \A d \in Clients : d # c => job'[d] = job[d]
        /\ answer'[c] \in {answer[c], "failed"}
    BY <2>0, ReplyTurn DEF OnlyTurn, Answers
  <2>3. row' \in Nat => job'[c] \in Jobs(row')
    BY <2>2, IdleJob DEF Jobs
  <2>4. CASE row = 0 /\ row' = 1 /\ owner' = c /\ UNCHANGED excused
    <3>1. /\ row' \in Nat /\ row' >= row /\ owner' \in Clients \cup {NoClient}
          /\ cached' \in [Keys -> 0..row'] /\ excused' \subseteq Keys
          /\ CanLogin(c)' /\ StaleHasCause'
      BY <2>0, <2>4, InsertFacts
    <3> QED
      BY <2>2, <2>3, <2>4, <3>1, IdleJob, Kept
  <2>5. CASE row' = row + 1 /\ Lost /\ UNCHANGED owner
    <3>1. /\ row' \in Nat /\ row' >= row /\ owner' \in Clients \cup {NoClient}
          /\ cached' \in [Keys -> 0..row']
      BY <2>0, <2>5, CommitKeeps
    <3>2. excused' \subseteq Keys /\ \A k \in Keys : cached'[k] # 0 => k \in excused'
      BY <1>t, <2>0, <2>5 DEF Lost
    <3>3. StaleHasCause'
      BY <3>2 DEF StaleHasCause
    <3>4. answer'[c] = "created" => CanLogin(c)'
      BY <1>t, <2>2, <2>5 DEF CreatedCanLogin, CanLogin
    <3> QED
      BY <2>2, <2>3, <2>5, <3>1, <3>2, <3>3, <3>4, IdleJob, Kept
  <2> QED
    BY <1>12, <2>1, <2>4, <2>5 DEF DatabaseFails
<1>13. ASSUME NEW k \in Keys, Expire(k) PROVE IInv'
  <2>1. /\ cached' = [cached EXCEPT ![k] = 0] /\ excused' = excused \ {k}
        /\ UNCHANGED <<row, owner, job, answer>>
    BY <1>13 DEF Expire
  <2>2. TypeOK'
    <3>1. cached' \in [Keys -> 0..row]
      BY <1>t, <2>1
    <3> QED
      BY <2>1, <3>1 DEF TypeOK
  <2>3. Creations' /\ CreatedCanLogin'
    BY <2>1 DEF Creations, CreatedCanLogin, CanLogin
  <2>4. /\ cached'[k] = 0
        /\ \A h \in Keys : h # k => cached'[h] = cached[h] /\ (h \in excused' <=> h \in excused)
    BY <1>t, <2>1
  <2>5. StaleHasCause'
    BY <2>1, <2>4 DEF StaleHasCause
  <2> QED
    BY <2>2, <2>3, <2>5
<1>14. ASSUME Crash PROVE IInv'
  <2> DEFINE inService == {c \in Clients : job[c].step \notin {"idle", "gateway"}}
  <2>1. /\ job' = [c \in Clients |-> IF c \in inService THEN Idle ELSE job[c]]
        /\ answer' = [c \in Clients |->
               IF c \in inService /\ job[c].op = "create" /\ answer[c] = "none"
               THEN "failed" ELSE answer[c]]
        /\ UNCHANGED <<row, owner, cached>>
    BY <1>14 DEF Crash
  <2>2. IF \E c \in inService : job[c].step = "invalidate" THEN Lost ELSE UNCHANGED excused
    BY <1>14 DEF Crash
  <2>3. Idle \in Jobs(row)
    BY <1>t, IdleJob DEF Jobs
  <2>4. \A c \in Clients : job'[c] \in {Idle, job[c]} /\ answer'[c] \in {"failed", answer[c]}
    BY <2>1
  <2>5. TypeOK'
    <3>1. job' \in [Clients -> Jobs(row')]
      BY <1>t, <2>1, <2>3
    <3>2. answer' \in [Clients -> Answers]
      BY <1>t, <2>1 DEF Answers
    <3>3. excused' \subseteq Keys
      BY <1>t, <2>2 DEF Lost
    <3> QED
      BY <1>t, <2>1, <3>1, <3>2, <3>3 DEF TypeOK, Jobs, Ops, Answers
  <2>6. Creations' /\ CreatedCanLogin'
    BY <2>1, <2>4, IdleJob DEF Creations, CreatedCanLogin, CanLogin
  <2>7. StaleHasCause'
    <3>1. CASE \E c \in inService : job[c].step = "invalidate"
      BY <2>1, <2>2, <3>1 DEF Lost, StaleHasCause
    <3>2. CASE ~\E c \in inService : job[c].step = "invalidate"
      <4>1. \A c \in Clients : job[c].step # "invalidate"
        BY <3>2
      <4> QED
        BY <2>1, <2>2, <3>2, <4>1 DEF StaleHasCause
    <3> QED
      BY <3>1, <3>2
  <2> QED
    BY <2>5, <2>6, <2>7
<1>15. ASSUME UNCHANGED vars PROVE IInv'
  BY <1>15 DEF vars, TypeOK, Creations, CreatedCanLogin, StaleHasCause, CanLogin
<1> QED
  BY <1>1, <1>2, <1>3, <1>4, <1>5, <1>6, <1>7, <1>8, <1>9, <1>10, <1>11, <1>12, <1>13,
     <1>14, <1>15 DEF Next

LEMMA InitIInv == Init => IInv
<1> SUFFICES ASSUME Init PROVE IInv
  OBVIOUS
<1>1. TypeOK
  BY IdleJob DEF Init, TypeOK, Jobs, Ops
<1>2. Creations /\ CreatedCanLogin /\ StaleHasCause
  BY IdleJob DEF Init, Creations, CreatedCanLogin, StaleHasCause
<1> QED
  BY <1>1, <1>2 DEF IInv

-------------------------------------------------------------------------------
(* Theorems *)

\* The inductive invariant holds of every behaviour.
THEOREM Invariance == Spec => []IInv
BY InitIInv, IInvNext, PTL DEF Spec

\* Every variable keeps its type, and no cached copy is newer than the row.
THEOREM TypeCorrect == Spec => []TypeOK
<1>1. IInv => TypeOK
  BY DEF IInv
<1> QED
  BY Invariance, <1>1, PTL

\* Of any number of clients that register one address, through the gateway or
\* at the user service, at most one is told "created", and its password works.
THEOREM CreatedOwns == Spec => []CreatedCanLogin
<1>1. IInv => CreatedCanLogin
  BY DEF IInv
<1> QED
  BY Invariance, <1>1, PTL

\* A stale entry under either key always has one of the causes that the code
\* leaves open, for any number of calls and updates.
THEOREM StaleEntriesHaveCause == Spec => []StaleHasCause
<1>1. IInv => StaleHasCause
  BY DEF IInv
<1> QED
  BY Invariance, <1>1, PTL

-------------------------------------------------------------------------------
(* Late copies                                                             *)

\* Call c has a copy of the row that it may store, and the row has moved on.
Late(c) ==
    /\ job[c].step \in {"fillEmail", "cache", "invalidate"}
    /\ job[c].rev # row

\* Only a write of the row makes a copy late, and an entry that is out of date
\* was so before, unless the row was written or a late copy was stored: with no
\* late copy and no stale entry left, both keys stay right until the next write,
\* whatever calls read, fill, delete, fail or crash (users.service.ts 51-72,
\* 94-98, 172-176 and the helpers of the cache).
StaleOnlyFromLate ==
    row' = row =>
        /\ \A c \in Clients : Late(c)' => Late(c)
        /\ \A k \in Keys :
               cached'[k] \notin {0, row} =>
                   \/ cached'[k] = cached[k]
                   \/ \E c \in Clients : Late(c) /\ cached'[k] = job[c].rev

\* A step of call c that has no late copy afterwards, unless it had one, and
\* that stores at most the copy it has.
LEMMA LateTurn ==
    ASSUME NEW c \in Clients, row' = row,
           \A d \in Clients : d # c => job'[d] = job[d],
           Late(c)' => Late(c),
           \A k \in Keys : \/ cached'[k] \in {0, cached[k]}
                           \/ cached'[k] = job[c].rev /\ job[c].step \in {"fillEmail", "cache"}
    PROVE  StaleOnlyFromLate
<1>1. \A d \in Clients : Late(d)' => Late(d)
  <2> SUFFICES ASSUME NEW d \in Clients, d # c, Late(d)' PROVE Late(d)
    OBVIOUS
  <2> QED
    BY DEF Late
<1>2. ASSUME NEW k \in Keys, cached'[k] \notin {0, row}, cached'[k] # cached[k]
      PROVE  Late(c) /\ cached'[k] = job[c].rev
  BY <1>2 DEF Late
<1> QED
  BY <1>1, <1>2 DEF StaleOnlyFromLate

LEMMA LateNext == IInv /\ [Next]_vars => StaleOnlyFromLate
<1> SUFFICES ASSUME IInv, [Next]_vars, row' = row PROVE StaleOnlyFromLate
  BY DEF StaleOnlyFromLate
<1>t. /\ TypeOK /\ row \in Nat /\ cached \in [Keys -> 0..row] /\ job \in [Clients -> Jobs(row)]
  BY DEF IInv, TypeOK, Jobs, Ops
<1>s. Steps = {"idle", "gateway", "check", "insert", "read", "fillEmail", "cache", "commit",
               "invalidate"}
  BY DEF Steps
\* A call begins, moves on or returns without storing anything.
<1>a. ASSUME NEW c \in Clients, UNCHANGED cached, \A d \in Clients : d # c => job'[d] = job[d],
             Late(c)' => Late(c)
      PROVE  StaleOnlyFromLate
  BY <1>a, LateTurn
<1>r. ASSUME NEW c \in Clients, NEW a \in Answers, Reply(c, a)
      PROVE  ~Late(c)' /\ \A d \in Clients : d # c => job'[d] = job[d]
  BY <1>r, <1>t, ReplyTurn, IdleJob DEF Answers, Late
<1>b. ASSUME NEW c \in Clients, NEW step \in {"gateway", "check", "read", "commit"}, NEW op, UNCHANGED cached,
             job' = [job EXCEPT ![c] = [step |-> step, op |-> op, rev |-> 0]]
      PROVE  StaleOnlyFromLate
  <2> DEFINE j == [step |-> step, op |-> op, rev |-> 0]
  <2>1. j.step = step
    OBVIOUS
  <2>2. job' = [job EXCEPT ![c] = j]
    BY <1>b
  <2> HIDE DEF j
  <2>3. job'[c] = j /\ \A d \in Clients : d # c => job'[d] = job[d]
    BY <1>t, <2>2
  <2> QED
    BY <1>a, <1>b, <2>1, <2>3 DEF Late
<1>1. ASSUME NEW c \in Clients, Register(c) \/ Update(c) \/ FindOne(c) \/ FindByEmail(c)
      PROVE  StaleOnlyFromLate
  BY <1>1, <1>b DEF Register, Update, FindOne, FindByEmail, Miss
<1>2. ASSUME NEW c \in Clients, GatewayCheck(c) \/ ServiceCheck(c) PROVE StaleOnlyFromLate
  <2>1. PICK step \in {"gateway", "check"}, next \in {"check", "insert"} : CheckFree(c, step, next)
    BY <1>2 DEF GatewayCheck, ServiceCheck
  <2>2. CASE Reply(c, "exists")
    BY <1>a, <1>r, <2>1, <2>2 DEF CheckFree, Answers
  <2>3. CASE Goto(c, next)
    BY <1>a, <1>s, <1>t, <2>1, <2>3, GotoTurn DEF CheckFree, Late
  <2> QED
    BY <2>1, <2>2, <2>3 DEF CheckFree
<1>3. ASSUME NEW c \in Clients, Insert(c) PROVE StaleOnlyFromLate
  <2>1. Reply(c, "failed") /\ UNCHANGED cached
    BY <1>3 DEF Insert
  <2> QED
    BY <1>a, <1>r, <2>1 DEF Answers
<1>4. ASSUME NEW c \in Clients, GiveUp(c) PROVE StaleOnlyFromLate
  BY <1>4, <1>a DEF GiveUp, Late
<1>5. ASSUME NEW c \in Clients, ReadRow(c) PROVE StaleOnlyFromLate
  <2>1. CASE Reply(c, "none")
    BY <1>5, <1>a, <1>r, <2>1 DEF ReadRow, Answers
  <2>2. CASE row # 0
    <3>1. PICK there \in {"fillEmail", "cache"} : GotoWith(c, there, row)
      BY <1>5, <2>2 DEF ReadRow
    <3>2. job'[c].rev = row /\ \A d \in Clients : d # c => job'[d] = job[d]
      BY <1>s, <1>t, <3>1, GotoWithTurn
    <3> QED
      BY <1>5, <1>a, <3>2 DEF ReadRow, Late
  <2> QED
    BY <1>5, <2>1, <2>2 DEF ReadRow
<1>6. ASSUME NEW c \in Clients, FillEmail(c) PROVE StaleOnlyFromLate
  <2>0. job[c].step = "fillEmail"
    BY <1>6 DEF FillEmail
  <2>1. CASE Reply(c, "failed") /\ UNCHANGED cached
    BY <1>a, <1>r, <2>1 DEF Answers
  <2>2. CASE Fill("email", job[c].rev) /\ Goto(c, "cache")
    <3>1. job'[c].rev = job[c].rev /\ \A d \in Clients : d # c => job'[d] = job[d]
      BY <1>s, <1>t, <2>2, GotoTurn
    <3>2. \A k \in Keys : cached'[k] \in {cached[k], job[c].rev}
      BY <1>t, <2>2 DEF Fill, Keys
    <3>3. Late(c)' => Late(c)
      BY <2>0, <3>1 DEF Late
    <3> QED
      BY <2>0, <3>1, <3>2, <3>3, LateTurn
  <2> QED
    BY <1>6, <2>1, <2>2 DEF FillEmail
<1>7. ASSUME NEW c \in Clients, CacheUser(c) PROVE StaleOnlyFromLate
  <2>0. job[c].step = "cache" /\ Reply(c, "created")
    BY <1>7 DEF CacheUser
  <2>1. ~Late(c)' /\ \A d \in Clients : d # c => job'[d] = job[d]
    BY <1>r, <2>0 DEF Answers
  <2>2. \A k \in Keys : cached'[k] \in {cached[k], job[c].rev}
    BY <1>7, <1>t DEF CacheUser, Fill, Keys
  <2> QED
    BY <2>0, <2>1, <2>2, LateTurn
<1>8. ASSUME NEW c \in Clients PROVE ~Commit(c)
  BY <1>t DEF Commit
<1>9. ASSUME NEW c \in Clients, Invalidate(c) PROVE StaleOnlyFromLate
  <2>0. job[c].step = "invalidate" /\ Goto(c, "cache")
    BY <1>9 DEF Invalidate
  <2>1. job'[c].rev = job[c].rev /\ \A d \in Clients : d # c => job'[d] = job[d]
    BY <1>s, <1>t, <2>0, GotoTurn
  <2>2. \A k \in Keys : cached'[k] \in {0, cached[k]}
    BY <1>9 DEF Invalidate
  <2>3. Late(c)' => Late(c)
    BY <2>0, <2>1 DEF Late
  <2> QED
    BY <2>1, <2>2, <2>3, LateTurn
<1>10. ASSUME NEW c \in Clients, DatabaseFails(c) PROVE StaleOnlyFromLate
  BY <1>10, <1>a, <1>r DEF DatabaseFails, Answers
<1>11. ASSUME \A c \in Clients : job'[c] \in {Idle, job[c]},
              \A k \in Keys : cached'[k] \in {0, cached[k]}
       PROVE  StaleOnlyFromLate
  <2>1. \A c \in Clients : Late(c)' => Late(c)
    BY <1>11, IdleJob DEF Late
  <2> QED
    BY <1>11, <2>1 DEF StaleOnlyFromLate
<1>12. ASSUME NEW k \in Keys, Expire(k) PROVE StaleOnlyFromLate
  BY <1>11, <1>12, <1>t DEF Expire
<1>13. ASSUME Crash PROVE StaleOnlyFromLate
  BY <1>11, <1>13 DEF Crash
<1>14. ASSUME UNCHANGED vars PROVE StaleOnlyFromLate
  BY <1>11, <1>14 DEF vars
<1> QED
  BY <1>1, <1>2, <1>3, <1>4, <1>5, <1>6, <1>7, <1>8, <1>9, <1>10, <1>12, <1>13, <1>14 DEF Next

\* For any number of clients and updates: the safety half of EventuallyFresh.
THEOREM LateCopiesDwindle == Spec => [][StaleOnlyFromLate]_vars
BY LateNext, Invariance, PTL DEF Spec

===============================================================================
