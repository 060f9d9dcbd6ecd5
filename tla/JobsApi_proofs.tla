--------------------------- MODULE JobsApi_proofs ---------------------------
(***************************************************************************)
(* Theorems about the requests of one principal: what submissions are      *)
(* answered and what publications leave on GitHub, for any number of       *)
(* requests at a time, of keys, bodies, names and jobs, any limit of       *)
(* active jobs and any number of requests that are cut off. And about what *)
(* is read beside them: who a key stands for, and the pages of a list.     *)
(***************************************************************************)
EXTENDS JobReads, FiniteSetTheorems, WellFoundedInduction, TLAPS

-----------------------------------------------------------------------------
(* The invariant of the submissions                                        *)

RequestState ==
  [pc : PC, job : Jobs \cup {0}, key : Keys \cup {NoKey}, body : Bodies \cup {0},
   name : Names \cup {0}, call : 1..Len(Calls), tries : 0..Retries,
   waits : 0..RefAttempts - 1, result : {"null", "published", "failed"}]

\* Requests that may still insert a job, and the jobs there have ever been.
Arriving(q) == q.pc \in {"lookup", "count", "insert", "winner"} /\ q.job = 0
Arrivals    == {r \in Requests : Arriving(request[r])}
Given       == {j \in Jobs : status[j] # "none"}

\* What a handler holds at its place in the code.
HandlerFacts(q) ==
  /\ q.pc \in {"lookup", "winner"} => q.key # NoKey
  /\ q.pc \in {"lookup", "insert", "winner"} => q.job = 0
  /\ q.pc \in {"requeue", "answer", "delete", "claim"} \cup Publishing => q.job # 0
  /\ q.pc \in {"claim"} \cup Publishing => q.name \in Names
  /\ q.job # 0 => status[q.job] # "none"
  /\ q.pc = "answer" => key[q.job] = q.key /\ body[q.job] = q.body

\* Every job was somebody's submission: there is a row left for every request
\* that may still insert one.
RowsLeft ==
  /\ Cardinality(Arrivals) + Cardinality(Given) <= submits
  /\ submits <= MaxJobs

\* The unique index on owner and key.
KeysUnique ==
  \A i, j \in Jobs :
    i # j /\ key[i] = key[j] /\ key[i] # NoKey => status[i] \in Gone \/ status[j] \in Gone

\* What has been answered is what the job's row holds, or held.
TrueAnswer(a) == status[a.job] # "none" /\ key[a.job] = a.key /\ body[a.job] = a.body

SubmissionInv ==
  /\ TypeOK
  /\ \A r \in Requests : HandlerFacts(request[r])
  /\ RowsLeft
  /\ ActiveBounded
  /\ KeysUnique
  /\ \A a \in answers : TrueAnswer(a)

-----------------------------------------------------------------------------
(* Counting requests and jobs                                              *)

LEMMA JobsFinite ==
  /\ IsFiniteSet(Jobs) /\ Cardinality(Jobs) = MaxJobs
  /\ 0 \notin Jobs
<1>1. 1 \in Int /\ MaxJobs \in Int /\ MaxJobs \in Nat
  BY BoundsAssumption
<1>2. IsFiniteSet(1..MaxJobs)
     /\ Cardinality(1..MaxJobs) = IF 1 > MaxJobs THEN 0 ELSE MaxJobs - 1 + 1
  BY <1>1, FS_Interval
<1> QED
  BY <1>1, <1>2 DEF Jobs

LEMMA CountIsNat ==
  ASSUME NEW S, IsFiniteSet(S), NEW T \in SUBSET S
  PROVE  IsFiniteSet(T) /\ Cardinality(T) \in Nat /\ Cardinality(T) <= Cardinality(S)
  BY FS_Subset, FS_CardinalityType

LEMMA NoMore ==
  ASSUME NEW S, IsFiniteSet(S), NEW T \in SUBSET S
  PROVE  Cardinality(T) <= Cardinality(S)
  BY FS_Subset

LEMMA OneMore ==
  ASSUME NEW S, IsFiniteSet(S), NEW x, NEW T \in SUBSET (S \cup {x})
  PROVE  Cardinality(T) <= Cardinality(S) + 1
<1>1. IsFiniteSet(S \cup {x}) /\ Cardinality(S \cup {x}) \in {Cardinality(S), Cardinality(S) + 1}
  BY FS_AddElement
<1>2. Cardinality(T) <= Cardinality(S \cup {x}) /\ IsFiniteSet(T)
  BY <1>1, FS_Subset
<1>3. Cardinality(S) \in Nat /\ Cardinality(T) \in Nat
  BY <1>2, FS_CardinalityType
<1> QED
  BY <1>1, <1>2, <1>3

LEMMA OneLess ==
  ASSUME NEW S, IsFiniteSet(S), NEW x \in S, NEW T \in SUBSET (S \ {x})
  PROVE  Cardinality(T) + 1 <= Cardinality(S)
<1>1. IsFiniteSet(S \ {x}) /\ Cardinality(S \ {x}) = Cardinality(S) - 1
  BY FS_RemoveElement
<1>2. Cardinality(T) <= Cardinality(S \ {x}) /\ IsFiniteSet(T)
  BY <1>1, FS_Subset
<1>3. Cardinality(S) \in Nat /\ Cardinality(T) \in Nat
  BY <1>2, FS_CardinalityType
<1> QED
  BY <1>1, <1>2, <1>3

-----------------------------------------------------------------------------
(* Steps that leave the rows alone                                         *)

Moves(r, q) == request' = [request EXCEPT ![r] = q]

LEMMA OneMoves ==
  ASSUME TypeOK, NEW r \in Requests, NEW q \in RequestState, Moves(r, q)
  PROVE  /\ RequestTypes' /\ request'[r] = q
         /\ \A s \in Requests \ {r} : request'[s] = request[s]
  BY DEF TypeOK, RequestTypes, RequestState, Moves

LEMMA StateOf ==
  ASSUME TypeOK, NEW r \in Requests
  PROVE  request[r] \in RequestState
  BY DEF TypeOK, RequestTypes, RequestState

LEMMA IdleState == Idle \in RequestState /\ HandlerFacts(Idle) /\ ~Arriving(Idle)
  BY BoundsAssumption DEF Idle, RequestState, HandlerFacts, Arriving, PC, Calls, Publishing

\* A request goes from one place to another: it arrives with a submission of its
\* own, and passes the limit only while there is room.
LEMMA HandlerMoves ==
  ASSUME SubmissionInv, NEW r \in Requests, NEW q \in RequestState, Moves(r, q),
         UNCHANGED <<status, key, body>>,
         HandlerFacts(q),
         \/ (Arriving(q) => Arriving(request[r])) /\ submits' = submits
         \/ submits < MaxJobs /\ submits' = submits + 1,
         q.pc \in {"insert", "requeue"} =>
           request[r].pc \in {"insert", "requeue"} \/ Cardinality(ActiveJobs) < Limit,
         answers' \in SUBSET [key : Keys \cup {NoKey}, body : Bodies \cup {0}, job : Jobs],
         \A a \in answers' \ answers : TrueAnswer(a),
         publication' \in [Jobs -> {"null", "publishing", "published", "failed"}],
         maker' \in [Names -> Jobs \cup {0}], commits' \in SUBSET (Jobs \X Names),
         pulls' \in [Jobs -> Nat], orphaned' \in SUBSET Jobs, others' \in Nat, stops' \in Nat
  PROVE  SubmissionInv'
<1>0. TypeOK
  BY DEF SubmissionInv
<1>1. /\ RequestTypes' /\ request'[r] = q
      /\ \A s \in Requests \ {r} : request'[s] = request[s]
  BY <1>0, OneMoves
<1>2. submits \in Nat /\ MaxJobs \in Nat /\ Limit \in Nat
  BY <1>0, BoundsAssumption DEF TypeOK
<1>3. TypeOK'
  BY <1>0, <1>1, <1>2 DEF TypeOK
<1>4. \A s \in Requests : HandlerFacts(request[s])'
  BY <1>1 DEF SubmissionInv, HandlerFacts
<1>5. Given' = Given /\ ActiveJobs' = ActiveJobs
  BY DEF Given, ActiveJobs
<1>6. RowsLeft'
  <2>1. PICK a \in Nat, b \in Nat, g \in Nat :
          a = Cardinality(Arrivals) /\ b = Cardinality(Arrivals') /\ g = Cardinality(Given)
    BY SetsAssumption, JobsFinite, CountIsNat DEF Arrivals, Given
  <2>2. a + g <= submits /\ submits <= MaxJobs
    BY <2>1 DEF SubmissionInv, RowsLeft
  <2>3. IsFiniteSet(Arrivals)
    BY SetsAssumption, CountIsNat DEF Arrivals
  <2>4. CASE (Arriving(q) => Arriving(request[r])) /\ submits' = submits
    <3>1. Arrivals' \subseteq Arrivals
      BY <1>1, <2>4 DEF Arrivals
    <3>2. b <= a
      BY <2>1, <2>3, <3>1, NoMore
    <3> QED BY <1>2, <1>5, <2>1, <2>2, <2>4, <3>2 DEF RowsLeft
  <2>5. CASE submits < MaxJobs /\ submits' = submits + 1
    <3>1. Arrivals' \subseteq Arrivals \cup {r}
      BY <1>1 DEF Arrivals
    <3>2. b <= a + 1
      BY <2>1, <2>3, <3>1, OneMore
    <3> QED BY <1>2, <1>5, <2>1, <2>2, <2>5, <3>2 DEF RowsLeft
  <2> QED BY <2>4, <2>5
<1>7. ActiveBounded'
  <2>1. PICK p \in Nat, n \in Nat, m \in Nat, k \in Nat :
          /\ p = Cardinality(Passed) /\ n = Cardinality(Passed')
          /\ m = Cardinality(ActiveJobs) /\ k = Cardinality(Requests)
          /\ n <= k
    BY SetsAssumption, JobsFinite, CountIsNat, FS_CardinalityType DEF Passed, ActiveJobs
  <2>2. m + p < Limit + k
    BY <2>1 DEF SubmissionInv, ActiveBounded
  <2>3. CASE m < Limit
    BY <1>2, <1>5, <2>1, <2>3 DEF ActiveBounded
  <2>4. CASE q.pc \in {"insert", "requeue"} => request[r].pc \in {"insert", "requeue"}
    <3>1. Passed' \subseteq Passed
      BY <1>1, <2>4 DEF Passed
    <3>2. IsFiniteSet(Passed)
      BY SetsAssumption, CountIsNat DEF Passed
    <3>3. n <= p
      BY <2>1, <3>1, <3>2, NoMore
    <3> QED BY <1>2, <1>5, <2>1, <2>2, <3>3 DEF ActiveBounded
  <2> QED BY <2>1, <2>3, <2>4
<1>8. KeysUnique'
  BY DEF SubmissionInv, KeysUnique
<1>9. \A a \in answers' : TrueAnswer(a)'
  BY DEF SubmissionInv, TrueAnswer
<1> QED
  BY <1>3, <1>4, <1>6, <1>7, <1>8, <1>9 DEF SubmissionInv

-----------------------------------------------------------------------------
(* Steps that change a row                                                 *)

\* One job's status moves, and one request may go idle with it: the sum of active
\* jobs and requests past the limit does not grow.
LEMMA RowMoves ==
  ASSUME SubmissionInv, NEW j \in Jobs, status[j] # "none",
         NEW to \in Active \cup Terminal \cup {"deleted"},
         status' = [status EXCEPT ![j] = to],
         status[j] = "deleted" => to = "deleted",
         UNCHANGED <<key, body, publication, github, past, bounds>>,
         \/ to \in Active => status[j] \in Active
         \/ \E r \in Passed : request'[r] = Idle,
         RequestTypes',
         \A r \in Requests : request'[r] \in {request[r], Idle}
  PROVE  SubmissionInv'
<1>0. TypeOK /\ Limit \in Nat /\ IsFiniteSet(Requests)
  BY BoundsAssumption, SetsAssumption DEF SubmissionInv, TypeOK
<1>1. /\ status' \in [Jobs -> Active \cup Terminal \cup Gone] /\ status'[j] = to
      /\ \A i \in Jobs \ {j} : status'[i] = status[i]
      /\ to # "none"
  BY <1>0 DEF TypeOK, Gone, Active, Terminal
<1>2. TypeOK'
  BY <1>0, <1>1 DEF TypeOK, github, past, bounds
<1>3. \A r \in Requests : HandlerFacts(request[r])'
  <2>1. ASSUME NEW r \in Requests PROVE HandlerFacts(request[r])'
    <3>1. HandlerFacts(request[r]) /\ request[r] \in RequestState
      BY <1>0, StateOf DEF SubmissionInv
    <3>2. CASE request'[r] = request[r]
      <4>1. request[r].job # 0 => status'[request[r].job] # "none"
        BY <1>1, <3>1 DEF HandlerFacts, RequestState
      <4> QED BY <3>1, <3>2, <4>1 DEF HandlerFacts
    <3>3. CASE request'[r] = Idle
      BY <3>3 DEF HandlerFacts, Idle, Publishing
    <3> QED BY <3>2, <3>3
  <2> QED BY <2>1
<1>4. Given' = Given
  BY <1>1 DEF Given
<1>5. Arrivals' \subseteq Arrivals /\ Passed' \subseteq Passed
  BY DEF Arrivals, Passed, Arriving, Idle
<1>6. RowsLeft'
  <2>1. Cardinality(Arrivals) \in Nat /\ Cardinality(Arrivals') <= Cardinality(Arrivals)
        /\ Cardinality(Arrivals') \in Nat
    BY <1>0, <1>5, CountIsNat DEF Arrivals
  <2>2. Cardinality(Given) \in Nat /\ submits \in Nat /\ MaxJobs \in Nat
    BY <1>0, JobsFinite, CountIsNat, BoundsAssumption DEF Given, TypeOK
  <2> QED BY <1>4, <2>1, <2>2 DEF SubmissionInv, RowsLeft, bounds
<1>7. ActiveBounded'
  <2>1. PICK p \in Nat, n \in Nat, m \in Nat, l \in Nat, k \in Nat :
          /\ p = Cardinality(Passed) /\ n = Cardinality(Passed')
          /\ m = Cardinality(ActiveJobs) /\ l = Cardinality(ActiveJobs')
          /\ k = Cardinality(Requests)
    BY <1>0, JobsFinite, CountIsNat, FS_CardinalityType DEF Passed, ActiveJobs
  <2>2. m + p < Limit + k
    BY <2>1 DEF SubmissionInv, ActiveBounded
  <2>3. IsFiniteSet(Passed) /\ IsFiniteSet(ActiveJobs)
    BY <1>0, JobsFinite, CountIsNat DEF Passed, ActiveJobs
  <2>4. CASE to \in Active => status[j] \in Active
    <3>1. ActiveJobs' \subseteq ActiveJobs
      BY <1>1, <2>4 DEF ActiveJobs
    <3>2. l <= m /\ n <= p
      BY <1>5, <2>1, <2>3, <3>1, NoMore
    <3> QED BY <1>0, <2>1, <2>2, <3>2 DEF ActiveBounded
  <2>5. CASE \E r \in Passed : request'[r] = Idle
    <3>1. PICK r \in Passed : request'[r] = Idle
      BY <2>5
    <3>2. Passed' \subseteq Passed \ {r} /\ ActiveJobs' \subseteq ActiveJobs \cup {j}
      BY <1>1, <1>5, <3>1 DEF Passed, ActiveJobs, Idle
    <3>3. n + 1 <= p
      BY <2>1, <2>3, <3>2, OneLess
    <3>4. l <= m + 1
      BY <2>1, <2>3, <3>2, OneMore
    <3> QED BY <1>0, <2>1, <2>2, <3>3, <3>4 DEF ActiveBounded
  <2> QED BY <2>4, <2>5
<1>8. KeysUnique'
  BY <1>1 DEF SubmissionInv, KeysUnique, Gone
<1>9. \A a \in answers' : TrueAnswer(a)'
  BY <1>0, <1>1 DEF SubmissionInv, TrueAnswer, past, TypeOK
<1> QED
  BY <1>2, <1>3, <1>6, <1>7, <1>8, <1>9 DEF SubmissionInv

LEMMA JobMovesKeepInv ==
  ASSUME SubmissionInv, NEW j \in Jobs,
         CancelQueued(j) \/ \E to \in Active \cup Terminal : Work(j, to)
  PROVE  SubmissionInv'
<1>0. RequestTypes'
  BY DEF SubmissionInv, TypeOK, RequestTypes, CancelQueued, Work
<1>1. CASE CancelQueued(j)
  BY <1>0, <1>1, RowMoves DEF CancelQueued, Active, Terminal
<1>2. ASSUME NEW to \in Active \cup Terminal, Work(j, to)
      PROVE  SubmissionInv'
  BY <1>0, <1>2, RowMoves DEF Work, Active, Terminal
<1> QED
  BY <1>1, <1>2

LEMMA Returns ==
  ASSUME TypeOK, NEW r \in Requests, Return(r)
  PROVE  /\ RequestTypes' /\ request'[r] = Idle
         /\ \A s \in Requests \ {r} : request'[s] = request[s]
<1>1. Moves(r, Idle)
  BY DEF Return, Moves
<1> QED
  BY <1>1, IdleState, OneMoves

LEMMA RequeueKeepsInv ==
  ASSUME SubmissionInv, NEW r \in Requests, Requeue(r)
  PROVE  SubmissionInv'
<1>0. TypeOK /\ HandlerFacts(request[r]) /\ request[r] \in RequestState
  BY StateOf DEF SubmissionInv
<1>1. /\ RequestTypes' /\ request'[r] = Idle
      /\ \A s \in Requests \ {r} : request'[s] = request[s]
  BY <1>0, Returns DEF Requeue
<1>2. PICK j \in Jobs : j = request[r].job /\ status[j] # "none"
  BY <1>0 DEF HandlerFacts, RequestState, Requeue
<1>3. r \in Passed
  BY DEF Passed, Requeue
<1>4. CASE status[j] = "failed"
  BY <1>1, <1>2, <1>3, <1>4, RowMoves DEF Requeue, Active
<1>5. CASE status[j] # "failed"
  <2>1. /\ status' = [status EXCEPT ![j] = status[j]]
        /\ status[j] \in Active \cup Terminal \cup {"deleted"}
    BY <1>0, <1>2, <1>5 DEF Requeue, TypeOK, Gone
  <2> QED BY <1>1, <1>2, <2>1, RowMoves DEF Requeue
<1> QED
  BY <1>4, <1>5

LEMMA DeleteRowKeepsInv ==
  ASSUME SubmissionInv, NEW r \in Requests, DeleteRow(r)
  PROVE  SubmissionInv'
<1>0. TypeOK /\ HandlerFacts(request[r]) /\ request[r] \in RequestState
  BY StateOf DEF SubmissionInv
<1>1. /\ RequestTypes' /\ request'[r] = Idle
      /\ \A s \in Requests \ {r} : request'[s] = request[s]
  BY <1>0, Returns DEF DeleteRow
<1>2. PICK j \in Jobs : j = request[r].job /\ status[j] # "none"
  BY <1>0 DEF HandlerFacts, RequestState, DeleteRow
<1> QED
  BY <1>1, <1>2, RowMoves DEF DeleteRow, Active

\* The job a request inserts is one there has never been.
LEMMA RowIsLeft ==
  ASSUME SubmissionInv, NEW r \in Requests, Arriving(request[r])
  PROVE  \E j \in Jobs : status[j] = "none"
<1> SUFFICES ASSUME \A j \in Jobs : status[j] # "none" PROVE FALSE
  OBVIOUS
<1>1. Given = Jobs
  BY DEF Given
<1>2. Cardinality(Given) = MaxJobs
  BY <1>1, JobsFinite
<1>3. IsFiniteSet(Arrivals) /\ r \in Arrivals /\ {} \in SUBSET (Arrivals \ {r})
  BY SetsAssumption, CountIsNat DEF Arrivals
<1>4. Cardinality({}) + 1 <= Cardinality(Arrivals)
  BY <1>3, OneLess
<1>5. Cardinality({}) = 0 /\ Cardinality(Arrivals) \in Nat
  BY <1>3, FS_EmptySet, FS_CardinalityType
<1> QED
  BY <1>2, <1>4, <1>5, BoundsAssumption DEF SubmissionInv, RowsLeft, TypeOK


LEMMA InsertKeepsInv ==
  ASSUME SubmissionInv, NEW r \in Requests, Insert(r)
  PROVE  SubmissionInv'
<1>0. /\ TypeOK /\ HandlerFacts(request[r]) /\ request[r] \in RequestState
      /\ request[r].pc = "insert" /\ request[r].job = 0 /\ Arriving(request[r])
      /\ Limit \in Nat /\ MaxJobs \in Nat
  BY StateOf, BoundsAssumption DEF SubmissionInv, Insert, HandlerFacts, Arriving
<1>1. CASE request[r].key # NoKey /\ WithKey(request[r].key) # {}
  <2>1. PICK q \in RequestState : q = [request[r] EXCEPT !.pc = "winner"]
    BY <1>0 DEF RequestState, PC
  <2>2. Moves(r, q) /\ UNCHANGED <<table, github, past, bounds>>
    BY <1>1, <2>1 DEF Insert, Goto, Moves
  <2>3. /\ q.pc = "winner" /\ q.job = 0 /\ q.key # NoKey /\ HandlerFacts(q)
    BY <1>0, <1>1, <2>1 DEF RequestState, HandlerFacts, Publishing
  <2> QED BY <1>0, <2>1, <2>2, <2>3, HandlerMoves DEF table, github, past, bounds, TypeOK, Arriving
<1>2. CASE ~(request[r].key # NoKey /\ WithKey(request[r].key) # {})
  <2>1. PICK j \in Jobs :
          /\ status[j] = "none"
          /\ status' = [status EXCEPT ![j] = "queued"]
          /\ key'    = [key EXCEPT ![j] = request[r].key]
          /\ body'   = [body EXCEPT ![j] = request[r].body]
          /\ request' = [request EXCEPT ![r].pc = "answer", ![r].job = j]
          /\ UNCHANGED <<publication, github, past, bounds>>
    <3>1. DEFINE row == CHOOSE j \in Jobs : status[j] = "none"
    <3>2. row \in Jobs /\ status[row] = "none"
      BY <1>0, RowIsLeft
    <3>3. /\ status' = [status EXCEPT ![row] = "queued"]
          /\ key'    = [key EXCEPT ![row] = request[r].key]
          /\ body'   = [body EXCEPT ![row] = request[r].body]
          /\ request' = [request EXCEPT ![r].pc = "answer", ![r].job = row]
          /\ UNCHANGED <<publication, github, past, bounds>>
      BY <1>2 DEF Insert
    <3> QED BY <3>2, <3>3
  <2>2. PICK q \in RequestState : /\ q = [request[r] EXCEPT !.pc = "answer", !.job = j]
                                  /\ q.pc = "answer" /\ q.job = j
                                  /\ q.key = request[r].key /\ q.body = request[r].body
    <3>1. PICK p \in RequestState : p = [request[r] EXCEPT !.pc = "answer"]
      BY <1>0 DEF RequestState, PC
    <3>2. PICK q \in RequestState : q = [p EXCEPT !.job = j]
      BY <3>1 DEF RequestState
    <3>3. p.pc = "answer" /\ p.key = request[r].key /\ p.body = request[r].body
      BY <1>0, <3>1 DEF RequestState
    <3>4. q.pc = p.pc /\ q.job = j /\ q.key = p.key /\ q.body = p.body
      BY <3>2 DEF RequestState
    <3> QED BY <3>1, <3>2, <3>3, <3>4
  <2>3. Moves(r, q)
    BY <1>0, <2>1, <2>2 DEF Moves, TypeOK, RequestTypes
  <2>4. /\ RequestTypes' /\ request'[r] = q
        /\ \A s \in Requests \ {r} : request'[s] = request[s]
    BY <1>0, <2>3, OneMoves
  <2>5. /\ status' \in [Jobs -> Active \cup Terminal \cup Gone]
        /\ key' \in [Jobs -> Keys \cup {NoKey}] /\ body' \in [Jobs -> Bodies \cup {0}]
        /\ status'[j] = "queued" /\ key'[j] = q.key /\ body'[j] = q.body
        /\ \A i \in Jobs \ {j} : status'[i] = status[i] /\ key'[i] = key[i] /\ body'[i] = body[i]
    BY <1>0, <2>1, <2>2 DEF TypeOK, RequestState, Active
  <2>6. TypeOK'
    BY <1>0, <2>1, <2>4, <2>5 DEF TypeOK, github, past, bounds
  <2>7. \A s \in Requests : HandlerFacts(request[s])'
    <3>1. HandlerFacts(request[r])'
      <4>1. q.pc = "answer" /\ q.job = j /\ q.job # 0
        BY <2>2, JobsFinite
      <4>2. status'[q.job] = "queued" /\ key'[q.job] = q.key /\ body'[q.job] = q.body
        BY <2>5, <4>1
      <4> QED BY <2>4, <4>1, <4>2 DEF HandlerFacts, Publishing
    <3>2. ASSUME NEW s \in Requests \ {r} PROVE HandlerFacts(request[s])'
      <4>1. HandlerFacts(request[s]) /\ request[s] \in RequestState /\ request'[s] = request[s]
        BY <1>0, <2>4, StateOf DEF SubmissionInv
      <4>2. request[s].job # 0 => request[s].job \in Jobs /\ request[s].job # j
        BY <2>1, <4>1 DEF HandlerFacts, RequestState
      <4> QED BY <2>5, <4>1, <4>2 DEF HandlerFacts, Publishing
    <3> QED BY <3>1, <3>2
  <2>8. RowsLeft'
    <3>1. PICK a \in Nat, b \in Nat, g \in Nat, h \in Nat :
            /\ a = Cardinality(Arrivals) /\ b = Cardinality(Arrivals')
            /\ g = Cardinality(Given) /\ h = Cardinality(Given')
      BY SetsAssumption, JobsFinite, CountIsNat DEF Arrivals, Given
    <3>2. a + g <= submits /\ submits <= MaxJobs
      BY <3>1 DEF SubmissionInv, RowsLeft
    <3>3. IsFiniteSet(Arrivals) /\ IsFiniteSet(Given)
      BY SetsAssumption, JobsFinite, CountIsNat DEF Arrivals, Given
    <3>4. r \in Arrivals /\ Arrivals' \subseteq Arrivals \ {r}
      BY <1>0, <2>2, <2>4 DEF Arrivals, Arriving
    <3>5. Given' \subseteq Given \cup {j}
      BY <2>5 DEF Given
    <3>6. b + 1 <= a /\ h <= g + 1
      BY <3>1, <3>3, <3>4, <3>5, OneLess, OneMore
    <3> QED BY <1>0, <2>1, <3>1, <3>2, <3>6 DEF RowsLeft, bounds, TypeOK
  <2>9. ActiveBounded'
    <3>1. PICK p \in Nat, n \in Nat, m \in Nat, l \in Nat, k \in Nat :
            /\ p = Cardinality(Passed) /\ n = Cardinality(Passed')
            /\ m = Cardinality(ActiveJobs) /\ l = Cardinality(ActiveJobs')
            /\ k = Cardinality(Requests)
      BY SetsAssumption, JobsFinite, CountIsNat, FS_CardinalityType DEF Passed, ActiveJobs
    <3>2. m + p < Limit + k
      BY <3>1 DEF SubmissionInv, ActiveBounded
    <3>3. IsFiniteSet(Passed) /\ IsFiniteSet(ActiveJobs)
      BY SetsAssumption, JobsFinite, CountIsNat DEF Passed, ActiveJobs
    <3>4. r \in Passed /\ Passed' \subseteq Passed \ {r}
      BY <1>0, <2>2, <2>4 DEF Passed
    <3>5. ActiveJobs' \subseteq ActiveJobs \cup {j}
      BY <2>5 DEF ActiveJobs
    <3>6. n + 1 <= p /\ l <= m + 1
      BY <3>1, <3>3, <3>4, <3>5, OneLess, OneMore
    <3> QED BY <1>0, <3>1, <3>2, <3>6 DEF ActiveBounded
  <2>10. KeysUnique'
    <3>1. \A i \in Jobs \ {j} : key[i] = q.key /\ q.key # NoKey => status[i] \in Gone
      BY <1>2, <2>2 DEF WithKey
    <3> QED BY <2>5, <3>1 DEF SubmissionInv, KeysUnique
  <2>11. \A a \in answers' : TrueAnswer(a)'
    <3>1. ASSUME NEW a \in answers PROVE TrueAnswer(a)'
      <4>1. a.job \in Jobs /\ TrueAnswer(a)
        BY <1>0 DEF SubmissionInv, TypeOK
      <4> QED BY <2>1, <2>5, <4>1 DEF TrueAnswer
    <3> QED BY <2>1, <3>1 DEF past
  <2> QED BY <2>6, <2>7, <2>8, <2>9, <2>10, <2>11 DEF SubmissionInv
<1> QED
  BY <1>1, <1>2

-----------------------------------------------------------------------------
(* The other steps                                                         *)

LEMMA SubmitKeepsInv ==
  ASSUME SubmissionInv, NEW r \in Requests, NEW k \in Keys \cup {NoKey}, NEW b \in Bodies,
         Submit(r, k, b)
  PROVE  SubmissionInv'
<1>0. TypeOK /\ Idle \in RequestState
  BY IdleState DEF SubmissionInv
<1>1. DEFINE q == [Idle EXCEPT !.pc = IF k = NoKey THEN "count" ELSE "lookup",
                               !.key = k, !.body = IF k = NoKey THEN 0 ELSE b]
<1>2. q \in RequestState /\ HandlerFacts(q) /\ q.pc \notin {"insert", "requeue"}
  BY <1>0 DEF RequestState, PC, Idle, HandlerFacts, Publishing
<1>3. Moves(r, q) /\ UNCHANGED <<table, github, past, others, stops>>
      /\ submits < MaxJobs /\ submits' = submits + 1
  BY DEF Submit, Moves
<1> HIDE DEF q
<1> QED
  BY <1>0, <1>2, <1>3, HandlerMoves DEF table, github, past, TypeOK

LEMMA OtherKeepsInv ==
  ASSUME SubmissionInv, NEW r \in Requests, NEW pc \in {"count", "delete", "claim"}, NEW j \in Jobs,
         NEW n \in Names \cup {0}, pc = "claim" => n \in Names, status[j] # "none",
         Other(r, pc, j, n)
  PROVE  SubmissionInv'
<1>0. TypeOK /\ Idle \in RequestState /\ j # 0
  BY IdleState, JobsFinite DEF SubmissionInv
<1>1. DEFINE q == [Idle EXCEPT !.pc = pc, !.job = j, !.name = n]
<1>2. /\ q \in RequestState /\ HandlerFacts(q) /\ q.pc \notin {"insert", "requeue"}
      /\ ~Arriving(q)
  BY <1>0 DEF RequestState, PC, Idle, HandlerFacts, Publishing, Arriving
<1>3. Moves(r, q) /\ UNCHANGED <<table, github, past, submits, stops>> /\ others' = others + 1
  BY DEF Other, Moves
<1> HIDE DEF q
<1> QED
  BY <1>0, <1>2, <1>3, HandlerMoves DEF table, github, past, TypeOK

LEMMA ArriveKeepsInv ==
  ASSUME SubmissionInv, NEW r \in Requests, Arrive(r)
  PROVE  SubmissionInv'
<1>1. ASSUME NEW k \in Keys \cup {NoKey}, NEW b \in Bodies, Submit(r, k, b)
      PROVE  SubmissionInv'
  BY <1>1, SubmitKeepsInv
<1>2. ASSUME NEW j \in Jobs, Retry(r, j) \/ Delete(r, j) \/ \E n \in Names : Publish(r, j, n)
      PROVE  SubmissionInv'
  <2>1. CASE Retry(r, j)
    <3>1. Other(r, "count", j, 0) /\ status[j] # "none"
      BY <2>1 DEF Retry
    <3> QED BY <3>1, OtherKeepsInv
  <2>2. CASE Delete(r, j)
    <3>1. Other(r, "delete", j, 0) /\ status[j] # "none"
      BY <2>2 DEF Delete, Terminal
    <3> QED BY <3>1, OtherKeepsInv
  <2>3. ASSUME NEW n \in Names, Publish(r, j, n)
        PROVE  SubmissionInv'
    <3>1. Other(r, "claim", j, n) /\ status[j] # "none"
      BY <2>3 DEF Publish
    <3> QED BY <3>1, OtherKeepsInv
  <2> QED BY <1>2, <2>1, <2>2, <2>3
<1> QED
  BY <1>1, <1>2 DEF Arrive


LEMMA ReturnKeepsInv ==
  ASSUME SubmissionInv, NEW r \in Requests, Return(r),
         UNCHANGED <<status, key, body, github, submits>>,
         answers' \in SUBSET [key : Keys \cup {NoKey}, body : Bodies \cup {0}, job : Jobs],
         \A a \in answers' \ answers : TrueAnswer(a),
         publication' \in [Jobs -> {"null", "publishing", "published", "failed"}],
         orphaned' \in SUBSET Jobs, others' \in Nat, stops' \in Nat
  PROVE  SubmissionInv'
<1>1. Moves(r, Idle) /\ Idle \in RequestState /\ HandlerFacts(Idle) /\ ~Arriving(Idle)
  BY IdleState DEF Return, Moves
<1>2. Idle.pc \notin {"insert", "requeue"}
  BY DEF Idle
<1> QED
  BY <1>1, <1>2, HandlerMoves DEF SubmissionInv, TypeOK, github

LEMMA GotoIs ==
  ASSUME TypeOK, NEW r \in Requests, NEW pc \in PC, Goto(r, pc)
  PROVE  \E q \in RequestState :
           /\ Moves(r, q) /\ q.pc = pc /\ q.job = request[r].job /\ q.key = request[r].key
           /\ q.body = request[r].body /\ q.name = request[r].name
<1>1. request[r] \in RequestState
  BY StateOf
<1>2. PICK q \in RequestState : q = [request[r] EXCEPT !.pc = pc]
  BY <1>1 DEF RequestState
<1>3. Moves(r, q)
  BY <1>2 DEF Goto, Moves
<1>4. /\ q.pc = pc /\ q.job = request[r].job /\ q.key = request[r].key
      /\ q.body = request[r].body /\ q.name = request[r].name
  BY <1>1, <1>2 DEF RequestState
<1> QED
  BY <1>3, <1>4

LEMMA ReplayIsTrue ==
  ASSUME SubmissionInv, NEW r \in Requests, NEW j \in WithKey(request[r].key), Replay(r, j)
  PROVE  /\ answers' \in SUBSET [key : Keys \cup {NoKey}, body : Bodies \cup {0}, job : Jobs]
         /\ \A a \in answers' \ answers : TrueAnswer(a)
<1>1. /\ request[r].key \in Keys \cup {NoKey} /\ request[r].body \in Bodies \cup {0}
      /\ answers \in SUBSET [key : Keys \cup {NoKey}, body : Bodies \cup {0}, job : Jobs]
  BY StateOf DEF SubmissionInv, TypeOK, RequestState
<1>2. j \in Jobs /\ key[j] = request[r].key /\ status[j] # "none"
  BY DEF WithKey, Gone
<1>3. CASE body[j] # request[r].body
  BY <1>1, <1>3 DEF Replay
<1>4. CASE body[j] = request[r].body
  <2>1. PICK a \in [key : Keys \cup {NoKey}, body : Bodies \cup {0}, job : Jobs] :
          a = [key |-> request[r].key, body |-> request[r].body, job |-> j]
    BY <1>1, <1>2
  <2>2. answers' = answers \cup {a} /\ TrueAnswer(a)
    BY <1>2, <1>4, <2>1 DEF Replay, TrueAnswer
  <2> QED BY <1>1, <2>2
<1> QED
  BY <1>3, <1>4

LEMMA LookupKeepsInv ==
  ASSUME SubmissionInv, NEW r \in Requests, Lookup(r) \/ Winner(r)
  PROVE  SubmissionInv'
<1>0. /\ TypeOK /\ HandlerFacts(request[r])
      /\ request[r].pc \in {"lookup", "winner"}
      /\ UNCHANGED <<table, github, orphaned, bounds>>
  BY DEF SubmissionInv, Lookup, Winner
<1>1. ASSUME NEW j \in WithKey(request[r].key), Replay(r, j)
      PROVE  SubmissionInv'
  <2>1. Return(r)
    BY <1>1 DEF Replay
  <2>2. /\ answers' \in SUBSET [key : Keys \cup {NoKey}, body : Bodies \cup {0}, job : Jobs]
        /\ \A a \in answers' \ answers : TrueAnswer(a)
    BY <1>1, ReplayIsTrue
  <2> QED BY <1>0, <2>1, <2>2, ReturnKeepsInv DEF TypeOK, table, bounds
<1>2. CASE Goto(r, "count") /\ UNCHANGED answers /\ request[r].pc = "lookup"
  <2>1. PICK q \in RequestState : Moves(r, q) /\ q.pc = "count" /\ q.job = request[r].job
    BY <1>0, <1>2, GotoIs DEF PC
  <2>2. HandlerFacts(q) /\ (Arriving(q) => Arriving(request[r]))
    BY <1>0, <1>2, <2>1 DEF HandlerFacts, Arriving, Publishing
  <2> QED BY <1>0, <1>2, <2>1, <2>2, HandlerMoves DEF TypeOK, table, github, bounds
<1>3. CASE Return(r) /\ UNCHANGED answers
  BY <1>0, <1>3, ReturnKeepsInv DEF TypeOK, table, bounds
<1> QED
  BY <1>1, <1>2, <1>3 DEF Lookup, Winner

LEMMA CountKeepsInv ==
  ASSUME SubmissionInv, NEW r \in Requests, Count(r)
  PROVE  SubmissionInv'
<1>0. /\ TypeOK /\ HandlerFacts(request[r]) /\ request[r].pc = "count"
      /\ UNCHANGED <<table, github, past, bounds>>
  BY DEF SubmissionInv, Count
<1>1. CASE Cardinality(ActiveJobs) < Limit
  <2>1. PICK q \in RequestState :
          /\ Moves(r, q) /\ q.pc = IF request[r].job = 0 THEN "insert" ELSE "requeue"
          /\ q.job = request[r].job
    BY <1>0, <1>1, GotoIs DEF PC, Count
  <2>2. HandlerFacts(q) /\ (Arriving(q) => Arriving(request[r]))
    BY <1>0, <2>1 DEF HandlerFacts, Arriving, Publishing
  <2> QED BY <1>0, <1>1, <2>1, <2>2, HandlerMoves DEF TypeOK, table, github, past, bounds
<1>2. CASE ~(Cardinality(ActiveJobs) < Limit)
  BY <1>0, <1>2, ReturnKeepsInv DEF Count, TypeOK, table, past, bounds
<1> QED
  BY <1>1, <1>2

LEMMA AnswerKeepsInv ==
  ASSUME SubmissionInv, NEW r \in Requests, Answer(r)
  PROVE  SubmissionInv'
<1>0. /\ TypeOK /\ HandlerFacts(request[r]) /\ request[r] \in RequestState
      /\ request[r].pc = "answer" /\ Return(r)
      /\ UNCHANGED <<table, github, orphaned, bounds>>
  BY StateOf DEF SubmissionInv, Answer
<1>1. PICK a \in [key : Keys \cup {NoKey}, body : Bodies \cup {0}, job : Jobs] :
        a = [key |-> request[r].key, body |-> request[r].body, job |-> request[r].job]
  BY <1>0 DEF HandlerFacts, RequestState
<1>2. TrueAnswer(a)
  BY <1>0, <1>1 DEF HandlerFacts, TrueAnswer
<1>3. answers' \in {answers, answers \cup {a}}
  BY <1>1 DEF Answer
<1> QED
  BY <1>0, <1>2, <1>3, ReturnKeepsInv DEF TypeOK, table, bounds

LEMMA ClaimKeepsInv ==
  ASSUME SubmissionInv, NEW r \in Requests, ClaimPublication(r)
  PROVE  SubmissionInv'
<1>0. /\ TypeOK /\ HandlerFacts(request[r]) /\ request[r].pc = "claim"
      /\ UNCHANGED <<status, key, body, github, past, bounds>>
  BY DEF SubmissionInv, ClaimPublication
<1>1. CASE status[request[r].job] = "succeeded" /\ publication[request[r].job] = "null"
  <2>1. Goto(r, "create") /\ publication' = [publication EXCEPT ![request[r].job] = "publishing"]
    BY <1>1 DEF ClaimPublication
  <2>2. PICK q \in RequestState : /\ Moves(r, q) /\ q.pc = "create"
                                  /\ q.job = request[r].job /\ q.name = request[r].name
    BY <1>0, <2>1, GotoIs DEF PC, Publishing
  <2>3. HandlerFacts(q) /\ ~Arriving(q)
    BY <1>0, <2>2 DEF HandlerFacts, Arriving, Publishing
  <2>4. publication' \in [Jobs -> {"null", "publishing", "published", "failed"}]
    BY <1>0, <2>1 DEF TypeOK
  <2> QED BY <1>0, <2>2, <2>3, <2>4, HandlerMoves DEF TypeOK, github, past, bounds
<1>2. CASE ~(status[request[r].job] = "succeeded" /\ publication[request[r].job] = "null")
  BY <1>0, <1>2, ReturnKeepsInv DEF ClaimPublication, TypeOK, past, bounds
<1> QED
  BY <1>1, <1>2

-----------------------------------------------------------------------------
(* The calls to GitHub                                                     *)

\* A handler that goes on with the same publication.
GoesOn(r, q) == Moves(r, q) /\ q.job = request[r].job /\ q.name = request[r].name

LEMMA OutcomeIs ==
  ASSUME TypeOK, NEW r \in Requests, NEW result \in {"null", "published", "failed"},
         Outcome(r, result)
  PROVE  \E q \in RequestState : GoesOn(r, q) /\ q.pc = "record" /\ q.result = result
<1>1. request[r] \in RequestState /\ request \in [Requests -> RequestState]
  BY StateOf DEF TypeOK, RequestTypes, RequestState
<1>2. PICK p \in RequestState : p = [request[r] EXCEPT !.pc = "record"]
  BY <1>1 DEF RequestState, PC, Publishing
<1>3. PICK q \in RequestState : q = [p EXCEPT !.result = result]
  BY <1>2 DEF RequestState
<1>4. p.pc = "record" /\ p.job = request[r].job /\ p.name = request[r].name
  BY <1>1, <1>2 DEF RequestState
<1>5. q.pc = p.pc /\ q.job = p.job /\ q.name = p.name /\ q.result = result
  BY <1>3 DEF RequestState
<1>6. Moves(r, q)
  BY <1>1, <1>2, <1>3 DEF Outcome, Moves
<1> QED
  BY <1>4, <1>5, <1>6 DEF GoesOn

\* One field of a request that calls GitHub changes, and its count of repetitions.
LEMMA CallGoesOn ==
  ASSUME TypeOK, NEW r \in Requests, NEW p \in RequestState, NEW tries \in 0..Retries,
         p.pc = request[r].pc, p.job = request[r].job, p.name = request[r].name,
         Moves(r, [p EXCEPT !.tries = tries])
  PROVE  \E q \in RequestState : GoesOn(r, q) /\ q.pc = request[r].pc
<1>1. PICK q \in RequestState : q = [p EXCEPT !.tries = tries]
  BY DEF RequestState
<1>2. q.pc = p.pc /\ q.job = p.job /\ q.name = p.name
  BY <1>1 DEF RequestState
<1>3. Moves(r, q)
  BY <1>1
<1> QED
  BY <1>2, <1>3 DEF GoesOn


LEMMA CallOrder ==
  /\ Len(Calls) = 6
  /\ \A i \in 1..6 : Calls[i] = "pull" <=> i = 6
  /\ "pull" \notin Safe
<1>1. Len(Calls) = 6
  BY DEF Calls
<1>2. \A i \in 1..6 : i = 1 \/ i = 2 \/ i = 3 \/ i = 4 \/ i = 5 \/ i = 6
  OBVIOUS
<1>3. /\ Calls[1] = "ref" /\ Calls[2] = "commit" /\ Calls[3] = "tree"
      /\ Calls[4] = "newCommit" /\ Calls[5] = "branch" /\ Calls[6] = "pull"
  BY DEF Calls
<1> QED
  BY <1>1, <1>2, <1>3 DEF Safe

\* Behind a call: the next one, the same one again, or the outcome. A pull request
\* is opened by the last call, which is never repeated.
CallIsOver(r, q) ==
  \/ q.pc = "call" /\ UNCHANGED pulls
  \/ /\ q.pc = "record" /\ q.result = "published"
     /\ pulls' = [pulls EXCEPT ![request[r].job] = @ + 1]
  \/ /\ q.pc = "record" /\ q.result = "failed"
     /\ pulls' = pulls \/ pulls' = [pulls EXCEPT ![request[r].job] = @ + 1]

LEMMA SucceededIs ==
  ASSUME TypeOK, NEW r \in Requests, request[r].pc = "call", Succeeded(r)
  PROVE  \/ request[r].call = 6 /\ Outcome(r, "published")
         \/ /\ request[r].call # 6
            /\ \E q \in RequestState : GoesOn(r, q) /\ q.pc = "call"
<1>1. request[r] \in RequestState /\ request \in [Requests -> RequestState]
  BY StateOf DEF TypeOK, RequestTypes, RequestState
<1>2. CASE request[r].call = Len(Calls)
  BY <1>2, CallOrder DEF Succeeded
<1>3. CASE request[r].call # Len(Calls)
  <2>1. request[r].call \in 1..6 /\ request[r].call + 1 \in 1..Len(Calls) /\ 0 \in 0..Retries
    BY <1>1, <1>3, CallOrder, BoundsAssumption DEF RequestState
  <2>2. PICK p \in RequestState : p = [request[r] EXCEPT !.call = request[r].call + 1]
    BY <1>1, <2>1 DEF RequestState
  <2>3. p.pc = request[r].pc /\ p.job = request[r].job /\ p.name = request[r].name
    BY <1>1, <2>2 DEF RequestState
  <2>4. Moves(r, [p EXCEPT !.tries = 0])
    BY <1>1, <1>3, <2>2 DEF Succeeded, Moves
  <2> QED BY <1>3, <2>1, <2>3, <2>4, CallGoesOn, CallOrder
<1> QED
  BY <1>2, <1>3

LEMMA UnansweredIs ==
  ASSUME TypeOK, NEW r \in Requests, request[r].pc = "call", Unanswered(r)
  PROVE  \/ Outcome(r, "failed")
         \/ /\ request[r].call # 6
            /\ \E q \in RequestState : GoesOn(r, q) /\ q.pc = "call"
<1>1. /\ request[r] \in RequestState /\ request[r].call \in 1..6
      /\ request[r].tries \in 0..Retries /\ Retries \in Nat
  BY StateOf, CallOrder, BoundsAssumption DEF RequestState
<1>2. CASE Calls[request[r].call] \in Safe /\ request[r].tries < Retries
  <2>1. request[r].call # 6 /\ request[r].tries + 1 \in 0..Retries
    BY <1>1, <1>2, CallOrder
  <2>2. Moves(r, [request[r] EXCEPT !.tries = request[r].tries + 1])
    BY <1>2 DEF Unanswered, Moves
  <2> QED BY <1>1, <2>1, <2>2, CallGoesOn
<1>3. CASE ~(Calls[request[r].call] \in Safe /\ request[r].tries < Retries)
  BY <1>3 DEF Unanswered
<1> QED
  BY <1>2, <1>3

LEMMA NotThereYetIs ==
  ASSUME TypeOK, NEW r \in Requests, request[r].pc = "call", NotThereYet(r)
  PROVE  \/ Outcome(r, "failed")
         \/ \E q \in RequestState : GoesOn(r, q) /\ q.pc = "call"
<1>1. /\ request[r] \in RequestState /\ request \in [Requests -> RequestState]
      /\ request[r].waits \in 0..RefAttempts - 1 /\ RefAttempts \in Nat \ {0}
      /\ 0 \in 0..Retries
  BY StateOf, BoundsAssumption DEF TypeOK, RequestTypes, RequestState
<1>2. CASE request[r].waits < RefAttempts - 1
  <2>1. request[r].waits + 1 \in 0..RefAttempts - 1
    BY <1>1, <1>2
  <2>2. PICK p \in RequestState : p = [request[r] EXCEPT !.waits = request[r].waits + 1]
    BY <1>1, <2>1 DEF RequestState
  <2>3. p.pc = request[r].pc /\ p.job = request[r].job /\ p.name = request[r].name
    BY <1>1, <2>2 DEF RequestState
  <2>4. Moves(r, [p EXCEPT !.tries = 0])
    BY <1>1, <1>2, <2>2 DEF NotThereYet, Moves
  <2> QED BY <1>1, <2>3, <2>4, CallGoesOn
<1>3. CASE ~(request[r].waits < RefAttempts - 1)
  BY <1>3 DEF NotThereYet
<1> QED
  BY <1>2, <1>3

LEMMA CallIs ==
  ASSUME TypeOK, NEW r \in Requests, Call(r)
  PROVE  \E q \in RequestState : GoesOn(r, q) /\ CallIsOver(r, q)
<1>0. /\ request[r].pc = "call" /\ request[r].call \in 1..6
  BY StateOf, CallOrder DEF Call, RequestState
<1>1. DEFINE call == Calls[request[r].call]
<1>2. call = "pull" <=> request[r].call = 6
  BY <1>0, CallOrder
<1>3. CASE NoEffect /\ (Unanswered(r) \/ Outcome(r, "failed") \/ NotThereYet(r))
  <2>1. \/ Outcome(r, "failed")
        \/ \E q \in RequestState : GoesOn(r, q) /\ q.pc = "call"
    BY <1>0, <1>3, UnansweredIs, NotThereYetIs
  <2> QED BY <1>3, <2>1, OutcomeIs DEF CallIsOver, NoEffect
<1>4. CASE Effect(request[r], call) /\ (Succeeded(r) \/ Unanswered(r))
  <2>1. pulls' = IF call = "pull" THEN [pulls EXCEPT ![request[r].job] = @ + 1] ELSE pulls
    BY <1>4 DEF Effect
  <2>2. CASE Succeeded(r)
    <3>1. CASE request[r].call = 6 /\ Outcome(r, "published")
      BY <1>2, <2>1, <3>1, OutcomeIs DEF CallIsOver
    <3>2. CASE request[r].call # 6 /\ \E q \in RequestState : GoesOn(r, q) /\ q.pc = "call"
      BY <1>2, <2>1, <3>2 DEF CallIsOver
    <3> QED BY <1>0, <2>2, <3>1, <3>2, SucceededIs
  <2>3. CASE Unanswered(r)
    <3>1. CASE Outcome(r, "failed")
      BY <2>1, <3>1, OutcomeIs DEF CallIsOver
    <3>2. CASE request[r].call # 6 /\ \E q \in RequestState : GoesOn(r, q) /\ q.pc = "call"
      BY <1>2, <2>1, <3>2 DEF CallIsOver
    <3> QED BY <1>0, <2>3, <3>1, <3>2, UnansweredIs
  <2> QED BY <1>4, <2>2, <2>3
<1> QED
  BY <1>3, <1>4 DEF Call

LEMMA GoingOnKeepsInv ==
  ASSUME SubmissionInv, NEW r \in Requests, NEW q \in RequestState, GoesOn(r, q),
         request[r].pc \in Publishing, q.pc \in Publishing,
         UNCHANGED <<table, past, bounds>>,
         maker' \in [Names -> Jobs \cup {0}], commits' \in SUBSET (Jobs \X Names),
         pulls' \in [Jobs -> Nat]
  PROVE  SubmissionInv'
<1>1. HandlerFacts(request[r]) /\ TypeOK
  BY DEF SubmissionInv
<1>2. HandlerFacts(q) /\ ~Arriving(q) /\ q.pc \notin {"insert", "requeue"}
  BY <1>1 DEF HandlerFacts, GoesOn, Publishing, Arriving
<1> QED
  BY <1>1, <1>2, HandlerMoves DEF GoesOn, TypeOK, table, past, bounds

LEMMA PublisherIs ==
  ASSUME SubmissionInv, NEW r \in Requests, request[r].pc \in Publishing
  PROVE  request[r].job \in Jobs /\ request[r].name \in Names
  BY StateOf DEF SubmissionInv, HandlerFacts, RequestState

LEMMA CreateIs ==
  ASSUME SubmissionInv, NEW r \in Requests, CreateRepository(r)
  PROVE  \E q \in RequestState :
           /\ GoesOn(r, q)
           /\ \/ /\ maker[q.name] = 0 /\ maker' = [maker EXCEPT ![q.name] = q.job]
                 /\ q.pc = "call" \/ (q.pc = "record" /\ q.result = "null")
              \/ UNCHANGED maker /\ q.pc = "record" /\ q.result = "null"
<1>0. TypeOK
  BY DEF SubmissionInv
<1>1. CASE /\ ~Exists(request[r].name)
           /\ maker' = [maker EXCEPT ![request[r].name] = request[r].job]
           /\ Goto(r, "call")
  <2>1. PICK q \in RequestState : /\ Moves(r, q) /\ q.pc = "call"
                                  /\ q.job = request[r].job /\ q.name = request[r].name
    BY <1>0, <1>1, GotoIs DEF PC, Publishing
  <2> QED BY <1>1, <2>1 DEF GoesOn, Exists
<1>2. CASE /\ ~Exists(request[r].name)
           /\ maker' = [maker EXCEPT ![request[r].name] = request[r].job]
           /\ Outcome(r, "null")
  <2>1. PICK q \in RequestState : GoesOn(r, q) /\ q.pc = "record" /\ q.result = "null"
    BY <1>0, <1>2, OutcomeIs
  <2> QED BY <1>2, <2>1 DEF GoesOn, Exists
<1>3. CASE Outcome(r, "null") /\ UNCHANGED maker
  BY <1>0, <1>3, OutcomeIs
<1> QED
  BY <1>1, <1>2, <1>3 DEF CreateRepository

LEMMA CreateKeepsInv ==
  ASSUME SubmissionInv, NEW r \in Requests, CreateRepository(r)
  PROVE  SubmissionInv'
<1>1. TypeOK /\ request[r].pc \in Publishing /\ UNCHANGED <<table, commits, pulls, past, bounds>>
  BY DEF SubmissionInv, CreateRepository, Publishing
<1>2. request[r].job \in Jobs /\ request[r].name \in Names
  BY <1>1, PublisherIs
<1>3. PICK q \in RequestState :
        /\ GoesOn(r, q) /\ q.pc \in Publishing
        /\ maker' = [maker EXCEPT ![q.name] = q.job] \/ UNCHANGED maker
  BY CreateIs DEF Publishing
<1>4. maker' \in [Names -> Jobs \cup {0}]
  BY <1>1, <1>2, <1>3 DEF GoesOn, TypeOK
<1> QED
  BY <1>1, <1>3, <1>4, GoingOnKeepsInv DEF TypeOK

LEMMA CallKeepsInv ==
  ASSUME SubmissionInv, NEW r \in Requests, Call(r)
  PROVE  SubmissionInv'
<1>1. TypeOK /\ request[r].pc \in Publishing /\ UNCHANGED <<table, maker, past, bounds>>
  BY DEF SubmissionInv, Call, Publishing
<1>2. request[r].job \in Jobs /\ request[r].name \in Names
  BY <1>1, PublisherIs
<1>3. PICK q \in RequestState : GoesOn(r, q) /\ CallIsOver(r, q)
  BY <1>1, CallIs
<1>4. q.pc \in Publishing
  BY <1>3 DEF CallIsOver, Publishing
<1>5. pulls' \in [Jobs -> Nat]
  BY <1>1, <1>2, <1>3 DEF CallIsOver, TypeOK
<1>6. commits' \in SUBSET (Jobs \X Names)
  BY <1>1, <1>2 DEF Call, Effect, NoEffect, TypeOK
<1> QED
  BY <1>1, <1>3, <1>4, <1>5, <1>6, GoingOnKeepsInv DEF TypeOK

LEMMA RecordKeepsInv ==
  ASSUME SubmissionInv, NEW r \in Requests, Record(r)
  PROVE  SubmissionInv'
<1>1. TypeOK /\ UNCHANGED <<status, key, body, github, past, bounds>> /\ Return(r)
  BY DEF SubmissionInv, Record
<1>2. request[r].result \in {"null", "published", "failed"}
  BY <1>1, StateOf DEF RequestState
<1>3. publication' \in [Jobs -> {"null", "publishing", "published", "failed"}]
  BY <1>1, <1>2 DEF Record, TypeOK
<1> QED
  BY <1>1, <1>3, ReturnKeepsInv DEF TypeOK, past, bounds

LEMMA AbortKeepsInv ==
  ASSUME SubmissionInv, NEW r \in Requests, Abort(r)
  PROVE  SubmissionInv'
<1>1. TypeOK /\ UNCHANGED <<table, github, answers, submits, others>> /\ Return(r)
  BY DEF SubmissionInv, Abort
<1>2. orphaned' \in SUBSET Jobs
  BY <1>1, PublisherIs DEF Abort, TypeOK
<1>3. stops' \in Nat
  BY <1>1 DEF Abort, TypeOK
<1> QED
  BY <1>1, <1>2, <1>3, ReturnKeepsInv DEF table, TypeOK

LEMMA HandleKeepsInv ==
  ASSUME SubmissionInv, NEW r \in Requests, Handle(r)
  PROVE  SubmissionInv'
  BY LookupKeepsInv, CountKeepsInv, InsertKeepsInv, AnswerKeepsInv, RequeueKeepsInv,
     DeleteRowKeepsInv, ClaimKeepsInv, CreateKeepsInv, CallKeepsInv, RecordKeepsInv
  DEF Handle

LEMMA InitSubmissionInv == Init => SubmissionInv
<1> SUFFICES ASSUME Init PROVE SubmissionInv
  OBVIOUS
<1>1. \A r \in Requests : request[r] = Idle
  BY DEF Init
<1>2. TypeOK
  BY IdleState DEF Init, TypeOK, RequestTypes, RequestState, Gone
<1>3. \A r \in Requests : HandlerFacts(request[r])
  BY <1>1, IdleState
<1>4. /\ Arrivals = {} /\ Given = {} /\ Passed = {} /\ ActiveJobs = {}
  BY <1>1, IdleState DEF Init, Arrivals, Given, Passed, ActiveJobs, Active, Idle
<1>5. Cardinality({}) = 0 /\ Cardinality(Requests) \in Nat
  BY FS_EmptySet, SetsAssumption, FS_CardinalityType
<1>6. RowsLeft
  BY <1>4, <1>5, BoundsAssumption DEF RowsLeft, Init
<1>7. ActiveBounded
  BY <1>4, <1>5, BoundsAssumption DEF ActiveBounded
<1>8. KeysUnique /\ \A a \in answers : TrueAnswer(a)
  BY DEF Init, KeysUnique
<1> QED
  BY <1>2, <1>3, <1>6, <1>7, <1>8 DEF SubmissionInv

LEMMA StepSubmissionInv == SubmissionInv /\ [Next]_vars => SubmissionInv'
<1> SUFFICES ASSUME SubmissionInv, [Next]_vars PROVE SubmissionInv'
  OBVIOUS
<1>1. CASE UNCHANGED vars
  BY <1>1 DEF vars, table, github, past, bounds, SubmissionInv, TypeOK, RequestTypes, HandlerFacts,
    RowsLeft, Arrivals, Given, ActiveBounded, ActiveJobs, Passed, KeysUnique, TrueAnswer
<1>2. ASSUME NEW r \in Requests, Arrive(r) \/ Handle(r) \/ Abort(r)
      PROVE  SubmissionInv'
  BY <1>2, ArriveKeepsInv, HandleKeepsInv, AbortKeepsInv
<1>3. ASSUME NEW j \in Jobs, CancelQueued(j) \/ \E to \in Active \cup Terminal : Work(j, to)
      PROVE  SubmissionInv'
  BY <1>3, JobMovesKeepInv
<1> QED
  BY <1>1, <1>2, <1>3 DEF Next

\* A principal has never more active jobs than the limit and the requests that
\* counted them at the same time, and two answers for one idempotency key name
\* one job unless one of them was deleted: whatever races with a submission, a
\* retry or a deletion.
THEOREM SubmissionsStaySound == Spec => []SubmissionsSound
<1>1. SubmissionInv => SubmissionsSound
  <2> SUFFICES ASSUME SubmissionInv PROVE KeyNamesOneJob
    BY DEF SubmissionInv, SubmissionsSound
  <2>1. ASSUME NEW a \in answers, NEW b \in answers,
               a.key = b.key, a.key # NoKey, a.job # b.job
        PROVE  "deleted" \in {status[a.job], status[b.job]}
    <3>1. TrueAnswer(a) /\ TrueAnswer(b) /\ a.job \in Jobs /\ b.job \in Jobs
      BY DEF SubmissionInv, TypeOK
    <3>2. status[a.job] \in Gone \/ status[b.job] \in Gone
      BY <2>1, <3>1 DEF TrueAnswer, SubmissionInv, KeysUnique
    <3> QED BY <3>1, <3>2 DEF TrueAnswer, Gone
  <2>2. \A a \in answers : body[a.job] = a.body
    BY DEF SubmissionInv, TrueAnswer
  <2> QED BY <2>1, <2>2 DEF KeyNamesOneJob
<1> QED
  BY <1>1, InitSubmissionInv, StepSubmissionInv, PTL DEF Spec


-----------------------------------------------------------------------------
(* The invariant of the publications                                       *)

Untouched(j) == pulls[j] = 0 /\ \A n \in Names : <<j, n>> \notin commits

\* What a job's publication says of GitHub.
RowFacts(j) ==
  /\ pulls[j] <= 1
  /\ publication[j] = "null" => Untouched(j)
  /\ publication[j] = "published" => pulls[j] = 1
  /\ publication[j] = "failed" => \E n \in Names : maker[n] = j

\* What a publisher knows at its place in the code: its claim is in the job's row,
\* and a repository it goes on with was created for its job.
PublisherFacts(q) ==
  q.pc \in Publishing =>
    /\ publication[q.job] = "publishing"
    /\ q.pc = "create" => Untouched(q.job)
    /\ q.pc = "call" => maker[q.name] = q.job /\ pulls[q.job] = 0
    /\ q.pc = "record" /\ q.result = "null" => Untouched(q.job)
    /\ q.pc = "record" /\ q.result = "published" => pulls[q.job] = 1
    /\ q.pc = "record" /\ q.result = "failed" => maker[q.name] = q.job

OnePublisher ==
  \A r, s \in Requests :
    /\ request[r].pc \in Publishing /\ request[s].pc \in Publishing
    /\ request[r].job = request[s].job
    => r = s

PublicationInv ==
  /\ SubmissionInv
  /\ \A j \in Jobs : RowFacts(j)
  /\ \A r \in Requests : PublisherFacts(request[r])
  /\ OnePublisher
  /\ OnlyOwnRepositories

\* Steps of others: who publishes afterwards did so before.
LEMMA NothingPublished ==
  ASSUME PublicationInv, SubmissionInv', UNCHANGED <<publication, github>>,
         \A r \in Requests : request'[r].pc \in Publishing => request'[r] = request[r]
  PROVE  PublicationInv'
<1>1. \A j \in Jobs : RowFacts(j)'
  BY DEF PublicationInv, RowFacts, Untouched, github
<1>2. \A r \in Requests : PublisherFacts(request[r])'
  BY DEF PublicationInv, PublisherFacts, Untouched, github
<1>3. OnePublisher'
  BY DEF PublicationInv, OnePublisher
<1>4. OnlyOwnRepositories'
  BY DEF PublicationInv, OnlyOwnRepositories, github
<1> QED
  BY <1>1, <1>2, <1>3, <1>4 DEF PublicationInv

\* A step of the publisher of a job, or of a request that becomes it: what it writes
\* to the tables and to GitHub is about its job, and no repository changes hands.
LEMMA PublisherMoves ==
  ASSUME PublicationInv, SubmissionInv', NEW r \in Requests, NEW q \in RequestState, Moves(r, q),
         NEW j \in Jobs, q.job = j \/ q.pc \notin Publishing,
         \A s \in Requests \ {r} : request[s].pc \in Publishing => request[s].job # j,
         \A i \in Jobs \ {j} : publication'[i] = publication[i] /\ pulls'[i] = pulls[i],
         \A c \in commits' \ commits : c[1] = j /\ maker'[c[2]] = j,
         commits \subseteq commits',
         \A n \in Names : maker[n] # 0 => maker'[n] = maker[n],
         PublisherFacts(q)', RowFacts(j)'
  PROVE  PublicationInv'
<1>0. /\ TypeOK /\ TypeOK' /\ 0 \notin Jobs
      /\ commits \in SUBSET (Jobs \X Names) /\ commits' \in SUBSET (Jobs \X Names)
  BY JobsFinite DEF PublicationInv, SubmissionInv, TypeOK
<1>1. /\ RequestTypes' /\ request'[r] = q
      /\ \A s \in Requests \ {r} : request'[s] = request[s]
  BY <1>0, OneMoves
<1>2. ASSUME NEW i \in Jobs \ {j}
      PROVE  /\ publication'[i] = publication[i] /\ pulls'[i] = pulls[i]
             /\ Untouched(i) => Untouched(i)'
             /\ \A n \in Names : maker[n] = i => maker'[n] = i
  <2>1. \A n \in Names : <<i, n>> \in commits' => <<i, n>> \in commits
    OBVIOUS
  <2> QED BY <1>0, <2>1 DEF Untouched
<1>3. \A i \in Jobs : RowFacts(i)'
  <2>1. ASSUME NEW i \in Jobs \ {j} PROVE RowFacts(i)'
    <3>1. RowFacts(i)
      BY DEF PublicationInv
    <3>2. (\E n \in Names : maker[n] = i) => \E n \in Names : maker'[n] = i
      BY <1>2
    <3> QED BY <1>2, <3>1, <3>2 DEF RowFacts
  <2> QED BY <2>1
<1>4. \A s \in Requests : PublisherFacts(request[s])'
  <2>1. PublisherFacts(request[r])'
    BY <1>1 DEF PublisherFacts
  <2>2. ASSUME NEW s \in Requests \ {r}, request[s].pc \in Publishing
        PROVE  PublisherFacts(request[s])'
    <3>1. /\ request[s].job \in Jobs \ {j} /\ request[s].name \in Names
          /\ request'[s] = request[s]
      BY <1>1, <2>2, PublisherIs DEF PublicationInv
    <3>2. PublisherFacts(request[s])
      BY DEF PublicationInv
    <3>3. PICK i \in Jobs \ {j}, n \in Names : i = request[s].job /\ n = request[s].name
      BY <3>1
    <3>4. /\ publication'[i] = publication[i] /\ pulls'[i] = pulls[i]
          /\ Untouched(i) => Untouched(i)'
          /\ maker[n] = i => maker'[n] = i
      BY <1>2
    <3> QED BY <3>1, <3>2, <3>3, <3>4 DEF PublisherFacts
  <2>3. ASSUME NEW s \in Requests \ {r}, request[s].pc \notin Publishing
        PROVE  PublisherFacts(request[s])'
    BY <1>1, <2>3 DEF PublisherFacts
  <2> QED BY <2>1, <2>2, <2>3
<1>5. OnePublisher'
  <2>1. ASSUME NEW s \in Requests \ {r}, request'[s].pc \in Publishing, q.pc \in Publishing
        PROVE  request'[s].job # q.job
    BY <1>1, <2>1
  <2> QED BY <1>1, <2>1 DEF OnePublisher, PublicationInv
<1>6. OnlyOwnRepositories'
  <2>1. ASSUME NEW c \in commits' PROVE maker'[c[2]] = c[1]
    <3>1. CASE c \in commits
      <4>1. c[1] \in Jobs /\ c[2] \in Names /\ maker[c[2]] = c[1]
        BY <1>0, <3>1 DEF PublicationInv, OnlyOwnRepositories
      <4> QED BY <1>0, <4>1
    <3>2. CASE c \notin commits
      BY <3>2
    <3> QED BY <3>1, <3>2
  <2> QED BY <2>1 DEF OnlyOwnRepositories
<1> QED
  BY <1>3, <1>4, <1>5, <1>6 DEF PublicationInv

LEMMA ClaimPublishes ==
  ASSUME PublicationInv, SubmissionInv', NEW r \in Requests, ClaimPublication(r)
  PROVE  PublicationInv'
<1>0. /\ SubmissionInv /\ TypeOK /\ HandlerFacts(request[r]) /\ request[r].pc = "claim"
      /\ request[r] \in RequestState /\ UNCHANGED <<status, key, body, github, past, bounds>>
  BY StateOf DEF PublicationInv, SubmissionInv, ClaimPublication
<1>1. PICK j \in Jobs : j = request[r].job
  BY <1>0 DEF HandlerFacts, RequestState
<1>2. CASE status[j] = "succeeded" /\ publication[j] = "null"
  <2>1. Goto(r, "create") /\ publication' = [publication EXCEPT ![j] = "publishing"]
    BY <1>1, <1>2 DEF ClaimPublication
  <2>2. PICK q \in RequestState : Moves(r, q) /\ q.pc = "create" /\ q.job = j
    BY <1>0, <1>1, <2>1, GotoIs DEF PC, Publishing
  <2>3. Untouched(j)
    BY <1>2 DEF PublicationInv, RowFacts
  <2>4. /\ publication'[j] = "publishing" /\ Untouched(j)' /\ pulls' = pulls
        /\ \A i \in Jobs \ {j} : publication'[i] = publication[i]
        /\ maker' = maker /\ commits' = commits
    BY <1>0, <2>1, <2>3 DEF TypeOK, Untouched, github
  <2>5. PublisherFacts(q)' /\ RowFacts(j)'
    BY <2>2, <2>4 DEF PublisherFacts, RowFacts, PublicationInv
  <2>6. \A s \in Requests : request[s].pc \in Publishing => request[s].job # j
    BY <1>2 DEF PublicationInv, PublisherFacts
  <2> QED BY <2>2, <2>4, <2>5, <2>6, PublisherMoves
<1>3. CASE ~(status[j] = "succeeded" /\ publication[j] = "null")
  <2>1. Return(r) /\ UNCHANGED publication
    BY <1>1, <1>3 DEF ClaimPublication
  <2>2. request'[r] = Idle /\ \A s \in Requests \ {r} : request'[s] = request[s]
    BY <1>0, <2>1, Returns
  <2> QED BY <1>0, <2>1, <2>2, NothingPublished DEF Idle, Publishing
<1> QED
  BY <1>2, <1>3

LEMMA CreatePublishes ==
  ASSUME PublicationInv, SubmissionInv', NEW r \in Requests, CreateRepository(r)
  PROVE  PublicationInv'
<1>0. /\ SubmissionInv /\ TypeOK /\ request[r].pc = "create" /\ PublisherFacts(request[r])
      /\ UNCHANGED <<table, commits, pulls, past, bounds>>
  BY DEF PublicationInv, SubmissionInv, CreateRepository
<1>1. PICK j \in Jobs, n \in Names : j = request[r].job /\ n = request[r].name
  BY <1>0, PublisherIs DEF Publishing
<1>2. PICK q \in RequestState :
        /\ Moves(r, q) /\ q.job = j /\ q.name = n
        /\ \/ /\ maker[n] = 0 /\ maker' = [maker EXCEPT ![n] = j]
              /\ q.pc = "call" \/ (q.pc = "record" /\ q.result = "null")
           \/ UNCHANGED maker /\ q.pc = "record" /\ q.result = "null"
  BY <1>0, <1>1, CreateIs DEF GoesOn
<1>3. publication[j] = "publishing" /\ Untouched(j)
  BY <1>0, <1>1 DEF PublisherFacts, Publishing
<1>4. /\ publication' = publication /\ pulls' = pulls /\ commits' = commits
      /\ Untouched(j)' /\ pulls[j] = 0
  BY <1>0, <1>3 DEF Untouched, table
<1>5. /\ \A m \in Names : maker[m] # 0 => maker'[m] = maker[m]
      /\ q.pc = "call" => maker'[n] = j
  BY <1>0, <1>2 DEF TypeOK
<1>6. PublisherFacts(q)'
  BY <1>2, <1>3, <1>4, <1>5 DEF PublisherFacts
<1>7. RowFacts(j)'
  BY <1>3, <1>4 DEF RowFacts
<1>8. \A s \in Requests \ {r} : request[s].pc \in Publishing => request[s].job # j
  BY <1>0, <1>1 DEF PublicationInv, OnePublisher, Publishing
<1> QED
  BY <1>2, <1>4, <1>5, <1>6, <1>7, <1>8, PublisherMoves

LEMMA CallPublishes ==
  ASSUME PublicationInv, SubmissionInv', NEW r \in Requests, Call(r)
  PROVE  PublicationInv'
<1>0. /\ SubmissionInv /\ TypeOK /\ request[r].pc = "call" /\ PublisherFacts(request[r])
      /\ UNCHANGED <<table, maker, past, bounds>>
  BY DEF PublicationInv, SubmissionInv, Call
<1>1. PICK j \in Jobs, n \in Names : j = request[r].job /\ n = request[r].name
  BY <1>0, PublisherIs DEF Publishing
<1>2. PICK q \in RequestState : GoesOn(r, q) /\ CallIsOver(r, q)
  BY <1>0, CallIs
<1>3. Moves(r, q) /\ q.job = j /\ q.name = n
  BY <1>1, <1>2 DEF GoesOn
<1>4. publication[j] = "publishing" /\ maker[n] = j /\ pulls[j] = 0
  BY <1>0, <1>1 DEF PublisherFacts, Publishing
<1>5. /\ publication' = publication /\ maker' = maker
      /\ commits' = commits \/ commits' = commits \cup {<<j, n>>}
  BY <1>0, <1>1 DEF Call, Effect, NoEffect, table
<1>6. /\ \A i \in Jobs \ {j} : pulls'[i] = pulls[i]
      /\ pulls'[j] = 0 \/ pulls'[j] = 1
      /\ \/ q.pc = "call" /\ pulls'[j] = 0
         \/ q.pc = "record" /\ q.result = "published" /\ pulls'[j] = 1
         \/ q.pc = "record" /\ q.result = "failed"
  BY <1>0, <1>1, <1>2, <1>4 DEF CallIsOver, TypeOK
<1>7. PublisherFacts(q)'
  BY <1>3, <1>4, <1>5, <1>6 DEF PublisherFacts
<1>8. RowFacts(j)'
  BY <1>4, <1>5, <1>6 DEF RowFacts
<1>9. \A s \in Requests \ {r} : request[s].pc \in Publishing => request[s].job # j
  BY <1>0, <1>1 DEF PublicationInv, OnePublisher, Publishing
<1>10. \A c \in commits' \ commits : c[1] = j /\ maker'[c[2]] = j
  BY <1>4, <1>5
<1> QED
  BY <1>3, <1>5, <1>6, <1>7, <1>8, <1>9, <1>10, PublisherMoves

LEMMA RecordPublishes ==
  ASSUME PublicationInv, SubmissionInv', NEW r \in Requests, Record(r)
  PROVE  PublicationInv'
<1>0. /\ SubmissionInv /\ TypeOK /\ request[r].pc = "record" /\ PublisherFacts(request[r])
      /\ request[r] \in RequestState /\ Return(r)
      /\ UNCHANGED <<status, key, body, github, past, bounds>>
  BY StateOf DEF PublicationInv, SubmissionInv, Record
<1>1. PICK j \in Jobs, n \in Names : j = request[r].job /\ n = request[r].name
  BY <1>0, PublisherIs DEF Publishing
<1>2. /\ Moves(r, Idle) /\ Idle \in RequestState /\ Idle.pc \notin Publishing
      /\ PublisherFacts(Idle)'
  BY <1>0, IdleState DEF Return, Moves, PublisherFacts, Idle, Publishing
<1>3. maker' = maker /\ commits' = commits /\ pulls' = pulls
  BY <1>0 DEF github
<1>4. /\ \A i \in Jobs \ {j} : publication'[i] = publication[i]
      /\ publication'[j] \in {publication[j], request[r].result}
  BY <1>0, <1>1 DEF Record, TypeOK
<1>5. /\ publication[j] = "publishing"
      /\ request[r].result \in {"null", "published", "failed"}
      /\ request[r].result = "null" => Untouched(j)
      /\ request[r].result = "published" => pulls[j] = 1
      /\ request[r].result = "failed" => maker[n] = j
  BY <1>0, <1>1 DEF PublisherFacts, Publishing, RequestState
<1>6. Untouched(j) => Untouched(j)'
  BY <1>3 DEF Untouched
<1>7. pulls[j] <= 1
  BY DEF PublicationInv, RowFacts
<1>8. RowFacts(j)'
  BY <1>3, <1>4, <1>5, <1>6, <1>7 DEF RowFacts
<1>9. \A s \in Requests \ {r} : request[s].pc \in Publishing => request[s].job # j
  BY <1>0, <1>1 DEF PublicationInv, OnePublisher, Publishing
<1> QED
  BY <1>2, <1>3, <1>4, <1>8, <1>9, PublisherMoves

QuietMove(r) ==
  /\ \A s \in Requests \ {r} : request'[s] = request[s]
  /\ request'[r].pc \notin Publishing

\* The other steps publish nothing.
LEMMA OthersPublishNothing ==
  ASSUME PublicationInv, SubmissionInv', NEW r \in Requests,
         \/ Arrive(r) \/ Abort(r)
         \/ Lookup(r) \/ Count(r) \/ Insert(r) \/ Winner(r) \/ Answer(r)
         \/ Requeue(r) \/ DeleteRow(r)
  PROVE  PublicationInv'
<1>0. TypeOK /\ request \in [Requests -> RequestState] /\ request[r] \in RequestState
  BY StateOf DEF PublicationInv, SubmissionInv, TypeOK, RequestTypes, RequestState
<1>1. UNCHANGED <<publication, github>>
  BY DEF Arrive, Submit, Retry, Delete, Publish, Other, Abort, Lookup, Count, Insert, Winner,
    Answer, Requeue, DeleteRow, table
<1>2. QuietMove(r)
  <2> USE DEF QuietMove
  <2>1. ASSUME Return(r)
        PROVE  QuietMove(r)
    BY <1>0, <2>1, Returns DEF Idle, Publishing
  <2>2. ASSUME NEW pc \in {"count", "insert", "requeue", "winner"}, Goto(r, pc)
        PROVE  QuietMove(r)
    <3>1. PICK q \in RequestState : Moves(r, q) /\ q.pc = pc
      BY <1>0, <2>2, GotoIs DEF PC
    <3> QED BY <1>0, <3>1, OneMoves DEF Publishing
  <2>3. CASE Arrive(r)
    <3>1. ASSUME NEW k \in Keys \cup {NoKey}, NEW b \in Bodies, Submit(r, k, b)
          PROVE  QuietMove(r)
      BY <1>0, <3>1 DEF Submit, Idle, Publishing
    <3>2. ASSUME NEW pc \in {"count", "delete", "claim"}, NEW j, NEW n, Other(r, pc, j, n)
          PROVE  QuietMove(r)
      BY <1>0, <3>2 DEF Other, Idle, Publishing
    <3> QED BY <2>3, <3>1, <3>2 DEF Arrive, Retry, Delete, Publish
  <2>4. CASE Insert(r)
    <3>1. CASE Goto(r, "winner")
      BY <2>2, <3>1
    <3>2. CASE \E j \in Jobs : request' = [request EXCEPT ![r].pc = "answer", ![r].job = j]
      BY <1>0, <3>2 DEF RequestState, Publishing
    <3>3. \E j \in Jobs : status[j] = "none"
      BY <2>4, RowIsLeft DEF Insert, Arriving, PublicationInv, SubmissionInv, HandlerFacts
    <3> QED BY <2>4, <3>1, <3>2, <3>3 DEF Insert
  <2>5. CASE \/ Abort(r) \/ Lookup(r) \/ Count(r) \/ Winner(r) \/ Answer(r)
             \/ Requeue(r) \/ DeleteRow(r)
    BY <2>1, <2>2, <2>5 DEF Abort, Lookup, Count, Winner, Answer, Requeue, DeleteRow, Replay
  <2> QED BY <2>3, <2>4, <2>5
<1> QED
  BY <1>1, <1>2, NothingPublished DEF QuietMove

LEMMA StepPublicationInv == PublicationInv /\ [Next]_vars => PublicationInv'
<1> SUFFICES ASSUME PublicationInv, [Next]_vars PROVE PublicationInv'
  OBVIOUS
<1>0. SubmissionInv'
  BY StepSubmissionInv DEF PublicationInv
<1>1. CASE UNCHANGED vars
  BY <1>0, <1>1, NothingPublished DEF vars, table
<1>2. ASSUME NEW r \in Requests, Arrive(r) \/ Handle(r) \/ Abort(r)
      PROVE  PublicationInv'
  BY <1>0, <1>2, OthersPublishNothing, ClaimPublishes, CreatePublishes, CallPublishes,
     RecordPublishes
  DEF Handle
<1>3. ASSUME NEW j \in Jobs, CancelQueued(j) \/ \E to \in Active \cup Terminal : Work(j, to)
      PROVE  PublicationInv'
  <2>1. UNCHANGED <<publication, github, request>>
    BY <1>3 DEF CancelQueued, Work
  <2> QED BY <1>0, <2>1, NothingPublished
<1> QED
  BY <1>1, <1>2, <1>3 DEF Next

\* However many requests ask for it and whatever GitHub answers, a job is published
\* at most once and to no repository but one created for it; a job that may be
\* published again has left no branch and no pull request, and one whose
\* publication failed has a repository.
THEOREM PublicationsStaySound == Spec => []PublicationsSound
<1>1. Init => PublicationInv
  <2> SUFFICES ASSUME Init PROVE PublicationInv
    OBVIOUS
  <2>1. SubmissionInv /\ \A r \in Requests : request[r] = Idle
    BY InitSubmissionInv DEF Init
  <2>2. \A r \in Requests : request[r].pc \notin Publishing
    BY <2>1 DEF Idle, Publishing
  <2>3. \A j \in Jobs : RowFacts(j)
    BY DEF Init, RowFacts, Untouched
  <2>4. OnlyOwnRepositories
    BY DEF Init, OnlyOwnRepositories
  <2> QED BY <2>1, <2>2, <2>3, <2>4 DEF PublicationInv, PublisherFacts, OnePublisher
<1>2. PublicationInv => PublicationsSound
  <2> SUFFICES ASSUME PublicationInv PROVE PublicationsSound
    OBVIOUS
  <2>1. ASSUME NEW j \in Jobs
        PROVE  Cardinality({r \in Requests : /\ request[r].pc \in Publishing
                                            /\ request[r].job = j}) <= 1
    <3>1. DEFINE P == {r \in Requests : request[r].pc \in Publishing /\ request[r].job = j}
    <3>2. CASE P = {}
      BY <3>2, FS_EmptySet
    <3>3. CASE P # {}
      <4>1. PICK r \in P : P = {r}
        BY <3>3 DEF PublicationInv, OnePublisher
      <4>2. Cardinality({r}) = 1
        BY FS_Singleton
      <4> QED BY <4>1, <4>2
    <3> QED BY <3>2, <3>3
  <2>2. PublishedOnce
    BY <2>1 DEF PublishedOnce, PublicationInv, RowFacts
  <2>3. GivenBackUntouched
    BY DEF GivenBackUntouched, PublicationInv, RowFacts, Untouched
  <2> QED BY <2>2, <2>3 DEF PublicationsSound, PublicationInv
<1> QED
  BY <1>1, <1>2, StepPublicationInv, PTL DEF Spec

-----------------------------------------------------------------------------
(* Induction, and functions defined by it                                  *)

Below == {p \in Nat \X Nat : p[1] < p[2]}

LEMMA NoDescent == IsWellFoundedOn(Below, Nat)
<1>1. Below = OpToRel(<, Nat)
  BY Zenon DEF Below, OpToRel
<1>2. IsWellFoundedOn(OpToRel(<, Nat), Nat)
  BY NatLessThanWellFounded, Zenon
<1> QED
  BY <1>1, <1>2, Zenon

\* A set of numbers with 0 and every successor up to N has all of them.
LEMMA UpTo ==
  ASSUME NEW N \in Nat, NEW S, 0 \in S, \A n \in 0 .. N - 1 : n \in S => n + 1 \in S
  PROVE  \A n \in 0 .. N : n \in S
<1> DEFINE T == {n \in 0 .. N : n \notin S}
<1> SUFFICES ASSUME T # {} PROVE FALSE
  OBVIOUS
<1>1. T \subseteq Nat
  OBVIOUS
<1>2. PICK x \in T : \A y \in T : ~ (<<y, x>> \in Below)
  BY <1>1, NoDescent, WFMin, Zenon
<1>3. x \in 0 .. N /\ x # 0 /\ x \notin S
  OBVIOUS
<1>4. x - 1 \in 0 .. N - 1 /\ <<x - 1, x>> \in Below
  BY <1>3 DEF Below
<1>5. x - 1 \in S
  BY <1>2, <1>4
<1> QED
  BY <1>3, <1>4, <1>5

Iteration(f, N, base, g) == f = [n \in 0 .. N |-> IF n = 0 THEN base ELSE g[<<n, f[n - 1]>>]]

\* Whatever a step makes of the number of the step and the value before, there is
\* a function that goes on by such steps.
LEMMA Iterates ==
  ASSUME NEW N \in Nat, NEW S, NEW base \in S, NEW g \in [(1 .. N) \X S -> S]
  PROVE  \E f \in [0 .. N -> S] : Iteration(f, N, base, g)
<1> DEFINE T == {k \in 0 .. N : \E f \in [0 .. k -> S] : Iteration(f, k, base, g)}
<1>1. 0 \in T
  <2>1. Iteration([n \in 0 .. 0 |-> base], 0, base, g)
    BY DEF Iteration
  <2>2. [n \in 0 .. 0 |-> base] \in [0 .. 0 -> S]
    OBVIOUS
  <2> QED
    BY <2>1, <2>2
<1>2. ASSUME NEW k \in 0 .. N - 1, k \in T
      PROVE  k + 1 \in T
  <2>1. PICK f \in [0 .. k -> S] : Iteration(f, k, base, g)
    BY <1>2
  <2> DEFINE h == [n \in 0 .. k + 1 |-> IF n = k + 1 THEN g[<<k + 1, f[k]>>] ELSE f[n]]
  <2>2. <<k + 1, f[k]>> \in (1 .. N) \X S
    BY <1>2
  <2>3. h \in [0 .. k + 1 -> S]
    BY <2>2
  <2>4. ASSUME NEW n \in 0 .. k + 1
        PROVE  h[n] = IF n = 0 THEN base ELSE g[<<n, h[n - 1]>>]
    <3>1. CASE n = k + 1
      <4>1. n # 0 /\ n - 1 = k /\ k \in 0 .. k + 1 /\ k # k + 1
        BY <3>1
      <4> QED
        BY <3>1, <4>1
    <3>2. CASE n \in 0 .. k
      BY <2>1, <3>2 DEF Iteration
    <3> QED
      BY <3>1, <3>2
  <2>5. Iteration(h, k + 1, base, g)
    <3> HIDE DEF h
    <3>1. h = [n \in 0 .. k + 1 |-> h[n]]
      BY <2>3
    <3> QED
      BY <2>4, <3>1 DEF Iteration
  <2> QED
    BY <2>3, <2>5
<1>3. \A k \in 0 .. N : k \in T
  <2> HIDE DEF T
  <2> QED
    BY <1>1, <1>2, UpTo
<1> QED
  BY <1>3

LEMMA IterationIs ==
  ASSUME NEW N \in Nat, NEW f, NEW base, NEW g, Iteration(f, N, base, g)
  PROVE  f[0] = base /\ \A n \in 1 .. N : f[n] = g[<<n, f[n - 1]>>]
<1>1. 0 \in 0 .. N /\ \A n \in 1 .. N : n \in 0 .. N /\ n # 0
  OBVIOUS
<1> QED
  BY <1>1, Zenon DEF Iteration

-----------------------------------------------------------------------------
(* Rows, newest first                                                      *)

Row == [at : Nat, id : Nat \ {0}]

LEMMA NewerOrders ==
  /\ Start \notin Row
  /\ \A x, y \in Row : x = y \/ Newer(x, y) \/ Newer(y, x)
  /\ \A x, y \in Row : Newer(x, y) => x # y /\ ~Newer(y, x)
  /\ \A x, y, z \in Row : Newer(x, y) /\ Newer(y, z) => Newer(x, z)
<1>1. Start \notin Row
  BY DEF Start, Row
<1>2. ASSUME NEW x \in Row, NEW y \in Row
      PROVE  /\ x = y \/ Newer(x, y) \/ Newer(y, x)
             /\ Newer(x, y) => x # y /\ ~Newer(y, x)
  <2>1. x.at \in Nat /\ x.id \in Nat /\ y.at \in Nat /\ y.id \in Nat
    BY DEF Row
  <2>2. x.at = y.at /\ x.id = y.id => x = y
    BY DEF Row
  <2> QED
    BY <2>1, <2>2 DEF Newer
<1>3. ASSUME NEW x \in Row, NEW y \in Row, NEW z \in Row, Newer(x, y), Newer(y, z)
      PROVE  Newer(x, z)
  <2>1. /\ x.at \in Nat /\ x.id \in Nat /\ y.at \in Nat /\ y.id \in Nat
        /\ z.at \in Nat /\ z.id \in Nat
    BY DEF Row
  <2> QED
    BY <2>1, <1>3 DEF Newer
<1> QED
  BY <1>1, <1>2, <1>3, Zenon

\* Of finitely many rows the older ones of an older row are fewer.
LEMMA FewerAreOlder ==
  ASSUME NEW S \in SUBSET Row, IsFiniteSet(S), NEW x \in Row, NEW y \in S, Newer(x, y)
  PROVE  /\ Cardinality({z \in S : Newer(x, z)}) \in Nat
         /\ Cardinality({z \in S : Newer(y, z)}) \in Nat
         /\ Cardinality({z \in S : Newer(y, z)}) < Cardinality({z \in S : Newer(x, z)})
<1> DEFINE below(r) == {z \in S : Newer(r, z)}
<1>1. IsFiniteSet(below(x)) /\ IsFiniteSet(below(y))
  BY FS_Subset
<1>2. below(y) \subseteq below(x)
  BY NewerOrders
<1>3. y \in below(x) /\ y \notin below(y)
  BY NewerOrders
<1>4. Cardinality(below(y)) <= Cardinality(below(x)) /\ Cardinality(below(y)) # Cardinality(below(x))
  BY <1>1, <1>2, <1>3, FS_Subset
<1>5. Cardinality(below(x)) \in Nat /\ Cardinality(below(y)) \in Nat
  BY <1>1, FS_CardinalityType
<1> QED
  BY <1>4, <1>5

LEMMA OldestExists ==
  ASSUME NEW S \in SUBSET Row, IsFiniteSet(S), S # {}
  PROVE  \E x \in S : \A y \in S \ {x} : Newer(y, x)
<1> DEFINE count(x) == Cardinality({z \in S : Newer(x, z)})
           C == {count(x) : x \in S}
<1>1. C \subseteq Nat /\ C # {}
  <2>1. ASSUME NEW x \in S PROVE count(x) \in Nat
    BY FS_Subset, FS_CardinalityType
  <2> QED
    BY <2>1
<1>2. PICK m \in C : \A c \in C : ~ (<<c, m>> \in Below)
  <2> HIDE DEF C
  <2> QED
    BY <1>1, NoDescent, WFMin, Zenon
<1>3. PICK x \in S : m = count(x)
  OBVIOUS
<1>4. ASSUME NEW y \in S \ {x}, ~Newer(y, x)
      PROVE  FALSE
  <2>1. Newer(x, y)
    BY <1>4, NewerOrders
  <2>2. count(y) < count(x) /\ count(y) \in Nat /\ count(x) \in Nat
    BY <2>1, FewerAreOlder
  <2>3. count(y) \in C
    OBVIOUS
  <2>4. <<count(y), m>> \in Below
    BY <2>2, <1>3 DEF Below
  <2> QED
    BY <1>2, <2>3, <2>4
<1> QED
  BY <1>4

LEMMA NewestExists ==
  ASSUME NEW S \in SUBSET Row, IsFiniteSet(S), S # {}
  PROVE  \E x \in S : \A y \in S : ~Newer(y, x)
<1> DEFINE count(x) == Cardinality({z \in S : Newer(z, x)})
           C == {count(x) : x \in S}
<1>1. C \subseteq Nat /\ C # {}
  <2>1. ASSUME NEW x \in S PROVE count(x) \in Nat
    BY FS_Subset, FS_CardinalityType
  <2> QED
    BY <2>1
<1>2. PICK m \in C : \A c \in C : ~ (<<c, m>> \in Below)
  <2> HIDE DEF C
  <2> QED
    BY <1>1, NoDescent, WFMin, Zenon
<1>3. PICK x \in S : m = count(x)
  OBVIOUS
<1>4. ASSUME NEW y \in S, Newer(y, x)
      PROVE  FALSE
  <2> DEFINE above(r) == {z \in S : Newer(z, r)}
  <2>1. IsFiniteSet(above(x)) /\ IsFiniteSet(above(y))
    BY FS_Subset
  <2>2. above(y) \subseteq above(x) /\ y \in above(x) /\ y \notin above(y)
    BY <1>4, NewerOrders
  <2>3. Cardinality(above(y)) <= Cardinality(above(x)) /\ Cardinality(above(y)) # Cardinality(above(x))
    BY <2>1, <2>2, FS_Subset
  <2>4. Cardinality(above(y)) < Cardinality(above(x))
    BY <2>1, <2>3, FS_CardinalityType
  <2>5. count(y) \in C /\ count(y) \in Nat /\ count(x) \in Nat
    BY <1>1
  <2>6. <<count(y), m>> \in Below
    BY <2>4, <2>5, <1>3 DEF Below
  <2> QED
    BY <1>2, <2>5, <2>6
<1> QED
  BY <1>4

-----------------------------------------------------------------------------
(* One page                                                                *)

\* A page shows the newest rows behind the cursor; its own cursor is the last of
\* them, or none when nothing is left.
LEMMA PageIs ==
  ASSUME NEW rows \in SUBSET Row, IsFiniteSet(rows), NEW cursor, NEW limit \in Nat \ {0}
  PROVE  LET page   == Page(rows, cursor, limit)
             behind == Behind(rows, cursor) IN
         /\ page.items \subseteq behind
         /\ page.next = Start => page.items = behind
         /\ page.next # Start => /\ page.next \in page.items
                                 /\ \A x \in page.items \ {page.next} : Newer(x, page.next)
                                 /\ \A x \in behind \ page.items : Newer(page.next, x)
         /\ page.items \in SUBSET Row /\ page.next \in Row \cup {Start}
<1> DEFINE behind == Behind(rows, cursor)
           above(x) == {y \in behind : Newer(y, x)}
           items == {x \in behind : Cardinality(above(x)) < limit}
           last == CHOOSE x \in items : \A y \in items \ {x} : Newer(y, x)
           page == Page(rows, cursor, limit)
<1>1. behind \in SUBSET Row /\ IsFiniteSet(behind) /\ Cardinality(behind) \in Nat
  <2>1. behind \in SUBSET rows
    BY DEF Behind
  <2> QED
    BY <2>1, FS_Subset, FS_CardinalityType
<1>2. page = [items |-> items, next |-> IF Cardinality(behind) > limit THEN last ELSE Start]
  BY DEF Page
<1> HIDE DEF page, behind
<1>3. \A x \in behind : IsFiniteSet(above(x)) /\ Cardinality(above(x)) \in Nat
  BY <1>1, FS_Subset, FS_CardinalityType
<1>4. ASSUME NEW x \in behind
      PROVE  Cardinality(above(x)) < Cardinality(behind)
  <2>1. above(x) \subseteq behind /\ x \notin above(x)
    BY <1>1, NewerOrders
  <2>2. Cardinality(above(x)) <= Cardinality(behind) /\ Cardinality(above(x)) # Cardinality(behind)
    BY <1>1, <2>1, FS_Subset
  <2> QED
    BY <1>1, <1>3, <2>2
<1>5. CASE ~(Cardinality(behind) > limit)
  <2>1. items = behind
    <3> HIDE DEF above
    <3> QED
      BY <1>1, <1>3, <1>4, <1>5
  <2>2. page.items = behind /\ page.next = Start
    BY <1>2, <1>5, <2>1
  <2> QED
    BY <1>1, <2>2 DEF page, behind
<1>6. CASE Cardinality(behind) > limit
  <2>1. IsFiniteSet(items) /\ items \in SUBSET Row
    BY <1>1, FS_Subset
  <2>2. items # {}
    <3>1. behind # {}
      BY <1>1, <1>6, FS_EmptySet
    <3>2. PICK x \in behind : \A y \in behind : ~Newer(y, x)
      BY <1>1, <3>1, NewestExists
    <3>3. above(x) = {}
      BY <3>2
    <3>4. Cardinality(above(x)) = 0
      BY <3>3, FS_EmptySet
    <3> QED
      BY <3>4
  <2>3. last \in items /\ \A y \in items \ {last} : Newer(y, last)
    <3> HIDE DEF items
    <3>1. \E x \in items : \A y \in items \ {x} : Newer(y, x)
      BY <2>1, <2>2, OldestExists
    <3> QED
      BY <3>1, Zenon
  <2>4. ASSUME NEW x \in behind \ items
        PROVE  Newer(last, x)
    <3> HIDE DEF last
    <3>1. x # last /\ x \in Row /\ last \in Row /\ last \in behind
      BY <1>1, <2>3
    <3>2. ~Newer(x, last)
      <4>1. SUFFICES ASSUME Newer(x, last) PROVE FALSE
        OBVIOUS
      <4>2. above(x) \subseteq above(last)
        BY <1>1, <3>1, <4>1, NewerOrders
      <4>3. Cardinality(above(x)) <= Cardinality(above(last))
        BY <1>3, <3>1, <4>2, FS_Subset
      <4>4. Cardinality(above(last)) < limit
        BY <2>3
      <4>5. Cardinality(above(x)) \in Nat /\ Cardinality(above(last)) \in Nat
        BY <1>3, <3>1
      <4>6. Cardinality(above(x)) < limit
        <5> HIDE DEF above
        <5> QED
          BY <4>3, <4>4, <4>5
      <4> QED
        BY <4>6
    <3> QED
      BY <3>1, <3>2, NewerOrders
  <2>5. page.items = items /\ page.next = last
    BY <1>2, <1>6
  <2>6. last # Start
    BY <2>1, <2>3, NewerOrders
  <2> HIDE DEF items, last
  <2>7. items \subseteq behind
    BY DEF items
  <2> QED
    BY <2>1, <2>3, <2>4, <2>5, <2>6, <2>7 DEF page, behind
<1> QED
  BY <1>5, <1>6

-----------------------------------------------------------------------------
(* All pages                                                               *)

NoPage == [items |-> {}, next |-> Start]

\* Page n + 1 is read behind page n, from the table as it then is.
Follows(pages, before, after, k, limit, N) ==
  /\ DOMAIN pages = 1 .. N + 1
  /\ pages[1] = Page(before, Start, limit)
  /\ \A n \in 1 .. N :
       pages[n + 1] = IF pages[n].next = Start THEN NoPage
                      ELSE Page(IF n + 1 < k THEN before ELSE after, pages[n].next, limit)

LEMMA WalkIs ==
  ASSUME NEW before \in SUBSET Row, IsFiniteSet(before),
         NEW after \in SUBSET Row, IsFiniteSet(after),
         NEW k \in Nat, NEW limit \in Nat \ {0}
  PROVE  LET N == Cardinality(before \cup after) IN
         /\ N \in Nat
         /\ Follows(Walk(before, after, k, limit), before, after, k, limit, N)
<1> DEFINE N == Cardinality(before \cup after)
           S == [items : SUBSET Row, next : Row \cup {Start}]
           source(n) == IF n < k THEN before ELSE after
           base == Page(before, Start, limit)
           g == [x \in (1 .. N) \X S |-> IF x[2].next = Start THEN NoPage
                                         ELSE Page(source(x[1] + 1), x[2].next, limit)]
           Pages(f) == f = [n \in 1 .. N + 1 |->
                              IF n = 1 THEN base
                              ELSE IF f[n - 1].next = Start THEN NoPage
                              ELSE Page(source(n), f[n - 1].next, limit)]
<1>1. N \in Nat
  BY FS_Union, FS_CardinalityType
<1>2. \A rows \in {before, after} : \A cursor : Page(rows, cursor, limit) \in S
  <2>1. ASSUME NEW rows \in {before, after}, NEW cursor
        PROVE  Page(rows, cursor, limit) \in S
    <3>1. rows \in SUBSET Row /\ IsFiniteSet(rows)
      OBVIOUS
    <3>2. /\ Page(rows, cursor, limit).items \in SUBSET Row
          /\ Page(rows, cursor, limit).next \in Row \cup {Start}
      BY <3>1, PageIs, Zenon
    <3>3. Page(rows, cursor, limit)
            = [items |-> Page(rows, cursor, limit).items, next |-> Page(rows, cursor, limit).next]
      BY DEF Page
    <3> QED
      BY <3>2, <3>3
  <2> QED
    BY <2>1
<1>3. NoPage \in S
  BY DEF NoPage
<1>4. base \in S /\ g \in [(1 .. N) \X S -> S]
  BY <1>2, <1>3
<1>5. PICK f \in [0 .. N -> S] : Iteration(f, N, base, g)
  <2> HIDE DEF N, S, base, g
  <2> QED
    BY <1>1, <1>4, Iterates
<1>6. f[0] = base /\ \A n \in 1 .. N : f[n] = g[<<n, f[n - 1]>>]
  <2> HIDE DEF N, S, base, g
  <2> QED
    BY <1>1, <1>5, IterationIs
<1> DEFINE h == [n \in 1 .. N + 1 |-> f[n - 1]]
<1>7. Pages(h)
  <2> HIDE DEF N, S, base, NoPage
  <2>1. ASSUME NEW n \in 1 .. N + 1
        PROVE  h[n] = IF n = 1 THEN base
                      ELSE IF h[n - 1].next = Start THEN NoPage
                      ELSE Page(source(n), h[n - 1].next, limit)
    <3>1. CASE n = 1
      BY <1>6, <3>1
    <3>2. CASE n # 1
      <4>1. n - 1 \in 1 .. N /\ n - 1 \in 1 .. N + 1 /\ (n - 1) - 1 \in 0 .. N /\ (n - 1) + 1 = n
        BY <1>1, <3>2
      <4>2. h[n] = g[<<n - 1, f[(n - 1) - 1]>>] /\ h[n - 1] = f[(n - 1) - 1]
        BY <1>6, <4>1
      <4>3. <<n - 1, f[(n - 1) - 1]>> \in (1 .. N) \X S
        BY <4>1
      <4>4. g[<<n - 1, f[(n - 1) - 1]>>]
              = IF f[(n - 1) - 1].next = Start THEN NoPage
                ELSE Page(source((n - 1) + 1), f[(n - 1) - 1].next, limit)
        BY <4>3
      <4> QED
        BY <3>2, <4>1, <4>2, <4>4
    <3> QED
      BY <3>1, <3>2
  <2>2. h = [n \in 1 .. N + 1 |-> h[n]]
    OBVIOUS
  <2> HIDE DEF h
  <2> QED
    BY <2>1, <2>2
<1> HIDE DEF h
<1> DEFINE pages == CHOOSE p : Pages(p)
<1>8. Walk(before, after, k, limit) = pages
  BY DEF Walk, NoPage
<1>9. Pages(pages)
  <2> HIDE DEF Pages
  <2> QED
    BY <1>7
<1> HIDE DEF pages
<1>10. Follows(pages, before, after, k, limit, N)
  <2> HIDE DEF N
  <2>1. DOMAIN pages = 1 .. N + 1
    BY <1>9
  <2>2. 1 \in 1 .. N + 1 /\ \A n \in 1 .. N : n + 1 \in 1 .. N + 1 /\ n + 1 # 1 /\ (n + 1) - 1 = n
    BY <1>1
  <2>3. pages[1] = base
    BY <1>9, <2>2
  <2>4. ASSUME NEW n \in 1 .. N
        PROVE  pages[n + 1] = IF pages[n].next = Start THEN NoPage
                              ELSE Page(source(n + 1), pages[n].next, limit)
    <3> HIDE DEF source, base, NoPage
    <3> QED
      BY <1>9, <2>2
  <2> QED
    BY <2>1, <2>3, <2>4 DEF Follows
<1> QED
  BY <1>1, <1>8, <1>10

\* After n pages: what was shown is not behind the cursor, every row that stays was
\* shown or is behind it, and there is less and less behind it.
Progress(pages, before, after, N, n) ==
  LET cursor == pages[n].next IN
  /\ \A m \in 1 .. n : pages[m].items \subseteq before \cup after
  /\ cursor # Start =>
       /\ cursor \in before \cup after
       /\ \A m \in 1 .. n : \A x \in pages[m].items : x = cursor \/ Newer(x, cursor)
       /\ Cardinality({x \in before \cup after : Newer(cursor, x)}) + n <= N
  /\ \A x \in before \cap after :
       \/ \E m \in 1 .. n : x \in pages[m].items
       \/ cursor # Start /\ Newer(cursor, x)
  /\ \A i, j \in 1 .. n : i # j => pages[i].items \cap pages[j].items = {}

LEMMA FirstPage ==
  ASSUME NEW before \in SUBSET Row, IsFiniteSet(before),
         NEW after \in SUBSET Row, IsFiniteSet(after),
         NEW k \in Nat, NEW limit \in Nat \ {0}, NEW pages,
         Follows(pages, before, after, k, limit, Cardinality(before \cup after))
  PROVE  Progress(pages, before, after, Cardinality(before \cup after), 1)
<1> DEFINE all == before \cup after
           N == Cardinality(all)
           page == pages[1]
           older(x) == {y \in all : Newer(x, y)}
<1>1. IsFiniteSet(all) /\ N \in Nat /\ all \in SUBSET Row
  BY FS_Union, FS_CardinalityType
<1>2. page = Page(before, Start, limit) /\ Behind(before, Start) = before
  BY DEF Follows, Behind
<1>3. /\ page.items \subseteq before
      /\ page.next = Start => page.items = before
      /\ page.next # Start => /\ page.next \in page.items
                              /\ \A x \in page.items \ {page.next} : Newer(x, page.next)
                              /\ \A x \in before \ page.items : Newer(page.next, x)
  BY <1>2, PageIs
<1>4. ASSUME page.next # Start
      PROVE  Cardinality(older(page.next)) + 1 <= N
  <2>1. page.next \in all /\ page.next \notin older(page.next)
    BY <1>1, <1>3, <1>4, NewerOrders
  <2>2. older(page.next) \subseteq all
    OBVIOUS
  <2>3. IsFiniteSet(older(page.next)) /\ Cardinality(older(page.next)) \in Nat
    BY <1>1, <2>2, FS_Subset, FS_CardinalityType
  <2>4. Cardinality(older(page.next)) <= N /\ Cardinality(older(page.next)) # N
    BY <1>1, <2>1, <2>2, FS_Subset
  <2> HIDE DEF older, N
  <2> QED
    BY <1>1, <2>3, <2>4
<1>5. 1 .. 1 = {1}
  OBVIOUS
<1>6. /\ page.items \subseteq all
      /\ page.next # Start =>
           /\ page.next \in all
           /\ \A x \in page.items : x = page.next \/ Newer(x, page.next)
           /\ Cardinality(older(page.next)) + 1 <= N
      /\ \A x \in before \cap after : x \in page.items \/ (page.next # Start /\ Newer(page.next, x))
  <2> HIDE DEF older, N, page
  <2> QED
    BY <1>3, <1>4
<1> HIDE DEF N
<1>7. Progress(pages, before, after, N, 1)
  BY <1>5, <1>6 DEF Progress
<1> QED
  BY <1>7 DEF N

LEMMA NextPage ==
  ASSUME NEW before \in SUBSET Row, IsFiniteSet(before),
         NEW after \in SUBSET Row, IsFiniteSet(after),
         NEW k \in Nat, NEW limit \in Nat \ {0}, NEW pages,
         Follows(pages, before, after, k, limit, Cardinality(before \cup after)),
         NEW n \in 1 .. Cardinality(before \cup after),
         Progress(pages, before, after, Cardinality(before \cup after), n)
  PROVE  Progress(pages, before, after, Cardinality(before \cup after), n + 1)
<1> DEFINE all == before \cup after
           N == Cardinality(all)
           cursor == pages[n].next
           page == pages[n + 1]
           source == IF n + 1 < k THEN before ELSE after
           older(x) == {y \in all : Newer(x, y)}
<1>1. IsFiniteSet(all) /\ N \in Nat /\ all \in SUBSET Row
  BY FS_Union, FS_CardinalityType
<1>2. n \in Nat /\ 1 .. n + 1 = (1 .. n) \cup {n + 1} /\ n + 1 \notin 1 .. n
  BY <1>1
<1>3. CASE cursor = Start
  <2>1. page.items = {} /\ page.next = Start
    <3>1. page = NoPage
      BY <1>3 DEF Follows
    <3> QED
      BY <3>1 DEF NoPage
  <2>2. \A x \in before \cap after : \E m \in 1 .. n : x \in pages[m].items
    BY <1>3 DEF Progress
  <2>3. /\ \A m \in 1 .. n : pages[m].items \subseteq all
        /\ \A i, j \in 1 .. n : i # j => pages[i].items \cap pages[j].items = {}
    BY DEF Progress
  <2> QED
    BY <1>2, <2>1, <2>2, <2>3 DEF Progress
<1>4. CASE cursor # Start
  <2>1. /\ cursor \in all
        /\ \A m \in 1 .. n : pages[m].items \subseteq all
        /\ \A m \in 1 .. n : \A x \in pages[m].items : x = cursor \/ Newer(x, cursor)
        /\ Cardinality(older(cursor)) + n <= N
        /\ \A x \in before \cap after :
             (\E m \in 1 .. n : x \in pages[m].items) \/ Newer(cursor, x)
        /\ \A i, j \in 1 .. n : i # j => pages[i].items \cap pages[j].items = {}
    BY <1>4 DEF Progress
  <2>2. page = Page(source, cursor, limit) /\ source \in SUBSET Row /\ IsFiniteSet(source)
    BY <1>4 DEF Follows
  <2>3. /\ page.items \subseteq Behind(source, cursor)
        /\ page.next = Start => page.items = Behind(source, cursor)
        /\ page.next # Start =>
             /\ page.next \in page.items
             /\ \A x \in page.items \ {page.next} : Newer(x, page.next)
             /\ \A x \in Behind(source, cursor) \ page.items : Newer(page.next, x)
    <3> HIDE DEF source, page, cursor
    <3> QED
      BY <2>2, PageIs
  <2>4. Behind(source, cursor) = {x \in source : Newer(cursor, x)}
    BY <1>4 DEF Behind
  <2>5. source \subseteq all /\ before \cap after \subseteq source
    OBVIOUS
  <2> HIDE DEF source, page, cursor
  <2>6. page.items \subseteq all /\ \A x \in page.items : Newer(cursor, x)
    BY <2>3, <2>4, <2>5
  <2>7. \A m \in 1 .. n : pages[m].items \cap page.items = {}
    BY <1>1, <2>1, <2>6, NewerOrders
  <2>8. ASSUME NEW x \in before \cap after
        PROVE  (\E m \in 1 .. n : x \in pages[m].items) \/ x \in page.items
                 \/ (page.next # Start /\ Newer(page.next, x))
    BY <2>1, <2>3, <2>4, <2>5
  <2>9. ASSUME page.next # Start
        PROVE  /\ page.next \in all
               /\ \A m \in 1 .. n : \A x \in pages[m].items : Newer(x, page.next)
               /\ \A x \in page.items : x = page.next \/ Newer(x, page.next)
               /\ Cardinality(older(page.next)) + (n + 1) <= N
    <3>1. page.next \in all /\ Newer(cursor, page.next)
      BY <2>3, <2>6, <2>9
    <3>2. ASSUME NEW m \in 1 .. n, NEW x \in pages[m].items
          PROVE  Newer(x, page.next)
      <4>1. x = cursor \/ Newer(x, cursor)
        BY <2>1
      <4>2. CASE x = cursor
        BY <3>1, <4>2
      <4>3. CASE Newer(x, cursor)
        <5>1. x \in Row
          BY <1>1, <2>1
        <5> QED
          BY <1>1, <2>1, <3>1, <4>3, <5>1, NewerOrders
      <4> QED
        BY <4>1, <4>2, <4>3
    <3>3. /\ Cardinality(older(page.next)) < Cardinality(older(cursor))
          /\ Cardinality(older(page.next)) \in Nat /\ Cardinality(older(cursor)) \in Nat
      BY <1>1, <2>1, <3>1, FewerAreOlder
    <3>4. Cardinality(older(page.next)) + (n + 1) <= N
      <4> HIDE DEF older, N
      <4> QED
        BY <1>1, <1>2, <2>1, <3>3
    <3> QED
      BY <2>3, <2>9, <3>1, <3>2, <3>4
  <2>10. \A m \in 1 .. n : pages[m].items \cap pages[n + 1].items = {}
    BY <2>7 DEF page
  <2> HIDE DEF N
  <2>11. \A m \in 1 .. n + 1 : pages[m].items \subseteq all
    BY <1>2, <2>1, <2>6 DEF page
  <2>12. pages[n + 1].next # Start =>
           /\ pages[n + 1].next \in all
           /\ \A m \in 1 .. n + 1 : \A x \in pages[m].items :
                x = pages[n + 1].next \/ Newer(x, pages[n + 1].next)
           /\ Cardinality(older(pages[n + 1].next)) + (n + 1) <= N
    <3> HIDE DEF older
    <3> QED
      BY <1>2, <2>9 DEF page
  <2>13. \A x \in before \cap after :
           \/ \E m \in 1 .. n + 1 : x \in pages[m].items
           \/ pages[n + 1].next # Start /\ Newer(pages[n + 1].next, x)
    BY <1>2, <2>8 DEF page
  <2>14. \A i, j \in 1 .. n + 1 : i # j => pages[i].items \cap pages[j].items = {}
    BY <1>2, <2>1, <2>10
  <2>15. Progress(pages, before, after, N, n + 1)
    BY <2>11, <2>12, <2>13, <2>14 DEF Progress
  <2> QED
    BY <2>15 DEF N
<1> QED
  BY <1>3, <1>4

\* repository.py, "jobs sharing a timestamp across a page boundary are neither skipped nor
\* repeated": for any table, any limit and whatever replaces the table in front of any page, a
\* walk ends after as many pages as there are rows at most, shows every row that stays on
\* exactly one of them and no row on two.
THEOREM PagesShowEveryJobOnce ==
  ASSUME NEW before \in SUBSET Row, IsFiniteSet(before),
         NEW after \in SUBSET Row, IsFiniteSet(after),
         NEW k \in Nat, NEW limit \in Nat \ {0}
  PROVE  LET pages == Walk(before, after, k, limit) IN
         /\ pages[Cardinality(before \cup after) + 1].next = Start
         /\ \A x \in before \cap after : \E n \in DOMAIN pages : x \in pages[n].items
         /\ \A i, j \in DOMAIN pages : i # j => pages[i].items \cap pages[j].items = {}
<1> DEFINE all == before \cup after
           N == Cardinality(all)
           pages == Walk(before, after, k, limit)
<1>1. IsFiniteSet(all) /\ N \in Nat /\ all \in SUBSET Row
  BY FS_Union, FS_CardinalityType
<1>2. Follows(pages, before, after, k, limit, N)
  BY WalkIs
<1> HIDE DEF pages
<1> DEFINE T == {n \in 0 .. N : Progress(pages, before, after, N, n + 1)}
<1>3. \A n \in 0 .. N : n \in T
  <2>1. 0 \in T
    BY <1>1, <1>2, FirstPage
  <2>2. ASSUME NEW n \in 0 .. N - 1, n \in T
        PROVE  n + 1 \in T
    <3>1. n + 1 \in 1 .. N /\ Progress(pages, before, after, N, n + 1)
      BY <1>1, <2>2
    <3>2. Progress(pages, before, after, N, (n + 1) + 1)
      BY <1>2, <3>1, NextPage
    <3> QED
      BY <1>1, <3>1, <3>2
  <2> HIDE DEF T, N
  <2> QED
    BY <1>1, <2>1, <2>2, UpTo
<1>4. Progress(pages, before, after, N, N + 1)
  BY <1>1, <1>3
<1>5. DOMAIN pages = 1 .. N + 1
  BY <1>2 DEF Follows
<1>6. pages[N + 1].next = Start
  <2>1. SUFFICES ASSUME pages[N + 1].next # Start PROVE FALSE
    OBVIOUS
  <2> DEFINE rest == {x \in all : Newer(pages[N + 1].next, x)}
  <2>2. Cardinality(rest) + (N + 1) <= N
    BY <1>4, <2>1 DEF Progress
  <2>3. Cardinality(rest) \in Nat
    BY <1>1, FS_Subset, FS_CardinalityType
  <2> HIDE DEF rest, N
  <2> QED
    BY <1>1, <2>2, <2>3
<1> HIDE DEF N
<1> QED
  BY <1>4, <1>5, <1>6 DEF Progress, N, pages

\* Of those that are shown at most once, the pages are counted.
LEMMA CountPages ==
  ASSUME NEW N \in Nat, NEW P \in SUBSET (1 .. N), \A i, j \in P : i = j
  PROVE  Cardinality(P) <= 1 /\ (P # {} => Cardinality(P) = 1)
<1>1. CASE P = {}
  BY <1>1, FS_EmptySet
<1>2. CASE P # {}
  <2>1. PICK i \in P : P = {i}
    BY <1>2
  <2> QED
    BY <2>1, FS_Singleton
<1> QED
  BY <1>1, <1>2

LEMMA ListsAreCovered == PagesCoverTheList
<1> SUFFICES ASSUME NEW at \in [Ids -> 1..2], NEW old \in SUBSET Ids, NEW new \in SUBSET Ids,
                    NEW limit \in 1..2, NEW k \in 2..3
             PROVE  LET rows(ids) == {[at |-> at[i], id |-> i] : i \in ids}
                        pages == Walk(rows(old), rows(new), k, limit)
                        Times(x) == Cardinality({n \in DOMAIN pages : x \in pages[n].items})
                    IN /\ \A x \in rows(old \cap new) : Times(x) = 1
                       /\ \A x \in rows(old \cup new) : Times(x) <= 1
  BY Zenon DEF PagesCoverTheList
<1> DEFINE rows(ids) == {[at |-> at[i], id |-> i] : i \in ids}
           pages == Walk(rows(old), rows(new), k, limit)
           shown(x) == {n \in DOMAIN pages : x \in pages[n].items}
           N == Cardinality(rows(old) \cup rows(new))
<1>1. ASSUME NEW ids \in SUBSET Ids
      PROVE  rows(ids) \in SUBSET Row /\ IsFiniteSet(rows(ids))
  <2>1. rows(ids) \in SUBSET Row
    BY DEF Ids, Row
  <2>2. IsFiniteSet(ids)
    <3>1. IsFiniteSet(1 .. 4)
      <4>1. 1 \in Int /\ 4 \in Int
        OBVIOUS
      <4> QED
        BY <4>1, FS_Interval
    <3> QED
      BY <3>1, FS_Subset DEF Ids
  <2>3. IsFiniteSet(rows(ids))
    <3> DEFINE f == [i \in ids |-> [at |-> at[i], id |-> i]]
    <3>1. f \in Surjection(ids, rows(ids))
      BY DEF Surjection
    <3> HIDE DEF f
    <3> QED
      BY <2>2, <3>1, FS_Surjection
  <2> QED
    BY <2>1, <2>3
<1>2. k \in Nat /\ limit \in Nat \ {0}
  OBVIOUS
<1>3. /\ \A x \in rows(old) \cap rows(new) : \E n \in DOMAIN pages : x \in pages[n].items
      /\ \A i, j \in DOMAIN pages : i # j => pages[i].items \cap pages[j].items = {}
  <2> HIDE DEF rows
  <2> QED
    BY <1>1, <1>2, PagesShowEveryJobOnce
<1>4. N \in Nat /\ DOMAIN pages = 1 .. N + 1
  <2> HIDE DEF rows
  <2> QED
    BY <1>1, <1>2, WalkIs DEF Follows
<1>5. rows(old \cap new) \subseteq rows(old) \cap rows(new)
  OBVIOUS
<1> HIDE DEF rows, pages, N
<1>6. ASSUME NEW x
      PROVE  /\ Cardinality(shown(x)) <= 1
             /\ shown(x) # {} => Cardinality(shown(x)) = 1
  <2>1. shown(x) \in SUBSET (1 .. N + 1) /\ \A i, j \in shown(x) : i = j
    BY <1>3, <1>4
  <2>2. N + 1 \in Nat
    BY <1>4
  <2> HIDE DEF shown
  <2> QED
    BY <2>1, <2>2, CountPages
<1>7. ASSUME NEW x \in rows(old \cap new)
      PROVE  Cardinality(shown(x)) = 1
  <2>1. shown(x) # {}
    BY <1>3, <1>5, <1>7
  <2> HIDE DEF shown
  <2> QED
    BY <1>6, <2>1
<1> QED
  BY <1>6, <1>7 DEF rows, pages

-----------------------------------------------------------------------------
(* Keys and strangers                                                      *)

LEMMA LastPlace ==
  ASSUME NEW n \in Nat, NEW P \in SUBSET (1 .. n), P # {}
  PROVE  \E i \in P : \A k \in P : k <= i
<1> DEFINE C == {n - i : i \in P}
<1>1. C \subseteq Nat /\ C # {}
  <2>1. \A i \in P : n - i \in Nat
    OBVIOUS
  <2> QED
    BY <2>1
<1>2. PICK m \in C : \A c \in C : ~ (<<c, m>> \in Below)
  <2> HIDE DEF C
  <2> QED
    BY <1>1, NoDescent, WFMin, Zenon
<1>3. PICK i \in P : m = n - i
  OBVIOUS
<1>4. ASSUME NEW k \in P
      PROVE  k <= i
  <2>1. n - k \in C
    OBVIOUS
  <2>2. ~(n - k < n - i)
    BY <1>1, <1>2, <1>3, <2>1 DEF Below
  <2> QED
    BY <2>2
<1> QED
  BY <1>4

\* A key that is configured stands for the principal of its last entry, any other for nobody.
LEMMA AuthenticateIs ==
  ASSUME NEW n \in Nat, NEW entries \in [1 .. n -> [principal : Principals, secret : Secrets]],
         NEW secret
  PROVE  LET who == Authenticate(entries, secret)
             owners == {entries[i].principal : i \in {i \in 1 .. n : entries[i].secret = secret}} IN
         /\ who # Nobody => who \in owners
         /\ who = Nobody => owners = {}
<1> DEFINE Places(s) == {i \in DOMAIN entries : entries[i].secret = s}
           last(s) == CHOOSE i \in Places(s) : \A k \in Places(s) : k <= i
           secrets == {entries[i].secret : i \in DOMAIN entries}
           who == Authenticate(entries, secret)
           owners == {entries[i].principal : i \in {i \in 1 .. n : entries[i].secret = secret}}
<1>1. ParsedKeys(entries) = [s \in secrets |-> entries[last(s)].principal]
  BY DEF ParsedKeys
<1>2. CASE secret \in secrets
  <2>1. Places(secret) \in SUBSET (1 .. n) /\ Places(secret) # {}
    BY <1>2
  <2>2. last(secret) \in Places(secret)
    <3> DEFINE P == Places(secret)
    <3>1. \E i \in P : \A k \in P : k <= i
      <4> HIDE DEF P
      <4> QED
        BY <2>1, LastPlace DEF P
    <3> QED
      BY <3>1
  <2>3. who = entries[last(secret)].principal
    BY <1>1, <1>2 DEF Authenticate
  <2> HIDE DEF last
  <2>4. who \in owners /\ who \in Principals
    BY <2>2, <2>3
  <2>5. who # Nobody
    BY <2>4, ReadersAssumption
  <2> QED
    BY <2>4, <2>5
<1>3. CASE secret \notin secrets
  <2>1. who = Nobody
    BY <1>1, <1>3 DEF Authenticate
  <2>2. owners = {}
    BY <1>3
  <2> QED
    BY <2>1, <2>2
<1> QED
  BY <1>2, <1>3

LEMMA KeysAreTheirOwners == KeysNameTheirOwners
<1> SUFFICES ASSUME NEW n \in 0..3,
                    NEW entries \in [1..n -> [principal : Principals, secret : Secrets]],
                    NEW x \in Secrets \cup {Absent, Blank}, NEW c \in Secrets \cup {Absent, Blank},
                    NEW scheme \in {"bearer", "basic"}
             PROVE  LET secret == Presented(x, scheme, c)
                        who    == Authenticate(entries, secret)
                        owners == {entries[i].principal : i \in {i \in 1..n : entries[i].secret = secret}}
                    IN /\ who # Nobody => who \in owners /\ secret \in {x, c}
                       /\ who = Nobody => owners = {}
                       /\ x = Blank => who = Nobody
  BY Zenon DEF KeysNameTheirOwners
<1> DEFINE secret == Presented(x, scheme, c)
           who == Authenticate(entries, secret)
           owners == {entries[i].principal : i \in {i \in 1..n : entries[i].secret = secret}}
<1>1. n \in Nat
  OBVIOUS
<1>2. /\ who # Nobody => who \in owners
      /\ who = Nobody => owners = {}
  <2> HIDE DEF secret
  <2> QED
    BY <1>1, AuthenticateIs
<1>3. who # Nobody => secret \in Secrets
  BY <1>2
<1>4. secret \in Secrets => secret \in {x, c}
  BY ReadersAssumption DEF Presented
<1>5. x = Blank => secret \notin Secrets
  BY ReadersAssumption DEF Presented
<1> HIDE DEF secret, who, owners
<1>6. /\ who # Nobody => who \in owners /\ secret \in {x, c}
      /\ who = Nobody => owners = {}
      /\ x = Blank => who = Nobody
  BY <1>2, <1>3, <1>4, <1>5
<1> QED
  BY <1>6 DEF secret, who, owners

LEMMA NothingToLearn == StrangersLearnNothing
<1>1. NoSuchJob \notin Jobs
  BY DEF NoSuchJob, Jobs
<1>2. Stranger # Owner
  BY ReadersAssumption
<1> QED
  BY <1>1, <1>2, Zenon DEF StrangersLearnNothing, Answers, OwnedJob

\* security.py, deps.py, repository.py: in every state a request acts for a principal only with a
\* key of theirs, a stranger is answered about a job as about none, and the pages of a list show
\* every job that stays exactly once.
THEOREM ReadsStaySound == Spec => []ReadsSound
<1>1. ReadsSound
  BY ListsAreCovered, KeysAreTheirOwners, NothingToLearn DEF ReadsSound
<1> QED
  BY <1>1, PTL
=============================================================================
