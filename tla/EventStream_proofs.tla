------------------------- MODULE EventStream_proofs -------------------------
(***************************************************************************)
(* Theorems about the events of a job: what a client that follows them has *)
(* received, and which signals its waiters get, for any number of writers, *)
(* events and connections and any size of a batch.                         *)
(***************************************************************************)
EXTENDS EventStream, FiniteSetTheorems, WellFoundedInduction, TLAPS

-----------------------------------------------------------------------------
(* The invariants                                                          *)

StreamState ==
  [pc : {"closed", "status", "events", "send", "caughtUp", "wait", "over"},
   cursor : 0..MaxEvents, seen : Statuses, ending : 0..MaxEvents, batch : SUBSET (1..MaxEvents)]

AboutToTell(w) == writer[w].pc = "notify" /\ writer[w].to = "queued" /\ ~ writer[w].delay

\* A job to be taken at once that waits while the loop sleeps with a slot free was queued
\* by a session that has set the event, has yet to do so, or runs in another process.
Told ==
  loop = "wait" /\ status = "queued" /\ runAfter = "null" /\ busy < Slots =>
    \/ flag
    \/ \E w \in queuedBy : w \notin Local \/ AboutToTell(w)

\* A writer that has inserted drew an id, and a batch that is sent has an event left.
InHand ==
  /\ \A w \in Writers : writer[w].pc = "inserted" => writer[w].id # 0
  /\ stream.pc = "send" => stream.batch # {}

WriterState ==
  [pc : {"idle", "inserted", "notify"}, id : 0..MaxEvents, to : Statuses, moves : BOOLEAN,
   delay : BOOLEAN]

SignalInv == TypeOK /\ stream \in StreamState /\ InHand /\ Told

\* Ids come from one sequence; a writer that has inserted holds one it drew.
Inserted(w) == writer[w].pc = "inserted"
IdsDrawn ==
  /\ \A e \in log \cup endings \cup ToSet(received) : e < nextId
  /\ \A w \in Writers : Inserted(w) => writer[w].id \in 1..nextId - 1

\* What the client received is in order, and the batch goes on behind it.
InOrder == \A i, k \in DOMAIN received : i < k => received[i] < received[k]
Open    == stream.pc \in {"status", "events", "send", "caughtUp", "wait"}
BatchFollows ==
  stream.pc = "send" =>
    \A b \in stream.batch : b > stream.cursor /\ b < nextId
CursorHeld == Open => stream.cursor = Last0(received)

OrderInv == SignalInv /\ IdsDrawn /\ InOrder /\ CursorHeld /\ BatchFollows

\* With one writer at a time a row becomes visible behind every other.
Visible == log \cup ToSet(received) \cup (IF stream.pc = "send" THEN stream.batch ELSE {})
CommitsInOrder ==
  /\ \A v, w \in Writers : Inserted(v) /\ Inserted(w) => v = w
  /\ \A w \in Writers : Inserted(w) => \A e \in Visible : e < writer[w].id

\* The batch leaves nothing out between the cursor and its own last event, and
\* the client has the log up to its last.
BatchComplete ==
  stream.pc = "send" =>
    \A e \in log, b \in stream.batch : stream.cursor < e /\ e < b => e \in stream.batch
Replayed == \A e \in log : e <= Last0(received) => e \in ToSet(received)

ReplayInv == OrderInv /\ CommitsInOrder /\ BatchComplete /\ Replayed

\* The events of the endings are in the log until the job is deleted, and a
\* stream that saw the job ended and found nothing new has the one it saw.
EndingsLogged ==
  status # "deleted" => endings \subseteq log /\ (status = "ended" => endings # {})
SeesEnding == stream.seen = "ended" /\ status # "deleted"
EndingSeen ==
  /\ stream.pc \in {"events", "send", "caughtUp", "over"} /\ SeesEnding => stream.ending \in log
  /\ stream.pc \in {"caughtUp", "over"} /\ SeesEnding => stream.ending <= Last0(received)

EndingInv == ReplayInv /\ EndingsLogged /\ EndingSeen

-----------------------------------------------------------------------------
(* Least and greatest ids                                                  *)

Below == {p \in Nat \X Nat : p[1] < p[2]}

LEMMA NoDescent == IsWellFoundedOn(Below, Nat)
<1>1. Below = OpToRel(<, Nat)
  BY Zenon DEF Below, OpToRel
<1>2. IsWellFoundedOn(OpToRel(<, Nat), Nat)
  BY NatLessThanWellFounded, Zenon
<1> QED
  BY <1>1, <1>2, Zenon

LEMMA InBelow ==
  ASSUME NEW x \in Nat, NEW y \in Nat
  PROVE  <<y, x>> \in Below <=> y < x
  BY DEF Below

LEMMA LeastExists ==
  ASSUME NEW T, T \subseteq Nat, T # {}
  PROVE  \E x \in T : \A y \in T : x <= y
<1>1. PICK x \in T : \A y \in T : ~ (<<y, x>> \in Below)
  BY NoDescent, WFMin, Zenon
<1>2. ASSUME NEW y \in T
      PROVE  x <= y
  <2>1. x \in Nat /\ y \in Nat
    OBVIOUS
  <2>2. ~ (y < x)
    BY <1>1, <2>1, InBelow
  <2> QED
    BY <2>1, <2>2
<1> QED
  BY <1>2

LEMMA MinIsLeast ==
  ASSUME NEW T, T \subseteq Nat, T # {}
  PROVE  Min(T) \in T /\ \A y \in T : Min(T) <= y
<1>1. \E x \in T : \A y \in T : x =< y
  BY LeastExists
<1> QED
  BY <1>1, Zenon DEF Min

LEMMA MaxIsGreatest ==
  ASSUME NEW n \in Nat, NEW T, T \subseteq 1..n, T # {}
  PROVE  Max(T) \in T /\ \A y \in T : Max(T) >= y
<1> DEFINE U == {b \in Nat : \A x \in T : x <= b}
<1>1. U \subseteq Nat /\ n \in U
  OBVIOUS
<1>2. PICK u \in U : \A b \in U : u <= b
  BY <1>1, LeastExists
<1>3. PICK x \in T : u <= x
  <2>0. PICK z \in T : TRUE
    OBVIOUS
  <2>1. u \in Nat /\ u # 0
    BY <1>2, <2>0
  <2>2. u - 1 \in Nat /\ u - 1 \notin U
    BY <1>2, <2>1
  <2>3. PICK x \in T : ~ (x <= u - 1)
    BY <2>2
  <2> QED
    BY <2>1, <2>3
<1>4. \A y \in T : x >= y
  BY <1>3
<1>5. \E z \in T : \A y \in T : z >= y
  BY <1>4
<1> QED
  BY <1>5, Zenon DEF Max

-----------------------------------------------------------------------------
(* The signals                                                             *)

LEMMA WriterMoves ==
  ASSUME SignalInv, NEW w \in Writers, NEW t, writer' = [writer EXCEPT ![w] = t]
  PROVE  /\ writer'[w] = t
         /\ \A v \in Writers \ {w} : writer'[v] = writer[v]
  BY DEF SignalInv, TypeOK

LEMMA InsertSignals ==
  ASSUME SignalInv, NEW w \in Writers, NEW to \in Statuses, NEW moves \in BOOLEAN,
         NEW delay \in BOOLEAN,
         Insert(w, to, moves, delay)
  PROVE  SignalInv'
<1> USE BoundsAssumption
<1>1. /\ nextId \in 1..MaxEvents
      /\ [pc |-> "inserted", id |-> nextId, to |-> to, moves |-> moves, delay |-> delay]
           \in WriterState
  BY DEF SignalInv, TypeOK, Insert, WriterState
<1>2. TypeOK'
  BY <1>1 DEF SignalInv, TypeOK, Insert, signals, tasks, client, WriterState
<1>3. stream' = stream /\ StreamState' = StreamState
  BY DEF Insert, client, StreamState
<1>4. InHand'
  BY <1>1, <1>3 DEF SignalInv, TypeOK, InHand, Insert
<1>5. \A v \in Writers : writer[v].pc = "notify" => writer'[v] = writer[v]
  BY DEF SignalInv, TypeOK, Insert
<1>6. Told'
  BY <1>5 DEF SignalInv, TypeOK, Told, AboutToTell, Insert, signals, tasks
<1> QED
  BY <1>2, <1>3, <1>4, <1>6 DEF SignalInv

LEMMA CommitSignals ==
  ASSUME SignalInv, NEW w \in Writers, Commit(w)
  PROVE  SignalInv'
<1> DEFINE t == [pc |-> "notify", id |-> 0, to |-> writer[w].to, moves |-> FALSE,
               delay |-> writer[w].delay]
<1>1. /\ writer[w] \in WriterState
      /\ writer[w].id \in 1..MaxEvents /\ writer[w].to \in Statuses
  BY BoundsAssumption DEF SignalInv, TypeOK, InHand, Commit, WriterState
<1>2. /\ t.pc = "notify" /\ t.to = writer[w].to /\ t.delay = writer[w].delay
      /\ t \in WriterState
  BY <1>1, BoundsAssumption DEF WriterState
<1>3. writer' = [writer EXCEPT ![w] = t]
  BY DEF Commit
<1> HIDE DEF t
<1>4. writer'[w] = t /\ \A v \in Writers \ {w} : writer'[v] = writer[v]
  BY <1>3, WriterMoves
<1>5. TypeOK'
  <2>1. writer' \in [Writers -> WriterState]
    BY <1>2, <1>3 DEF SignalInv, TypeOK, WriterState
  <2>2. status' \in Statuses
    BY <1>1 DEF SignalInv, TypeOK, Commit
  <2>6. runAfter' \in {"null", "later", "past"}
    BY DEF SignalInv, TypeOK, Commit
  <2>3. log' \subseteq 1..MaxEvents
    BY <1>1 DEF SignalInv, TypeOK, Commit
  <2>4. endings' \in {endings, endings \cup {writer[w].id}} /\ queuedBy' \in {queuedBy, {w}}
    BY DEF Commit
  <2>5. endings' \subseteq 1..MaxEvents /\ queuedBy' \subseteq Writers
    BY <1>1, <2>4 DEF SignalInv, TypeOK
  <2> QED
    BY <2>1, <2>2, <2>3, <2>5, <2>6
    DEF SignalInv, TypeOK, Commit, signals, tasks, client, WriterState
<1>6. stream' = stream /\ StreamState' = StreamState
  BY DEF Commit, client, StreamState
<1>7. InHand'
  BY <1>2, <1>4, <1>6 DEF SignalInv, InHand
<1>8. Told'
  <2>1. CASE writer[w].moves /\ writer[w].to = "queued"
    <3>1. runAfter' = (IF writer[w].delay THEN "later" ELSE "null") /\ queuedBy' = {w}
      BY <2>1 DEF Commit
    <3>2. runAfter' = "null" => AboutToTell(w)'
      BY <3>1, <2>1, <1>2, <1>4 DEF AboutToTell
    <3> QED
      BY <3>1, <3>2 DEF Told
  <2>2. CASE writer[w].moves /\ writer[w].to # "queued"
    BY <2>2 DEF Commit, Told
  <2>3. CASE ~ writer[w].moves
    <3>1. /\ status' = status /\ queuedBy' = queuedBy /\ runAfter' = runAfter
          /\ loop' = loop /\ flag' = flag /\ busy' = busy
      BY <2>3 DEF Commit, signals, tasks
    <3>2. \A v \in queuedBy : writer[v].pc = "notify" => writer'[v] = writer[v]
      BY <1>4 DEF SignalInv, TypeOK, Commit
    <3> QED
      BY <3>1, <3>2 DEF SignalInv, Told, AboutToTell
  <2> QED
    BY <2>1, <2>2, <2>3
<1> QED
  BY <1>5, <1>6, <1>7, <1>8 DEF SignalInv

LEMMA RollbackSignals ==
  ASSUME SignalInv, NEW w \in Writers, Rollback(w)
  PROVE  SignalInv'
<1>1. Idle \in WriterState /\ Idle.pc = "idle"
  BY BoundsAssumption DEF Idle, WriterState, Statuses
<1>2. writer' = [writer EXCEPT ![w] = Idle]
  BY DEF Rollback
<1>3. writer'[w] = Idle /\ \A v \in Writers \ {w} : writer'[v] = writer[v]
  BY <1>2, WriterMoves
<1>4. writer' \in [Writers -> WriterState]
  BY <1>1, <1>2 DEF SignalInv, TypeOK, WriterState
<1>5. TypeOK'
  BY <1>4 DEF SignalInv, TypeOK, Rollback, rows, signals, tasks, client, WriterState
<1>6. stream' = stream /\ StreamState' = StreamState
  BY DEF Rollback, client, StreamState
<1>7. InHand'
  BY <1>1, <1>3, <1>6 DEF SignalInv, InHand
<1>8. Told'
  <2>1. \A v \in Writers : writer[v].pc = "notify" => writer'[v] = writer[v]
    BY <1>3 DEF Rollback
  <2> QED
    BY <2>1 DEF SignalInv, TypeOK, Told, AboutToTell, Rollback, rows, signals, tasks
<1> QED
  BY <1>5, <1>6, <1>7, <1>8 DEF SignalInv

LEMMA NotifySignals ==
  ASSUME SignalInv, NEW w \in Writers, Notify(w)
  PROVE  SignalInv'
<1>1. Idle \in WriterState /\ Idle.pc = "idle"
  BY BoundsAssumption DEF Idle, WriterState, Statuses
<1>2. writer' = [writer EXCEPT ![w] = Idle]
  BY DEF Notify
<1>3. writer'[w] = Idle /\ \A v \in Writers \ {w} : writer'[v] = writer[v]
  BY <1>2, WriterMoves
<1>4. writer' \in [Writers -> WriterState]
  BY <1>1, <1>2 DEF SignalInv, TypeOK, WriterState
<1>5. woken' \in BOOLEAN /\ flag' \in BOOLEAN /\ (woken' => stream.pc = "wait")
  BY DEF SignalInv, TypeOK, Notify
<1>6. TypeOK'
  BY <1>4, <1>5 DEF SignalInv, TypeOK, Notify, rows, tasks, WriterState
<1>7. stream' = stream /\ StreamState' = StreamState
  BY DEF Notify, StreamState
<1>8. InHand'
  BY <1>1, <1>3, <1>7 DEF SignalInv, InHand
<1>9. Told'
  <2>1. w \in Local /\ writer[w].to = "queued" /\ ~ writer[w].delay => flag'
    BY DEF Notify
  <2>2. flag => flag'
    BY DEF Notify
  <2> QED
    BY <1>3, <2>1, <2>2 DEF SignalInv, TypeOK, Told, AboutToTell, Notify, rows, tasks
<1> QED
  BY <1>6, <1>7, <1>8, <1>9 DEF SignalInv

LEMMA QueueSignals ==
  ASSUME SignalInv, Delete \/ BecomesDue \/ TakenAway
  PROVE  SignalInv'
<1> USE DEF SignalInv, TypeOK, InHand, Told, AboutToTell, signals, tasks, client, Statuses,
            StreamState
<1>1. CASE Delete
  BY <1>1 DEF Delete
<1>2. CASE BecomesDue
  BY <1>2 DEF BecomesDue
<1>3. CASE TakenAway
  BY <1>3 DEF TakenAway, Take
<1> QED
  BY <1>1, <1>2, <1>3

LEMMA LoopSignals ==
  ASSUME SignalInv, LoopStep
  PROVE  SignalInv'
<1> USE BoundsAssumption
    DEF SignalInv, TypeOK, InHand, Told, AboutToTell, rows, tasks, client, Statuses, StreamState
<1>1. CASE LoopRead
  <2>1. CASE ReadJob
    <3>1. CASE busy < Slots /\ Due
      BY <1>1, <2>1, <3>1 DEF LoopRead, ReadJob, Take, Due
    <3>2. CASE ~ (busy < Slots /\ Due)
      BY <1>1, <2>1, <3>2 DEF LoopRead, ReadJob, Due
    <3> QED
      BY <3>1, <3>2
  <2>2. CASE TakeOther
    BY <1>1, <2>2 DEF LoopRead, TakeOther
  <2> QED
    BY <1>1, <2>1, <2>2 DEF LoopRead
<1>2. CASE LoopCutShort
  BY <1>2 DEF LoopCutShort
<1>3. CASE LoopResume
  BY <1>3 DEF LoopResume
<1>4. ASSUME NEW timeout \in BOOLEAN, LoopWake(timeout)
      PROVE  SignalInv'
  BY <1>4 DEF LoopWake
<1>5. CASE TaskEnds
  BY <1>5 DEF TaskEnds
<1>6. CASE Stop
  BY <1>6 DEF Stop
<1> QED
  BY <1>1, <1>2, <1>3, <1>4, <1>5, <1>6, Zenon DEF LoopStep

-----------------------------------------------------------------------------
(* The client's side of the signals                                        *)

LEMMA StreamFields ==
  ASSUME SignalInv
  PROVE  /\ DOMAIN stream = {"pc", "cursor", "seen", "ending", "batch"}
         /\ stream.pc \in {"closed", "status", "events", "send", "caughtUp", "wait", "over"}
         /\ stream.cursor \in 0..MaxEvents /\ stream.seen \in Statuses
         /\ stream.ending \in 0..MaxEvents /\ stream.batch \in SUBSET (1..MaxEvents)
  BY DEF SignalInv, StreamState

LEMMA NewRound ==
  ASSUME NEW pc \in {"closed", "status", "wait", "over"}, NEW cursor \in 0..MaxEvents
  PROVE  Round(pc, cursor) \in StreamState
         /\ Round(pc, cursor).pc = pc /\ Round(pc, cursor).cursor = cursor
         /\ Round(pc, cursor).seen = "none"
  BY BoundsAssumption DEF Round, StreamState, Statuses

\* Only the stream, what it received and its waiter change.
LEMMA ClientSignals ==
  ASSUME SignalInv, UNCHANGED <<rows, writer, signals, queuedBy>>,
         stream' \in StreamState, stream'.pc = "send" => stream'.batch # {},
         woken' \in BOOLEAN, woken' => stream'.pc = "wait",
         received' \in Seq(1..MaxEvents), connects' \in 0..MaxConnects
  PROVE  SignalInv'
<1>1. TypeOK'
  BY DEF SignalInv, TypeOK, rows, signals, tasks, StreamState
<1>2. InHand' /\ Told'
  BY DEF SignalInv, InHand, Told, AboutToTell, rows, signals, tasks
<1> QED
  BY <1>1, <1>2 DEF SignalInv, StreamState, Statuses

LEMMA LastReceived ==
  ASSUME received \in Seq(1..MaxEvents), NEW id \in 1..MaxEvents
  PROVE  /\ Last0(received) \in 0..MaxEvents
         /\ Append(received, id) \in Seq(1..MaxEvents)
         /\ Last0(Append(received, id)) = id
         /\ ToSet(Append(received, id)) = ToSet(received) \cup {id}
<1> USE BoundsAssumption
<1>1. Last0(received) \in 0..MaxEvents
  BY DEF Last0, Last
<1>2. Append(received, id) \in Seq(1..MaxEvents) /\ Append(received, id) # <<>>
      /\ Len(Append(received, id)) = Len(received) + 1
      /\ \A i \in 1..Len(received) : Append(received, id)[i] = received[i]
      /\ Append(received, id)[Len(received) + 1] = id
  OBVIOUS
<1>3. Last0(Append(received, id)) = id
  BY <1>2 DEF Last0, Last
<1>4. DOMAIN received = 1..Len(received)
      /\ DOMAIN Append(received, id) = 1..Len(received) + 1 /\ Len(received) \in Nat
  BY <1>2
<1>5. ToSet(Append(received, id)) = ToSet(received) \cup {id}
  BY <1>2, <1>4 DEF ToSet
<1> QED
  BY <1>1, <1>2, <1>3, <1>5

LEMMA ReadingFields ==
  ASSUME SignalInv, NEW pc \in {"status", "events", "send", "caughtUp", "over"},
         NEW seen \in Statuses, NEW ending \in 0..MaxEvents, NEW batch \in SUBSET (1..MaxEvents),
         NEW cursor \in 0..MaxEvents,
         stream' = [stream EXCEPT !.pc = pc, !.cursor = cursor, !.seen = seen,
                                  !.ending = ending, !.batch = batch]
  PROVE  /\ stream' \in StreamState
         /\ stream'.pc = pc /\ stream'.cursor = cursor /\ stream'.seen = seen
         /\ stream'.ending = ending /\ stream'.batch = batch
  BY StreamFields DEF SignalInv, StreamState

LEMMA MaxOfEndings ==
  ASSUME TypeOK
  PROVE  /\ MaxOf(endings) \in 0..MaxEvents
         /\ endings # {} => MaxOf(endings) \in endings
<1>1. CASE endings = {}
  BY <1>1, BoundsAssumption DEF MaxOf
<1>2. CASE endings # {}
  <2>1. Max(endings) \in endings
    BY <1>2, MaxIsGreatest, BoundsAssumption DEF TypeOK
  <2>2. endings \subseteq 0..MaxEvents
    BY BoundsAssumption DEF TypeOK
  <2>3. Max(endings) \in 0..MaxEvents
    BY <2>1, <2>2, Zenon
  <2> QED
    BY <1>2, <2>1, <2>3 DEF MaxOf
<1> QED
  BY <1>1, <1>2

\* events_after returns rows behind the cursor, one at least if there are any, and
\* none without those before it.
LEMMA OldestFirst ==
  ASSUME log \subseteq 1..MaxEvents, NEW id \in 0..MaxEvents
  PROVE  /\ \A e \in EventsAfter(id) : e \in log /\ e > id
         /\ EventsAfter(id) = {} => \A e \in log : e <= id
         /\ \A e \in log, b \in EventsAfter(id) : id < e /\ e < b => e \in EventsAfter(id)
<1> DEFINE new == {e \in log : e > id}
           older(e) == {f \in new : f < e}
<1>1. EventsAfter(id) = {e \in new : Cardinality(older(e)) < BatchSize}
  BY DEF EventsAfter
<1>2. new \subseteq Nat /\ IsFiniteSet(new)
  <2>1. IsFiniteSet(1..MaxEvents)
    BY FS_Interval, BoundsAssumption
  <2>2. new \in SUBSET (1..MaxEvents)
    OBVIOUS
  <2>3. IsFiniteSet(new)
    BY <2>1, <2>2, FS_Subset
  <2> QED
    BY <2>2, <2>3, BoundsAssumption
<1>3. \A e \in log : e \in Nat
  BY BoundsAssumption
<1>4. \A e \in EventsAfter(id) : e \in log /\ e > id
  BY <1>1
<1>5. ASSUME new # {}
      PROVE  EventsAfter(id) # {}
  <2>1. PICK x \in new : \A y \in new : x <= y
    BY <1>2, <1>5, LeastExists
  <2>2. older(x) = {}
    BY <1>2, <2>1
  <2>3. Cardinality(older(x)) = 0
    BY <2>2, FS_EmptySet
  <2> QED
    BY <1>1, <2>1, <2>3, BoundsAssumption
<1>6. ASSUME NEW e \in log, NEW b \in EventsAfter(id), id < e, e < b
      PROVE  e \in EventsAfter(id)
  <2>1. e \in new /\ b \in new /\ Cardinality(older(b)) < BatchSize
    BY <1>1, <1>6
  <2>2. older(e) \subseteq older(b) /\ older(b) \subseteq new
    BY <1>2, <1>6, <2>1
  <2>3. IsFiniteSet(older(b))
    BY <1>2, <2>2, FS_Subset
  <2>4. IsFiniteSet(older(e)) /\ Cardinality(older(e)) <= Cardinality(older(b))
    BY <2>2, <2>3, FS_Subset
  <2>5. Cardinality(older(e)) \in Nat /\ Cardinality(older(b)) \in Nat
    BY <2>3, <2>4, FS_CardinalityType
  <2> QED
    BY <1>1, <2>1, <2>4, <2>5, BoundsAssumption
<1> QED
  BY <1>3, <1>4, <1>5, <1>6

LEMMA EventsAfterType ==
  ASSUME SignalInv
  PROVE  EventsAfter(stream.cursor) \in SUBSET (1..MaxEvents)
  BY StreamFields, OldestFirst DEF SignalInv, TypeOK

\* What each step of the stream leaves.
LEMMA ConnectIs ==
  ASSUME SignalInv, Connect
  PROVE  /\ stream' \in StreamState
         /\ stream'.pc \in {"over", "status"} /\ stream'.seen = "none"
         /\ stream'.pc = "status" => stream'.cursor = Last0(received)
<1>1. Last0(received) \in 0..MaxEvents
  BY BoundsAssumption DEF SignalInv, TypeOK, Last0, Last
<1>2. stream' \in {Round("over", 0), Round("status", Last0(received))}
  BY DEF Connect
<1>3. 0 \in 0..MaxEvents
  BY BoundsAssumption
<1> QED
  BY <1>1, <1>2, <1>3, NewRound

LEMMA ReadStatusIs ==
  ASSUME SignalInv, ReadStatus
  PROVE  /\ stream' \in StreamState
         /\ stream'.pc = "events" /\ stream'.cursor = stream.cursor
         /\ stream'.seen = status /\ stream'.ending = MaxOf(endings)
<1>1. /\ stream' = [stream EXCEPT !.pc = "events", !.cursor = stream.cursor, !.seen = status,
                                 !.ending = MaxOf(endings), !.batch = stream.batch]
  BY StreamFields DEF ReadStatus, SignalInv, StreamState
<1>2. MaxOf(endings) \in 0..MaxEvents /\ status \in Statuses
  BY MaxOfEndings DEF SignalInv, TypeOK
<1> QED
  BY <1>1, <1>2, StreamFields, ReadingFields

LEMMA ReadEventsIs ==
  ASSUME SignalInv, ReadEvents
  PROVE  /\ stream' \in StreamState
         /\ stream'.cursor = stream.cursor /\ stream'.seen = stream.seen
         /\ stream'.ending = stream.ending /\ stream'.batch = EventsAfter(stream.cursor)
         /\ stream'.pc = IF EventsAfter(stream.cursor) = {} THEN "caughtUp" ELSE "send"
<1> DEFINE batch == EventsAfter(stream.cursor)
           pc == IF batch = {} THEN "caughtUp" ELSE "send"
<1>1. batch \in SUBSET (1..MaxEvents) /\ pc \in {"caughtUp", "send"}
  BY EventsAfterType
<1>2. stream' = [stream EXCEPT !.pc = pc, !.batch = batch]
  BY DEF ReadEvents
<1> HIDE DEF batch, pc
<1>3. stream' = [stream EXCEPT !.pc = pc, !.cursor = stream.cursor, !.seen = stream.seen,
                               !.ending = stream.ending, !.batch = batch]
  BY <1>2, StreamFields DEF SignalInv, StreamState
<1>4. /\ stream' \in StreamState
      /\ stream'.cursor = stream.cursor /\ stream'.seen = stream.seen
      /\ stream'.ending = stream.ending /\ stream'.batch = batch /\ stream'.pc = pc
  BY <1>1, <1>3, StreamFields, ReadingFields
<1> QED
  BY <1>4 DEF batch, pc

\* The id that is sent is the batch's least.
LEMMA FirstOfBatch ==
  ASSUME SignalInv, stream.pc = "send"
  PROVE  /\ Min(stream.batch) \in stream.batch /\ Min(stream.batch) \in 1..MaxEvents
         /\ \A b \in stream.batch : Min(stream.batch) <= b
<1>1. stream.batch # {} /\ stream.batch \subseteq 1..MaxEvents
  BY StreamFields DEF SignalInv, InHand
<1>2. stream.batch \subseteq Nat
  BY <1>1, BoundsAssumption
<1> QED
  BY <1>1, <1>2, MinIsLeast

LEMMA SendIs ==
  ASSUME SignalInv, Send, NEW id, id = Min(stream.batch)
  PROVE  /\ stream' \in StreamState /\ received' = Append(received, id)
         /\ stream.pc = "send"
         /\ \/ /\ stream.batch # {id}
               /\ stream'.pc = "send" /\ stream'.cursor = id /\ stream'.seen = stream.seen
               /\ stream'.ending = stream.ending /\ stream'.batch = stream.batch \ {id}
            \/ stream'.pc = "over" /\ stream'.seen = "deleted"
            \/ stream'.pc = "status" /\ stream'.cursor = id
<1>1. stream.pc = "send" /\ received' = Append(received, id)
  BY DEF Send
<1>2. id \in 1..MaxEvents /\ id \in 0..MaxEvents
  BY <1>1, FirstOfBatch, BoundsAssumption
<1>3. CASE stream.batch = {id} /\ stream.seen = "deleted"
  <2>1. stream' = [stream EXCEPT !.pc = "over"]
    BY <1>3 DEF Send, EndOfRound
  <2>2. stream' = [stream EXCEPT !.pc = "over", !.cursor = stream.cursor, !.seen = stream.seen,
                                 !.ending = stream.ending, !.batch = stream.batch]
    BY <2>1, StreamFields DEF SignalInv, StreamState
  <2>3. stream' \in StreamState /\ stream'.pc = "over" /\ stream'.seen = stream.seen
    BY <2>2, StreamFields, ReadingFields
  <2> QED
    BY <1>1, <1>3, <2>3
<1>4. CASE stream.batch = {id} /\ stream.seen # "deleted"
  <2>1. stream' = Round("status", id)
    BY <1>4 DEF Send, EndOfRound
  <2> QED
    BY <1>1, <1>2, <2>1, NewRound
<1>5. CASE stream.batch # {id}
  <2> DEFINE rest == stream.batch \ {id}
  <2>1. rest \in SUBSET (1..MaxEvents)
    BY StreamFields
  <2>2. stream' = [stream EXCEPT !.cursor = id, !.batch = rest]
    BY <1>5 DEF Send
  <2> HIDE DEF rest
  <2>3. stream' = [stream EXCEPT !.pc = "send", !.cursor = id, !.seen = stream.seen,
                                 !.ending = stream.ending, !.batch = rest]
    BY <1>1, <2>2, StreamFields DEF SignalInv, StreamState
  <2>4. /\ stream' \in StreamState
        /\ stream'.pc = "send" /\ stream'.cursor = id /\ stream'.seen = stream.seen
        /\ stream'.ending = stream.ending /\ stream'.batch = rest
    BY <1>2, <2>1, <2>3, StreamFields, ReadingFields
  <2> QED
    BY <1>1, <1>5, <2>4 DEF rest
<1> QED
  BY <1>3, <1>4, <1>5

LEMMA CaughtUpIs ==
  ASSUME SignalInv, CaughtUp
  PROVE  /\ stream' \in StreamState
         /\ \/ /\ stream'.pc = "over" /\ stream'.cursor = stream.cursor
               /\ stream'.seen = stream.seen /\ stream'.ending = stream.ending
            \/ stream'.pc = "wait" /\ stream'.cursor = stream.cursor
<1>1. CASE stream.seen \in {"ended", "deleted"}
  <2>1. stream' = [stream EXCEPT !.pc = "over", !.cursor = stream.cursor, !.seen = stream.seen,
                                 !.ending = stream.ending, !.batch = stream.batch]
    BY <1>1, StreamFields DEF CaughtUp, SignalInv, StreamState
  <2> QED
    BY <2>1, StreamFields, ReadingFields
<1>2. CASE stream.seen \notin {"ended", "deleted"}
  <2>1. stream' = Round("wait", stream.cursor)
    BY <1>2 DEF CaughtUp
  <2> QED
    BY <2>1, StreamFields, NewRound
<1> QED
  BY <1>1, <1>2

LEMMA WakeUpIs ==
  ASSUME SignalInv, NEW timeout \in BOOLEAN, WakeUp(timeout)
  PROVE  stream' \in StreamState /\ stream'.pc = "status" /\ stream'.cursor = stream.cursor
  BY StreamFields, NewRound DEF WakeUp

LEMMA DisconnectIs ==
  ASSUME SignalInv, Disconnect
  PROVE  stream' \in StreamState /\ stream'.pc = "closed" /\ stream'.seen = "none"
<1>1. 0 \in 0..MaxEvents
  BY BoundsAssumption
<1>2. stream' = Round("closed", 0)
  BY DEF Disconnect, Closed
<1> QED
  BY <1>1, <1>2, NewRound

LEMMA ClientKeepsSignals ==
  ASSUME SignalInv, StreamStep \/ Connect \/ Disconnect
  PROVE  SignalInv'
<1> USE DEF StreamState
<1>0. /\ woken \in BOOLEAN /\ (woken => stream.pc = "wait")
      /\ received \in Seq(1..MaxEvents) /\ connects \in 0..MaxConnects
  BY DEF SignalInv, TypeOK
<1>1. CASE Connect
  <2>1. connects' \in 0..MaxConnects /\ ~ woken
    BY <1>0, <1>1, BoundsAssumption DEF Connect
  <2> QED
    BY <1>0, <1>1, <2>1, ConnectIs, ClientSignals DEF Connect
<1>2. CASE ReadStatus
  BY <1>0, <1>2, ReadStatusIs, ClientSignals DEF ReadStatus
<1>3. CASE ReadEvents
  BY <1>0, <1>3, ReadEventsIs, ClientSignals DEF ReadEvents
<1>4. CASE Send
  <2>1. PICK id \in 1..MaxEvents : id = Min(stream.batch) /\ id \in stream.batch
    BY <1>4, FirstOfBatch DEF Send
  <2>2. received' \in Seq(1..MaxEvents) /\ ~ woken
    BY <1>0, <1>4, <2>1, SendIs, LastReceived
  <2>3. stream' \in StreamState /\ (stream'.pc = "send" => stream'.batch # {})
    BY <1>4, <2>1, SendIs
  <2> QED
    BY <1>0, <1>4, <2>2, <2>3, ClientSignals DEF Send
<1>5. CASE CaughtUp
  BY <1>0, <1>5, CaughtUpIs, ClientSignals DEF CaughtUp
<1>6. ASSUME NEW timeout \in BOOLEAN, WakeUp(timeout)
      PROVE  SignalInv'
  BY <1>0, <1>6, WakeUpIs, ClientSignals DEF WakeUp
<1>7. CASE Disconnect
  BY <1>0, <1>7, DisconnectIs, ClientSignals DEF Disconnect
<1> QED
  BY <1>1, <1>2, <1>3, <1>4, <1>5, <1>6, <1>7 DEF StreamStep

LEMMA InitSignals == Init => SignalInv
<1> SUFFICES ASSUME Init PROVE SignalInv
  OBVIOUS
<1> USE BoundsAssumption DEF Init
<1>1. Idle \in WriterState /\ Idle.pc = "idle"
  BY DEF Idle, WriterState, Statuses
<1>2. stream \in StreamState /\ stream.pc = "closed"
  <2>1. 0 \in 0..MaxEvents
    OBVIOUS
  <2> QED
    BY <2>1, NewRound DEF Closed
<1>3. writer \in [Writers -> WriterState]
  BY <1>1
<1>4. TypeOK
  <2>1. /\ stream.pc \in {"closed", "status", "events", "send", "caughtUp", "wait", "over"}
        /\ stream.cursor \in 0..MaxEvents /\ stream.ending \in 0..MaxEvents
    BY <1>2 DEF StreamState
  <2>2. /\ status \in Statuses /\ log \subseteq 1..MaxEvents /\ endings \subseteq 1..MaxEvents
        /\ nextId \in 1..MaxEvents + 1 /\ queuedBy \subseteq Writers
        /\ received \in Seq(1..MaxEvents)
    BY DEF Statuses
  <2>3. PICK role \in Roles : Plays(role)
    OBVIOUS
  <2>4. loop \in {"read", "stopped"} /\ connects \in 0..MaxConnects
    BY <2>3 DEF Plays
  <2>5. /\ busy \in 0..Slots
        /\ others \in 0..MaxOthers /\ faults \in 0..MaxFaults
        /\ runAfter \in {"null", "later", "past"}
    OBVIOUS
  <2> QED
    BY <1>3, <2>1, <2>2, <2>4, <2>5 DEF TypeOK, WriterState
<1>5. InHand /\ Told
  BY <1>1, <1>2 DEF InHand, Told
<1> QED
  BY <1>2, <1>4, <1>5 DEF SignalInv

LEMMA StepSignals == SignalInv /\ [Next]_vars => SignalInv'
<1> SUFFICES ASSUME SignalInv, [Next]_vars PROVE SignalInv'
  OBVIOUS
<1>1. ASSUME NEW w \in Writers, WriterStep(w)
      PROVE  SignalInv'
  <2>1. CASE Report(w)
    BY <2>1, InsertSignals DEF Report, Statuses
  <2>2. ASSUME NEW to \in Statuses, NEW delay \in BOOLEAN, Change(w, to, delay)
        PROVE  SignalInv'
    BY <2>2, InsertSignals DEF Change
  <2> QED
    BY <1>1, <2>1, <2>2, CommitSignals, RollbackSignals, NotifySignals DEF WriterStep
<1>2. CASE UNCHANGED vars
  BY <1>2 DEF SignalInv, TypeOK, StreamState, InHand, Told, AboutToTell, vars, rows, signals,
              tasks, client, Statuses
<1> QED
  BY <1>1, <1>2, QueueSignals, LoopSignals, ClientKeepsSignals, Zenon DEF Next

\* Every variable keeps its type, a stream is woken only while it waits, and a loop that
\* sleeps behind a whole round of fill_slots, with a slot free, has been told of the job
\* its own process queued to be taken at once, or is about to be: clearing the event behind
\* the wait (wait_for_queue) drops only what the next read of the queue sees, and a round
\* that found its slots full is told of the first that is free (_on_done).
THEOREM SignalsArrive == Spec => []WaitersAreTold
<1>1. SignalInv => WaitersAreTold
  BY DEF SignalInv, Told, AboutToTell, WaitersAreTold, NoWakeUpIsLost
<1> QED
  BY <1>1, InitSignals, StepSignals, PTL DEF Spec

-----------------------------------------------------------------------------
(* The order of what is received                                           *)

LEMMA NotLast ==
  ASSUME NEW n \in Nat, NEW i \in 1..n, i # n
  PROVE  i < n /\ n \in 1..n
  OBVIOUS

LEMMA InOrderExtends ==
  ASSUME received \in Seq(1..MaxEvents), InOrder, NEW id \in 1..MaxEvents,
         id > Last0(received), received' = Append(received, id)
  PROVE  InOrder'
<1> USE BoundsAssumption
<1>1. /\ Len(received) \in Nat /\ DOMAIN received = 1..Len(received)
      /\ \A i \in 1..Len(received) : received[i] \in 1..MaxEvents
      /\ DOMAIN received' = 1..Len(received) + 1
      /\ \A i \in 1..Len(received) : received'[i] = received[i]
      /\ received'[Len(received) + 1] = id
  OBVIOUS
<1>2. Len(received) # 0 => Last0(received) = received[Len(received)]
  BY DEF Last0, Last
<1>3. ASSUME NEW i \in 1..Len(received)
      PROVE  received[i] < id
  <2>1. CASE i = Len(received)
    BY <1>1, <1>2, <2>1
  <2>2. CASE i # Len(received)
    <3>1. i < Len(received) /\ Len(received) \in 1..Len(received)
      BY <1>1, <2>2, NotLast
    <3>2. received[i] < received[Len(received)]
      BY <1>1, <3>1 DEF InOrder
    <3> QED
      BY <1>1, <1>2, <3>1, <3>2
  <2> QED
    BY <2>1, <2>2
<1>4. ASSUME NEW i \in DOMAIN received', NEW k \in DOMAIN received', i < k
      PROVE  received'[i] < received'[k]
  <2>1. CASE k = Len(received) + 1
    BY <1>1, <1>3, <1>4, <2>1
  <2>2. CASE k # Len(received) + 1
    <3>1. i \in 1..Len(received) /\ k \in 1..Len(received)
      BY <1>1, <1>4, <2>2
    <3> QED
      BY <1>1, <1>4, <3>1 DEF InOrder
  <2> QED
    BY <2>1, <2>2
<1> QED
  BY <1>4 DEF InOrder

\* The rows change, and the stream does not.
LEMMA RowsKeepOrder ==
  ASSUME OrderInv, SignalInv', UNCHANGED <<stream, received>>,
         nextId' >= nextId,
         \A e \in log' \cup endings' : e < nextId',
         \A w \in Writers : Inserted(w)' => writer'[w].id \in 1..nextId' - 1
  PROVE  OrderInv'
<1>1. nextId \in Nat /\ nextId' \in Nat
  BY BoundsAssumption DEF OrderInv, SignalInv, TypeOK
<1>2. received \in Seq(1..MaxEvents)
  BY DEF OrderInv, SignalInv, TypeOK
<1>3. ToSet(received) \subseteq Nat /\ ToSet(received)' = ToSet(received)
  <2>1. \A i \in DOMAIN received : received[i] \in Nat
    BY <1>2, BoundsAssumption
  <2> QED
    BY <2>1 DEF ToSet
<1>4. IdsDrawn'
  BY <1>1, <1>3 DEF OrderInv, IdsDrawn, Inserted
<1>5. InOrder' /\ CursorHeld'
  BY DEF OrderInv, InOrder, CursorHeld, Open
<1>6. BatchFollows'
  <2>1. \A b \in stream.batch : b \in Nat
    BY StreamFields, BoundsAssumption DEF OrderInv
  <2> QED
    BY <1>1, <2>1 DEF OrderInv, BatchFollows
<1> QED
  BY <1>4, <1>5, <1>6 DEF OrderInv

\* The stream changes, and the rows do not.
LEMMA StreamKeepsOrder ==
  ASSUME OrderInv, SignalInv', UNCHANGED <<rows, writer, received>>,
         CursorHeld', BatchFollows'
  PROVE  OrderInv'
<1>1. IdsDrawn' /\ InOrder'
  BY DEF OrderInv, IdsDrawn, InOrder, Inserted, rows
<1> QED
  BY <1>1 DEF OrderInv

LEMMA WriterKeepsOrder ==
  ASSUME OrderInv, SignalInv', NEW w \in Writers, WriterStep(w)
  PROVE  OrderInv'
<1>0. /\ nextId \in Nat /\ \A e \in log \cup endings : e \in Nat /\ e < nextId
      /\ \A v \in Writers : Inserted(v) => writer[v].id \in 1..nextId - 1
  BY BoundsAssumption DEF OrderInv, SignalInv, TypeOK, IdsDrawn
<1>1. ASSUME NEW to \in Statuses, NEW moves \in BOOLEAN,
         NEW delay \in BOOLEAN, Insert(w, to, moves, delay)
      PROVE  OrderInv'
  <2>1. /\ UNCHANGED <<log, endings, stream, received>> /\ nextId' = nextId + 1
        /\ nextId' >= nextId
    BY <1>0, <1>1 DEF Insert, client
  <2>2. /\ writer'[w].id = nextId
        /\ \A v \in Writers \ {w} : writer'[v] = writer[v]
    BY <1>1 DEF Insert, OrderInv, SignalInv, TypeOK
  <2>3. \A v \in Writers : Inserted(v)' => writer'[v].id \in 1..nextId' - 1
    BY <1>0, <2>1, <2>2 DEF Inserted, OrderInv, SignalInv, TypeOK
  <2>4. \A e \in log' \cup endings' : e < nextId'
    BY <1>0, <2>1
  <2> QED
    BY <2>1, <2>3, <2>4, RowsKeepOrder
<1>2. CASE Commit(w)
  <2>1. /\ UNCHANGED <<nextId, stream, received>> /\ nextId' >= nextId
        /\ log' = log \cup {writer[w].id} /\ endings' \subseteq endings \cup {writer[w].id}
        /\ Inserted(w)
    BY <1>0, <1>2 DEF Commit, client, Inserted
  <2>2. \A v \in Writers : Inserted(v)' => Inserted(v) /\ writer'[v] = writer[v]
    BY <1>2 DEF Commit, OrderInv, SignalInv, TypeOK, Inserted
  <2>3. \A e \in log' \cup endings' : e < nextId'
    BY <1>0, <2>1
  <2> QED
    BY <1>0, <2>1, <2>2, <2>3, RowsKeepOrder
<1>3. CASE Rollback(w) \/ Notify(w)
  <2>1. /\ UNCHANGED <<nextId, log, endings, stream, received>> /\ nextId' >= nextId
        /\ writer' = [writer EXCEPT ![w] = Idle]
    BY <1>0, <1>3 DEF Rollback, Notify, rows, client
  <2>2. \A v \in Writers : Inserted(v)' => Inserted(v) /\ writer'[v] = writer[v]
    BY <2>1 DEF OrderInv, SignalInv, TypeOK, Inserted, Idle
  <2> QED
    BY <1>0, <2>1, <2>2, RowsKeepOrder
<1> QED
  BY <1>1, <1>2, <1>3 DEF WriterStep, Report, Change, Statuses

LEMMA ClientKeepsOrder ==
  ASSUME OrderInv, SignalInv', StreamStep \/ Connect \/ Disconnect
  PROVE  OrderInv'
<1>0. SignalInv /\ nextId \in Nat
  BY BoundsAssumption DEF OrderInv, SignalInv, TypeOK
<1>1. CASE Connect
  <2>1. UNCHANGED <<rows, writer, received>>
    BY <1>1 DEF Connect
  <2>2. CursorHeld' /\ BatchFollows'
    BY <1>0, <1>1, <2>1, ConnectIs DEF CursorHeld, BatchFollows, Open
  <2> QED
    BY <2>1, <2>2, StreamKeepsOrder
<1>2. CASE ReadStatus
  <2>1. UNCHANGED <<rows, writer, received>> /\ stream.pc = "status"
    BY <1>2 DEF ReadStatus
  <2>2. CursorHeld' /\ BatchFollows'
    BY <1>0, <1>2, <2>1, ReadStatusIs DEF OrderInv, CursorHeld, BatchFollows, Open
  <2> QED
    BY <2>1, <2>2, StreamKeepsOrder
<1>3. CASE ReadEvents
  <2>1. UNCHANGED <<rows, writer, received>> /\ stream.pc = "events" /\ nextId' = nextId
    BY <1>3 DEF ReadEvents, rows
  <2>2. \A b \in EventsAfter(stream.cursor) : b > stream.cursor /\ b < nextId
    BY <1>0, StreamFields, OldestFirst DEF OrderInv, SignalInv, TypeOK, IdsDrawn
  <2>3. CursorHeld'
    BY <1>0, <1>3, <2>1, ReadEventsIs DEF OrderInv, CursorHeld, Open
  <2>4. BatchFollows'
    BY <1>0, <1>3, <2>1, <2>2, ReadEventsIs DEF BatchFollows
  <2> QED
    BY <2>1, <2>3, <2>4, StreamKeepsOrder
<1>4. CASE Send
  <2>1. PICK id \in 1..MaxEvents :
          id = Min(stream.batch) /\ id \in stream.batch /\ \A b \in stream.batch : id <= b
    BY <1>0, <1>4, FirstOfBatch DEF Send
  <2>2. /\ UNCHANGED <<rows, writer>> /\ nextId' = nextId /\ stream.pc = "send"
        /\ received' = Append(received, id)
    BY <1>0, <1>4, <2>1, SendIs DEF Send, rows
  <2>3. id > Last0(received) /\ id < nextId /\ \A b \in stream.batch : b < nextId
    BY <2>1, <2>2 DEF OrderInv, CursorHeld, BatchFollows, Open
  <2>4. received \in Seq(1..MaxEvents)
    BY <1>0 DEF SignalInv, TypeOK
  <2>5. Last0(received') = id /\ ToSet(received') = ToSet(received) \cup {id}
    BY <2>2, <2>4, LastReceived
  <2>6. InOrder'
    BY <2>2, <2>3, <2>4, InOrderExtends DEF OrderInv
  <2>7. IdsDrawn'
    BY <2>2, <2>3, <2>5 DEF OrderInv, IdsDrawn, Inserted, rows
  <2>8. CursorHeld'
    BY <1>0, <1>4, <2>1, <2>5, SendIs DEF CursorHeld, Open
  <2>9. BatchFollows'
    <3>1. \A b \in stream.batch \ {id} : b > id
      BY <1>0, <2>1, StreamFields, BoundsAssumption
    <3>2. ASSUME stream'.pc = "send"
          PROVE  stream'.cursor = id /\ stream'.batch = stream.batch \ {id}
      BY <1>0, <1>4, <2>1, <3>2, SendIs
    <3> QED
      BY <2>2, <2>3, <3>1, <3>2 DEF BatchFollows
  <2> QED
    BY <2>6, <2>7, <2>8, <2>9 DEF OrderInv
<1>5. CASE CaughtUp
  <2>1. UNCHANGED <<rows, writer, received>> /\ stream.pc = "caughtUp"
    BY <1>5 DEF CaughtUp
  <2>2. CursorHeld' /\ BatchFollows'
    BY <1>0, <1>5, <2>1, CaughtUpIs DEF OrderInv, CursorHeld, BatchFollows, Open
  <2> QED
    BY <2>1, <2>2, StreamKeepsOrder
<1>6. ASSUME NEW timeout \in BOOLEAN, WakeUp(timeout)
      PROVE  OrderInv'
  <2>1. UNCHANGED <<rows, writer, received>> /\ stream.pc = "wait"
    BY <1>6 DEF WakeUp
  <2>2. CursorHeld' /\ BatchFollows'
    BY <1>0, <1>6, <2>1, WakeUpIs DEF OrderInv, CursorHeld, BatchFollows, Open
  <2> QED
    BY <2>1, <2>2, StreamKeepsOrder
<1>7. CASE Disconnect
  <2>1. UNCHANGED <<rows, writer, received>>
    BY <1>7 DEF Disconnect
  <2>2. CursorHeld' /\ BatchFollows'
    BY <1>0, <1>7, DisconnectIs DEF CursorHeld, BatchFollows, Open
  <2> QED
    BY <2>1, <2>2, StreamKeepsOrder
<1> QED
  BY <1>1, <1>2, <1>3, <1>4, <1>5, <1>6, <1>7 DEF StreamStep

\* The job and the loop move on; no event is added, and the stream stays where it is.
LEMMA OthersAddNothing ==
  ASSUME Delete \/ BecomesDue \/ TakenAway \/ LoopStep \/ UNCHANGED vars
  PROVE  /\ UNCHANGED <<nextId, stream, received, writer, endings>> /\ log' \subseteq log
         /\ status' # "deleted" => status # "deleted" /\ log' = log
         /\ status' = "ended" => status = "ended"
<1> USE DEF rows, client
<1>1. CASE LoopRead
  BY <1>1 DEF LoopRead, ReadJob, TakeOther, Take, Due
<1>2. CASE Delete \/ BecomesDue \/ TakenAway
  BY <1>2 DEF Delete, BecomesDue, TakenAway, Take, Due
<1>3. CASE LoopCutShort \/ LoopResume \/ TaskEnds \/ Stop \/ UNCHANGED vars
  BY <1>3 DEF LoopCutShort, LoopResume, TaskEnds, Stop, vars
<1>4. CASE \E timeout \in BOOLEAN : LoopWake(timeout)
  BY <1>4 DEF LoopWake
<1> QED
  BY <1>1, <1>2, <1>3, <1>4 DEF LoopStep

LEMMA OthersKeepOrder ==
  ASSUME OrderInv, SignalInv',
         Delete \/ BecomesDue \/ TakenAway \/ LoopStep \/ UNCHANGED vars
  PROVE  OrderInv'
<1>1. /\ UNCHANGED <<nextId, stream, received, writer, endings>>
      /\ log' \subseteq log /\ nextId \in Nat
  BY OthersAddNothing, BoundsAssumption DEF OrderInv, SignalInv, TypeOK
<1>2. nextId' >= nextId /\ \A e \in log' \cup endings' : e < nextId'
  BY <1>1 DEF OrderInv, IdsDrawn
<1>3. \A w \in Writers : Inserted(w)' => writer'[w].id \in 1..nextId' - 1
  BY <1>1 DEF OrderInv, IdsDrawn, Inserted
<1> QED
  BY <1>1, <1>2, <1>3, RowsKeepOrder

LEMMA InitOrder == Init => OrderInv
<1> SUFFICES ASSUME Init PROVE OrderInv
  OBVIOUS
<1>1. SignalInv
  BY InitSignals
<1>2. ToSet(received) = {} /\ DOMAIN received = {}
  BY DEF Init, ToSet
<1>3. IdsDrawn /\ InOrder
  BY <1>2 DEF Init, IdsDrawn, InOrder, Inserted, Idle
<1>4. CursorHeld /\ BatchFollows
  BY DEF Init, CursorHeld, BatchFollows, Open, Closed, Round
<1> QED
  BY <1>1, <1>3, <1>4 DEF OrderInv

LEMMA StepOrder == OrderInv /\ [Next]_vars => OrderInv'
<1> SUFFICES ASSUME OrderInv, [Next]_vars PROVE OrderInv'
  OBVIOUS
<1>1. SignalInv'
  BY StepSignals DEF OrderInv
<1> QED
  BY <1>1, WriterKeepsOrder, ClientKeepsOrder, OthersKeepOrder DEF Next

\* Over all its connections a client never receives an event twice or behind a later
\* one, also on a database whose transactions commit in any order: the cursor only
\* grows, and a batch goes on behind it.
THEOREM EventsComeInOrder == Spec => []InOrder
<1>1. OrderInv => InOrder
  BY DEF OrderInv
<1> QED
  BY <1>1, InitOrder, StepOrder, PTL DEF Spec

-----------------------------------------------------------------------------
(* The replay, with one writer at a time                                   *)

LEMMA IdsAreNat ==
  ASSUME OrderInv
  PROVE  /\ nextId \in Nat /\ \A e \in Visible : e \in Nat /\ e < nextId
         /\ Last0(received) = 0 \/ Last0(received) \in ToSet(received)
<1> USE BoundsAssumption
<1>1. nextId \in Nat /\ log \subseteq Nat /\ received \in Seq(1..MaxEvents) /\ SignalInv
  BY DEF OrderInv, SignalInv, TypeOK
<1>2. stream.batch \subseteq Nat
  BY <1>1, StreamFields
<1>3. \A i \in DOMAIN received : received[i] \in Nat
  BY <1>1
<1>4. ToSet(received) \subseteq Nat
  BY <1>3 DEF ToSet
<1>5. Last0(received) = 0 \/ Last0(received) \in ToSet(received)
  BY <1>1 DEF Last0, Last, ToSet
<1> QED
  BY <1>1, <1>2, <1>4, <1>5 DEF OrderInv, IdsDrawn, BatchFollows, Visible

\* Rows and writers change, and what the client has does not.
LEMMA RowsKeepReplay ==
  ASSUME EndingInv, OrderInv', UNCHANGED <<stream, received>>,
         CommitsInOrder',
         \A e \in log' \ log : \A f \in Visible : f < e,
         \A e \in log' : e \in Nat /\ e # 0,
         EndingsLogged', status' # "deleted" => status # "deleted" /\ log \subseteq log'
  PROVE  EndingInv'
<1>1. /\ \A e \in Visible : e \in Nat
      /\ Last0(received) = 0 \/ Last0(received) \in ToSet(received)
  BY IdsAreNat DEF EndingInv, ReplayInv
<1>2. /\ BatchComplete /\ Replayed /\ EndingSeen /\ stream' = stream /\ received' = received
      /\ ToSet(received) \subseteq Visible
      /\ stream.pc = "send" => stream.batch \subseteq Visible
  BY DEF EndingInv, ReplayInv, Visible
<1>3. ASSUME NEW e \in log', NEW b \in stream.batch, stream.pc = "send", stream.cursor < e, e < b
      PROVE  e \in stream.batch
  <2>1. CASE e \in log
    BY <1>2, <1>3, <2>1 DEF BatchComplete
  <2>2. CASE e \notin log
    BY <1>1, <1>2, <1>3, <2>2
  <2> QED
    BY <2>1, <2>2
<1>4. ASSUME NEW e \in log', e <= Last0(received)
      PROVE  e \in ToSet(received)
  <2>1. CASE e \in log
    BY <1>2, <1>4, <2>1 DEF Replayed
  <2>2. CASE e \notin log
    BY <1>1, <1>2, <1>4, <2>2
  <2> QED
    BY <2>1, <2>2
<1>5. BatchComplete' /\ Replayed'
  BY <1>2, <1>3, <1>4 DEF BatchComplete, Replayed
<1>6. EndingSeen'
  BY <1>2 DEF EndingSeen, SeesEnding
<1> QED
  BY <1>5, <1>6 DEF EndingInv, ReplayInv

LEMMA WriterKeepsReplay ==
  ASSUME SerialCommits, EndingInv, OrderInv', NEW w \in Writers, WriterStep(w)
  PROVE  EndingInv'
<1>0. /\ OrderInv /\ CommitsInOrder /\ EndingsLogged
      /\ SignalInv /\ SignalInv' /\ nextId \in Nat /\ \A e \in Visible : e \in Nat /\ e < nextId
  BY IdsAreNat DEF EndingInv, ReplayInv, OrderInv
<1>1. /\ writer \in [Writers -> WriterState]
      /\ \A e \in log' : e \in Nat /\ e # 0
  BY <1>0, BoundsAssumption DEF SignalInv, TypeOK, WriterState
<1>2. ASSUME NEW to \in Statuses, NEW moves \in BOOLEAN,
         NEW delay \in BOOLEAN, Insert(w, to, moves, delay)
      PROVE  EndingInv'
  <2>1. /\ UNCHANGED <<status, log, endings, stream, received>>
        /\ \A v \in Writers : ~ Inserted(v)
    BY <1>2 DEF Insert, client, Inserted
  <2>2. /\ writer'[w].id = nextId
        /\ \A v \in Writers \ {w} : writer'[v] = writer[v]
    BY <1>1, <1>2 DEF Insert
  <2>3. CommitsInOrder'
    BY <1>0, <2>1, <2>2 DEF CommitsInOrder, Visible, Inserted
  <2>4. EndingsLogged'
    BY <1>0, <2>1 DEF EndingsLogged
  <2> QED
    BY <1>1, <2>1, <2>3, <2>4, RowsKeepReplay
<1>3. CASE Commit(w)
  <2>1. /\ UNCHANGED <<stream, received>> /\ Inserted(w) /\ log' = log \cup {writer[w].id}
        /\ status # "deleted" /\ endings' \subseteq endings \cup {writer[w].id}
        /\ status' = "ended" =>
             (status = "ended" /\ endings' = endings) \/ writer[w].id \in endings'
        /\ endings \subseteq endings'
    BY <1>3 DEF Commit, client, Inserted
  <2>2. \A v \in Writers : ~ Inserted(v)'
    <3>1. \A v \in Writers \ {w} : writer'[v] = writer[v]
      BY <1>1, <1>3 DEF Commit
    <3>2. writer'[w].pc = "notify"
      BY <1>1, <1>3 DEF Commit
    <3> QED
      BY <1>0, <2>1, <3>1, <3>2 DEF CommitsInOrder, Inserted
  <2>3. CommitsInOrder'
    BY <2>2 DEF CommitsInOrder, Inserted
  <2>4. \A f \in Visible : f < writer[w].id
    BY <1>0, <2>1 DEF CommitsInOrder
  <2>5. EndingsLogged'
    BY <1>0, <2>1 DEF EndingsLogged
  <2> QED
    BY <1>1, <2>1, <2>3, <2>4, <2>5, RowsKeepReplay
<1>4. CASE Rollback(w) \/ Notify(w)
  <2>1. /\ UNCHANGED <<status, log, endings, stream, received>>
        /\ writer' = [writer EXCEPT ![w] = Idle]
    BY <1>4 DEF Rollback, Notify, rows, client
  <2>2. \A v \in Writers : Inserted(v)' => Inserted(v) /\ writer'[v] = writer[v]
    BY <1>1, <2>1 DEF Inserted, Idle
  <2>3. Visible' = Visible
    BY <2>1 DEF Visible
  <2>4. CommitsInOrder'
    BY <1>0, <2>2, <2>3 DEF CommitsInOrder
  <2>5. EndingsLogged'
    BY <1>0, <2>1 DEF EndingsLogged
  <2> QED
    BY <1>1, <2>1, <2>4, <2>5, RowsKeepReplay
<1> QED
  BY <1>2, <1>3, <1>4 DEF WriterStep, Report, Change, Statuses

LEMMA OthersKeepReplay ==
  ASSUME EndingInv, OrderInv',
         Delete \/ BecomesDue \/ TakenAway \/ LoopStep \/ UNCHANGED vars
  PROVE  EndingInv'
<1>0. CommitsInOrder /\ EndingsLogged /\ OrderInv /\ SignalInv'
  BY DEF EndingInv, ReplayInv, OrderInv
<1>1. \A e \in log' : e \in Nat /\ e # 0
  BY <1>0, BoundsAssumption DEF SignalInv, TypeOK
<1>2. /\ UNCHANGED <<stream, received, writer, endings>> /\ log' \subseteq log
      /\ status' # "deleted" => status # "deleted" /\ log' = log
      /\ status' = "ended" => status = "ended"
  BY OthersAddNothing
<1>3. Visible' \subseteq Visible
  BY <1>2 DEF Visible
<1>4. CommitsInOrder'
  BY <1>0, <1>2, <1>3 DEF CommitsInOrder, Inserted
<1>5. EndingsLogged'
  BY <1>0, <1>2 DEF EndingsLogged
<1> QED
  BY <1>1, <1>2, <1>4, <1>5, RowsKeepReplay

\* The stream moves on and the rows stay.
LEMMA StreamKeepsReplay ==
  ASSUME EndingInv, OrderInv', UNCHANGED <<rows, writer>>, Visible' \subseteq Visible,
         BatchComplete', Replayed', EndingSeen'
  PROVE  EndingInv'
<1>1. CommitsInOrder'
  BY DEF EndingInv, ReplayInv, CommitsInOrder, Inserted
<1>2. EndingsLogged'
  BY DEF EndingInv, EndingsLogged, rows
<1> QED
  BY <1>1, <1>2 DEF EndingInv, ReplayInv

LEMMA ClientKeepsReplay ==
  ASSUME EndingInv, OrderInv', StreamStep \/ Connect \/ Disconnect
  PROVE  EndingInv'
<1>0. /\ OrderInv /\ SignalInv /\ TypeOK /\ BatchComplete /\ Replayed /\ EndingsLogged
      /\ EndingSeen /\ CursorHeld
  BY DEF EndingInv, ReplayInv, OrderInv, SignalInv
\* Steps that neither read events nor send one.
<1>1. ASSUME UNCHANGED <<rows, writer, received>>, stream'.pc # "send", EndingSeen'
      PROVE  EndingInv'
  <2>1. Visible' \subseteq Visible
    BY <1>1 DEF Visible, rows
  <2>2. BatchComplete' /\ Replayed'
    BY <1>0, <1>1 DEF BatchComplete, Replayed, rows
  <2> QED
    BY <1>1, <2>1, <2>2, StreamKeepsReplay
<1>2. CASE Connect
  BY <1>0, <1>1, <1>2, ConnectIs DEF Connect, EndingSeen, SeesEnding
<1>3. CASE ReadStatus
  <2>1. UNCHANGED <<rows, writer, received>> /\ log' = log /\ status' = status
    BY <1>3 DEF ReadStatus, rows
  <2>2. stream'.pc = "events" /\ stream'.seen = status /\ stream'.ending = MaxOf(endings)
    BY <1>0, <1>3, ReadStatusIs
  <2>3. EndingSeen'
    BY <1>0, <2>1, <2>2, MaxOfEndings DEF EndingSeen, SeesEnding, EndingsLogged
  <2> QED
    BY <1>1, <2>1, <2>2, <2>3
<1>4. CASE ReadEvents
  <2>1. /\ UNCHANGED <<rows, writer, received>> /\ log' = log /\ status' = status
        /\ stream.pc = "events" /\ stream.cursor = Last0(received) /\ stream.cursor \in 0..MaxEvents
    BY <1>0, <1>4, StreamFields DEF ReadEvents, rows, CursorHeld, Open
  <2>2. /\ stream'.cursor = stream.cursor /\ stream'.seen = stream.seen
        /\ stream'.ending = stream.ending /\ stream'.batch = EventsAfter(stream.cursor)
        /\ stream'.pc = IF EventsAfter(stream.cursor) = {} THEN "caughtUp" ELSE "send"
    BY <1>0, <1>4, ReadEventsIs
  <2>3. /\ \A e \in EventsAfter(stream.cursor) : e \in log
        /\ EventsAfter(stream.cursor) = {} => \A e \in log : e <= stream.cursor
        /\ \A e \in log, b \in EventsAfter(stream.cursor) :
             stream.cursor < e /\ e < b => e \in EventsAfter(stream.cursor)
    BY <1>0, <2>1, OldestFirst DEF TypeOK
  <2>4. Visible' \subseteq Visible
    BY <2>1, <2>2, <2>3 DEF Visible
  <2>5. BatchComplete' /\ Replayed'
    BY <1>0, <2>1, <2>2, <2>3 DEF BatchComplete, Replayed
  <2>6. EndingSeen'
    BY <1>0, <2>1, <2>2, <2>3 DEF EndingSeen, SeesEnding
  <2> QED
    BY <2>1, <2>4, <2>5, <2>6, StreamKeepsReplay
<1>5. CASE Send
  <2>1. PICK id \in 1..MaxEvents :
          id = Min(stream.batch) /\ id \in stream.batch /\ \A b \in stream.batch : id <= b
    BY <1>0, <1>5, FirstOfBatch DEF Send
  <2>2. /\ UNCHANGED <<rows, writer>> /\ log' = log /\ status' = status /\ stream.pc = "send"
        /\ received' = Append(received, id) /\ stream.cursor = Last0(received)
        /\ received \in Seq(1..MaxEvents)
    BY <1>0, <1>5, <2>1, SendIs DEF Send, rows, CursorHeld, Open, TypeOK
  <2>3. Last0(received') = id /\ ToSet(received') = ToSet(received) \cup {id}
    BY <2>2, LastReceived
  <2>4. stream'.pc = "send" =>
          /\ stream'.cursor = id /\ stream'.batch = stream.batch \ {id}
          /\ stream'.seen = stream.seen /\ stream'.ending = stream.ending
    BY <1>0, <1>5, <2>1, SendIs
  <2>5. /\ stream'.pc \in {"send", "over", "status"}
        /\ stream'.pc = "over" => stream'.seen = "deleted"
    BY <1>0, <1>5, <2>1, SendIs
  <2>6. Visible' \subseteq Visible
    BY <2>1, <2>2, <2>3, <2>4 DEF Visible
  <2>7. /\ \A e \in log : e \in Nat
        /\ \A b \in stream.batch : b \in Nat /\ b > stream.cursor
        /\ stream.cursor \in Nat
    BY <1>0, <2>2, StreamFields, BoundsAssumption DEF TypeOK, OrderInv, BatchFollows
  <2>8. BatchComplete'
    BY <1>0, <2>1, <2>2, <2>4, <2>7 DEF BatchComplete
  <2>9. Replayed'
    <3>1. ASSUME NEW e \in log, e <= id
          PROVE  e \in ToSet(received) \cup {id}
      <4>1. CASE e <= stream.cursor
        BY <1>0, <2>2, <4>1 DEF Replayed
      <4>2. CASE stream.cursor < e /\ e < id
        BY <1>0, <2>1, <2>2, <2>7, <4>2 DEF BatchComplete
      <4> QED
        BY <2>7, <3>1, <4>1, <4>2
    <3> QED
      BY <2>2, <2>3, <3>1 DEF Replayed
  <2>10. EndingSeen'
    BY <1>0, <2>2, <2>4, <2>5 DEF EndingSeen, SeesEnding
  <2> QED
    BY <2>2, <2>6, <2>8, <2>9, <2>10, StreamKeepsReplay
<1>6. CASE CaughtUp
  <2>1. UNCHANGED <<rows, writer, received>> /\ log' = log /\ status' = status
        /\ stream.pc = "caughtUp"
    BY <1>6 DEF CaughtUp, rows
  <2>2. \/ stream'.pc = "over" /\ stream'.seen = stream.seen /\ stream'.ending = stream.ending
        \/ stream'.pc = "wait"
    BY <1>0, <1>6, CaughtUpIs
  <2>3. EndingSeen'
    BY <1>0, <2>1, <2>2 DEF EndingSeen, SeesEnding
  <2> QED
    BY <1>1, <2>1, <2>2, <2>3
<1>7. ASSUME NEW timeout \in BOOLEAN, WakeUp(timeout)
      PROVE  EndingInv'
  BY <1>0, <1>1, <1>7, WakeUpIs DEF WakeUp, EndingSeen
<1>8. CASE Disconnect
  BY <1>0, <1>1, <1>8, DisconnectIs DEF Disconnect, EndingSeen
<1> QED
  BY <1>2, <1>3, <1>4, <1>5, <1>6, <1>7, <1>8 DEF StreamStep

LEMMA InitReplay == Init => EndingInv
<1> SUFFICES ASSUME Init PROVE EndingInv
  OBVIOUS
<1>1. OrderInv
  BY InitOrder
<1>2. CommitsInOrder /\ BatchComplete /\ Replayed
  BY DEF Init, CommitsInOrder, Inserted, Idle, BatchComplete, Closed, Round, Replayed
<1>3. EndingsLogged /\ EndingSeen
  BY DEF Init, EndingsLogged, EndingSeen, SeesEnding, Closed, Round
<1> QED
  BY <1>1, <1>2, <1>3 DEF EndingInv, ReplayInv

LEMMA StepReplay == SerialCommits /\ EndingInv /\ [Next]_vars => EndingInv'
<1> SUFFICES ASSUME SerialCommits, EndingInv, [Next]_vars PROVE EndingInv'
  OBVIOUS
<1>1. OrderInv'
  BY StepOrder DEF EndingInv, ReplayInv
<1> QED
  BY <1>1, WriterKeepsReplay, ClientKeepsReplay, OthersKeepReplay DEF Next

\* "Reconnecting clients send Last-Event-ID and miss nothing": where one transaction
\* writes at a time (SQLite), the client has the log up to its last event, in order and
\* once, whatever its connections, the writers and the size of a batch.
THEOREM ClientsMissNothing ==
  ASSUME SerialCommits
  PROVE  Spec => []MissesNothing
<1>1. EndingInv => MissesNothing
  BY DEF EndingInv, ReplayInv, OrderInv, InOrder, Replayed, MissesNothing
<1> QED
  BY <1>1, InitReplay, StepReplay, PTL DEF Spec

\* On such a database a stream ends only behind the event of the ending it saw: the
\* status is read before the events, and events until none is left.
THEOREM StreamsEndBehindTheEnding ==
  ASSUME SerialCommits
  PROVE  Spec => []EndsBehindTheEnding
<1>1. EndingInv => EndsBehindTheEnding
  BY DEF EndingInv, ReplayInv, Replayed, EndingSeen, SeesEnding, EndsBehindTheEnding
<1> QED
  BY <1>1, InitReplay, StepReplay, PTL DEF Spec

=============================================================================
