--------------------------- MODULE ElectrumProofs ---------------------------
(***************************************************************************)
(* What holds of Electrum for every pool of endpoints and number of tasks, *)
(* whatever the servers do.                                                *)
(***************************************************************************)
EXTENDS Electrum, FiniteSetTheorems, SequenceTheorems, TLAPS

LEMMA Constants ==
  /\ IsFiniteSet(Task) /\ Pool \in Nat /\ Pool > 0 /\ Span \in Nat /\ Span > 0
  /\ MaxHeight \in Nat /\ MaxLag \in Nat /\ MaxLag <= MaxHeight /\ MaxChanges \in Nat
  /\ Time \in [Height -> Nat]
  BY PoolAssumption, TimeAssumption

(* The offsets of a dial loop go once round the pool. *)
LEMMA Wrap ==
  \A x \in 0..(2 * Pool - 1) : x % Pool = (IF x < Pool THEN x ELSE x - Pool)
<1>1. Pool \in Nat /\ Pool > 0
  BY Constants
<1> QED
  BY <1>1

LEMMA Around ==
  ASSUME NEW b \in Endpoint, NEW k \in 0..Pool
  PROVE  /\ (b + k) % Pool = (IF b + k < Pool THEN b + k ELSE b + k - Pool)
         /\ (b + k) % Pool \in Endpoint
         /\ (b + k) % Pool = b <=> k \in {0, Pool}
<1>1. Pool \in Nat /\ Pool > 0 /\ b \in 0..(Pool - 1)
  BY Constants DEF Endpoint
<1>2. b + k \in 0..(2 * Pool - 1)
  BY <1>1
<1>3. (b + k) % Pool = (IF b + k < Pool THEN b + k ELSE b + k - Pool)
  BY <1>1, <1>2, Wrap
<1> QED
  BY <1>1, <1>3 DEF Endpoint

(* Within one round no endpoint comes twice, and every one comes. *)
LEMMA OneRound ==
  ASSUME NEW b \in Endpoint
  PROVE  /\ \A j, k \in 0..(Pool - 1) : (b + j) % Pool = (b + k) % Pool => j = k
         /\ \A e \in Endpoint : \E k \in 0..(Pool - 1) : (b + k) % Pool = e
<1>1. Pool \in Nat /\ Pool > 0 /\ b \in 0..(Pool - 1) /\ 0..(Pool - 1) \subseteq 0..Pool
  BY Constants DEF Endpoint
<1>2. ASSUME NEW j \in 0..(Pool - 1), NEW k \in 0..(Pool - 1), (b + j) % Pool = (b + k) % Pool
      PROVE  j = k
  <2>1. /\ (b + j) % Pool = IF b + j < Pool THEN b + j ELSE b + j - Pool
        /\ (b + k) % Pool = IF b + k < Pool THEN b + k ELSE b + k - Pool
    BY <1>1, Around
  <2> QED
    BY <1>1, <1>2, <2>1
<1>3. ASSUME NEW e \in Endpoint PROVE \E k \in 0..(Pool - 1) : (b + k) % Pool = e
  <2>1. e \in 0..(Pool - 1)
    BY DEF Endpoint
  <2> DEFINE k == IF b <= e THEN e - b ELSE e - b + Pool
  <2>2. k \in 0..(Pool - 1) /\ k \in 0..Pool /\ (IF b + k < Pool THEN b + k ELSE b + k - Pool) = e
    BY <1>1, <2>1
  <2> HIDE DEF k
  <2> QED
    BY <2>2, Around
<1> QED
  BY <1>2, <1>3

-----------------------------------------------------------------------------
(* A task: its client, and where it is in its job. *)

Phases == {"idle", "dial", "remember", "send", "wait"}
Results == {"none", "answered", "error", "lost", "all down"}
Conn == [ep: Endpoint, open: BOOLEAN, asked: Seq(Requests), inbox: Seq(Lines), subscribed: BOOLEAN]
TaskState ==
    [pc: Phases, job: Seq(Requests), base: Endpoint, offset: 0..Pool, resent: BOOLEAN, conn: Conn,
     height: Height, mtp: Nat, failed: SUBSET Endpoint, result: Results]

(* A job, or what is left of one. *)
Remaining ==
    {<<"tip", "headers">>, <<"headers">>, <<"tickers", "tickers26">>, <<"tickers26">>, <<"list">>, <<>>}

Connected(r) == r.pc \in {"remember", "send", "wait"}

(* Of the lines on their way at most one is the answer to the request made last, all others tell  *)
(* of blocks; and a connection that nothing was asked of yet is silent.                           *)
Pushes(lines) == \A i \in 1..Len(lines) : lines[i].to = "push"

Answers(lines, k, r) ==
    /\ lines[k].to = Head(r.job)
    /\ lines[k].to = "headers" => lines[k].upto <= r.height
    /\ \A i \in 1..Len(lines) : i # k => lines[i].to = "push"

Untouched(c) == c.asked = <<>> /\ c.inbox = <<>> /\ ~c.subscribed

Conversation(r) ==
    /\ ~Connected(r) => ~r.conn.open
    /\ r.pc \in {"idle", "dial", "remember"} => Untouched(r.conn)
    /\ r.pc = "send" => r.conn.asked = <<>> /\ Pushes(r.conn.inbox)
    /\ r.pc = "wait" =>
         \/ r.conn.asked = <<Head(r.job)>> /\ Pushes(r.conn.inbox)
         \/ r.conn.asked = <<>> /\ \E k \in 1..Len(r.conn.inbox) : Answers(r.conn.inbox, k, r)

(* Every endpoint a dial loop has passed failed this call; a request made again was made at        *)
(* another endpoint, or all have failed.                                                          *)
Passed(r) == {(r.base + k) % Pool : k \in 0..(r.offset - 1)}
Elsewhere(r) == (\E e \in r.failed : e # r.conn.ep) \/ r.failed = Endpoint

Failures(r) ==
    /\ r.pc = "dial" => /\ r.offset <= LastOffset(r) /\ (r.resent => r.offset >= 1)
                        /\ Passed(r) \subseteq r.failed
    /\ Connected(r) /\ r.resent => Elsewhere(r)
    /\ r.pc # "idle" => r.result = "none"
    /\ r.result = "lost" => Cardinality(r.failed) >= 2 \/ r.failed = Endpoint
    /\ r.result = "all down" => r.failed = Endpoint

InWindow(r) ==
    /\ r.mtp <= Time[(Start(r.height) + r.height + 1) \div 2]
    /\ r.mtp >= Time[Start(r.height)]

Median(r) ==
    /\ r.pc # "idle" => r.mtp = 0
    /\ r.result = "answered" /\ r.mtp # 0 => InWindow(r)

Sound(r) ==
    /\ r \in TaskState
    /\ r.job \in Remaining /\ (r.pc = "idle" <=> r.job = <<>>)
    /\ Conversation(r) /\ Failures(r) /\ Median(r)

LEMMA JobFacts ==
  ASSUME NEW job \in Remaining, job # <<>>
  PROVE  /\ Head(job) \in Requests /\ Head(job) # "push"
         /\ job \in Seq(Requests)
         /\ Tail(job) \in Remaining /\ Tail(job) \in Seq(Requests)
         /\ Len(job) = 1 <=> Tail(job) = <<>>
         /\ Head(job) = "headers" => Len(job) = 1
<1> USE DEF Requests
<1>1. CASE job = <<"tip", "headers">>
  BY <1>1 DEF Remaining
<1>2. CASE job = <<"headers">>
  <2>1. Tail(job) = <<>> /\ Head(job) = "headers" /\ Len(job) = 1
    BY <1>2
  <2> QED
    BY <1>2, <2>1 DEF Remaining
<1>3. CASE job = <<"tickers", "tickers26">>
  BY <1>3 DEF Remaining
<1>4. CASE job = <<"tickers26">>
  <2>1. Tail(job) = <<>> /\ Head(job) = "tickers26" /\ Len(job) = 1
    BY <1>4
  <2> QED
    BY <1>4, <2>1 DEF Remaining
<1>5. CASE job = <<"list">>
  <2>1. Tail(job) = <<>> /\ Head(job) = "list" /\ Len(job) = 1
    BY <1>5
  <2> QED
    BY <1>5, <2>1 DEF Remaining
<1> QED
  BY <1>1, <1>2, <1>3, <1>4, <1>5 DEF Remaining

LEMMA Zero == 0 \in Endpoint /\ 0 \in Height /\ 0 \in 0..Pool
  BY Constants DEF Endpoint, Height

LEMMA NoConnFacts ==
  NoConn \in Conn /\ Untouched(NoConn) /\ ~NoConn.open
  BY Zero DEF NoConn, Conn, Untouched

LEMMA IdleFacts ==
  /\ Idle \in TaskState
  /\ Idle.pc = "idle" /\ Idle.job = <<>> /\ Idle.base = 0 /\ Idle.offset = 0
  /\ Idle.resent = FALSE /\ Idle.conn = NoConn /\ Idle.height = 0 /\ Idle.mtp = 0
  /\ Idle.failed = {} /\ Idle.result = "none"
<1>1. Idle \in TaskState
  BY Zero, NoConnFacts DEF Idle, TaskState, Phases, Results
<1> QED
  BY <1>1 DEF Idle

LEMMA IdleIsSound == Sound(Idle)
<1>1. Conversation(Idle)
  BY IdleFacts, NoConnFacts DEF Conversation, Connected
<1>2. Failures(Idle) /\ Median(Idle)
  BY IdleFacts DEF Failures, Median, Connected
<1> QED
  BY <1>1, <1>2, IdleFacts DEF Sound, Remaining

-----------------------------------------------------------------------------
(* What each step makes of a task. *)

LEMMA EndedIsSound ==
  ASSUME NEW r \in TaskState, NEW result \in Results,
         result = "lost" => Cardinality(r.failed) >= 2 \/ r.failed = Endpoint,
         result = "all down" => r.failed = Endpoint,
         result = "answered" /\ r.mtp # 0 => InWindow(r)
  PROVE  Sound(Ended(r, result))
<1> DEFINE known == IF result = "answered" THEN r.height ELSE 0
           y == [Idle EXCEPT !.result = result, !.height = known]
           x == [y EXCEPT !.mtp = r.mtp, !.failed = r.failed]
<1>1. known \in Height /\ r.mtp \in Nat /\ r.failed \in SUBSET Endpoint
  BY Zero DEF TaskState
<1> HIDE DEF known
<1>2. /\ y \in TaskState
      /\ y.pc = "idle" /\ y.job = <<>> /\ y.conn = NoConn
      /\ y.result = result /\ y.height = known
  BY <1>1, IdleFacts DEF TaskState
<1> HIDE DEF y
<1>3. /\ x \in TaskState
      /\ x.pc = "idle" /\ x.job = <<>> /\ x.conn = NoConn
      /\ x.result = result /\ x.height = known /\ x.mtp = r.mtp /\ x.failed = r.failed
  BY <1>1, <1>2 DEF TaskState
<1>0. Ended(r, result) = x
  BY DEF Ended, known, x, y
<1> HIDE DEF x
<1>4. Conversation(x)
  BY <1>3, NoConnFacts DEF Conversation, Connected
<1>5. Failures(x)
  BY <1>3 DEF Failures, Connected
<1>6. Median(x)
  BY <1>3 DEF Median, InWindow, known
<1> QED
  BY <1>0, <1>3, <1>4, <1>5, <1>6 DEF Sound, Remaining

LEMMA ConnectIsSound ==
  ASSUME NEW job \in Jobs, NEW p \in Endpoint
  PROVE  Sound([Idle EXCEPT !.pc = "dial", !.job = job, !.base = p])
<1> DEFINE x == [Idle EXCEPT !.pc = "dial", !.job = job, !.base = p]
<1>1. Pool \in Nat /\ Pool > 0
  BY Constants
<1>2. job \in Remaining /\ job # <<>>
  BY DEF Jobs, Remaining
<1>3. job \in Seq(Requests)
  BY <1>2, JobFacts
<1>4. /\ x \in TaskState
      /\ x.pc = "dial" /\ x.job = job /\ x.base = p /\ x.offset = 0
      /\ x.resent = FALSE /\ x.conn = NoConn /\ x.mtp = 0 /\ x.failed = {} /\ x.result = "none"
  BY <1>3, IdleFacts DEF TaskState, Phases
<1> HIDE DEF x
<1>5. Conversation(x)
  BY <1>4, NoConnFacts DEF Conversation, Connected
<1>6. Failures(x)
  <2>1. Passed(x) = {}
    BY <1>4 DEF Passed
  <2>2. 0 <= LastOffset(x)
    BY <1>1, <1>4 DEF LastOffset
  <2> QED
    BY <1>4, <2>1, <2>2 DEF Failures, Connected
<1>7. Median(x)
  BY <1>4 DEF Median
<1> QED
  BY <1>2, <1>4, <1>5, <1>6, <1>7 DEF Sound, x

(* The endpoint that answers a dial made again is another one than failed, or all have failed. *)
LEMMA DialIsSound ==
  ASSUME NEW r, Sound(r), r.pc = "dial"
  PROVE  Sound([r EXCEPT !.pc = "remember", !.conn = Stream(Dialled(r))])
<1> DEFINE e == Dialled(r)
           x == [r EXCEPT !.pc = "remember", !.conn = Stream(e)]
<1>1. /\ r \in TaskState /\ r.base \in Endpoint /\ r.offset \in 0..Pool
      /\ r.failed \subseteq Endpoint /\ r.offset \in Nat /\ Pool \in Nat /\ Pool > 0
  BY Constants DEF Sound, TaskState
<1>2. e \in Endpoint /\ (e = r.base <=> r.offset \in {0, Pool})
  BY <1>1, Around DEF Dialled
<1>3. r.resent => r.offset >= 1 /\ Passed(r) \subseteq r.failed
  BY DEF Sound, Failures
<1>4. r.resent => (\E f \in r.failed : f # e) \/ r.failed = Endpoint
  <2> SUFFICES ASSUME r.resent PROVE (\E f \in r.failed : f # e) \/ r.failed = Endpoint
    OBVIOUS
  <2>1. CASE e # r.base
    <3>1. 0 \in 0..(r.offset - 1) /\ 0 \in 0..Pool
      BY <1>1, <1>3
    <3>2. (r.base + 0) % Pool = r.base
      BY <1>1, <3>1, Around
    <3>3. r.base \in Passed(r)
      BY <3>1, <3>2 DEF Passed
    <3> QED
      BY <1>3, <2>1, <3>3
  <2>2. CASE e = r.base
    <3>1. r.offset = Pool
      BY <1>1, <1>2, <1>3, <2>2
    <3>2. Endpoint \subseteq Passed(r)
      BY <1>1, <3>1, OneRound DEF Passed
    <3> QED
      BY <1>1, <1>3, <3>2
  <2> QED
    BY <2>1, <2>2
<1> HIDE DEF e
<1>5. Stream(e) \in Conn /\ Untouched(Stream(e)) /\ Stream(e).ep = e
  BY <1>2, NoConnFacts DEF Stream, Conn, Untouched
<1>6. /\ x \in TaskState
      /\ x.pc = "remember" /\ x.conn = Stream(e)
      /\ x.job = r.job /\ x.resent = r.resent /\ x.failed = r.failed
      /\ x.mtp = r.mtp /\ x.height = r.height /\ x.result = r.result
  BY <1>1, <1>5 DEF TaskState, Phases
<1> HIDE DEF x
<1>7. Conversation(x)
  BY <1>5, <1>6 DEF Conversation, Connected
<1>8. Failures(x)
  <2>1. r.result = "none"
    BY DEF Sound, Failures
  <2> QED
    BY <1>4, <1>5, <1>6, <2>1 DEF Failures, Elsewhere
<1>9. Median(x)
  <2>1. r.mtp = 0
    BY DEF Sound, Median
  <2> QED
    BY <1>6, <2>1 DEF Median
<1> QED
  BY <1>6, <1>7, <1>8, <1>9 DEF Sound, x, e

LEMMA RefusedIsSound ==
  ASSUME NEW r, Sound(r), r.pc = "dial"
  PROVE  LET f == [r EXCEPT !.failed = @ \cup {Dialled(r)}]
         IN  /\ r.offset < LastOffset(r) => Sound([f EXCEPT !.offset = @ + 1])
             /\ ~(r.offset < LastOffset(r)) => Sound(Ended(f, "all down"))
<1> DEFINE e == Dialled(r)
           f == [r EXCEPT !.failed = @ \cup {e}]
           x == [f EXCEPT !.offset = @ + 1]
<1>1. /\ r \in TaskState /\ r.base \in Endpoint /\ r.offset \in 0..Pool
      /\ r.failed \subseteq Endpoint /\ r.offset \in Nat /\ Pool \in Nat /\ Pool > 0
      /\ r.offset <= LastOffset(r) /\ Passed(r) \subseteq r.failed /\ LastOffset(r) \in {Pool - 1, Pool}
      /\ r.result = "none" /\ r.mtp = 0
  <2>1. r \in TaskState /\ Failures(r) /\ Median(r)
    BY DEF Sound
  <2>2. /\ r.offset <= LastOffset(r) /\ Passed(r) \subseteq r.failed
        /\ r.result = "none" /\ r.mtp = 0
    BY <2>1 DEF Failures, Median
  <2>3. LastOffset(r) \in {Pool - 1, Pool}
    BY DEF LastOffset
  <2>4. r.base \in Endpoint /\ r.offset \in 0..Pool /\ r.failed \subseteq Endpoint
    BY <2>1 DEF TaskState
  <2>5. Pool \in Nat /\ Pool > 0 /\ r.offset \in Nat
    BY <2>4, Constants
  <2> QED
    BY <2>1, <2>2, <2>3, <2>4, <2>5
<1>2. e \in Endpoint /\ e = (r.base + r.offset) % Pool
  BY <1>1, Around DEF Dialled
<1> HIDE DEF e
<1>3. /\ f \in TaskState /\ f.failed = r.failed \cup {e} /\ f.offset = r.offset
      /\ f.pc = "dial" /\ f.job = r.job /\ f.resent = r.resent /\ f.conn = r.conn
      /\ f.base = r.base /\ f.mtp = r.mtp /\ f.height = r.height /\ f.result = r.result
  BY <1>1, <1>2 DEF TaskState
<1> HIDE DEF f
<1>4. ASSUME r.offset < LastOffset(r) PROVE Sound(x)
  <2>1. /\ x \in TaskState
        /\ x.pc = "dial" /\ x.offset = r.offset + 1 /\ x.failed = r.failed \cup {e}
        /\ x.job = r.job /\ x.resent = r.resent /\ x.conn = r.conn /\ x.base = r.base
        /\ x.mtp = r.mtp /\ x.height = r.height /\ x.result = r.result
    <3>1. f.offset + 1 \in 0..Pool
      BY <1>1, <1>3, <1>4
    <3> QED
      BY <1>1, <1>3, <3>1 DEF TaskState
  <2> HIDE DEF x
  <2>2. Passed(x) \subseteq x.failed
    <3> SUFFICES ASSUME NEW k \in 0..(x.offset - 1) PROVE (x.base + k) % Pool \in x.failed
      BY DEF Passed
    <3>1. k = r.offset \/ k \in 0..(r.offset - 1)
      BY <1>1, <2>1
    <3> QED
      BY <1>1, <1>2, <2>1, <3>1 DEF Passed
  <2>3. Failures(x)
    <3>1. LastOffset(x) = LastOffset(r)
      BY <2>1 DEF LastOffset
    <3> QED
      BY <1>1, <1>4, <2>1, <2>2, <3>1 DEF Failures, Connected
  <2>4. Conversation(x) /\ Median(x) /\ x.job \in Remaining /\ (x.pc = "idle" <=> x.job = <<>>)
    BY <1>1, <2>1 DEF Conversation, Median, Connected, Sound
  <2> QED
    BY <2>1, <2>3, <2>4 DEF Sound, x
<1>5. ASSUME ~(r.offset < LastOffset(r)) PROVE Sound(Ended(f, "all down"))
  <2>1. Endpoint \subseteq f.failed
    <3> SUFFICES ASSUME NEW d \in Endpoint PROVE d \in f.failed
      OBVIOUS
    <3>1. PICK k \in 0..(Pool - 1) : (r.base + k) % Pool = d
      BY <1>1, OneRound
    <3>2. k = r.offset \/ k \in 0..(r.offset - 1)
      BY <1>1, <1>5
    <3> QED
      BY <1>1, <1>2, <1>3, <3>1, <3>2 DEF Passed
  <2>2. f.failed = Endpoint /\ f.mtp = 0
    BY <1>1, <1>2, <1>3, <2>1
  <2> QED
    BY <1>3, <2>2, EndedIsSound DEF Results
<1> QED
  BY <1>4, <1>5 DEF e, f, x

LEMMA RememberIsSound ==
  ASSUME NEW r, Sound(r), r.pc = "remember"
  PROVE  Sound([r EXCEPT !.pc = "send", !.base = 0, !.offset = 0])
<1> DEFINE x == [r EXCEPT !.pc = "send", !.base = 0, !.offset = 0]
<1>1. r \in TaskState /\ 0 \in Endpoint /\ 0 \in 0..Pool
  BY Constants DEF Sound, Endpoint
<1>2. /\ x \in TaskState /\ x.pc = "send" /\ x.job = r.job /\ x.resent = r.resent
      /\ x.conn = r.conn /\ x.failed = r.failed
      /\ x.mtp = r.mtp /\ x.height = r.height /\ x.result = r.result
  BY <1>1 DEF TaskState, Phases
<1> HIDE DEF x
<1>3. Conversation(x)
  <2>1. Len(<<>>) = 0
    OBVIOUS
  <2> QED
    BY <1>2, <2>1 DEF Sound, Conversation, Connected, Untouched, Pushes
<1>4. Failures(x) /\ Median(x) /\ x.job \in Remaining /\ (x.pc = "idle" <=> x.job = <<>>)
  BY <1>2 DEF Sound, Failures, Median, Connected, Elsewhere
<1> QED
  BY <1>2, <1>3, <1>4 DEF Sound, x

LEMMA ConnFacts ==
  ASSUME NEW r, Sound(r)
  PROVE  /\ r \in TaskState /\ r.conn \in Conn /\ r.conn.ep \in Endpoint
         /\ r.conn.asked \in Seq(Requests) /\ r.conn.inbox \in Seq(Lines)
         /\ r.job \in Remaining /\ (r.pc = "idle" <=> r.job = <<>>)
  BY DEF Sound, TaskState, Conn

(* A step that touches the connection only. *)
LEMMA TalkIsSound ==
  ASSUME NEW r, Sound(r), NEW c \in Conn, c.ep = r.conn.ep,
         Conversation([r EXCEPT !.conn = c])
  PROVE  Sound([r EXCEPT !.conn = c])
<1> DEFINE x == [r EXCEPT !.conn = c]
<1>1. /\ x \in TaskState /\ x.conn = c
      /\ x.pc = r.pc /\ x.job = r.job /\ x.resent = r.resent /\ x.failed = r.failed
      /\ x.base = r.base /\ x.offset = r.offset
      /\ x.mtp = r.mtp /\ x.height = r.height /\ x.result = r.result
  BY ConnFacts DEF TaskState
<1>2. Conversation(x)
  OBVIOUS
<1> HIDE DEF x
<1>3. Failures(x)
  <2>1. Passed(x) = Passed(r) /\ LastOffset(x) = LastOffset(r) /\ (Elsewhere(x) <=> Elsewhere(r))
        /\ (Connected(x) <=> Connected(r))
    BY <1>1 DEF Passed, LastOffset, Elsewhere, Connected
  <2> QED
    BY <1>1, <2>1 DEF Sound, Failures
<1>4. Median(x)
  BY <1>1 DEF Sound, Median, InWindow
<1> QED
  BY <1>1, <1>2, <1>3, <1>4 DEF Sound, x

LEMMA SendIsSound ==
  ASSUME NEW r, Sound(r), r.pc = "send"
  PROVE  Sound([r EXCEPT !.pc = "wait", !.conn.asked = Append(@, Head(r.job))])
<1> DEFINE c == [r.conn EXCEPT !.asked = Append(@, Head(r.job))]
           x == [r EXCEPT !.pc = "wait", !.conn = c]
<1>1. r \in TaskState /\ r.conn \in Conn /\ r.job \in Remaining /\ r.job # <<>>
  BY ConnFacts
<1>2. r.conn.asked = <<>> /\ Pushes(r.conn.inbox) /\ Head(r.job) \in Requests
  BY <1>1, JobFacts DEF Sound, Conversation
<1>3. Append(r.conn.asked, Head(r.job)) = <<Head(r.job)>> /\ <<Head(r.job)>> \in Seq(Requests)
  BY <1>2
<1>4. c \in Conn /\ c.asked = <<Head(r.job)>> /\ c.inbox = r.conn.inbox /\ c.ep = r.conn.ep
  BY <1>1, <1>3 DEF Conn
<1>5. [r EXCEPT !.pc = "wait", !.conn.asked = Append(@, Head(r.job))] = x
  OBVIOUS
<1> HIDE DEF c
<1>6. /\ x \in TaskState /\ x.conn = c /\ x.pc = "wait"
      /\ x.job = r.job /\ x.resent = r.resent /\ x.failed = r.failed
      /\ x.mtp = r.mtp /\ x.height = r.height /\ x.result = r.result
  BY <1>1, <1>4 DEF TaskState, Phases
<1> HIDE DEF x
<1>7. Conversation(x)
  BY <1>2, <1>4, <1>6 DEF Conversation, Connected
<1>8. Failures(x)
  BY <1>4, <1>6 DEF Sound, Failures, Connected, Elsewhere
<1>9. Median(x)
  BY <1>6 DEF Sound, Median
<1> QED
  BY <1>1, <1>5, <1>6, <1>7, <1>8, <1>9 DEF Sound

LEMMA EndpointsAreFinite ==
  IsFiniteSet(Endpoint) /\ \A S \in SUBSET Endpoint : IsFiniteSet(S) /\ Cardinality(S) \in Nat
<1>1. 0 \in Int /\ Pool - 1 \in Int
  BY Constants
<1>2. IsFiniteSet(Endpoint)
  BY <1>1, FS_Interval DEF Endpoint
<1> QED
  BY <1>2, FS_Subset, FS_CardinalityType

LEMMA LostIsSound ==
  ASSUME NEW r, Sound(r), Connected(r)
  PROVE  LET f == [r EXCEPT !.failed = @ \cup {r.conn.ep}]
         IN  /\ r.resent => Sound(Ended(f, "lost"))
             /\ ~r.resent => Sound(FailOver(f))
<1> DEFINE e == r.conn.ep
           f == [r EXCEPT !.failed = @ \cup {e}]
           x == FailOver(f)
<1>1. /\ r \in TaskState /\ e \in Endpoint /\ r.failed \subseteq Endpoint
      /\ r.job \in Remaining /\ r.job # <<>> /\ r.result = "none" /\ r.mtp = 0
  BY ConnFacts DEF Sound, TaskState, Failures, Median, Connected
<1>2. /\ f \in TaskState /\ f.failed = r.failed \cup {e} /\ f.conn.ep = e
      /\ f.job = r.job /\ f.mtp = 0 /\ f.height = r.height /\ f.result = "none"
  BY <1>1 DEF TaskState
<1> HIDE DEF f, e
<1>3. ASSUME r.resent PROVE Sound(Ended(f, "lost"))
  <2>1. Elsewhere(r)
    BY <1>3 DEF Sound, Failures
  <2>2. Cardinality(f.failed) >= 2 \/ f.failed = Endpoint
    <3>1. CASE r.failed = Endpoint
      BY <1>1, <1>2, <3>1
    <3>2. ASSUME NEW d \in r.failed, d # e PROVE Cardinality(f.failed) >= 2
      <4>1. {d, e} \subseteq f.failed /\ f.failed \subseteq Endpoint /\ IsFiniteSet(f.failed)
        BY <1>1, <1>2, EndpointsAreFinite
      <4>2. Cardinality({d, e}) = 2
        <5>1. IsFiniteSet({d}) /\ Cardinality({d}) = 1 /\ {d, e} = {d} \cup {e} /\ e \notin {d}
          BY <3>2, FS_Singleton
        <5> QED
          BY <5>1, FS_AddElement
      <4> QED
        BY <4>1, <4>2, FS_Subset, FS_CardinalityType
    <3> QED
      BY <2>1, <3>1, <3>2 DEF Elsewhere, e
  <2> QED
    BY <1>2, <2>2, EndedIsSound DEF Results
<1>4. ASSUME ~r.resent PROVE Sound(x)
  <2>1. Pool \in Nat /\ Pool > 0 /\ 1 \in 0..Pool
    BY Constants
  <2>2. /\ x \in TaskState /\ x.pc = "dial" /\ x.resent = TRUE /\ x.conn = NoConn
        /\ x.base = e /\ x.offset = 1 /\ x.job = r.job /\ x.mtp = 0 /\ x.result = "none"
        /\ x.failed = r.failed \cup {e}
    BY <1>1, <1>2, <2>1, NoConnFacts DEF FailOver, TaskState, Phases
  <2> HIDE DEF x
  <2>3. Passed(x) \subseteq x.failed
    <3> SUFFICES ASSUME NEW k \in 0..(x.offset - 1) PROVE (x.base + k) % Pool \in x.failed
      BY DEF Passed
    <3>1. k = 0 /\ k \in 0..Pool
      BY <2>1, <2>2
    <3>2. (e + k) % Pool = e
      BY <1>1, <3>1, Around
    <3> QED
      BY <2>2, <3>2
  <2>4. Failures(x)
    <3>1. x.offset <= LastOffset(x) /\ x.offset >= 1
      BY <2>1, <2>2 DEF LastOffset
    <3> QED
      BY <2>2, <2>3, <3>1 DEF Failures, Connected
  <2>5. Conversation(x)
    BY <2>2, NoConnFacts DEF Conversation, Connected
  <2> QED
    BY <1>1, <2>2, <2>4, <2>5 DEF Sound, Median
<1> QED
  BY <1>3, <1>4 DEF e, f, x

-----------------------------------------------------------------------------
(* The median of consecutive blocks is the time of the one in the middle. *)

LEMMA MedianIsMiddle ==
  ASSUME NEW a \in Height, NEW b \in Height, a <= b
  PROVE  LET mid == a + (b - a + 1) \div 2
         IN  mid \in a..b /\ MedianOf(a..b) = Time[mid] /\ Time[mid] \in Nat
<1> DEFINE S == a..b
           i == (b - a + 1) \div 2
           mid == a + i
           Below(v) == {h \in S : Time[h] < v}
           UpTo(v) == {h \in S : Time[h] <= v}
           IsMedian(v) == Cardinality(Below(v)) <= i /\ i < Cardinality(UpTo(v))
<1>1. /\ a \in Nat /\ b \in Nat /\ i \in Nat /\ i < b - a + 1 /\ mid \in Nat /\ mid \in S
      /\ S \subseteq Height /\ \A h \in Height : h \in Nat
  <2>1. a \in Nat /\ b \in Nat /\ a <= b /\ MaxHeight \in Nat /\ b <= MaxHeight
    BY Constants DEF Height
  <2> DEFINE d == b - a + 1
  <2>2. d \in Nat /\ d >= 1
    BY <2>1
  <2>3. d \div 2 \in Nat /\ d \div 2 < d
    <3> HIDE DEF d
    <3> QED
      BY <2>2
  <2>4. i \in Nat /\ i < b - a + 1
    BY <2>3
  <2> HIDE DEF i
  <2> QED
    BY <2>1, <2>4 DEF Height
<1>2. Cardinality(S) \div 2 = i
  <2>1. a \in Int /\ b \in Int /\ ~(a > b)
    BY <1>1
  <2>2. Cardinality(S) = b - a + 1
    BY <2>1, FS_Interval
  <2> QED
    BY <2>2
<1> HIDE DEF i
<1>3. \A h \in S : Time[h] \in Nat /\ \A j \in S : h <= j => Time[h] <= Time[j]
  BY <1>1, TimeAssumption
<1>4. \A m \in Nat : m >= a => /\ IsFiniteSet(a..m) /\ Cardinality(a..m) = m - a + 1
  <2> TAKE m \in Nat
  <2> HAVE m >= a
  <2>1. a \in Int /\ m \in Int /\ ~(a > m)
    BY <1>1
  <2> QED
    BY <2>1, FS_Interval
<1>5. IsFiniteSet(S) /\ \A T \in SUBSET S : IsFiniteSet(T) /\ Cardinality(T) \in Nat
  BY <1>1, <1>4, FS_Subset, FS_CardinalityType
<1>6. ASSUME NEW T \in SUBSET S, \A h \in T : h < mid PROVE Cardinality(T) <= i
  <2>1. CASE i = 0
    <3>1. T = {}
      BY <1>1, <1>6, <2>1
    <3> QED
      BY <2>1, <3>1, FS_EmptySet
  <2>2. CASE i > 0
    <3>1. mid - 1 \in Nat /\ mid - 1 >= a /\ T \subseteq a..(mid - 1)
      BY <1>1, <1>6, <2>2
    <3>2. IsFiniteSet(a..(mid - 1)) /\ Cardinality(a..(mid - 1)) = (mid - 1) - a + 1
      BY <1>4, <3>1
    <3>3. Cardinality(T) <= Cardinality(a..(mid - 1))
      BY <3>1, <3>2, FS_Subset
    <3> QED
      BY <1>1, <1>5, <3>2, <3>3
  <2> QED
    BY <1>1, <2>1, <2>2
<1>7. ASSUME NEW T \in SUBSET S, \A h \in S : h <= mid => h \in T PROVE i < Cardinality(T)
  <2>1. mid >= a /\ a..mid \subseteq T
    BY <1>1, <1>7
  <2>2. Cardinality(a..mid) = mid - a + 1
    BY <1>1, <1>4, <2>1
  <2>3. Cardinality(a..mid) <= Cardinality(T) /\ Cardinality(T) \in Nat
    BY <1>5, <2>1, FS_Subset
  <2> QED
    BY <1>1, <2>2, <2>3
<1>8. Below(Time[mid]) \in SUBSET S /\ UpTo(Time[mid]) \in SUBSET S
  OBVIOUS
<1>9. IsMedian(Time[mid])
  <2>1. \A h \in Below(Time[mid]) : h < mid
    BY <1>1, <1>3
  <2>2. \A h \in S : h <= mid => h \in UpTo(Time[mid])
    BY <1>1, <1>3
  <2> HIDE DEF Below, UpTo
  <2> QED
    BY <1>6, <1>7, <1>8, <2>1, <2>2
<1>10. ASSUME NEW v \in {Time[h] : h \in S}, IsMedian(v) PROVE v = Time[mid]
  <2>1. v \in Nat /\ Time[mid] \in Nat /\ Below(v) \in SUBSET S /\ UpTo(v) \in SUBSET S
    BY <1>1, <1>3
  <2>2. ~(v < Time[mid])
    <3> SUFFICES ASSUME v < Time[mid] PROVE FALSE
      OBVIOUS
    <3>1. \A h \in UpTo(v) : h < mid
      BY <1>1, <1>3, <2>1
    <3>2. Cardinality(UpTo(v)) <= i /\ Cardinality(UpTo(v)) \in Nat
      <4> HIDE DEF UpTo
      <4> QED
        BY <1>5, <1>6, <2>1, <3>1
    <3> QED
      BY <1>1, <1>10, <3>2
  <2>3. ~(Time[mid] < v)
    <3> SUFFICES ASSUME Time[mid] < v PROVE FALSE
      OBVIOUS
    <3>1. \A h \in S : h <= mid => h \in Below(v)
      BY <1>1, <1>3, <2>1
    <3>2. i < Cardinality(Below(v)) /\ Cardinality(Below(v)) \in Nat
      <4> HIDE DEF Below
      <4> QED
        BY <1>5, <1>7, <2>1, <3>1
    <3> QED
      BY <1>1, <1>10, <3>2
  <2> QED
    BY <2>1, <2>2, <2>3
<1>11. MedianOf(S) = CHOOSE v \in {Time[h] : h \in S} : IsMedian(v)
  BY <1>2 DEF MedianOf
<1> HIDE DEF IsMedian, S
<1>12. Time[mid] \in {Time[h] : h \in S}
  BY <1>1
<1>13. MedianOf(S) = Time[mid]
  BY <1>9, <1>10, <1>11, <1>12
<1> QED
  BY <1>1, <1>3, <1>13 DEF S, i

(* The middle of the blocks read is not past the middle of those up to the tip. *)
LEMMA MiddleInWindow ==
  ASSUME NEW height \in Height, NEW upto \in Height, upto <= height, Start(height) <= upto
  PROVE  LET v == MedianOf(Start(height)..upto)
         IN  /\ v \in Nat
             /\ v <= Time[(Start(height) + height + 1) \div 2]
             /\ v >= Time[Start(height)]
<1> DEFINE a == Start(height)
           mid == a + (upto - a + 1) \div 2
           top == (a + height + 1) \div 2
<1>1. a \in Height /\ a <= height /\ (a < height \/ height = 0) /\ a \in Nat
  BY Constants DEF Start, Height
<1> HIDE DEF a
<1>2. height \in Nat /\ upto \in Nat /\ MaxHeight \in Nat /\ height <= MaxHeight
  BY Constants DEF Height
<1>3. mid \in a..upto /\ MedianOf(a..upto) = Time[mid] /\ Time[mid] \in Nat
  BY <1>1, MedianIsMiddle DEF a
<1>4. mid = (a + upto + 1) \div 2
  <2>1. a + upto + 1 = 2 * a + (upto - a + 1)
    BY <1>1, <1>2
  <2>2. \A x \in Nat, y \in Nat : (2 * x + y) \div 2 = x + y \div 2
    OBVIOUS
  <2>3. upto - a + 1 \in Nat
    BY <1>1, <1>2 DEF a
  <2> QED
    BY <1>1, <2>1, <2>2, <2>3
<1>5. mid <= top /\ top \in Height
  <2>1. \A x, y \in Nat : x <= y => x \div 2 <= y \div 2 /\ y \div 2 \in Nat
    OBVIOUS
  <2>2. a + upto + 1 \in Nat /\ a + height + 1 \in Nat /\ a + upto + 1 <= a + height + 1
    BY <1>1, <1>2
  <2>3. mid <= top /\ top \in Nat
    BY <1>4, <2>1, <2>2
  <2>4. top <= height
    <3>1. CASE height = 0
      BY <1>1, <1>2, <3>1
    <3>2. CASE a < height
      <4>1. a + height + 1 <= 2 * height
        BY <1>1, <1>2, <3>2
      <4>2. (a + height + 1) \div 2 <= (2 * height) \div 2 /\ (2 * height) \div 2 = height
        BY <1>2, <2>1, <2>2, <4>1
      <4> QED
        BY <4>2
    <3> QED
      BY <1>1, <3>1, <3>2
  <2> QED
    BY <1>2, <2>3, <2>4 DEF Height
<1>6. mid \in Height /\ mid \in Nat /\ a <= mid
  BY <1>1, <1>2, <1>3 DEF Height
<1>7. Time[mid] <= Time[top] /\ Time[a] <= Time[mid]
  <2> HIDE DEF mid, top
  <2> QED
    BY <1>1, <1>5, <1>6, TimeAssumption
<1>8. Time[a] \in Nat
  BY <1>1, Constants
<1> QED
  BY <1>3, <1>7, <1>8 DEF a

-----------------------------------------------------------------------------
(* An answer, and the lines it comes in. *)

LEMMA NextCallIsSound ==
  ASSUME NEW r \in TaskState, r.pc = "wait", r.job \in Remaining, r.job # <<>>,
         r.conn.asked = <<>>, Pushes(r.conn.inbox), r.result = "none",
         r.mtp # 0 => Len(r.job) = 1 /\ InWindow(r)
  PROVE  Sound(NextCall(r))
<1> DEFINE f == [r EXCEPT !.resent = FALSE, !.failed = {}]
           x == [f EXCEPT !.pc = "send", !.job = Tail(@)]
<1>1. /\ f \in TaskState /\ f.resent = FALSE /\ f.failed = {} /\ f.pc = "wait" /\ f.job = r.job
      /\ f.conn = r.conn /\ f.mtp = r.mtp /\ f.height = r.height /\ f.result = "none"
  BY DEF TaskState
<1> HIDE DEF f
<1>2. CASE Len(r.job) = 1
  <2>1. f.mtp # 0 => InWindow(f)
    BY <1>1 DEF InWindow
  <2>2. Sound(Ended(f, "answered"))
    BY <1>1, <2>1, EndedIsSound DEF Results
  <2> QED
    BY <1>2, <2>2 DEF NextCall, f
<1>3. CASE Len(r.job) # 1
  <2>1. Tail(r.job) \in Remaining /\ Tail(r.job) # <<>> /\ Tail(r.job) \in Seq(Requests) /\ r.mtp = 0
    BY <1>3, JobFacts
  <2>2. /\ x \in TaskState /\ x.pc = "send" /\ x.job = Tail(r.job) /\ x.conn = r.conn
        /\ x.resent = FALSE /\ x.failed = {} /\ x.mtp = 0 /\ x.result = "none"
    BY <1>1, <2>1 DEF TaskState, Phases
  <2> HIDE DEF x
  <2>3. Conversation(x) /\ Failures(x) /\ Median(x)
    BY <2>2 DEF Conversation, Failures, Median, Connected
  <2>4. Sound(x)
    BY <2>1, <2>2, <2>3 DEF Sound
  <2> QED
    BY <1>3, <2>4 DEF NextCall, f, x
<1> QED
  BY <1>2, <1>3

(* The first line that is no push answers the request made last, and only pushes follow it. *)
LEMMA FirstAnswer ==
  ASSUME NEW r, Sound(r), r.pc = "wait", r.conn.inbox # <<>>, Head(r.conn.inbox).to # "push"
  PROVE  /\ r.conn.asked = <<>> /\ Pushes(Tail(r.conn.inbox))
         /\ Head(r.conn.inbox).to = Head(r.job)
         /\ Head(r.conn.inbox).to = "headers" => Head(r.conn.inbox).upto <= r.height
<1> DEFINE in == r.conn.inbox
<1>1. in \in Seq(Lines) /\ in # <<>>
  BY ConnFacts
<1>2. /\ Len(in) \in Nat /\ 1 \in 1..Len(in) /\ Head(in) = in[1] /\ Len(Tail(in)) = Len(in) - 1
      /\ \A i \in 1..Len(Tail(in)) : Tail(in)[i] = in[i + 1]
  BY <1>1, HeadTailProperties, EmptySeq
<1>3. ~Pushes(in)
  BY <1>2 DEF Pushes
<1>4. PICK k \in 1..Len(in) : r.conn.asked = <<>> /\ Answers(in, k, r)
  BY <1>3 DEF Sound, Conversation
<1> HIDE DEF in
<1>5. k = 1
  BY <1>2, <1>4 DEF Answers, in
<1>6. Pushes(Tail(in))
  <2> SUFFICES ASSUME NEW i \in 1..Len(Tail(in)) PROVE Tail(in)[i].to = "push"
    BY DEF Pushes
  <2>1. i + 1 \in 1..Len(in) /\ i + 1 # k /\ Tail(in)[i] = in[i + 1]
    BY <1>2, <1>5
  <2> QED
    BY <1>4, <2>1 DEF Answers
<1> QED
  BY <1>2, <1>4, <1>5, <1>6 DEF Answers, in

(* What is read of, or added to, the lines on their way. *)
LEMMA LinesOnTheirWay ==
  ASSUME NEW in \in Seq(Lines)
  PROVE  /\ \A line \in Lines : Append(in, line) \in Seq(Lines)
         /\ in # <<>> => Head(in) \in Lines /\ Tail(in) \in Seq(Lines)
         /\ \A line \in Lines : line.upto \in Height
<1>1. \A line \in Lines : Append(in, line) \in Seq(Lines)
  BY AppendProperties
<1>2. in # <<>> => Head(in) \in Lines /\ Tail(in) \in Seq(Lines)
  BY HeadTailProperties
<1>3. \A line \in Lines : line.upto \in Height
  BY DEF Lines
<1> QED
  BY <1>1, <1>2, <1>3

LEMMA ReceiveIsSound ==
  ASSUME NEW t \in Task, task \in [Task -> TaskState], Sound(task[t]), Receive(t)
  PROVE  \E x : Sound(x) /\ Go(t, x)
<1> DEFINE r == task[t]
           line == Head(r.conn.inbox)
           c == [r.conn EXCEPT !.inbox = Tail(@)]
           read == [r EXCEPT !.conn = c]
           blocks == Start(r.height)..line.upto
<1>1. /\ r \in TaskState /\ r.conn \in Conn /\ r.conn.inbox \in Seq(Lines) /\ r.conn.inbox # <<>>
      /\ r.pc = "wait" /\ r.job \in Remaining /\ r.job # <<>> /\ r.result = "none" /\ r.mtp = 0
  BY ConnFacts DEF Receive, At, Sound, Failures, Median
<1>2. line \in Lines /\ Tail(r.conn.inbox) \in Seq(Lines) /\ line.upto \in Height
  BY <1>1, LinesOnTheirWay
<1>3. c \in Conn /\ c.inbox = Tail(r.conn.inbox) /\ c.asked = r.conn.asked
  BY <1>1, <1>2 DEF Conn
<1>4. read = [r EXCEPT !.conn.inbox = Tail(@)]
  OBVIOUS
<1>5. \/ /\ line.to = "push" \/ line.error \/ (Head(r.job) = "headers" /\ blocks = {})
         /\ Go(t, Ended([read EXCEPT !.failed = {}], "error"))
      \/ /\ line.to # "push" /\ ~line.error
         /\ \/ Head(r.job) = "tip" /\ Go(t, NextCall([read EXCEPT !.height = line.upto]))
            \/ /\ Head(r.job) = "headers" /\ blocks # {}
               /\ Go(t, NextCall([read EXCEPT !.mtp = MedianOf(blocks)]))
            \/ Head(r.job) \notin {"tip", "headers"} /\ Go(t, NextCall(read))
  BY <1>4 DEF Receive
<1>6. ASSUME line.to # "push"
      PROVE  /\ c.asked = <<>> /\ Pushes(c.inbox)
             /\ Head(r.job) = "headers" => line.upto <= r.height
  BY <1>1, <1>3, <1>6, FirstAnswer
<1> HIDE DEF c
<1>7. /\ read \in TaskState /\ read.pc = "wait" /\ read.job = r.job /\ read.conn = c
      /\ read.result = "none" /\ read.mtp = 0 /\ read.height = r.height
  BY <1>1, <1>3 DEF TaskState
<1> HIDE DEF read
<1>8. CASE Go(t, Ended([read EXCEPT !.failed = {}], "error"))
  <2> DEFINE y == [read EXCEPT !.failed = {}]
  <2>1. y \in TaskState
    BY <1>7 DEF TaskState
  <2>2. Sound(Ended(y, "error"))
    <3> HIDE DEF y
    <3> QED
      BY <2>1, EndedIsSound DEF Results
  <2> QED
    BY <1>8, <2>2
<1>9. CASE line.to # "push" /\ Head(r.job) = "tip" /\ Go(t, NextCall([read EXCEPT !.height = line.upto]))
  <2> DEFINE y == [read EXCEPT !.height = line.upto]
  <2>1. /\ y \in TaskState /\ y.pc = "wait" /\ y.job = r.job /\ y.conn = c
        /\ y.result = "none" /\ y.mtp = 0
    BY <1>2, <1>7 DEF TaskState
  <2>2. Sound(NextCall(y))
    <3> HIDE DEF y
    <3> QED
      BY <1>1, <1>6, <1>9, <2>1, NextCallIsSound
  <2> QED
    BY <1>9, <2>2
<1>10. CASE /\ line.to # "push" /\ Head(r.job) = "headers" /\ blocks # {}
            /\ Go(t, NextCall([read EXCEPT !.mtp = MedianOf(blocks)]))
  <2> DEFINE v == MedianOf(blocks)
             y == [read EXCEPT !.mtp = v]
  <2>1. line.upto <= r.height /\ r.height \in Height /\ Start(r.height) <= line.upto
    <3>1. r.height \in Height
      BY <1>1 DEF TaskState
    <3>2. r.height \in Nat /\ line.upto \in Nat /\ Start(r.height) \in Nat
      BY <1>2, <3>1, Constants DEF Height, Start
    <3> QED
      BY <1>6, <1>10, <3>1, <3>2
  <2>2. /\ v \in Nat
        /\ v <= Time[(Start(r.height) + r.height + 1) \div 2] /\ v >= Time[Start(r.height)]
    BY <1>2, <2>1, MiddleInWindow
  <2> HIDE DEF v
  <2>3. /\ y \in TaskState /\ y.pc = "wait" /\ y.job = r.job /\ y.conn = c
        /\ y.result = "none" /\ y.mtp = v /\ y.height = r.height
    BY <1>7, <2>2 DEF TaskState
  <2> HIDE DEF y
  <2>4. InWindow(y) /\ Len(y.job) = 1
    BY <1>1, <1>10, <2>2, <2>3, JobFacts DEF InWindow
  <2>5. Sound(NextCall(y))
    BY <1>1, <1>6, <1>10, <2>3, <2>4, NextCallIsSound
  <2> QED
    BY <1>10, <2>5 DEF y, v
<1>11. CASE line.to # "push" /\ Go(t, NextCall(read))
  <2>1. Sound(NextCall(read))
    BY <1>1, <1>6, <1>7, <1>11, NextCallIsSound
  <2> QED
    BY <1>11, <2>1
<1> QED
  BY <1>5, <1>8, <1>9, <1>10, <1>11

LEMMA ServeIsSound ==
  ASSUME NEW r, Sound(r), r.conn.open, r.conn.asked # <<>>, NEW line \in Lines,
         line.to = Head(r.conn.asked), line.to = "headers" => line.upto <= r.height,
         NEW subscribed \in BOOLEAN
  PROVE  Sound([r EXCEPT !.conn.asked = Tail(@), !.conn.inbox = Append(@, line),
                         !.conn.subscribed = subscribed])
<1> DEFINE c == [r.conn EXCEPT !.asked = Tail(@), !.inbox = Append(@, line), !.subscribed = subscribed]
           x == [r EXCEPT !.conn = c]
           in == r.conn.inbox
           n == Len(in) + 1
<1>1. /\ r \in TaskState /\ r.conn \in Conn /\ in \in Seq(Lines) /\ r.conn.asked \in Seq(Requests)
  BY ConnFacts
<1>2. r.pc = "wait" /\ r.conn.asked = <<Head(r.job)>> /\ Pushes(in)
  BY DEF Sound, Conversation, Connected, Untouched
<1>3. Tail(r.conn.asked) = <<>> /\ Head(r.conn.asked) = Head(r.job) /\ <<>> \in Seq(Requests)
  BY <1>2
<1>4. /\ c \in Conn /\ c.asked = <<>> /\ c.inbox = Append(in, line) /\ c.ep = r.conn.ep
  <2>1. Append(in, line) \in Seq(Lines)
    BY <1>1, LinesOnTheirWay
  <2> QED
    BY <1>1, <1>3, <2>1 DEF Conn
<1>5. /\ Len(in) \in Nat /\ Len(c.inbox) = n /\ c.inbox[n] = line
      /\ \A i \in 1..Len(in) : c.inbox[i] = in[i]
  BY <1>1, <1>4, AppendProperties, LenProperties
<1>6. [r EXCEPT !.conn.asked = Tail(@), !.conn.inbox = Append(@, line), !.conn.subscribed = subscribed] = x
  OBVIOUS
<1> HIDE DEF c, in
<1>7. /\ x.pc = "wait" /\ x.conn = c /\ x.job = r.job /\ x.height = r.height
  BY <1>1, <1>2, <1>4 DEF TaskState
<1>8. Conversation(x)
  <2> HIDE DEF x
  <2>1. n \in 1..Len(c.inbox)
    BY <1>5
  <2>2. \A i \in 1..Len(c.inbox) : i # n => c.inbox[i].to = "push"
    <3> TAKE i \in 1..Len(c.inbox)
    <3> HAVE i # n
    <3>1. i \in 1..Len(in)
      BY <1>5
    <3> QED
      BY <1>2, <1>5, <3>1 DEF Pushes
  <2>3. Answers(c.inbox, n, x)
    BY <1>3, <1>5, <1>7, <2>2 DEF Answers
  <2> QED
    BY <1>4, <1>7, <2>1, <2>3 DEF Conversation, Connected
<1> QED
  BY <1>4, <1>6, <1>8, TalkIsSound

(* News of a block comes only to those that asked for the tip on this connection. *)
LEMMA PushIsSound ==
  ASSUME NEW r, Sound(r), r.conn.open, r.conn.subscribed, NEW line \in Lines, line.to = "push"
  PROVE  Sound([r EXCEPT !.conn.inbox = Append(@, line)])
<1> DEFINE c == [r.conn EXCEPT !.inbox = Append(@, line)]
           x == [r EXCEPT !.conn = c]
           in == r.conn.inbox
           n == Len(in) + 1
<1>1. r \in TaskState /\ r.conn \in Conn /\ in \in Seq(Lines)
  BY ConnFacts
<1>2. r.pc \in {"send", "wait"}
  BY DEF Sound, Conversation, Connected, Untouched
<1>3. /\ c \in Conn /\ c.asked = r.conn.asked /\ c.inbox = Append(in, line) /\ c.ep = r.conn.ep
  <2>1. Append(in, line) \in Seq(Lines)
    BY <1>1, LinesOnTheirWay
  <2> QED
    BY <1>1, <2>1 DEF Conn
<1>4. /\ Len(in) \in Nat /\ Len(c.inbox) = n /\ c.inbox[n] = line
      /\ \A i \in 1..Len(in) : c.inbox[i] = in[i]
  BY <1>1, <1>3, AppendProperties, LenProperties
<1>5. [r EXCEPT !.conn.inbox = Append(@, line)] = x
  OBVIOUS
<1>6. Conversation(r)
  BY DEF Sound
<1> HIDE DEF c, in
<1>7. /\ x.pc = r.pc /\ x.conn = c /\ x.job = r.job /\ x.height = r.height
  BY <1>1, <1>3 DEF TaskState
<1> HIDE DEF x
<1>8. Pushes(in) => Pushes(c.inbox)
  <2> SUFFICES ASSUME Pushes(in), NEW i \in 1..Len(c.inbox) PROVE c.inbox[i].to = "push"
    BY DEF Pushes
  <2>1. i = n \/ i \in 1..Len(in)
    BY <1>4
  <2> QED
    BY <1>4, <2>1 DEF Pushes
<1>9. ASSUME NEW k \in 1..Len(in), Answers(in, k, r)
      PROVE  k \in 1..Len(c.inbox) /\ Answers(c.inbox, k, x)
  <2>1. k \in 1..Len(c.inbox) /\ c.inbox[k] = in[k]
    BY <1>4
  <2>2. \A i \in 1..Len(c.inbox) : i # k => c.inbox[i].to = "push"
    <3> TAKE i \in 1..Len(c.inbox)
    <3> HAVE i # k
    <3>1. i = n \/ i \in 1..Len(in)
      BY <1>4
    <3> QED
      BY <1>4, <1>9, <3>1 DEF Answers
  <2> QED
    BY <1>7, <1>9, <2>1, <2>2 DEF Answers
<1>10. Conversation(x)
  <2>1. CASE r.pc = "send"
    BY <1>3, <1>6, <1>7, <1>8, <2>1 DEF Conversation, Connected, in
  <2>2. CASE r.pc = "wait"
    <3>1. \/ r.conn.asked = <<Head(r.job)>> /\ Pushes(in)
          \/ r.conn.asked = <<>> /\ \E k \in 1..Len(in) : Answers(in, k, r)
      BY <1>6, <2>2 DEF Conversation, in
    <3> QED
      BY <1>3, <1>7, <1>8, <1>9, <2>2, <3>1 DEF Conversation, Connected
  <2> QED
    BY <1>2, <2>1, <2>2
<1> QED
  BY <1>3, <1>5, <1>10, TalkIsSound DEF x

LEMMA DropIsSound ==
  ASSUME NEW r, Sound(r)
  PROVE  Sound([r EXCEPT !.conn.open = FALSE])
<1> DEFINE c == [r.conn EXCEPT !.open = FALSE]
           x == [r EXCEPT !.conn = c]
<1>1. r \in TaskState /\ r.conn \in Conn
  BY ConnFacts
<1>2. /\ c \in Conn /\ c.asked = r.conn.asked /\ c.inbox = r.conn.inbox /\ c.ep = r.conn.ep
      /\ c.subscribed = r.conn.subscribed /\ c.open = FALSE
  BY <1>1 DEF Conn
<1>3. [r EXCEPT !.conn.open = FALSE] = x
  OBVIOUS
<1> HIDE DEF c
<1>4. /\ x.pc = r.pc /\ x.conn = c /\ x.job = r.job /\ x.height = r.height
  BY <1>1, <1>2 DEF TaskState
<1> HIDE DEF x
<1>5. Conversation(x)
  BY <1>2, <1>4 DEF Sound, Conversation, Connected, Untouched, Answers
<1> QED
  BY <1>2, <1>3, <1>5, TalkIsSound DEF x

-----------------------------------------------------------------------------
(* What every task and server do keeps every task sound. *)

Shared ==
    /\ preferred \in Endpoint
    /\ health \in [Endpoint -> Health] /\ tip \in [Endpoint -> Height]
    /\ changes \in 0..MaxChanges
    /\ paid \in [Endpoint -> 0..(Cardinality(Task) + 1)]

AllSound == task \in [Task -> TaskState] /\ \A t \in Task : Sound(task[t])

SoundInv == Shared /\ AllSound

LEMMA GoIsSound ==
  ASSUME AllSound, NEW t \in Task, NEW x, Sound(x), Go(t, x)
  PROVE  AllSound'
<1>1. x \in TaskState
  BY DEF Sound
<1>2. task' \in [Task -> TaskState] /\ \A u \in Task : task'[u] = IF u = t THEN x ELSE task[u]
  BY <1>1 DEF AllSound, Go
<1> QED
  BY <1>2 DEF AllSound

LEMMA SoundAtFirst == Init => SoundInv
<1> SUFFICES ASSUME Init PROVE SoundInv
  OBVIOUS
<1>1. Shared
  <2>1. (MaxHeight - MaxLag)..MaxHeight \subseteq Height
    BY Constants DEF Height
  <2>2. 0 \in 0..(Cardinality(Task) + 1) /\ 0 \in 0..MaxChanges
    BY Constants, FS_CardinalityType
  <2>3. tip \in [Endpoint -> Height]
    BY <2>1 DEF Init
  <2> QED
    BY <2>2, <2>3, Zero DEF Init, Shared
<1>2. AllSound
  BY IdleFacts, IdleIsSound DEF Init, AllSound
<1> QED
  BY <1>1, <1>2 DEF SoundInv

LEMMA SoundAfterDials ==
  ASSUME SoundInv, NEW t \in Task,
         \/ \E job \in Jobs : Connect(t, job)
         \/ Dial(t) \/ DialRefused(t) \/ Remember(t)
  PROVE  SoundInv'
<1> USE DEF SoundInv
<1>1. Sound(task[t])
  BY DEF AllSound
<1>2. ASSUME NEW job \in Jobs, Connect(t, job) PROVE SoundInv'
  <2>1. Sound([Idle EXCEPT !.pc = "dial", !.job = job, !.base = preferred])
    BY ConnectIsSound DEF Shared
  <2>2. AllSound'
    BY <1>2, <2>1, GoIsSound DEF Connect
  <2> QED
    BY <1>2, <2>2 DEF Connect, Shared
<1>3. CASE Dial(t)
  <2>1. Sound([task[t] EXCEPT !.pc = "remember", !.conn = Stream(Dialled(task[t]))])
    BY <1>1, <1>3, DialIsSound DEF Dial, At
  <2>2. AllSound'
    BY <1>3, <2>1, GoIsSound DEF Dial
  <2> QED
    BY <1>3, <2>2 DEF Dial, Shared
<1>4. CASE DialRefused(t)
  <2> DEFINE r == task[t]
             e == Dialled(r)
             f == [r EXCEPT !.failed = @ \cup {e}]
             x == IF r.offset < LastOffset(r) THEN [f EXCEPT !.offset = @ + 1] ELSE Ended(f, "all down")
  <2>1. Sound(x)
    BY <1>1, <1>4, RefusedIsSound DEF DialRefused, At
  <2>2. /\ Go(t, x) /\ UNCHANGED <<preferred, health, tip, changes>>
        /\ paid' = [paid EXCEPT ![e] = IF @ > Cardinality(Task) THEN @ ELSE @ + 1]
    BY <1>4 DEF DialRefused
  <2> HIDE DEF x, e
  <2>3. AllSound'
    BY <2>1, <2>2, GoIsSound
  <2>4. paid' \in [Endpoint -> 0..(Cardinality(Task) + 1)]
    <3>1. Cardinality(Task) \in Nat
      BY Constants, FS_CardinalityType
    <3>2. \A k \in 0..(Cardinality(Task) + 1) :
             (IF k > Cardinality(Task) THEN k ELSE k + 1) \in 0..(Cardinality(Task) + 1)
      BY <3>1
    <3> QED
      BY <2>2, <3>2 DEF Shared
  <2> QED
    BY <2>2, <2>3, <2>4 DEF Shared
<1>5. CASE Remember(t)
  <2>1. Sound([task[t] EXCEPT !.pc = "send", !.base = 0, !.offset = 0])
    BY <1>1, <1>5, RememberIsSound DEF Remember, At
  <2>2. AllSound'
    BY <1>5, <2>1, GoIsSound DEF Remember
  <2>3. preferred' \in Endpoint
    BY <1>1, <1>5, ConnFacts DEF Remember, Store
  <2> QED
    BY <1>5, <2>2, <2>3 DEF Remember, Shared
<1> QED
  BY <1>2, <1>3, <1>4, <1>5

LEMMA SoundAfterCalls ==
  ASSUME SoundInv, NEW t \in Task, Send(t) \/ NoAnswer(t) \/ Receive(t) \/ Serve(t)
  PROVE  SoundInv'
<1> USE DEF SoundInv
<1>1. Sound(task[t]) /\ task \in [Task -> TaskState]
  BY DEF AllSound
<1>2. CASE Send(t)
  <2>1. Sound([task[t] EXCEPT !.pc = "wait", !.conn.asked = Append(@, Head(task[t].job))])
    BY <1>1, <1>2, SendIsSound DEF Send, At
  <2>2. AllSound'
    BY <1>2, <2>1, GoIsSound DEF Send
  <2> QED
    BY <1>2, <2>2 DEF Send, Shared
<1>3. CASE NoAnswer(t)
  <2> DEFINE r == task[t]
             f == [r EXCEPT !.failed = @ \cup {r.conn.ep}]
             x == IF r.resent THEN Ended(f, "lost") ELSE FailOver(f)
  <2>1. Connected(r)
    BY <1>3 DEF NoAnswer, At, Connected
  <2>2. Sound(x)
    BY <1>1, <2>1, LostIsSound
  <2>3. Go(t, x) /\ UNCHANGED <<preferred, health, tip, changes, paid>>
    BY <1>3 DEF NoAnswer, ConnectionError
  <2> HIDE DEF x
  <2>4. AllSound'
    BY <2>2, <2>3, GoIsSound
  <2> QED
    BY <2>3, <2>4 DEF Shared
<1>4. CASE Receive(t)
  <2>1. PICK x : Sound(x) /\ Go(t, x)
    BY <1>1, <1>4, ReceiveIsSound
  <2>2. AllSound'
    BY <2>1, GoIsSound
  <2> QED
    BY <1>4, <2>2 DEF Receive, Shared
<1>5. CASE Serve(t)
  <2> DEFINE r == task[t]
             q == Head(r.conn.asked)
             upto == IF q = "headers" /\ r.height < tip[r.conn.ep] THEN r.height ELSE tip[r.conn.ep]
  <2>1. PICK error \in BOOLEAN :
           Go(t, [r EXCEPT !.conn.asked = Tail(@),
                           !.conn.inbox = Append(@, Line(q, upto, error)),
                           !.conn.subscribed = @ \/ (q = "tip" /\ ~error)])
    BY <1>5 DEF Serve
  <2> DEFINE line == Line(q, upto, error)
             told == r.conn.subscribed \/ (q = "tip" /\ ~error)
             x == [r EXCEPT !.conn.asked = Tail(@), !.conn.inbox = Append(@, line),
                            !.conn.subscribed = told]
  <2>2. Go(t, x)
    BY <2>1
  <2>3. /\ r.conn.open /\ r.conn.asked # <<>> /\ UNCHANGED <<preferred, health, tip, changes, paid>>
    BY <1>5 DEF Serve
  <2>4. q \in Requests
    BY <1>1, <2>3, ConnFacts, HeadTailProperties
  <2>5. upto \in Height /\ (q = "headers" => upto <= r.height)
    <3>1. r.height \in Height /\ tip[r.conn.ep] \in Height
      BY <1>1, ConnFacts DEF Shared, TaskState
    <3>2. r.height \in Nat /\ tip[r.conn.ep] \in Nat
      BY <3>1, Constants DEF Height
    <3> QED
      BY <3>1, <3>2
  <2> HIDE DEF upto, q
  <2>6. line \in Lines /\ line.to = q /\ line.upto = upto
    BY <2>4, <2>5 DEF Line, Lines
  <2>7. told \in BOOLEAN
    OBVIOUS
  <2> HIDE DEF line, told
  <2>8. Sound(x)
    BY <1>1, <2>3, <2>5, <2>6, <2>7, ServeIsSound DEF q
  <2> HIDE DEF x
  <2>9. AllSound'
    BY <2>2, <2>8, GoIsSound
  <2> QED
    BY <2>3, <2>9 DEF Shared
<1> QED
  BY <1>2, <1>3, <1>4, <1>5

LEMMA SoundAfterServers ==
  ASSUME SoundInv, NEW e \in Endpoint, NewBlock(e) \/ (\E h \in Health : Change(e, h))
  PROVE  SoundInv'
<1> USE DEF SoundInv
<1>1. CASE NewBlock(e)
  <2>1. tip' \in [Endpoint -> Height] /\ tip'[e] \in Height
    <3>1. tip[e] \in 0..MaxHeight /\ tip[e] < MaxHeight /\ MaxHeight \in Nat
      BY <1>1, Constants DEF Shared, NewBlock, Height
    <3>2. tip[e] + 1 \in Height
      BY <3>1 DEF Height
    <3> QED
      BY <1>1, <3>2 DEF Shared, NewBlock
  <2> DEFINE line == Line("push", tip'[e], FALSE)
             Told(t) == task[t].conn.open /\ task[t].conn.ep = e /\ task[t].conn.subscribed /\ health[e] = "up"
             x(t) == [task[t] EXCEPT !.conn.inbox = Append(@, line)]
  <2>2. line \in Lines /\ line.to = "push"
    BY <2>1 DEF Line, Lines
  <2>3. task' = [t \in Task |-> IF Told(t) THEN x(t) ELSE task[t]]
    BY <1>1 DEF NewBlock
  <2>4. \A t \in Task : Told(t) => Sound(x(t))
    <3> TAKE t \in Task
    <3> HAVE Told(t)
    <3>1. Sound(task[t]) /\ task[t].conn.open /\ task[t].conn.subscribed
      BY DEF AllSound
    <3> HIDE DEF line
    <3> QED
      BY <2>2, <3>1, PushIsSound
  <2> HIDE DEF line, Told, x
  <2>5. AllSound'
    <3>1. \A t \in Task : Sound(IF Told(t) THEN x(t) ELSE task[t])
      BY <2>4 DEF AllSound
    <3> QED
      BY <2>3, <3>1 DEF AllSound, Sound
  <2> QED
    BY <1>1, <2>1, <2>5 DEF Shared, NewBlock
<1>2. ASSUME NEW h \in Health, Change(e, h) PROVE SoundInv'
  <2> DEFINE Dropped(t) == h = "down" /\ task[t].conn.ep = e
             x(t) == [task[t] EXCEPT !.conn.open = FALSE]
  <2>1. task' = [t \in Task |-> IF Dropped(t) THEN x(t) ELSE task[t]]
    BY <1>2 DEF Change
  <2>2. \A t \in Task : Sound(x(t))
    BY DropIsSound DEF AllSound
  <2> HIDE DEF Dropped, x
  <2>3. AllSound'
    <3>1. \A t \in Task : Sound(IF Dropped(t) THEN x(t) ELSE task[t])
      BY <2>2 DEF AllSound
    <3> QED
      BY <2>1, <3>1 DEF AllSound, Sound
  <2>4. changes' \in 0..MaxChanges /\ health' \in [Endpoint -> Health]
    BY <1>2, Constants DEF Change, Shared
  <2>5. paid' \in [Endpoint -> 0..(Cardinality(Task) + 1)]
    <3>1. 0 \in 0..(Cardinality(Task) + 1)
      BY Constants, FS_CardinalityType
    <3> QED
      BY <1>2, <3>1 DEF Change
  <2> QED
    BY <1>2, <2>3, <2>4, <2>5 DEF Shared, Change
<1> QED
  BY <1>1, <1>2

LEMMA SoundStep == SoundInv /\ [Next]_vars => SoundInv'
<1> SUFFICES ASSUME SoundInv, [Next]_vars PROVE SoundInv'
  OBVIOUS
<1>1. ASSUME NEW t \in Task,
             \/ \E job \in Jobs : Connect(t, job)
             \/ Dial(t) \/ DialRefused(t) \/ Remember(t) \/ Send(t) \/ NoAnswer(t) \/ Receive(t) \/ Serve(t)
      PROVE  SoundInv'
  BY <1>1, SoundAfterDials, SoundAfterCalls
<1>2. ASSUME NEW e \in Endpoint, NewBlock(e) \/ (\E h \in Health : Change(e, h)) PROVE SoundInv'
  BY <1>2, SoundAfterServers
<1>3. CASE UNCHANGED vars
  BY <1>3 DEF vars, SoundInv, Shared, AllSound
<1> QED
  BY <1>1, <1>2, <1>3 DEF Next

LEMMA AlwaysSound == Spec => []SoundInv
  BY SoundAtFirst, SoundStep, PTL DEF Spec

(* Every variable has its type: the index stays within the pool, and an idle client has no job.   *)
THEOREM TypeCorrect == Spec => []TypeOK
<1>1. SoundInv => TypeOK
  BY ConnFacts DEF SoundInv, Shared, AllSound, TypeOK, At, Sound, TaskState, Phases, Results
<1> QED
  BY <1>1, AlwaysSound, PTL

(* A call gives up only after two different endpoints have failed it, or the only one of the pool; *)
(* a dial loop only after all have (connect_pool, call).                                          *)
THEOREM FailoverIsTransparent == Spec => []Transparent
<1>1. SoundInv => Transparent
  BY DEF SoundInv, AllSound, Transparent, Sound, Failures
<1> QED
  BY <1>1, AlwaysSound, PTL

(* A line is taken for the answer without comparing ids, and is the answer or a push (send_recv). *)
THEOREM NoStrayAnswer == Spec => []AnswersMatch
<1>1. SoundInv => AnswersMatch
  <2> SUFFICES ASSUME SoundInv, NEW t \in Task, At(t, "wait"), task[t].conn.inbox # <<>>
               PROVE  Head(task[t].conn.inbox).to \in {"push", Head(task[t].job)}
    BY DEF AnswersMatch
  <2> QED
    BY FirstAnswer DEF SoundInv, AllSound, At
<1> QED
  BY <1>1, AlwaysSound, PTL

(* Median-time-past lies in the window of the tip it was read for (median_time_past). *)
THEOREM MtpIsFinal == Spec => []MtpInWindow
<1>1. SoundInv => MtpInWindow
  BY DEF SoundInv, AllSound, MtpInWindow, Sound, Median, InWindow
<1> QED
  BY <1>1, AlwaysSound, PTL

-----------------------------------------------------------------------------
(* While no server has changed and none is mute, and one is up: what a refused dial costs.        *)

Calm ==
    changes = 0 /\ "mute" \notin {health[e] : e \in Endpoint} /\ (\E e \in Endpoint : health[e] = "up")

(* No call is made again; a dial loop passes only endpoints that are down; a client is connected   *)
(* to one that is up, and once it may ask, so is the endpoint of the index.                       *)
Steady(r) ==
    /\ ~r.resent
    /\ r.pc = "dial" => \A k \in 0..(r.offset - 1) : health[(r.base + k) % Pool] = "down"
    /\ Connected(r) => r.conn.open /\ health[r.conn.ep] = "up"
    /\ r.pc \in {"send", "wait"} => health[preferred] = "up"

(* A dial loop comes to e: all endpoints it dials before it, and e, refuse. *)
Reaches(r, e) ==
    \E j \in r.offset..(Pool - 1) :
        /\ (r.base + j) % Pool = e
        /\ \A i \in r.offset..j : health[(r.base + i) % Pool] = "down"

(* A task may yet dial e in vain: its loop comes to e; or it is idle and the index is of no use.   *)
MayPay(r, e) ==
    \/ r.pc = "idle" /\ health[preferred] = "down"
    \/ r.pc = "dial" /\ Reaches(r, e)

Spared(e) == {t \in Task : ~MayPay(task[t], e)}

(* What was paid for e was paid by tasks that will not pay again. *)
PaidByOthers == \A e \in Endpoint : paid[e] <= Cardinality(Spared(e))

CalmInv == Calm => (\A t \in Task : Steady(task[t])) /\ PaidByOthers

LEMMA SomeTasks ==
  /\ Cardinality(Task) \in Nat
  /\ \A S \in SUBSET Task : /\ IsFiniteSet(S) /\ Cardinality(S) \in Nat
                            /\ Cardinality(S) <= Cardinality(Task)
                            /\ \A R \in SUBSET S : Cardinality(R) <= Cardinality(S)
  BY Constants, FS_Subset, FS_CardinalityType

(* A step that changes one task, and after which no more tasks may pay. *)
LEMMA CalmGo ==
  ASSUME AllSound, \A u \in Task : Steady(task[u]), PaidByOthers,
         Shared, NEW t \in Task, NEW x, Go(t, x),
         UNCHANGED <<health, preferred, paid>>,
         Steady(x), \A e \in Endpoint : MayPay(x, e) => MayPay(task[t], e)
  PROVE  (\A u \in Task : Steady(task[u])') /\ PaidByOthers'
<1>1. \A u \in Task : task'[u] = IF u = t THEN x ELSE task[u]
  BY DEF AllSound, Go
<1>2. ASSUME NEW u \in Task PROVE Steady(task[u])'
  <2>1. Steady(task'[u])
    BY <1>1
  <2> QED
    BY <2>1 DEF Steady, Connected
<1>3. ASSUME NEW e \in Endpoint PROVE (paid[e] <= Cardinality(Spared(e)))'
  <2>1. \A u \in Task : MayPay(task[u], e)' <=> MayPay(task'[u], e)
    BY DEF MayPay, Reaches
  <2>2. Spared(e) \subseteq Spared(e)'
    <3> SUFFICES ASSUME NEW u \in Task, ~MayPay(task[u], e) PROVE ~MayPay(task'[u], e)
      BY <2>1 DEF Spared
    <3> QED
      BY <1>1
  <2>3. Spared(e)' \in SUBSET Task
    BY DEF Spared
  <2>4. Cardinality(Spared(e)) <= Cardinality(Spared(e)') /\ Cardinality(Spared(e)) \in Nat
        /\ Cardinality(Spared(e)') \in Nat
    BY <2>2, <2>3, SomeTasks
  <2>5. paid[e] \in Int
    BY SomeTasks DEF Shared
  <2> QED
    BY <2>4, <2>5 DEF PaidByOthers
<1> QED
  BY <1>2, <1>3 DEF PaidByOthers

(* A task that is neither idle nor dialling pays nothing for now, and at the start of its job and  *)
(* at its end the index it would dial first is the one in memory.                                 *)
LEMMA CalmAfterDials ==
  ASSUME SoundInv, Calm, \A u \in Task : Steady(task[u]), PaidByOthers, NEW t \in Task,
         \/ \E job \in Jobs : Connect(t, job)
         \/ Dial(t) \/ Remember(t)
  PROVE  (\A u \in Task : Steady(task[u])') /\ PaidByOthers'
<1>1. Sound(task[t]) /\ Steady(task[t]) /\ Shared /\ AllSound /\ preferred \in Endpoint
  BY DEF SoundInv, AllSound, Shared
<1>2. ASSUME NEW job \in Jobs, Connect(t, job)
      PROVE  (\A u \in Task : Steady(task[u])') /\ PaidByOthers'
  <2> DEFINE x == [Idle EXCEPT !.pc = "dial", !.job = job, !.base = preferred]
  <2>1. /\ x.pc = "dial" /\ x.base = preferred /\ x.offset = 0 /\ x.resent = FALSE
    BY IdleFacts DEF TaskState
  <2>2. Go(t, x) /\ UNCHANGED <<health, preferred, paid>> /\ task[t].pc = "idle"
    BY <1>2 DEF Connect, At
  <2> HIDE DEF x
  <2>3. Steady(x)
    BY <2>1 DEF Steady, Connected
  <2>4. ASSUME NEW e \in Endpoint, MayPay(x, e) PROVE MayPay(task[t], e)
    <3>1. PICK j \in 0..(Pool - 1) : \A i \in 0..j : health[(preferred + i) % Pool] = "down"
      BY <2>1, <2>4 DEF MayPay, Reaches
    <3>2. 0 \in 0..j /\ 0 \in 0..Pool
      BY Constants
    <3>3. (preferred + 0) % Pool = preferred
      BY <1>1, <3>2, Around
    <3> QED
      BY <2>2, <3>1, <3>2, <3>3 DEF MayPay
  <2> QED
    BY <1>1, <2>2, <2>3, <2>4, CalmGo
<1>3. CASE Dial(t)
  <2> DEFINE r == task[t]
             e == Dialled(r)
             x == [r EXCEPT !.pc = "remember", !.conn = Stream(e)]
  <2>1. r \in TaskState /\ r.pc = "dial" /\ Go(t, x) /\ UNCHANGED <<health, preferred, paid>>
        /\ health[e] # "down"
    BY <1>1, <1>3, ConnFacts DEF Dial, At
  <2>2. e \in Endpoint /\ health[e] = "up"
    <3>1. r.base \in Endpoint /\ r.offset \in 0..Pool
      BY <2>1 DEF TaskState
    <3>2. e \in Endpoint
      BY <3>1, Around DEF Dialled
    <3> QED
      BY <1>1, <2>1, <3>2 DEF Calm, Shared, Health
  <2> HIDE DEF e
  <2>3. Stream(e).ep = e /\ Stream(e).open = TRUE
    BY DEF Stream, NoConn
  <2>4. x.pc = "remember" /\ x.conn = Stream(e) /\ x.resent = r.resent
    BY <2>1 DEF TaskState
  <2> HIDE DEF x
  <2>5. Steady(x)
    BY <1>1, <2>2, <2>3, <2>4 DEF Steady
  <2>6. \A f \in Endpoint : MayPay(x, f) => MayPay(task[t], f)
    BY <2>4 DEF MayPay
  <2> QED
    BY <1>1, <2>1, <2>5, <2>6, CalmGo
<1>4. CASE Remember(t)
  <2> DEFINE r == task[t]
             x == [r EXCEPT !.pc = "send", !.base = 0, !.offset = 0]
  <2>1. /\ r \in TaskState /\ r.pc = "remember" /\ Go(t, x) /\ UNCHANGED <<health, paid>>
        /\ preferred' = r.conn.ep /\ health[r.conn.ep] = "up"
    BY <1>1, <1>4, ConnFacts DEF Remember, At, Store, Steady, Connected
  <2>2. x.pc = "send" /\ x.conn = r.conn /\ x.resent = r.resent
    BY <2>1 DEF TaskState
  <2> HIDE DEF x
  <2>3. \A u \in Task : task'[u] = IF u = t THEN x ELSE task[u]
    BY <1>1, <2>1 DEF AllSound, Go
  <2>4. ASSUME NEW u \in Task PROVE Steady(task[u])'
    <3>1. CASE u = t
      BY <1>1, <2>1, <2>2, <2>3, <3>1 DEF Steady, Connected
    <3>2. CASE u # t
      <4>1. Steady(task[u]) /\ task'[u] = task[u]
        BY <2>3, <3>2
      <4> QED
        BY <2>1, <4>1 DEF Steady, Connected
    <3> QED
      BY <3>1, <3>2
  <2>5. ASSUME NEW e \in Endpoint PROVE (paid[e] <= Cardinality(Spared(e)))'
    <3>1. Spared(e) \subseteq Spared(e)'
      <4> SUFFICES ASSUME NEW u \in Task, ~MayPay(task[u], e), MayPay(task[u], e)' PROVE FALSE
        BY DEF Spared
      <4>1. CASE u = t
        BY <2>2, <2>3, <4>1 DEF MayPay
      <4>2. CASE u # t
        BY <2>1, <2>3, <4>2 DEF MayPay, Reaches
      <4> QED
        BY <4>1, <4>2
    <3>2. Spared(e)' \in SUBSET Task
      BY DEF Spared
    <3>3. /\ Cardinality(Spared(e)) <= Cardinality(Spared(e)') /\ Cardinality(Spared(e)) \in Nat
          /\ Cardinality(Spared(e)') \in Nat
      BY <3>1, <3>2, SomeTasks
    <3>4. paid[e] \in Int
      BY <1>1, SomeTasks DEF Shared
    <3> QED
      BY <2>1, <3>3, <3>4 DEF PaidByOthers
  <2> QED
    BY <2>4, <2>5 DEF PaidByOthers
<1> QED
  BY <1>2, <1>3, <1>4

(* The endpoint that refuses is paid for by a task that, of all endpoints, will not come to this   *)
(* one again: within one round no endpoint comes twice.                                           *)
LEMMA CalmAfterRefusal ==
  ASSUME SoundInv, Calm, \A u \in Task : Steady(task[u]), PaidByOthers,
         NEW t \in Task, DialRefused(t)
  PROVE  (\A u \in Task : Steady(task[u])') /\ PaidByOthers'
<1> DEFINE r == task[t]
           e == Dialled(r)
           f == [r EXCEPT !.failed = @ \cup {e}]
           x == [f EXCEPT !.offset = @ + 1]
<1>1. /\ Sound(r) /\ Steady(r) /\ Shared /\ AllSound
      /\ r \in TaskState /\ r.pc = "dial" /\ r.base \in Endpoint /\ r.offset \in 0..Pool
      /\ health[e] = "down" /\ UNCHANGED <<health, preferred>>
      /\ paid' = [paid EXCEPT ![e] = IF @ > Cardinality(Task) THEN @ ELSE @ + 1]
  <2>1. Sound(r) /\ Steady(r) /\ Shared /\ AllSound
    BY DEF SoundInv, AllSound
  <2>2. r \in TaskState /\ r.base \in Endpoint /\ r.offset \in 0..Pool
    BY <2>1, ConnFacts DEF TaskState
  <2> QED
    BY <2>1, <2>2 DEF DialRefused, At
<1>2. Pool \in Nat /\ Pool > 0 /\ r.offset \in Nat /\ r.offset <= Pool - 1 /\ LastOffset(r) = Pool - 1
      /\ ~r.resent
  <2>1. ~r.resent /\ r.offset <= LastOffset(r)
    BY <1>1 DEF Sound, Failures, Steady
  <2>2. LastOffset(r) = Pool - 1
    BY <2>1 DEF LastOffset
  <2>3. Pool \in Nat /\ Pool > 0 /\ r.offset \in Nat
    BY <1>1, Constants
  <2> QED
    BY <2>1, <2>2, <2>3
<1>3. e = (r.base + r.offset) % Pool /\ e \in Endpoint
  BY <1>1, Around DEF Dialled
<1>4. \A k \in 0..r.offset : health[(r.base + k) % Pool] = "down"
  <2> TAKE k \in 0..r.offset
  <2>1. k = r.offset \/ k \in 0..(r.offset - 1)
    BY <1>2
  <2> QED
    BY <1>1, <1>3, <2>1 DEF Steady
<1>5. r.offset < Pool - 1
  <2> SUFFICES ASSUME r.offset = Pool - 1 PROVE FALSE
    BY <1>2
  <2>1. PICK d \in Endpoint : health[d] = "up"
    BY DEF Calm
  <2>2. PICK k \in 0..(Pool - 1) : (r.base + k) % Pool = d
    BY <1>1, OneRound
  <2> QED
    BY <1>4, <2>1, <2>2
<1>6. Go(t, x)
  BY <1>2, <1>5 DEF DialRefused
<1>7. /\ x.pc = "dial" /\ x.base = r.base /\ x.offset = r.offset + 1 /\ x.resent = FALSE
  <2>1. r.resent = FALSE
    BY <1>1, <1>2 DEF TaskState
  <2> QED
    BY <1>1, <2>1 DEF TaskState
<1> HIDE DEF x, f, e
<1>8. \A u \in Task : task'[u] = IF u = t THEN x ELSE task[u]
  BY <1>1, <1>6 DEF AllSound, Go
<1>9. ASSUME NEW u \in Task PROVE Steady(task[u])'
  <2>1. CASE u = t
    <3>1. x.offset - 1 = r.offset
      BY <1>2, <1>7
    <3> QED
      BY <1>1, <1>4, <1>7, <1>8, <2>1, <3>1 DEF Steady, Connected
  <2>2. CASE u # t
    <3>1. Steady(task[u]) /\ task'[u] = task[u]
      BY <1>8, <2>2
    <3> QED
      BY <1>1, <3>1 DEF Steady, Connected
  <2> QED
    BY <2>1, <2>2
<1>10. ASSUME NEW d \in Endpoint, MayPay(x, d) PROVE MayPay(r, d) /\ d # e
  <2>1. PICK j \in (r.offset + 1)..(Pool - 1) :
           (r.base + j) % Pool = d /\ \A i \in (r.offset + 1)..j : health[(r.base + i) % Pool] = "down"
    BY <1>7, <1>10 DEF MayPay, Reaches
  <2>2. j \in r.offset..(Pool - 1) /\ j \in 0..(Pool - 1) /\ r.offset \in 0..(Pool - 1) /\ j # r.offset
    BY <1>2, <2>1
  <2>3. d # e
    BY <1>1, <1>3, <2>1, <2>2, OneRound
  <2>4. \A i \in r.offset..j : health[(r.base + i) % Pool] = "down"
    <3> TAKE i \in r.offset..j
    <3>1. i = r.offset \/ i \in (r.offset + 1)..j
      BY <1>2, <2>2
    <3> QED
      BY <1>1, <1>3, <2>1, <3>1
  <2> QED
    BY <1>1, <2>1, <2>2, <2>3, <2>4 DEF MayPay, Reaches
<1>11. MayPay(r, e)
  <2>1. r.offset \in r.offset..(Pool - 1) /\ \A i \in r.offset..r.offset : i = r.offset
    BY <1>2
  <2> QED
    BY <1>1, <1>3, <2>1 DEF MayPay, Reaches
<1>12. ASSUME NEW d \in Endpoint PROVE (paid[d] <= Cardinality(Spared(d)))'
  <2>1. \A u \in Task : MayPay(task[u], d)' <=> MayPay(task'[u], d)
    BY <1>1 DEF MayPay, Reaches
  <2>2. Spared(d) \subseteq Spared(d)'
    <3> SUFFICES ASSUME NEW u \in Task, ~MayPay(task[u], d) PROVE ~MayPay(task'[u], d)
      BY <2>1 DEF Spared
    <3> QED
      BY <1>8, <1>10
  <2>3. Spared(d) \in SUBSET Task /\ Spared(d)' \in SUBSET Task
    BY DEF Spared
  <2>4. /\ Cardinality(Spared(d)) <= Cardinality(Spared(d)') /\ Cardinality(Spared(d)) \in Nat
        /\ Cardinality(Spared(d)') \in Nat /\ Cardinality(Task) \in Nat
    BY <2>2, <2>3, SomeTasks
  <2>5. paid[d] \in Int /\ paid[d] <= Cardinality(Spared(d)) /\ paid \in [Endpoint -> 0..(Cardinality(Task) + 1)]
    BY <1>1, <2>4 DEF Shared, PaidByOthers
  <2>6. CASE d # e
    <3>1. paid'[d] = paid[d]
      BY <1>1, <1>3, <2>5, <2>6
    <3> QED
      BY <2>4, <2>5, <3>1
  <2>7. CASE d = e
    <3>1. t \notin Spared(d) /\ t \in Spared(d)'
      <4>1. ~MayPay(task'[t], d)
        BY <1>8, <1>10, <2>7
      <4> QED
        BY <1>11, <2>1, <2>7, <4>1 DEF Spared
    <3>2. Cardinality(Spared(d) \cup {t}) = Cardinality(Spared(d)) + 1
      BY <2>3, <3>1, SomeTasks, FS_AddElement
    <3>3. Cardinality(Spared(d) \cup {t}) <= Cardinality(Spared(d)')
      BY <2>2, <2>3, <3>1, SomeTasks
    <3>4. paid'[d] <= paid[d] + 1 /\ paid'[d] \in Int
      BY <1>1, <1>3, <2>4, <2>5, <2>7
    <3> QED
      BY <2>4, <2>5, <3>2, <3>3, <3>4
  <2> QED
    BY <2>6, <2>7
<1> QED
  BY <1>9, <1>12 DEF PaidByOthers

(* An endpoint that is up does not lose its connections, so no call is made again; and where a     *)
(* task asks, the index is of use to whichever task is idle.                                      *)
LEMMA CalmAfterCalls ==
  ASSUME SoundInv, Calm, \A u \in Task : Steady(task[u]), PaidByOthers, NEW t \in Task,
         Send(t) \/ NoAnswer(t) \/ Receive(t) \/ Serve(t)
  PROVE  (\A u \in Task : Steady(task[u])') /\ PaidByOthers'
<1> DEFINE r == task[t]
<1>1. Sound(r) /\ Steady(r) /\ Shared /\ AllSound /\ r \in TaskState /\ r.conn \in Conn
  BY ConnFacts DEF SoundInv, AllSound
<1>2. ASSUME NEW x, Go(t, x), UNCHANGED <<health, preferred, paid>>,
             Connected(r), x.pc \in {"idle", "send", "wait"}, ~x.resent,
             x.pc # "idle" => x.conn.open /\ x.conn.ep = r.conn.ep, r.pc \in {"send", "wait"}
      PROVE  (\A u \in Task : Steady(task[u])') /\ PaidByOthers'
  <2>1. health[preferred] = "up" /\ health[r.conn.ep] = "up"
    BY <1>1, <1>2 DEF Steady
  <2>2. Steady(x)
    BY <1>2, <2>1 DEF Steady, Connected
  <2>3. \A e \in Endpoint : ~MayPay(x, e)
    BY <1>2, <2>1 DEF MayPay
  <2> QED
    BY <1>1, <1>2, <2>2, <2>3, CalmGo
<1>3. CASE Send(t)
  <2> DEFINE c == [r.conn EXCEPT !.asked = Append(@, Head(r.job))]
             x == [r EXCEPT !.pc = "wait", !.conn = c]
  <2>1. Go(t, x) /\ UNCHANGED <<health, preferred, paid>> /\ r.pc = "send" /\ r.conn.open
    BY <1>3 DEF Send, At
  <2>2. c.ep = r.conn.ep /\ c.open = r.conn.open
    BY <1>1 DEF Conn
  <2> HIDE DEF c
  <2>3. x.pc = "wait" /\ x.conn = c /\ x.resent = r.resent
    BY <1>1 DEF TaskState
  <2> HIDE DEF x
  <2> QED
    BY <1>1, <1>2, <2>1, <2>2, <2>3 DEF Steady, Connected
<1>4. CASE NoAnswer(t)
  <2>1. r.pc \in {"send", "wait"} /\ (~r.conn.open \/ health[r.conn.ep] = "mute")
    BY <1>4 DEF NoAnswer, At
  <2>2. r.conn.open /\ health[r.conn.ep] = "up"
    BY <1>1, <2>1 DEF Steady, Connected
  <2> QED
    BY <2>1, <2>2
<1>5. CASE Serve(t)
  <2>1. r.conn.open /\ r.conn.asked # <<>> /\ UNCHANGED <<health, preferred, paid>>
    BY <1>5 DEF Serve
  <2>2. r.pc = "wait"
    BY <1>1, <2>1 DEF Sound, Conversation, Connected, Untouched
  <2>3. PICK error, line :
           Go(t, [r EXCEPT !.conn.asked = Tail(@), !.conn.inbox = Append(@, line),
                           !.conn.subscribed = @ \/ (Head(r.conn.asked) = "tip" /\ ~error)])
    BY <1>5 DEF Serve
  <2> DEFINE told == r.conn.subscribed \/ (Head(r.conn.asked) = "tip" /\ ~error)
             c == [r.conn EXCEPT !.asked = Tail(@), !.inbox = Append(@, line), !.subscribed = told]
             x == [r EXCEPT !.conn = c]
  <2>4. Go(t, x)
    BY <2>3
  <2>5. c.ep = r.conn.ep /\ c.open = r.conn.open
    BY <1>1 DEF Conn
  <2> HIDE DEF c
  <2>6. x.pc = "wait" /\ x.conn = c /\ x.resent = r.resent
    BY <1>1, <2>2 DEF TaskState
  <2> HIDE DEF x
  <2> QED
    BY <1>1, <1>2, <2>1, <2>2, <2>4, <2>5, <2>6 DEF Steady, Connected
<1>6. CASE Receive(t)
  <2> DEFINE c == [r.conn EXCEPT !.inbox = Tail(@)]
             read == [r EXCEPT !.conn = c]
             line == Head(r.conn.inbox)
             blocks == Start(r.height)..line.upto
  <2>1. r.pc = "wait" /\ UNCHANGED <<health, preferred, paid>>
    BY <1>6 DEF Receive, At
  <2>2. \/ Go(t, Ended([read EXCEPT !.failed = {}], "error"))
        \/ Go(t, NextCall([read EXCEPT !.height = line.upto]))
        \/ Go(t, NextCall([read EXCEPT !.mtp = MedianOf(blocks)]))
        \/ Go(t, NextCall(read))
    <3>1. read = [r EXCEPT !.conn.inbox = Tail(@)]
      OBVIOUS
    <3> QED
      BY <1>6, <3>1 DEF Receive
  <2>3. c.ep = r.conn.ep /\ c.open = r.conn.open
    BY <1>1 DEF Conn
  <2> HIDE DEF c, line, blocks
  <2>4. read.conn = c /\ read = [pc |-> r.pc, job |-> r.job, base |-> r.base, offset |-> r.offset,
           resent |-> r.resent, conn |-> c, height |-> r.height, mtp |-> r.mtp, failed |-> r.failed,
           result |-> r.result]
    BY <1>1 DEF TaskState
  <2> HIDE DEF read
  <2>5. \A y, result : Ended(y, result).pc = "idle" /\ ~Ended(y, result).resent
    BY IdleFacts DEF Ended, TaskState
  <2>6. ASSUME NEW y, Go(t, NextCall(y)), NEW height, NEW mtp,
               y = [pc |-> r.pc, job |-> r.job, base |-> r.base, offset |-> r.offset,
                    resent |-> r.resent, conn |-> c, height |-> height, mtp |-> mtp,
                    failed |-> r.failed, result |-> r.result]
        PROVE  (\A u \in Task : Steady(task[u])') /\ PaidByOthers'
    <3> DEFINE z == [[y EXCEPT !.resent = FALSE, !.failed = {}] EXCEPT !.pc = "send", !.job = Tail(@)]
    <3>1. z.pc = "send" /\ ~z.resent /\ z.conn = c
      BY <2>6
    <3>2. \/ NextCall(y) = Ended([y EXCEPT !.resent = FALSE, !.failed = {}], "answered")
          \/ NextCall(y) = z
      BY DEF NextCall
    <3> HIDE DEF z
    <3>3. CASE NextCall(y) = z
      BY <1>1, <1>2, <2>1, <2>3, <2>6, <3>1, <3>3 DEF Steady, Connected
    <3>4. CASE NextCall(y) = Ended([y EXCEPT !.resent = FALSE, !.failed = {}], "answered")
      <4>1. NextCall(y).pc = "idle" /\ ~NextCall(y).resent
        BY <2>5, <3>4
      <4> QED
        BY <1>2, <2>1, <2>6, <4>1 DEF Connected
    <3> QED
      BY <3>2, <3>3, <3>4
  <2>7. CASE Go(t, Ended([read EXCEPT !.failed = {}], "error"))
    BY <1>2, <2>1, <2>5, <2>7 DEF Connected
  <2>8. CASE Go(t, NextCall([read EXCEPT !.height = line.upto]))
    <3>1. [read EXCEPT !.height = line.upto] =
            [pc |-> r.pc, job |-> r.job, base |-> r.base, offset |-> r.offset,
             resent |-> r.resent, conn |-> c, height |-> line.upto, mtp |-> r.mtp,
             failed |-> r.failed, result |-> r.result]
      BY <2>4
    <3> QED
      BY <2>6, <2>8, <3>1
  <2>9. CASE Go(t, NextCall([read EXCEPT !.mtp = MedianOf(blocks)]))
    <3>1. [read EXCEPT !.mtp = MedianOf(blocks)] =
            [pc |-> r.pc, job |-> r.job, base |-> r.base, offset |-> r.offset,
             resent |-> r.resent, conn |-> c, height |-> r.height, mtp |-> MedianOf(blocks),
             failed |-> r.failed, result |-> r.result]
      BY <2>4
    <3> QED
      BY <2>6, <2>9, <3>1
  <2>10. CASE Go(t, NextCall(read))
    BY <2>4, <2>6, <2>10
  <2> QED
    BY <2>2, <2>7, <2>8, <2>9, <2>10
<1> QED
  BY <1>3, <1>4, <1>5, <1>6

(* A block only adds a line. *)
LEMMA CalmAfterBlock ==
  ASSUME SoundInv, Calm, \A u \in Task : Steady(task[u]), PaidByOthers, NEW e \in Endpoint, NewBlock(e)
  PROVE  (\A u \in Task : Steady(task[u])') /\ PaidByOthers'
<1>1. UNCHANGED <<health, preferred, paid>>
  BY DEF NewBlock
<1>2. ASSUME NEW u \in Task
      PROVE  /\ task'[u].pc = task[u].pc /\ task'[u].resent = task[u].resent
             /\ task'[u].base = task[u].base /\ task'[u].offset = task[u].offset
             /\ task'[u].conn.open = task[u].conn.open /\ task'[u].conn.ep = task[u].conn.ep
  <2> DEFINE line == Line("push", tip'[e], FALSE)
             c == [task[u].conn EXCEPT !.inbox = Append(@, line)]
             x == [task[u] EXCEPT !.conn = c]
  <2>1. task[u] \in TaskState /\ task[u].conn \in Conn
    BY ConnFacts DEF SoundInv, AllSound
  <2>2. task'[u] = x \/ task'[u] = task[u]
    BY DEF NewBlock
  <2> HIDE DEF line
  <2>3. c.open = task[u].conn.open /\ c.ep = task[u].conn.ep
    BY <2>1 DEF Conn
  <2> HIDE DEF c
  <2>4. /\ x.pc = task[u].pc /\ x.resent = task[u].resent
        /\ x.base = task[u].base /\ x.offset = task[u].offset /\ x.conn = c
    BY <2>1 DEF TaskState
  <2> HIDE DEF x
  <2> QED
    BY <2>2, <2>3, <2>4
<1>3. ASSUME NEW u \in Task PROVE Steady(task[u])'
  <2>1. Steady(task[u])
    OBVIOUS
  <2> QED
    BY <1>1, <1>2, <2>1 DEF Steady, Connected
<1>4. ASSUME NEW d \in Endpoint PROVE (paid[d] <= Cardinality(Spared(d)))'
  <2>1. Spared(d)' = Spared(d)
    BY <1>1, <1>2 DEF Spared, MayPay, Reaches
  <2> QED
    BY <1>1, <2>1 DEF PaidByOthers
<1> QED
  BY <1>3, <1>4 DEF PaidByOthers

LEMMA CalmStep == SoundInv /\ CalmInv /\ [Next]_vars => CalmInv'
<1> SUFFICES ASSUME SoundInv, CalmInv, [Next]_vars, Calm'
             PROVE  (\A u \in Task : Steady(task[u])') /\ PaidByOthers'
  BY DEF CalmInv
<1>1. ASSUME UNCHANGED <<changes, health>> PROVE Calm /\ (\A u \in Task : Steady(task[u])) /\ PaidByOthers
  BY <1>1 DEF Calm, CalmInv
<1>2. ASSUME NEW t \in Task, \/ \E job \in Jobs : Connect(t, job)
                             \/ Dial(t) \/ Remember(t)
      PROVE  (\A u \in Task : Steady(task[u])') /\ PaidByOthers'
  <2>1. UNCHANGED <<changes, health>>
    BY <1>2 DEF Connect, Dial, Remember
  <2> QED
    BY <1>1, <1>2, <2>1, CalmAfterDials
<1>3. ASSUME NEW t \in Task, DialRefused(t)
      PROVE  (\A u \in Task : Steady(task[u])') /\ PaidByOthers'
  BY <1>1, <1>3, CalmAfterRefusal DEF DialRefused
<1>4. ASSUME NEW t \in Task, Send(t) \/ NoAnswer(t) \/ Receive(t) \/ Serve(t)
      PROVE  (\A u \in Task : Steady(task[u])') /\ PaidByOthers'
  <2>1. UNCHANGED <<changes, health>>
    BY <1>4 DEF Send, NoAnswer, Receive, Serve
  <2> QED
    BY <1>1, <1>4, <2>1, CalmAfterCalls
<1>5. ASSUME NEW e \in Endpoint, NewBlock(e)
      PROVE  (\A u \in Task : Steady(task[u])') /\ PaidByOthers'
  BY <1>1, <1>5, CalmAfterBlock DEF NewBlock
<1>6. ASSUME NEW e \in Endpoint, NEW h \in Health, Change(e, h) PROVE FALSE
  <2>1. changes' = changes + 1 /\ changes \in Nat /\ changes' = 0
    BY <1>6, Constants DEF Change, Calm, SoundInv, Shared
  <2> QED
    BY <2>1
<1>7. CASE UNCHANGED vars
  <2>1. UNCHANGED <<preferred, health, paid, task, changes>>
    BY <1>7 DEF vars
  <2> QED
    BY <1>1, <2>1 DEF Steady, Connected, PaidByOthers, Spared, MayPay, Reaches
<1> QED
  BY <1>2, <1>3, <1>4, <1>5, <1>6, <1>7 DEF Next

(* While every endpoint either refuses or answers, one that refuses costs each task of the process *)
(* at most one dial: an endpoint's dials were paid by tasks that have since passed it, and as      *)
(* within one round no endpoint comes twice and the index then is of use, none of them will pay    *)
(* again (PREFERRED, connect_pool).                                                               *)
THEOREM OneTimeoutPerTask == Spec => []DeadPaidOnce
<1>1. Init => SoundInv /\ CalmInv
  <2> SUFFICES ASSUME Init PROVE SoundInv /\ CalmInv
    OBVIOUS
  <2>1. \A u \in Task : Steady(task[u])
    BY IdleFacts DEF Init, Steady, Connected
  <2>2. PaidByOthers
    <3>1. \A e \in Endpoint : Cardinality(Spared(e)) \in Nat
      BY SomeTasks DEF Spared
    <3> QED
      BY <3>1 DEF Init, PaidByOthers
  <2> QED
    BY <2>1, <2>2, SoundAtFirst DEF CalmInv
<1>2. SoundInv /\ CalmInv /\ [Next]_vars => (SoundInv /\ CalmInv)'
  BY SoundStep, CalmStep
<1>3. SoundInv /\ CalmInv => DeadPaidOnce
  <2> SUFFICES ASSUME SoundInv, PaidByOthers, NEW e \in Endpoint
               PROVE  paid[e] <= Cardinality(Task)
    BY DEF CalmInv, Calm, DeadPaidOnce
  <2>1. Spared(e) \in SUBSET Task
    BY DEF Spared
  <2>2. /\ Cardinality(Spared(e)) \in Nat /\ Cardinality(Task) \in Nat
        /\ Cardinality(Spared(e)) <= Cardinality(Task)
    BY <2>1, SomeTasks
  <2> QED
    BY <2>2 DEF PaidByOthers, SoundInv, Shared
<1> QED
  BY <1>1, <1>2, <1>3, PTL DEF Spec
=============================================================================
