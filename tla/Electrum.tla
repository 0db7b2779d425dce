------------------------------ MODULE Electrum ------------------------------
(***************************************************************************)
(* The node's Electrum client: a pool of endpoints, an index remembered by *)
(* the whole process, one failover and one resend in each call.  Tasks     *)
(* (the builder loop, the publish loop) each open a client for a job of    *)
(* one or two calls and drop it at its end or at its first error.          *)
(*                                                                         *)
(* A server is up; or mute: it accepts connections (TLS begins with the    *)
(* first write) and gives no usable line; or down: it refuses them, and    *)
(* drops those it had.  Servers follow one chain, each at its own pace.    *)
(***************************************************************************)
EXTENDS Integers, FiniteSets, Sequences

CONSTANTS
    Task,        \* tasks of the process that read the chain
    Pool,        \* endpoints in the manifest
    Span,        \* blocks before the tip that median-time-past looks at (10)
    Time,        \* timestamp of each block, by height
    MaxHeight,   \* bound on the chain
    MaxLag,      \* bound on how far a server is behind at first
    MaxChanges   \* bound on how often a server's health changes

Endpoint == 0..(Pool - 1)
Height == 0..MaxHeight

ASSUME PoolAssumption ==
    /\ IsFiniteSet(Task) /\ Pool \in Nat \ {0} /\ Span \in Nat \ {0}
    /\ MaxHeight \in Nat /\ MaxLag \in 0..MaxHeight /\ MaxChanges \in Nat

(* Miners may set a block's time below its parent's; MtpInWindow is about chains where none does. *)
ASSUME TimeAssumption ==
    /\ Time \in [Height -> Nat]
    /\ \A h, i \in Height : h <= i => Time[h] <= Time[i]

VARIABLES
    preferred,  \* PREFERRED
    task,       \* each task's client and where it is in its job
    health,     \* of each server
    tip,        \* height of each server's chain
    changes,    \* how often health has changed
    paid        \* history: dials refused since health last changed, up to one more than there are tasks

vars == <<preferred, task, health, tip, changes, paid>>

(* Jobs as chain.rs makes them: median_time_past, and find_recyclable_tickers with its two locks;  *)
(* the other functions are jobs of one call.                                                       *)
Jobs == {<<"tip", "headers">>, <<"tickers", "tickers26">>, <<"list">>}

(* asked: requests the server has not served; inbox: lines it has sent; open: not dropped by it. *)
NoConn == [ep |-> 0, open |-> FALSE, asked |-> <<>>, inbox |-> <<>>, subscribed |-> FALSE]
Stream(e) == [NoConn EXCEPT !.ep = e, !.open = TRUE]

(* base, offset: where the dial loop is; failed: history, the endpoints that failed this call.     *)
Idle == [pc |-> "idle", job |-> <<>>, base |-> 0, offset |-> 0, resent |-> FALSE, conn |-> NoConn,
         height |-> 0, mtp |-> 0, failed |-> {}, result |-> "none"]

Go(t, r) == task' = [task EXCEPT ![t] = r]
At(t, pc) == task[t].pc = pc

(* The client is dropped; what became of the job stays until the next one. *)
Ended(r, result) ==
    LET known == IF result = "answered" THEN r.height ELSE 0
    IN  [Idle EXCEPT !.result = result, !.height = known, !.mtp = r.mtp, !.failed = r.failed]

-----------------------------------------------------------------------------
(* connect_pool loads the index once; its loop starts there. *)
Connect(t, job) ==
    /\ At(t, "idle")
    /\ Go(t, [Idle EXCEPT !.pc = "dial", !.job = job, !.base = preferred])
    /\ UNCHANGED <<preferred, health, tip, changes, paid>>

(* Offsets 0..n-1 in connect_pool, 1..n in call: there the endpoint that just failed comes last.   *)
LastOffset(r) == IF r.resent THEN Pool ELSE Pool - 1
Dialled(r) == (r.base + r.offset) % Pool

Dial(t) ==
    LET r == task[t]  e == Dialled(r)
    IN  /\ At(t, "dial") /\ health[e] # "down"
        /\ Go(t, [r EXCEPT !.pc = "remember", !.conn = Stream(e)])
        /\ UNCHANGED <<preferred, health, tip, changes, paid>>

DialRefused(t) ==
    LET r == task[t]  e == Dialled(r)  f == [r EXCEPT !.failed = @ \cup {e}]
    IN  /\ At(t, "dial") /\ health[e] = "down"
        /\ Go(t, IF r.offset < LastOffset(r) THEN [f EXCEPT !.offset = @ + 1] ELSE Ended(f, "all down"))
        /\ paid' = [paid EXCEPT ![e] = IF @ > Cardinality(Task) THEN @ ELSE @ + 1]
        /\ UNCHANGED <<preferred, health, tip, changes>>

(* Mutations: the index is never stored; the next endpoint's is. *)
StoreNothing(e) == UNCHANGED preferred
StoreNext(e) == preferred' = e + 1
Store(e) == preferred' = e

(* The index is stored after the dial, before anything is answered. *)
Remember(t) ==
    /\ At(t, "remember")
    /\ Store(task[t].conn.ep)
    /\ Go(t, [task[t] EXCEPT !.pc = "send", !.base = 0, !.offset = 0])
    /\ UNCHANGED <<health, tip, changes, paid>>

(* Mutations: the loop dials the endpoint that failed first; the request goes out again on the    *)
(* connection that failed.                                                                        *)
FailOverFromZero(r) ==
    [r EXCEPT !.pc = "dial", !.resent = TRUE, !.conn = NoConn, !.base = r.conn.ep, !.offset = 0]
ResendOnSame(r) == [r EXCEPT !.pc = "send", !.resent = TRUE]

FailOver(r) ==
    [r EXCEPT !.pc = "dial", !.resent = TRUE, !.conn = NoConn, !.base = r.conn.ep, !.offset = 1]

(* A connection error: once per call, the next endpoint that can be dialled gets the request too. *)
ConnectionError(t, r) ==
    LET f == [r EXCEPT !.failed = @ \cup {r.conn.ep}]
    IN  Go(t, IF r.resent THEN Ended(f, "lost") ELSE FailOver(f))

Send(t) ==
    LET r == task[t]
    IN  /\ At(t, "send") /\ r.conn.open
        /\ Go(t, [r EXCEPT !.pc = "wait", !.conn.asked = Append(@, Head(r.job))])
        /\ UNCHANGED <<preferred, health, tip, changes, paid>>

(* The write fails, the peer closes, or twenty seconds pass without a usable line. *)
NoAnswer(t) ==
    LET r == task[t]
    IN  /\ \/ At(t, "send") /\ ~r.conn.open
           \/ At(t, "wait") /\ r.conn.inbox = <<>> /\ (~r.conn.open \/ health[r.conn.ep] = "mute")
        /\ ConnectionError(t, r)
        /\ UNCHANGED <<preferred, health, tip, changes, paid>>

(* Mutation: the newest of the timestamps. *)
NewestOf(S) == CHOOSE v \in {Time[h] : h \in S} : \A h \in S : Time[h] <= v

(* ts[ts.len() / 2] of the sorted timestamps of the blocks in S. *)
MedianOf(S) ==
    LET i == Cardinality(S) \div 2
    IN  CHOOSE v \in {Time[h] : h \in S} :
            /\ Cardinality({h \in S : Time[h] < v}) <= i
            /\ i < Cardinality({h \in S : Time[h] <= v})

Start(height) == IF height < Span THEN 0 ELSE height - Span

(* The next call of the job, on the same connection; or the job is over. *)
NextCall(r) ==
    LET f == [r EXCEPT !.resent = FALSE, !.failed = {}]
    IN  IF Len(r.job) = 1 THEN Ended(f, "answered") ELSE [f EXCEPT !.pc = "send", !.job = Tail(@)]

(* One line is read and taken for the answer: the id is not compared.  A line without a result,   *)
(* an error of the server and an empty list of headers end the job.                               *)
Receive(t) ==
    LET r == task[t]
        line == Head(r.conn.inbox)
        read == [r EXCEPT !.conn.inbox = Tail(@)]
        blocks == Start(r.height)..line.upto
    IN  /\ At(t, "wait") /\ r.conn.inbox # <<>>
        /\ \/ /\ line.to = "push" \/ line.error \/ (Head(r.job) = "headers" /\ blocks = {})
              /\ Go(t, Ended([read EXCEPT !.failed = {}], "error"))
           \/ /\ line.to # "push" /\ ~line.error
              /\ \/ Head(r.job) = "tip" /\ Go(t, NextCall([read EXCEPT !.height = line.upto]))
                 \/ /\ Head(r.job) = "headers" /\ blocks # {}
                    /\ Go(t, NextCall([read EXCEPT !.mtp = MedianOf(blocks)]))
                 \/ Head(r.job) \notin {"tip", "headers"} /\ Go(t, NextCall(read))
        /\ UNCHANGED <<preferred, health, tip, changes, paid>>

-----------------------------------------------------------------------------
(* The servers. *)

Line(to, upto, error) == [to |-> to, upto |-> upto, error |-> error]

(* A request is answered from the server's chain as it is then, or refused. *)
Serve(t) ==
    LET r == task[t]  e == r.conn.ep  q == Head(r.conn.asked)
        upto == IF q = "headers" /\ r.height < tip[e] THEN r.height ELSE tip[e]
    IN  /\ r.conn.open /\ r.conn.asked # <<>> /\ health[e] = "up"
        /\ \E error \in BOOLEAN :
             Go(t, [r EXCEPT !.conn.asked = Tail(@),
                             !.conn.inbox = Append(@, Line(q, upto, error)),
                             !.conn.subscribed = @ \/ (q = "tip" /\ ~error)])
        /\ UNCHANGED <<preferred, health, tip, changes, paid>>

(* A subscriber of a server that is up is told of each block. *)
NewBlock(e) ==
    /\ tip[e] < MaxHeight
    /\ tip' = [tip EXCEPT ![e] = @ + 1]
    /\ task' = [t \in Task |->
          IF task[t].conn.open /\ task[t].conn.ep = e /\ task[t].conn.subscribed /\ health[e] = "up"
          THEN [task[t] EXCEPT !.conn.inbox = Append(@, Line("push", tip'[e], FALSE))]
          ELSE task[t]]
    /\ UNCHANGED <<preferred, health, changes, paid>>

Change(e, h) ==
    /\ changes < MaxChanges /\ h # health[e]
    /\ changes' = changes + 1
    /\ health' = [health EXCEPT ![e] = h]
    /\ task' = [t \in Task |->
          IF h = "down" /\ task[t].conn.ep = e THEN [task[t] EXCEPT !.conn.open = FALSE] ELSE task[t]]
    /\ paid' = [f \in Endpoint |-> 0]
    /\ UNCHANGED <<preferred, tip>>

Health == {"up", "mute", "down"}

Init ==
    /\ preferred = 0
    /\ task = [t \in Task |-> Idle]
    /\ health \in [Endpoint -> Health]
    /\ tip \in [Endpoint -> (MaxHeight - MaxLag)..MaxHeight]
    /\ changes = 0
    /\ paid = [e \in Endpoint |-> 0]

Next ==
    \/ \E t \in Task :
         \/ \E job \in Jobs : Connect(t, job)
         \/ Dial(t) \/ DialRefused(t) \/ Remember(t) \/ Send(t) \/ NoAnswer(t) \/ Receive(t) \/ Serve(t)
    \/ \E e \in Endpoint : NewBlock(e) \/ (\E h \in Health : Change(e, h))

Spec == Init /\ [][Next]_vars

-----------------------------------------------------------------------------
(* Properties. *)

Requests == {"tip", "headers", "tickers", "tickers26", "list"}
Lines == [to: Requests \cup {"push"}, upto: Height, error: BOOLEAN]

TypeOK ==
    /\ preferred \in Endpoint
    /\ health \in [Endpoint -> Health] /\ tip \in [Endpoint -> Height]
    /\ changes \in 0..MaxChanges
    /\ paid \in [Endpoint -> 0..(Cardinality(Task) + 1)]
    /\ \A t \in Task :
         /\ task[t].pc \in {"idle", "dial", "remember", "send", "wait"}
         /\ task[t].job \in Seq(Requests) /\ (At(t, "idle") <=> task[t].job = <<>>)
         /\ task[t].base \in Endpoint /\ task[t].offset \in 0..Pool
         /\ task[t].height \in Height /\ task[t].mtp \in Nat
         /\ task[t].failed \subseteq Endpoint
         /\ task[t].conn.ep \in Endpoint
         /\ task[t].conn.asked \in Seq(Requests) /\ task[t].conn.inbox \in Seq(Lines)
         /\ task[t].result \in {"none", "answered", "error", "lost", "all down"}

(* The failover is transparent (client.rs: "transparent failover"): whatever the tasks have done  *)
(* to the shared index, a call gives up for want of a connection only after two different         *)
(* endpoints have failed it, and a dial loop only after all of them have.                         *)
Transparent ==
    \A t \in Task :
        /\ task[t].result = "lost" => Cardinality(task[t].failed) >= 2 \/ task[t].failed = Endpoint
        /\ task[t].result = "all down" => task[t].failed = Endpoint

(* While every endpoint either refuses or answers, one that refuses is dialled at most once by    *)
(* each task of the process (client.rs: "one connect timeout per process, not one per call").     *)
DeadPaidOnce ==
    changes = 0 /\ "mute" \notin {health[e] : e \in Endpoint} /\ (\E e \in Endpoint : health[e] = "up")
        => \A e \in Endpoint : paid[e] <= Cardinality(Task)

(* No call takes the answer to another request for its own, though it reads whatever line comes   *)
(* first and compares no id: late answers die with their connection (send_recv, call).            *)
AnswersMatch ==
    \A t \in Task :
        At(t, "wait") /\ task[t].conn.inbox # <<>> => Head(task[t].conn.inbox).to \in {"push", Head(task[t].job)}

(* Median-time-past read in two calls, the second perhaps from a server that is behind, is never  *)
(* later than that of the tip it was read for, nor earlier than the oldest block it looks at: a   *)
(* Ticker taken by it is one whose locktime is final (median_time_past).                          *)
MtpInWindow ==
    \A t \in Task :
        At(t, "idle") /\ task[t].result = "answered" /\ task[t].mtp # 0
        => /\ task[t].mtp <= Time[(Start(task[t].height) + task[t].height + 1) \div 2]
           /\ task[t].mtp >= Time[Start(task[t].height)]
=============================================================================
