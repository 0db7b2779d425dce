---------------------------- MODULE WebsiteProofs ----------------------------
(***************************************************************************)
(* What holds of Website for any pool of endpoints, any number of heads    *)
(* and any number of failures: what a visitor can come to be shown.        *)
(***************************************************************************)
EXTENDS Website, SequenceTheorems, TLAPS

-----------------------------------------------------------------------------
(* Type correctness. *)

Asked == [kind: Kind, live: BOOLEAN]
Answer == [kind: Kind \cup {"changed"}, live: BOOLEAN, n: Heads \cup {Refusal}]

LEMMA WebsiteConstants ==
  /\ Pool \in Nat /\ Pool > 0 /\ Polled \subseteq Endpoint
  /\ MaxHead \in Nat /\ MaxHead > 0 /\ MaxFaults \in Nat
  /\ 0 \in Heads /\ 1 \in Heads /\ 0 \in Endpoint /\ Heads \subseteq Nat
  BY PoolAssumption DEF Heads, Endpoint

LEMMA FaultKept == Fault /\ faults \in 0..MaxFaults => faults' \in 0..MaxFaults
  BY WebsiteConstants DEF Fault

(* The queues of a connection. *)
Queues == asked \in Seq(Asked) /\ inbox \in Seq(Answer)

LEMMA RequestsAsked == Request("list") \in Asked /\ Request("subscribe") \in Asked
  BY DEF Request, Asked, Kind

LEMMA ExpireKeeps ==
  ASSUME NEW S, \A m \in S : [m EXCEPT !.live = FALSE] \in S, NEW q \in Seq(S), NEW i
  PROVE  Expire(q, i) \in Seq(S)
<1>1. Len(q) \in Nat /\ DOMAIN q = 1..Len(q) /\ \A j \in 1..Len(q) : q[j] \in S
  BY LenProperties, ElementOfSeq
<1>2. Expire(q, i) = [j \in 1..Len(q) |-> IF j = i THEN [q[j] EXCEPT !.live = FALSE] ELSE q[j]]
  BY <1>1 DEF Expire
<1>3. [j \in 1..Len(q) |-> IF j = i THEN [q[j] EXCEPT !.live = FALSE] ELSE q[j]] \in [1..Len(q) -> S]
  BY <1>1
<1> QED
  BY <1>1, <1>2, <1>3, SeqDef

LEMMA ExpireQueues ==
  ASSUME Queues, NEW i
  PROVE  Expire(asked, i) \in Seq(Asked) /\ Expire(inbox, i) \in Seq(Answer)
<1>1. \A m \in Asked : [m EXCEPT !.live = FALSE] \in Asked
  BY DEF Asked
<1>2. \A m \in Answer : [m EXCEPT !.live = FALSE] \in Answer
  BY DEF Answer
<1>3. Expire(asked, i) \in Seq(Asked)
  BY <1>1, ExpireKeeps DEF Queues
<1>4. Expire(inbox, i) \in Seq(Answer)
  BY <1>2, ExpireKeeps DEF Queues
<1> QED
  BY <1>3, <1>4

LEMMA FailedKeeps ==
  ASSUME missed \subseteq Kind, NEW queues, NEW kind \in Kind
  PROVE  Failed(kind, queues) \subseteq Kind
  BY DEF Failed

(* The parts of TypeOK. *)
PageOK ==
    /\ head \in Heads /\ view \in [Endpoint -> Heads]
    /\ page \in {"loading", "deploying", "running"}
ClientOK ==
    /\ shown \in Heads /\ current \in Endpoint /\ ws \in {"none", "connecting", "open"}
    /\ {retry, polling, subscribed, stalled} \subseteq BOOLEAN
    /\ missed \subseteq Kind
File == [manifest: {"absent", "torn", "whole"}, status: {"absent", "torn", "whole"},
         tmp: {"absent", "torn", "whole"}]
WebOK ==
    /\ {dir} \subseteq BOOLEAN
    /\ publisher \in {"pass", "manifest", "writing", "status", "tmp", "rename"}
    /\ file \in File

LEMMA TypeParts == TypeOK <=> PageOK /\ ClientOK /\ Queues /\ WebOK /\ faults \in 0..MaxFaults
  BY DEF TypeOK, PageOK, ClientOK, Queues, WebOK, Asked, Answer, File

LEMMA NextTypeParts == PageOK' /\ ClientOK' /\ Queues' /\ WebOK' /\ faults' \in 0..MaxFaults => TypeOK'
  BY DEF TypeOK, PageOK, ClientOK, Queues, WebOK, Asked, Answer, File

LEMMA SocketType ==
  ASSUME TypeOK, Load \/ Open \/ Closed \/ HeartbeatFails \/ Reconnect \/ Poll
  PROVE  TypeOK'
<1>1. PageOK /\ ClientOK /\ Queues /\ WebOK /\ faults \in 0..MaxFaults
  BY TypeParts
<1>2. CASE Load
  BY <1>1, <1>2, NextTypeParts DEF Load, PageOK, ClientOK, Queues, WebOK, chain, web
<1>3. CASE Open
  <2>1. asked' \in Seq(Asked)
    BY <1>3, RequestsAsked DEF Open, Subscribing
  <2>2. ClientOK' /\ PageOK' /\ WebOK' /\ faults' \in 0..MaxFaults /\ inbox' = inbox
    BY <1>1, <1>3 DEF Open, PageOK, ClientOK, WebOK, chain, web
  <2> QED
    BY <1>1, <2>1, <2>2, NextTypeParts DEF Queues
<1>4. CASE Closed \/ HeartbeatFails
  <2>1. OnClose /\ faults' \in 0..MaxFaults
    BY <1>1, <1>4, FaultKept DEF Closed, HeartbeatFails
  <2>2. current' \in Endpoint
    <3>1. current \in Nat /\ \A c, n \in Nat : n > 0 => (c + 1) % n \in 0..(n - 1)
      BY <1>1, WebsiteConstants DEF ClientOK, Endpoint
    <3> QED
      BY <2>1, <3>1, WebsiteConstants DEF OnClose, NextEndpoint, Endpoint
  <2>3. ClientOK' /\ PageOK' /\ WebOK'
    BY <1>1, <2>1, <2>2 DEF OnClose, NoSocket, PageOK, ClientOK, WebOK, chain, web
  <2>4. Queues'
    BY <2>1 DEF OnClose, Queues
  <2> QED
    BY <2>1, <2>3, <2>4, NextTypeParts
<1>5. CASE Reconnect
  BY <1>1, <1>5, NextTypeParts DEF Reconnect, PageOK, ClientOK, Queues, WebOK, chain, web
<1>6. CASE Poll
  <2>1. asked' \in Seq(Asked)
    BY <1>1, <1>6, RequestsAsked DEF Poll, Refetch, Queues
  <2>2. ClientOK' /\ PageOK' /\ WebOK' /\ faults' \in 0..MaxFaults /\ inbox' = inbox
    BY <1>1, <1>6 DEF Poll, Refetch, PageOK, ClientOK, WebOK, chain, web
  <2> QED
    BY <1>1, <2>1, <2>2, NextTypeParts DEF Queues
<1> QED
  BY <1>2, <1>3, <1>4, <1>5, <1>6

LEMMA AnswerType ==
  ASSUME TypeOK, OnMessage \/ TimeOut
  PROVE  TypeOK'
<1>1. PageOK /\ ClientOK /\ Queues /\ WebOK /\ faults \in 0..MaxFaults
  BY TypeParts
<1>2. CASE OnMessage
  <2> DEFINE m == Head(inbox)
  <2>1. inbox # <<>> /\ m \in Answer /\ Tail(inbox) \in Seq(Answer)
    <3>1. inbox # <<>> /\ inbox \in Seq(Answer)
      BY <1>1, <1>2 DEF OnMessage, Queues
    <3> QED
      BY <3>1, HeadTailProperties
  <2>2. asked' \in Seq(Asked)
    <3>1. asked' = asked \/ asked' = Append(asked, Request("list"))
      BY <1>2 DEF OnMessage, Refetch
    <3>2. Append(asked, Request("list")) \in Seq(Asked)
      BY <1>1, RequestsAsked DEF Queues
    <3> QED
      BY <1>1, <3>1, <3>2 DEF Queues
  <2>3. shown' \in Heads
    <3>1. m.n \in Heads \cup {Refusal} /\ shown \in Heads
      BY <1>1, <2>1 DEF Answer, ClientOK
    <3>2. m.n > 0 => m.n \in Heads
      BY <3>1 DEF Refusal
    <3>3. shown' = shown \/ (shown' = IF m.n > 0 THEN m.n ELSE shown)
      BY <1>2 DEF OnMessage
    <3> QED
      BY <3>1, <3>2, <3>3
  <2>4. missed' \subseteq Kind
    <3>1. "list" \in Kind
      BY DEF Kind
    <3>2. \/ missed' = missed \ {"list"} \/ missed' = missed
          \/ missed' = Failed("list", inbox' \o asked)
      BY <1>2 DEF OnMessage, Refetch
    <3>3. \A queues : Failed("list", queues) \subseteq Kind
      BY <1>1, <3>1, FailedKeeps DEF ClientOK
    <3> QED
      BY <1>1, <3>2, <3>3 DEF ClientOK
  <2>5. /\ inbox' = Tail(inbox)
        /\ UNCHANGED <<chain, page, current, ws, retry, polling, subscribed, stalled, web, faults>>
    BY <1>2 DEF OnMessage
  <2>6. ClientOK' /\ PageOK' /\ WebOK' /\ faults' \in 0..MaxFaults
    BY <1>1, <2>3, <2>4, <2>5 DEF PageOK, ClientOK, WebOK, chain, web
  <2> QED
    BY <2>1, <2>2, <2>5, <2>6, NextTypeParts DEF Queues
<1>3. CASE TimeOut
  <2>1. PICK left, kept : /\ left \in {asked, Expire(asked, FirstLive(asked))}
                          /\ kept \in {inbox, Expire(inbox, FirstLive(inbox))}
                          /\ inbox' = kept
                          /\ \/ asked' = Append(left, Request("list")) /\ missed' = missed \ {"list"}
                             \/ asked' = left /\ missed' = Failed("list", inbox' \o left)
    BY <1>3 DEF TimeOut
  <2>2. left \in Seq(Asked) /\ kept \in Seq(Answer)
    BY <1>1, <2>1, ExpireQueues DEF Queues
  <2>3. asked' \in Seq(Asked)
    BY <2>1, <2>2, RequestsAsked
  <2>4. missed' \subseteq Kind
    <3>1. "list" \in Kind
      BY DEF Kind
    <3>2. \A queues : Failed("list", queues) \subseteq Kind
      BY <1>1, <3>1, FailedKeeps DEF ClientOK
    <3> QED
      BY <1>1, <2>1, <3>2 DEF ClientOK
  <2>5. faults' \in 0..MaxFaults
    BY <1>1, <1>3, FaultKept DEF TimeOut
  <2>6. UNCHANGED <<chain, page, shown, current, ws, retry, polling, subscribed, stalled, web>>
    BY <1>3 DEF TimeOut
  <2>7. ClientOK' /\ PageOK' /\ WebOK'
    BY <1>1, <2>4, <2>6 DEF PageOK, ClientOK, WebOK, chain, web
  <2> QED
    BY <2>1, <2>2, <2>3, <2>5, <2>7, NextTypeParts DEF Queues
<1> QED
  BY <1>2, <1>3

LEMMA ServerType ==
  ASSUME TypeOK, NewHead \/ (\E e \in Endpoint : Sees(e)) \/ Serve \/ Stall
  PROVE  TypeOK'
<1>1. PageOK /\ ClientOK /\ Queues /\ WebOK /\ faults \in 0..MaxFaults
  BY TypeParts
<1>2. CASE NewHead
  <2>1. head' \in Heads
    BY <1>1, <1>2, WebsiteConstants DEF NewHead, PageOK, Heads
  <2> QED
    BY <1>1, <1>2, <2>1, NextTypeParts DEF NewHead, PageOK, ClientOK, Queues, WebOK, client, web
<1>3. ASSUME NEW e \in Endpoint, Sees(e) PROVE TypeOK'
  <2> DEFINE m == Message("changed", FALSE, 0)
  <2>1. m \in Answer
    BY WebsiteConstants DEF Message, Answer
  <2> HIDE DEF m
  <2>2. inbox' = inbox \/ inbox' = Append(inbox, m)
    BY <1>3 DEF Sees, m
  <2>3. Append(inbox, m) \in Seq(Answer)
    BY <1>1, <2>1 DEF Queues
  <2>4. /\ view' = [view EXCEPT ![e] = head]
        /\ UNCHANGED <<head, page, shown, current, ws, retry, polling, subscribed, stalled, asked, missed, web, faults>>
    BY <1>3 DEF Sees
  <2>5. PageOK' /\ ClientOK' /\ WebOK'
    BY <1>1, <2>4 DEF PageOK, ClientOK, WebOK, web
  <2> QED
    BY <1>1, <2>2, <2>3, <2>4, <2>5, NextTypeParts DEF Queues
<1>4. CASE Serve
  <2> DEFINE q == Head(asked)
             n == IF q.kind = "list" THEN view[current] ELSE 0
  <2>1. q \in Asked /\ Tail(asked) \in Seq(Asked)
    <3>1. asked # <<>> /\ asked \in Seq(Asked)
      BY <1>1, <1>4 DEF Serve, Queues
    <3> QED
      BY <3>1, HeadTailProperties
  <2>2. q.kind \in Kind /\ q.live \in BOOLEAN
    BY <2>1 DEF Asked
  <2>3. n \in Heads
    BY <1>1, WebsiteConstants DEF PageOK, ClientOK
  <2> HIDE DEF n, q
  <2>4. Message(q.kind, q.live, n) \in Answer /\ Message(q.kind, q.live, Refusal) \in Answer
    BY <2>2, <2>3 DEF Message, Answer
  <2>5. /\ asked' = Tail(asked)
        /\ \/ inbox' = Append(inbox, Message(q.kind, q.live, n))
           \/ inbox' = Append(inbox, Message(q.kind, q.live, Refusal))
    BY <1>4 DEF Serve, q, n
  <2>6. Queues'
    <3>1. \A m \in Answer : Append(inbox, m) \in Seq(Answer)
      BY <1>1 DEF Queues
    <3> QED
      BY <2>1, <2>4, <2>5, <3>1 DEF Queues
  <2>7. /\ faults' \in 0..MaxFaults
        /\ missed' = missed \/ missed' = missed \cup ({q.kind} \cap {"subscribe"})
        /\ \/ subscribed' = subscribed \/ subscribed' = (subscribed \/ q.kind = "subscribe")
        /\ UNCHANGED <<chain, page, shown, current, ws, retry, polling, stalled, web>>
    BY <1>1, <1>4, FaultKept DEF Serve, q
  <2>8. subscribed' \in BOOLEAN /\ missed' \subseteq Kind
    BY <1>1, <2>7 DEF ClientOK, Kind
  <2>9. PageOK' /\ ClientOK' /\ WebOK'
    BY <1>1, <2>7, <2>8 DEF PageOK, ClientOK, WebOK, chain, web
  <2> QED
    BY <2>6, <2>7, <2>9, NextTypeParts
<1>5. CASE Stall
  <2>1. faults' \in 0..MaxFaults
    BY <1>1, <1>5, FaultKept DEF Stall
  <2> QED
    BY <1>1, <1>5, <2>1, NextTypeParts DEF Stall, PageOK, ClientOK, Queues, WebOK, chain, web
<1> QED
  BY <1>2, <1>3, <1>4, <1>5

LEMMA PublisherType ==
  ASSUME TypeOK, PublisherStep \/ Restart \/ Wipe
  PROVE  TypeOK'
<1>1. PageOK /\ ClientOK /\ Queues /\ WebOK /\ faults \in 0..MaxFaults
  BY TypeParts
<1>2. UNCHANGED <<chain, page, client>> /\ faults' \in 0..MaxFaults
  BY <1>1, FaultKept DEF PublisherStep, MakeDir, TruncateManifest, WriteManifest, TruncateTmp, WriteTmp,
     Rename, Restart, Wipe, OnlyWeb
<1>3. PageOK' /\ ClientOK' /\ Queues'
  BY <1>1, <1>2 DEF PageOK, ClientOK, Queues, chain, client
<1>4. dir' \in BOOLEAN
  BY <1>1 DEF WebOK, PublisherStep, MakeDir, TruncateManifest, WriteManifest, TruncateTmp, WriteTmp,
     Rename, Restart, Wipe
<1>5. publisher' \in {"pass", "manifest", "writing", "status", "tmp", "rename"}
  BY <1>1 DEF WebOK, PublisherStep, MakeDir, TruncateManifest, WriteManifest, TruncateTmp, WriteTmp,
     Rename, Restart, Wipe, Goes, NoRename
<1>6. file' \in File
  <2>1. /\ Complete(file.manifest) \in {"absent", "torn", "whole"}
        /\ Complete(file.tmp) \in {"absent", "torn", "whole"}
        /\ file.tmp \in {"absent", "torn", "whole"}
    BY <1>1 DEF WebOK, File, Complete
  <2>2. \A m \in {"absent", "torn", "whole"} :
          /\ [file EXCEPT !.manifest = m] \in File
          /\ [file EXCEPT !.tmp = m] \in File
          /\ [file EXCEPT !.status = m, !.tmp = "absent"] \in File
    BY <1>1 DEF WebOK, File
  <2>3. [manifest |-> "absent", status |-> "absent", tmp |-> "absent"] \in File
    BY DEF File
  <2>4. CASE file' = file
    BY <1>1, <2>4 DEF WebOK
  <2>5. CASE TruncateManifest \/ WriteManifest \/ TruncateTmp \/ WriteTmp
    BY <2>1, <2>2, <2>4, <2>5 DEF TruncateManifest, WriteManifest, TruncateTmp, WriteTmp
  <2>6. CASE Rename
    BY <2>1, <2>2, <2>4, <2>6 DEF Rename
  <2>7. CASE MakeDir \/ Restart
    BY <2>4, <2>7 DEF MakeDir, Restart
  <2>8. CASE Wipe
    BY <2>3, <2>8 DEF Wipe
  <2> QED
    BY <2>5, <2>6, <2>7, <2>8 DEF PublisherStep
<1>7. WebOK'
  BY <1>4, <1>5, <1>6 DEF WebOK
<1> QED
  BY <1>2, <1>3, <1>7, NextTypeParts

LEMMA TypeStep == TypeOK /\ [Next]_vars => TypeOK'
<1> SUFFICES ASSUME TypeOK, [Next]_vars PROVE TypeOK'
  OBVIOUS
<1>1. CASE UNCHANGED vars
  <2>1. PageOK /\ ClientOK /\ Queues /\ WebOK /\ faults \in 0..MaxFaults
    BY TypeParts
  <2> QED
    BY <1>1, <2>1, NextTypeParts DEF vars, chain, client, web, PageOK, ClientOK, Queues, WebOK
<1> QED
  BY <1>1, SocketType, AnswerType, ServerType, PublisherType DEF Next

LEMMA InitType == Init => TypeOK
<1> SUFFICES ASSUME Init PROVE TypeOK
  OBVIOUS
<1>1. PageOK
  BY WebsiteConstants DEF Init, PageOK
<1>2. ClientOK
  BY WebsiteConstants DEF Init, ClientOK
<1>3. Queues
  BY DEF Init, Queues
<1>4. WebOK /\ faults \in 0..MaxFaults
  BY WebsiteConstants DEF Init, WebOK, File
<1> QED
  BY <1>1, <1>2, <1>3, <1>4, TypeParts

(* However many endpoints there are and whatever fails, the page's index stays inside its pool    *)
(* and what it shows is a head that was on chain, never a refusal.                                *)
THEOREM TypeCorrect == Spec => []TypeOK
<1>1. Init => TypeOK
  BY InitType
<1>2. TypeOK /\ [Next]_vars => TypeOK'
  BY TypeStep
<1> QED
  BY <1>1, <1>2, PTL DEF Spec

-----------------------------------------------------------------------------
(* The connection. *)

(* Nothing is opened, and no timer is set, before the manifest is there. *)
NotBefore == page # "running" => ws = "none" /\ retry = FALSE

(* Exactly one way on needs that the page has none at all before it runs, and that the truth of   *)
(* the timer is a truth value.                                                                    *)
ConnectionInv == TypeOK /\ OneConnection /\ NotBefore

LEMMA ConnectionStep == ConnectionInv /\ [Next]_vars => ConnectionInv'
<1> SUFFICES ASSUME ConnectionInv, [Next]_vars PROVE ConnectionInv'
  OBVIOUS
<1>0. TypeOK /\ OneConnection /\ NotBefore
  BY DEF ConnectionInv
<1>1. TypeOK'
  BY <1>0, TypeStep
<1> SUFFICES OneConnection' /\ NotBefore'
  BY <1>1 DEF ConnectionInv
<1>2. page \in {"loading", "deploying", "running"} /\ retry \in BOOLEAN /\ polling \in BOOLEAN
  BY <1>0 DEF TypeOK
<1>3. ASSUME page' = page, ws' = ws, retry' = retry, polling' = polling, current' = current
      PROVE  OneConnection' /\ NotBefore'
  BY <1>0, <1>3 DEF OneConnection, NotBefore
<1>4. CASE Load
  BY <1>0, <1>4 DEF Load, OneConnection, NotBefore
<1>5. CASE Open
  BY <1>0, <1>2, <1>5 DEF Open, OneConnection, NotBefore
<1>6. CASE Closed \/ HeartbeatFails
  BY <1>0, <1>2, <1>6 DEF Closed, HeartbeatFails, OnClose, NoSocket, OneConnection, NotBefore
<1>7. CASE Reconnect
  BY <1>0, <1>2, <1>7 DEF Reconnect, OneConnection, NotBefore
<1>8. CASE Poll
  BY <1>3, <1>8 DEF Poll
<1>9. CASE OnMessage \/ TimeOut
  BY <1>3, <1>9 DEF OnMessage, TimeOut
<1>10. CASE NewHead \/ (\E e \in Endpoint : Sees(e)) \/ Serve \/ Stall
  BY <1>3, <1>10 DEF NewHead, Sees, Serve, Stall, client
<1>11. CASE PublisherStep \/ Restart \/ Wipe
  BY <1>3, <1>11 DEF PublisherStep, MakeDir, TruncateManifest, WriteManifest, TruncateTmp, WriteTmp,
     Rename, Restart, Wipe, OnlyWeb, client
<1>12. CASE UNCHANGED vars
  BY <1>3, <1>12 DEF vars, client
<1> QED
  BY <1>4, <1>5, <1>6, <1>7, <1>8, <1>9, <1>10, <1>11, <1>12 DEF Next

(* A running page has exactly one socket or one timer, whatever closes, stalls or is refused      *)
(* while it connects; it never opens a second one and is never left with nothing to wake it.      *)
THEOREM AlwaysOneConnection == Spec => []OneConnection
<1>1. Init => ConnectionInv
  <2>1. Init => TypeOK
    BY InitType
  <2> QED
    BY <2>1 DEF Init, ConnectionInv, OneConnection, NotBefore
<1>2. ConnectionInv /\ [Next]_vars => ConnectionInv'
  BY ConnectionStep
<1>3. ConnectionInv => OneConnection
  BY DEF ConnectionInv
<1> QED
  BY <1>1, <1>2, <1>3, PTL DEF Spec

-----------------------------------------------------------------------------
(* The files. *)

(* What is about to be renamed is written, or wiped. *)
WrittenInv ==
    /\ TypeOK /\ StatusWhole
    /\ publisher = "rename" => file.tmp # "torn"

LEMMA WrittenStep == WrittenInv /\ [Next]_vars => WrittenInv'
<1> SUFFICES ASSUME WrittenInv, [Next]_vars PROVE WrittenInv'
  OBVIOUS
<1>0. TypeOK /\ file \in File /\ file.status # "torn" /\ (publisher = "rename" => file.tmp # "torn")
  BY TypeParts DEF WrittenInv, StatusWhole, WebOK
<1>1. TypeOK'
  BY <1>0, TypeStep
<1>2. ASSUME UNCHANGED <<publisher, file>> PROVE WrittenInv'
  BY <1>0, <1>1, <1>2 DEF WrittenInv, StatusWhole
<1>3. CASE PublisherStep
  <2>1. ASSUME file'.status = file.status, publisher' # "rename" PROVE WrittenInv'
    BY <1>0, <1>1, <2>1 DEF WrittenInv, StatusWhole
  <2>2. CASE MakeDir \/ TruncateManifest \/ WriteManifest \/ TruncateTmp
    BY <1>0, <2>1, <2>2 DEF MakeDir, TruncateManifest, WriteManifest, TruncateTmp, Goes, File
  <2>3. CASE WriteTmp
    <3>1. Complete(file.tmp) # "torn"
      BY DEF Complete
    <3>2. CASE file' = [file EXCEPT !.tmp = Complete(@)]
      BY <1>0, <1>1, <3>1, <3>2 DEF WrittenInv, StatusWhole, File
    <3>3. CASE file' = file /\ publisher' = "pass"
      BY <2>1, <3>3
    <3> QED
      BY <2>3, <3>2, <3>3 DEF WriteTmp, Goes, NoRename
  <2>4. CASE Rename
    <3>1. file.tmp # "torn" /\ publisher' = "pass"
      BY <1>0, <2>4 DEF Rename, Goes
    <3>2. file'.status \in {file.status, file.tmp}
      BY <1>0, <2>4 DEF Rename, File
    <3> QED
      BY <1>0, <1>1, <3>1, <3>2 DEF WrittenInv, StatusWhole
  <2> QED
    BY <1>3, <2>2, <2>3, <2>4 DEF PublisherStep
<1>4. CASE Restart \/ Wipe
  <2>1. \/ file' = file /\ publisher' = "pass"
        \/ file'.status = "absent" /\ file'.tmp = "absent"
    <3>1. CASE Restart
      BY <3>1 DEF Restart, Goes
    <3>2. CASE Wipe
      BY <3>2 DEF Wipe
    <3> QED
      BY <1>4, <3>1, <3>2
  <2> QED
    BY <1>0, <1>1, <2>1 DEF WrittenInv, StatusWhole
<1>5. CASE Load \/ Open \/ Closed \/ HeartbeatFails \/ Reconnect \/ Poll \/ OnMessage \/ TimeOut
  BY <1>2, <1>5 DEF Load, Open, Closed, HeartbeatFails, OnClose, Reconnect, Poll, OnMessage, TimeOut, web
<1>6. CASE NewHead \/ (\E e \in Endpoint : Sees(e)) \/ Serve \/ Stall
  BY <1>2, <1>6 DEF NewHead, Sees, Serve, Stall, web
<1>7. CASE UNCHANGED vars
  BY <1>2, <1>7 DEF vars, web
<1> QED
  BY <1>3, <1>4, <1>5, <1>6, <1>7 DEF Next

(* Whoever reads status.json gets all of it, wherever the daemon is killed, whichever write fails *)
(* and whenever the web build wipes the directory (publish.rs: a file written aside, renamed).    *)
THEOREM StatusIsWhole == Spec => []StatusWhole
<1>1. Init => WrittenInv
  <2>1. Init => TypeOK
    BY InitType
  <2> QED
    BY <2>1 DEF Init, WrittenInv, StatusWhole
<1>2. WrittenInv /\ [Next]_vars => WrittenInv'
  BY WrittenStep
<1>3. WrittenInv => StatusWhole
  BY DEF WrittenInv
<1> QED
  BY <1>1, <1>2, <1>3, PTL DEF Spec
=============================================================================
