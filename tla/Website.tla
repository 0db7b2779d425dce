------------------------------ MODULE Website ------------------------------
(***************************************************************************)
(* What a visitor sees: publish_loop of the node writing manifest.json and *)
(* status.json into the web root, and the page, which loads the manifest   *)
(* once and then follows the head over one WebSocket at a time.            *)
(*                                                                         *)
(* A head is its number.  Servers follow the chain, each at its own pace,  *)
(* answer in order, and tell subscribers of a change.  A connection may    *)
(* close, or stall: then nothing comes through any more.                   *)
(***************************************************************************)
EXTENDS Integers, Sequences

CONSTANTS
    Pool,       \* FULCRUM_WSS_POOL: how many endpoints
    Polled,     \* those whose mode is "poll"
    MaxHead,    \* bound on the heads
    MaxFaults   \* bound on what fails

Endpoint == 0..(Pool - 1)
Heads == 0..MaxHead     \* 0: none seen

ASSUME PoolAssumption ==
    /\ Pool \in Nat \ {0} /\ Polled \subseteq Endpoint
    /\ MaxHead \in Nat \ {0} /\ MaxFaults \in Nat

VARIABLES
    head,       \* the newest head on the chain
    view,       \* the newest head each server knows
    page,       \* "loading", "deploying" (for good), "running"
    shown,      \* the head the page shows
    current,    \* index of the endpoint in use
    ws,         \* "none", "connecting", "open"
    retry,      \* the reconnect timer is set
    polling,    \* pollTimer is set
    subscribed, \* the server has this connection's subscription
    stalled,    \* nothing comes through this connection any more
    asked,      \* requests on their way: [kind, live]; live: still in `pending`
    inbox,      \* messages on their way back: [kind, live, n]
    missed,     \* history: which of this connection's last requests of a kind failed
    publisher,  \* where publish_loop is
    dir,        \* whether the web root exists
    file,       \* manifest.json, status.json, status.json.tmp: "absent", "torn" or "whole"
    faults      \* failures so far

client == <<shown, current, ws, retry, polling, subscribed, stalled, asked, inbox, missed>>
chain == <<head, view>>
web == <<publisher, dir, file>>
vars == <<chain, page, client, web, faults>>

Fault == faults < MaxFaults /\ faults' = faults + 1

-----------------------------------------------------------------------------
(* ElectrumWS *)

Request(kind) == [kind |-> kind, live |-> TRUE]

(* refetch *)
Refetch == asked' = Append(asked, Request("list")) /\ missed' = missed \ {"list"}

(* A request failed while its socket is open.  A later one of its kind makes up for it. *)
Failed(kind, queues) ==
    missed \cup (IF \E i \in DOMAIN queues : queues[i].kind = kind /\ queues[i].live THEN {} ELSE {kind})

(* The page loads manifest.json once.  Without one it says "deploying" and does nothing more. *)
Load ==
    /\ page = "loading"
    /\ page' = IF file.manifest = "whole" THEN "running" ELSE "deploying"
    /\ ws' = IF file.manifest = "whole" THEN "connecting" ELSE "none"
    /\ UNCHANGED <<chain, shown, current, retry, polling, subscribed, stalled, asked, inbox, missed, web, faults>>

(* Mutation: the list is asked for at once, and what becomes of the subscription is ignored. *)
ListFirst == <<Request("list"), [kind |-> "subscribe", live |-> FALSE]>>
Subscribing == <<Request("subscribe")>>

(* onopen: arm the watch.  A subscription is followed by a listunspent; a polled endpoint is asked *)
(* at once and then on a timer.                                                                   *)
Open ==
    /\ ws = "connecting"
    /\ ws' = "open"
    /\ polling' = (current \in Polled)
    /\ asked' = IF current \in Polled THEN <<Request("list")>> ELSE Subscribing
    /\ UNCHANGED <<chain, page, shown, current, retry, subscribed, stalled, inbox, missed, web, faults>>

(* Mutations: closing opens the next socket and sets the timer besides; the index does not wrap. *)
NextSocketNow == ws' = "connecting"
NoSocket == ws' = "none"
NextEndpoint == (current + 1) % Pool

(* onclose: everything of this socket goes, and the next endpoint is tried after a pause. *)
OnClose ==
    /\ NoSocket
    /\ polling' = FALSE
    /\ retry' = TRUE
    /\ current' = NextEndpoint
    /\ subscribed' = FALSE /\ stalled' = FALSE
    /\ asked' = <<>> /\ inbox' = <<>> /\ missed' = {}
    /\ UNCHANGED <<chain, page, shown, web>>

(* The server or the network closes it, or eight seconds pass without onopen. *)
Closed == ws # "none" /\ Fault /\ OnClose

(* A server.ping is not answered. *)
HeartbeatFails == ws = "open" /\ stalled /\ OnClose /\ UNCHANGED faults

Reconnect ==
    /\ retry
    /\ retry' = FALSE
    /\ ws' = "connecting"
    /\ UNCHANGED <<chain, page, shown, current, polling, subscribed, stalled, asked, inbox, missed, web, faults>>

(* The timer's period is such that at most two of its requests wait at a time. *)
Poll ==
    /\ polling /\ Len(asked) + Len(inbox) < 2
    /\ Refetch
    /\ UNCHANGED <<chain, page, shown, current, ws, retry, polling, subscribed, stalled, inbox, web, faults>>

(* onMessage: an answer nobody waits for any more is dropped.  A subscription, granted or refused, *)
(* and each change are followed by a listunspent, whose newest head is shown.                     *)
OnMessage ==
    LET m == Head(inbox)
        refetches == m.kind = "changed" \/ (m.kind = "subscribe" /\ m.live)
    IN  /\ inbox # <<>> /\ ~stalled
        /\ inbox' = Tail(inbox)
        /\ \/ /\ refetches
              /\ Refetch
              /\ UNCHANGED shown
           \/ /\ m.kind = "list" /\ m.live
              /\ shown' = IF m.n > 0 THEN m.n ELSE shown
              /\ missed' = IF m.n < 0 THEN Failed("list", inbox' \o asked) ELSE missed
              /\ UNCHANGED asked
           \/ m.kind # "changed" /\ ~m.live /\ UNCHANGED <<asked, shown, missed>>
        /\ UNCHANGED <<chain, page, current, ws, retry, polling, subscribed, stalled, web, faults>>

(* Fifteen seconds pass: the first request that still waits is given up.  The server may serve it  *)
(* all the same.  refetch's catch does nothing; arm's catch asks for the list.                    *)
Expire(q, i) == [q EXCEPT ![i].live = FALSE]
FirstLive(q) == CHOOSE i \in DOMAIN q : q[i].live /\ \A j \in 1..(i - 1) : ~q[j].live
Waiting(q) == \E i \in DOMAIN q : q[i].live

TimeOut ==
    LET here == Waiting(inbox)
        kind == IF here THEN inbox[FirstLive(inbox)].kind ELSE asked[FirstLive(asked)].kind
        left == IF here THEN asked ELSE Expire(asked, FirstLive(asked))
    IN  /\ Waiting(inbox) \/ Waiting(asked)
        /\ IF stalled THEN UNCHANGED faults ELSE Fault
        /\ inbox' = IF here THEN Expire(inbox, FirstLive(inbox)) ELSE inbox
        /\ \/ kind = "subscribe" /\ asked' = Append(left, Request("list")) /\ missed' = missed \ {"list"}
           \/ kind = "list" /\ asked' = left /\ missed' = Failed("list", inbox' \o left)
        /\ UNCHANGED <<chain, page, shown, current, ws, retry, polling, subscribed, stalled, web>>

-----------------------------------------------------------------------------
(* The chain and the servers. *)

Message(kind, live, n) == [kind |-> kind, live |-> live, n |-> n]
Refusal == -1

NewHead ==
    /\ head < MaxHead
    /\ head' = head + 1
    /\ UNCHANGED <<view, page, client, web, faults>>

Sees(e) ==
    /\ view[e] < head
    /\ view' = [view EXCEPT ![e] = head]
    /\ inbox' = IF ws = "open" /\ e = current /\ subscribed THEN Append(inbox, Message("changed", FALSE, 0)) ELSE inbox
    /\ UNCHANGED <<head, page, shown, current, ws, retry, polling, subscribed, stalled, asked, missed, web, faults>>

Serve ==
    LET q == Head(asked)
    IN  /\ asked # <<>> /\ ~stalled
        /\ asked' = Tail(asked)
        /\ \/ /\ subscribed' = (subscribed \/ q.kind = "subscribe")
              /\ inbox' = Append(inbox, Message(q.kind, q.live, IF q.kind = "list" THEN view[current] ELSE 0))
              /\ UNCHANGED <<missed, faults>>
           \/ /\ Fault
              /\ inbox' = Append(inbox, Message(q.kind, q.live, Refusal))
              /\ missed' = missed \cup ({q.kind} \cap {"subscribe"})
              /\ UNCHANGED subscribed
        /\ UNCHANGED <<chain, page, shown, current, ws, retry, polling, stalled, web>>

Stall ==
    /\ ws = "open" /\ ~stalled /\ Fault
    /\ stalled' = TRUE
    /\ UNCHANGED <<chain, page, shown, current, ws, retry, polling, subscribed, asked, inbox, missed, web>>

-----------------------------------------------------------------------------
(* publish_loop *)

Goes(pc) == publisher' = pc
OnlyWeb == UNCHANGED <<chain, page, client>>

(* Each pass begins with create_dir_all. *)
MakeDir ==
    /\ publisher = "pass"
    /\ dir' = TRUE /\ Goes("manifest")
    /\ OnlyWeb /\ UNCHANGED <<file, faults>>

(* Mutation: the manifest is written once. *)
OnceOnly == file.status = "absent"
EveryPass == TRUE

(* fs::write truncates, then writes; a file wiped in between is gone, and errors are ignored. *)
TruncateManifest ==
    /\ publisher = "manifest"
    /\ IF dir /\ EveryPass
         THEN file' = [file EXCEPT !.manifest = "torn"] /\ Goes("writing")
         ELSE UNCHANGED file /\ Goes("status")
    /\ OnlyWeb /\ UNCHANGED <<dir, faults>>

Complete(f) == IF f = "torn" THEN "whole" ELSE f

WriteManifest ==
    /\ publisher = "writing" /\ Goes("status")
    /\ \/ file' = [file EXCEPT !.manifest = Complete(@)] /\ UNCHANGED faults
       \/ Fault /\ UNCHANGED file
    /\ OnlyWeb /\ UNCHANGED dir

(* After status_json, which waits for servers and notaries. *)
TruncateTmp ==
    /\ publisher = "status"
    /\ IF dir
         THEN file' = [file EXCEPT !.tmp = "torn"] /\ Goes("tmp")
         ELSE UNCHANGED file /\ Goes("pass")
    /\ OnlyWeb /\ UNCHANGED <<dir, faults>>

(* Mutation: the result of the write is not looked at. *)
RenameAnyway == "rename"
NoRename == "pass"

WriteTmp ==
    /\ publisher = "tmp"
    /\ \/ file' = [file EXCEPT !.tmp = Complete(@)] /\ Goes("rename") /\ UNCHANGED faults
       \/ Fault /\ Goes(NoRename) /\ UNCHANGED file
    /\ OnlyWeb /\ UNCHANGED dir

Rename ==
    /\ publisher = "rename" /\ Goes("pass")
    /\ file' = IF file.tmp = "absent" THEN file ELSE [file EXCEPT !.status = file.tmp, !.tmp = "absent"]
    /\ OnlyWeb /\ UNCHANGED <<dir, faults>>

(* The daemon is killed and started again. *)
Restart ==
    /\ Fault /\ Goes("pass")
    /\ OnlyWeb /\ UNCHANGED <<dir, file>>

(* The web build empties its output directory, or replaces it. *)
Wipe ==
    /\ Fault
    /\ dir' \in {dir, FALSE}
    /\ file' = [manifest |-> "absent", status |-> "absent", tmp |-> "absent"]
    /\ OnlyWeb /\ UNCHANGED publisher

PublisherStep ==
    MakeDir \/ TruncateManifest \/ WriteManifest \/ TruncateTmp \/ WriteTmp \/ Rename

-----------------------------------------------------------------------------
Init ==
    /\ head = 1 /\ view \in [Endpoint -> {0, 1}]
    /\ page = "loading" /\ shown = 0
    /\ current = 0 /\ ws = "none" /\ retry = FALSE
    /\ polling = FALSE /\ subscribed = FALSE /\ stalled = FALSE
    /\ asked = <<>> /\ inbox = <<>> /\ missed = {}
    /\ publisher = "pass" /\ dir = TRUE
    /\ file \in [manifest: {"absent", "whole"}, status: {"absent"}, tmp: {"absent"}]
    /\ faults = 0

Next ==
    \/ Load \/ Open \/ Closed \/ HeartbeatFails \/ Reconnect \/ Poll \/ OnMessage \/ TimeOut
    \/ NewHead \/ (\E e \in Endpoint : Sees(e)) \/ Serve \/ Stall
    \/ PublisherStep \/ Restart \/ Wipe

(* Timers fire, servers answer and learn of the head, and the daemon runs. *)
Spec ==
    /\ Init /\ [][Next]_vars
    /\ WF_vars(Open) /\ WF_vars(HeartbeatFails) /\ WF_vars(Reconnect) /\ WF_vars(Poll)
    /\ WF_vars(OnMessage) /\ WF_vars(Serve) /\ (\A e \in Endpoint : WF_vars(Sees(e)))
    /\ WF_vars(PublisherStep)

-----------------------------------------------------------------------------
(* Properties. *)

Kind == {"subscribe", "list"}

TypeOK ==
    /\ head \in Heads /\ view \in [Endpoint -> Heads] /\ shown \in Heads
    /\ page \in {"loading", "deploying", "running"}
    /\ current \in Endpoint /\ ws \in {"none", "connecting", "open"}
    /\ {retry, polling, subscribed, stalled, dir} \subseteq BOOLEAN
    /\ asked \in Seq([kind: Kind, live: BOOLEAN])
    /\ inbox \in Seq([kind: Kind \cup {"changed"}, live: BOOLEAN, n: Heads \cup {Refusal}])
    /\ missed \subseteq Kind
    /\ publisher \in {"pass", "manifest", "writing", "status", "tmp", "rename"}
    /\ file \in [manifest: {"absent", "torn", "whole"}, status: {"absent", "torn", "whole"},
                 tmp: {"absent", "torn", "whole"}]
    /\ faults \in 0..MaxFaults

(* A running page always has exactly one way on: a socket being opened, an open one, or a timer   *)
(* that will open one; and it polls only on an open socket to an endpoint that is to be polled.   *)
OneConnection ==
    /\ page = "running" => (ws = "none") = retry
    /\ polling => ws = "open" /\ current \in Polled

(* The page ends up showing the newest head, whatever falls between subscribing and asking and    *)
(* however often it reconnects, unless its connection's last subscription or last listunspent     *)
(* failed while the connection stayed open (arm, refetch).                                        *)
CatchesUp ==
    <>[](page = "running" => shown = head \/ missed # {})

(* Whoever reads status.json gets a whole one: it is renamed into place only when written.        *)
StatusWhole == file.status # "torn"

(* A manifest wiped by the web build comes back (builder.rs: "re-published every pass").          *)
Republished == (file.manifest = "absent") ~> (file.manifest = "whole")
=============================================================================
