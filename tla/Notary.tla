------------------------------- MODULE Notary -------------------------------
(***************************************************************************)
(* One row of the oracle: the ticker-notary process, its statement log and *)
(* its clock.  The process is killed and started again at any point, a     *)
(* write to the log fails or is cut short, and the clock is set back by up *)
(* to MaxBack in all.                                                      *)
(*                                                                         *)
(* Time is counted in ticks, MinuteLen to a minute.  The exchange answers  *)
(* (see Quote) late or not at all.  A statement is its minute and its      *)
(* price.                                                                  *)
(***************************************************************************)
EXTENDS Quote, FiniteSets

CONSTANTS
    NoPrice,      \* no price in hand
    MinuteLen,    \* ticks in a minute (60 s)
    Window,       \* WINDOW_SECS: how long after its start a minute may be signed (90 s)
    LastAttempt,  \* LAST_ATTEMPT_SEC: no fetch starts after this tick of the minute (45 s)
    Spacing,      \* RETRY_SPACING (6 s)
    Offset,       \* offset_ms: when in the minute the loop wakes (2 s)
    Retries,      \* attempts in a minute, at least one (3)
    Keep,         \* KEEP: statements in memory (2000)
    MaxBack,      \* how far the clock is ever set back, in all
    MaxRuns,      \* bound on process starts
    MaxClock      \* bound on the clock

ASSUME TimingAssumption ==
    /\ MinuteLen \in Nat \ {0} /\ Window \in Nat /\ LastAttempt \in 0..(MinuteLen - 1)
    /\ Spacing \in Nat \ {0} /\ Offset \in 0..LastAttempt
    /\ Retries \in Nat \ {0} /\ Keep \in Nat \ {0}
    /\ MaxBack \in Nat /\ MaxRuns \in Nat /\ MaxClock \in Nat /\ MaxClock >= MinuteLen - 1

(* The clock never goes back by as much as the kept statements span (33 hours). *)
ASSUME ClockAssumption == MaxBack + Window <= Keep * MinuteLen

VARIABLES
    clock,    \* the notary's wall clock
    back,     \* how far it has been set back so far
    pc,       \* where minute_loop is; "down" when there is no process
    timer,    \* ticks left of the sleep under way
    seq,      \* the minute being worked on
    attempt,  \* the fetch being made, 1..Retries
    price,    \* the price just signed, until the append is over
    issued,   \* the map in memory, minute -> price: what the API serves
    file,     \* statements.jsonl: [read: minute -> price of its whole lines, tail]
    run,      \* history: process starts
    held,     \* history: since its start the process was held up, or its clock was set back
    signed    \* history: every statement signed, [minute, price, run]

vars == <<clock, back, pc, timer, seq, attempt, price, issued, file, run, held, signed>>

Minute == 0..(MaxClock \div MinuteLen)
Waiting == {"asleep", "pause", "fetch"}
Empty == [m \in {} |-> 0]

(* The unterminated last line of the log: nothing, one statement, or text that parses as none. *)
Line(m, p) == [kind |-> "line", minute |-> m, price |-> p]
NoTail == [kind |-> "none"]
Junk == [kind |-> "junk"]
Tails == {Line(m, p) : m \in Minute, p \in Price} \cup {NoTail, Junk}
IsStatement(t) == t.kind = "line"

current_minute == clock \div MinuteLen
Second == clock % MinuteLen

With(map, m, p) == [x \in DOMAIN map \cup {m} |-> IF x = m THEN p ELSE map[x]]

(* Mutations: the newest statement goes when the map is full; one too many stays. *)
TrimNewest(map) ==
    [m \in {x \in DOMAIN map :
              Cardinality({y \in DOMAIN map : y < x}) < Keep} |-> map[m]]

TrimLate(map) ==
    [m \in {x \in DOMAIN map :
              Cardinality({y \in DOMAIN map : y > x}) <= Keep} |-> map[m]]

(* The Keep newest minutes of a map. *)
Trim(map) ==
    [m \in {x \in DOMAIN map :
              Cardinality({y \in DOMAIN map : y > x}) < Keep} |-> map[m]]

(* Mutation: only terminated lines are loaded. *)
WholeLines(f) == Trim(f.read)

(* lines() yields an unterminated last line too; a line that is no statement is skipped, and the  *)
(* last line of a minute wins.                                                                    *)
load_issued(f) ==
    Trim(IF IsStatement(f.tail) THEN With(f.read, f.tail.minute, f.tail.price) ELSE f.read)

-----------------------------------------------------------------------------
(* The process starts: it loads the log, and works on the current minute if there is time. *)
Start ==
    /\ pc = "down"
    /\ run < MaxRuns
    /\ run' = run + 1
    /\ held' = FALSE
    /\ issued' = load_issued(file)
    /\ seq' = current_minute
    /\ pc' = IF Second <= LastAttempt THEN "begin" ELSE "idle"
    /\ UNCHANGED <<clock, back, timer, attempt, price, file, signed>>

(* sleep_until_next_minute: the timer is monotonic, the clock it is computed from is not. *)
Sleep ==
    /\ pc = "idle"
    /\ timer' = MinuteLen - Second + Offset
    /\ pc' = "asleep"
    /\ UNCHANGED <<clock, back, seq, attempt, price, issued, file, run, held, signed>>

Wake ==
    /\ pc = "asleep" /\ timer = 0
    /\ pc' = "begin"
    /\ UNCHANGED <<clock, back, timer, seq, attempt, price, issued, file, run, held, signed>>

(* minute(current_minute()): a minute in memory is done. *)
Begin ==
    /\ pc = "begin"
    /\ seq' = current_minute
    /\ attempt' = 1
    /\ pc' = IF current_minute \in DOMAIN issued THEN "idle" ELSE "fetch"
    /\ UNCHANGED <<clock, back, timer, price, issued, file, run, held, signed>>

(* No answer at all. *)
FetchFails ==
    /\ pc = "fetch"
    /\ pc' = "failed"
    /\ UNCHANGED <<clock, back, timer, seq, attempt, price, issued, file, run, held, signed>>

InWindow == clock \in (seq * MinuteLen)..(seq * MinuteLen + Window - 1)

(* attempt_once: sign what a usable answer shows, and publish it in memory before anything is on  *)
(* disk.                                                                                          *)
FetchAnswers(a) ==
    /\ pc = "fetch"
    /\ IF a \in Usable /\ InWindow /\ seq \notin DOMAIN issued
         THEN /\ signed' = signed \cup {[minute |-> seq, price |-> PriceOf[a], run |-> run]}
              /\ issued' = Trim(With(issued, seq, PriceOf[a]))
              /\ price' = PriceOf[a]
              /\ pc' = "append"
         ELSE /\ pc' = "failed"
              /\ UNCHANGED <<signed, issued, price>>
    /\ UNCHANGED <<clock, back, timer, seq, attempt, file, run, held>>

(* Mutation: the spacing is not counted against the minute. *)
TimeNow == current_minute = seq /\ Second <= LastAttempt
TimeForAnother == current_minute = seq /\ Second + Spacing <= LastAttempt

(* Another attempt only within the minute.  The last failed attempt waits the spacing out as well. *)
Retry ==
    /\ pc = "failed"
    /\ \/ /\ TimeForAnother
          /\ timer' = Spacing
          /\ pc' = "pause"
       \/ /\ ~TimeForAnother
          /\ pc' = "idle"
          /\ UNCHANGED timer
    /\ UNCHANGED <<clock, back, seq, attempt, price, issued, file, run, held, signed>>

Resume ==
    /\ pc = "pause" /\ timer = 0
    /\ \/ attempt < Retries /\ attempt' = attempt + 1 /\ pc' = "fetch"
       \/ attempt = Retries /\ pc' = "idle" /\ UNCHANGED attempt
    /\ UNCHANGED <<clock, back, timer, seq, price, issued, file, run, held, signed>>

(* append_statement: writeln! writes the line, then the newline.  What an earlier write left      *)
(* unterminated swallows the line.                                                                *)
Appended(f, m, p) ==
    [f EXCEPT !.tail = IF f.tail = NoTail THEN Line(m, p) ELSE Junk]

Terminated(f) ==
    [read |-> IF IsStatement(f.tail) THEN With(f.read, f.tail.minute, f.tail.price) ELSE f.read,
     tail |-> NoTail]

AppendLine ==
    /\ pc = "append"
    /\ file' = Appended(file, seq, price)
    /\ pc' = "newline"
    /\ UNCHANGED <<clock, back, timer, seq, attempt, price, issued, run, held, signed>>

AppendNewline ==
    /\ pc = "newline"
    /\ file' = Terminated(file)
    /\ pc' = "idle"
    /\ price' = NoPrice
    /\ UNCHANGED <<clock, back, timer, seq, attempt, issued, run, held, signed>>

(* Every error of the append is ignored: nothing written, part of the line, or no newline. *)
AppendFails ==
    /\ \/ pc = "append" /\ (UNCHANGED file \/ file' = [file EXCEPT !.tail = Junk])
       \/ pc = "newline" /\ UNCHANGED file
    /\ pc' = "idle"
    /\ price' = NoPrice
    /\ UNCHANGED <<clock, back, timer, seq, attempt, issued, run, held, signed>>

(* A crash, a signal or a power cut; memory is gone. *)
Stop ==
    /\ pc # "down"
    /\ pc' = "down"
    /\ issued' = Empty
    /\ timer' = 0
    /\ price' = NoPrice
    /\ UNCHANGED <<clock, back, seq, attempt, file, run, held, signed>>

-----------------------------------------------------------------------------
(* A process waits for the exchange and for its timers; when time passes anywhere else it is held  *)
(* up: a busy machine, a slow disk, a suspended guest.                                             *)
Tick ==
    /\ clock < MaxClock
    /\ clock' = clock + 1
    /\ timer' = IF timer > 0 THEN timer - 1 ELSE 0
    /\ held' = (held \/ (pc \notin {"down", "fetch"} /\ timer = 0))
    /\ UNCHANGED <<back, pc, seq, attempt, price, issued, file, run, signed>>

SetBack ==
    /\ clock > 0 /\ back < MaxBack
    /\ clock' = clock - 1
    /\ back' = back + 1
    /\ held' = TRUE
    /\ UNCHANGED <<pc, timer, seq, attempt, price, issued, file, run, signed>>

Init ==
    /\ clock \in 0..(MinuteLen - 1)
    /\ back = 0
    /\ pc = "down"
    /\ timer = 0 /\ seq = 0 /\ attempt = 1
    /\ price = NoPrice
    /\ issued = Empty
    /\ file = [read |-> Empty, tail |-> NoTail]
    /\ run = 0 /\ held = FALSE
    /\ signed = {}

Next ==
    \/ Start \/ Sleep \/ Wake \/ Begin
    \/ FetchFails \/ (\E a \in Answer : FetchAnswers(a)) \/ Retry \/ Resume
    \/ AppendLine \/ AppendNewline \/ AppendFails
    \/ Stop \/ Tick \/ SetBack

Spec == Init /\ [][Next]_vars

-----------------------------------------------------------------------------
(* Properties. *)

PriceMap == UNION {[D -> Price] : D \in SUBSET Minute}

TypeOK ==
    /\ clock \in 0..MaxClock /\ back \in 0..MaxBack
    /\ pc \in {"down", "idle", "asleep", "begin", "fetch", "failed", "pause", "append", "newline"}
    /\ timer \in 0..(MinuteLen + Offset + Spacing)
    /\ seq \in Minute /\ attempt \in 1..Retries /\ price \in Price \cup {NoPrice}
    /\ issued \in PriceMap /\ Cardinality(DOMAIN issued) <= Keep
    /\ file \in [read: PriceMap, tail: Tails]
    /\ run \in 0..MaxRuns /\ held \in BOOLEAN
    /\ signed \subseteq [minute: Minute, price: Price, run: 1..MaxRuns]

(* One process never signs two prices for a minute, even when its clock is set back and the map   *)
(* has been trimmed meanwhile (main.rs: "at most once per Unix minute").                          *)
OncePerRun ==
    \A s, t \in signed : s.run = t.run /\ s.minute = t.minute => s = t

Logged(m) == m \in DOMAIN file.read \/ (IsStatement(file.tail) /\ file.tail.minute = m)

(* A minute whose statement can be read from the log is never signed again, by this process or by *)
(* any later one, wherever the restarts and the set-backs fall: what the reload is for.           *)
NeverSignsLogged ==
    [][\A s \in signed' \ signed : ~Logged(s.minute)]_vars

(* Every price signed is one the exchange showed, to within the rounding: never another number    *)
(* read out of a torn answer, or out of a text that only begins with one (price.rs: "anything     *)
(* that is not digits[.digits] is rejected outright").                                            *)
SignedIsShown ==
    \A s \in signed : s.price \in Fair

(* No fetch starts after LAST_ATTEMPT_SEC of its own minute (the comment on that constant), given *)
(* the process is not held up: the check before a retry leaves room for the spacing.              *)
NoLateFetch ==
    [][~held /\ pc # "fetch" /\ pc' = "fetch" => seq' = current_minute /\ Second <= LastAttempt]_vars

(* main.rs says of the log that it is "reloaded at start so a restart cannot double-issue". *)
NoDoubleIssue ==
    \A s, t \in signed : s.minute = t.minute => s.price = t.price

(* main.rs says of minute_loop that it works "each minute": a process that goes on to another     *)
(* minute, and is not held up, goes on to the next one.                                           *)
EachMinute ==
    [][~held /\ run' = run /\ seq' # seq => seq' = seq + 1]_vars
=============================================================================
