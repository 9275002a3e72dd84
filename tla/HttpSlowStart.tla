---------------------------- MODULE HttpSlowStart ----------------------------
(***************************************************************************)
(* How the download loop of the HTTP fetcher and its connections agree on  *)
(* when to open more of them (internal/protocol/http/fetcher.go):          *)
(* slowStartController counts the answers to a batch of connections and    *)
(* signals the loop, downloadLoop opens the next, larger batch or waits    *)
(* for the end.                                                            *)
(*                                                                         *)
(* Ranges and size as in HttpChunks, which has the bytes; here a chunk is  *)
(* split, stolen or finished whenever its size might allow it.  A section  *)
(* of connMu or of the controller's mutex is one step.  The resource keeps *)
(* its ranges: the sequential fallback is left out.                        *)
(***************************************************************************)
EXTENDS Naturals, FiniteSets

CONSTANTS
  MaxConns,   \* slowStart.maxConnections
  MaxRetry,   \* counted failures after which a connection gives up
  MaxTurns    \* bound: steals, failures that are tried again without being counted, and pauses

ASSUME BoundAssumption ==
  MaxConns \in Nat \ {0} /\ MaxRetry \in Nat \ {0} /\ MaxTurns \in Nat

Conns == 0 .. MaxConns - 1

VARIABLES
  n,          \* len(f.connections)
  state,      \* conn.State: "open" until it is completed, or failed (and perhaps retried)
  run,        \* where the goroutine runConnection stands
  answered,   \* the request for the present chunk got a response
  tries,      \* conn.retryTimes
  launched, pending, ready, nextBatch, \* the counters of slowStartController
  signal,     \* expansionCh is full
  late,       \* history: in this batch, a failure was reported after an answer
  loop,       \* where downloadLoop stands
  canc,       \* f.ctx is cancelled
  turns       \* steals, uncounted failures and pauses so far

connVars == <<n, state, run, answered, tries>>
ctrlVars == <<launched, pending, ready, nextBatch, signal, late>>
vars     == <<connVars, ctrlVars, loop, canc, turns>>

AllConns(x) == [c \in Conns |-> x]

Init ==
  /\ n = 0
  /\ state = AllConns("open") /\ run = AllConns("off")
  /\ answered = AllConns(FALSE) /\ tries = AllConns(0)
  /\ launched = 0 /\ pending = 0 /\ ready = 0 /\ nextBatch = 1
  /\ signal = FALSE /\ late = FALSE
  /\ loop = "opening" /\ canc = FALSE
  /\ turns = 0

Open   == {c \in Conns : c < n}
AllOff == \A c \in Open : run[c] = "off"

At(c, p)   == c \in Open /\ run[c] = p
Goto(c, p) == run' = [run EXCEPT ![c] = p]

Lesser(a, b) == IF a <= b THEN a ELSE b

-----------------------------------------------------------------------------
\* slowStartController

\* mutant: the last answer of the batch is waited for twice
OnConnectSuccessLate ==
  /\ ready' = ready + 1
  /\ signal' = (signal \/ ready + 1 > pending)
  /\ UNCHANGED <<launched, pending, nextBatch, late>>

OnConnectSuccess ==
  /\ ready' = ready + 1
  /\ signal' = (signal \/ ready + 1 >= pending)
  /\ UNCHANGED <<launched, pending, nextBatch, late>>

\* mutant: only an answer ever signals
OnConnectFailedSilent ==
  /\ pending' = IF pending > 0 THEN pending - 1 ELSE 0
  /\ late' = (late \/ ready > 0)
  /\ UNCHANGED <<launched, ready, nextBatch, signal>>

OnConnectFailed ==
  /\ pending' = IF pending > 0 THEN pending - 1 ELSE 0
  /\ signal' = (signal \/ pending' = 0)
  /\ late' = (late \/ ready > 0)
  /\ UNCHANGED <<launched, ready, nextBatch>>

\* 1, 2, 4, 16, 256, never more than maxConnections
GrownBatch ==
  IF nextBatch = 1 THEN Lesser(2, MaxConns) ELSE Lesser(nextBatch * nextBatch, MaxConns)

CommitBatch(count) ==
  /\ launched' = launched + count
  /\ nextBatch' = GrownBatch
  /\ pending' = count /\ ready' = 0 /\ late' = FALSE

NextBatchSize == IF launched >= MaxConns THEN 0 ELSE Lesser(nextBatch, MaxConns - launched)

-----------------------------------------------------------------------------
\* downloadLoop

\* startResolveDownload: the first connection
OpenFirst ==
  /\ loop = "opening"
  /\ n' = 1
  /\ run' = [run EXCEPT ![0] = "request"]
  /\ CommitBatch(1)
  /\ loop' = "waiting"
  /\ UNCHANGED <<state, answered, tries, signal, canc, turns>>

\* of a signal and a cancelled context, the select may see either
TakeSignal ==
  /\ loop = "waiting" /\ signal
  /\ signal' = FALSE
  /\ loop' = "checking"
  /\ UNCHANGED <<connVars, launched, pending, ready, nextBatch, late, canc, turns>>

LeaveCancelled ==
  /\ loop = "waiting" /\ canc
  /\ loop' = "left"
  /\ UNCHANGED <<connVars, ctrlVars, canc, turns>>

\* checkCompletion: every byte is counted, which needs an answer from every
\* connection, or there is no connection that has not ended or failed
CheckCompletion ==
  /\ loop = "checking"
  /\ \/ loop' = "ending" /\ \A c \in Open : answered[c] \/ state[c] # "open"
     \/ loop' = "expanding" /\ \E c \in Open : state[c] = "open"
  /\ UNCHANGED <<connVars, ctrlVars, canc, turns>>

\* expandConnections splits as many chunks as the batch allows and their sizes do
Expand ==
  /\ loop = "expanding"
  /\ \E count \in 0 .. NextBatchSize :
       /\ count > 0 => \E c \in Open : state[c] = "open"
       /\ n' = n + count
       /\ run' = [c \in Conns |-> IF c \in n .. n + count - 1 THEN "split" ELSE run[c]]
       /\ loop' = IF count = 0 THEN "ending" ELSE "committing"
  /\ UNCHANGED <<state, answered, tries, ctrlVars, canc, turns>>

\* and launches them when the controller has been told
Launch ==
  /\ loop = "committing"
  /\ CommitBatch(Cardinality({c \in Open : run[c] = "split"}))
  /\ run' = [c \in Conns |-> IF run[c] = "split" THEN "request" ELSE run[c]]
  /\ loop' = "waiting"
  /\ UNCHANGED <<n, state, answered, tries, signal, canc, turns>>

\* waitForCompletion
WaitForCompletion ==
  /\ loop = "ending" /\ AllOff
  /\ loop' = IF canc THEN "left" ELSE "ended"
  /\ UNCHANGED <<connVars, ctrlVars, canc, turns>>

-----------------------------------------------------------------------------
\* A connection

Answered(c) ==
  /\ At(c, "request") /\ ~canc
  /\ Goto(c, "reading")
  /\ state' = [state EXCEPT ![c] = "open"]
  /\ answered' = [answered EXCEPT ![c] = TRUE]
  /\ OnConnectSuccess
  /\ UNCHANGED <<n, tries, loop, canc, turns>>

\* a network failure or an overloaded server: tried again, the controller is not told
Unreachable(c) ==
  /\ At(c, "request") \/ At(c, "reading")
  /\ ~canc /\ turns < MaxTurns
  /\ Goto(c, "request")
  /\ state' = [state EXCEPT ![c] = "failed"]
  /\ turns' = turns + 1
  /\ UNCHANGED <<n, answered, tries, ctrlVars, loop, canc>>

\* an HTTP error that counts: reported first, noted in the connection afterwards
Refused(c) ==
  /\ At(c, "request") /\ ~canc
  /\ tries' = [tries EXCEPT ![c] = @ + 1]
  /\ Goto(c, "reported")
  /\ OnConnectFailed
  /\ UNCHANGED <<n, state, answered, loop, canc, turns>>

NoteRefused(c) ==
  /\ At(c, "reported")
  /\ state' = [state EXCEPT ![c] = "failed"]
  /\ Goto(c, IF tries[c] >= MaxRetry THEN "off" ELSE "request")
  /\ UNCHANGED <<n, answered, tries, ctrlVars, loop, canc, turns>>

\* 403, or a malformed response, even late in its body, ends the connection; that
\* this is noted in the connection just before it is reported is left out
Rejected(c) ==
  /\ ~canc
  /\ \/ At(c, "request") /\ \E s \in {"forbidden", "failed"} : state' = [state EXCEPT ![c] = s]
     \/ At(c, "reading") /\ state' = [state EXCEPT ![c] = "failed"]
  /\ Goto(c, "off")
  /\ OnConnectFailed
  /\ UNCHANGED <<n, answered, tries, loop, canc, turns>>

\* The chunk is fetched (a request made again may find that nothing is left): the
\* connection steals half of another chunk, or is complete.
Fetched(c) ==
  /\ At(c, "reading") \/ (At(c, "request") /\ answered[c] /\ ~canc)
  /\ \/ /\ turns < MaxTurns
        /\ \E v \in Open \ {c} : state[v] = "open"
        /\ Goto(c, "request")
        /\ answered' = [answered EXCEPT ![c] = FALSE]
        /\ tries' = [tries EXCEPT ![c] = 0]
        /\ turns' = turns + 1
        /\ UNCHANGED state
     \/ /\ Goto(c, "off")
        /\ state' = [state EXCEPT ![c] = "completed"]
        /\ UNCHANGED <<answered, tries, turns>>
  /\ UNCHANGED <<n, ctrlVars, loop, canc>>

Cancelled(c) ==
  /\ canc /\ (At(c, "request") \/ At(c, "reading"))
  /\ Goto(c, "off")
  /\ UNCHANGED <<n, state, answered, tries, ctrlVars, loop, canc, turns>>

-----------------------------------------------------------------------------
\* Pause and the Start that follows it

Cancel ==
  /\ ~canc /\ turns < MaxTurns /\ loop \notin {"left", "ended"}
  /\ canc' = TRUE
  /\ turns' = turns + 1
  /\ UNCHANGED <<connVars, ctrlVars, loop>>

\* the connections are resumed with a new controller, and none is added to them
Resume ==
  /\ loop = "left" /\ AllOff
  /\ LET resumed == {c \in Open : \/ state[c] = "open"
                                  \/ state[c] = "failed" /\ tries[c] < MaxRetry}
     IN  /\ state' = [c \in Conns |-> IF c \in resumed THEN "open" ELSE state[c]]
         /\ run'   = [c \in Conns |-> IF c \in resumed THEN "request" ELSE run[c]]
         /\ tries' = [c \in Conns |-> IF c \in resumed THEN 0 ELSE tries[c]]
  /\ launched' = 0 /\ pending' = 0 /\ ready' = 0 /\ nextBatch' = 1
  /\ signal' = FALSE /\ late' = FALSE
  /\ loop' = "ending" /\ canc' = FALSE
  /\ UNCHANGED <<n, answered, turns>>

-----------------------------------------------------------------------------
LoopNext ==
  \/ OpenFirst \/ TakeSignal \/ LeaveCancelled \/ CheckCompletion
  \/ Expand \/ Launch \/ WaitForCompletion

ConnNext(c) ==
  \/ Answered(c) \/ Unreachable(c) \/ Refused(c) \/ NoteRefused(c)
  \/ Rejected(c) \/ Fetched(c) \/ Cancelled(c)

Next == LoopNext \/ (\E c \in Conns : ConnNext(c)) \/ Cancel \/ Resume

Spec == Init /\ [][Next]_vars

\* The goroutines run, and connectTimeout and readTimeout end every wait for the
\* server; nobody has to pause.
Fairness == WF_vars(LoopNext) /\ \A c \in Conns : WF_vars(ConnNext(c))

FairSpec == Spec /\ Fairness

-----------------------------------------------------------------------------
\* Properties

\* The variables keep their types; a batch is never larger than maxConnections.
TypeOK ==
  /\ n \in 0 .. MaxConns
  /\ state \in [Conns -> {"open", "completed", "failed", "forbidden"}]
  /\ run \in [Conns -> {"off", "split", "request", "reading", "reported"}]
  /\ answered \in [Conns -> BOOLEAN] /\ tries \in [Conns -> 0 .. MaxRetry]
  /\ launched \in 0 .. MaxConns /\ pending \in 0 .. MaxConns
  /\ ready \in Nat /\ nextBatch \in 1 .. MaxConns
  /\ signal \in BOOLEAN /\ late \in BOOLEAN
  /\ loop \in {"opening", "waiting", "checking", "expanding", "committing",
               "ending", "left", "ended"}
  /\ canc \in BOOLEAN
  /\ turns \in 0 .. MaxTurns

\* When all connections of the download have ended, the loop that waits has been
\* signalled, but for one order of events: a failure reported after an answer of
\* the same batch (onConnectSuccess, onConnectFailed).
SignalledUnlessLate ==
  loop = "waiting" /\ AllOff /\ ~canc => signal \/ late

\* A download loop that waits to expand comes to its end, by itself or with a pause,
\* unless a failure was reported after an answer of the same batch; that is, a
\* started download does not hang however answers, failures, retries and stolen
\* chunks interleave with its expansion (downloadLoop).
LoopEnds == loop = "waiting" ~> (loop \in {"ended", "left"} \/ late)
=============================================================================
