----------------------------- MODULE Ed2kFetcher -----------------------------
(***************************************************************************)
(* The ED2K fetcher (internal/protocol/ed2k/fetcher.go) over the one       *)
(* goed2k client of the process, which is external: it holds one transfer  *)
(* of a hash, whatever tasks ask for it, writes it to the path of the task *)
(* that added it, and tells every subscriber the state of the transfers    *)
(* from time to time, and that one was removed.                            *)
(*                                                                         *)
(* The tasks here are downloads of one link. No lock orders their calls.   *)
(***************************************************************************)
EXTENDS Naturals, FiniteSets

CONSTANTS EdTasks, MaxEdStarts, NoTask

ASSUME EdAssumption == NoTask \notin EdTasks /\ MaxEdStarts \in Nat

VARIABLES
    transfer,   \* in the client: the task whose path it has, paused, finished
    hasClient,  \* FetcherManager.client
    edTask,     \* per task: started (f.handle), closed (f.waitCtx), the place of Wait; and
                \* whether it had the transfer for itself since it added it (history)
    removal,    \* tasks whose Wait has an event with Removed before it
    edFile,     \* the target file of each task: "none", "part", "whole"
    edStarts    \* bound

edVars == <<transfer, hasClient, edTask, removal, edFile, edStarts>>

NoTransfer == [of |-> NoTask, paused |-> FALSE, finished |-> FALSE]

EdTypeOK ==
    /\ transfer \in [of : EdTasks \cup {NoTask}, paused : BOOLEAN, finished : BOOLEAN]
    /\ hasClient \in BOOLEAN /\ (transfer.of # NoTask => hasClient)
    /\ edTask \in [EdTasks -> [started : BOOLEAN, closed : BOOLEAN, alone : BOOLEAN,
                               wait : {"off", "on", "returned"}]]
    /\ removal \subseteq EdTasks
    /\ edFile \in [EdTasks -> {"none", "part", "whole"}]

EdInit ==
    /\ transfer = NoTransfer /\ hasClient = FALSE /\ removal = {} /\ edStarts = 0
    /\ edTask = [t \in EdTasks |->
                   [started |-> FALSE, closed |-> FALSE, alone |-> FALSE, wait |-> "off"]]
    /\ edFile = [t \in EdTasks |-> "none"]

-----------------------------------------------------------------------------

\* Start finds the transfer of the hash or adds it, and resumes it. It does not
\* look at waitCtx: a handler may come here after Close. A task whose watcher has
\* come back gets a new one.
EdStart(t) ==
    LET adds == transfer.of = NoTask IN
    /\ edStarts < MaxEdStarts
    /\ edStarts' = edStarts + 1
    /\ hasClient' = TRUE
    /\ edTask' = [edTask EXCEPT
                    ![t].started = TRUE,
                    ![t].alone = IF adds THEN t \notin removal ELSE @ /\ transfer.of = t,
                    ![t].wait = IF @ = "returned" THEN "off" ELSE @]
    /\ IF adds
       THEN /\ transfer' = [NoTransfer EXCEPT !.of = t, !.finished = edFile[t] = "whole"]
            /\ edFile' = [edFile EXCEPT ![t] = IF @ = "none" THEN "part" ELSE @]
       ELSE transfer' = [transfer EXCEPT !.paused = FALSE] /\ UNCHANGED edFile
    /\ UNCHANGED removal

\* currentHandle finds the transfer of the hash, whoever started it.
EdPause(t) ==
    /\ transfer.of # NoTask
    /\ transfer' = [transfer EXCEPT !.paused = TRUE]
    /\ UNCHANGED <<hasClient, edTask, removal, edFile, edStarts>>

EdWaiters == {t \in EdTasks : edTask[t].wait = "on"}

\* Close cancels the wait and removes the transfer of the hash, whoever has it.
EdClose(t) ==
    /\ ~edTask[t].closed
    /\ edTask' = [u \in EdTasks |->
                    [edTask[u] EXCEPT !.closed = @ \/ u = t, !.alone = @ /\ transfer.of = NoTask]]
    /\ transfer' = NoTransfer
    /\ removal' = IF transfer.of # NoTask THEN removal \cup EdWaiters ELSE removal
    /\ UNCHANGED <<hasClient, edFile, edStarts>>

\* The subscription goes with the wait.
Returns(t) ==
    /\ edTask' = [edTask EXCEPT ![t].wait = "returned"]
    /\ removal' = removal \ {t}

\* The watcher of a started task; a transfer that is finished needs no event.
EdWait(t) ==
    /\ edTask[t].started /\ edTask[t].wait = "off"
    /\ hasClient' = TRUE
    /\ edTask' = [edTask EXCEPT ![t].wait =
                    IF transfer.of # NoTask /\ transfer.finished THEN "returned" ELSE "on"]
    /\ UNCHANGED <<transfer, removal, edFile, edStarts>>

EdWaitCancelled(t) ==
    /\ edTask[t].wait = "on" /\ edTask[t].closed
    /\ Returns(t)
    /\ UNCHANGED <<transfer, hasClient, edFile, edStarts>>

\* mutant: any event about the transfer ends the wait
EdEventMutated(t) ==
    /\ edTask[t].wait = "on"
    /\ t \in removal \/ transfer.of # NoTask
    /\ Returns(t)
    /\ UNCHANGED <<transfer, hasClient, edFile, edStarts>>

\* An event that says removed or finished: Wait returns no error for either.
EdEvent(t) ==
    /\ edTask[t].wait = "on"
    /\ t \in removal \/ (transfer.of # NoTask /\ transfer.finished)
    /\ Returns(t)
    /\ UNCHANGED <<transfer, hasClient, edFile, edStarts>>

\* FetcherManager.Close ends the subscriptions, and with them every Wait.
EdManagerClose ==
    /\ hasClient
    /\ hasClient' = FALSE
    /\ transfer' = NoTransfer
    /\ edTask' = [t \in EdTasks |->
                    [edTask[t] EXCEPT !.alone = FALSE, !.wait = IF @ = "on" THEN "returned" ELSE @]]
    /\ removal' = {}
    /\ UNCHANGED <<edFile, edStarts>>

TransferFinishes ==
    /\ transfer.of # NoTask /\ ~transfer.paused /\ ~transfer.finished
    /\ transfer' = [transfer EXCEPT !.finished = TRUE]
    /\ edFile' = [edFile EXCEPT ![transfer.of] = "whole"]
    /\ UNCHANGED <<hasClient, edTask, removal, edStarts>>

EdNext ==
    \/ \E t \in EdTasks : EdStart(t) \/ EdPause(t) \/ EdClose(t) \/ EdWait(t)
                          \/ EdWaitCancelled(t) \/ EdEvent(t)
    \/ EdManagerClose \/ TransferFinishes

EdSpec == EdInit /\ [][EdNext]_edVars

-----------------------------------------------------------------------------
(* Properties *)

\* A watcher comes back without an error, and its task is shown as done, when the
\* transfer is finished, when it is removed and when the client ends; and the
\* transfer is of the hash, not of the task. Still no task is shown as done
\* without its own file, whatever other tasks of its link start, pause and
\* close: as long as the transfer is the one that it added, no other task's
\* Close nor the end of the client took it away, and no removal of an earlier
\* one was still to be told. (Where the transfer was not its own that does
\* happen: a task that found another's is done with that one's file, and a
\* task whose transfer another one closed is done with half of its own.)
EdDoneHasFile ==
    \A t \in EdTasks :
        edTask[t].wait = "returned" /\ edTask[t].alone /\ ~edTask[t].closed => edFile[t] = "whole"
=============================================================================
