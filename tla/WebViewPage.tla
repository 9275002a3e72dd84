----------------------------- MODULE WebViewPage -----------------------------
(***************************************************************************)
(* A page of the embedded webview (pageWrapper of                          *)
(* internal/webview/goprovider/provider.go), its event hub and the handle  *)
(* that scripts hold (engine/webview). A thread owns the native window and *)
(* runs what the callers post to it; on Linux the thread is shared by all  *)
(* pages and outlives them, elsewhere its loop ends with the window. The   *)
(* window itself is external.                                              *)
(***************************************************************************)
EXTENDS Naturals, Sequences, FiniteSets, SequencesExt

CONSTANTS
    Executes,   \* calls of Execute
    Gotos,      \* calls of Goto
    Closers,    \* calls of Close that reach the page
    MaxLoads    \* bound: pages that load by themselves

ASSUME PageAssumption ==
    /\ IsFiniteSet(Executes) /\ IsFiniteSet(Gotos) /\ IsFiniteSet(Closers)
    /\ Executes \cap Gotos = {} /\ MaxLoads \in Nat

VARIABLES
    wpLinux,
    wpLoop,     \* the thread: its loop runs, has returned, has told, is over
    wpPosted,   \* what was dispatched to the loop and has not run
    wpClosed,   \* p.closed
    wpDone,     \* how often p.done was closed: a second time panics
    wpPending,  \* p.pending
    wpScripts,  \* scripts that run in the document and will call back
    wpCall,     \* where each call is
    wpAnswer,   \* what is in the channel of an Execute
    wpNotices,  \* a load, domReady, sameDocument or error notice is buffered
    wpTold,     \* what the event hub told a listener
    wpLoads

pageVars == <<wpLinux, wpLoop, wpPosted, wpClosed, wpDone, wpPending, wpScripts, wpCall,
              wpAnswer, wpNotices, wpTold, wpLoads>>
windowVars == <<wpLinux, wpLoop, wpDone, wpTold>>

Callers == Executes \cup Gotos
Destroy == "destroy"

PageTypeOK ==
    /\ wpLinux \in BOOLEAN /\ wpLoop \in {"runs", "returned", "told", "over"}
    /\ wpPosted \in Seq(Callers \cup Closers \cup {Destroy}) /\ wpClosed \in BOOLEAN
    /\ wpDone \in 0..2 /\ wpPending \subseteq Executes /\ wpScripts \subseteq Executes
    /\ wpCall \in [Callers \cup Closers -> {"idle", "posting", "posted", "waits", "dropped", "returned"}]
    /\ wpAnswer \in [Executes -> {"none", "value", "closed"}] /\ wpNotices \in BOOLEAN
    /\ wpTold \in Seq({"load", "closed"})

PageInit ==
    /\ wpLinux \in BOOLEAN /\ wpLoop = "runs" /\ wpPosted = <<>>
    /\ wpClosed = FALSE /\ wpDone = 0 /\ wpPending = {} /\ wpScripts = {}
    /\ wpCall = [c \in Callers \cup Closers |-> "idle"]
    /\ wpAnswer = [e \in Executes |-> "none"] /\ wpNotices = FALSE
    /\ wpTold = <<>> /\ wpLoads = 0

Step(c, at) == wpCall' = [wpCall EXCEPT ![c] = at]

\* failPendingLocked: every pending Execute has its answer.
PendingFailed == [e \in Executes |-> IF e \in wpPending THEN "closed" ELSE wpAnswer[e]]

\* EventHub.Emit
Emitted(event) == IF Contains(wpTold, "closed") THEN wpTold ELSE Append(wpTold, event)

-----------------------------------------------------------------------------
(* Callers *)

\* Execute registers its request before the page may be closed under it; Goto
\* empties the notices of earlier navigations.
CallBegins(c) ==
    /\ wpCall[c] = "idle"
    /\ \/ c \in Executes /\ wpClosed /\ Step(c, "returned") /\ UNCHANGED <<wpPending, wpNotices>>
       \/ /\ c \in Executes /\ ~wpClosed /\ Step(c, "posting")
          /\ wpPending' = wpPending \cup {c} /\ UNCHANGED wpNotices
       \/ c \in Gotos /\ Step(c, "posting") /\ wpNotices' = FALSE /\ UNCHANGED wpPending
    /\ UNCHANGED <<windowVars, wpPosted, wpClosed, wpScripts, wpAnswer, wpLoads>>

\* dispatch looks at closed, and posts after the lock is released.
CallLooks(c) ==
    /\ wpCall[c] = "posting"
    /\ IF wpClosed THEN Step(c, "returned") /\ wpPending' = wpPending \ {c}
       ELSE Step(c, "dropped") /\ UNCHANGED wpPending
    /\ UNCHANGED <<windowVars, wpPosted, wpClosed, wpScripts, wpAnswer, wpNotices, wpLoads>>

CallPosts(c) ==
    /\ wpCall[c] = "dropped"
    /\ Step(c, "posted") /\ wpPosted' = Append(wpPosted, c)
    /\ UNCHANGED <<windowVars, wpClosed, wpPending, wpScripts, wpAnswer, wpNotices, wpLoads>>

\* mutant: dispatch waits for its closure alone
ClosedSeenMutated(c) == FALSE
\* dispatch, Execute and waitForNavigation give up when p.done is closed.
ClosedSeen(c) == wpDone > 0 /\ wpCall[c] \in {"posted", "waits"}

CallReturns(c) ==
    /\ \/ ClosedSeen(c)
       \/ c \in Executes /\ wpCall[c] = "waits" /\ wpAnswer[c] # "none"
       \/ c \in Gotos /\ wpCall[c] = "waits" /\ wpNotices
    /\ Step(c, "returned")
    /\ wpPending' = IF wpCall[c] = "posted" THEN wpPending \ {c} ELSE wpPending
    /\ wpNotices' = IF c \in Gotos THEN FALSE ELSE wpNotices
    /\ UNCHANGED <<windowVars, wpPosted, wpClosed, wpScripts, wpAnswer, wpLoads>>

\* The timer of waitForNavigation; an Execute has none.
GotoTimesOut(c) ==
    /\ c \in Gotos /\ wpCall[c] = "waits" /\ Step(c, "returned")
    /\ UNCHANGED <<windowVars, wpPosted, wpClosed, wpPending, wpScripts, wpAnswer, wpNotices, wpLoads>>

\* Close: the second one has nothing to do, the first posts the end of the window.
CloseBegins(c) ==
    /\ wpCall[c] = "idle"
    /\ IF wpClosed THEN Step(c, "returned") /\ UNCHANGED <<wpClosed, wpPending, wpAnswer>>
       ELSE /\ wpClosed' = TRUE /\ wpAnswer' = PendingFailed /\ wpPending' = {}
            /\ Step(c, "posting")
    /\ UNCHANGED <<windowVars, wpPosted, wpScripts, wpNotices, wpLoads>>

CloseDispatches(c) ==
    /\ wpCall[c] = "posting"
    /\ Step(c, "posted") /\ wpPosted' = Append(wpPosted, c)
    /\ UNCHANGED <<windowVars, wpClosed, wpPending, wpScripts, wpAnswer, wpNotices, wpLoads>>

CloseReturns(c) ==
    /\ wpCall[c] = "waits" /\ wpDone > 0
    /\ Step(c, "returned") /\ wpTold' = Emitted("closed")
    /\ UNCHANGED <<wpLinux, wpLoop, wpPosted, wpClosed, wpDone, wpPending, wpScripts, wpAnswer, wpNotices, wpLoads>>

-----------------------------------------------------------------------------
(* The thread of the window *)

\* A posted closure; navigating loses the scripts of the document.
LoopRuns ==
    LET c == Head(wpPosted) IN
    /\ wpLoop = "runs" /\ wpPosted # <<>>
    /\ wpPosted' = Tail(wpPosted)
    /\ \/ c = Destroy /\ wpDone' = wpDone + 1 /\ UNCHANGED <<wpCall, wpScripts, wpLoop>>
       \/ /\ c \in Closers /\ Step(c, "waits") /\ UNCHANGED wpScripts
          /\ IF wpLinux THEN wpDone' = wpDone + 1 /\ UNCHANGED wpLoop
             ELSE wpLoop' = "returned" /\ UNCHANGED wpDone
       \/ /\ c \in Callers /\ UNCHANGED <<wpDone, wpLoop>>
          /\ IF wpCall[c] = "posted" THEN Step(c, "waits") ELSE UNCHANGED wpCall
          /\ wpScripts' = IF wpDone > 0 THEN wpScripts ELSE IF c \in Gotos THEN {} ELSE wpScripts \cup {c}
    /\ UNCHANGED <<wpLinux, wpClosed, wpPending, wpAnswer, wpNotices, wpTold, wpLoads>>

\* handleCallback with the result of a script.
ScriptAnswers(e) ==
    /\ wpLoop = "runs" /\ wpDone = 0 /\ e \in wpScripts
    /\ wpScripts' = wpScripts \ {e} /\ wpPending' = wpPending \ {e}
    /\ wpAnswer' = IF e \in wpPending THEN [wpAnswer EXCEPT ![e] = "value"] ELSE wpAnswer
    /\ UNCHANGED <<windowVars, wpPosted, wpClosed, wpCall, wpNotices, wpLoads>>

\* handleCallback with a load, or handleNativeEvent with a load error.
PageLoads ==
    /\ wpLoop = "runs" /\ wpDone = 0 /\ wpLoads < MaxLoads
    /\ wpLoads' = wpLoads + 1 /\ wpNotices' = TRUE /\ wpTold' = Emitted("load")
    /\ UNCHANGED <<wpLinux, wpLoop, wpPosted, wpClosed, wpDone, wpPending, wpScripts, wpCall, wpAnswer>>

\* mutant: the window is destroyed whoever closed it
DestroysMutated == TRUE
\* handleNativeEvent("closed") on Linux: "if !api".
Destroys == ~wpClosed

\* The user closes the window. On Linux the thread hears of it at once.
UserCloses ==
    /\ wpLoop = "runs" /\ wpDone = 0 /\ ~Contains(wpTold, "closed")
    /\ IF wpLinux
       THEN /\ wpClosed' = TRUE /\ wpAnswer' = PendingFailed /\ wpPending' = {}
            /\ wpTold' = Emitted("closed")
            /\ wpPosted' = IF Destroys THEN Append(wpPosted, Destroy) ELSE wpPosted
            /\ UNCHANGED wpLoop
       ELSE wpLoop' = "returned" /\ UNCHANGED <<wpClosed, wpAnswer, wpPending, wpTold, wpPosted>>
    /\ UNCHANGED <<wpLinux, wpDone, wpScripts, wpCall, wpNotices, wpLoads>>

\* Elsewhere Run returns, the event follows, and then the window goes.
LoopTells ==
    /\ wpLoop = "returned" /\ wpLoop' = "told"
    /\ wpClosed' = TRUE /\ wpAnswer' = PendingFailed /\ wpPending' = {} /\ wpTold' = Emitted("closed")
    /\ UNCHANGED <<wpLinux, wpPosted, wpDone, wpScripts, wpCall, wpNotices, wpLoads>>

LoopEnds ==
    /\ wpLoop = "told" /\ wpLoop' = "over" /\ wpDone' = wpDone + 1
    /\ UNCHANGED <<wpLinux, wpPosted, wpClosed, wpPending, wpScripts, wpCall, wpAnswer, wpNotices, wpTold, wpLoads>>

CallStep(c) == CallLooks(c) \/ CallPosts(c) \/ CallReturns(c)
CloseStep(c) == CloseDispatches(c) \/ CloseReturns(c)
LoopStep == LoopRuns \/ LoopTells \/ LoopEnds

PageNext ==
    \/ \E c \in Callers : CallBegins(c) \/ CallStep(c) \/ GotoTimesOut(c)
    \/ \E c \in Closers : CloseBegins(c) \/ CloseStep(c)
    \/ \E e \in Executes : ScriptAnswers(e)
    \/ PageLoads \/ UserCloses \/ LoopStep

\* The thread of the window and the callers go on; no script has to answer.
PageFairness ==
    /\ \A c \in Callers : WF_pageVars(CallStep(c))
    /\ \A c \in Closers : WF_pageVars(CloseStep(c))
    /\ WF_pageVars(LoopStep)

PageSpec == PageInit /\ [][PageNext]_pageVars /\ PageFairness

-----------------------------------------------------------------------------
(* Properties *)

\* p.done is closed once: the user, several Close calls and the end of the loop
\* meet, and a second close of the channel would end the process.
DoneClosedOnce == wpDone <= 1

\* "closed ... is terminal" and "delivered once": no event follows it.
ClosedIsLast == \A i \in DOMAIN wpTold : wpTold[i] = "closed" => i = Len(wpTold)

\* Once the page is closed, by a script, the user or the end of the session, no
\* Execute or Goto waits for a document that is gone.
CallsReturnAfterClose ==
    \A c \in Callers : wpClosed /\ wpCall[c] \notin {"idle", "returned"} ~> wpCall[c] = "returned"
=============================================================================
