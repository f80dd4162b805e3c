----------------------------- MODULE ClientApp -----------------------------
(***************************************************************************)
(* The threads of examples/client.cpp once it is connected.  The main      *)
(* thread reads lines and sends them, a second thread polls the library,   *)
(* and a mutex keeps the two apart, as the library takes no locks itself.  *)
(* SIGINT interrupts one of them: its handler tells the poll thread to     *)
(* stop, joins it and exits.                                               *)
(***************************************************************************)
EXTENDS Naturals

CONSTANTS
  MaxLines,      \* bound: lines typed
  MaxInterrupts  \* bound: SIGINTs

ASSUME ClientAssumption == MaxLines \in Nat /\ MaxInterrupts \in Nat

VARIABLES
  main,        \* what the main thread is about to do, or is doing
  poller,      \* what the poll thread is about to do, or is doing
  sync,        \* who holds the mutex
  stop,        \* stop_client
  handler,     \* how far a signal handler running on the main thread is
  process,     \* whether the process still runs, and how it ended
  typed,       \* history: lines read
  sent,        \* history: lines for which send_data was called
  interrupts   \* history: SIGINTs delivered

lines == <<typed, sent>>
vars == <<main, poller, sync, stop, handler, process, lines, interrupts>>

Init ==
  /\ main = "starting" /\ poller = "unborn"
  /\ sync = "free"
  /\ stop = 0
  /\ handler = "none"
  /\ process = "running"
  /\ typed = 0 /\ sent = 0 /\ interrupts = 0

-----------------------------------------------------------------------------
(* The main thread, while no handler runs on it. *)
MainAt(step) == process = "running" /\ handler = "none" /\ main = step

StartPoller ==
  /\ MainAt("starting")
  /\ main' = "reading" /\ poller' = "testing"
  /\ UNCHANGED <<sync, stop, handler, process, lines, interrupts>>

ReadLine ==
  /\ MainAt("reading")
  /\ typed < MaxLines
  /\ typed' = typed + 1
  /\ main' = "locking"
  /\ UNCHANGED <<poller, sync, stop, handler, process, sent, interrupts>>

(* A faulty variant: main returns without waiting for the poll thread. *)
EndInputReturns ==
  /\ MainAt("reading")
  /\ process' = "exited"
  /\ UNCHANGED <<main, poller, sync, stop, handler, lines, interrupts>>

(* An empty line, or the end of the input: main joins the poll thread.     *)
(* The join never returns.  The poll thread ends only when stop_client is  *)
(* set, by a handler that never returns either; if that has interrupted    *)
(* main, main is suspended, and if the poll thread, the process is gone.   *)
EndInput ==
  /\ MainAt("reading")
  /\ main' = "joining"
  /\ UNCHANGED <<poller, sync, stop, handler, process, lines, interrupts>>

(* A faulty variant: the mutex is taken from whoever holds it. *)
MainLockForced ==
  /\ MainAt("locking")
  /\ sync' = "main"
  /\ main' = "sending"
  /\ UNCHANGED <<poller, stop, handler, process, lines, interrupts>>

MainLock ==
  /\ MainAt("locking")
  /\ sync = "free"
  /\ sync' = "main"
  /\ main' = "sending"
  /\ UNCHANGED <<poller, stop, handler, process, lines, interrupts>>

(* send_data and the release of the mutex. *)
SendLine ==
  /\ MainAt("sending")
  /\ sent' = sent + 1
  /\ sync' = "free"
  /\ main' = "reading"
  /\ UNCHANGED <<poller, stop, handler, process, typed, interrupts>>

-----------------------------------------------------------------------------
(* The poll thread. *)
PollerAt(step) == process = "running" /\ poller = step

PollTest ==
  /\ PollerAt("testing")
  /\ poller' = IF stop = 1 THEN "done" ELSE "locking"
  /\ UNCHANGED <<main, sync, stop, handler, process, lines, interrupts>>

PollLock ==
  /\ PollerAt("locking")
  /\ sync = "free"
  /\ sync' = "poller"
  /\ poller' = "polling"
  /\ UNCHANGED <<main, stop, handler, process, lines, interrupts>>

(* A faulty variant: the poll thread sleeps with the mutex held. *)
PollSleepLocked ==
  /\ PollerAt("polling")
  /\ poller' = "sleeping"
  /\ UNCHANGED <<main, sync, stop, handler, process, lines, interrupts>>

(* poll and the release of the mutex. *)
Poll ==
  /\ PollerAt("polling")
  /\ sync' = "free"
  /\ poller' = "sleeping"
  /\ UNCHANGED <<main, stop, handler, process, lines, interrupts>>

Wake ==
  /\ PollerAt("sleeping")
  /\ poller' = "testing"
  /\ UNCHANGED <<main, sync, stop, handler, process, lines, interrupts>>

-----------------------------------------------------------------------------
(* SIGINT, which any thread may be chosen to handle.                       *)

(* A signal is delivered to the main thread, which is then suspended       *)
(* wherever it is, unless it is in the handler already.  Before there is a *)
(* poll thread join throws, and the exception ends the process.            *)
InterruptMain ==
  /\ process = "running" /\ handler = "none"
  /\ interrupts < MaxInterrupts
  /\ interrupts' = interrupts + 1
  /\ IF main = "starting"
     THEN process' = "aborted" /\ stop' = 1 /\ UNCHANGED handler
     ELSE handler' = "stopping" /\ UNCHANGED <<process, stop>>
  /\ UNCHANGED <<main, poller, sync, lines>>

(* On the poll thread join would wait for itself, which throws.            *)
InterruptPoller ==
  /\ process = "running"
  /\ poller \notin {"unborn", "done"}
  /\ interrupts < MaxInterrupts
  /\ interrupts' = interrupts + 1
  /\ stop' = 1
  /\ process' = "aborted"
  /\ UNCHANGED <<main, poller, sync, handler, lines>>

(* A faulty variant: the poll thread is joined but not told to stop. *)
HandlerForgets ==
  /\ process = "running" /\ handler = "stopping"
  /\ handler' = "joining"
  /\ UNCHANGED <<main, poller, sync, stop, process, lines, interrupts>>

HandlerStop ==
  /\ process = "running" /\ handler = "stopping"
  /\ stop' = 1
  /\ handler' = "joining"
  /\ UNCHANGED <<main, poller, sync, process, lines, interrupts>>

(* A faulty variant: the handler exits without waiting. *)
HandlerExit ==
  /\ process = "running" /\ handler = "joining"
  /\ process' = "exited"
  /\ UNCHANGED <<main, poller, sync, stop, handler, lines, interrupts>>

HandlerJoin ==
  /\ process = "running" /\ handler = "joining"
  /\ poller = "done"
  /\ process' = "exited"
  /\ UNCHANGED <<main, poller, sync, stop, handler, lines, interrupts>>

(* To join a thread that main is in the middle of joining is undefined:    *)
(* it may wait, as above, or throw.                                        *)
HandlerJoinTwice ==
  /\ process = "running" /\ handler = "joining"
  /\ main = "joining"
  /\ process' = "aborted"
  /\ UNCHANGED <<main, poller, sync, stop, handler, lines, interrupts>>

-----------------------------------------------------------------------------
Main == StartPoller \/ MainLock \/ SendLine
Poller == PollTest \/ PollLock \/ Poll \/ Wake
Handler == HandlerStop \/ HandlerJoin \/ HandlerJoinTwice

Next ==
  \/ Main \/ ReadLine \/ EndInput
  \/ Poller
  \/ InterruptMain \/ InterruptPoller \/ Handler

Spec == Init /\ [][Next]_vars

(* Both threads run on, and so does the handler; nobody need type.  The    *)
(* poll thread leaves the mutex free for a millisecond in every round, so  *)
(* that a thread waiting for it gets it in the end.                        *)
Fairness ==
  /\ WF_vars(Main) /\ SF_vars(MainLock)
  /\ WF_vars(Poller) /\ SF_vars(PollLock)
  /\ WF_vars(Handler)

FairSpec == Spec /\ Fairness

-----------------------------------------------------------------------------
(* The program counters, the mutex and the flags stay within their values. *)
TypeOK ==
  /\ main \in {"starting", "reading", "locking", "sending", "joining"}
  /\ poller \in {"unborn", "testing", "locking", "polling", "sleeping", "done"}
  /\ sync \in {"free", "main", "poller"}
  /\ stop \in {0, 1}
  /\ handler \in {"none", "stopping", "joining"}
  /\ process \in {"running", "exited", "aborted"}
  /\ typed \in Nat /\ sent \in Nat /\ interrupts \in Nat

(* The library is never called from both threads at once, also while a     *)
(* handler has suspended the main thread within send_data.                 *)
OneCallAtATime == ~(main = "sending" /\ poller = "polling")

(* A normal exit finds the poll thread gone: the program is not torn down  *)
(* under a poll, and no lock is left behind in its name.                   *)
ExitAfterPolling == process = "exited" => poller = "done" /\ sync # "poller"

(* Nothing but SIGINT ends the client.  In particular the empty line that  *)
(* ends the input loop leaves main waiting for a poll thread that nobody   *)
(* has told to stop.                                                       *)
OnlyInterruptEnds == process # "running" \/ stop = 1 => interrupts > 0

(* Who is inside the library holds the mutex, nobody else does, and the    *)
(* poll thread only leaves its loop when told to: what makes the three     *)
(* properties above inductive.                                             *)
LockDiscipline ==
  /\ main = "sending" <=> sync = "main"
  /\ poller = "polling" <=> sync = "poller"
  /\ main = "starting" => poller = "unborn"
  /\ poller = "done" => stop = 1
  /\ handler # "none" => interrupts > 0

(* A line that was typed is sent, however busy the poll thread is, unless  *)
(* SIGINT comes first.                                                     *)
LinesAreSent == typed > sent ~> typed = sent \/ interrupts > 0

(* SIGINT ends the process if it does not find main inside send_data.      *)
IdleInterruptExits ==
  handler = "stopping" /\ sync # "main" ~> process # "running"

(* "Press CTRL+C to exit": SIGINT ends the process. *)
InterruptExits == interrupts > 0 ~> process # "running"
=============================================================================
