-------------------------------- MODULE Timer --------------------------------
(***************************************************************************)
(* utils/timer: the timer with a handler.  Dispatch runs in a goroutine of *)
(* its own; SetTimeoutIn, Cancel and Stop are called from others.  The     *)
(* lock is held by Dispatch from the receive in its select to the top of   *)
(* the next round, which is one step here; the gap between the receive and *)
(* the Lock that follows it is not, nor is the call of the handler.        *)
(*                                                                         *)
(* Requests are numbered: a request is one call of SetTimeoutIn.  Time is  *)
(* the step Expire, which may come at any moment after the Go timer is     *)
(* armed.                                                                  *)
(***************************************************************************)
EXTENDS Integers

CONSTANT MaxRequests    \* bound: calls of SetTimeoutIn and of Cancel

ASSUME TimerAssumption == MaxRequests \in Nat

VARIABLES
    finished, shouldExecute,    \* the fields of Timer
    token,          \* items in the timeout channel, capacity one
    armed,          \* the request the Go timer is running for, 0 when stopped
    tick,           \* the request whose expiry is in timer.C, 0 when empty
    pcD,            \* Dispatch
    pcS,            \* the first caller of Stop
    last,           \* the latest request
    cancelled,      \* the requests made before the latest Cancel are 1..cancelled
    cancels,        \* calls of Cancel so far
    owed,           \* a request is neither cancelled nor followed by a call of the handler
    overtaken       \* the latest Cancel came when Dispatch had decided to call the
                    \* handler, had released the lock and had not called it yet

clientVars == <<last, cancelled, cancels>>
historyVars == <<owed, overtaken>>
timerVars == <<finished, shouldExecute, token, armed, tick, pcD, pcS, clientVars, historyVars>>

Request == 0..MaxRequests

TimerInit ==
    /\ finished = FALSE /\ shouldExecute = FALSE
    /\ token = 0 /\ armed = 0 /\ tick = 0
    /\ pcD = "new" /\ pcS = "running"
    /\ last = 0 /\ cancelled = 0 /\ cancels = 0 /\ owed = FALSE /\ overtaken = FALSE

TimerTypeOK ==
    /\ finished \in BOOLEAN /\ shouldExecute \in BOOLEAN
    /\ owed \in BOOLEAN /\ overtaken \in BOOLEAN
    /\ token \in 0..1
    /\ {armed, tick, last, cancelled, cancels} \subseteq Request
    /\ pcD \in {"new", "select", "gotToken", "gotTick", "handler", "done"}
    /\ pcS \in {"running", "waiting", "returned"}

-----------------------------------------------------------------------------
(* The callers.                                                            *)

ResetWithoutDefault == token' = token + 1

\* A second token is dropped.
Reset == token' = 1

SetTimeoutIn ==
    /\ last < MaxRequests
    /\ last' = last + 1
    /\ shouldExecute' = TRUE
    /\ Reset
    /\ owed' = TRUE
    /\ UNCHANGED <<finished, armed, tick, pcD, pcS, cancelled, cancels, overtaken>>

CancelOnlyResetting ==
    /\ cancels < MaxRequests
    /\ cancels' = cancels + 1
    /\ cancelled' = last
    /\ Reset
    /\ owed' = FALSE /\ overtaken' = (pcD = "handler")
    /\ UNCHANGED <<finished, shouldExecute, armed, tick, pcD, pcS, last>>

Cancel ==
    /\ cancels < MaxRequests
    /\ cancels' = cancels + 1
    /\ cancelled' = last
    /\ shouldExecute' = FALSE
    /\ Reset
    /\ owed' = FALSE /\ overtaken' = (pcD = "handler")
    /\ UNCHANGED <<finished, armed, tick, pcD, pcS, last>>

StopWithoutReset ==
    /\ pcS = "running"
    /\ finished' = TRUE
    /\ pcS' = "waiting"
    /\ UNCHANGED <<shouldExecute, token, armed, tick, pcD, clientVars, historyVars>>

\* Stop, up to the wait for Dispatch to return.
Stop ==
    /\ pcS = "running"
    /\ finished' = TRUE
    /\ Reset
    /\ pcS' = "waiting"
    /\ UNCHANGED <<shouldExecute, armed, tick, pcD, clientVars, historyVars>>

StopReturns ==
    /\ pcS = "waiting"
    /\ pcD = "done"
    /\ pcS' = "returned"
    /\ UNCHANGED <<finished, shouldExecute, token, armed, tick, pcD, clientVars, historyVars>>

-----------------------------------------------------------------------------
(* The Go timer.                                                           *)

Expire ==
    /\ armed # 0
    /\ armed' = 0
    /\ tick' = IF tick = 0 THEN armed ELSE tick
    /\ UNCHANGED <<finished, shouldExecute, token, pcD, pcS, clientVars, historyVars>>

-----------------------------------------------------------------------------
(* Dispatch.                                                               *)

\* The first round stops or drains the timer that NewTimer(0) started.
DispatchStart ==
    /\ pcD = "new"
    /\ pcD' = IF finished THEN "done" ELSE "select"
    /\ UNCHANGED <<finished, shouldExecute, token, armed, tick, pcS, clientVars, historyVars>>

ReceiveToken ==
    /\ pcD = "select"
    /\ token = 1
    /\ token' = 0
    /\ pcD' = "gotToken"
    /\ UNCHANGED <<finished, shouldExecute, armed, tick, pcS, clientVars, historyVars>>

ReceiveTick ==
    /\ pcD = "select"
    /\ tick # 0
    /\ tick' = 0
    /\ pcD' = "gotTick"
    /\ UNCHANGED <<finished, shouldExecute, token, armed, pcS, clientVars, historyVars>>

LockAfterTokenNotArming ==
    /\ pcD = "gotToken"
    /\ pcD' = IF finished THEN "done" ELSE "select"
    /\ UNCHANGED <<finished, shouldExecute, token, armed, tick, pcS, clientVars, historyVars>>

\* timer.Reset arms the timer anew; a value already in timer.C stays there.
LockAfterToken ==
    /\ pcD = "gotToken"
    /\ armed' = IF shouldExecute THEN last ELSE armed
    /\ pcD' = IF finished THEN "done" ELSE "select"
    /\ UNCHANGED <<finished, shouldExecute, token, tick, pcS, clientVars, historyVars>>

\* timer.Stop() at the top of the round also stops a timer armed meanwhile.  The
\* decision to call the handler is made under the lock; the lock is released before
\* the call, which is the step CallHandler, so that anything may come between.
LockAfterTick ==
    /\ pcD = "gotTick"
    /\ IF finished THEN pcD' = "done" /\ UNCHANGED <<armed, owed>>
       ELSE /\ armed' = 0
            /\ pcD' = IF shouldExecute THEN "handler" ELSE "select"
            /\ owed' = (owed /\ ~shouldExecute)
    /\ UNCHANGED <<finished, shouldExecute, token, tick, pcS, clientVars, overtaken>>

\* The handler; the staged timer makes a new request when its function says so.
CallHandler(repeat) ==
    /\ pcD = "handler"
    /\ pcD' = "select"
    /\ IF repeat
       THEN last' = last + 1 /\ shouldExecute' = TRUE /\ Reset /\ owed' = TRUE
       ELSE UNCHANGED <<last, shouldExecute, token, owed>>
    /\ overtaken' = FALSE
    /\ UNCHANGED <<finished, armed, tick, pcS, cancelled, cancels>>

Dispatch ==
    \/ DispatchStart \/ ReceiveToken \/ ReceiveTick \/ LockAfterToken \/ LockAfterTick
    \/ \E repeat \in BOOLEAN : (repeat => last < MaxRequests) /\ CallHandler(repeat)

TimerNext == SetTimeoutIn \/ Cancel \/ Stop \/ StopReturns \/ Expire \/ Dispatch

TimerSpec == TimerInit /\ [][TimerNext]_timerVars

\* Dispatch has been started, as the tests of the package do, and deadlines pass.
TimerFairness == WF_timerVars(Dispatch) /\ WF_timerVars(Expire) /\ WF_timerVars(StopReturns)

FairTimerSpec == TimerSpec /\ TimerFairness

-----------------------------------------------------------------------------
\* "SetTimeoutIn will result in calling the handler" (timer.go:13): no
\* interleaving of requests, cancellations and expiries swallows the last
\* request.
RequestFires == owed ~> (~owed \/ finished)

\* Stop does not wait for ever, whatever Dispatch is doing when it comes.
StopTerminates == pcS = "waiting" ~> pcS = "returned"

\* "Cancel the currently scheduled event" (timer.go:46), as far as the code keeps
\* it: Cancel leaves the Go timer running, so that a deadline passes or has just
\* been received, and yet the handler is called with every request cancelled only
\* if the latest Cancel came after Dispatch had released the lock to make this very
\* call (timer.go:81-82).  One Cancel lets at most one such call through.
CancelledStaysQuiet ==
    [][(\E repeat \in BOOLEAN : CallHandler(repeat)) /\ last = cancelled => overtaken]_timerVars
=============================================================================
