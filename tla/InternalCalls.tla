---------------------------- MODULE InternalCalls ----------------------------
(***************************************************************************)
(* Worker-to-worker calls through the gateway (gateway/server.cpp): the    *)
(* INVOKE_FUNC branch of OnRecvMessage, its COMPLETE/FAILED branch for a   *)
(* call with client_id > 0, lazy dispatcher creation, and the internal     *)
(* half of ProcessDiscardedFuncCallIfNecessary, which answers a call lost  *)
(* with its worker by a failure sent to the caller (FuncCallFinished).     *)
(* No context or table of the gateway holds an internal call: the          *)
(* dispatcher alone knows it. The Dispatcher and the callee workers (not   *)
(* in src/) follow spec.md 4.2 and 4.5: OnNewFuncCall succeeds iff a       *)
(* worker is idle, and a disconnection discards the call in flight. The    *)
(* callee answers its caller itself (worker_lib::FuncCallFinished, as the  *)
(* drain does at 662-667); the gateway's OnFuncCallCompleted/Failed only   *)
(* get the output size (470-475) and free the worker.                      *)
(***************************************************************************)
EXTENDS Naturals, Sequences, FiniteSets, SequencesExt

CONSTANTS
  Calls,          \* internal calls (full_call_ids with client_id > 0)
  Funcs,          \* func_ids a caller may name
  Configured,     \* func_ids of the function config
  Workers,        \* worker connections of the configured functions
  MaxCrashes,     \* bound on worker disconnections
  MaxReconnects,  \* bound on worker (re)handshakes
  NoCall, NoFunc

ASSUME Configured \subseteq Funcs /\ NoCall \notin Calls /\ NoFunc \notin Funcs

\* IPC IO-thread handlers: one per INVOKE_FUNC, one per COMPLETE/FAILED, one
\* per worker handshake. Each ends with ProcessDiscardedFuncCallIfNecessary.
Threads == ({"inv", "fin"} \X Calls) \cup ({"hs"} \X (1..MaxReconnects))
Inv(c) == <<"inv", c>>
Fin(c) == <<"fin", c>>

Results == {"ok", "fail"}

VARIABLES
  func,         \* func_id each call names; NoFunc before its INVOKE_FUNC
  dispatchers,  \* func_ids with an entry in dispatchers_
  discarded,    \* discarded_func_calls_
  dropped,      \* calls whose INVOKE_FUNC failed ("Dispatcher failed" log)
  wst, wcall,   \* callee worker state and the call it runs
  replies,      \* COMPLETE/FAILED messages sent by callee workers
  pc, own,      \* handler threads; own: discarded calls a drain has taken
  answer, nans, \* what the caller received, and how many times (<= 2 kept)
  ncrash, nrec

vars == <<func, dispatchers, discarded, dropped, wst, wcall, replies, pc, own,
          answer, nans, ncrash, nrec>>

TypeOK ==
  /\ func \in [Calls -> Funcs \cup {NoFunc}]
  /\ dispatchers \subseteq Configured
  /\ discarded \in Seq(Calls)
  /\ dropped \subseteq Calls
  /\ wst \in [Workers -> {"idle", "busy", "replied", "gone"}]
  /\ wcall \in [Workers -> Calls \cup {NoCall}]
  /\ replies \subseteq Calls \X Results
  /\ pc \in [Threads -> {"idle", "drain", "drainfin", "done"}]
  /\ own \in [Threads -> SUBSET Calls]
  /\ answer \in [Calls -> Results \cup {"none"}]
  /\ nans \in [Calls -> 0..2]
  /\ ncrash \in 0..MaxCrashes /\ nrec \in 0..MaxReconnects

Init ==
  /\ func = [c \in Calls |-> NoFunc]
  /\ dispatchers = {}
  /\ discarded = <<>> /\ dropped = {}
  /\ wst \in [Workers -> {"idle", "gone"}]
  /\ wcall = [w \in Workers |-> NoCall]
  /\ replies = {}
  /\ pc = [t \in Threads |-> "idle"]
  /\ own = [t \in Threads |-> {}]
  /\ answer = [c \in Calls |-> "none"]
  /\ nans = [c \in Calls |-> 0]
  /\ ncrash = 0 /\ nrec = 0

-----------------------------------------------------------------------------
(* Helpers *)

\* GetOrCreateDispatcherLocked: a dispatcher exists, or is created, exactly
\* for the func_ids found in the function config.
GetOrCreateDispatcher(f) ==
  dispatchers' = IF f \in Configured THEN dispatchers \cup {f} ELSE dispatchers

\* The caller's worker receives the result of each call in S.
Answer(S, r) ==
  /\ answer' = [c \in Calls |-> IF c \in S THEN r ELSE answer[c]]
  /\ nans' = [c \in Calls |-> IF c \in S /\ nans[c] < 2 THEN nans[c] + 1
                                                        ELSE nans[c]]

\* Server::DiscardFuncCall.
DiscardFuncCall(c) == discarded' = Append(discarded, c)

IdleWorkers == {w \in Workers : wst[w] = "idle"}

-----------------------------------------------------------------------------
(* OnRecvMessage, INVOKE_FUNC from a calling worker: under mu_ look the      *)
(* dispatcher up (creating it for a configured func_id); outside the lock    *)
(* OnNewFuncCall hands the call to an idle worker. With no dispatcher or no  *)
(* idle worker the failure is only logged: nothing is sent to the caller.    *)
(* The lock section and the send are one step: between them only another    *)
(* thread's dispatcher creation can happen, which does not change the result.*)
Invoke(c) ==
  /\ pc[Inv(c)] = "idle"
  /\ \E f \in Funcs :
       /\ func' = [func EXCEPT ![c] = f]
       /\ GetOrCreateDispatcher(f)
       /\ IF f \in Configured /\ IdleWorkers # {}
            THEN \E w \in IdleWorkers :
                   /\ wst' = [wst EXCEPT ![w] = "busy"]
                   /\ wcall' = [wcall EXCEPT ![w] = c]
                   /\ UNCHANGED dropped
            ELSE dropped' = dropped \cup {c} /\ UNCHANGED <<wst, wcall>>
  /\ pc' = [pc EXCEPT ![Inv(c)] = "drain"]
  /\ UNCHANGED <<discarded, replies, own, answer, nans, ncrash, nrec>>

(* OnRecvMessage, FUNC_CALL_COMPLETE/FAILED of an internal call: under mu_   *)
(* only the dispatcher lookup; no external context is touched. Dispatcher::  *)
(* OnFuncCallCompleted/Failed then frees the worker running the call, if it  *)
(* still runs it. Nothing is sent to the caller, which the callee answered.  *)
MsgDone(c) ==
  /\ pc[Fin(c)] = "idle"
  /\ \E r \in Results : <<c, r>> \in replies
  /\ wst' = [w \in Workers |->
              IF wcall[w] = c /\ wst[w] = "replied" THEN "idle" ELSE wst[w]]
  /\ wcall' = [w \in Workers |->
              IF wcall[w] = c /\ wst[w] = "replied" THEN NoCall ELSE wcall[w]]
  /\ pc' = [pc EXCEPT ![Fin(c)] = "drain"]
  /\ UNCHANGED <<func, dispatchers, discarded, dropped, replies, own, answer,
                 nans, ncrash, nrec>>

\* Mutant of Drain: the list is copied but not cleared.
DrainNoClear(t) ==
  /\ pc[t] = "drain"
  /\ own' = [own EXCEPT ![t] = ToSet(discarded)]
  /\ pc' = [pc EXCEPT ![t] = "drainfin"]
  /\ UNCHANGED <<func, dispatchers, discarded, dropped, wst, wcall, replies,
                 answer, nans, ncrash, nrec>>

(* ProcessDiscardedFuncCallIfNecessary, critical section: every discarded  *)
(* call with client_id > 0 is remembered, and the list is cleared.          *)
Drain(t) ==
  /\ pc[t] = "drain"
  /\ own' = [own EXCEPT ![t] = ToSet(discarded)]
  /\ discarded' = <<>>
  /\ pc' = [pc EXCEPT ![t] = "drainfin"]
  /\ UNCHANGED <<func, dispatchers, dropped, wst, wcall, replies, answer, nans,
                 ncrash, nrec>>

(* Outside the lock: worker_lib::FuncCallFinished(success = false) for each *)
(* remembered call, which sends the failure to the calling worker.          *)
DrainFinish(t) ==
  /\ pc[t] = "drainfin"
  /\ IF own[t] # {} THEN Answer(own[t], "fail") ELSE UNCHANGED <<answer, nans>>
  /\ own' = [own EXCEPT ![t] = {}]
  /\ pc' = [pc EXCEPT ![t] = "done"]
  /\ UNCHANGED <<func, dispatchers, discarded, dropped, wst, wcall, replies,
                 ncrash, nrec>>

-----------------------------------------------------------------------------
(* The callee workers. *)

\* A worker returns from the function: FuncCallFinished writes the result
\* to the caller, and COMPLETE or FAILED goes to the gateway.
Reply(w) ==
  /\ wst[w] = "busy"
  /\ wst' = [wst EXCEPT ![w] = "replied"]
  /\ \E r \in Results :
       /\ replies' = replies \cup {<<wcall[w], r>>}
       /\ Answer({wcall[w]}, r)
  /\ UNCHANGED <<func, dispatchers, discarded, dropped, wcall, pc, own,
                 ncrash, nrec>>

\* Mutant of Crash: the dispatcher discards the slot of an idle worker too.
CrashDiscardIdle(w) ==
  /\ wst[w] \notin {"gone", "replied"}
  /\ ncrash < MaxCrashes
  /\ ncrash' = ncrash + 1
  /\ wst' = [wst EXCEPT ![w] = "gone"]
  /\ wcall' = [wcall EXCEPT ![w] = NoCall]
  /\ DiscardFuncCall(wcall[w])
  /\ UNCHANGED <<func, dispatchers, dropped, replies, pc, own, answer, nans, nrec>>

\* Mutant of Crash: OnFuncWorkerDisconnected forgets the call in flight
\* instead of discarding it.
CrashNoDiscard(w) ==
  /\ wst[w] \notin {"gone", "replied"}
  /\ ncrash < MaxCrashes
  /\ ncrash' = ncrash + 1
  /\ wst' = [wst EXCEPT ![w] = "gone"]
  /\ wcall' = [wcall EXCEPT ![w] = NoCall]
  /\ UNCHANGED <<func, dispatchers, discarded, dropped, replies, pc, own,
                 answer, nans, nrec>>

(* OnConnectionClose of a callee worker: OnFuncWorkerDisconnected, and the  *)
(* dispatcher discards the call in flight on it. No drain follows. The IO  *)
(* thread handles every message it read before the end of the stream, so   *)
(* a worker's close comes after the OnRecvMessage of its last reply.       *)
Crash(w) ==
  /\ wst[w] \notin {"gone", "replied"}
  /\ ncrash < MaxCrashes
  /\ ncrash' = ncrash + 1
  /\ wst' = [wst EXCEPT ![w] = "gone"]
  /\ wcall' = [wcall EXCEPT ![w] = NoCall]
  /\ IF wst[w] = "busy"
       THEN DiscardFuncCall(wcall[w])
       ELSE UNCHANGED discarded
  /\ UNCHANGED <<func, dispatchers, dropped, replies, pc, own, answer, nans, nrec>>

(* OnNewHandshake of a func worker: OnFuncWorkerConnected, then a drain on  *)
(* the handshake's thread.                                                  *)
Reconnect(w) ==
  /\ wst[w] = "gone"
  /\ nrec < MaxReconnects
  /\ nrec' = nrec + 1
  /\ wst' = [wst EXCEPT ![w] = "idle"]
  /\ pc' = [pc EXCEPT ![<<"hs", nrec + 1>>] = "drain"]
  /\ UNCHANGED <<func, dispatchers, discarded, dropped, wcall, replies, own,
                 answer, nans, ncrash>>

-----------------------------------------------------------------------------
GatewayStep(t) == Drain(t) \/ DrainFinish(t)

Next ==
  \/ \E c \in Calls : Invoke(c) \/ MsgDone(c)
  \/ \E t \in Threads : GatewayStep(t)
  \/ \E w \in Workers : Reply(w) \/ Crash(w) \/ Reconnect(w)

\* Handlers run to their end, a received reply message is handled, and a
\* worker returns from its function. Invocations, disconnections and
\* handshakes are the environment's and are not fair.
Fairness ==
  /\ \A t \in Threads : WF_vars(GatewayStep(t))
  /\ \A c \in Calls : WF_vars(MsgDone(c))
  /\ \A w \in Workers : WF_vars(Reply(w))

Spec == Init /\ [][Next]_vars
FairSpec == Spec /\ Fairness

-----------------------------------------------------------------------------
(* Properties *)

Invoked(c) == func[c] # NoFunc
Answered(c) == nans[c] > 0
Running(c) == \E w \in Workers : wcall[w] = c
Taken(c) == \E t \in Threads : c \in own[t]

\* A caller receives at most one result per call, although the callee's
\* reply and several drains, running concurrently on IPC threads and a
\* handshake thread, can each reach it.
AnsweredAtMostOnce == \A c \in Calls : nans[c] <= 1

\* Every invoked call is, at each moment, on a callee worker, in
\* discarded_func_calls_, in a drain's local list, answered, or dropped by a
\* logged dispatch failure: the gateway never forgets a call silently
\* between the INVOKE_FUNC, the disconnection and the drain.
InternalCallAccounted ==
  \A c \in Calls : Invoked(c) =>
     Running(c) \/ Contains(discarded, c) \/ Taken(c) \/ Answered(c)
       \/ c \in dropped

\* spec.md 4.2 and 4.6: when OnNewFuncCall fails for want of a worker the
\* caller treats it as a dispatch failure, so every call to a configured
\* function is eventually answered.
ConfiguredCallAnswered ==
  \A c \in Calls : func[c] \in Configured ~> Answered(c)
=============================================================================
