--------------------------- MODULE AdmissionCore ---------------------------
(***************************************************************************)
(* The external-request admission core of the gateway (gateway/server.cpp):*)
(* the running and pending tables, the discarded-call list, and the three  *)
(* handlers that move external calls between them:                         *)
(*   NewExternalFuncCall      (one HTTP/gRPC IO thread per request),       *)
(*   OnRecvMessage Complete/Failed (one IPC IO thread per reply message),  *)
(*   OnNewHandshake of a worker (an IPC IO thread per reconnection).       *)
(* Every handler is a sequence of steps: a critical section under mu_ is   *)
(* one step, each piece of I/O done outside the lock is another, so steps  *)
(* of different handlers interleave exactly where the code releases mu_.  *)
(* The per-func_id Dispatcher and the function workers (not in src/) are   *)
(* modelled from spec.md 4.2 and 4.5: a worker takes one call at a time,   *)
(* replies once, and on disconnection its in-flight call is discarded.    *)
(***************************************************************************)
EXTENDS Naturals, Sequences, FiniteSets, SequencesExt

CONSTANTS
  Calls,          \* external calls (full_call_ids with client_id = 0)
  Workers,        \* function-worker connections of the called func_id
  Cap,            \* max_running_external_requests; 0 means unlimited
  MaxCrashes,     \* bound on worker disconnections
  MaxReconnects,  \* bound on worker (re)handshakes
  NoCall          \* a worker executing nothing

ASSUME Cap \in Nat /\ MaxCrashes \in Nat /\ MaxReconnects \in Nat
ASSUME NoCall \notin Calls

\* Which handler runs on which IO thread: one per request, one per reply
\* message, one per worker handshake.
Threads == ({"arr", "msg"} \X Calls) \cup ({"hs"} \X (1..MaxReconnects))
Arr(c) == <<"arr", c>>
Msg(c) == <<"msg", c>>

\* Reply kinds a worker sends: FUNC_CALL_COMPLETE with inline output, with
\* output in shm (payload_size < 0), or FUNC_CALL_FAILED.
ReplyKinds == {"ok_inline", "ok_shm", "fail"}
Outcomes == {"none", "ok", "error", "dispatch_failure"}

VARIABLES
  running,    \* keys of running_external_func_calls_
  pending,    \* pending_external_func_calls_ (FIFO)
  discarded,  \* discarded_func_calls_
  input,      \* body size class of each call: "none" before it arrives
  shm,        \* calls whose input shm region exists
  wst,        \* worker connection state
  wcall,      \* the call a worker is executing
  replies,    \* reply messages received from workers: <<call, kind>>
  pc,         \* program counter of each handler thread
  own,        \* contexts held by a thread's locals, out of the tables
  todo,       \* calls a thread still has to DispatchExternalFuncCall
  ret,        \* where a thread goes once todo is empty
  outcome,    \* how the response of each call was finalized
  nfin,       \* how many times each context was finalized (at most 2 kept)
  arrived,    \* history: calls in the order they reached the core
  ncrash, nrec

vars == <<running, pending, discarded, input, shm, wst, wcall, replies, pc,
          own, todo, ret, outcome, nfin, arrived, ncrash, nrec>>

TypeOK ==
  /\ running \subseteq Calls
  /\ pending \in Seq(Calls)
  /\ discarded \in Seq(Calls)
  /\ input \in [Calls -> {"none", "small", "large"}]
  /\ shm \subseteq Calls
  /\ wst \in [Workers -> {"idle", "busy", "replied", "gone"}]
  /\ wcall \in [Workers -> Calls \cup {NoCall}]
  /\ replies \subseteq Calls \X ReplyKinds
  /\ pc \in [Threads -> {"idle", "dispatch", "send", "erase", "release",
                         "drain", "drainfin", "done"}]
  /\ own \in [Threads -> SUBSET Calls]
  /\ todo \in [Threads -> Seq(Calls)]
  /\ ret \in [Threads -> {"drain", "done"}]
  /\ outcome \in [Calls -> Outcomes]
  /\ nfin \in [Calls -> 0..2]
  /\ arrived \in Seq(Calls)
  /\ ncrash \in 0..MaxCrashes /\ nrec \in 0..MaxReconnects

Init ==
  /\ running = {} /\ pending = <<>> /\ discarded = <<>>
  /\ input = [c \in Calls |-> "none"]
  /\ shm = {}
  /\ wst \in [Workers -> {"idle", "gone"}]
  /\ wcall = [w \in Workers |-> NoCall]
  /\ replies = {}
  /\ pc = [t \in Threads |-> "idle"]
  /\ own = [t \in Threads |-> {}]
  /\ todo = [t \in Threads |-> <<>>]
  /\ ret = [t \in Threads |-> "done"]
  /\ outcome = [c \in Calls |-> "none"]
  /\ nfin = [c \in Calls |-> 0]
  /\ arrived = <<>>
  /\ ncrash = 0 /\ nrec = 0

-----------------------------------------------------------------------------
(* Helpers *)

\* Mutant of Admits: size <= cap instead of size < cap.
AdmitsOffByOne(r) == Cap = 0 \/ Cardinality(r) <= Cap

\* The admission test: max_running_external_requests_ == 0 || size < cap.
Admits(r) == Cap = 0 \/ Cardinality(r) < Cap

\* Finalize every context in S with kind k (ExternalFuncCallContext::Finish*).
FinishAll(S, k) ==
  /\ outcome' = [c \in Calls |-> IF c \in S THEN k ELSE outcome[c]]
  /\ nfin' = [c \in Calls |-> IF c \in S /\ nfin[c] < 2 THEN nfin[c] + 1
                                                        ELSE nfin[c]]

\* Server::DiscardFuncCall: append under the lock.
DiscardFuncCall(c) == discarded' = Append(discarded, c)

\* After the current dispatch, go on with the next call of todo or return.
NextDispatch(t) ==
  /\ todo' = [todo EXCEPT ![t] = Tail(@)]
  /\ pc' = [pc EXCEPT ![t] = IF Tail(todo[t]) = <<>> THEN ret[t] ELSE "dispatch"]

IdleWorkers == {w \in Workers : wst[w] = "idle"}

-----------------------------------------------------------------------------
(* NewExternalFuncCall: the critical section deciding dispatch-now or queue. *)
Arrive(c) ==
  /\ pc[Arr(c)] = "idle"
  /\ \E sz \in {"small", "large"} : input' = [input EXCEPT ![c] = sz]
  /\ arrived' = Append(arrived, c)
  /\ IF Admits(running)
       THEN /\ running' = running \cup {c}
            /\ todo' = [todo EXCEPT ![Arr(c)] = <<c>>]
            /\ pc' = [pc EXCEPT ![Arr(c)] = "dispatch"]
            /\ UNCHANGED pending
       ELSE /\ pending' = Append(pending, c)
            /\ pc' = [pc EXCEPT ![Arr(c)] = "done"]
            /\ UNCHANGED <<running, todo>>
  /\ UNCHANGED <<discarded, shm, wst, wcall, replies, own, ret, outcome, nfin,
                 ncrash, nrec>>

\* Mutant of CreateShmInput: the region is held in a local of the function
\* rather than in input_region_, so it is unlinked when the function returns.
CreateShmInputScopedRegion(t) ==
  LET d == Head(todo[t]) IN
  /\ pc[t] = "dispatch" /\ input[d] = "large"
  /\ \/ /\ pc' = [pc EXCEPT ![t] = "send"]
        /\ UNCHANGED <<outcome, nfin>>
     \/ /\ FinishAll({d}, "error")
        /\ pc' = [pc EXCEPT ![t] = "erase"]
  /\ UNCHANGED <<shm, running, pending, discarded, input, wst, wcall, replies,
                 own, todo, ret, arrived, ncrash, nrec>>

(* DispatchExternalFuncCall, first part: a body above MESSAGE_INLINE_DATA_SIZE *)
(* goes to a new input shm region; ShmCreate may fail, and then the context   *)
(* is finalized with FinishWithError and the dispatch reports failure.        *)
CreateShmInput(t) ==
  LET d == Head(todo[t]) IN
  /\ pc[t] = "dispatch" /\ input[d] = "large"
  /\ \/ /\ shm' = shm \cup {d}
        /\ pc' = [pc EXCEPT ![t] = "send"]
        /\ UNCHANGED <<outcome, nfin>>
     \/ /\ FinishAll({d}, "error")
        /\ pc' = [pc EXCEPT ![t] = "erase"]
        /\ UNCHANGED shm
  /\ UNCHANGED <<running, pending, discarded, input, wst, wcall, replies, own,
                 todo, ret, arrived, ncrash, nrec>>

\* Mutant of SendInvoke: a failed OnNewFuncCall is not finalized.
SendInvokeSilentFailure(t) ==
  LET d == Head(todo[t]) IN
  /\ \/ pc[t] = "send"
     \/ pc[t] = "dispatch" /\ input[d] = "small"
  /\ \/ \E w \in IdleWorkers :
          /\ wst' = [wst EXCEPT ![w] = "busy"]
          /\ wcall' = [wcall EXCEPT ![w] = d]
          /\ NextDispatch(t)
     \/ /\ IdleWorkers = {}
        /\ pc' = [pc EXCEPT ![t] = "erase"]
        /\ UNCHANGED <<wst, wcall, todo>>
  /\ UNCHANGED <<running, pending, discarded, input, shm, replies, own, ret,
                 outcome, nfin, arrived, ncrash, nrec>>

\* Mutant of SendInvoke: OnNewFuncCall sends the Invoke to a worker but
\* returns false, so the caller answers 404 and erases the context.
SendInvokeSentButFailed(t) ==
  LET d == Head(todo[t]) IN
  /\ \/ pc[t] = "send"
     \/ pc[t] = "dispatch" /\ input[d] = "small"
  /\ \/ \E w \in IdleWorkers :
          /\ wst' = [wst EXCEPT ![w] = "busy"]
          /\ wcall' = [wcall EXCEPT ![w] = d]
          /\ FinishAll({d}, "dispatch_failure")
          /\ pc' = [pc EXCEPT ![t] = "erase"]
          /\ UNCHANGED todo
     \/ /\ IdleWorkers = {}
        /\ FinishAll({d}, "dispatch_failure")
        /\ pc' = [pc EXCEPT ![t] = "erase"]
        /\ UNCHANGED <<wst, wcall, todo>>
  /\ UNCHANGED <<running, pending, discarded, input, shm, replies, own, ret,
                 arrived, ncrash, nrec>>

(* DispatchExternalFuncCall, second part: Dispatcher::OnNewFuncCall hands the *)
(* call to an idle worker, or fails, and the context gets FinishWithDispatch- *)
(* Failure. The dispatcher of an external func_id always exists: the request *)
(* matcher only accepts names found in the function config.                  *)
SendInvoke(t) ==
  LET d == Head(todo[t]) IN
  /\ \/ pc[t] = "send"
     \/ pc[t] = "dispatch" /\ input[d] = "small"
  /\ \/ \E w \in IdleWorkers :
          /\ wst' = [wst EXCEPT ![w] = "busy"]
          /\ wcall' = [wcall EXCEPT ![w] = d]
          /\ NextDispatch(t)
          /\ UNCHANGED <<outcome, nfin>>
     \/ /\ IdleWorkers = {}
        /\ FinishAll({d}, "dispatch_failure")
        /\ pc' = [pc EXCEPT ![t] = "erase"]
        /\ UNCHANGED <<wst, wcall, todo>>
  /\ UNCHANGED <<running, pending, discarded, input, shm, replies, own, ret,
                 arrived, ncrash, nrec>>

(* A failed dispatch: retake mu_ and erase the context from running; this     *)
(* destroys it, and the remove-on-destroy input region with it. No pending    *)
(* call is promoted into the slot this frees.                                 *)
Erase(t) ==
  LET d == Head(todo[t]) IN
  /\ pc[t] = "erase"
  /\ running' = running \ {d}
  /\ shm' = shm \ {d}
  /\ NextDispatch(t)
  /\ UNCHANGED <<pending, discarded, input, wst, wcall, replies, own, ret,
                 outcome, nfin, arrived, ncrash, nrec>>

-----------------------------------------------------------------------------
\* Mutant of MsgRecv: the slot goes to the newest pending call, not the oldest.
MsgRecvPromoteLast(c) ==
  /\ pc[Msg(c)] = "idle"
  /\ \E k \in ReplyKinds : <<c, k>> \in replies
  /\ IF c \in running
       THEN LET rest == running \ {c}
                promote == pending # <<>> /\ Admits(rest)
            IN /\ running' = IF promote THEN rest \cup {Last(pending)} ELSE rest
               /\ pending' = IF promote THEN Front(pending) ELSE pending
               /\ todo' = [todo EXCEPT ![Msg(c)] =
                             IF promote THEN <<Last(pending)>> ELSE <<>>]
               /\ own' = [own EXCEPT ![Msg(c)] = {c}]
       ELSE UNCHANGED <<running, pending, todo, own>>
  /\ pc' = [pc EXCEPT ![Msg(c)] = "release"]
  /\ ret' = [ret EXCEPT ![Msg(c)] = "drain"]
  /\ UNCHANGED <<discarded, input, shm, wst, wcall, replies, outcome, nfin,
                 arrived, ncrash, nrec>>

(* OnRecvMessage, FUNC_CALL_COMPLETE / FUNC_CALL_FAILED of an external call: *)
(* under mu_, move the context out of running and promote at most one       *)
(* pending call into the slot.                                               *)
MsgRecv(c) ==
  /\ pc[Msg(c)] = "idle"
  /\ \E k \in ReplyKinds : <<c, k>> \in replies
  /\ IF c \in running
       THEN LET rest == running \ {c}
                promote == pending # <<>> /\ Admits(rest)
            IN /\ running' = IF promote THEN rest \cup {Head(pending)} ELSE rest
               /\ pending' = IF promote THEN Tail(pending) ELSE pending
               /\ todo' = [todo EXCEPT ![Msg(c)] =
                             IF promote THEN <<Head(pending)>> ELSE <<>>]
               /\ own' = [own EXCEPT ![Msg(c)] = {c}]
       ELSE UNCHANGED <<running, pending, todo, own>>
  /\ pc' = [pc EXCEPT ![Msg(c)] = "release"]
  /\ ret' = [ret EXCEPT ![Msg(c)] = "drain"]
  /\ UNCHANGED <<discarded, input, shm, wst, wcall, replies, outcome, nfin,
                 arrived, ncrash, nrec>>

\* Mutant of MsgRelease: FUNC_CALL_FAILED frees the worker but never
\* finalizes the context (the else branch calling FinishWithError is lost).
MsgReleaseNoErrorFinish(c) ==
  /\ pc[Msg(c)] = "release"
  /\ wst' = [w \in Workers |-> IF wcall[w] = c /\ wst[w] = "replied"
                                 THEN "idle" ELSE wst[w]]
  /\ wcall' = [w \in Workers |-> IF wcall[w] = c /\ wst[w] = "replied"
                                   THEN NoCall ELSE wcall[w]]
  /\ \E k \in ReplyKinds :
       /\ <<c, k>> \in replies
       /\ IF own[Msg(c)] = {} \/ k = "fail"
            THEN UNCHANGED <<outcome, nfin>>
          ELSE IF k = "ok_inline" THEN FinishAll({c}, "ok")
          ELSE \E r \in {"ok", "error"} : FinishAll({c}, r)
  /\ pc' = [pc EXCEPT ![Msg(c)] = IF todo[Msg(c)] = <<>> THEN "drain" ELSE "dispatch"]
  /\ UNCHANGED <<running, pending, discarded, input, shm, replies, own, todo,
                 ret, arrived, ncrash, nrec>>

(* Outside the lock: Dispatcher::OnFuncCallCompleted/Failed frees the worker *)
(* (if it is still connected), then the context, if this thread took it, is  *)
(* finalized from the reply: inline output, output read from the output shm  *)
(* (ShmOpen may fail: FinishWithError), or FinishWithError on FAILED.         *)
MsgRelease(c) ==
  /\ pc[Msg(c)] = "release"
  /\ wst' = [w \in Workers |-> IF wcall[w] = c /\ wst[w] = "replied"
                                 THEN "idle" ELSE wst[w]]
  /\ wcall' = [w \in Workers |-> IF wcall[w] = c /\ wst[w] = "replied"
                                   THEN NoCall ELSE wcall[w]]
  /\ \E k \in ReplyKinds :
       /\ <<c, k>> \in replies
       /\ IF own[Msg(c)] = {}
            THEN UNCHANGED <<outcome, nfin>>
          ELSE IF k = "ok_inline" THEN FinishAll({c}, "ok")
          ELSE IF k = "ok_shm" THEN \E r \in {"ok", "error"} : FinishAll({c}, r)
          ELSE FinishAll({c}, "error")
  /\ pc' = [pc EXCEPT ![Msg(c)] = IF todo[Msg(c)] = <<>> THEN "drain" ELSE "dispatch"]
  /\ UNCHANGED <<running, pending, discarded, input, shm, replies, own, todo,
                 ret, arrived, ncrash, nrec>>

\* Mutant of Drain: every discarded call is taken, without checking that it
\* is still in running (a reply may already have completed it).
DrainUnchecked(t) ==
  LET taken == ToSet(discarded)
      rest == running \ taken
      k == IF Cap = 0 THEN Len(pending)
           ELSE IF Cardinality(rest) >= Cap THEN 0
           ELSE IF Len(pending) < Cap - Cardinality(rest) THEN Len(pending)
           ELSE Cap - Cardinality(rest)
      promoted == SubSeq(pending, 1, k)
  IN
  /\ pc[t] = "drain"
  /\ shm' = shm \ own[t]
  /\ running' = rest \cup ToSet(promoted)
  /\ pending' = SubSeq(pending, k + 1, Len(pending))
  /\ discarded' = <<>>
  /\ own' = [own EXCEPT ![t] = taken]
  /\ todo' = [todo EXCEPT ![t] = promoted]
  /\ pc' = [pc EXCEPT ![t] = "drainfin"]
  /\ ret' = [ret EXCEPT ![t] = "done"]
  /\ UNCHANGED <<input, wst, wcall, replies, outcome, nfin, arrived, ncrash, nrec>>

(* ProcessDiscardedFuncCallIfNecessary, critical section. It first ends the  *)
(* enclosing block of OnRecvMessage, destroying the completed context (and   *)
(* its input region). Under mu_: take the discarded calls still in running,  *)
(* clear the list, and promote pending calls while the cap permits.          *)
Drain(t) ==
  LET taken == ToSet(discarded) \cap running
      rest == running \ taken
      k == IF Cap = 0 THEN Len(pending)
           ELSE IF Cardinality(rest) >= Cap THEN 0
           ELSE IF Len(pending) < Cap - Cardinality(rest) THEN Len(pending)
           ELSE Cap - Cardinality(rest)
      promoted == SubSeq(pending, 1, k)
  IN
  /\ pc[t] = "drain"
  /\ shm' = shm \ own[t]
  /\ running' = rest \cup ToSet(promoted)
  /\ pending' = SubSeq(pending, k + 1, Len(pending))
  /\ discarded' = <<>>
  /\ own' = [own EXCEPT ![t] = taken]
  /\ todo' = [todo EXCEPT ![t] = promoted]
  /\ pc' = [pc EXCEPT ![t] = "drainfin"]
  /\ ret' = [ret EXCEPT ![t] = "done"]
  /\ UNCHANGED <<input, wst, wcall, replies, outcome, nfin, arrived, ncrash, nrec>>

(* Outside the lock: FinishWithDispatchFailure on each discarded external    *)
(* call, then drop them; the promoted calls are dispatched next.             *)
DrainFinish(t) ==
  /\ pc[t] = "drainfin"
  /\ FinishAll(own[t], "dispatch_failure")
  /\ shm' = shm \ own[t]
  /\ own' = [own EXCEPT ![t] = {}]
  /\ pc' = [pc EXCEPT ![t] = IF todo[t] = <<>> THEN "done" ELSE "dispatch"]
  /\ UNCHANGED <<running, pending, discarded, input, wst, wcall, replies, todo,
                 ret, arrived, ncrash, nrec>>

-----------------------------------------------------------------------------
(* The worker side. *)

\* A worker finishes its call and sends COMPLETE (inline or shm) or FAILED.
Reply(w) ==
  /\ wst[w] = "busy"
  /\ wst' = [wst EXCEPT ![w] = "replied"]
  /\ \E k \in ReplyKinds : replies' = replies \cup {<<wcall[w], k>>}
  /\ UNCHANGED <<running, pending, discarded, input, shm, wcall, pc, own, todo,
                 ret, outcome, nfin, arrived, ncrash, nrec>>

\* Mutant of Crash: the dispatcher discards the worker's call slot even when
\* the worker was idle, pushing an empty FuncCall onto the list.
CrashDiscardIdle(w) ==
  /\ wst[w] # "gone"
  /\ ncrash < MaxCrashes
  /\ ncrash' = ncrash + 1
  /\ wst' = [wst EXCEPT ![w] = "gone"]
  /\ wcall' = [wcall EXCEPT ![w] = NoCall]
  /\ DiscardFuncCall(wcall[w])
  /\ UNCHANGED <<running, pending, input, shm, replies, pc, own, todo, ret,
                 outcome, nfin, arrived, nrec>>

(* The IPC peer closes: OnConnectionClose tells the WorkerManager, whose     *)
(* dispatcher discards the call in flight on that worker. No drain follows.  *)
Crash(w) ==
  /\ wst[w] # "gone"
  /\ ncrash < MaxCrashes
  /\ ncrash' = ncrash + 1
  /\ wst' = [wst EXCEPT ![w] = "gone"]
  /\ wcall' = [wcall EXCEPT ![w] = NoCall]
  /\ IF wst[w] \in {"busy", "replied"}
       THEN DiscardFuncCall(wcall[w])
       ELSE UNCHANGED discarded
  /\ UNCHANGED <<running, pending, input, shm, replies, pc, own, todo, ret,
                 outcome, nfin, arrived, nrec>>

(* OnNewHandshake of a func worker: OnFuncWorkerConnected makes it available *)
(* and ProcessDiscardedFuncCallIfNecessary runs on that thread.              *)
Reconnect(w) ==
  /\ wst[w] = "gone"
  /\ nrec < MaxReconnects
  /\ nrec' = nrec + 1
  /\ wst' = [wst EXCEPT ![w] = "idle"]
  /\ pc' = [pc EXCEPT ![<<"hs", nrec + 1>>] = "drain"]
  /\ UNCHANGED <<running, pending, discarded, input, shm, wcall, replies, own,
                 todo, ret, outcome, nfin, arrived, ncrash>>

-----------------------------------------------------------------------------
Dispatching(t) == CreateShmInput(t) \/ SendInvoke(t) \/ Erase(t)

GatewayStep(t) ==
  \/ Dispatching(t)
  \/ Drain(t)
  \/ DrainFinish(t)

Next ==
  \/ \E c \in Calls : Arrive(c) \/ MsgRecv(c) \/ MsgRelease(c)
  \/ \E t \in Threads : GatewayStep(t)
  \/ \E w \in Workers : Reply(w) \/ Crash(w) \/ Reconnect(w)

\* Every handler runs to its end on its IO thread, and a worker eventually
\* returns from the function it runs. Arrivals, disconnections and
\* reconnections are the environment's choice and are not fair.
Fairness ==
  /\ \A t \in Threads : WF_vars(GatewayStep(t))
  /\ \A c \in Calls : WF_vars(MsgRecv(c)) /\ WF_vars(MsgRelease(c))
  /\ \A w \in Workers : WF_vars(Reply(w))

Spec == Init /\ [][Next]_vars
FairSpec == Spec /\ Fairness

-----------------------------------------------------------------------------
(* Properties *)

Arrived(c) == input[c] # "none"
Finished(c) == nfin[c] > 0
ArrivalRank(c) == CHOOSE i \in 1..Len(arrived) : arrived[i] = c
Held(c) == \E t \in Threads : c \in own[t]

\* Admission never lets more than max_running_external_requests_ contexts
\* into running_external_func_calls_, across all three handlers' promotions.
CapRespected == Cap > 0 => Cardinality(running) <= Cap

\* Each HTTP/gRPC response is finalized at most once, even when a worker's
\* reply and its disconnection race through OnRecvMessage and the drain.
SingleFinish == \A c \in Calls : nfin[c] <= 1

\* Conservation: a context that reached the core is always in running, in
\* pending, held by a handler about to finalize it, or already finalized; no
\* path drops a request without answering it.
NoLostContext ==
  \A c \in Calls : Arrived(c) =>
     c \in running \/ Contains(pending, c) \/ Held(c) \/ Finished(c)

\* A call a worker is executing is still in running, so that its reply finds
\* the context and reaches the client.
InvokedCallsTracked ==
  \A w \in Workers : wst[w] = "busy" => wcall[w] \in running

\* A worker executing a call with a large body can still open its input shm:
\* the region is not unlinked before the worker has replied.
WorkerInputAvailable ==
  \A w \in Workers : wst[w] = "busy" /\ input[wcall[w]] = "large" =>
     wcall[w] \in shm

\* spec.md 4.6: HTTP 500 / gRPC UNKNOWN means the function failed or its
\* output could not be read; a resource failure on the input side is a
\* dispatch failure (404 / UNIMPLEMENTED).
ErrorOnlyFromWorker ==
  \A c \in Calls : outcome[c] = "error" =>
     <<c, "fail">> \in replies \/ <<c, "ok_shm">> \in replies

\* With max_running_external_requests_ no larger than the worker pool and
\* every worker connected throughout, no request is answered with a dispatch
\* failure: a running slot is only free when a worker is. OnRecvMessage frees
\* the slot under mu_ but the worker only afterwards, in OnFuncCallCompleted.
NoDispatchFailureWithinCap ==
  (/\ Cap \in 1..Cardinality(Workers)
   /\ ncrash = 0 /\ nrec = 0
   /\ \A w \in Workers : wst[w] # "gone")
    => \A c \in Calls : outcome[c] # "dispatch_failure"

\* spec.md 8, FIFO admission: no call enters running while a call that
\* arrived before it waits in pending.
NoOvertaking ==
  \A c \in running : \A i \in 1..Len(pending) :
     ArrivalRank(c) < ArrivalRank(pending[i])

\* The refinement mapping: the abstract queue is pending_external_func_calls_,
\* the admitted calls are the keys of running_external_func_calls_, a call is
\* answered once its context has been finalized.
Abs == INSTANCE AdmissionAbstract WITH
         queue <- pending, admitted <- running,
         answered <- {c \in Calls : Finished(c)},
         seen <- {c \in Calls : Arrived(c)}

\* The three handlers together implement the abstract admission contract:
\* NewExternalFuncCall admits or queues, the completion and drain paths free
\* slots and promote only from the head of pending within the cap, the erase
\* after a failed dispatch frees a slot, and no queued call is answered.
ImplementsAdmissionAbstract == Abs!ASpec

\* Every request that reaches the core is eventually answered.
EveryRequestAnswered == \A c \in Calls : Arrived(c) ~> Finished(c)

\* A call queued in pending is eventually promoted out of it.
PendingEventuallyDispatched ==
  \A c \in Calls : Contains(pending, c) ~> ~Contains(pending, c)

\* A call discarded because its worker went away is eventually answered
\* (spec.md 4.1: the list is drained after every connection-close handler).
DiscardedEventuallyAnswered ==
  \A c \in Calls : Contains(discarded, c) ~> Finished(c)
=============================================================================
