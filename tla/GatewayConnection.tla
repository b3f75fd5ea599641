------------------------- MODULE GatewayConnection -------------------------
(***************************************************************************)
(* The watchdog's IPC connection to the gateway                            *)
(* (watchdog/gateway_connection.cpp): the state_ machine kCreated ->       *)
(* kHandshake -> kRunning -> kClosing -> kClosed, driven by libuv          *)
(* callbacks on one event loop. Byte counts are abstract units: the        *)
(* gateway's handshake response is HsSize units followed by PayloadSize    *)
(* units of inline tail (server.cpp:269-270 sends the config JSON), and    *)
(* every later message is MsgSize units. The stream delivers what the      *)
(* gateway wrote in chunks of any size, as a Unix stream socket may.       *)
(***************************************************************************)
EXTENDS Naturals

CONSTANTS
  HsSize,       \* sizeof(HandshakeResponse)
  PayloadSize,  \* inline tail the gateway writes after the response header
  MsgSize,      \* sizeof(Message)
  MaxMsgs,      \* bound on messages the gateway sends after the handshake
  MaxWrites,    \* bound on messages the watchdog writes
  MaxFailures   \* bound on failed callbacks (connect, write, read errors)

ASSUME HsSize > 0 /\ MsgSize > 0 /\ PayloadSize \in Nat
ASSUME MaxMsgs \in Nat /\ MaxWrites \in Nat /\ MaxFailures \in Nat

States == {"kCreated", "kHandshake", "kRunning", "kClosing", "kClosed"}

VARIABLES
  state,       \* state_
  connecting,  \* the uv_pipe_connect request is outstanding
  hsWrite,     \* the handshake uv_write is outstanding
  writes,      \* outstanding uv_write requests of WriteMessage
  rd,          \* the active read callback: "off", "hs" or "msg"
  buf,         \* message_buffer_.length()
  avail,       \* bytes written by the gateway and not yet read
  responded,   \* the gateway has written its handshake response
  peerClosed,  \* the gateway has closed its end: OnConnectionClose has run
  registered,  \* the WorkerManager holds this connection as a launcher
  msgsSent,    \* messages the gateway wrote after the response
  hsDone,      \* RecvHandshakeResponse accepted the response
  afterHs,     \* history: bytes read since the buffer was reset
  delivered,   \* messages passed to Watchdog::OnRecvMessage
  closeReqs,   \* uv_close calls on uv_pipe_handle_
  failures

vars == <<state, connecting, hsWrite, writes, rd, buf, avail, responded,
          peerClosed, registered,
          msgsSent, hsDone, afterHs, delivered, closeReqs, failures>>

TypeOK ==
  /\ state \in States
  /\ connecting \in BOOLEAN /\ hsWrite \in BOOLEAN
  /\ writes \in 0..MaxWrites
  /\ rd \in {"off", "hs", "msg"}
  /\ buf \in Nat /\ avail \in Nat /\ afterHs \in Nat /\ delivered \in Nat
  /\ responded \in BOOLEAN /\ peerClosed \in BOOLEAN
  /\ registered \in BOOLEAN /\ hsDone \in BOOLEAN
  /\ msgsSent \in 0..MaxMsgs
  /\ closeReqs \in Nat
  /\ failures \in 0..MaxFailures

Init ==
  /\ state = "kCreated"
  /\ connecting = FALSE /\ hsWrite = FALSE /\ writes = 0
  /\ rd = "off" /\ buf = 0 /\ avail = 0
  /\ responded = FALSE /\ peerClosed = FALSE
  /\ registered = FALSE /\ msgsSent = 0
  /\ hsDone = FALSE /\ afterHs = 0 /\ delivered = 0
  /\ closeReqs = 0 /\ failures = 0

-----------------------------------------------------------------------------
\* Mutant of ScheduleClose: the state moves to kClosing but uv_close is
\* never called on the handle.
ScheduleCloseNoUvClose ==
  IF state \in {"kHandshake", "kRunning"}
    THEN /\ state' = "kClosing"
         /\ rd' = "off"
         /\ UNCHANGED closeReqs
    ELSE UNCHANGED <<state, closeReqs, rd>>

\* ScheduleClose: only from kHandshake or kRunning, uv_close and kClosing.
\* Closing the handle also stops reading.
ScheduleClose ==
  IF state \in {"kHandshake", "kRunning"}
    THEN /\ state' = "kClosing"
         /\ closeReqs' = closeReqs + 1
         /\ rd' = "off"
    ELSE UNCHANGED <<state, closeReqs, rd>>

\* A callback reporting an error status, within the failure bound.
Fail == failures < MaxFailures /\ failures' = failures + 1

\* Start: store the handshake, uv_pipe_connect, kHandshake.
Start ==
  /\ state = "kCreated"
  /\ state' = "kHandshake"
  /\ connecting' = TRUE
  /\ UNCHANGED <<hsWrite, writes, rd, buf, avail, responded, peerClosed,
                 registered, msgsSent, hsDone,
                 afterHs, delivered, closeReqs, failures>>

\* ConnectCallback: on error ScheduleClose, else write the handshake.
ConnectCallback ==
  /\ connecting
  /\ connecting' = FALSE
  /\ \/ /\ Fail
        /\ ScheduleClose
        /\ UNCHANGED hsWrite
     \/ /\ state = "kHandshake"
        /\ hsWrite' = TRUE
        /\ UNCHANGED <<state, closeReqs, rd, failures>>
  /\ UNCHANGED <<writes, buf, avail, responded, peerClosed, registered,
                 msgsSent, hsDone, afterHs,
                 delivered>>

\* WriteHandshakeCallback: on error ScheduleClose, else start reading with
\* ReadHandshakeResponseCallback. A write cancelled by uv_close reports an
\* error.
WriteHandshakeCallback ==
  /\ hsWrite
  /\ hsWrite' = FALSE
  /\ \/ /\ state = "kClosing"
        /\ ScheduleClose
        /\ UNCHANGED failures
     \/ /\ state # "kClosing"
        /\ ~responded /\ ~peerClosed
        /\ Fail
        /\ ScheduleClose
     \/ /\ state = "kHandshake"
        /\ rd' = "hs"
        /\ UNCHANGED <<state, closeReqs, failures>>
  /\ UNCHANGED <<connecting, writes, buf, avail, responded, peerClosed,
                 registered, msgsSent, hsDone,
                 afterHs, delivered>>

\* The gateway can read the handshake once the watchdog's write of it is
\* under way, before or after WriteHandshakeCallback has run.
GatewayHasHandshake == (hsWrite \/ rd = "hs") /\ ~responded /\ ~peerClosed

\* Server::OnNewHandshake returns true: WorkerManager::OnLauncherConnected
\* has registered the connection, and the gateway writes the response header
\* and its inline tail, the function-config JSON.
GatewayRespond ==
  /\ GatewayHasHandshake
  /\ responded' = TRUE
  /\ registered' = TRUE
  /\ avail' = avail + HsSize + PayloadSize
  /\ UNCHANGED <<state, connecting, hsWrite, writes, rd, buf, peerClosed,
                 msgsSent, hsDone, afterHs, delivered, closeReqs, failures>>

\* Server::OnNewHandshake returns false (not a handshake message, unknown
\* func_id, a launcher handshake without a container id, or the worker
\* manager refusing the connection): the gateway closes the connection
\* without writing a response (spec.md 4.3); OnConnectionClose then finds
\* the handshake not done and has nothing to unregister.
GatewayReject ==
  /\ GatewayHasHandshake
  /\ peerClosed' = TRUE
  /\ UNCHANGED <<state, connecting, hsWrite, writes, rd, buf, avail, responded,
                 registered, msgsSent, hsDone, afterHs, delivered, closeReqs,
                 failures>>

\* Server::OnConnectionClose for the gateway's MessageConnection, once the
\* watchdog's uv_close has ended the stream: a connection whose handshake
\* was done is unregistered as a launcher, and it is erased (freed).
OnConnectionClose ==
  /\ closeReqs > 0 /\ ~peerClosed
  /\ peerClosed' = TRUE
  /\ registered' = FALSE
  /\ UNCHANGED <<state, connecting, hsWrite, writes, rd, buf, avail, responded,
                 msgsSent, hsDone, afterHs, delivered, closeReqs, failures>>

\* The gateway writes a further message on the connection while its end is
\* open.
GatewaySend ==
  /\ responded /\ ~peerClosed /\ msgsSent < MaxMsgs
  /\ msgsSent' = msgsSent + 1
  /\ avail' = avail + MsgSize
  /\ UNCHANGED <<state, connecting, hsWrite, writes, rd, buf, responded,
                 peerClosed, registered, hsDone,
                 afterHs, delivered, closeReqs, failures>>

\* RecvHandshakeResponse, once the buffer holds exactly HsSize units: stop
\* reading; if Watchdog::OnRecvHandshakeResponse accepts it, reset the buffer,
\* read with ReadMessageCallback and enter kRunning. If it rejects it, reading
\* stays stopped and the state stays kHandshake.
RecvHandshakeResponse(n) ==
  \/ /\ rd' = "msg"
     /\ state' = "kRunning"
     /\ hsDone' = TRUE
     /\ buf' = 0
     /\ afterHs' = 0
  \/ /\ rd' = "off"
     /\ buf' = buf + n
     /\ UNCHANGED <<state, hsDone, afterHs>>

\* ReadHandshakeResponseCallback with nread = n > 0: append the chunk; when
\* the buffer reaches sizeof(HandshakeResponse) handle the response. A chunk
\* taking it past that size breaks DCHECK_LE; in a release build the length
\* never equals the size again.
ReadHandshakeResponse ==
  /\ rd = "hs" /\ avail > 0
  /\ \E n \in 1..avail :
       /\ avail' = avail - n
       /\ IF buf + n = HsSize
            THEN RecvHandshakeResponse(n)
            ELSE /\ buf' = buf + n
                 /\ UNCHANGED <<rd, state, hsDone, afterHs>>
  /\ UNCHANGED <<connecting, hsWrite, writes, responded, peerClosed, registered,
                 msgsSent, delivered,
                 closeReqs, failures>>

\* ReadMessageCallback with nread = n > 0: utils::ReadMessages hands every
\* complete MsgSize frame to Watchdog::OnRecvMessage and keeps the rest.
ReadMessage ==
  /\ rd = "msg" /\ avail > 0
  /\ \E n \in 1..avail :
       /\ avail' = avail - n
       /\ delivered' = delivered + (buf + n) \div MsgSize
       /\ buf' = (buf + n) % MsgSize
       /\ afterHs' = afterHs + n
  /\ UNCHANGED <<state, connecting, hsWrite, writes, rd, responded, peerClosed,
                 registered, msgsSent,
                 hsDone, closeReqs, failures>>

\* Mutant of ReadEof: ReadHandshakeResponseCallback lacks the nread < 0
\* branch, so only ReadMessageCallback reacts to end of stream.
ReadEofRunningOnly ==
  /\ rd = "msg" /\ peerClosed /\ avail = 0
  /\ ScheduleClose
  /\ UNCHANGED <<connecting, hsWrite, writes, buf, avail, responded, peerClosed,
                 registered,
                 msgsSent, hsDone, afterHs, delivered, failures>>

\* Either read callback with nread = UV_EOF, once the gateway has closed
\* its end and every byte it wrote has been read: ScheduleClose.
ReadEof ==
  /\ rd # "off" /\ peerClosed /\ avail = 0
  /\ ScheduleClose
  /\ UNCHANGED <<connecting, hsWrite, writes, buf, avail, responded, peerClosed,
                 registered,
                 msgsSent, hsDone, afterHs, delivered, failures>>

\* Either read callback with another nread < 0 (a read error): ScheduleClose.
ReadError ==
  /\ rd # "off"
  /\ Fail
  /\ ScheduleClose
  /\ UNCHANGED <<connecting, hsWrite, writes, buf, avail, responded, peerClosed,
                 registered, msgsSent,
                 hsDone, afterHs, delivered>>

\* WriteMessage: a uv_write of one Message, allowed once running.
WriteMessage ==
  /\ state = "kRunning"
  /\ writes < MaxWrites
  /\ writes' = writes + 1
  /\ UNCHANGED <<state, connecting, hsWrite, rd, buf, avail, responded,
                 peerClosed, registered,
                 msgsSent, hsDone, afterHs, delivered, closeReqs, failures>>

\* Mutant of WriteMessageCallback: the write request is returned to the
\* pool twice (once explicitly, once by the finally guard).
WriteMessageCallbackDoubleReturn ==
  /\ writes > 0
  /\ writes' = writes - 2
  /\ \/ /\ state = "kClosing"
        /\ ScheduleClose
        /\ UNCHANGED failures
     \/ /\ state # "kClosing"
        /\ UNCHANGED <<state, closeReqs, rd, failures>>
  /\ UNCHANGED <<connecting, hsWrite, buf, avail, responded, peerClosed,
                 registered, msgsSent, hsDone,
                 afterHs, delivered>>

\* WriteMessageCallback: return the buffer; on error ScheduleClose. Writes
\* cancelled by uv_close report an error too.
WriteMessageCallback ==
  /\ writes > 0
  /\ writes' = writes - 1
  /\ \/ /\ state = "kClosing"
        /\ ScheduleClose
        /\ UNCHANGED failures
     \/ /\ state # "kClosing"
        /\ Fail
        /\ ScheduleClose
     \/ /\ state # "kClosing"
        /\ UNCHANGED <<state, closeReqs, rd, failures>>
  /\ UNCHANGED <<connecting, hsWrite, buf, avail, responded, peerClosed,
                 registered, msgsSent, hsDone,
                 afterHs, delivered>>

\* CloseCallback: libuv runs it after uv_close, once the cancelled requests'
\* callbacks have run: kClosed, and the watchdog is told.
CloseCallback ==
  /\ state = "kClosing" /\ closeReqs > 0
  /\ ~connecting /\ ~hsWrite /\ writes = 0
  /\ state' = "kClosed"
  /\ UNCHANGED <<connecting, hsWrite, writes, rd, buf, avail, responded,
                 peerClosed, registered,
                 msgsSent, hsDone, afterHs, delivered, closeReqs, failures>>

-----------------------------------------------------------------------------
Callback ==
  \/ ConnectCallback \/ WriteHandshakeCallback \/ ReadHandshakeResponse
  \/ ReadMessage \/ ReadEof \/ WriteMessageCallback \/ CloseCallback

Next ==
  \/ Start \/ Callback \/ ReadError \/ WriteMessage
  \/ GatewayRespond \/ GatewayReject \/ OnConnectionClose \/ GatewaySend

\* libuv runs every ready callback, an end of stream included; the gateway
\* answers, or rejects, a handshake it has received, and its loop handles
\* the end of a connection the watchdog closed. Failures, the watchdog's
\* writes and the gateway's later messages are not forced.
Fairness ==
  /\ WF_vars(Start) /\ WF_vars(Callback)
  /\ WF_vars(GatewayRespond \/ GatewayReject) /\ WF_vars(OnConnectionClose)

Spec == Init /\ [][Next]_vars
FairSpec == Spec /\ Fairness

-----------------------------------------------------------------------------
(* Properties *)

\* Every frame handed to Watchdog::OnRecvMessage is one of the gateway's
\* messages: after the handshake, frames are cut from the bytes that follow
\* the response and its inline tail (server.cpp:269-270, spec.md 4.3).
FramesAreMessages ==
  hsDone => delivered * MsgSize <= IF afterHs >= PayloadSize
                                      THEN afterHs - PayloadSize ELSE 0

\* DCHECK_LE(message_buffer_.length(), sizeof(HandshakeResponse)) in
\* ReadHandshakeResponseCallback.
HandshakeBufferBounded == rd = "hs" => buf <= HsSize

\* A connection that started closing reaches kClosed (the watchdog is told).
ClosingEventuallyClosed == state = "kClosing" ~> state = "kClosed"

\* A handshake the gateway rejects by closing the connection (OnNewHandshake
\* returning false) ends with the watchdog's connection closed: the end of
\* stream reaches ReadHandshakeResponseCallback, which schedules the close.
GatewayRejectClosesConnection == peerClosed ~> state = "kClosed"
=============================================================================
