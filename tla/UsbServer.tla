------------------------------ MODULE UsbServer ------------------------------
(***************************************************************************)
(* The life of the MTP server: the main thread starts and stops it         *)
(* (main.c), a worker thread serves one command after the other            *)
(* (mtp_server.c) through transfers that are posted, awaited, timed out    *)
(* and cancelled (usb_transport.c), while the host talks or does not and   *)
(* the cable comes and goes.  What a command does to the stores is module  *)
(* MtpResponder's; here a command is its transfers, the session and the    *)
(* upload it leaves open.                                                  *)
(*                                                                         *)
(* usb:ds is external: a transfer that is cancelled, or whose bus is gone, *)
(* ends with an error some time later; one posted without a bus is refused.*)
(***************************************************************************)
EXTENDS Integers

CONSTANTS
  Chunks,        \* transfers of a data phase at most
  MaxUnstarted,  \* bound: threads whose start fails
  Faults         \* what may fail: "usb", "server", "create", "start", "begin"

ASSUME UsbAssumption == Chunks \in Nat \ {0} /\ MaxUnstarted \in Nat

Commands  == {"OpenSession", "CloseSession", "GetObject", "SendObjectInfo", "SendObject"}
Endpoints == {"in", "out"}

VARIABLES
  main,     \* where the main thread is: "off", "up", or in server_stop
  run,      \* g_worker_run
  worker,   \* where the worker is, and in which transfer of which command
  alive,    \* what is allocated: usb:ds with its endpoints, the server's buffers,
            \* threads that were created and not closed
  bus,      \* a host has configured the device
  urb,      \* the transfer posted on each endpoint, for the console's side
  event,    \* CompletionEvent of each endpoint
  report,   \* how the last transfer of each endpoint ended
  session,  \* g_mtp.session_open
  upload,   \* g_mtp.pending_send
  writer,   \* the store's file of that upload is open
  stale,    \* so is the one of an upload that g_mtp has forgotten
  late,     \* history: command reads posted since the stop began
  unstarted,\* history: threads whose start failed
  cut       \* history: a stop has met a pending upload

mtp  == <<session, upload, writer, stale>>
ds   == <<bus, urb, event, report>>
hist == <<late, unstarted, cut>>
vars == <<main, run, worker, alive, ds, mtp, hist>>

Outcomes(call) == IF call \in Faults THEN BOOLEAN ELSE {TRUE}

\* The worker outside and inside a transfer.
At(pc) == [pc |-> pc, cmd |-> "none", phase |-> "none", left |-> 0]
In(pc, cmd, phase, left) == [pc |-> pc, cmd |-> cmd, phase |-> phase, left |-> left]

\* Mutant: responses are awaited without end.
TimedDataOnly(w) == w.phase = "data"

\* The endpoint a transfer goes through, and whether it is awaited for
\* MTP_DATA_TIMEOUT_NS or without end.
Endpoint(w) == IF w.phase = "command" \/ (w.phase = "data" /\ w.cmd # "GetObject")
                 THEN "out" ELSE "in"
Timed(w)    == w.phase # "command"

Init ==
  /\ main = "off" /\ run = FALSE /\ worker = At("gone")
  /\ alive = [usb |-> FALSE, buffers |-> FALSE, threads |-> 0]
  /\ bus = FALSE
  /\ urb = [e \in Endpoints |-> "none"] /\ event = [e \in Endpoints |-> FALSE]
  /\ report = [e \in Endpoints |-> "none"]
  /\ session = FALSE /\ upload = FALSE /\ writer = FALSE /\ stale = FALSE
  /\ late = 0 /\ unstarted = 0 /\ cut = FALSE
-----------------------------------------------------------------------------
(* The main thread: server_start, server_stop.                             *)

\* mtpServerInit forgets the session and the upload of the last time, not the
\* file its store has open.
Forget == session' = FALSE /\ upload' = FALSE /\ writer' = FALSE /\ stale' = (stale \/ writer)

Starts == IF unstarted < MaxUnstarted THEN Outcomes("start") ELSE {TRUE}

\* What came up before a call failed is taken down again, but for a thread
\* that was created and could not be started: it is not closed, and the next
\* start puts another one in its place.
Start ==
  /\ main = "off"
  /\ \E usb \in Outcomes("usb"), server \in Outcomes("server"),
        created \in Outcomes("create"), started \in Starts :
       LET made == usb /\ server /\ created
           up   == made /\ started IN
       /\ main' = IF up THEN "up" ELSE "off"
       /\ run' = up /\ worker' = At(IF up THEN "check" ELSE "gone")
       /\ alive' = [usb |-> up, buffers |-> up, threads |-> alive.threads + (IF made THEN 1 ELSE 0)]
       /\ unstarted' = IF made /\ ~started THEN unstarted + 1 ELSE unstarted
       /\ IF usb /\ server THEN Forget ELSE UNCHANGED mtp
  /\ late' = 0
  /\ UNCHANGED <<ds, cut>>

StopBegins ==
  /\ main = "up" /\ main' = "cancelIn"
  /\ run' = FALSE
  /\ UNCHANGED <<worker, alive, ds, mtp, hist>>

\* usbDsEndpoint_Cancel: only what is posted can be cancelled.
Cancelled(e) == [urb EXCEPT ![e] = IF @ = "posted" THEN "cancelled" ELSE @]

\* usbTransportCancel
StopCancels ==
  /\ \/ main = "cancelIn"  /\ main' = "cancelOut" /\ urb' = Cancelled("in")
     \/ main = "cancelOut" /\ main' = "join"      /\ urb' = Cancelled("out")
  /\ UNCHANGED <<run, worker, alive, bus, event, report, mtp, hist>>

\* Mutant: the thread is not waited for.
JoinNot == main = "join"

\* threadWaitForExit
Join == main = "join" /\ worker.pc = "gone"

\* threadClose, mtpServerExit, usbTransportExit: the host sees the device go.
\* A pending upload is not ended, and its store's file stays open.
StopEnds ==
  /\ Join /\ main' = "off"
  /\ alive' = [usb |-> FALSE, buffers |-> FALSE, threads |-> alive.threads - 1]
  /\ bus' = FALSE
  /\ cut' = (cut \/ upload)
  /\ UNCHANGED <<run, worker, urb, event, report, mtp, late, unstarted>>
-----------------------------------------------------------------------------
(* The worker thread: worker_main, mtpServerRunOnce, nexus_xfer_once.      *)

\* Mutant: the loop does not look whether to go on.
CheckNot ==
  /\ worker.pc = "check"
  /\ worker' = At("ready")
  /\ UNCHANGED <<main, run, alive, ds, mtp, hist>>

Check ==
  /\ worker.pc = "check"
  /\ worker' = At(IF run THEN "ready" ELSE "gone")
  /\ UNCHANGED <<main, run, alive, ds, mtp, hist>>

\* Mutant: the upload is forgotten, its store is not told.
ResetForgets == session' = FALSE /\ upload' = FALSE /\ UNCHANGED <<writer, stale>>

\* mtpServerResetSession
ResetSession ==
  /\ session' = FALSE /\ upload' = FALSE
  /\ writer' = (writer /\ ~upload)
  /\ UNCHANGED stale

\* Mutant: a session outlives the cable.
ReadyOnly ==
  /\ worker.pc = "ready"
  /\ worker' = IF bus THEN In("post", "none", "command", 1) ELSE At("check")
  /\ UNCHANGED <<main, run, alive, ds, mtp, hist>>

\* usbTransportIsReady; without a host the session is reset.
Ready ==
  /\ worker.pc = "ready"
  /\ worker' = IF bus THEN In("post", "none", "command", 1) ELSE At("check")
  /\ IF ~bus /\ session THEN ResetSession ELSE UNCHANGED mtp
  /\ UNCHANGED <<main, run, alive, ds, hist>>

\* Mutant: an upload whose data failed stays pending.
FailedStillPending ==
  /\ worker' = At("check")
  /\ writer' = (writer /\ ~(worker.phase = "data" /\ worker.cmd = "SendObject"))
  /\ UNCHANGED <<session, upload, stale>>

\* What follows a transfer that failed: a dataset that does not arrive is
\* answered, everything else ends the transaction.
Failed ==
  /\ worker' = IF worker.phase = "data" /\ worker.cmd = "SendObjectInfo"
                 THEN In("post", worker.cmd, "response", 1) ELSE At("check")
  /\ IF worker.phase = "data" /\ worker.cmd = "SendObject"
       THEN upload' = FALSE /\ writer' = FALSE ELSE UNCHANGED <<upload, writer>>
  /\ UNCHANGED <<session, stale>>

\* usbDsEndpoint_PostBufferAsync
Post ==
  /\ worker.pc = "post"
  /\ IF bus THEN /\ urb' = [urb EXCEPT ![Endpoint(worker)] = "posted"]
                 /\ worker' = [worker EXCEPT !.pc = "waiting"]
                 /\ UNCHANGED mtp
            ELSE Failed /\ UNCHANGED urb
  /\ late' = IF bus /\ ~run /\ worker.phase = "command" THEN late + 1 ELSE late
  /\ UNCHANGED <<main, run, alive, bus, event, report, unstarted, cut>>

\* mtpHandleCommand, up to the first transfer of command c.  A new session has
\* the saves' mount closed, with a file that was left open in it.
Handle(c) ==
  LET abandoned == upload /\ c # "SendObject"
      data      == session /\ c \in {"GetObject", "SendObjectInfo"}
                              \cup (IF upload THEN {"SendObject"} ELSE {}) IN
  /\ session' = ((session \/ c = "OpenSession") /\ c # "CloseSession")
  /\ upload' = (upload /\ ~abandoned)
  /\ writer' = (writer /\ ~abandoned)
  /\ stale' \in {stale} \cup (IF c = "OpenSession" /\ ~session THEN {FALSE} ELSE {})
  /\ \E chunks \in 1..Chunks :
       /\ chunks = 1 \/ (data /\ c # "SendObjectInfo")
       /\ worker' = In("post", c, IF data THEN "data" ELSE "response", chunks)

\* Data has arrived or gone: more of it, or what the command does with it and
\* the response.  A store that begins to write closes the file it has open.
DataMoved ==
  /\ worker' = IF worker.left > 1 THEN [worker EXCEPT !.pc = "post", !.left = @ - 1]
                                  ELSE In("post", worker.cmd, "response", 1)
  /\ UNCHANGED session
  /\ IF worker.cmd = "SendObject" /\ worker.left = 1
       THEN upload' = FALSE /\ writer' = FALSE /\ UNCHANGED stale
     ELSE IF worker.cmd = "SendObjectInfo"
       THEN \E begun \in Outcomes("begin") :
              upload' = begun /\ writer' = begun /\ stale' \in {stale, FALSE}
     ELSE UNCHANGED <<upload, writer, stale>>

\* The event is signalled: it is cleared and the report looked at.
Take ==
  LET e == Endpoint(worker) IN
  /\ worker.pc = "waiting" /\ event[e]
  /\ event' = [event EXCEPT ![e] = FALSE]
  /\ IF report[e] = "failed" THEN Failed
     ELSE IF worker.phase = "command"
       THEN \/ \E c \in Commands : Handle(c)
            \/ worker' = At("check") /\ UNCHANGED mtp  \* not a command
     ELSE IF worker.phase = "data" THEN DataMoved
     ELSE worker' = At("check") /\ UNCHANGED mtp
  /\ UNCHANGED <<main, run, alive, bus, urb, report, hist>>

\* eventWait gives up; the cancellation that follows is a step of its own, so
\* that the transfer may still end before it.
TimeOut ==
  /\ worker.pc = "waiting" /\ Timed(worker) /\ ~event[Endpoint(worker)]
  /\ worker' = [worker EXCEPT !.pc = "cancelling"]
  /\ UNCHANGED <<main, run, alive, ds, mtp, hist>>

Cancel ==
  /\ worker.pc = "cancelling"
  /\ urb' = Cancelled(Endpoint(worker))
  /\ worker' = [worker EXCEPT !.pc = "draining"]
  /\ UNCHANGED <<main, run, alive, bus, event, report, mtp, hist>>

\* Mutant: the completion of a cancelled transfer is not waited for.
DrainNot ==
  /\ worker.pc = "draining"
  /\ event' = [event EXCEPT ![Endpoint(worker)] = FALSE]
  /\ Failed
  /\ UNCHANGED <<main, run, alive, bus, urb, report, hist>>

\* "drain the event so a late completion does not leak into the next transfer"
Drain ==
  /\ worker.pc = "draining" /\ event[Endpoint(worker)]
  /\ event' = [event EXCEPT ![Endpoint(worker)] = FALSE]
  /\ Failed
  /\ UNCHANGED <<main, run, alive, bus, urb, report, hist>>
-----------------------------------------------------------------------------
(* usb:ds, the host and the cable.                                         *)

Ends(e, how) ==
  /\ urb' = [urb EXCEPT ![e] = "none"]
  /\ event' = [event EXCEPT ![e] = TRUE]
  /\ report' = [report EXCEPT ![e] = how]
  /\ UNCHANGED <<main, run, worker, alive, bus, mtp, hist>>

\* A transfer may still go through while it is being cancelled.
HostMoves(e) == bus /\ urb[e] # "none" /\ Ends(e, "moved")

Drops(e) == (urb[e] = "cancelled" \/ (urb[e] = "posted" /\ ~bus)) /\ Ends(e, "failed")

Cable ==
  /\ alive.usb /\ bus' = ~bus
  /\ UNCHANGED <<main, run, worker, alive, urb, event, report, mtp, hist>>
-----------------------------------------------------------------------------
Worker == Check \/ Ready \/ Post \/ Take \/ TimeOut \/ Cancel \/ Drain
Stop   == StopCancels \/ StopEnds
UsbDs  == \E e \in Endpoints : Drops(e)

Next == \/ Start \/ StopBegins \/ Stop
        \/ Worker \/ UsbDs
        \/ \E e \in Endpoints : HostMoves(e)
        \/ Cable

\* Threads run, and usb:ds ends what it was told to; nothing of the host, the
\* cable or the user.
Spec == Init /\ [][Next]_vars /\ WF_vars(Worker) /\ WF_vars(Stop) /\ WF_vars(UsbDs)
-----------------------------------------------------------------------------
TypeOK ==
  /\ main \in {"off", "up", "cancelIn", "cancelOut", "join"}
  /\ {run, bus, session, upload, writer, stale, cut} \subseteq BOOLEAN
  /\ alive \in [usb : BOOLEAN, buffers : BOOLEAN, threads : Nat]
  /\ worker \in [pc : {"gone", "check", "ready", "post", "waiting", "cancelling", "draining"},
                 cmd : Commands \cup {"none"},
                 phase : {"none", "command", "data", "response"}, left : 0..Chunks]
  /\ urb \in [Endpoints -> {"none", "posted", "cancelled"}]
  /\ event \in [Endpoints -> BOOLEAN]
  /\ report \in [Endpoints -> {"none", "moved", "failed"}]
  /\ late \in Nat /\ unstarted \in 0..MaxUnstarted
  /\ upload => session /\ writer

\* The worker and the controller never reach into what server_stop has freed:
\* neither a thread that still runs nor a transfer that is still posted.
NoUseAfterFree ==
  /\ worker.pc # "gone" => alive.usb /\ alive.buffers
  /\ \A e \in Endpoints : urb[e] # "none" => alive.usb /\ alive.buffers

\* A server that is down has given back usb:ds, its buffers and its thread,
\* however far it came when it was started.  What it leaves is a thread for
\* each start that failed at its last call (main.c:118), and a store's file
\* open if a stop has met a pending upload (mtp_server.c:63): no other end of
\* an upload, by a command, the cable or a failure, leaves one.
AllReleased ==
  main = "off" =>
    /\ ~alive.usb /\ ~alive.buffers /\ ~run /\ worker.pc = "gone"
    /\ alive.threads = unstarted
    /\ writer \/ stale => cut

\* A transfer that timed out, was cancelled or lost its bus is over for good
\* before the next one begins: neither its completion nor its event is left
\* for that one (usb_transport.c:347).
Drained ==
  worker.pc \in {"gone", "check", "ready", "post"} =>
    \A e \in Endpoints : urb[e] = "none" /\ ~event[e]

\* However server_stop and the worker's loop interleave, one command at most
\* is still read after the stop began.
AtMostOneMore == late <= 1

\* A session does not outlive its cable, whatever the worker was in when it
\* was pulled, unless it is back or the server stops.
SessionEnds == (session /\ ~bus) ~> (~session \/ bus \/ ~run)

\* server_stop returns ("unblock the parked USB read", main.c:138).
StopReturns == (main = "cancelIn") ~> (main = "off")

\* The one thing that can keep server_stop is a command read posted behind the
\* cancellation: no data phase, response, timeout or pulled cable does.
Parked == main = "join" /\ worker.pc = "waiting" /\ worker.phase = "command"
StopReturnsOrParked == [](main = "cancelIn" => <>(main = "off") \/ <>[]Parked)
=============================================================================
