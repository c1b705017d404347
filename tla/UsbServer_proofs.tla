-------------------------- MODULE UsbServer_proofs --------------------------
(***************************************************************************)
(* What holds of the server through every interleaving of main thread,     *)
(* worker, usb:ds, host and cable, for data phases of any length and       *)
(* whatever fails when it is started.  The invariant says which transfer   *)
(* may be out in each state of the worker, what is allocated in each state *)
(* of the main thread, and which command read may still come.              *)
(***************************************************************************)
EXTENDS UsbServer, TLAPS

Pcs    == {"gone", "check", "ready", "post", "waiting", "cancelling", "draining"}
Phases == {"none", "command", "data", "response"}
Mains  == {"off", "up", "cancelIn", "cancelOut", "join"}

WorkerStates == [pc : Pcs, cmd : Commands \cup {"none"}, phase : Phases, left : 0..Chunks]

WorkerTyped == worker \in WorkerStates

DsTyped ==
  /\ urb \in [Endpoints -> {"none", "posted", "cancelled"}]
  /\ event \in [Endpoints -> BOOLEAN]
  /\ report \in [Endpoints -> {"none", "moved", "failed"}]
  /\ bus \in BOOLEAN

MtpTyped ==
  /\ {session, upload, writer, stale} \subseteq BOOLEAN
  /\ upload => session /\ writer
  /\ writer => upload
  /\ worker.phase = "data" => session

\* A transfer is out only in the states that wait for it, on its endpoint
\* only, and has not ended while it is.
OneTransfer ==
  \A e \in Endpoints :
    /\ urb[e] # "none" \/ event[e] =>
         worker.pc \in {"waiting", "cancelling", "draining"} /\ e = Endpoint(worker)
    /\ event[e] => urb[e] = "none"

\* What the main thread holds: the worker's thread and those that could not be
\* started; the worker is gone when it holds nothing.
Held ==
  /\ main \in Mains /\ run = (main = "up")
  /\ alive.usb = (main # "off") /\ alive.buffers = (main # "off")
  /\ alive.threads = unstarted + (IF main = "off" THEN 0 ELSE 1)
  /\ alive \in [usb : BOOLEAN, buffers : BOOLEAN, threads : Nat]
  /\ unstarted \in 0..MaxUnstarted
  /\ main = "off" => worker.pc = "gone"

\* Only an upload that a stop has met outlives the server.
Cut ==
  /\ cut \in BOOLEAN
  /\ stale \/ (main = "off" /\ writer) => cut

\* A command read behind the stop is the last one.
LastRead ==
  /\ late \in {0, 1}
  /\ run \/ worker.pc = "ready" \/ (worker.pc = "post" /\ worker.phase = "command") => late = 0

UsbInv == WorkerTyped /\ DsTyped /\ MtpTyped /\ OneTransfer /\ Held /\ Cut /\ LastRead
-----------------------------------------------------------------------------

\* What the worker goes on with is a worker's state.
LEMMA AtTyped ==
  ASSUME NEW pc \in Pcs
  PROVE  At(pc) \in WorkerStates /\ At(pc).pc = pc /\ At(pc).phase = "none"
BY UsbAssumption DEF At, WorkerStates, Phases

LEMMA InTyped ==
  ASSUME NEW pc \in Pcs, NEW cmd \in Commands \cup {"none"}, NEW phase \in Phases,
         NEW left \in 1..Chunks
  PROVE  /\ In(pc, cmd, phase, left) \in WorkerStates
         /\ In(pc, cmd, phase, left).pc = pc /\ In(pc, cmd, phase, left).phase = phase
BY UsbAssumption DEF In, WorkerStates

\* The fields of a state, and the state with another program counter.
LEMMA Fields ==
  ASSUME WorkerTyped
  PROVE  /\ worker.pc \in Pcs /\ worker.cmd \in Commands \cup {"none"}
         /\ worker.phase \in Phases /\ worker.left \in 0..Chunks
         /\ \A pc \in Pcs : LET next == [worker EXCEPT !.pc = pc] IN
              /\ next \in WorkerStates /\ next.pc = pc
              /\ next.phase = worker.phase /\ next.cmd = worker.cmd
BY DEF WorkerTyped, WorkerStates

LEMMA Names ==
  /\ "gone" \in Pcs /\ "check" \in Pcs /\ "ready" \in Pcs /\ "post" \in Pcs
  /\ "waiting" \in Pcs /\ "cancelling" \in Pcs /\ "draining" \in Pcs
  /\ "command" \in Phases /\ "data" \in Phases /\ "response" \in Phases
  /\ "none" \in Commands \cup {"none"} /\ "SendObjectInfo" \in Commands \cup {"none"}
  /\ 1 \in 1..Chunks
BY UsbAssumption DEF Pcs, Phases, Commands
-----------------------------------------------------------------------------
LEMMA UsbInitial == Init => UsbInv
<1> SUFFICES ASSUME Init PROVE UsbInv
  OBVIOUS
<1>1. WorkerTyped /\ worker.pc = "gone" /\ worker.phase = "none"
  BY AtTyped, Names DEF Init, WorkerTyped
<1>2. DsTyped /\ OneTransfer
  BY DEF Init, DsTyped, OneTransfer
<1>3. MtpTyped /\ Cut /\ LastRead
  BY <1>1 DEF Init, MtpTyped, Cut, LastRead
<1>4. Held
  <2>1. alive = [usb |-> FALSE, buffers |-> FALSE, threads |-> 0] /\ unstarted = 0
        /\ main = "off" /\ run = FALSE
    BY DEF Init
  <2>2. alive \in [usb : BOOLEAN, buffers : BOOLEAN, threads : Nat] /\ unstarted \in 0..MaxUnstarted
    BY <2>1, UsbAssumption
  <2>3. alive.threads = unstarted + 0
    BY <2>1
  <2> QED BY <1>1, <2>1, <2>2, <2>3 DEF Held, Mains
<1> QED BY <1>1, <1>2, <1>3, <1>4 DEF UsbInv

LEMMA StartSafe == UsbInv /\ Start => UsbInv'
<1> SUFFICES ASSUME UsbInv, Start PROVE UsbInv'
  OBVIOUS
<1> USE DEF UsbInv
<1>1. main = "off" /\ late' = 0 /\ UNCHANGED <<bus, urb, event, report, cut>>
  BY DEF Start, ds
<1>2. \/ main' = "up" /\ run' = TRUE /\ worker' = At("check")
         /\ alive' = [usb |-> TRUE, buffers |-> TRUE, threads |-> alive.threads + 1]
         /\ unstarted' = unstarted
      \/ main' = "off" /\ run' = FALSE /\ worker' = At("gone")
         /\ \/ /\ alive' = [usb |-> FALSE, buffers |-> FALSE, threads |-> alive.threads + 0]
               /\ unstarted' = unstarted
            \/ /\ alive' = [usb |-> FALSE, buffers |-> FALSE, threads |-> alive.threads + 1]
               /\ unstarted' = unstarted + 1 /\ unstarted < MaxUnstarted
  <2>1. PICK usb \in Outcomes("usb"), server \in Outcomes("server"),
             created \in Outcomes("create"), started \in Starts :
          LET made == usb /\ server /\ created
              up   == made /\ started IN
          /\ main' = IF up THEN "up" ELSE "off"
          /\ run' = up /\ worker' = At(IF up THEN "check" ELSE "gone")
          /\ alive' = [usb |-> up, buffers |-> up,
                       threads |-> alive.threads + (IF made THEN 1 ELSE 0)]
          /\ unstarted' = IF made /\ ~started THEN unstarted + 1 ELSE unstarted
    BY DEF Start
  <2> DEFINE made == usb /\ server /\ created
  <2>2. started \in BOOLEAN /\ (started \/ unstarted < MaxUnstarted)
    BY DEF Starts, Outcomes
  <2>3. CASE made /\ started BY <2>1, <2>3
  <2>4. CASE ~made
    <3>1. (made /\ started) = FALSE BY <2>4
    <3> QED BY <2>1, <2>4, <3>1
  <2>5. CASE made /\ ~started
    <3>1. (made /\ started) = FALSE BY <2>5
    <3> QED BY <2>1, <2>2, <2>5, <3>1
  <2> QED BY <2>2, <2>3, <2>4, <2>5
<1>3. \A e \in Endpoints : urb[e] = "none" /\ ~event[e]
  BY <1>1 DEF Held, OneTransfer
<1>4. WorkerTyped' /\ worker'.pc \in {"check", "gone"} /\ worker'.phase = "none"
  BY <1>2, AtTyped, Names DEF WorkerTyped
<1>5. Forget \/ UNCHANGED mtp
  BY DEF Start
<1>6. MtpTyped'
  <2>1. CASE Forget
    BY <1>4, <2>1 DEF MtpTyped, Forget
  <2>2. CASE UNCHANGED mtp
    BY <1>4, <2>2 DEF MtpTyped, mtp
  <2> QED BY <1>5, <2>1, <2>2
<1>7. worker' = At("gone") => worker'.pc = "gone"
  BY AtTyped, Names
<1>8. Held'
  <2>1. alive.threads = unstarted /\ unstarted \in 0..MaxUnstarted
    BY <1>1, UsbAssumption DEF Held
  <2>2. alive.threads + 0 = unstarted /\ alive.threads + 1 = unstarted + 1
        /\ alive.threads \in Nat /\ alive.threads + 1 \in Nat
    BY <2>1, UsbAssumption
  <2>3. \/ main' = "up" /\ run' /\ worker' = At("check")
        \/ main' = "off" /\ ~run' /\ worker' = At("gone")
    BY <1>2
  <2> DEFINE Now ==
        /\ alive'.usb = (main' # "off") /\ alive'.buffers = (main' # "off")
        /\ alive'.threads = unstarted' + (IF main' = "off" THEN 0 ELSE 1)
        /\ alive' \in [usb : BOOLEAN, buffers : BOOLEAN, threads : Nat]
        /\ unstarted' \in 0..MaxUnstarted
        /\ run' = (main' = "up")
  <2>4. Now
    <3>1. ASSUME main' = "up", run' = TRUE, unstarted' = unstarted,
                 alive' = [usb |-> TRUE, buffers |-> TRUE, threads |-> alive.threads + 1]
          PROVE  Now
      BY <2>1, <2>2, <3>1
    <3>2. ASSUME main' = "off", run' = FALSE, unstarted' = unstarted,
                 alive' = [usb |-> FALSE, buffers |-> FALSE, threads |-> alive.threads + 0]
          PROVE  Now
      BY <2>1, <2>2, <3>2, UsbAssumption
    <3>3. ASSUME main' = "off", run' = FALSE,
                 unstarted' = unstarted + 1, unstarted < MaxUnstarted,
                 alive' = [usb |-> FALSE, buffers |-> FALSE, threads |-> alive.threads + 1]
          PROVE  Now
      <4>1. unstarted + 1 \in 0..MaxUnstarted
        BY <2>1, <3>3, UsbAssumption
      <4>2. alive'.threads = alive.threads + 1 /\ alive'.usb = FALSE /\ alive'.buffers = FALSE
            /\ alive' \in [usb : BOOLEAN, buffers : BOOLEAN, threads : Nat]
        BY <2>2, <3>3
      <4>3. alive'.threads = unstarted' + 0
        BY <2>1, <2>2, <3>3, <4>2
      <4> QED BY <3>3, <4>1, <4>2, <4>3
    <3> HIDE DEF Now
    <3> QED BY <1>2, <3>1, <3>2, <3>3
  <2> QED BY <1>7, <2>3, <2>4 DEF Held, Mains
<1>9. Cut'
  <2>1. CASE Forget
    BY <1>1, <2>1 DEF Forget, Cut, MtpTyped
  <2>2. CASE UNCHANGED mtp
    BY <1>1, <2>2 DEF mtp, Cut
  <2> QED BY <1>5, <2>1, <2>2
<1> QED BY <1>1, <1>3, <1>4, <1>6, <1>8, <1>9 DEF DsTyped, OneTransfer, LastRead

LEMMA StopSafe == UsbInv /\ (StopBegins \/ Stop) => UsbInv'
<1> SUFFICES ASSUME UsbInv, StopBegins \/ Stop PROVE UsbInv'
  OBVIOUS
<1> USE DEF UsbInv
<1>1. CASE StopBegins
  BY <1>1
  DEF StopBegins, ds, mtp, hist, WorkerTyped, DsTyped, MtpTyped, OneTransfer, Held, Cut, LastRead,
      Mains, Endpoint
<1>2. CASE StopCancels
  <2>1. PICK e \in Endpoints : urb' = Cancelled(e)
    BY <1>2 DEF StopCancels, Endpoints
  <2>2. UNCHANGED <<run, worker, alive, bus, event, report, session, upload, writer, stale, late, unstarted, cut>>
    BY <1>2 DEF StopCancels, mtp, hist
  <2>3. Held' /\ Cut'
    BY <1>2, <2>2 DEF StopCancels, Held, Cut, Mains
  <2> QED BY <2>1, <2>2, <2>3
    DEF Cancelled, WorkerTyped, DsTyped, MtpTyped, OneTransfer, LastRead, Endpoint
<1>3. CASE StopEnds
  <2>1. Held'
    <3>1. /\ main = "join" /\ main' = "off" /\ worker.pc = "gone" /\ UNCHANGED <<run, worker, unstarted>>
          /\ alive' = [usb |-> FALSE, buffers |-> FALSE, threads |-> alive.threads - 1]
      BY <1>3 DEF StopEnds, Join
    <3>2. alive.threads = unstarted + 1 /\ unstarted \in 0..MaxUnstarted /\ run = FALSE
      BY <3>1 DEF Held
    <3>3. alive.threads - 1 = unstarted /\ unstarted \in Nat
      BY <3>2, UsbAssumption
    <3>4. run' = (main' = "up")
      BY <3>1, <3>2
    <3>5. /\ alive'.usb = FALSE /\ alive'.buffers = FALSE /\ alive'.threads = unstarted' + 0
          /\ alive' \in [usb : BOOLEAN, buffers : BOOLEAN, threads : Nat]
          /\ unstarted' \in 0..MaxUnstarted
      BY <3>1, <3>2, <3>3
    <3> QED BY <3>1, <3>4, <3>5 DEF Held, Mains
  <2>2. Cut'
    BY <1>3 DEF StopEnds, Cut, MtpTyped, mtp
  <2> QED BY <1>3, <2>1, <2>2
    DEF StopEnds, Join, mtp, WorkerTyped, DsTyped, MtpTyped, OneTransfer, LastRead, Endpoint
<1> QED BY <1>1, <1>2, <1>3 DEF Stop

LEMMA DsSafe ==
  UsbInv /\ (UsbDs \/ (\E e \in Endpoints : HostMoves(e)) \/ Cable) => UsbInv'
<1> SUFFICES ASSUME UsbInv, UsbDs \/ (\E e \in Endpoints : HostMoves(e)) \/ Cable PROVE UsbInv'
  OBVIOUS
<1> USE DEF UsbInv
<1>1. CASE Cable
  BY <1>1
  DEF Cable, mtp, hist, WorkerTyped, DsTyped, MtpTyped, OneTransfer, Held, Cut, LastRead, Mains, Endpoint
<1>2. ASSUME NEW e \in Endpoints, NEW how \in {"moved", "failed"}, urb[e] # "none", Ends(e, how)
      PROVE  UsbInv'
  <2>1. OneTransfer'
    BY <1>2 DEF Ends, DsTyped, OneTransfer, Endpoint
  <2> QED BY <1>2, <2>1 DEF Ends, mtp, hist, WorkerTyped, DsTyped, MtpTyped, Held, Cut, LastRead, Mains
<1> QED BY <1>1, <1>2 DEF UsbDs, Drops, HostMoves
-----------------------------------------------------------------------------
(* The worker's steps leave the main thread's state alone.                 *)

\* No transfer is out, or the worker's own has just ended and been taken.
LEMMA AfterTransfer ==
  ASSUME UsbInv, event[Endpoint(worker)],
         event' = [event EXCEPT ![Endpoint(worker)] = FALSE], urb' = urb
  PROVE  \A e \in Endpoints : urb'[e] = "none" /\ event'[e] = FALSE
<1>1. Endpoint(worker) \in Endpoints
  BY DEF Endpoint, Endpoints
<1> QED BY <1>1 DEF UsbInv, DsTyped, OneTransfer

\* Failed ends the transaction or posts a response.
LEMMA FailedSafe ==
  ASSUME UsbInv, Failed
  PROVE  /\ WorkerTyped' /\ MtpTyped' /\ (stale' => stale)
         /\ worker'.pc = "check" \/ (worker'.pc = "post" /\ worker'.phase = "response")
<1>1. \/ worker' = At("check")
      \/ worker' = In("post", "SendObjectInfo", "response", 1)
  BY DEF Failed
<1>2. /\ WorkerTyped' /\ worker'.phase # "data"
      /\ worker'.pc = "check" \/ (worker'.pc = "post" /\ worker'.phase = "response")
  <2>1. CASE worker' = At("check")
    BY <2>1, AtTyped, Names DEF WorkerTyped
  <2>2. CASE worker' = In("post", "SendObjectInfo", "response", 1)
    <3>1. LET w == In("post", "SendObjectInfo", "response", 1) IN
          w \in WorkerStates /\ w.pc = "post" /\ w.phase = "response"
      BY InTyped, Names
    <3> QED BY <2>2, <3>1 DEF WorkerTyped
  <2> QED BY <1>1, <2>1, <2>2
<1>3. MtpTyped'
  BY <1>2 DEF Failed, UsbInv, MtpTyped
<1>4. stale' => stale
  BY DEF Failed
<1> QED BY <1>2, <1>3, <1>4

\* Between transfers, whatever the worker goes on with.
LEMMA QuietSafe ==
  ASSUME UsbInv, WorkerTyped', MtpTyped', DsTyped', UNCHANGED <<main, run, alive, late, unstarted, cut>>,
         main # "off",
         \A e \in Endpoints : urb'[e] = "none" /\ event'[e] = FALSE,
         stale' => stale,
         worker'.pc = "ready" \/ (worker'.pc = "post" /\ worker'.phase = "command") => late = 0
  PROVE  UsbInv'
BY DEF UsbInv, OneTransfer, Held, Cut, LastRead

LEMMA TakeSafe == UsbInv /\ Take => UsbInv'
<1> SUFFICES ASSUME UsbInv, Take PROVE UsbInv'
  OBVIOUS
<1>1. /\ worker.pc = "waiting" /\ event[Endpoint(worker)]
      /\ event' = [event EXCEPT ![Endpoint(worker)] = FALSE]
      /\ UNCHANGED <<main, run, alive, bus, urb, report, late, unstarted, cut>>
  BY DEF Take, hist
<1>2. main # "off"
  BY <1>1 DEF UsbInv, Held
<1>3. \A e \in Endpoints : urb'[e] = "none" /\ event'[e] = FALSE
  BY <1>1, AfterTransfer
<1>4. DsTyped'
  BY <1>1 DEF UsbInv, DsTyped
<1>5. CASE Failed
  BY <1>1, <1>2, <1>3, <1>4, <1>5, FailedSafe, QuietSafe
<1>6. ASSUME NEW c \in Commands, Handle(c) PROVE UsbInv'
  <2>1. PICK phase \in {"data", "response"}, chunks \in 1..Chunks :
          worker' = In("post", c, phase, chunks) /\ (phase = "data" => session')
    <3> DEFINE data == session /\ c \in {"GetObject", "SendObjectInfo"}
                                         \cup (IF upload THEN {"SendObject"} ELSE {})
    <3>1. PICK chunks \in 1..Chunks :
            worker' = In("post", c, IF data THEN "data" ELSE "response", chunks)
      BY <1>6 DEF Handle
    <3>2. data => session'
      BY <1>6 DEF Handle
    <3>3. CASE data BY <3>1, <3>2, <3>3
    <3>4. CASE ~data BY <3>1, <3>4
    <3> QED BY <3>3, <3>4
  <2>2. c \in Commands \cup {"none"} /\ phase \in Phases
    BY <1>6, Names
  <2>3. WorkerTyped' /\ worker'.pc = "post" /\ worker'.phase = phase
    BY <2>1, <2>2, InTyped, Names DEF WorkerTyped
  <2>4. {session', upload', writer', stale'} \subseteq BOOLEAN
    BY <1>6 DEF Handle, UsbInv, MtpTyped
  <2>5. (upload' => session' /\ writer') /\ (writer' => upload') /\ (stale' => stale)
    BY <1>6 DEF Handle, UsbInv, MtpTyped, Commands
  <2>6. MtpTyped'
    BY <2>1, <2>3, <2>4, <2>5 DEF MtpTyped
  <2> QED BY <1>1, <1>2, <1>3, <1>4, <2>3, <2>5, <2>6, QuietSafe
<1>7. CASE worker' = At("check") /\ UNCHANGED mtp
  <2>1. WorkerTyped' /\ worker'.pc = "check" /\ worker'.phase = "none"
    BY <1>7, AtTyped, Names DEF WorkerTyped
  <2>2. MtpTyped' /\ stale' = stale
    BY <1>7, <2>1 DEF UsbInv, MtpTyped, mtp
  <2> QED BY <1>1, <1>2, <1>3, <1>4, <2>1, <2>2, QuietSafe
<1>8. CASE worker.phase = "data" /\ DataMoved
  <2>1. \/ worker.left > 1 /\ worker' = [worker EXCEPT !.pc = "post", !.left = @ - 1]
        \/ worker' = In("post", worker.cmd, "response", 1)
    <3>1. worker' = IF worker.left > 1 THEN [worker EXCEPT !.pc = "post", !.left = @ - 1]
                                       ELSE In("post", worker.cmd, "response", 1)
      BY <1>8 DEF DataMoved
    <3>2. CASE worker.left > 1 BY <3>1, <3>2
    <3>3. CASE ~(worker.left > 1) BY <3>1, <3>3
    <3> QED BY <3>2, <3>3
  <2>4. WorkerTyped' /\ worker'.pc = "post" /\ worker'.phase \in {"data", "response"}
    <3>1. ASSUME worker.left > 1, worker' = [worker EXCEPT !.pc = "post", !.left = @ - 1]
          PROVE  WorkerTyped' /\ worker'.pc = "post" /\ worker'.phase = "data"
      <4>1. worker.left \in 0..Chunks
        BY Fields DEF UsbInv
      <4>2. worker.left - 1 \in 0..Chunks
        BY <4>1, <3>1, UsbAssumption
      <4> QED BY <1>8, <3>1, <4>2 DEF UsbInv, WorkerTyped, WorkerStates, Pcs
    <3>2. worker.cmd \in Commands \cup {"none"}
      BY Fields DEF UsbInv
    <3>3. worker' = In("post", worker.cmd, "response", 1)
          => WorkerTyped' /\ worker'.pc = "post" /\ worker'.phase = "response"
      BY <3>2, InTyped, Names DEF WorkerTyped
    <3> QED BY <2>1, <3>1, <3>3
  <2>5. session /\ session' = session
    BY <1>8 DEF DataMoved, UsbInv, MtpTyped
  <2>6. \/ upload' = upload /\ writer' = writer
        \/ upload' \in BOOLEAN /\ writer' = upload'
    BY <1>8 DEF DataMoved, Outcomes
  <2>8. stale' \in BOOLEAN /\ (stale' => stale)
    BY <1>8 DEF DataMoved, UsbInv, MtpTyped
  <2>7. MtpTyped'
    <3>1. CASE upload' = upload /\ writer' = writer
      BY <2>5, <2>8, <3>1 DEF UsbInv, MtpTyped
    <3>2. CASE upload' \in BOOLEAN /\ writer' = upload'
      BY <2>5, <2>8, <3>2 DEF UsbInv, MtpTyped
    <3> QED BY <2>6, <3>1, <3>2
  <2> QED BY <1>1, <1>2, <1>3, <1>4, <2>4, <2>7, <2>8, QuietSafe
<1> QED BY <1>5, <1>6, <1>7, <1>8 DEF Take

LEMMA WorkerSafe == UsbInv /\ Worker => UsbInv'
<1> SUFFICES ASSUME UsbInv, Worker PROVE UsbInv'
  OBVIOUS
<1>0. WorkerTyped /\ DsTyped /\ MtpTyped /\ OneTransfer /\ Held /\ Cut /\ LastRead
  BY DEF UsbInv
<1>a. Endpoint(worker) \in Endpoints
  BY DEF Endpoint, Endpoints
<1>1. CASE Check
  <2>1. \/ worker' = At("ready") /\ run
        \/ worker' = At("gone")
    BY <1>1 DEF Check
  <2>2. /\ WorkerTyped' /\ worker'.phase = "none" /\ worker'.pc # "post"
        /\ worker'.pc = "ready" => run
    BY <2>1, AtTyped, Names DEF WorkerTyped
  <2>3. MtpTyped' /\ DsTyped'
    BY <1>0, <1>1, <2>2 DEF Check, MtpTyped, DsTyped, mtp, ds
  <2>7. stale' = stale
    BY <1>1 DEF Check, mtp
  <2>4. \A e \in Endpoints : urb'[e] = "none" /\ event'[e] = FALSE
    BY <1>0, <1>1 DEF Check, OneTransfer, DsTyped, ds
  <2>5. main # "off" /\ (worker'.pc = "ready" => late = 0)
    BY <1>0, <1>1, <2>2 DEF Check, Held, LastRead
  <2>6. UNCHANGED <<main, run, alive, late, unstarted, cut>>
    BY <1>1 DEF Check, hist
  <2> QED BY <2>2, <2>3, <2>4, <2>5, <2>6, <2>7, QuietSafe
<1>2. CASE Ready
  <2>1. \/ worker' = At("check")
        \/ worker' = In("post", "none", "command", 1)
    BY <1>2 DEF Ready
  <2>2. WorkerTyped' /\ worker'.phase # "data"
    <3>1. CASE worker' = At("check")
      BY <3>1, AtTyped, Names DEF WorkerTyped
    <3>2. CASE worker' = In("post", "none", "command", 1)
      BY <3>2, InTyped, Names DEF WorkerTyped
    <3> QED BY <2>1, <3>1, <3>2
  <2>3. MtpTyped' /\ DsTyped'
    BY <1>0, <1>2, <2>2 DEF Ready, ResetSession, MtpTyped, DsTyped, mtp, ds
  <2>4. \A e \in Endpoints : urb'[e] = "none" /\ event'[e] = FALSE
    BY <1>0, <1>2 DEF Ready, OneTransfer, DsTyped, ds
  <2>5. main # "off" /\ late = 0
    BY <1>0, <1>2 DEF Ready, Held, LastRead
  <2>6. UNCHANGED <<main, run, alive, late, unstarted, cut>>
    BY <1>2 DEF Ready, hist
  <2>7. stale' = stale
    BY <1>2 DEF Ready, ResetSession, mtp
  <2> QED BY <2>2, <2>3, <2>4, <2>5, <2>6, <2>7, QuietSafe
<1>3. CASE Post
  <2>0. /\ worker.pc = "post" /\ main # "off" /\ UNCHANGED <<main, run, alive, bus, event, report, unstarted, cut>>
        /\ \A e \in Endpoints : urb[e] = "none" /\ event[e] = FALSE
    BY <1>0, <1>3 DEF Post, Held, OneTransfer, DsTyped, hist
  <2>1. CASE bus
    <3>1. /\ urb' = [urb EXCEPT ![Endpoint(worker)] = "posted"]
          /\ worker' = [worker EXCEPT !.pc = "waiting"] /\ UNCHANGED mtp
          /\ late' = IF ~run /\ worker.phase = "command" THEN late + 1 ELSE late
      BY <1>3, <2>1 DEF Post
    <3>2. Endpoint(worker') = Endpoint(worker) /\ worker'.pc = "waiting" /\ WorkerTyped'
          /\ worker'.phase = worker.phase
      BY <1>0, <3>1, Fields, Names DEF WorkerTyped, Endpoint
    <3>3. DsTyped' /\ OneTransfer'
      BY <1>0, <1>a, <2>0, <3>1, <3>2 DEF DsTyped, OneTransfer
    <3>4. MtpTyped' /\ Held' /\ Cut'
      BY <1>0, <2>0, <3>1, <3>2 DEF MtpTyped, Held, Cut, mtp
    <3>5. LastRead'
      BY <1>0, <2>0, <3>1, <3>2 DEF LastRead
    <3> QED BY <3>2, <3>3, <3>4, <3>5 DEF UsbInv
  <2>2. CASE ~bus
    <3>1. Failed /\ UNCHANGED <<urb, late, unstarted, cut>>
      BY <1>3, <2>2 DEF Post
    <3>2. DsTyped'
      BY <1>0, <2>0, <3>1 DEF DsTyped
    <3> QED BY <2>0, <3>1, <3>2, FailedSafe, QuietSafe
  <2> QED BY <2>1, <2>2
<1>4. CASE Take
  BY <1>4, TakeSafe
<1>5. CASE TimeOut
  <2>1. /\ worker' = [worker EXCEPT !.pc = "cancelling"] /\ worker.pc = "waiting"
        /\ UNCHANGED <<main, run, alive, bus, urb, event, report, session, upload, writer, stale, late, unstarted, cut>>
    BY <1>5 DEF TimeOut, ds, mtp, hist
  <2>2. Endpoint(worker') = Endpoint(worker) /\ worker'.pc = "cancelling" /\ WorkerTyped'
        /\ worker'.phase = worker.phase
    BY <1>0, <2>1, Fields, Names DEF WorkerTyped, Endpoint
  <2>3. DsTyped' /\ OneTransfer'
    BY <1>0, <2>1, <2>2 DEF DsTyped, OneTransfer
  <2>4. MtpTyped' /\ Held' /\ Cut' /\ LastRead'
    BY <1>0, <2>1, <2>2 DEF MtpTyped, Held, Cut, LastRead
  <2> QED BY <2>2, <2>3, <2>4 DEF UsbInv
<1>6. CASE Cancel
  <2>1. /\ worker' = [worker EXCEPT !.pc = "draining"] /\ worker.pc = "cancelling"
        /\ urb' = Cancelled(Endpoint(worker))
        /\ UNCHANGED <<main, run, alive, bus, event, report, session, upload, writer, stale, late, unstarted, cut>>
    BY <1>6 DEF Cancel, mtp, hist
  <2>2. Endpoint(worker') = Endpoint(worker) /\ worker'.pc = "draining" /\ WorkerTyped'
        /\ worker'.phase = worker.phase
    BY <1>0, <2>1, Fields, Names DEF WorkerTyped, Endpoint
  <2>3. DsTyped' /\ OneTransfer'
    BY <1>0, <1>a, <2>1, <2>2 DEF DsTyped, OneTransfer, Cancelled
  <2>4. MtpTyped' /\ Held' /\ Cut' /\ LastRead'
    BY <1>0, <2>1, <2>2 DEF MtpTyped, Held, Cut, LastRead
  <2> QED BY <2>2, <2>3, <2>4 DEF UsbInv
<1>7. CASE Drain
  <2>1. /\ worker.pc = "draining" /\ event[Endpoint(worker)] /\ Failed
        /\ event' = [event EXCEPT ![Endpoint(worker)] = FALSE]
        /\ UNCHANGED <<main, run, alive, bus, urb, report, late, unstarted, cut>>
    BY <1>7 DEF Drain, hist
  <2>2. main # "off"
    BY <1>0, <2>1 DEF Held
  <2>3. \A e \in Endpoints : urb'[e] = "none" /\ event'[e] = FALSE
    BY <2>1, AfterTransfer
  <2>4. DsTyped'
    BY <1>0, <2>1 DEF DsTyped
  <2> QED BY <2>1, <2>2, <2>3, <2>4, FailedSafe, QuietSafe
<1> QED BY <1>1, <1>2, <1>3, <1>4, <1>5, <1>6, <1>7 DEF Worker

LEMMA UsbInvariant == Spec => []UsbInv
<1>1. UsbInv /\ [Next]_vars => UsbInv'
  <2>1. UsbInv /\ UNCHANGED vars => UsbInv'
    BY DEF vars, ds, mtp, hist, UsbInv, WorkerTyped, DsTyped, MtpTyped, OneTransfer, Held, Cut,
           LastRead, Endpoint
  <2> QED BY <2>1, StartSafe, StopSafe, DsSafe, WorkerSafe DEF Next
<1> QED BY <1>1, UsbInitial, PTL DEF Spec
-----------------------------------------------------------------------------
\* Type correctness, and an upload is pending only in a session and with the
\* store's file open.
THEOREM TypeCorrect == Spec => []TypeOK
<1>1. UsbInv => TypeOK
  BY DEF UsbInv, WorkerTyped, WorkerStates, DsTyped, MtpTyped, Held, Cut, LastRead, TypeOK, Pcs,
         Phases, Mains
<1> QED BY <1>1, UsbInvariant, PTL

\* Whatever interleaving of server_stop, worker and usb:ds, neither a running
\* thread nor a posted transfer reaches buffers that have been freed.
THEOREM MemorySafe == Spec => []NoUseAfterFree
<1>1. UsbInv => NoUseAfterFree
  <2> SUFFICES ASSUME UsbInv PROVE NoUseAfterFree
    OBVIOUS
  <2>1. main # "off" => alive.usb /\ alive.buffers
    BY DEF UsbInv, Held
  <2>2. main = "off" => worker.pc = "gone"
    BY DEF UsbInv, Held
  <2>3. \A e \in Endpoints : urb[e] # "none" => worker.pc # "gone"
    BY DEF UsbInv, OneTransfer
  <2> QED BY <2>1, <2>2, <2>3 DEF NoUseAfterFree
<1> QED BY <1>1, UsbInvariant, PTL

\* Wherever its start failed and however its stop met the worker, a server
\* that is down has given back everything but the threads it could not start
\* and the file of an upload that was pending when it was stopped.
THEOREM HeldNoMore == Spec => []AllReleased
<1>1. UsbInv => AllReleased
  <2> SUFFICES ASSUME UsbInv PROVE AllReleased
    OBVIOUS
  <2>1. main = "off" => /\ ~alive.usb /\ ~alive.buffers /\ ~run /\ worker.pc = "gone"
                        /\ alive.threads = unstarted
    BY UsbAssumption DEF UsbInv, Held
  <2>2. main = "off" => (writer \/ stale => cut)
    BY DEF UsbInv, Cut
  <2> QED BY <2>1, <2>2 DEF AllReleased
<1> QED BY <1>1, UsbInvariant, PTL

\* No completion is left over for the next transfer, though transfers time
\* out, are cancelled by two threads and lose their bus.
THEOREM TransfersDrained == Spec => []Drained
<1>1. UsbInv => Drained
  BY DEF UsbInv, OneTransfer, Drained
<1> QED BY <1>1, UsbInvariant, PTL

\* One command at most is read after the main thread has asked for the stop.
THEOREM OneMoreAtMost == Spec => []AtMostOneMore
<1>1. UsbInv => AtMostOneMore
  BY DEF UsbInv, LastRead, AtMostOneMore
<1> QED BY <1>1, UsbInvariant, PTL
=============================================================================
