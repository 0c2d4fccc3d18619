----------------------------- MODULE Heartbeat -----------------------------
(***************************************************************************)
(* The heartbeat of one connection in py_replica.py: the Timer class, the  *)
(* start and restart calls in Pipe.run and Pipe.sendHeartbeat, with the    *)
(* asyncio task semantics they rely on.                                    *)
(*                                                                         *)
(*   - Timer.__init__ and Timer.restart create a task running _job: sleep  *)
(*     the interval, then call sendHeartbeat.                              *)
(*   - sendHeartbeat writes a Ping and awaits timer.restart() from inside  *)
(*     the timer task itself: restart cancels self._task (that very task)  *)
(*     and awaits it, which yields once to the loop before the new task is *)
(*     created.                                                            *)
(*   - Pipe.run awaits timer.restart() after every frame but the first.    *)
(*                                                                         *)
(* asyncio semantics modelled: Task.cancel() on a task sleeping cancels    *)
(* its sleep; on a task awaiting another task it cancels that one instead; *)
(* on a task already scheduled, or running, it makes the next step raise   *)
(* CancelledError; on a finished task it does nothing.  A task awaiting    *)
(* itself is resumed with CancelledError when a cancel is pending.  Sleeps *)
(* of the same interval end in the order they began.                       *)
(*                                                                         *)
(* shutdown() (handle_exception's task, or a signal handler's) cancels     *)
(* every other task, gathers them and then stops the loop.                 *)
(*                                                                         *)
(* A task id is reused once its task has finished and nothing refers to   *)
(* it.  `frames` counts the frames read after the first one; `epoch[t]` is *)
(* its value when t's sleep began: a Ping is written H after the sleep of  *)
(* its task began, so it follows a quiet interval iff no frame was read    *)
(* since, i.e. iff epoch[t] = frames.                                      *)
(***************************************************************************)
EXTENDS Naturals, Sequences, SequencesExt, FiniteSets, TLC

CONSTANTS
    Tasks,      \* ids for the timer tasks alive at one time
    MaxFrames,  \* frames the peer sends after the first one
    NoTask      \* None

ASSUME MaxFrames \in Nat /\ NoTask \notin Tasks

VARIABLES
    pipePc,     \* Pipe.run: "first", "reading", "awaiting" or "resuming" in restart()
    pipeWaits,  \* the task Pipe.run awaits in restart()
    timerTask,  \* Timer._task
    st,         \* st[t]: where timer task t is
    waits,      \* waits[t]: the task t awaits in restart()
    cancelReq,  \* tasks whose next step raises CancelledError
    sleepers,   \* tasks asleep in asyncio.sleep, in the order their sleep began
    frames,     \* frames read after the first
    epoch,      \* epoch[t]: frames when t's sleep began
    pinged,     \* flips on every Ping written
    pinger,     \* the task that wrote the last Ping
    sd,         \* the shutdown task: "none", "starting", "gathering", "stopped"
    gathered    \* the tasks shutdown() cancelled and awaits with gather

vars == <<pipePc, pipeWaits, timerTask, st, waits, cancelReq, sleepers,
          frames, epoch, pinged, pinger, sd, gathered>>

\* The read loop's own task, as a member of `gathered`.
PipeTask == "pipe"

Finished == {"free", "done", "cancelled"}

\* A finished task that nothing refers to any more.
FreeTasks ==
    {t \in Tasks : /\ st[t] \in Finished
                   /\ t # timerTask
                   /\ t \notin gathered
                   /\ \A u \in Tasks : st[u] = "awaiting" => waits[u] # t
                   /\ pipePc = "awaiting" => pipeWaits # t}

(* The task that Task.cancel(w) really reaches: a task awaiting another    *)
(* task passes the cancel on to the task it awaits.                        *)
RECURSIVE Reached(_, _)
Reached(w, seen) ==
    IF st[w] = "awaiting"
    THEN IF waits[w] \in seen
         THEN Assert(FALSE, "cancel recursion through an await cycle")
         ELSE Reached(waits[w], seen \cup {w})
    ELSE w

\* asyncio.create_task(self._job()) takes an id no live task holds.
NewId == CHOOSE u \in FreeTasks : TRUE

\* The tasks awaiting t in restart() are scheduled once t has finished.
Woken(t, s) ==
    [u \in Tasks |-> IF s[u] = "awaiting" /\ waits[u] = t THEN "resuming" ELSE s[u]]

PipeWoken(t) ==
    IF pipePc = "awaiting" /\ pipeWaits = t THEN "resuming" ELSE pipePc

-----------------------------------------------------------------------------
Init ==
    /\ pipePc = "first"
    /\ pipeWaits = NoTask
    /\ timerTask = NoTask
    /\ st = [t \in Tasks |-> "free"]
    /\ waits = [t \in Tasks |-> NoTask]
    /\ cancelReq = {}
    /\ sleepers = <<>>
    /\ frames = 0
    /\ epoch = [t \in Tasks |-> 0]
    /\ pinged = FALSE
    /\ pinger = NoTask
    /\ sd = "none"
    /\ gathered = {}

(* Timer.restart() up to its first suspension, called by c (a timer task   *)
(* in sendHeartbeat, or "pipe").  w = self._task: if w has finished, the   *)
(* await returns at once and the new task is created in this very step;   *)
(* if w is c itself, c cancels itself and awaits itself; otherwise w is    *)
(* cancelled and c awaits it.                                              *)
RestartBy(c) ==
    LET w == timerTask
        n == NewId
        x == Reached(w, {})
    IN
    IF st[w] \in Finished
    THEN /\ Assert(FreeTasks # {}, "Tasks too small")
         /\ timerTask' = n
         /\ cancelReq' = cancelReq \ {n}
         /\ epoch' = [epoch EXCEPT ![n] = 0]
         /\ IF c = "pipe"
            THEN /\ st' = [st EXCEPT ![n] = "starting"]
                 /\ pipePc' = "reading"
            ELSE /\ st' = Woken(c, [st EXCEPT ![n] = "starting", ![c] = "done"])
                 /\ pipePc' = PipeWoken(c)
         /\ UNCHANGED <<pipeWaits, waits, sleepers>>
    ELSE IF w = c
    THEN /\ cancelReq' = cancelReq \cup {c}
         /\ st' = [st EXCEPT ![c] = "selfwait"]
         /\ UNCHANGED <<pipePc, pipeWaits, timerTask, waits, sleepers, epoch>>
    ELSE /\ Assert(x # c, "cancel recursion through the caller")
         /\ cancelReq' = cancelReq \cup {x}
         /\ sleepers' = SelectSeq(sleepers, LAMBDA u : u # x)
         /\ LET s == IF st[x] = "sleeping" THEN [st EXCEPT ![x] = "expired"] ELSE st
            IN IF c = "pipe"
               THEN /\ st' = s
                    /\ pipePc' = "awaiting" /\ pipeWaits' = w
                    /\ UNCHANGED waits
               ELSE /\ st' = [s EXCEPT ![c] = "awaiting"]
                    /\ waits' = [waits EXCEPT ![c] = w]
                    /\ UNCHANGED <<pipePc, pipeWaits>>
         /\ UNCHANGED <<timerTask, epoch>>

-----------------------------------------------------------------------------
(* Pipe.run                                                                *)

\* Fault model: the timer is not started when the handshake resolves.
ReadFirstNoTimer ==
    /\ pipePc = "first"
    /\ pipePc' = "reading"
    /\ UNCHANGED <<pipeWaits, timerTask, st, waits, cancelReq, sleepers, frames,
                   epoch, pinged, pinger>>

\* The first frame resolves the handshake: self.timer = Timer(hbInterval, ...).
ReadFirst ==
    /\ pipePc = "first"
    /\ FreeTasks # {}
    /\ timerTask' = NewId
    /\ st' = [st EXCEPT ![NewId] = "starting"]
    /\ pipePc' = "reading"
    /\ UNCHANGED <<pipeWaits, waits, cancelReq, sleepers, frames, epoch, pinged, pinger>>

\* Fault model: a later frame is read but the timer is not restarted.
ReadFrameNoRestart ==
    /\ pipePc = "reading"
    /\ frames < MaxFrames
    /\ frames' = frames + 1
    /\ UNCHANGED <<pipePc, pipeWaits, timerTask, st, waits, cancelReq,
                   sleepers, epoch, pinged, pinger>>

(* A later frame: `elif self.timer: await self.timer.restart()`.  A task  *)
(* that awaited itself has its next step queued by call_soon in the same   *)
(* loop iteration; the selector loop runs its FIFO ready queue before it   *)
(* polls the socket again, so no read completes while a task is selfwait. *)
ReadFrame ==
    /\ pipePc = "reading"
    /\ \A t \in Tasks : st[t] # "selfwait"
    /\ frames < MaxFrames
    /\ frames' = frames + 1
    /\ IF timerTask = NoTask
       THEN UNCHANGED <<pipePc, pipeWaits, timerTask, st, waits, cancelReq,
                        sleepers, epoch>>
       ELSE RestartBy("pipe")
    /\ UNCHANGED <<pinged, pinger>>

\* restart() resumes after its await: self._task = create_task(self._job()).
PipeResume ==
    /\ pipePc = "resuming"
    /\ Assert(FreeTasks # {}, "Tasks too small")
    /\ timerTask' = NewId
    /\ st' = [st EXCEPT ![NewId] = "starting"]
    /\ cancelReq' = cancelReq \ {NewId}
    /\ epoch' = [epoch EXCEPT ![NewId] = 0]
    /\ pipePc' = "reading" /\ pipeWaits' = NoTask
    /\ UNCHANGED <<waits, sleepers, frames, pinged, pinger>>

-----------------------------------------------------------------------------
(* The timer tasks                                                         *)

(* First step of _job: asyncio.sleep(timeout) arms its timer, or a cancel  *)
(* made before the task ever ran ends it.                                  *)
StartTask(t) ==
    /\ st[t] = "starting"
    /\ IF t \in cancelReq
       THEN /\ st' = Woken(t, [st EXCEPT ![t] = "cancelled"])
            /\ pipePc' = PipeWoken(t)
            /\ cancelReq' = cancelReq \ {t}
            /\ UNCHANGED <<sleepers, epoch>>
       ELSE /\ st' = [st EXCEPT ![t] = "sleeping"]
            /\ sleepers' = Append(sleepers, t)
            /\ epoch' = [epoch EXCEPT ![t] = frames]
            /\ UNCHANGED <<pipePc, cancelReq>>
    /\ UNCHANGED <<pipeWaits, timerTask, waits, frames, pinged, pinger>>

\* A task step or the pipe is scheduled to run on the loop.
Scheduled ==
    \/ pipePc = "resuming"
    \/ \E t \in Tasks : st[t] \in {"starting", "expired", "selfwait", "resuming"}

(* The interval passes: the sleep that began first ends first.  The        *)
(* interval (seconds) is far longer than running the scheduled steps, so   *)
(* time passes only once the loop has run them.                            *)
Expire ==
    /\ ~Scheduled
    /\ sleepers # <<>>
    /\ st' = [st EXCEPT ![Head(sleepers)] = "expired"]
    /\ sleepers' = Tail(sleepers)
    /\ UNCHANGED <<pipePc, pipeWaits, timerTask, waits, cancelReq, frames,
                   epoch, pinged, pinger>>

\* CancelledError at `await asyncio.sleep`: _job ends cancelled.
CancelledSleep(t) ==
    /\ st[t] = "expired"
    /\ t \in cancelReq
    /\ st' = Woken(t, [st EXCEPT ![t] = "cancelled"])
    /\ pipePc' = PipeWoken(t)
    /\ cancelReq' = cancelReq \ {t}
    /\ UNCHANGED <<pipeWaits, timerTask, waits, sleepers, frames, epoch, pinged, pinger>>

\* Fault model: sendHeartbeat restarts the timer but drops the Ping write.
FireNoPing(t) ==
    /\ st[t] = "expired"
    /\ t \notin cancelReq
    /\ RestartBy(t)
    /\ UNCHANGED <<frames, pinged, pinger>>

(* The sleep returned: _job awaits sendHeartbeat, which writes the Ping    *)
(* and awaits self.timer.restart().                                        *)
Fire(t) ==
    /\ st[t] = "expired"
    /\ t \notin cancelReq
    /\ pinged' = ~pinged
    /\ pinger' = t
    /\ RestartBy(t)
    /\ UNCHANGED frames

(* restart() resumes in a timer task: the CancelledError of its await is   *)
(* caught, the new task is created, and sendHeartbeat and _job return.     *)
Resume(t) ==
    /\ st[t] \in {"selfwait", "resuming"}
    /\ Assert(FreeTasks # {}, "Tasks too small")
    /\ timerTask' = NewId
    /\ st' = Woken(t, [st EXCEPT ![NewId] = "starting", ![t] = "done"])
    /\ pipePc' = PipeWoken(t)
    /\ cancelReq' = cancelReq \ {t, NewId}
    /\ epoch' = [epoch EXCEPT ![NewId] = 0]
    /\ UNCHANGED <<pipeWaits, waits, sleepers, frames, pinged, pinger>>

-----------------------------------------------------------------------------
(* Shutdown                                                                *)

UnchangedByShutdown ==
    UNCHANGED <<pipeWaits, timerTask, waits, frames, epoch, pinged, pinger>>

(* handle_exception (an exception left Node.run or a read loop) or a       *)
(* SIGHUP, SIGTERM or SIGINT handler: asyncio.create_task(shutdown(loop)). *)
RequestShutdown ==
    /\ sd = "none"
    /\ sd' = "starting"
    /\ UNCHANGED <<pipePc, st, cancelReq, sleepers, gathered>>
    /\ UnchangedByShutdown

\* asyncio.all_tasks() other than shutdown's own: the unfinished timer tasks.
Alive == {t \in Tasks : st[t] \notin Finished}

(* shutdown() up to its await: task.cancel() on every task, then gather    *)
(* them.  The cancel of an awaiting task goes to the task it awaits, as    *)
(* in restart().  A read loop waiting in readexactly ends cancelled.  One  *)
(* inside restart() either has its cancel forwarded to the timer task it   *)
(* awaits, or (resuming) gets CancelledError thrown at `await self._task`. *)
(* Both land in restart's `except asyncio.CancelledError: pass`.           *)
ShutdownCancel ==
    LET x == {Reached(t, {}) : t \in Alive} IN
    /\ sd = "starting"
    /\ cancelReq' = cancelReq \cup x
    /\ sleepers' = SelectSeq(sleepers, LAMBDA u : u \notin x)
    /\ st' = [t \in Tasks |-> IF t \in x /\ st[t] = "sleeping" THEN "expired" ELSE st[t]]
    /\ pipePc' = IF pipePc \in {"first", "reading"} THEN "cancelled" ELSE pipePc
    /\ gathered' = Alive \cup (IF pipePc = "cancelled" THEN {} ELSE {PipeTask})
    /\ sd' = "gathering"
    /\ UnchangedByShutdown

\* asyncio.gather returns once every gathered task is done: loop.stop().
ShutdownStop ==
    /\ sd = "gathering"
    /\ PipeTask \in gathered => pipePc = "cancelled"
    /\ \A t \in gathered \ {PipeTask} : st[t] \in Finished
    /\ sd' = "stopped"
    /\ UNCHANGED <<pipePc, st, cancelReq, sleepers, gathered>>
    /\ UnchangedByShutdown

-----------------------------------------------------------------------------
TaskStep(t) == StartTask(t) \/ CancelledSleep(t) \/ Fire(t) \/ Resume(t)

\* A step of a callback the running loop schedules.
OnLoop(A) ==
    /\ sd # "stopped"
    /\ A
    /\ UNCHANGED <<sd, gathered>>

Next ==
    \/ OnLoop(ReadFirst \/ ReadFrame \/ PipeResume \/ Expire)
    \/ \E t \in Tasks : OnLoop(TaskStep(t))
    \/ RequestShutdown \/ ShutdownCancel \/ ShutdownStop

Spec == Init /\ [][Next]_vars

(* The loop runs every scheduled task step, shutdown's included, and time  *)
(* passes so that the oldest sleep ends.  Frames arrive when the peer      *)
(* sends them, and shutdown is requested from outside: no fairness.        *)
Fairness ==
    /\ WF_vars(OnLoop(PipeResume))
    /\ WF_vars(OnLoop(Expire))
    /\ \A t \in Tasks : WF_vars(OnLoop(TaskStep(t)))
    /\ WF_vars(ShutdownCancel)
    /\ WF_vars(ShutdownStop)

FairSpec == Spec /\ Fairness

-----------------------------------------------------------------------------
\* Types, and Pipe.timer is set once the handshake is resolved.
TypeOK ==
    /\ pipePc \in {"first", "reading", "awaiting", "resuming", "cancelled"}
    /\ pipeWaits \in Tasks \cup {NoTask}
    /\ timerTask \in Tasks \cup {NoTask}
    /\ st \in [Tasks -> Finished \cup {"starting", "sleeping", "expired",
                                      "selfwait", "awaiting", "resuming"}]
    /\ waits \in [Tasks -> Tasks \cup {NoTask}]
    /\ cancelReq \subseteq Tasks
    /\ sleepers \in Seq(Tasks)
    /\ frames \in 0..MaxFrames
    /\ pinged \in BOOLEAN
    /\ pipePc \notin {"first", "cancelled"} => timerTask \in Tasks
    /\ sd \in {"none", "starting", "gathering", "stopped"}
    /\ gathered \subseteq Tasks \cup {PipeTask}

PingWritten == pinged' # pinged

(* Spec 4.3 and 8: a frame resets the deadline, so a Ping is written only  *)
(* after an interval with no frame: the task that writes it began its      *)
(* sleep after the last frame was read.                                    *)
PingAfterQuietInterval ==
    [][PingWritten => epoch[pinger'] = frames]_vars

(* Spec 4.3: the timer perpetuates itself once started.  Whatever the      *)
(* interleaving of frames and restarts, Pings keep being written until     *)
(* shutdown is requested.                                                  *)
HeartbeatPerpetual ==
    <>[](pipePc = "first") \/ <>(sd # "none") \/ []<><<PingWritten>>_vars

(* A requested shutdown stops the loop: every task shutdown() cancels     *)
(* ends, gather returns and loop.stop() runs, whatever the read loop and   *)
(* the timer tasks were doing when it began.                               *)
ShutdownStopsLoop ==
    sd = "starting" ~> sd = "stopped"
=============================================================================
