------------------------------ MODULE HostSwitch ------------------------------
(***************************************************************************)
(* The monitor follows the keyboard: features/HostSwitch.cpp tells of its  *)
(* link and its host switches, and tools/host-switch/logi-host-switch.py   *)
(* acts on them, either as a daemon on logid's signals, or as one process  *)
(* per connection hook (run in order, see CommandQueue).                   *)
(*                                                                         *)
(* logid's signals are emitted by tasks, in any order; the daemon handles  *)
(* them on one worker.  Monitor commands may fail, or be obeyed and time   *)
(* out; the daemon may be killed anywhere and is started again.            *)
(***************************************************************************)
EXTENDS Naturals, Sequences

CONSTANTS
    Tries,      \* attempts at a monitor command (3 in the code)
    MaxMoves,   \* bound of the model on what the user does
    MaxFaults,  \* bound of the model on failed commands and queries
    MaxKills    \* bound of the model on the times the daemon is killed

ASSUME HostSwitchAssumption ==
    Tries \in Nat \ {0} /\ {MaxMoves, MaxFaults, MaxKills} \subseteq Nat

VARIABLES
    setup, mode,    \* "daemon" or "hooks"; departure_mode
    keyboard,       \* where the keyboard is: "local", "remote" or "off"
    active,         \* Device::_awake
    unsent,         \* signals that tasks of logid are about to emit
    monitor,        \* the input the monitor shows
    disk, away,     \* the state file; Controller.away
    jobs,           \* the queue of the worker, or of the hooks
    pc, job, tries, \* the job that runs, and its step
    refreshing,     \* Daemon.refresh_pending
    moves, faults, kills,
    expected,       \* what the monitor should show (history)
    faulty,         \* a step failed, or an event was lost, since (history)
    ghost           \* Connected() was emitted after a later loss (history)

fixed == <<setup, mode>>
user == <<keyboard, moves, expected>>
logid == <<active, unsent>>
worker == <<away, jobs, pc, job, tries, refreshing>>
history == <<faulty, ghost>>
vars == <<fixed, user, logid, monitor, disk, worker, faults, kills, history>>

Modes == {"host_event", "link_state"}

Init ==
    /\ setup \in {"daemon", "hooks"} /\ mode \in Modes
    /\ setup = "hooks" => mode = "link_state"
    /\ keyboard = "local" /\ active = TRUE /\ unsent = {} /\ moves = 0
    /\ monitor = "local" /\ expected = "local"
    /\ disk = FALSE /\ away = FALSE /\ jobs = <<>>
    /\ pc = "idle" /\ job = "none" /\ tries = 0 /\ refreshing = FALSE
    /\ faults = 0 /\ kills = 0 /\ faulty = FALSE /\ ghost = FALSE

(***************************************************************************)
(* The keyboard and logid.                                                 *)
(***************************************************************************)

\* The user switches the keyboard, or it comes and goes on its own.  The
\* firmware notifies a switch from this host to the other (it need not in the
\* link_state mode).  Every loss of the link counts as a departure in that mode.
Move(place) ==
    /\ moves < MaxMoves /\ moves' = moves + 1
    /\ place # keyboard /\ keyboard' = place
    /\ LET leaves == keyboard = "local"
           switch == leaves /\ place = "remote"
       IN  /\ expected' = CASE place = "local" -> "local"
                            [] leaves /\ mode = "link_state" -> "remote"
                            [] switch -> "remote"
                            [] OTHER -> expected
           /\ \E told \in {switch, switch /\ mode = "host_event"} :
                 unsent' = unsent \cup (IF told /\ setup = "daemon"
                                        THEN {<<"switched", moves>>} ELSE {})
    /\ UNCHANGED <<fixed, active, monitor, disk, worker, faults, kills, history>>

\* sleep() or wakeup(): the hook is queued; the notification of the status and
\* that of the HostSwitch feature are about to be emitted.
LinkNoticed ==
    /\ active # (keyboard = "local") /\ active' = ~active
    /\ IF setup = "hooks"
       THEN /\ jobs' = Append(jobs, IF active THEN "disconnected" ELSE "connected")
            /\ UNCHANGED unsent
       ELSE /\ unsent' = unsent \cup {<<"status", moves>>}
                         \cup (IF active THEN {} ELSE {<<"connected", moves>>})
            /\ UNCHANGED jobs
    /\ faulty' = (faulty /\ (~active \/ pc = "down" \/ mode = "host_event"))
    /\ UNCHANGED <<fixed, user, monitor, disk, away, pc, job, tries, refreshing,
                   faults, kills, ghost>>

\* StatusChanged() carries the status of the moment it is emitted.
Received(signal) ==
    IF signal = "status" THEN IF active THEN "connected" ELSE "disconnected"
                         ELSE IF signal = "connected" THEN "early" ELSE signal

\* A signal is emitted, and the daemon queues its handler; nobody is there to
\* receive it while the daemon is down.
Emit ==
    \E s \in unsent :
        /\ unsent' = unsent \ {s}
        /\ jobs' = IF pc = "down" THEN jobs ELSE Append(jobs, Received(s[1]))
        /\ faulty' = (faulty \/ pc = "down")
        /\ ghost' = (ghost \/ (s[1] = "connected" /\ ~active))
        /\ UNCHANGED <<fixed, user, active, monitor, disk, away, pc, job, tries,
                       refreshing, faults, kills>>

(***************************************************************************)
(* The worker.                                                             *)
(***************************************************************************)

Goto(step) == pc' = step /\ UNCHANGED <<job, refreshing>>
Done ==
    /\ pc' = "idle" /\ job' = "none"
    /\ refreshing' = (refreshing /\ job # "refresh")

Fails ==
    /\ faults < MaxFaults /\ faults' = faults + 1 /\ faulty' = TRUE

Unworked == <<fixed, user, logid, kills, ghost>>

\* A job begins.  A hook is a process of its own, which loads the state.
Begin ==
    /\ pc = "idle" /\ jobs # <<>>
    /\ job' = Head(jobs) /\ jobs' = Tail(jobs) /\ pc' = Head(jobs)
    /\ away' = IF setup = "hooks" THEN disk ELSE away
    /\ UNCHANGED <<Unworked, monitor, disk, tries, refreshing, faults, faulty>>

\* The order of the steps of Controller.switched() and Controller.connected().
Departure == <<"save", "mouse", "remote">>
ReturnClearsFirst == <<"clear", "local">>                   \* a mutant
Return == <<"local", "clear">>
After(step) ==
    LET steps == IF \E i \in DOMAIN Return : Return[i] = step THEN Return ELSE Departure
        i == CHOOSE k \in DOMAIN steps : steps[k] = step
    IN  IF i < Len(steps) THEN steps[i + 1] ELSE "end"
Proceed(step) == IF After(step) = "end" THEN Done ELSE Goto(After(step))

\* Controller.switched(): a departure that is pending is not begun again,
\* unless a new loss of the link was observed.
Departs(newLinkLoss) == ~away \/ newLinkLoss

Switched ==
    /\ pc = "switched"
    /\ IF Departs(FALSE) THEN Goto(Departure[1]) ELSE Done
    /\ UNCHANGED <<Unworked, monitor, disk, away, jobs, tries, faults, faulty>>

\* 0.4 seconds after the loss, the link is looked at again.
Disconnected ==
    /\ pc = "disconnected"
    /\ IF mode = "link_state" /\ ~active /\ Departs(TRUE)
       THEN Goto(Departure[1]) ELSE Done
    /\ UNCHANGED <<Unworked, monitor, disk, away, jobs, tries, faults, faulty>>

\* When a return is begun: HostSwitch.Connected, in the link_state mode, and
\* the hook do not wait for Device.Active.
ReturnsOnEvents ==              \* a mutant: not when the timer ticks
    /\ away /\ job # "refresh"
    /\ active \/ (job = "early" /\ mode = "link_state") \/ setup = "hooks"
Returns ==
    /\ away
    /\ \/ active
       \/ job = "early" /\ mode = "link_state"
       \/ setup = "hooks"

Connected ==
    /\ pc \in {"early", "connected", "refresh"}
    /\ IF Returns THEN Goto(IF mode = "host_event" THEN "query" ELSE Return[1])
                  ELSE Done
    /\ UNCHANGED <<Unworked, monitor, disk, away, jobs, tries, faults, faulty>>

\* Backend.keyboard_host(): the keyboard answers when it is on this host.
KeyboardHost ==
    /\ pc = "query"
    /\ \/ keyboard = "local" /\ Goto(Return[1]) /\ UNCHANGED <<faults, faulty>>
       \/ keyboard # "local" /\ Done /\ UNCHANGED <<faults, faulty>>
       \/ Fails /\ Done
    /\ UNCHANGED <<Unworked, monitor, disk, away, jobs, tries>>

\* Controller.save(): the file is replaced as a whole.
Save ==
    /\ pc \in {"save", "clear"}
    /\ disk' = (pc = "save") /\ away' = disk'
    /\ Proceed(pc)
    /\ UNCHANGED <<Unworked, monitor, jobs, tries, faults, faulty>>

\* Backend.send_mouse(): its failures are logged, nothing else.
SendMouse ==
    /\ pc = "mouse" /\ Proceed(pc)
    /\ UNCHANGED <<Unworked, monitor, disk, away, jobs, tries, faults, faulty>>

\* Backend.set_input(): one attempt.  One that fails may have been obeyed.
SetInput ==
    /\ pc \in {"local", "remote"}
    /\ \/ monitor' = pc /\ tries' = 0 /\ Proceed(pc) /\ UNCHANGED <<faults, faulty>>
       \/ /\ Fails /\ monitor' \in {monitor, pc}
          /\ IF tries + 1 < Tries THEN tries' = tries + 1 /\ Goto(pc)
                                  ELSE tries' = 0 /\ Done
    /\ UNCHANGED <<Unworked, disk, away, jobs>>

\* Every 5 seconds, unless the last refresh is still pending.
Tick ==
    /\ setup = "daemon" /\ pc # "down" /\ ~refreshing
    /\ refreshing' = TRUE /\ jobs' = Append(jobs, "refresh")
    /\ UNCHANGED <<Unworked, monitor, disk, away, pc, job, tries, faults, faulty>>

Kill ==
    /\ setup = "daemon" /\ pc # "down" /\ kills < MaxKills /\ kills' = kills + 1
    /\ pc' = "down" /\ jobs' = <<>> /\ job' = "none" /\ tries' = 0
    /\ away' = FALSE /\ refreshing' = FALSE /\ faulty' = TRUE
    /\ UNCHANGED <<fixed, user, logid, monitor, disk, faults, ghost>>

\* Controller.__init__() loads the state, and main() ticks at once.
Restart ==
    /\ pc = "down" /\ pc' = "idle"
    /\ away' = disk /\ jobs' = <<"refresh">> /\ refreshing' = TRUE
    /\ UNCHANGED <<Unworked, monitor, disk, job, tries, faults, faulty>>

Work == Begin \/ Switched \/ Disconnected \/ Connected \/ KeyboardHost \/ Save
        \/ SendMouse \/ SetInput

Next ==
    \/ \E place \in {"local", "remote", "off"} : Move(place)
    \/ LinkNoticed \/ Emit \/ Work \/ Tick \/ Kill \/ Restart

\* The worker's thread, logid's tasks and systemd's restarts are never starved;
\* the timer of the daemon ticks again and again.
Spec ==
    /\ Init /\ [][Next]_vars
    /\ WF_vars(LinkNoticed) /\ WF_vars(Emit) /\ WF_vars(Work)
    /\ WF_vars(Tick) /\ WF_vars(Restart)

-----------------------------------------------------------------------------
TypeOK ==
    /\ keyboard \in {"local", "remote", "off"} /\ monitor \in {"local", "remote"}
    /\ {active, disk, away, refreshing} \subseteq BOOLEAN
    /\ pc \in {"idle", "down", "switched", "disconnected", "early", "connected",
               "refresh", "query", "save", "mouse", "remote", "local", "clear"}

\* A monitor that shows the other host's input is known to the state file, at
\* every moment the script may be killed (logi-host-switch.py:48, "Persist
\* before switching inputs so a service restart can restore DP").
RemoteIsPersisted == monitor = "remote" => disk

\* When everything queued was handled, the monitor went where the keyboard
\* went, whatever failed before the last loss of the link (README.md of the
\* tool: "Each new link loss triggers departure even if an earlier DDC failure
\* left a return pending"), and with the hooks it also came back.
Settled ==
    (/\ pc = "idle" /\ jobs = <<>> /\ unsent = {}
     /\ active = (keyboard = "local") /\ ~faulty /\ ~ghost)
        => \/ monitor = expected
           \/ setup = "daemon" /\ expected = "local"

\* What the script owes a switch away, whenever it is stopped.
DepartureIsKept == TypeOK /\ RemoteIsPersisted /\ Settled

\* The daemon brings the monitor back to a keyboard that stays here, whatever
\* failed before and however often it was restarted (refresh() "also recovers
\* an armed return after logid/service restarts").
ReturnsHome ==
    (setup = "daemon" /\ <>[](keyboard = "local")) => <>[](monitor = "local")

=============================================================================
