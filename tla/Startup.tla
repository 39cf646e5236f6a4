------------------------------- MODULE Startup -------------------------------
(***************************************************************************)
(* logid from its command line to its exit (logid.cpp): the options that   *)
(* readCliOptions() reads one argument after the other, the steps of       *)
(* main(), and the thread that waits for SIGTERM and SIGINT, which are     *)
(* blocked and so pending until it takes them.  main() ends that thread    *)
(* with a signal of its own when the IPC server ends by itself.            *)
(***************************************************************************)
EXTENDS Integers, SequencesExt

CONSTANTS
    MaxOptions,         \* options on the command line
    MaxSignals          \* signals from outside

\* The options and what each asks for: a log level, a file, or to exit.
Asks(args, level, file, exit) == [args |-> args, level |-> level, file |-> file, exit |-> exit]
Options == {
    Asks(<<"-v">>, "debug", "", ""), Asks(<<"-v", "error">>, "error", "", ""),
    Asks(<<"-v", "loud">>, "", "", "failure"),
    Asks(<<"-c", "my.cfg">>, "", "my.cfg", ""), Asks(<<"-c", "-v">>, "", "-v", ""),
    Asks(<<"-h">>, "", "", "success"), Asks(<<"-x">>, "", "", "")}
NoFile == Asks(<<"-c">>, "", "", "failure")     \* nothing follows
Levels == {"debug", "error"}
default_config == "/etc/logid.cfg"

VARIABLES
    line,           \* what the options on the command line ask for (history)
    i,              \* the argument that is read next
    loglevel, config_file,
    main,           \* where main() is
    status,         \* what it returns, or "" so far
    thread,         \* where the signal thread is
    pending,        \* signals: "process" from outside, "thread" of main()
    requested, stop,    \* termination_requested, stop_signal_thread
    server,         \* the IPC server was told to stop
    asked,          \* a signal came from outside (history)
    spare

vars == <<line, i, loglevel, config_file, main, status, thread, pending,
          requested, stop, server, asked, spare>>
optionVars == <<i, loglevel, config_file>>
threadVars == <<thread, requested, server>>

argv == FlattenSeq([k \in DOMAIN line |-> line[k].args])

Init ==
    /\ line \in UNION {[1..n -> Options] : n \in 0..MaxOptions}
                \cup {Append(l, NoFile) : l \in UNION {[1..n -> Options] : n \in 0..MaxOptions-1}}
    /\ i = 1 /\ loglevel = "info" /\ config_file = default_config
    /\ main = "options" /\ status = "" /\ thread = "none" /\ pending = {}
    /\ requested = FALSE /\ stop = FALSE /\ server = "serving" /\ asked = FALSE
    /\ spare = MaxSignals

Goes(place) == main' = place /\ UNCHANGED status
Ends(s) == main' = "ended" /\ status' = s

-----------------------------------------------------------------------------
(* readCliOptions() *)

IsLast(k) == k = Len(argv)

\* After -v: an option that follows is no level, and is read again.
Back(k) == IF argv[k + 1] \in Levels THEN k + 2 ELSE k + 1

Verbose ==
    /\ argv[i] = "-v"
    /\ IF IsLast(i) THEN loglevel' = "debug" /\ i' = i + 1 /\ Goes("options")
       ELSE IF argv[i + 1] \in Levels THEN loglevel' = argv[i + 1] /\ i' = Back(i) /\ Goes("options")
       ELSE IF argv[i + 1] \in {o.args[1] : o \in Options}
            THEN loglevel' = "debug" /\ i' = Back(i) /\ Goes("options")
       ELSE Ends("failure") /\ UNCHANGED <<i, loglevel>>
    /\ UNCHANGED config_file

Config ==
    /\ argv[i] = "-c"
    /\ IF IsLast(i) THEN Ends("failure") /\ UNCHANGED <<i, config_file>>
       ELSE config_file' = argv[i + 1] /\ i' = i + 2 /\ Goes("options")
    /\ UNCHANGED loglevel

\* Or --version, which exits with success as well.
Help == argv[i] = "-h" /\ Ends("success") /\ UNCHANGED optionVars

\* What is no option is ignored.
Ignored ==
    /\ argv[i] \notin {"-v", "-c", "-h"}
    /\ i' = i + 1 /\ Goes("options") /\ UNCHANGED <<loglevel, config_file>>

ReadOption ==
    /\ main = "options" /\ i \in DOMAIN argv
    /\ Verbose \/ Config \/ Help \/ Ignored
    /\ UNCHANGED <<line, thread, pending, requested, stop, server, asked, spare>>

-----------------------------------------------------------------------------
(* main() *)

\* The steps, each of which may fail: blocking the signals, reading the
\* configuration, making the virtual devices.  The worker threads are there by then.
After == [mask |-> "config", config |-> "devices", devices |-> "thread"]
Sets(place) ==
    /\ main = place
    /\ Goes(After[place]) \/ Ends("failure")
    /\ UNCHANGED <<line, optionVars, threadVars, pending, stop, asked, spare>>

OptionsRead ==
    /\ main = "options" /\ i \notin DOMAIN argv /\ Goes("mask")
    /\ UNCHANGED <<line, optionVars, threadVars, pending, stop, asked, spare>>

\* device_manager->enumerate(), and then the signal thread.
StartThread ==
    /\ main = "thread" /\ Goes("serve") /\ thread' = "waits"
    /\ UNCHANGED <<line, optionVars, pending, requested, stop, server, asked, spare>>

\* server->start() returns when it is told to stop, or throws when the bus is lost.
ServerEnds ==
    /\ main = "serve" /\ main' = "check"
    /\ \/ server = "stopped" /\ status' = "success"
       \/ status' = "failure"
    /\ UNCHANGED <<line, optionVars, threadVars, pending, stop, asked, spare>>

\* A mutant of Shutdown: the thread is woken before it is told why.
WokenFirst == <<"kill", "stop">>
Shutdown == <<"stop", "kill">>

\* if (!termination_requested)
Check ==
    /\ main = "check" /\ Goes(IF requested THEN "join" ELSE Shutdown[1])
    /\ UNCHANGED <<line, optionVars, threadVars, pending, stop, asked, spare>>

Follows(place) == Goes(IF place = Shutdown[1] THEN Shutdown[2] ELSE "join")

StopThread ==
    /\ main = "stop" /\ stop' = TRUE /\ Follows("stop")
    /\ UNCHANGED <<line, optionVars, threadVars, pending, asked, spare>>

\* pthread_kill(); a thread that has ended has no use for it.
Kill ==
    /\ main = "kill" /\ Follows("kill")
    /\ pending' = IF thread = "done" THEN pending ELSE pending \cup {"thread"}
    /\ UNCHANGED <<line, optionVars, threadVars, stop, asked, spare>>

Join ==
    /\ main = "join" /\ thread = "done" /\ main' = "ended"
    /\ UNCHANGED <<line, optionVars, status, threadVars, pending, stop, asked, spare>>

-----------------------------------------------------------------------------
(* The signal thread *)

SigWait ==
    /\ thread = "waits" /\ thread' = "woken"
    /\ \E s \in pending : pending' = pending \ {s}
    /\ UNCHANGED <<line, optionVars, main, status, requested, stop, server, asked, spare>>

Woken ==
    /\ thread = "woken"
    /\ thread' = IF stop THEN "done" ELSE "requests"
    /\ UNCHANGED <<line, optionVars, main, status, pending, requested, stop, server, asked, spare>>

Request ==
    /\ thread = "requests" /\ thread' = "stops" /\ requested' = TRUE
    /\ UNCHANGED <<line, optionVars, main, status, pending, stop, server, asked, spare>>

StopServer ==
    /\ thread = "stops" /\ thread' = "done" /\ server' = "stopped"
    /\ UNCHANGED <<line, optionVars, main, status, pending, requested, stop, asked, spare>>

\* Before the signals are blocked one ends the program.
Signal ==
    /\ main # "ended" /\ spare > 0 /\ spare' = spare - 1 /\ asked' = TRUE
    /\ IF main \in {"options", "mask"} THEN Ends("killed") /\ UNCHANGED pending
       ELSE pending' = pending \cup {"process"} /\ UNCHANGED <<main, status>>
    /\ UNCHANGED <<line, optionVars, threadVars, stop>>

Next ==
    \/ ReadOption \/ OptionsRead \/ (\E p \in DOMAIN After : Sets(p)) \/ StartThread
    \/ ServerEnds \/ Check \/ StopThread \/ Kill \/ Join
    \/ SigWait \/ Woken \/ Request \/ StopServer \/ Signal

Spec == Init /\ [][Next]_vars

-----------------------------------------------------------------------------
\* What the options before the first that ends the program ask for, the last of
\* each kind.
Said(field, default) ==
    LET n == SelectInSeq(line, LAMBDA o : o.exit # "")
        read == IF n = 0 THEN line ELSE SubSeq(line, 1, n - 1)
        said == SelectSeq(read, LAMBDA o : o[field] # "")
    IN  IF said = <<>> THEN default ELSE said[Len(said)][field]

\* The program is set up as its options say, or not at all.  It takes only a signal
\* from outside for a request to end, and says so only then; whichever of the
\* signal and the loss of the bus comes first, main() never waits for a
\* thread that nothing wakes, nor returns before the thread that uses its variables.
EndsAsAsked ==
    /\ main \notin {"options", "ended"} =>
          /\ loglevel = Said("level", "info") /\ config_file = Said("file", default_config)
          /\ \A k \in DOMAIN line : line[k].exit = ""
    /\ requested => asked
    /\ status = "success" /\ thread # "none" => requested
    /\ main = "join" /\ thread = "waits" => pending # {}
    /\ main = "ended" => thread \in {"none", "done"}
=============================================================================
