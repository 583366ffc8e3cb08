------------------------------- MODULE Startup -------------------------------
(***************************************************************************)
(* The process around a command: main and run.  The arguments are parsed,  *)
(* the logger is installed, and whatever fails is reported and turned into *)
(* an exit status.  What goes to syslog and to a log file is left out.     *)
(***************************************************************************)
EXTENDS ConfFile

Statuses == {"success", "runtime error", "usage error"}

ASSUME StatusAssumption == None \notin Statuses

VARIABLES
  stage,   \* how far each process is
  logger,  \* its logger is installed
  told,    \* what it has written to the terminal
  exit     \* its exit status

procvars == <<stage, logger, told, exit>>
vars == <<confvars, procvars>>

Stages == {"off", "started", "inside", "funnel", "ended"}

StartupTypeOK ==
  /\ stage \in [Procs -> Stages]
  /\ logger \in [Procs -> BOOLEAN]
  /\ told \in [Procs -> {"nothing", "failure", "part of the help"}]
  /\ exit \in [Procs -> Statuses \cup {None}]

Init ==
  /\ ConfInit
  /\ stage = [p \in Procs |-> "off"]
  /\ logger = [p \in Procs |-> FALSE]
  /\ told = [p \in Procs |-> "nothing"]
  /\ exit = [p \in Procs |-> None]

Tells(p) == told' = [told EXCEPT ![p] = "failure"]

Reaches(p, s) == stage' = [stage EXCEPT ![p] = s]

Exits(p, e) == exit' = [exit EXCEPT ![p] = e] /\ Reaches(p, "ended")

Invoke(p) ==
  /\ stage[p] = "off"
  /\ Reaches(p, "started")
  /\ UNCHANGED <<confvars, logger, told, exit>>

(***************************************************************************)
(* Arguments.                                                              *)
(***************************************************************************)
HelpOrVersion(p) ==
  /\ stage[p] = "started"
  /\ Exits(p, "success")
  /\ UNCHANGED <<confvars, logger, told>>

\* The error is printed; if it cannot be, or the help cannot, main returns
\* that failure and the runtime prints it.
ParseFails(p) ==
  /\ stage[p] = "started"
  /\ Tells(p)
  /\ \E e \in {"usage error", "runtime error"} : Exits(p, e)
  /\ UNCHANGED <<confvars, logger>>

\* A guard refuses, conf is given no flag, or there is no command and help
\* has been printed: said before there is a logger to say it.
Rejected(p) ==
  /\ stage[p] = "started"
  /\ Tells(p) /\ Reaches(p, "funnel")
  /\ UNCHANGED <<confvars, logger, exit>>

\* print_help fails, and returns before the error it was to be followed by.
HelpFails(p) ==
  /\ stage[p] = "started"
  /\ told' = [told EXCEPT ![p] = "part of the help"]
  /\ Reaches(p, "funnel")
  /\ UNCHANGED <<confvars, logger, exit>>

(***************************************************************************)
(* The logger.                                                             *)
(***************************************************************************)
\* The conf command has one before it begins; every other loads the
\* configuration first, which may name the log file.
Dispatch(p, c) ==
  /\ stage[p] = "started"
  /\ Enter(p, c)
  /\ logger' = [logger EXCEPT ![p] = (c # "work")]
  /\ Reaches(p, "inside")
  /\ UNCHANGED <<told, exit>>

\* Faulty: a load that has failed returns before the logger is installed.
AwaitsLoad(p) == stage[p] = "inside" /\ ~logger[p] /\ pc[p] = "loaded"

\* The load has ended, either way.
Awaits(p) == stage[p] = "inside" /\ ~logger[p] /\ pc[p] \in {"loaded", "failed"}

InstallLogger(p) ==
  /\ Awaits(p)
  /\ logger' = [logger EXCEPT ![p] = TRUE]
  /\ UNCHANGED <<confvars, stage, told, exit>>

\* Reported without it, on the spot.
LoggerFails(p) ==
  /\ \/ Awaits(p)
     \/ stage[p] = "started"
  /\ Tells(p) /\ Exits(p, "runtime error")
  /\ Goes(p, "off") /\ Forgets(p)
  /\ UNCHANGED <<conf, example, command, meant, crossed, logger>>

(***************************************************************************)
(* The command, and its end.                                               *)
(***************************************************************************)
Runs(p) ==
  /\ stage[p] = "inside"
  /\ pc[p] = "loaded" => logger[p]
  /\ ConfStep(p)
  /\ UNCHANGED procvars

Succeeds(p) ==
  /\ stage[p] = "inside" /\ pc[p] = "ok"
  /\ Goes(p, "off") /\ Forgets(p) /\ Exits(p, "success")
  /\ UNCHANGED <<conf, example, command, meant, crossed, logger, told>>

Fails(p) ==
  /\ stage[p] = "inside" /\ pc[p] = "failed"
  /\ ~Awaits(p)
  /\ Goes(p, "off") /\ Forgets(p) /\ Reaches(p, "funnel")
  /\ UNCHANGED <<conf, example, command, meant, crossed, logger, told, exit>>

\* messages::error: without a logger the record is dropped.
Funnel(p) ==
  /\ stage[p] = "funnel"
  /\ told' = [told EXCEPT ![p] = IF logger[p] THEN "failure" ELSE @]
  /\ Exits(p, "runtime error")
  /\ UNCHANGED <<confvars, logger>>

\* The next invocation begins afresh.
Gone(p) ==
  /\ stage' = [stage EXCEPT ![p] = "off"]
  /\ logger' = [logger EXCEPT ![p] = FALSE]
  /\ told' = [told EXCEPT ![p] = "nothing"]
  /\ exit' = [exit EXCEPT ![p] = None]

Ended(p) == stage[p] = "ended" /\ Gone(p) /\ UNCHANGED confvars

Dies(p) == Killed(p) /\ Gone(p)

Next ==
  \E p \in Procs :
    \/ Invoke(p)
    \/ HelpOrVersion(p) \/ ParseFails(p) \/ Rejected(p) \/ HelpFails(p)
    \/ \E c \in Commands : Dispatch(p, c)
    \/ InstallLogger(p) \/ LoggerFails(p)
    \/ Runs(p) \/ Succeeds(p) \/ Fails(p) \/ Funnel(p)
    \/ Ended(p) \/ Dies(p)

Spec == Init /\ [][Next]_vars

-----------------------------------------------------------------------------
(***************************************************************************)
(* Properties.                                                             *)
(***************************************************************************)
\* A process that ends with an error has told the operator of it, unless it
\* was the help that could not be printed; one that ends well has not (main,
\* install_logger, run).
FailureIsTold ==
  \A p \in Procs :
    /\ exit[p] \in {"runtime error", "usage error"} => told[p] # "nothing"
    /\ exit[p] = "success" => told[p] = "nothing"

(***************************************************************************)
(* What the argument rests on.                                             *)
(***************************************************************************)
\* A process has a command while it is inside, and no logger only while that
\* command loads the configuration; what is on its way to the funnel has been
\* said, or can be said there.
Staged(p) ==
  /\ stage[p] # "inside" => pc[p] = "off" /\ raw[p] = None
  /\ stage[p] = "inside" => pc[p] # "off" /\ told[p] = "nothing"
  /\ stage[p] = "inside" /\ ~logger[p] => pc[p] \in {"load", "loaded", "failed"}
  /\ stage[p] \in {"off", "started"} => ~logger[p] /\ told[p] = "nothing"
  /\ stage[p] = "funnel" => logger[p] \/ told[p] # "nothing"
  /\ (exit[p] # None) <=> (stage[p] = "ended")

StageInv == \A p \in Procs : Staged(p)

IInv == ConfInv /\ StartupTypeOK /\ StageInv /\ FailureIsTold
=============================================================================
