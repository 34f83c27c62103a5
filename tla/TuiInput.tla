------------------------------ MODULE TuiInput ------------------------------
(* The terminal UI's one input (adapters/tui/controller.ts): the main loop, the *)
(* questions of permission requests and the keys typed during a run share it.  *)
(* On a terminal there is one active question, and a new one takes its place;  *)
(* on a pipe questions wait in a queue, and lines nobody waits for in another. *)
EXTENDS Sequences, Integers, Ordering

CONSTANTS
  Approvals,   \* permission requests the runs may make
  MaxLines     \* bound on the lines the user types

ASSUME InputAssumption == MaxLines \in Nat

Loop == "loop"      \* the question of the main loop
Nobody == "nobody"
Questions == Approvals \cup {Loop}

VARIABLES
  tty,        \* this.tty
  active,     \* this.active: whose question is on the terminal
  waiters,    \* this.waiters: whose questions wait for a line of the pipe
  lines,      \* this.lines, each with the approvals that were asked when it was typed
  closed,     \* this.closed
  listening,  \* is there a backgroundLineHandler?
  loop,       \* where tuiCommand is: ready to ask, asking, preparing a prompt, in a run, over
  runAborted, \* was the current run aborted?
  approval,   \* the mediator's view of each request
  informed,   \* history: the approvals allowed by a line typed after they were asked
  typed       \* how many lines the user has typed

inputVars == <<active, waiters, lines, closed, listening>>
tuiVars == <<tty, inputVars, loop, runAborted, approval, informed, typed>>

\* What a line can mean: to the loop, to a permission question, to a run.
Texts == {"prompt", "yes", "/abort", "/exit"}
Line == [text : Texts, shown : SUBSET Approvals]

Pending == {a \in Approvals : approval[a] = "pending"}
Asked == {a \in Approvals : approval[a] # "idle"}

TuiTypeOK ==
  /\ tty \in BOOLEAN /\ closed \in BOOLEAN /\ listening \in BOOLEAN /\ runAborted \in BOOLEAN
  /\ active \in Questions \cup {Nobody}
  /\ waiters \in Seq(Questions)
  /\ lines \in Seq(Line)
  /\ loop \in {"ready", "asking", "preparing", "running", "over"}
  /\ approval \in [Approvals -> {"idle", "pending", "allowed", "denied"}]
  /\ informed \subseteq Approvals
  /\ typed \in 0..MaxLines

TuiInit ==
  /\ tty \in BOOLEAN
  /\ active = Nobody /\ waiters = << >> /\ lines = << >>
  /\ closed = FALSE /\ listening = FALSE
  /\ loop = "ready" /\ runAborted = FALSE
  /\ approval = [a \in Approvals |-> "idle"]
  /\ informed = {}
  /\ typed = 0

(***************************************************************************)
(* What an answer does                                                     *)
(***************************************************************************)
\* respond on a request that is not pending throws, and askForPermission reports it.
Decided(s, a, decision) == IF s[a] = "pending" THEN [s EXCEPT ![a] = decision] ELSE s

\* ActiveRunManager.abort denies what the run has pending.
AllDenied(s) == [a \in Approvals |-> IF s[a] = "pending" THEN "denied" ELSE s[a]]

\* askForPermission, given its answer.
AnswerPermission(a, line) ==
  LET aborts == line.text = "/abort" /\ a \in Pending
      decision == IF line.text = "yes" THEN "allowed" ELSE "denied"
  IN
  /\ approval' = IF aborts THEN AllDenied(approval) ELSE Decided(approval, a, decision)
  /\ runAborted' = (runAborted \/ aborts)
  /\ informed' = IF line.text = "yes" /\ a \in Pending /\ a \in line.shown
                   THEN informed \cup {a} ELSE informed
  /\ UNCHANGED loop

\* The main loop, given a line: a prompt, the end, or a command that leaves it where it is.
AnswerLoop(line) ==
  /\ loop' = CASE line.text = "/exit" -> "over"
               [] line.text \in {"prompt", "yes"} -> "preparing"
               [] OTHER -> "ready"
  /\ UNCHANGED <<runAborted, approval, informed>>

Answer(q, line) == IF q = Loop THEN AnswerLoop(line) ELSE AnswerPermission(q, line)

(***************************************************************************)
(* question()                                                              *)
(***************************************************************************)
\* On a terminal: the active question, if there is one, is replaced and never resolved.
QuestionTty(q) ==
  /\ tty /\ ~closed
  /\ active' = q
  /\ UNCHANGED <<waiters, lines, closed, listening>>

QuestionWaits(q) ==
  /\ ~tty /\ lines = << >> /\ ~closed
  /\ waiters' = Append(waiters, q)
  /\ UNCHANGED <<active, lines, closed, listening>>

\* Faulty: what was typed during a run answers on a terminal too.
TakesLine_Fault ==
  /\ lines # << >>
  /\ lines' = Tail(lines)
  /\ UNCHANGED <<active, waiters, closed, listening>>

\* On a pipe: a line that came earlier is the answer at once.
TakesLine ==
  /\ ~tty /\ lines # << >>
  /\ lines' = Tail(lines)
  /\ UNCHANGED <<active, waiters, closed, listening>>

\* question resolves with undefined at once.
AfterEnd == closed /\ (tty \/ lines = << >>) /\ UNCHANGED inputVars

(***************************************************************************)
(* The main loop                                                           *)
(***************************************************************************)
LoopAsks ==
  /\ loop = "ready"
  /\ \/ (QuestionTty(Loop) \/ QuestionWaits(Loop)) /\ loop' = "asking"
        /\ UNCHANGED <<runAborted, approval, informed>>
     \/ TakesLine /\ AnswerLoop(Head(lines))
     \/ AfterEnd /\ loop' = "over" /\ UNCHANGED <<runAborted, approval, informed>>
  /\ UNCHANGED <<tty, typed>>

\* The mentions are read and the run starts; its handler is offered the lines that came before.
StartRun ==
  /\ loop = "preparing"
  /\ loop' = "running" /\ listening' = TRUE
  /\ lines' = PickAt(lines, {i \in DOMAIN lines : lines[i].text # "/abort"})
  /\ runAborted' = (\E i \in DOMAIN lines : lines[i].text = "/abort")
  /\ UNCHANGED <<tty, active, waiters, closed, approval, informed, typed>>

\* The run's promise settles: all its requests are decided.
RunEnds ==
  /\ loop = "running" /\ Pending = {}
  /\ loop' = "ready" /\ listening' = FALSE
  /\ UNCHANGED <<tty, active, waiters, lines, closed, runAborted, approval, informed, typed>>

(***************************************************************************)
(* Permission requests                                                     *)
(***************************************************************************)
\* permission.requested: askForPermission asks on the shared input.
RequestPermission(a) ==
  LET asked == [approval EXCEPT ![a] = "pending"]
      line == Head(lines)
  IN
  /\ loop = "running" /\ ~runAborted /\ approval[a] = "idle"
  /\ \/ (QuestionTty(a) \/ QuestionWaits(a)) /\ approval' = asked /\ UNCHANGED <<runAborted, informed>>
     \/ /\ TakesLine
        /\ approval' = [asked EXCEPT ![a] = IF line.text = "yes" THEN "allowed" ELSE "denied"]
        /\ UNCHANGED <<runAborted, informed>>
     \/ AfterEnd /\ approval' = [asked EXCEPT ![a] = "denied"] /\ UNCHANGED <<runAborted, informed>>
  /\ UNCHANGED <<tty, loop, typed>>

\* The mediator's timer denies; the question stays where it is.
PermissionExpires(a) ==
  /\ a \in Pending
  /\ approval' = [approval EXCEPT ![a] = "denied"]
  /\ UNCHANGED <<tty, inputVars, loop, runAborted, informed, typed>>

(***************************************************************************)
(* The user                                                                *)
(***************************************************************************)
\* The handler of a run takes "/abort" and nothing else.
BackgroundAbort ==
  /\ approval' = AllDenied(approval) /\ runAborted' = TRUE
  /\ UNCHANGED <<tty, inputVars, loop, informed>>

\* onKeypress, up to Enter: to the active question, else to the run's handler.
TypeLineTty(line) ==
  /\ tty /\ loop # "over"
  /\ \/ /\ active # Nobody
        /\ active' = Nobody
        /\ Answer(active, line)
        /\ UNCHANGED <<tty, waiters, lines, closed, listening>>
     \/ active = Nobody /\ listening /\ line.text = "/abort" /\ BackgroundAbort
     \/ /\ active = Nobody /\ listening /\ line.text # "/abort"
        /\ lines' = Append(lines, line)
        /\ UNCHANGED <<tty, active, waiters, closed, listening, loop, runAborted, approval, informed>>

\* push(line): the run's handler, the first waiter, or the queue.
TypeLinePipe(line) ==
  /\ ~tty /\ ~closed
  /\ \/ listening /\ line.text = "/abort" /\ BackgroundAbort
     \/ /\ ~(listening /\ line.text = "/abort") /\ waiters # << >>
        /\ waiters' = Tail(waiters)
        /\ Answer(Head(waiters), line)
        /\ UNCHANGED <<tty, active, lines, closed, listening>>
     \/ /\ ~(listening /\ line.text = "/abort") /\ waiters = << >>
        /\ lines' = Append(lines, line)
        /\ UNCHANGED <<tty, active, waiters, closed, listening, loop, runAborted, approval, informed>>

TypeLine ==
  /\ typed < MaxLines /\ typed' = typed + 1
  /\ \E text \in Texts :
       LET line == [text |-> text, shown |-> Asked] IN TypeLineTty(line) \/ TypeLinePipe(line)

\* Faulty: only the questions of permission requests are resolved.
Finish_Fault ==
  LET found == IF tty THEN {active} \ {Nobody} ELSE {waiters[i] : i \in DOMAIN waiters} IN
  /\ closed' = TRUE /\ active' = Nobody /\ waiters' = << >>
  /\ approval' = [a \in Approvals |-> IF a \in found \cap Pending THEN "denied" ELSE approval[a]]
  /\ UNCHANGED <<tty, lines, listening, loop, informed, typed>>

\* finish(): every question that can be found is resolved with undefined.
Finish ==
  LET found == IF tty THEN {active} \ {Nobody} ELSE {waiters[i] : i \in DOMAIN waiters} IN
  /\ closed' = TRUE /\ active' = Nobody /\ waiters' = << >>
  /\ approval' = [a \in Approvals |-> IF a \in found \cap Pending THEN "denied" ELSE approval[a]]
  /\ loop' = IF Loop \in found THEN "over" ELSE loop
  /\ UNCHANGED <<tty, lines, listening, informed, typed>>

\* Ctrl-C with a question, Ctrl-D, or the end of the pipe.
EndInput == ~closed /\ loop # "over" /\ Finish /\ UNCHANGED runAborted

\* Ctrl-C without a question is "/abort" to the run.
InterruptRun ==
  /\ tty /\ active = Nobody /\ listening /\ ~runAborted
  /\ BackgroundAbort /\ UNCHANGED typed

\* What goes on by itself: tuiCommand, and the mediator's timers.
InputProgress == LoopAsks \/ StartRun \/ RunEnds \/ \E a \in Approvals : PermissionExpires(a)

TuiNext ==
  \/ LoopAsks \/ StartRun \/ RunEnds
  \/ \E a \in Approvals : RequestPermission(a) \/ PermissionExpires(a)
  \/ TypeLine \/ EndInput \/ InterruptRun

TuiSpec == TuiInit /\ [][TuiNext]_tuiVars

(* On a terminal nothing that was typed before a permission was asked for      *)
(* allows it: what was typed during a run is not taken for an answer.          *)
ConsentSeen ==
  tty => \A a \in Approvals : approval[a] = "allowed" => a \in informed

(* After Ctrl-D or the end of the pipe the terminal UI ends, whatever was      *)
(* asked and whoever was asking: a question nobody resolves would hang it.     *)
ClosedEnds == closed ~> loop = "over"
=============================================================================
