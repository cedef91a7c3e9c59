------------------------------ MODULE Console ------------------------------
(***************************************************************************)
(* cool ui: the file watcher (cli/ui/watch.ts), git (cli/ui/git.ts), the   *)
(* console (cli/ui/server.ts, cli/ui/index.ts), next to the commands of    *)
(* Workspace.  One watched file that git tracks and that is never empty;   *)
(* its content is a text and whether it ends in a newline.  The HTTP       *)
(* routes only read.  The console is the process Ui.                       *)
(***************************************************************************)
EXTENDS Workspace

CONSTANTS
    Ui, Path, Environment,
    Contents, First,   \* of the watched file: all, and at the beginning
    Budgets   \* bounds: how many commands, crashes, saves and sessions go together

ASSUME ConsoleAssumption == Ui \in Procs

VARIABLES
    file,      \* the bytes of the watched file
    head,      \* the bytes git has for it at HEAD
    up,        \* is the console running?
    baseline,  \* the watcher's idea of the bytes before
    timer,     \* is the debounce timer of the file running?
    changes,   \* calls of sealChange() that have not sealed yet
    left,      \* what is left of the budget: saves and sessions
    session,   \* history: the changes this session has sealed
    failed     \* history: has sealing failed in this session?

cvars == <<file, head, up, baseline, timer, changes, left, session, failed>>
vars == <<wvars, cvars>>

(* git() trims what git prints: a trailing newline is lost. *)
trim(content) == [content EXCEPT !.nl = FALSE]
committedContents == trim(head)

SKIP_DIRS == {".cool", ".git", "node_modules", "dist", "build", "out", "coverage", "vendor"}
TEXT_EXT == {".prompt", ".txt", ".md", ".json", ".yaml", ".toml", ".env", ".ts", ".py", ".rego"}

(* shouldWatch(): path is [dirs, dots, stem, ext], dots the directories    *)
(* whose name begins with a dot.                                           *)
shouldWatch(path) ==
    path.dirs \cap SKIP_DIRS = {} /\ path.dots = {} /\ path.ext \in TEXT_EXT

(* kindFor(): the first rule that fits, prose is a prompt. *)
kindFor(path) ==
    LET hints == <<<<path.dirs \cap {"policies", "policy", "governance"} # {} \/ path.ext = ".rego", "policy">>,
                   <<path.dirs \cap {"dataset", "datasets", "data", "fixtures"} # {}, "dataset">>,
                   <<path.stem \in {"tool", "tools", "function", "functions"}
                        /\ path.ext \in {".json", ".yaml", ".ts"}, "tool">>,
                   <<path.stem \in {"permissions", "scopes", "roles", "acls"}, "agent-permission">>,
                   <<path.dirs \cap {"model", "models"} # {} \/ path.stem = "model", "model">>,
                   <<path.ext \in {".json", ".yaml", ".toml", ".env"}, "params">>,
                   <<TRUE, "prompt">>>>
        first == CHOOSE i \in 1..Len(hints) : hints[i][1] /\ \A j \in 1..(i - 1) : ~hints[j][1]
    IN  hints[first][2]

CInit ==
    /\ WInit
    /\ file = First /\ head = file /\ up = FALSE
    /\ baseline = file /\ timer = FALSE /\ changes = <<>>
    /\ left \in Budgets /\ commands = left.commands /\ crashes = left.crashes
    /\ session = <<>> /\ failed = FALSE

-----------------------------------------------------------------------------
(* External: an editor writes the file, the same bytes perhaps.  queue()   *)
(* starts the timer, anew if it is running.                                *)
Save ==
    /\ left.saves > 0 /\ left' = [left EXCEPT !.saves = @ - 1]
    /\ file' \in Contents
    /\ timer' = (timer \/ (up /\ shouldWatch(Path)))
    /\ UNCHANGED <<head, up, baseline, changes, session, failed>>

(* External: git commit. *)
Commit ==
    /\ head # file /\ head' = file
    /\ UNCHANGED <<file, up, baseline, timer, changes, left, session, failed>>

(* ui(): the workspace is opened, which replays the log, baselineFor()     *)
(* takes what git has, and the watch begins.                               *)
Start ==
    /\ ~up /\ changes = <<>> /\ proc[Ui] = Idle
    /\ left.sessions > 0 /\ left' = [left EXCEPT !.sessions = @ - 1]
    /\ up' = TRUE /\ baseline' = committedContents
    /\ session' = <<>> /\ failed' = FALSE
    /\ log' = [log EXCEPT ![Ui] = lines]
    /\ UNCHANGED <<lines, checkpoint, forked, files, disk, proc, asked, chain>>
    /\ UNCHANGED <<commands, crashes, earned, alone, file, head, timer, changes>>

(* Mutant: the baseline stays what git had. *)
SettleFromCommit ==
    /\ timer /\ timer' = FALSE
    /\ IF baseline = file THEN UNCHANGED <<baseline, changes>>
       ELSE /\ UNCHANGED baseline
            /\ changes' = Append(changes, [before |-> baseline, after |-> file])
    /\ UNCHANGED <<file, head, up, left, session, failed>>

(* settle(): the file is read now, the baseline moves at once. *)
Settle ==
    /\ timer /\ timer' = FALSE
    /\ IF baseline = file THEN UNCHANGED <<baseline, changes>>
       ELSE /\ baseline' = file
            /\ changes' = Append(changes, [before |-> baseline, after |-> file])
    /\ UNCHANGED <<file, head, up, left, session, failed>>

(* sealChange(): the plane decides, nobody has approved.  The console's    *)
(* log is the one it opened and has appended to since.                     *)
eventOf(change) ==
    [kind |-> kindFor(Path), environment |-> Environment, approval |-> {}, approvers |-> 0,
     risk |-> 0, before |-> {change.before}, after |-> change.after]

SealChange ==
    /\ changes # <<>> /\ proc[Ui] = Idle
    /\ Record(Ui, eventOf(Head(changes)), TRUE)
    /\ alone' = (alone /\ \A q \in Procs \ {Ui} : proc[q] = Idle)
    /\ changes' = Tail(changes) /\ session' = Append(session, Head(changes))
    /\ UNCHANGED <<commands, file, head, up, baseline, timer, left, failed>>

(* sealChange(): a failure is noted; the change is lost. *)
SealFails ==
    /\ changes # <<>> /\ proc[Ui] = Idle
    /\ changes' = Tail(changes) /\ failed' = TRUE
    /\ UNCHANGED <<file, head, up, baseline, timer, left, session>>

(* ctrl-c: the timers are cleared, changes on their way are still sealed. *)
Stop ==
    /\ up /\ up' = FALSE /\ timer' = FALSE
    /\ UNCHANGED <<file, head, baseline, changes, left, session, failed>>

(* The console is killed. *)
Kill ==
    /\ up /\ Killed(Ui)
    /\ up' = FALSE /\ timer' = FALSE /\ changes' = <<>>
    /\ alone' = (alone /\ proc[Ui] = Idle)
    /\ UNCHANGED <<file, head, baseline, left, session, failed>>

Next ==
    \/ (Save \/ Commit \/ Settle \/ SealFails \/ Stop) /\ UNCHANGED wvars
    \/ Start \/ SealChange \/ Kill
    \/ /\ \/ \E p \in Procs \ {Ui} : Command(p) \/ Step(p)
          \/ Checkpoint(Ui) \/ Truncate(Ui) \/ Fill(Ui)
          \/ \E c \in Calendars : Mine(c)
       /\ UNCHANGED cvars

Spec == CInit /\ [][Next]_vars

-----------------------------------------------------------------------------
(* While the console runs and no sealing has failed, the changes it has    *)
(* sealed join up, each beginning where the one before ended, and once     *)
(* nothing is on its way the last of them ends with the bytes in the file: *)
(* no save between two settled ones is forgotten, whatever the debounce,   *)
(* the commits and the commands in between.                                *)
HistoryJoinsUp ==
    up /\ ~failed =>
        /\ \A k \in 2..Len(session) : session[k].before = session[k - 1].after
        /\ ~timer /\ changes = <<>> /\ session # <<>> => file = Last(session).after
=============================================================================
