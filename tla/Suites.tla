------------------------------- MODULE Suites -------------------------------
(***************************************************************************)
(* Macro runs and suite runs (macro-runner, suite-runner, suite-scheduler  *)
(* and their controllers) on the one ATM session they share.  The queue's  *)
(* worker takes one suite at a time; requests of the console may run a     *)
(* macro of their own meanwhile, and suites too when the server runs with  *)
(* the scheduler disabled.  The server may restart; jobs and repeatable    *)
(* jobs live in Redis (BullMQ, modelled from its use here), whose calls    *)
(* may be refused.                                                         *)
(*                                                                         *)
(* A macro is a sequence of step kinds: "Insert" (a card), "Act" (anything *)
(* that needs a session) and "Check" (a checkpoint).                       *)
(***************************************************************************)
EXTENDS Integers, Sequences

CONSTANTS
    SuiteIds,    \* ids of MacroSuite rows
    MacroIds,    \* MacroSuite.macroIds, per suite
    Steps,       \* the enabled steps of each macro, in order
    Crons,       \* cron texts of five fields
    Invalid,     \* those of them that no cron parser takes
    Consoles,    \* requests of the console in progress at once
    MaxRequest,  \* bound: jobs enqueued, macros run and suites edited, together
    MaxRestart   \* bound: restarts

ASSUME SuitesAssumption ==
    /\ MacroIds \in [SuiteIds -> Seq(DOMAIN Steps)]
    /\ \A m \in DOMAIN Steps : Steps[m] \in Seq({"Insert", "Act", "Check"})
    /\ "worker" \notin Consoles
    /\ Invalid \subseteq Crons
    /\ MaxRequest \in Nat /\ MaxRestart \in Nat

Worker == "worker"
Actors == Consoles \union {Worker}
NoCron == "none"
NoSuite == "none"

VARIABLES
    suite,       \* MacroSuite rows
    repeatables, \* repeatable jobs: <<suite, cron>>
    sync,        \* a syncRepeatables call of each request, and of the boot
    whole,       \* history: nothing has come between the last sync: no other
                 \* sync, no refused call
    edits,       \* edits of suites so far
    inline,      \* the scheduler is disabled: there is no queue
    down,        \* the process exited in its bootstrap
    queue,       \* jobs waiting: suite ids
    runner,      \* what the worker and the console requests are running
    session,     \* the macro run that opened the ATM session, 0: none
    nextRun,     \* the number of the next macro run
    rows,        \* MacroSuiteRun rows, each with the results of its macros
    jobs,        \* history: jobs enqueued, and run to their end
    foreign,     \* history: a suite's step acted on the session of another run
    disturbed,   \* history: two runs overlapped, or a cancel failed
    manual,      \* macros run from the console so far
    restarts     \* restarts so far

planVars == <<suite, repeatables, sync, whole, edits, inline, down>>
atmVars == <<session, foreign, disturbed>>
vars == <<planVars, queue, runner, atmVars, nextRun, rows, jobs, manual, restarts>>

Free == [pc |-> "free", suite |-> NoSuite, i |-> 0, row |-> 0, overall |-> "PASSED",
         steps |-> <<>>, run |-> 0, status |-> "PASSED"]
NoSync == [pc |-> "none", wanted |-> {}, stale |-> {}]
Reading == [NoSync EXCEPT !.pc = "read"]

TypeOK ==
    /\ suite \in [SuiteIds -> [exists : BOOLEAN, enabled : BOOLEAN, cron : Crons \union {NoCron}]]
    /\ repeatables \subseteq SuiteIds \X Crons
    /\ queue \in Seq(SuiteIds)
    /\ \A r \in Actors : runner[r].pc \in {"free", "slate", "begin", "step", "final", "end"}
    /\ session \in 0 .. nextRun - 1
    /\ \A i \in DOMAIN rows : rows[i].status \in {"RUNNING", "PASSED", "FAILED"}
    /\ jobs.added \in 0 .. MaxRequest /\ jobs.done \in 0 .. jobs.added
    /\ restarts \in 0 .. MaxRestart

Init ==
    /\ suite = [s \in SuiteIds |-> [exists |-> TRUE, enabled |-> FALSE, cron |-> NoCron]]
    /\ repeatables = {}
    /\ sync = [r \in Actors |-> NoSync]
    /\ whole = TRUE
    /\ edits = 0
    /\ inline \in BOOLEAN
    /\ down = FALSE
    /\ queue = <<>>
    /\ runner = [r \in Actors |-> Free]
    /\ session = 0
    /\ nextRun = 1
    /\ rows = <<>>
    /\ jobs = [added |-> 0, done |-> 0]
    /\ foreign = FALSE
    /\ disturbed = FALSE
    /\ manual = 0
    /\ restarts = 0

-----------------------------------------------------------------------------
(* Who else is running a macro or a suite?                                 *)
Overlap(r) == \E q \in Actors \ {r} : runner[q] # Free

Room == jobs.added + manual + edits < MaxRequest

(* app.listen comes after onModuleInit: no request before the boot's sync  *)
(* is through.                                                             *)
Listening == ~ down /\ sync[Worker] = NoSync

(* A suite at its i-th macro: that one is next, or the last cancel.        *)
Onward(s, i) == IF i <= Len(MacroIds[s]) THEN "slate" ELSE "final"

GoOn(r, j) == runner' = [runner EXCEPT ![r] = j]

(* Does a runner run a suite, or a macro of the console's own?             *)
InSuite(j) == j.row # 0

(* A job is added to the queue ...                                         *)
Enqueue(s) ==
    /\ Room
    /\ queue' = Append(queue, s)
    /\ jobs' = [jobs EXCEPT !.added = @ + 1]
    /\ UNCHANGED <<planVars, runner, atmVars, nextRun, rows, manual, restarts>>

(* ... by runNow, for a suite that exists, or by a repeatable job that is  *)
(* due, whether or not its suite still exists.                             *)
RunNow(s) == Listening /\ ~ inline /\ suite[s].exists /\ Enqueue(s)
JobDue(s) == ~ down /\ (\E c \in Crons : <<s, c>> \in repeatables) /\ Enqueue(s)

(* SuiteRunnerService.run: the suite's row is created.                     *)
BeginSuite(r, s) ==
    /\ GoOn(r, [Free EXCEPT !.pc = Onward(s, 1), !.suite = s, !.i = 1, !.row = Len(rows) + 1])
    /\ rows' = Append(rows, [suite |-> s, status |-> "RUNNING", results |-> <<>>])
    /\ disturbed' = (disturbed \/ Overlap(r))

(* With the scheduler disabled the request itself runs the suite, whatever *)
(* else runs.                                                              *)
RunInline(r, s) ==
    /\ Listening /\ inline /\ suite[s].exists
    /\ runner[r] = Free /\ Room
    /\ BeginSuite(r, s)
    /\ manual' = manual + 1
    /\ UNCHANGED <<planVars, queue, session, foreign, nextRun, jobs, restarts>>

(* The worker (concurrency 1) picks a job up.  A suite that was deleted    *)
(* meanwhile fails the job.                                                *)
RunSuite ==
    /\ ~ down /\ runner[Worker] = Free /\ queue # <<>>
    /\ queue' = Tail(queue)
    /\ IF suite[Head(queue)].exists
       THEN BeginSuite(Worker, Head(queue)) /\ UNCHANGED jobs
       ELSE /\ jobs' = [jobs EXCEPT !.done = @ + 1]
            /\ UNCHANGED <<runner, rows, disturbed>>
    /\ UNCHANGED <<planVars, session, foreign, nextRun, manual, restarts>>

(* Variant: nothing is cancelled between two macros.                       *)
SafeCancel_OnlyLast(r) ==
    LET j == runner[r] IN
    /\ j.pc \in {"slate", "final"}
    /\ GoOn(r, [j EXCEPT !.pc = IF j.pc = "slate" THEN "begin" ELSE "end"])
    /\ session' = IF j.pc = "final" THEN 0 ELSE session
    /\ UNCHANGED <<planVars, queue, foreign, disturbed, nextRun, rows, jobs, manual, restarts>>

(* safeCancel before each macro and after the last: the session, whoever   *)
(* opened it, is cancelled; a cancel that fails is ignored.                *)
SafeCancel(r) ==
    LET j == runner[r] IN
    /\ j.pc \in {"slate", "final"}
    /\ GoOn(r, [j EXCEPT !.pc = IF j.pc = "slate" THEN "begin" ELSE "end"])
    /\ \/ session' = 0 /\ UNCHANGED disturbed
       \/ session # 0 /\ UNCHANGED session /\ disturbed' = TRUE
    /\ UNCHANGED <<planVars, queue, foreign, nextRun, rows, jobs, manual, restarts>>

(* MacroRunnerService.run: the run's row is created, and the steps begin.  *)
RunMacro(r, m, j) ==
    /\ GoOn(r, [j EXCEPT !.pc = "step", !.steps = Steps[m], !.run = nextRun, !.status = "PASSED"])
    /\ nextRun' = nextRun + 1

BeginMacro(r) ==
    LET j == runner[r] IN
    /\ j.pc = "begin"
    /\ RunMacro(r, MacroIds[j.suite][j.i], j)
    /\ UNCHANGED <<planVars, queue, atmVars, rows, jobs, manual, restarts>>

(* MacrosController.run: a macro from the console, whatever else runs.     *)
RunFromConsole(r, m) ==
    /\ Listening /\ runner[r] = Free /\ Room
    /\ RunMacro(r, m, Free)
    /\ manual' = manual + 1
    /\ disturbed' = (disturbed \/ Overlap(r))
    /\ UNCHANGED <<planVars, queue, session, foreign, rows, jobs, restarts>>

(* An Insert opens a session, which a refusal of the host ends at once, and *)
(* needs that there is none; an Act may be the last of its session.        *)
Touch(r, kind) ==
    LET mine == runner[r].run IN
    CASE kind = "Insert" -> session' \in (IF session = 0 THEN {mine, 0} ELSE {session})
                            /\ UNCHANGED foreign
      [] kind = "Act" -> /\ session' \in {session, 0}
                         /\ foreign' = (foreign \/ (InSuite(runner[r]) /\ session \notin {mine, 0}))
      [] OTHER -> UNCHANGED <<session, foreign>>

(* executeStep passes.                                                     *)
StepPasses(r) ==
    LET j == runner[r] IN
    /\ j.pc = "step" /\ j.steps # <<>> /\ j.status = "PASSED"
    /\ Head(j.steps) = "Insert" => session = 0
    /\ Head(j.steps) = "Act" => session # 0
    /\ Touch(r, Head(j.steps))
    /\ GoOn(r, [j EXCEPT !.steps = Tail(@)])
    /\ UNCHANGED <<planVars, queue, disturbed, nextRun, rows, jobs, manual, restarts>>

(* executeStep throws, or the write of the current step: a session in the  *)
(* way, none to act on, no such card, a wrong PIN, a checkpoint that does  *)
(* not hold.  The rest of the macro is not run; what was done stays done.  *)
StepFails(r) ==
    LET j == runner[r] IN
    /\ j.pc = "step" /\ j.steps # <<>> /\ j.status = "PASSED"
    /\ Touch(r, Head(j.steps))
    /\ GoOn(r, [j EXCEPT !.status = "FAILED", !.steps = <<>>])
    /\ UNCHANGED <<planVars, queue, disturbed, nextRun, rows, jobs, manual, restarts>>

(* The ATM's idle timer ends the session.                                  *)
IdleTimeout ==
    /\ session # 0 /\ session' = 0
    /\ UNCHANGED <<planVars, queue, runner, foreign, disturbed, nextRun, rows, jobs, manual,
                   restarts>>

(* A macro of the console is over.                                         *)
ConsoleMacroEnds(r) ==
    /\ ~ InSuite(runner[r])
    /\ runner[r].pc = "step" /\ runner[r].steps = <<>>
    /\ GoOn(r, Free)
    /\ UNCHANGED <<planVars, queue, atmVars, nextRun, rows, jobs, manual, restarts>>

(* Variant: the verdict is the last macro's.                               *)
SuiteMacroEnds_Last(r) ==
    LET j == runner[r] IN
    /\ InSuite(j) /\ j.pc = "step" /\ j.steps = <<>>
    /\ rows' = [rows EXCEPT ![j.row].results = Append(@, j.status)]
    /\ GoOn(r, [j EXCEPT !.overall = j.status, !.i = @ + 1,
                              !.pc = Onward(j.suite, j.i + 1)])
    /\ UNCHANGED <<planVars, queue, atmVars, nextRun, jobs, manual, restarts>>

(* The macro's run is attached to the suite's row; on to the next macro.   *)
(* A write of the run that fails counts as a failed macro.                 *)
SuiteMacroEnds(r) ==
    LET j == runner[r] IN
    /\ InSuite(j) /\ j.pc = "step" /\ j.steps = <<>>
    /\ \E status \in {j.status, "FAILED"} :
        /\ rows' = [rows EXCEPT ![j.row].results = Append(@, status)]
        /\ GoOn(r, [j EXCEPT !.overall = IF status # "PASSED" THEN "FAILED" ELSE @,
                                  !.i = @ + 1,
                                  !.pc = Onward(j.suite, j.i + 1)])
    /\ UNCHANGED <<planVars, queue, atmVars, nextRun, jobs, manual, restarts>>

(* The verdict is written; a write that fails leaves the row RUNNING.      *)
SuiteEnds(r) ==
    LET j == runner[r] IN
    /\ j.pc = "end"
    /\ rows' \in {[rows EXCEPT ![j.row].status = j.overall], rows}
    /\ jobs' = IF r = Worker THEN [jobs EXCEPT !.done = @ + 1] ELSE jobs
    /\ GoOn(r, Free)
    /\ UNCHANGED <<planVars, queue, atmVars, nextRun, manual, restarts>>

-----------------------------------------------------------------------------
Wanted == {s \in SuiteIds : suite[s].exists /\ suite[s].enabled /\ suite[s].cron # NoCron}
WantedJobs == {<<s, suite[s].cron>> : s \in Wanted}

(* syncRepeatables is called; without a queue it does nothing.             *)
BeginSync(r) ==
    IF inline THEN UNCHANGED <<sync, whole>>
    ELSE /\ sync' = [sync EXCEPT ![r] = Reading]
         /\ whole' = \A q \in Actors \ {r} : sync[q] = NoSync

Deleted == [exists |-> FALSE, enabled |-> FALSE, cron |-> NoCron]

(* What a request names, field by field, or leaves out.                    *)
NotNamed == "not named"
Named(x, old) == IF x = NotNamed THEN old ELSE x
Enabling == {"on", "off", NotNamed}

(* validateCron: an empty text clears the cron, and one that does not have *)
(* five fields is refused; five fields of any kind are taken.              *)
CronTexts == Crons \union {"", "malformed", NotNamed}
validateCron(v) == [ok |-> v # "malformed", cron |-> IF v = "" THEN NoCron ELSE v]

(* SuitesController: the row is created, changed or deleted, then synced.  *)
EditSuite(r, s, row) ==
    /\ Listening /\ runner[r] = Free /\ sync[r] = NoSync /\ Room
    /\ suite' = [suite EXCEPT ![s] = row]
    /\ edits' = edits + 1
    /\ BeginSync(r)
    /\ UNCHANGED <<repeatables, inline, down, queue, runner, atmVars, nextRun, rows, jobs, manual, restarts>>

(* create: enabled unless said otherwise, with no cron unless given one.   *)
CreateSuite(r, s, enabled, text) ==
    LET cron == validateCron(text) IN
    /\ ~ suite[s].exists /\ cron.ok
    /\ EditSuite(r, s, [exists |-> TRUE, enabled |-> Named(enabled, "on") = "on",
                        cron |-> Named(cron.cron, NoCron)])

(* update: what is not named stays.                                        *)
UpdateSuite(r, s, enabled, text) ==
    LET cron == validateCron(text) IN
    /\ suite[s].exists /\ cron.ok
    /\ EditSuite(r, s, [exists |-> TRUE, cron |-> Named(cron.cron, suite[s].cron),
                        enabled |-> IF enabled = NotNamed THEN suite[s].enabled
                                    ELSE enabled = "on"])

RemoveSuite(r, s) == suite[s].exists /\ EditSuite(r, s, Deleted)

syncUnchanged == <<suite, edits, inline, queue, runner, atmVars, nextRun, rows, jobs, manual,
                   restarts>>

(* ... It reads the suites and the repeatable jobs ...                     *)
ReadPlan(r) ==
    /\ sync[r].pc = "read"
    /\ sync' = [sync EXCEPT ![r] = [pc |-> "apply", wanted |-> WantedJobs,
                                    stale |-> {x \in repeatables : x[1] \notin Wanted}]]
    /\ UNCHANGED <<repeatables, whole, down, syncUnchanged>>

(* ... removes one by one the jobs whose suite is not wanted ...           *)
RemoveStale(r) ==
    /\ sync[r].pc = "apply"
    /\ \E x \in sync[r].stale :
        /\ repeatables' = repeatables \ {x}
        /\ sync' = [sync EXCEPT ![r].stale = @ \ {x}]
    /\ UNCHANGED <<whole, down, syncUnchanged>>

(* Variant: a wanted job is passed over.                                   *)
AddWanted_Skips(r) ==
    /\ sync[r].pc = "apply" /\ sync[r].stale = {}
    /\ \E w \in sync[r].wanted : sync' = [sync EXCEPT ![r].wanted = @ \ {w}]
    /\ UNCHANGED <<repeatables, whole, down, syncUnchanged>>

(* ... and adds the wanted ones; a job with another pattern is another     *)
(* job, and queue.add takes no invalid one.                                *)
AddWanted(r) ==
    /\ sync[r].pc = "apply" /\ sync[r].stale = {}
    /\ \E w \in sync[r].wanted :
        /\ w[2] \notin Invalid
        /\ repeatables' = repeatables \union {w}
        /\ sync' = [sync EXCEPT ![r].wanted = @ \ {w}]
    /\ UNCHANGED <<whole, down, syncUnchanged>>

SyncEnds(r) ==
    /\ sync[r].pc = "apply" /\ sync[r].stale = {} /\ sync[r].wanted = {}
    /\ sync' = [sync EXCEPT ![r] = NoSync]
    /\ UNCHANGED <<repeatables, whole, down, syncUnchanged>>

(* A call of the queue is refused: nothing more is removed or added.  The  *)
(* request fails, its row changed ...                                      *)
SyncRejects(r) ==
    /\ r # Worker /\ sync[r] # NoSync
    /\ sync' = [sync EXCEPT ![r] = NoSync]
    /\ whole' = FALSE
    /\ UNCHANGED <<repeatables, down, syncUnchanged>>

(* The process is gone: the ATM is idle, and a job that was active is      *)
(* stalled and will come back.  Its row stays RUNNING.                     *)
Gone ==
    /\ runner' = [r \in Actors |-> Free]
    /\ queue' = IF runner[Worker] = Free THEN queue ELSE Append(queue, runner[Worker].suite)
    /\ session' = 0
    /\ UNCHANGED <<suite, repeatables, edits, inline, foreign, disturbed, nextRun, rows, jobs,
                   manual>>

(* ... and a server that boots exits.                                      *)
BootRejects ==
    /\ sync[Worker] # NoSync
    /\ Gone
    /\ sync' = [r \in Actors |-> NoSync]
    /\ whole' = FALSE /\ down' = TRUE
    /\ UNCHANGED restarts

Boot ==
    /\ restarts < MaxRestart
    /\ restarts' = restarts + 1
    /\ sync' = [r \in Actors |-> IF r = Worker /\ ~ inline THEN Reading ELSE NoSync]
    /\ whole' = TRUE /\ down' = FALSE

(* Variant: the job the worker was at is gone.                             *)
Restart_JobLost ==
    /\ Boot
    /\ runner' = [r \in Actors |-> Free]
    /\ session' = 0
    /\ UNCHANGED <<suite, repeatables, edits, inline, foreign, disturbed, queue, nextRun, rows,
                   jobs, manual>>

(* The server restarts: onModuleInit syncs.                                *)
Restart == Boot /\ Gone

SuiteStep(r) ==
    \/ SafeCancel(r)
    \/ BeginMacro(r)
    \/ StepPasses(r)
    \/ StepFails(r)
    \/ SuiteMacroEnds(r)
    \/ SuiteEnds(r)

WorkerStep == RunSuite \/ SuiteStep(Worker)

Next ==
    \/ \E s \in SuiteIds : RunNow(s) \/ JobDue(s)
    \/ WorkerStep
    \/ \E r \in Consoles :
        \/ \E m \in DOMAIN Steps : RunFromConsole(r, m)
        \/ \E s \in SuiteIds : RunInline(r, s)
        \/ SuiteStep(r)
        \/ ConsoleMacroEnds(r)
        \/ \E s \in SuiteIds, e \in Enabling, c \in CronTexts :
            CreateSuite(r, s, e, c) \/ UpdateSuite(r, s, e, c)
        \/ \E s \in SuiteIds : RemoveSuite(r, s)
        \/ SyncRejects(r)
    \/ \E r \in Actors : ReadPlan(r) \/ RemoveStale(r) \/ AddWanted(r) \/ SyncEnds(r)
    \/ IdleTimeout
    \/ BootRejects
    \/ Restart

Spec == Init /\ [][Next]_vars

(* The worker goes on with its suite: every step of a macro returns or     *)
(* times out (the PIN pad's entry after 60 s, its arming after 2 s).       *)
LiveSpec == Spec /\ WF_vars(WorkerStep)

-----------------------------------------------------------------------------
(* The verdict of a suite that is over is PASSED exactly when every one of *)
(* its macros ran and PASSED, whatever runs beside it and whichever write  *)
(* fails.                                                                  *)
VerdictIsRight ==
    \A n \in DOMAIN rows :
        rows[n].status # "RUNNING" =>
            /\ Len(rows[n].results) = Len(MacroIds[rows[n].suite])
            /\ rows[n].status = "PASSED" <=>
                  \A i \in DOMAIN rows[n].results : rows[n].results[i] = "PASSED"

(* "Each macro is given a clean slate": unless runs overlap or a cancel    *)
(* fails, no step of a suite ever acts on the session of another macro,    *)
(* even when the one before ended in the middle of its session.           *)
CleanSlate == ~ disturbed => ~ foreign

(* Every suite that was enqueued is run to its end, restarts included,     *)
(* unless the server does not come up because its first sync is refused.   *)
EveryJobEnds == \A n \in 1 .. MaxRequest : (jobs.added >= n) ~> (jobs.done >= n \/ down)

(***************************************************************************)
(* After a sync that nothing came between, each enabled suite with a cron  *)
(* has a repeatable job of that pattern and no other suite has one, also   *)
(* after a restart in the middle of an earlier sync, and whatever mess     *)
(* overlapping or refused syncs had left before.                           *)
(***************************************************************************)
SchedulesMatch ==
    whole /\ ~ inline /\ (\A r \in Actors : sync[r] = NoSync) =>
        /\ WantedJobs \subseteq repeatables
        /\ \A x \in repeatables : x[1] \in Wanted
=============================================================================
