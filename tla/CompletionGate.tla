---------------------------- MODULE CompletionGate ----------------------------
(***************************************************************************)
(* What a turn must have to show before its answer is a completed task:    *)
(* validate_completion (orchestrator/validator.py) is asked three times, by*)
(* the loop before it takes an answer (with the session's ledger), by      *)
(* _finalize_completed_answer, and by complete() of the orchestrator.      *)
(*                                                                         *)
(* A tool record keeps what the gate looks at: the kind of tool, whether it*)
(* reported success, a command's exit code, what the command is, and files:*)
(* those an edit names, a look is at, or git shows as changed.  What a call*)
(* does to the files is another matter: an edit that is refused or has     *)
(* nothing to change reports success, one that raises after its write does *)
(* not, and commands write too.  A report keeps what its wording claims.   *)
(* What else the loop asks of an answer is module RoundLoop.               *)
(***************************************************************************)
EXTENDS Naturals, Sequences

CONSTANTS
    Paths, Docs,        \* files, and those that are prose
    Tasks,              \* the turns that are judged
    MaxRecords,         \* bound on the calls of a turn
    MaxRetries          \* MAX_COMPLETION_EVIDENCE_RETRIES

Tools   == {"edit", "look", "search", "command", "other"}
Traits  == {"delivery", "restart", "probe", "commit", "deploy", "git"}   \* of a command
Claims  == {"change", "restart", "live", "inspection"}
Entries == [tool : Tools, ok : BOOLEAN,
            clean : BOOLEAN,           \* the exit code is 0, or there is none (yet)
            traits : SUBSET Traits, paths : SUBSET Paths]
Reports == [claims : SUBSET Claims, noChange : {"no", "terse", "strict"}, empty : BOOLEAN,
            paths : SUBSET Paths,      \* next to a claimed change
            named : SUBSET Paths]      \* anywhere

\* A task's profile, its wording and its workspace's instructions.
TaskType == [edits : BOOLEAN, git : BOOLEAN, research : BOOLEAN, audit : BOOLEAN,
             tools : BOOLEAN, validation : BOOLEAN, offered : BOOLEAN, asked : BOOLEAN,
             absolute : BOOLEAN, readOnly : BOOLEAN, resumed : BOOLEAN,
             deploy : BOOLEAN, outputs : SUBSET Paths]

GateAssumption == Docs \subseteq Paths /\ Tasks \subseteq TaskType /\ MaxRecords \in Nat /\ MaxRetries \in Nat

VARIABLES
    task, stage, outcome,
    readOnly,           \* turn_read_only
    records,            \* tool_records of this run, with those that are restored to it
    ledger,             \* files in modified_files of the session, not reverted
    mutated,            \* any_mutation
    retries, rerouted,  \* completion_evidence_retries, tool_evidence_route_retries
    draft,              \* the answer under judgement
    checked,            \* it has passed the loop's own look
    before,             \* history: the ledger that a resumed turn goes on from
    changed,            \* history: files that the calls have written
    hollow, git,        \* history: files that an edit named and did not write; shown by git
    red                 \* history: the last check failed

evidence == <<records, ledger, mutated, before, changed, hollow, git, red>>
gateVars == <<task, stage, outcome, readOnly, evidence, retries, rerouted, draft, checked>>

NoDraft == [claims |-> {}, noChange |-> "no", empty |-> TRUE, paths |-> {}, named |-> {}]

-----------------------------------------------------------------------------
(* The evidence.  prior: the ledger's files, where they are merged in.     *)

Done(tools) == {i \in DOMAIN records : records[i].tool \in tools /\ records[i].ok}
Clean       == {i \in Done({"command"}) : records[i].clean}
Ran(trait)  == \E i \in Clean : trait \in records[i].traits
CommandCalls == {i \in DOMAIN records : records[i].tool = "command"}
Checks == {i \in CommandCalls : "delivery" \notin records[i].traits}
LastFailed(some) == \E i \in some : i \notin Clean /\ \A j \in some : j <= i

Edited(prior)  == prior \cup UNION {records[i].paths : i \in Done({"edit"})}
ShownByGit == UNION {records[i].paths : i \in {k \in Done({"command"}) : "git" \in records[k].traits}}
Changed(prior) == Edited(prior) \cup ShownByGit

\* verified_no_change_completion: nothing was attempted, and what was run is green.
NoChange(prior, report) ==
    /\ report.noChange # "no"
    /\ prior = {} /\ \A i \in DOMAIN records : records[i].tool # "edit"
    /\ report.noChange = "terse" => "change" \notin report.claims /\ Clean # {}
    /\ Done({"command", "look"}) # {}
    /\ ~LastFailed(CommandCalls)

MustEdit(ro) == task.edits /\ ~ro

\* A change is validated by a command, prose by itself, an earlier run's by a look at it.
Validated(prior, ro) ==
    \/ Done({"command"} \cup (IF MustEdit(ro) THEN {} ELSE {"look"})) # {}
    \/ /\ MustEdit(ro)
       /\ \/ Edited(prior) # {} /\ Edited(prior) \subseteq Docs
          \/ \E i \in Done({"look"}) : records[i].paths \cap prior # {}

LatestRed(ro) == task.validation /\ (MustEdit(ro) \/ task.git) /\ LastFailed(Checks)

Nothing(prior) == prior = {} /\ Done(Tools) = {}
Required(prior, ro, report) == mutated \/ NoChange(prior, report) \/ Changed(prior) # {}

(* The names of the checks that fail.  missing: outputs that the objective *)
(* asks for and that are absent or empty when they are looked for.         *)
Failing(prior, ro, report, missing) ==
    {check \in {"evidence", "change", "paths", "restart", "live", "authorship", "research", "mutation",
                "deploy", "outputs", "latest", "validated", "report"} :
        \/ check = "evidence" /\ task.tools /\ Nothing(prior)
        \/ check = "change" /\ "change" \in report.claims /\ ~(mutated /\ Changed(prior) # {})
        \/ check = "paths" /\ "change" \in report.claims /\ ~(report.paths \subseteq Changed(prior))
        \/ check = "restart" /\ "restart" \in report.claims /\ ~Ran("restart")
        \/ check = "live" /\ "live" \in report.claims /\ ~Ran("probe")
        \/ check = "authorship" /\ Ran("commit") /\ ~(report.named \subseteq Changed(prior))
        \/ check = "research" /\ task.research /\ Done({"search"}) = {}
        \/ check = "mutation" /\ MustEdit(ro) /\ ~Required(prior, ro, report)
        \/ /\ check = "deploy" /\ MustEdit(ro) /\ Required(prior, ro, report)
           /\ ~NoChange(prior, report) /\ task.deploy /\ ~Ran("deploy")
        \/ check = "outputs" /\ MustEdit(ro) /\ missing # {}
        \/ check = "latest" /\ LatestRed(ro)
        \/ check = "validated" /\ task.validation /\ (LatestRed(ro) \/ ~Validated(prior, ro))
        \/ check = "report" /\ report.empty}

IsError(failing, prior, ro, report) ==
    /\ failing # {}
    /\ \/ failing \cap {"latest", "authorship", "deploy", "research"} # {}
       \/ MustEdit(ro) /\ ~mutated /\ ~NoChange(prior, report)
       \/ "evidence" \in failing /\ "inspection" \in report.claims
       \/ report.claims \cap {"change", "restart", "live"} # {}

-----------------------------------------------------------------------------
(* How a turn starts.  A resumed one has records restored to it, those of  *)
(* its checkpoint and then older ones that succeeded, and goes on from the *)
(* changes that the ledger has.                                            *)
GateInit ==
    /\ task \in Tasks /\ readOnly = task.readOnly
    /\ stage = "work" /\ outcome = "none"
    /\ records \in IF task.resumed THEN UNION {[1 .. n -> Entries] : n \in 0 .. MaxRecords} ELSE {<<>>}
    /\ ledger \in SUBSET Paths /\ before = IF task.resumed THEN ledger ELSE {}
    /\ mutated = (Done({"edit"}) # {} \/ before # {})
    /\ retries = 0 /\ rerouted = FALSE
    /\ draft = NoDraft /\ checked = FALSE
    /\ changed \in SUBSET Paths /\ hollow = Edited({}) \ changed /\ git = ShownByGit
    /\ red = LastFailed(Checks)

(* A tool call of the turn, and the files it writes.  An edit that a       *)
(* read-only turn asks for is refused and leaves no record; a written file *)
(* reaches the ledger unless it is an archive's, or reads back differently.*)
Call(entry, written) ==
    /\ stage = "work" /\ Len(records) < MaxRecords
    /\ entry.tool # "command" => entry.traits = {} /\ entry.clean
    /\ entry.tool \in {"search", "other"} => entry.paths = {}
    /\ entry.tool = "command" /\ "git" \notin entry.traits => entry.paths = {}
    /\ entry.tool = "edit" => ~readOnly
    /\ entry.tool \in {"look", "search"} => written = {}
    /\ records' = Append(records, entry)
    /\ mutated' = (mutated \/ (entry.tool = "edit" /\ entry.ok))
    /\ ledger' \in {ledger, IF entry.tool = "edit" THEN ledger \cup (written \cap entry.paths) ELSE ledger}
    /\ changed' = changed \cup written
    /\ hollow' = IF entry.tool = "edit" /\ entry.ok THEN hollow \cup (entry.paths \ written) ELSE hollow
    /\ git' = IF entry.ok /\ "git" \in entry.traits THEN git \cup entry.paths ELSE git
    /\ red' = IF entry.tool = "command" /\ "delivery" \notin entry.traits
              THEN ~(entry.ok /\ entry.clean) ELSE red
    /\ UNCHANGED <<task, stage, outcome, before, readOnly, retries, rerouted, draft, checked>>

\* A read-only turn was misjudged, and its objective asks for action.
Escalate ==
    /\ stage = "work" /\ readOnly /\ ~task.absolute
    /\ readOnly' = FALSE
    /\ UNCHANGED <<task, stage, outcome, evidence, retries, rerouted, draft, checked>>

(* The loop looks at an answer, with the files of the ledger; what the     *)
(* user asked for counts whatever the profile is.                          *)
OnlyAdvice(report) ==
    /\ task.offered /\ task.asked /\ ~readOnly /\ ~mutated
    /\ ~NoChange(ledger, report) /\ Changed(ledger) = {}

Answer(report) ==
    /\ stage = "work"
    /\ \E missing \in SUBSET task.outputs :
       LET failing == Failing(ledger, readOnly, report, missing)
           error   == IsError(failing, ledger, readOnly, report) \/ OnlyAdvice(report)
       IN  \/ /\ task.offered /\ error /\ retries < MaxRetries
              /\ retries' = retries + 1
              /\ UNCHANGED <<stage, outcome, draft, checked>>
           \/ /\ ~(task.offered /\ error /\ retries < MaxRetries)
              /\ OnlyAdvice(report)
              /\ stage' = "done" /\ outcome' = "advice"
              /\ UNCHANGED <<retries, draft, checked>>
           \/ /\ ~(task.offered /\ error /\ retries < MaxRetries)
              /\ ~OnlyAdvice(report)
              /\ stage' = "judge" /\ draft' = report /\ checked' = ~error
              /\ UNCHANGED <<retries, outcome>>
    /\ UNCHANGED <<task, readOnly, evidence, rerouted>>

\* An answer written with tools disabled, or a summary of the records.
Recovered(report) ==
    /\ stage = "work"
    /\ stage' = "judge" /\ draft' = report /\ checked' = FALSE
    /\ UNCHANGED <<task, outcome, readOnly, evidence, retries, rerouted>>

Judge ==
    /\ stage = "judge"
    /\ \E missing \in SUBSET task.outputs :
       LET failing == Failing({}, readOnly, draft, missing)
           error   == IsError(failing, {}, readOnly, draft)
       IN  \/ stage' = "done" /\ outcome' = "stale" /\ UNCHANGED rerouted       \* an edit that never applied
           \/ /\ error /\ "evidence" \in failing /\ ~rerouted
              /\ rerouted' = TRUE /\ stage' = "work" /\ UNCHANGED outcome
           \/ error /\ stage' = "done" /\ outcome' = "unproven" /\ UNCHANGED rerouted
           \/ ~error /\ stage' \in {"work", "complete"} /\ UNCHANGED <<outcome, rerouted>>   \* a stop hook
    /\ UNCHANGED <<task, readOnly, evidence, retries, draft, checked>>

\* complete() does not say that the turn is read-only.
FinallyReadOnly == FALSE

CompleteTask ==
    /\ stage = "complete"
    /\ \E missing \in SUBSET task.outputs, pending \in IF task.audit THEN BOOLEAN ELSE {FALSE} :
         outcome' = IF Failing({}, FinallyReadOnly, draft, missing) = {} /\ ~pending
                         /\ (task.validation => ~Nothing({}))
                    THEN "completed" ELSE "refused"
    /\ stage' = "done"
    /\ UNCHANGED <<task, readOnly, evidence, retries, rerouted, draft, checked>>

GateNext ==
    \/ \E entry \in Entries, written \in SUBSET Paths : Call(entry, written)
    \/ Escalate
    \/ \E report \in Reports : Answer(report) \/ Recovered(report)
    \/ Judge \/ CompleteTask

GateSpec == GateInit /\ [][GateNext]_gateVars

-----------------------------------------------------------------------------
Completed == outcome = "completed"

(* "A later failed check must invalidate an earlier successful command":   *)
(* no completed change or delivery has a last check that failed; a push    *)
(* that failed afterwards does not count, and does not hide one.  Last is  *)
(* the order of the records; a check still in the background has not failed*)
RedIsNotCompleted == Completed /\ task.validation /\ (task.edits \/ task.git) => ~red

(* A completed report that says files were changed names only files that   *)
(* the turn wrote, that git showed, or that an edit named which reported   *)
(* success without a write; and it comes after an edit that reported       *)
(* success, or in a turn that goes on from a change, which git shows.      *)
ClaimsAreBacked ==
    Completed /\ "change" \in draft.claims =>
        /\ draft.paths \subseteq changed \cup hollow \cup git
        /\ Done({"edit"}) # {} \/ (before # {} /\ git # {})

(* "A brand-new task must still prove its own work": a fix that goes on    *)
(* from no earlier change is completed with an edit of its own that reports*)
(* success, with a change that git shows, or with the statement that none  *)
(* is needed, which no edit precedes and a look or a command does, the last*)
(* command having succeeded.  A read-only turn can only end in the latter. *)
NewFixProvesItsWork ==
    Completed /\ task.edits /\ before = {} =>
        \/ Done({"edit"}) # {} \/ git # {}
        \/ /\ draft.noChange # "no" /\ \A i \in DOMAIN records : records[i].tool # "edit"
           /\ Done({"command", "look"}) # {} /\ ~LastFailed(CommandCalls)

-----------------------------------------------------------------------------
(* What comments say and the code does not do; see the README.             *)

(* "Return paths written by successful mutation tools": an edit that was   *)
(* refused, or had nothing to change, is one that succeeded.               *)
SuccessWrites == Edited({}) \subseteq changed

(* "A fix/change request needs a real mutation, verified existing diff, or *)
(* evidence-backed no-change conclusion": a refused edit counts as one, and*)
(* so does, for a resumed turn, what is left of any earlier run's.         *)
FixIsReal ==
    Completed /\ task.edits =>
        changed # {} \/ git # {} \/ (draft.noChange # "no" /\ Done({"command", "look"}) # {})

(* "The effective runtime mode is authoritative; do not demand a mutation  *)
(* in read-only": complete() demands it.                                   *)
ReadOnlyNeedsNoChange ==
    outcome = "refused" /\ task.outputs = {} /\ ~task.audit => Failing({}, readOnly, draft, {}) # {}

(* "Preflight the exact deterministic validator": it is asked with the     *)
(* ledger's files, which the terminal validator does not have.             *)
PreflightIsExact ==
    stage = "judge" /\ checked /\ task.outputs = {} =>
        ~IsError(Failing({}, readOnly, draft, {}), {}, readOnly, draft)
=============================================================================
