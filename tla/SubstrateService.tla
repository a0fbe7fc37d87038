--------------------------- MODULE SubstrateService ---------------------------
(***************************************************************************)
(* The build service of .github/workflows/build-substrate.yml as the       *)
(* requesters see it: issues and their labels, the workflow runs these     *)
(* trigger, the rolling `substrates` release and the comments of the bot.  *)
(* What happens inside a build is the subject of SubstratePipeline; here   *)
(* it succeeds or fails.                                                   *)
(*                                                                         *)
(* External, as the workflow relies on them: GitHub runs at most one run   *)
(* of a concurrency group and keeps at most one more pending, a newer one  *)
(* replacing it; a job over its time is cancelled, which failure() is not; *)
(* publishing an asset deletes the one of that name, then uploads; each    *)
(* call of GitHub's API may fail.                                          *)
(***************************************************************************)
EXTENDS Naturals, Sequences, FiniteSets

CONSTANTS
    Issues,       \* issues
    Requests,     \* those that carry `substrate-request`
    NoIssue,      \* the issue of a manual run
    Names, Ids,   \* what the form's ROM and build fields can say
    Slug,         \* <<name, id>> -> the tag the parse step makes of them
    MaxRuns       \* bound: the runs there can be

Roms == Names \X Ids

ASSUME ServiceAssumption ==
    /\ Requests \subseteq Issues /\ NoIssue \notin Issues
    /\ DOMAIN Slug = Roms
    /\ MaxRuns \in Nat

Tags == {Slug[r] : r \in Roms}
NoRun == 0        \* the release has no asset of that tag

VARIABLES
    body,         \* issue -> the ROM its form names (it can be edited)
    open,         \* issue -> is it open?
    runs,         \* the workflow runs, in the order of their events
    assets,       \* tag -> the run whose substrate the release has under it
    posted        \* the bot's comments: what, and of which run
vars == <<body, open, runs, assets, posted>>

\* The steps of a job in order; a failed one ends in "fail", the report.
Active == {"parse", "ack", "build", "delete", "upload", "report", "close", "fail"}
Over == {"done", "failed", "mute", "timed out", "cancelled", "skipped"}

Run == [issue : Issues \cup {NoIssue}, label : {"build", "other"},
        rom : Roms, at : Active \cup Over \cup {"pending"}]
Comment == [kind : {"started", "done", "failed"}, run : 1 .. MaxRuns]

TypeOK ==
    /\ body \in [Issues -> Roms]
    /\ open \in [Issues -> BOOLEAN]
    /\ runs \in Seq(Run) /\ Len(runs) <= MaxRuns
    /\ assets \in [Tags -> {NoRun} \cup DOMAIN runs]
    /\ posted \subseteq Comment

Init ==
    /\ body \in [Issues -> Roms]
    /\ open = [n \in Issues |-> TRUE]
    /\ runs = << >>
    /\ assets = [t \in Tags |-> NoRun]
    /\ posted = {}

-----------------------------------------------------------------------------
(* Events and GitHub's scheduling of the runs they trigger.                *)

\* The concurrency group: the issue, or the run itself for a manual one.
SameGroup(j, k) == j = k \/ (runs[j].issue = runs[k].issue /\ runs[k].issue # NoIssue)

\* Mutant: a group per run, as without the `concurrency` key.
Busy_Ungrouped(n) == FALSE

\* Some run of the group of issue n is under way or pending.
Busy(n) ==
    n # NoIssue /\ \E k \in DOMAIN runs :
        runs[k].issue = n /\ runs[k].at \in Active \cup {"pending"}

\* The job's `if`.
Wanted(run) ==
    run.issue = NoIssue \/ (run.label = "build" /\ run.issue \in Requests)

FirstStep(run) == IF Wanted(run) THEN "parse" ELSE "skipped"

\* A new run starts, or waits and takes the place of the one that waited.
Trigger(n, label, rom) ==
    LET run == [issue |-> n, label |-> label, rom |-> rom, at |-> "pending"]
        old == [k \in DOMAIN runs |->
                    IF runs[k].issue = n /\ runs[k].at = "pending"
                    THEN [runs[k] EXCEPT !.at = "cancelled"] ELSE runs[k]]
    IN  /\ Len(runs) < MaxRuns
        /\ runs' = IF Busy(n) THEN Append(old, run)
                   ELSE Append(runs, [run EXCEPT !.at = FirstStep(run)])

\* A label is added to an issue; the event carries the issue's body.
Labelled ==
    /\ \E n \in Issues, label \in {"build", "other"} : Trigger(n, label, body[n])
    /\ UNCHANGED <<body, open, assets, posted>>

\* A maintainer runs the workflow by hand and types the tag, which is taken as
\* it is: the model trusts them with the one the form would have given.
Dispatch ==
    /\ \E rom \in Roms : Trigger(NoIssue, "other", rom)
    /\ UNCHANGED <<body, open, assets, posted>>

\* The requester corrects the form.
Edit ==
    /\ \E n \in Issues, rom \in Roms : body' = [body EXCEPT ![n] = rom]
    /\ UNCHANGED <<open, runs, assets, posted>>

\* The run that waited gets its turn.
Begin(k) ==
    /\ runs[k].at = "pending"
    /\ \A j \in DOMAIN runs : SameGroup(j, k) => runs[j].at \notin Active
    /\ runs' = [runs EXCEPT ![k].at = FirstStep(runs[k])]
    /\ UNCHANGED <<body, open, assets, posted>>

-----------------------------------------------------------------------------
(* The job of run k.                                                       *)

Tag(rom) == Slug[rom]
HasIssue(k) == runs[k].issue # NoIssue

Go(k, from, to) ==
    /\ runs[k].at = from
    /\ runs' = [runs EXCEPT ![k].at = to]

Post(k, kind) == posted' = posted \cup {[kind |-> kind, run |-> k]}

Parse(k) ==
    /\ Go(k, "parse", IF HasIssue(k) THEN "ack" ELSE "build")
    /\ UNCHANGED <<body, open, assets, posted>>

Ack(k) ==
    /\ Go(k, "ack", "build")
    /\ Post(k, "started")
    /\ UNCHANGED <<body, open, assets>>

\* Tools, download, extraction, donor, build, validation and compression.
Build(k) ==
    /\ Go(k, "build", "delete")
    /\ UNCHANGED <<body, open, assets, posted>>

\* Publish, first half: an asset of that name is deleted.
DeleteAsset(k) ==
    /\ Go(k, "delete", "upload")
    /\ assets' = [assets EXCEPT ![Tag(runs[k].rom)] = NoRun]
    /\ UNCHANGED <<body, open, posted>>

\* Second half: it is uploaded, which fails if the name is taken again.
Upload(k) ==
    /\ assets[Tag(runs[k].rom)] = NoRun
    /\ Go(k, "upload", IF HasIssue(k) THEN "report" ELSE "done")
    /\ assets' = [assets EXCEPT ![Tag(runs[k].rom)] = k]
    /\ UNCHANGED <<body, open, posted>>

ReportDone(k) ==
    /\ Go(k, "report", "close")
    /\ Post(k, "done")
    /\ UNCHANGED <<body, open, assets>>

CloseIssue(k) ==
    /\ Go(k, "close", "done")
    /\ open' = [open EXCEPT ![runs[k].issue] = FALSE]
    /\ UNCHANGED <<body, assets, posted>>

\* Mutant: a failed publish is reported as a success.
StepFails_Ignored(k) ==
    /\ runs[k].at \in Active \ {"fail"}
    /\ runs' = [runs EXCEPT ![k].at = IF @ = "upload" /\ HasIssue(k) THEN "report" ELSE "fail"]
    /\ UNCHANGED <<body, open, assets, posted>>

\* A step fails: a bad URL, a build that does not validate, an API error, an
\* asset name that is taken.  The steps between are skipped.
StepFails(k) ==
    /\ runs[k].at \in Active \ {"fail"}
    /\ runs' = [runs EXCEPT ![k].at = "fail"]
    /\ UNCHANGED <<body, open, assets, posted>>

\* Mutant: no step reports a failure.
ReportFailure_Missing(k) ==
    /\ Go(k, "fail", "failed")
    /\ UNCHANGED <<body, open, assets, posted>>

\* `failure() && issue != ''`; without the issue's number, or when the API
\* refuses the comment, the run ends without a word.
ReportFailure(k) ==
    /\ \/ HasIssue(k) /\ Go(k, "fail", "failed") /\ Post(k, "failed")
       \/ Go(k, "fail", "mute") /\ posted' = posted
    /\ UNCHANGED <<body, open, assets>>

\* 45 minutes are over, or somebody cancels: no step runs any more.
TimeOut(k) ==
    /\ runs[k].at \in Active
    /\ runs' = [runs EXCEPT ![k].at = "timed out"]
    /\ UNCHANGED <<body, open, assets, posted>>

Job(k) ==
    \/ Parse(k) \/ Ack(k) \/ Build(k) \/ DeleteAsset(k) \/ Upload(k)
    \/ ReportDone(k) \/ CloseIssue(k) \/ ReportFailure(k) \/ StepFails(k)

RunSteps == \E k \in DOMAIN runs : Begin(k) \/ Job(k) \/ TimeOut(k)

Next == Labelled \/ Dispatch \/ Edit \/ RunSteps

\* GitHub gives every run its turn and its steps a runner; people may or may
\* not ask for anything.
Fairness ==
    \A k \in 1 .. MaxRuns :
        WF_vars(k \in DOMAIN runs /\ (Begin(k) \/ Job(k)))

Spec == Init /\ [][Next]_vars /\ Fairness

-----------------------------------------------------------------------------
(* Properties.                                                             *)

\* Of two published runs of one issue for one tag, the release never ends up
\* with the older: the concurrency group (build-substrate.yml:22-24) keeps a
\* slow first build from overwriting the one the corrected request asked for.
NewestWins ==
    \A j, k \in DOMAIN runs :
        /\ j < k /\ HasIssue(j) /\ runs[j].issue = runs[k].issue
        /\ Tag(runs[j].rom) = Tag(runs[k].rom)
        /\ runs[k].at \in {"report", "close", "done"}
        => assets[Tag(runs[j].rom)] # j

\* The asset a "Done" comment names holds a substrate of the very ROM that was
\* asked for, unless another run of that tag has deleted it to replace it
\* (the Publish and Report steps).  The form: "It has to match one build
\* exactly."
DoneIsTrue ==
    \A c \in posted : c.kind = "done" =>
        LET rom == runs[c.run].rom
            held == assets[Slug[rom]]
        IN  \/ held # NoRun /\ runs[held].rom = rom
            \/ /\ held = NoRun
               /\ \E j \in DOMAIN runs \ {c.run} :
                     /\ Slug[runs[j].rom] = Slug[rom]
                     /\ runs[j].at \in {"upload", "fail", "failed", "mute", "timed out"}

\* Who was told "Build started" is told how it ended, unless the job ran out
\* of its time (which failure() does not see) or GitHub refused the comment.
Answered ==
    \A k \in 1 .. MaxRuns :
        [kind |-> "started", run |-> k] \in posted
            ~> \/ \E c \in posted : c.run = k /\ c.kind # "started"
               \/ k \in DOMAIN runs /\ runs[k].at \in {"mute", "timed out"}

\* build-substrate.yml:172 "one asset per build": the substrates of two
\* different ROMs that were requested by issue have assets of their own.
OneAssetPerBuild ==
    \A j, k \in {i \in DOMAIN runs : HasIssue(i)} :
        /\ runs[j].at = "done" /\ runs[k].at = "done"
        /\ runs[j].rom # runs[k].rom
        => Tag(runs[j].rom) # Tag(runs[k].rom)

\* docs/SUBSTRATE-SERVICE.md:12-13: a maintainer adds the `build` label and
\* build-substrate.yml runs.  The run of a `build` label may make way for
\* another of its issue that builds what the form says by then, or lose its
\* place because the ROM it is for is being built, or was, already; it is not
\* cancelled for a label that builds nothing.
LabelBuilds ==
    \A k \in DOMAIN runs :
        Wanted(runs[k]) /\ runs[k].at = "cancelled" =>
            \E j \in DOMAIN runs \ {k} :
                /\ runs[j].issue = runs[k].issue
                /\ Wanted(runs[j]) /\ runs[j].at # "cancelled"
                /\ j > k \/ runs[j].rom = runs[k].rom
=============================================================================
