----------------------- MODULE SubstrateService_proofs -----------------------
(***************************************************************************)
(* What the concurrency group and the order of a job's steps guarantee,    *)
(* for any number of issues, ROMs, runs and edits.                         *)
(***************************************************************************)
EXTENDS SubstrateService, TLAPS

Begun == {"parse", "ack", "build", "delete", "upload", "report"}
Published == {"report", "close", "done"}
\* Where a run that has deleted an asset and not uploaded its own can be.
Broken == {"upload", "fail", "failed", "mute", "timed out"}

\* The runs of an issue take their turns in the order of their events: behind
\* one that waits there is none, and behind one under way none has begun.
InTurn ==
    \A j, k \in DOMAIN runs :
        j < k /\ HasIssue(j) /\ runs[j].issue = runs[k].issue =>
            /\ runs[j].at # "pending"
            /\ runs[j].at \in Active => runs[k].at \in {"pending", "cancelled"}

\* An asset is the substrate of a run of that tag.
AssetsTagged ==
    \A t \in Tags : assets[t] # NoRun => Tag(runs[assets[t]].rom) = t

\* The tag of run r has its asset, or another run is about to replace it or
\* has failed to.
Held(r) ==
    \/ assets[Tag(runs[r].rom)] # NoRun
    \/ \E j \in DOMAIN runs \ {r} :
          Tag(runs[j].rom) = Tag(runs[r].rom) /\ runs[j].at \in Broken

\* Only a run that has published says "Done", and its asset is held since.
SaysDone(r) == [kind |-> "done", run |-> r] \in posted
DoneHeld ==
    /\ \A c \in posted : c.run \in DOMAIN runs
    /\ \A r \in DOMAIN runs :
          /\ SaysDone(r) => runs[r].at \notin Begun \cup {"pending"}
          /\ runs[r].at = "report" \/ SaysDone(r) => Held(r)

IInv == TypeOK /\ InTurn /\ NewestWins /\ AssetsTagged /\ DoneHeld

-----------------------------------------------------------------------------
(* How a step changes the list of runs.                                    *)

LEMMA RunsType ==
    ASSUME TypeOK
    PROVE  /\ Len(runs) \in Nat /\ DOMAIN runs = 1 .. Len(runs)
           /\ \A j \in DOMAIN runs : runs[j] \in Run
BY DEF TypeOK

\* Run k is at v now, and nothing else has changed in the list.
Moved(k, v) ==
    /\ runs' \in Seq(Run) /\ Len(runs') = Len(runs) /\ DOMAIN runs' = DOMAIN runs
    /\ \A j \in DOMAIN runs :
          /\ runs'[j].issue = runs[j].issue /\ runs'[j].rom = runs[j].rom
          /\ runs'[j].at = IF j = k THEN v ELSE runs[j].at

LEMMA MovesOne ==
    ASSUME TypeOK, NEW k \in DOMAIN runs, NEW v \in Active \cup Over,
           runs' = [runs EXCEPT ![k].at = v]
    PROVE  Moved(k, v)
<1>1. runs \in [1 .. Len(runs) -> Run] /\ DOMAIN runs = 1 .. Len(runs) /\ Len(runs) \in Nat
  BY DEF TypeOK
<1>2. runs' = [runs EXCEPT ![k] = [runs[k] EXCEPT !.at = v]]
  BY <1>1
<1>3. [runs[k] EXCEPT !.at = v] \in Run
  BY <1>1 DEF Run
<1>4. runs' \in [1 .. Len(runs) -> Run]
  BY <1>1, <1>2, <1>3
<1>5. runs' \in Seq(Run) /\ Len(runs') = Len(runs)
  BY <1>1, <1>4
<1>6. \A j \in DOMAIN runs :
        runs'[j] = IF j = k THEN [runs[k] EXCEPT !.at = v] ELSE runs[j]
  BY <1>1, <1>2
<1>7. \A j \in DOMAIN runs :
        /\ runs'[j].issue = runs[j].issue /\ runs'[j].rom = runs[j].rom
        /\ runs'[j].at = IF j = k THEN v ELSE runs[j].at
  BY <1>1, <1>6 DEF Run
<1> QED  BY <1>1, <1>4, <1>5, <1>7 DEF Moved

\* A run of issue n is added; one that waited before it makes way.
Added(n) ==
    LET new == runs'[Len(runs) + 1]
    IN  /\ runs' \in Seq(Run) /\ Len(runs') = Len(runs) + 1 /\ Len(runs') <= MaxRuns
        /\ DOMAIN runs' = DOMAIN runs \cup {Len(runs) + 1}
        /\ \A j \in DOMAIN runs :
              /\ runs'[j].issue = runs[j].issue /\ runs'[j].rom = runs[j].rom
              /\ runs'[j].at = IF Busy(n) /\ runs[j].issue = n /\ runs[j].at = "pending"
                               THEN "cancelled" ELSE runs[j].at
        /\ new.issue = n
        /\ new.at \in IF Busy(n) THEN {"pending"} ELSE {"parse", "skipped"}

LEMMA TriggerAdds ==
    ASSUME TypeOK, NEW n \in Issues \cup {NoIssue}, NEW label \in {"build", "other"},
           NEW rom \in Roms, Trigger(n, label, rom)
    PROVE  Added(n)
<1> DEFINE run == [issue |-> n, label |-> label, rom |-> rom, at |-> "pending"]
           old == [k \in DOMAIN runs |->
                    IF runs[k].issue = n /\ runs[k].at = "pending"
                    THEN [runs[k] EXCEPT !.at = "cancelled"] ELSE runs[k]]
           first == [run EXCEPT !.at = FirstStep(run)]
<1>1. runs \in [1 .. Len(runs) -> Run] /\ DOMAIN runs = 1 .. Len(runs) /\ Len(runs) \in Nat
  BY DEF TypeOK
<1>2. run \in Run /\ first \in Run /\ first.issue = n /\ first.at \in {"parse", "skipped"}
  BY DEF Run, FirstStep, Active, Over
<1>3. old \in Seq(Run) /\ Len(old) = Len(runs) /\ DOMAIN old = DOMAIN runs
  <2>1. \A k \in DOMAIN runs : [runs[k] EXCEPT !.at = "cancelled"] \in Run
    BY <1>1 DEF Run, Over
  <2>2. old \in [1 .. Len(runs) -> Run]
    BY <1>1, <2>1
  <2> QED  BY <1>1, <2>2
<1>4. \A j \in DOMAIN runs :
        /\ old[j].issue = runs[j].issue /\ old[j].rom = runs[j].rom
        /\ old[j].at = IF runs[j].issue = n /\ runs[j].at = "pending"
                       THEN "cancelled" ELSE runs[j].at
  BY <1>1 DEF Run
<1>5. Len(runs) < MaxRuns
      /\ runs' = IF Busy(n) THEN Append(old, run) ELSE Append(runs, first)
  BY DEF Trigger
<1>6. Len(runs) + 1 <= MaxRuns
  BY <1>1, <1>5, ServiceAssumption
<1> HIDE DEF run, old, first
<1>7. CASE Busy(n)
  <2>1. /\ runs' \in Seq(Run) /\ Len(runs') = Len(runs) + 1
        /\ DOMAIN runs' = DOMAIN runs \cup {Len(runs) + 1}
        /\ \A j \in DOMAIN runs : runs'[j] = old[j]
        /\ runs'[Len(runs) + 1] = run
    BY <1>1, <1>2, <1>3, <1>5, <1>7
  <2>2. run.issue = n /\ run.at = "pending"
    BY DEF run
  <2> QED  BY <1>4, <1>6, <1>7, <2>1, <2>2 DEF Added
<1>8. CASE ~Busy(n)
  <2>1. /\ runs' \in Seq(Run) /\ Len(runs') = Len(runs) + 1
        /\ DOMAIN runs' = DOMAIN runs \cup {Len(runs) + 1}
        /\ \A j \in DOMAIN runs : runs'[j] = runs[j]
        /\ runs'[Len(runs) + 1] = first
    BY <1>1, <1>2, <1>5, <1>8
  <2> QED  BY <1>2, <1>6, <1>8, <2>1 DEF Added
<1> QED  BY <1>7, <1>8

\* What a step of the job of run k can do.
LEMMA JobMoves ==
    ASSUME TypeOK, NEW k \in DOMAIN runs, Job(k) \/ TimeOut(k)
    PROVE  /\ runs[k].at \in Active
           /\ \E v \in Active \cup Over : Moved(k, v)
<1>1. ASSUME NEW from, NEW to \in Active \cup Over, Go(k, from, to)
      PROVE  runs[k].at = from /\ Moved(k, to)
  BY <1>1, MovesOne DEF Go
<1>2. CASE Parse(k)
  BY <1>1, <1>2 DEF Parse, Active
<1>3. CASE Ack(k) \/ Build(k) \/ DeleteAsset(k)
  BY <1>1, <1>3 DEF Ack, Build, DeleteAsset, Active
<1>4. CASE Upload(k)
  BY <1>1, <1>4 DEF Upload, Active, Over
<1>5. CASE ReportDone(k) \/ CloseIssue(k)
  BY <1>1, <1>5 DEF ReportDone, CloseIssue, Active, Over
<1>6. CASE ReportFailure(k)
  BY <1>1, <1>6 DEF ReportFailure, Active, Over
<1>7. CASE StepFails(k) \/ TimeOut(k)
  BY <1>7, MovesOne DEF StepFails, TimeOut, Active, Over
<1> QED  BY <1>2, <1>3, <1>4, <1>5, <1>6, <1>7 DEF Job

-----------------------------------------------------------------------------
(* The turns of an issue's runs.                                           *)

LEMMA AddedInTurn ==
    ASSUME TypeOK, InTurn, NEW n \in Issues \cup {NoIssue}, Added(n)
    PROVE  InTurn'
<1>1. Len(runs) \in Nat /\ DOMAIN runs = 1 .. Len(runs)
  BY RunsType
<1> SUFFICES ASSUME NEW j \in DOMAIN runs', NEW k \in DOMAIN runs', j < k,
                    runs'[j].issue # NoIssue, runs'[j].issue = runs'[k].issue
             PROVE  /\ runs'[j].at # "pending"
                    /\ runs'[j].at \in Active => runs'[k].at \in {"pending", "cancelled"}
  BY DEF InTurn, HasIssue
<1>2. j \in DOMAIN runs /\ runs[j].issue = runs'[j].issue
  BY <1>1 DEF Added
<1>3. CASE k \in DOMAIN runs
  <2>1. runs[k].issue = runs[j].issue
    BY <1>2, <1>3 DEF Added
  <2>2. /\ runs[j].at # "pending"
        /\ runs[j].at \in Active => runs[k].at \in {"pending", "cancelled"}
    BY <1>2, <1>3, <2>1 DEF InTurn, HasIssue
  <2> QED  BY <1>2, <1>3, <2>2 DEF Added
<1>4. CASE k = Len(runs) + 1
  <2>1. runs[j].issue = n /\ n # NoIssue
    BY <1>2, <1>4 DEF Added
  <2>2. runs[j].at \in Active \cup {"pending"} => Busy(n)
    BY <1>2, <2>1 DEF Busy
  <2> QED  BY <1>2, <1>4, <2>1, <2>2 DEF Added, Active
<1> QED  BY <1>1, <1>3, <1>4 DEF Added

LEMMA BeginInTurn ==
    ASSUME TypeOK, InTurn, NEW k \in DOMAIN runs, Begin(k)
    PROVE  /\ Moved(k, FirstStep(runs[k]))
           /\ InTurn'
<1>1. FirstStep(runs[k]) \in Active \cup Over
  BY DEF FirstStep, Active, Over
<1>2. Moved(k, FirstStep(runs[k])) /\ FirstStep(runs[k]) # "pending"
  BY <1>1, MovesOne DEF Begin, FirstStep
<1>3. \A j \in DOMAIN runs : j < k /\ HasIssue(j) /\ runs[j].issue = runs[k].issue =>
                             runs[j].at \notin Active
  BY DEF Begin, SameGroup, HasIssue
<1>4. \A j \in DOMAIN runs : ~(k < j /\ HasIssue(k) /\ runs[k].issue = runs[j].issue)
  BY DEF Begin, InTurn
<1>5. InTurn'
  <2> SUFFICES ASSUME NEW j \in DOMAIN runs, NEW m \in DOMAIN runs, j < m,
                      runs[j].issue # NoIssue, runs[j].issue = runs[m].issue
               PROVE  /\ runs'[j].at # "pending"
                      /\ runs'[j].at \in Active => runs'[m].at \in {"pending", "cancelled"}
    BY <1>2 DEF InTurn, HasIssue, Moved
  <2>1. j # k
    BY <1>4 DEF HasIssue
  <2>2. runs'[j].at = runs[j].at
    BY <1>2, <2>1 DEF Moved
  <2>3. CASE m = k
    BY <1>3, <2>1, <2>2, <2>3 DEF HasIssue, InTurn
  <2>4. CASE m # k
    BY <1>2, <2>2, <2>4 DEF HasIssue, InTurn, Moved
  <2> QED  BY <2>3, <2>4
<1> QED  BY <1>2, <1>5

LEMMA JobInTurn ==
    ASSUME TypeOK, InTurn, NEW k \in DOMAIN runs, runs[k].at \in Active,
           NEW v \in Active \cup Over, Moved(k, v)
    PROVE  InTurn'
<1> SUFFICES ASSUME NEW j \in DOMAIN runs, NEW m \in DOMAIN runs, j < m,
                    runs[j].issue # NoIssue, runs[j].issue = runs[m].issue
             PROVE  /\ runs'[j].at # "pending"
                    /\ runs'[j].at \in Active => runs'[m].at \in {"pending", "cancelled"}
  BY DEF InTurn, HasIssue, Moved
<1>1. /\ runs[j].at # "pending"
      /\ runs[j].at \in Active => runs[m].at \in {"pending", "cancelled"}
  BY DEF InTurn, HasIssue
<1>2. v # "pending"
  BY DEF Active, Over
<1>3. j \in Nat /\ m \in Nat /\ j # m
  BY RunsType
<1>4. CASE j = k
  BY <1>1, <1>2, <1>3, <1>4 DEF Moved
<1>5. CASE m = k
  BY <1>1, <1>3, <1>5 DEF Moved, Active
<1>6. CASE j # k /\ m # k
  BY <1>1, <1>6 DEF Moved
<1> QED  BY <1>4, <1>5, <1>6

-----------------------------------------------------------------------------
(* Assets and comments.                                                    *)

AssetsInv == NewestWins /\ AssetsTagged /\ DoneHeld

LEMMA AssetsType ==
    ASSUME TypeOK
    PROVE  /\ \A k \in DOMAIN runs : Tag(runs[k].rom) \in Tags /\ k \in Nat \ {0}
           /\ DOMAIN assets = Tags
           /\ \A t \in Tags : assets[t] = NoRun \/ assets[t] \in DOMAIN runs
<1>1. \A k \in DOMAIN runs : runs[k].rom \in Roms /\ k \in Nat \ {0}
  BY RunsType DEF Run
<1> QED  BY <1>1 DEF TypeOK, Tags, Tag

LEMMA AddedAssets ==
    ASSUME TypeOK, AssetsInv, NEW n, Added(n), UNCHANGED <<assets, posted>>
    PROVE  AssetsInv'
<1> DEFINE new == Len(runs) + 1
<1>1. /\ DOMAIN runs = 1 .. Len(runs) /\ Len(runs) \in Nat
      /\ DOMAIN runs' = DOMAIN runs \cup {new} /\ new \notin DOMAIN runs
  BY RunsType DEF Added
<1>2. \A j \in DOMAIN runs :
        /\ runs'[j].issue = runs[j].issue /\ runs'[j].rom = runs[j].rom
        /\ \/ runs'[j].at = runs[j].at
           \/ runs[j].at = "pending" /\ runs'[j].at = "cancelled"
  BY DEF Added
<1>3. runs'[new].at \in {"pending", "parse", "skipped"}
  BY DEF Added
<1>4. NewestWins'
  <2> SUFFICES ASSUME NEW j \in DOMAIN runs', NEW k \in DOMAIN runs', j < k,
                      runs'[j].issue # NoIssue, runs'[j].issue = runs'[k].issue,
                      Tag(runs'[j].rom) = Tag(runs'[k].rom),
                      runs'[k].at \in {"report", "close", "done"}
               PROVE  assets[Tag(runs'[j].rom)] # j
    BY DEF NewestWins, HasIssue
  <2>1. k \in DOMAIN runs
    BY <1>1, <1>3
  <2>2. j \in DOMAIN runs
    BY <1>1, <2>1
  <2>3. runs[k].at \in {"report", "close", "done"}
    BY <1>2, <2>1
  <2> QED  BY <1>2, <2>1, <2>2, <2>3 DEF AssetsInv, NewestWins, HasIssue
<1>5. AssetsTagged'
  <2>1. \A t \in Tags : assets[t] # NoRun => assets[t] \in DOMAIN runs
    BY AssetsType
  <2> QED  BY <1>2, <2>1 DEF AssetsInv, AssetsTagged
<1>6. ASSUME NEW r \in DOMAIN runs, Held(r) PROVE Held(r)'
  <2>1. CASE assets[Tag(runs[r].rom)] # NoRun
    BY <1>2, <2>1 DEF Held
  <2>2. CASE \E j \in DOMAIN runs \ {r} :
                Tag(runs[j].rom) = Tag(runs[r].rom) /\ runs[j].at \in Broken
    <3>1. PICK j \in DOMAIN runs \ {r} :
             Tag(runs[j].rom) = Tag(runs[r].rom) /\ runs[j].at \in Broken
      BY <2>2
    <3>2. j \in DOMAIN runs' \ {r}
      BY <1>1
    <3>3. runs'[j].rom = runs[j].rom /\ runs'[r].rom = runs[r].rom
      BY <1>2
    <3>4. runs'[j].at = runs[j].at
      BY <1>2, <3>1 DEF Broken
    <3> QED  BY <3>1, <3>2, <3>3, <3>4 DEF Held
  <2> QED  BY <1>6, <2>1, <2>2 DEF Held
<1>7. DoneHeld'
  <2>1. \A c \in posted' : c.run \in DOMAIN runs /\ c.run \in DOMAIN runs'
    BY <1>1 DEF AssetsInv, DoneHeld
  <2>2. ASSUME NEW r, SaysDone(r)' PROVE r \in DOMAIN runs
    BY <2>1, <2>2 DEF SaysDone
  <2>3. ASSUME NEW r \in DOMAIN runs
        PROVE  /\ SaysDone(r)' => runs'[r].at \notin Begun \cup {"pending"}
               /\ runs'[r].at = "report" \/ SaysDone(r)' => Held(r)'
    BY <1>2, <1>6, <2>3 DEF AssetsInv, DoneHeld, SaysDone, Begun
  <2>4. ASSUME NEW r \in DOMAIN runs', r \notin DOMAIN runs
        PROVE  ~SaysDone(r)' /\ runs'[r].at # "report"
    <3>1. r = new
      BY <1>1, <2>4
    <3> QED  BY <1>3, <2>2, <2>4, <3>1
  <2> QED  BY <2>1, <2>3, <2>4 DEF DoneHeld
<1> QED  BY <1>4, <1>5, <1>7 DEF AssetsInv

\* A step that leaves the assets alone: no run publishes by it, and only one
\* that has published says "Done".
LEMMA QuietAssets ==
    ASSUME TypeOK, AssetsInv, NEW k \in DOMAIN runs, NEW v \in Active \cup Over, Moved(k, v),
           assets' = assets,
           v # "report", v \in Published => runs[k].at \in Published,
           runs[k].at \in Broken => v \in Broken,
           v \in Begun => runs[k].at \in Begun \cup {"pending"},
           posted \subseteq posted',
           \A c \in posted' \ posted :
              c.run = k /\ (c.kind = "done" => runs[k].at = "report" /\ v \notin Begun)
    PROVE  AssetsInv'
<1>1. DOMAIN runs' = DOMAIN runs
      /\ \A j \in DOMAIN runs :
          /\ runs'[j].issue = runs[j].issue /\ runs'[j].rom = runs[j].rom
          /\ runs'[j].at = IF j = k THEN v ELSE runs[j].at
  BY DEF Moved
<1>2. NewestWins'
  BY <1>1 DEF AssetsInv, NewestWins, HasIssue, Published
<1>3. AssetsTagged'
  <2>1. \A t \in Tags : assets[t] # NoRun => assets[t] \in DOMAIN runs
    BY AssetsType
  <2> QED  BY <1>1, <2>1 DEF AssetsInv, AssetsTagged
<1>4. \A r \in DOMAIN runs : Held(r) => Held(r)'
  BY <1>1 DEF Held
<1>5. \A r \in DOMAIN runs : SaysDone(r)' =>
          \/ SaysDone(r)
          \/ r = k /\ runs[k].at = "report" /\ v \notin Begun
  <2> SUFFICES ASSUME NEW r \in DOMAIN runs, SaysDone(r)', ~SaysDone(r)
               PROVE  r = k /\ runs[k].at = "report" /\ v \notin Begun
    OBVIOUS
  <2> DEFINE c == [kind |-> "done", run |-> r]
  <2>1. c \in posted' \ posted
    BY DEF SaysDone
  <2>2. c.kind = "done" /\ c.run = r
    OBVIOUS
  <2> QED  BY <2>1, <2>2
<1>6. v # "pending"
  BY DEF Active, Over
<1>7. DoneHeld'
  <2>1. \A c \in posted' : c.run \in DOMAIN runs'
    BY <1>1 DEF AssetsInv, DoneHeld
  <2>2. ASSUME NEW r \in DOMAIN runs
        PROVE  /\ SaysDone(r)' => runs'[r].at \notin Begun \cup {"pending"}
               /\ runs'[r].at = "report" \/ SaysDone(r)' => Held(r)'
    BY <1>1, <1>4, <1>5, <1>6, <2>2 DEF AssetsInv, DoneHeld
  <2> QED  BY <1>1, <2>1, <2>2 DEF DoneHeld
<1> QED  BY <1>2, <1>3, <1>7 DEF AssetsInv

\* While its asset is gone, the run that deleted it answers for the tag.
LEMMA DeleteAssets ==
    ASSUME TypeOK, AssetsInv, NEW k \in DOMAIN runs, DeleteAsset(k), Moved(k, "upload")
    PROVE  AssetsInv'
<1> DEFINE t == Tag(runs[k].rom)
<1>1. DOMAIN runs' = DOMAIN runs
      /\ \A j \in DOMAIN runs :
          /\ runs'[j].issue = runs[j].issue /\ runs'[j].rom = runs[j].rom
          /\ runs'[j].at = IF j = k THEN "upload" ELSE runs[j].at
  BY DEF Moved
<1>2. runs[k].at = "delete" /\ posted' = posted /\ assets' = [assets EXCEPT ![t] = NoRun]
  BY DEF DeleteAsset, Go
<1>3. \A u \in Tags : assets'[u] = IF u = t THEN NoRun ELSE assets[u]
  BY <1>2, AssetsType
<1>4. \A j \in DOMAIN runs : Tag(runs[j].rom) \in Tags /\ j # NoRun
  BY AssetsType DEF NoRun
<1>5. NewestWins'
  BY <1>1, <1>3, <1>4 DEF AssetsInv, NewestWins, HasIssue
<1>6. AssetsTagged'
  <2>1. \A u \in Tags : assets[u] # NoRun => assets[u] \in DOMAIN runs
    BY AssetsType
  <2> QED  BY <1>1, <1>3, <2>1 DEF AssetsInv, AssetsTagged
<1>7. ASSUME NEW r \in DOMAIN runs \ {k}, Held(r) PROVE Held(r)'
  <2>1. runs'[r].rom = runs[r].rom /\ runs'[k].rom = runs[k].rom
    BY <1>1
  <2>2. CASE Tag(runs[r].rom) = t
    <3>1. k \in DOMAIN runs' \ {r} /\ Tag(runs'[k].rom) = Tag(runs'[r].rom)
      BY <1>1, <2>1, <2>2
    <3>2. runs'[k].at \in Broken
      BY <1>1 DEF Broken
    <3> QED  BY <3>1, <3>2 DEF Held
  <2>3. CASE Tag(runs[r].rom) # t
    <3>1. assets'[Tag(runs[r].rom)] = assets[Tag(runs[r].rom)]
      BY <1>3, <1>4, <2>3
    <3>2. CASE assets[Tag(runs[r].rom)] # NoRun
      BY <2>1, <3>1, <3>2 DEF Held
    <3>3. CASE \E j \in DOMAIN runs \ {r} :
                  Tag(runs[j].rom) = Tag(runs[r].rom) /\ runs[j].at \in Broken
      <4>1. PICK j \in DOMAIN runs \ {r} :
               Tag(runs[j].rom) = Tag(runs[r].rom) /\ runs[j].at \in Broken
        BY <3>3
      <4>2. j # k /\ j \in DOMAIN runs' \ {r}
        BY <1>1, <2>3, <4>1
      <4>3. runs'[j].rom = runs[j].rom /\ runs'[j].at = runs[j].at
        BY <1>1, <4>2
      <4> QED  BY <2>1, <4>1, <4>2, <4>3 DEF Held
    <3> QED  BY <1>7, <3>2, <3>3 DEF Held
  <2> QED  BY <2>2, <2>3
<1>8. DoneHeld'
  BY <1>1, <1>2, <1>7 DEF AssetsInv, DoneHeld, SaysDone, Begun
<1> QED  BY <1>5, <1>6, <1>8 DEF AssetsInv

\* The newer runs of the issue have not begun when a run publishes.
LEMMA UploadAssets ==
    ASSUME TypeOK, InTurn, AssetsInv, NEW k \in DOMAIN runs, Upload(k),
           NEW v \in {"report", "done"}, Moved(k, v)
    PROVE  AssetsInv'
<1> DEFINE t == Tag(runs[k].rom)
<1>1. DOMAIN runs' = DOMAIN runs
      /\ \A j \in DOMAIN runs :
          /\ runs'[j].issue = runs[j].issue /\ runs'[j].rom = runs[j].rom
          /\ runs'[j].at = IF j = k THEN v ELSE runs[j].at
  BY DEF Moved
<1>2. runs[k].at = "upload" /\ posted' = posted /\ assets' = [assets EXCEPT ![t] = k]
  BY DEF Upload, Go
<1>3. \A u \in Tags : assets'[u] = IF u = t THEN k ELSE assets[u]
  BY <1>2, AssetsType
<1>4. \A j \in DOMAIN runs : Tag(runs[j].rom) \in Tags /\ j \in Nat /\ j # NoRun
  BY AssetsType DEF NoRun
<1>5. NewestWins'
  <2> SUFFICES ASSUME NEW j \in DOMAIN runs, NEW m \in DOMAIN runs, j < m,
                      runs[j].issue # NoIssue, runs[j].issue = runs[m].issue,
                      Tag(runs[j].rom) = Tag(runs[m].rom),
                      runs'[m].at \in {"report", "close", "done"},
                      assets'[Tag(runs[j].rom)] = j
               PROVE  FALSE
    BY <1>1 DEF NewestWins, HasIssue
  <2>1. CASE Tag(runs[j].rom) = t
    <3>1. j = k /\ m # k
      BY <1>3, <1>4, <2>1
    <3>2. runs[m].at \in {"pending", "cancelled"}
      BY <1>2, <3>1 DEF InTurn, HasIssue, Active
    <3> QED  BY <1>1, <3>1, <3>2
  <2>2. CASE Tag(runs[j].rom) # t
    <3>1. runs[m].at = runs'[m].at /\ assets[Tag(runs[j].rom)] = j
      BY <1>1, <1>3, <1>4, <2>2
    <3> QED  BY <3>1 DEF AssetsInv, NewestWins, HasIssue
  <2> QED  BY <2>1, <2>2
<1>6. AssetsTagged'
  <2>1. \A u \in Tags : assets[u] # NoRun => assets[u] \in DOMAIN runs
    BY AssetsType
  <2> QED  BY <1>1, <1>3, <2>1 DEF AssetsInv, AssetsTagged
<1>7. \A r \in DOMAIN runs : Tag(runs[r].rom) = t => Held(r)'
  BY <1>1, <1>3, <1>4 DEF Held
<1>8. \A r \in DOMAIN runs : Tag(runs[r].rom) # t /\ Held(r) => Held(r)'
  BY <1>1, <1>3, <1>4 DEF Held
<1>9. DoneHeld'
  BY <1>1, <1>2, <1>7, <1>8 DEF AssetsInv, DoneHeld, SaysDone, Begun
<1> QED  BY <1>5, <1>6, <1>9 DEF AssetsInv

-----------------------------------------------------------------------------
(* The inductive invariant.                                                *)

LEMMA InitIInv == Init => IInv
<1> SUFFICES ASSUME Init PROVE IInv
  OBVIOUS
<1>1. Len(runs) = 0 /\ DOMAIN runs = {} /\ runs \in Seq(Run)
  BY DEF Init
<1>2. TypeOK
  BY <1>1, ServiceAssumption DEF Init, TypeOK
<1> QED
  BY <1>1, <1>2 DEF Init, IInv, InTurn, NewestWins, AssetsTagged, DoneHeld

LEMMA MovedType ==
    ASSUME TypeOK, NEW k \in DOMAIN runs, NEW v, Moved(k, v),
           body' = body,
           open' = open \/ open' = [open EXCEPT ![runs[k].issue] = FALSE],
           \/ assets' = assets
           \/ \E a \in {NoRun, k} : assets' = [assets EXCEPT ![Tag(runs[k].rom)] = a],
           posted' = posted \/ \E kind \in {"started", "done", "failed"} : Post(k, kind)
    PROVE  TypeOK'
<1>1. runs' \in Seq(Run) /\ Len(runs') = Len(runs) /\ DOMAIN runs' = DOMAIN runs
  BY DEF Moved
<1>2. assets' \in [Tags -> {NoRun} \cup DOMAIN runs']
  BY <1>1 DEF TypeOK
<1>3. posted' \subseteq Comment
  <2>1. k \in 1 .. MaxRuns
    BY RunsType, ServiceAssumption DEF TypeOK
  <2> QED  BY <2>1 DEF TypeOK, Post, Comment
<1>4. open' \in [Issues -> BOOLEAN]
  BY DEF TypeOK
<1> QED  BY <1>1, <1>2, <1>3, <1>4 DEF TypeOK

LEMMA TriggerKeeps ==
    ASSUME IInv, Labelled \/ Dispatch
    PROVE  IInv'
<1>1. PICK n \in Issues \cup {NoIssue}, label \in {"build", "other"}, rom \in Roms :
          Trigger(n, label, rom)
  BY DEF Labelled, Dispatch, IInv, TypeOK
<1>2. Added(n)
  BY <1>1, TriggerAdds DEF IInv
<1>3. UNCHANGED <<body, open, assets, posted>>
  BY DEF Labelled, Dispatch
<1>4. TypeOK'
  BY <1>2, <1>3 DEF IInv, TypeOK, Added
<1>5. InTurn'
  BY <1>2, AddedInTurn DEF IInv
<1>6. AssetsInv'
  BY <1>2, <1>3, AddedAssets DEF IInv, AssetsInv
<1> QED  BY <1>4, <1>5, <1>6 DEF IInv, AssetsInv

LEMMA BeginKeeps ==
    ASSUME IInv, NEW k \in DOMAIN runs, Begin(k)
    PROVE  IInv'
<1> DEFINE v == FirstStep(runs[k])
<1>1. Moved(k, v) /\ InTurn'
  BY BeginInTurn DEF IInv
<1>2. runs[k].at = "pending" /\ v \in {"parse", "skipped"}
      /\ UNCHANGED <<body, open, assets, posted>>
  BY DEF Begin, FirstStep
<1> HIDE DEF v
<1>3. TypeOK'
  BY <1>1, <1>2, MovedType DEF IInv
<1>4. AssetsInv'
  BY <1>1, <1>2, QuietAssets DEF IInv, AssetsInv, Active, Over, Published, Broken, Begun
<1> QED  BY <1>1, <1>3, <1>4 DEF IInv, AssetsInv

LEMMA JobKeeps ==
    ASSUME IInv, NEW k \in DOMAIN runs, Job(k) \/ TimeOut(k)
    PROVE  IInv'
<1>1. TypeOK /\ InTurn /\ AssetsInv
  BY DEF IInv, AssetsInv
<1>2. InTurn'
  BY <1>1, JobMoves, JobInTurn
<1>3. ASSUME NEW from, NEW to \in Active \cup Over, Go(k, from, to)
      PROVE  runs[k].at = from /\ Moved(k, to)
  BY <1>1, <1>3, MovesOne DEF Go
<1>4. ASSUME NEW v \in Active \cup Over, Moved(k, v), body' = body,
             open' = open \/ open' = [open EXCEPT ![runs[k].issue] = FALSE],
             assets' = assets, v # "report", v \in Published => runs[k].at \in Published,
             runs[k].at \in Broken => v \in Broken,
             v \in Begun => runs[k].at \in Begun,
             \/ posted' = posted
             \/ \E kind \in {"started", "failed"} : Post(k, kind)
             \/ Post(k, "done") /\ runs[k].at = "report" /\ v \notin Begun
      PROVE  TypeOK' /\ AssetsInv'
  <2>1. TypeOK'
    BY <1>1, <1>4, MovedType
  <2>2. posted \subseteq posted'
        /\ \A c \in posted' \ posted :
              c.run = k /\ (c.kind = "done" => runs[k].at = "report" /\ v \notin Begun)
    BY <1>4 DEF Post
  <2>3. AssetsInv'
    BY <1>1, <1>4, <2>2, QuietAssets
  <2> QED  BY <2>1, <2>3
<1>5. CASE Parse(k) \/ Build(k)
  <2>1. PICK v \in {"ack", "build", "delete"} :
          /\ Go(k, "parse", v) \/ Go(k, "build", v)
          /\ UNCHANGED <<body, open, assets, posted>>
    BY <1>5 DEF Parse, Build
  <2>2. v \in Active \cup Over /\ v # "report" /\ v \notin Published
    BY DEF Active, Published
  <2>3. Moved(k, v) /\ runs[k].at \notin Broken /\ runs[k].at \in Begun
    <3>1. Moved(k, v)
      BY <1>3, <2>1, <2>2
    <3>2. runs[k].at \in {"parse", "build"}
      BY <2>1 DEF Go
    <3> QED  BY <3>1, <3>2 DEF Broken, Begun
  <2>4. TypeOK' /\ AssetsInv'
    BY <1>4, <2>1, <2>2, <2>3
  <2> QED  BY <1>2, <2>4 DEF IInv, AssetsInv
<1>6. CASE Ack(k)
  <2>1. Moved(k, "build") /\ runs[k].at = "ack"
    BY <1>3, <1>6 DEF Ack, Active
  <2>2. "build" \in Active /\ "build" \notin Published /\ "ack" \notin Broken /\ "ack" \in Begun
    BY DEF Active, Published, Broken, Begun
  <2>3. TypeOK' /\ AssetsInv'
    BY <1>4, <1>6, <2>1, <2>2 DEF Ack
  <2> QED  BY <1>2, <2>3 DEF IInv, AssetsInv
<1>7. CASE DeleteAsset(k)
  <2>1. Moved(k, "upload")
    BY <1>3, <1>7 DEF DeleteAsset, Active
  <2>2. TypeOK'
    BY <1>1, <1>7, <2>1, MovedType DEF DeleteAsset
  <2>3. AssetsInv'
    BY <1>1, <1>7, <2>1, DeleteAssets
  <2> QED  BY <1>2, <2>2, <2>3 DEF IInv, AssetsInv
<1>8. CASE Upload(k)
  <2>1. PICK v \in {"report", "done"} : Moved(k, v)
    BY <1>3, <1>8 DEF Upload, Active, Over
  <2>2. TypeOK'
    BY <1>1, <1>8, <2>1, MovedType DEF Upload
  <2>3. AssetsInv'
    BY <1>1, <1>8, <2>1, UploadAssets
  <2> QED  BY <1>2, <2>2, <2>3 DEF IInv, AssetsInv
<1>9. CASE ReportDone(k)
  <2>1. Moved(k, "close") /\ runs[k].at = "report"
    BY <1>3, <1>9 DEF ReportDone, Active
  <2>2. "close" \in Active /\ "close" \notin Begun /\ "report" \notin Broken
        /\ "report" \in Published
    BY DEF Active, Published, Broken, Begun
  <2>3. TypeOK' /\ AssetsInv'
    BY <1>4, <1>9, <2>1, <2>2 DEF ReportDone
  <2> QED  BY <1>2, <2>3 DEF IInv, AssetsInv
<1>10. CASE CloseIssue(k)
  <2>1. "done" \in Active \cup Over /\ "done" \notin Begun /\ "close" \notin Broken
        /\ "close" \in Published
    BY DEF Active, Over, Published, Broken, Begun
  <2>2. Moved(k, "done") /\ runs[k].at = "close"
    BY <1>3, <1>10, <2>1 DEF CloseIssue
  <2>3. TypeOK' /\ AssetsInv'
    BY <1>4, <1>10, <2>1, <2>2 DEF CloseIssue
  <2> QED  BY <1>2, <2>3 DEF IInv, AssetsInv
<1>11. CASE ReportFailure(k)
  <2>1. PICK v \in {"failed", "mute"} :
          /\ Go(k, "fail", v) /\ UNCHANGED <<body, open, assets>>
          /\ posted' = posted \/ Post(k, "failed")
    BY <1>11 DEF ReportFailure
  <2>2. v \in Active \cup Over /\ v \in Broken /\ v \notin Published \cup Begun
    BY DEF Over, Broken, Published, Begun
  <2>3. Moved(k, v)
    BY <1>3, <2>1, <2>2
  <2>4. TypeOK' /\ AssetsInv'
    BY <1>4, <2>1, <2>2, <2>3 DEF Begun
  <2> QED  BY <1>2, <2>4 DEF IInv, AssetsInv
<1>12. CASE StepFails(k) \/ TimeOut(k)
  <2>1. PICK v \in {"fail", "timed out"} : runs' = [runs EXCEPT ![k].at = v]
    BY <1>12 DEF StepFails, TimeOut
  <2>2. v \in Active \cup Over /\ v \in Broken /\ v \notin Published \cup Begun
    BY DEF Active, Over, Broken, Published, Begun
  <2>3. Moved(k, v)
    BY <1>1, <2>1, <2>2, MovesOne
  <2>4. TypeOK' /\ AssetsInv'
    BY <1>4, <1>12, <2>2, <2>3 DEF StepFails, TimeOut, Begun
  <2> QED  BY <1>2, <2>4 DEF IInv, AssetsInv
<1> QED
  BY <1>5, <1>6, <1>7, <1>8, <1>9, <1>10, <1>11, <1>12 DEF Job

LEMMA NothingMovesKeeps ==
    ASSUME IInv, UNCHANGED <<runs, assets, posted>>, open' = open,
           body' \in [Issues -> Roms]
    PROVE  IInv'
<1>1. TypeOK'
  BY DEF IInv, TypeOK
<1>2. InTurn' /\ NewestWins' /\ AssetsTagged'
  BY DEF IInv, InTurn, NewestWins, AssetsTagged, HasIssue
<1>3. DoneHeld'
  BY DEF IInv, DoneHeld, SaysDone, Held
<1> QED  BY <1>1, <1>2, <1>3 DEF IInv

LEMMA AlwaysIInv == Spec => []IInv
<1>1. IInv /\ [Next]_vars => IInv'
  <2> SUFFICES ASSUME IInv, [Next]_vars PROVE IInv'
    OBVIOUS
  <2>1. CASE Labelled \/ Dispatch
    BY <2>1, TriggerKeeps
  <2>2. CASE Edit
    <3>1. body' \in [Issues -> Roms]
      BY <2>2 DEF Edit, IInv, TypeOK
    <3> QED  BY <2>2, <3>1, NothingMovesKeeps DEF Edit
  <2>3. CASE RunSteps
    BY <2>3, BeginKeeps, JobKeeps DEF RunSteps
  <2>4. CASE UNCHANGED vars
    <3>1. body' \in [Issues -> Roms]
      BY <2>4 DEF vars, IInv, TypeOK
    <3> QED  BY <2>4, <3>1, NothingMovesKeeps DEF vars
  <2> QED  BY <2>1, <2>2, <2>3, <2>4 DEF Next
<1> QED  BY InitIInv, <1>1, PTL DEF Spec

-----------------------------------------------------------------------------

\* However many issues, labels, corrected forms and runs there are, the release
\* never ends up with the older of two published runs of an issue for one tag:
\* GitHub's concurrency group alone is enough for it.
THEOREM NewestAlwaysWins == Spec => []NewestWins
<1>1. IInv => NewestWins
  BY DEF IInv
<1> QED  BY <1>1, AlwaysIInv, PTL

\* What the parse step leaves of a ROM's name and build tells the ROMs apart.
SlugTellsApart == \A r, s \in Roms : Slug[r] = Slug[s] => r = s

\* Where no two of the ROMs asked for have one tag, the asset that a "Done"
\* comment names is of the ROM asked for, or another run has taken it away to
\* replace it.
THEOREM DoneAlwaysTrue == Spec => [](SlugTellsApart => DoneIsTrue)
<1>1. ASSUME IInv, SlugTellsApart PROVE DoneIsTrue
  <2> SUFFICES ASSUME NEW c \in posted, c.kind = "done"
               PROVE  LET rom == runs[c.run].rom
                          held == assets[Slug[rom]]
                      IN  \/ held # NoRun /\ runs[held].rom = rom
                          \/ /\ held = NoRun
                             /\ \E j \in DOMAIN runs \ {c.run} :
                                  /\ Slug[runs[j].rom] = Slug[rom]
                                  /\ runs[j].at \in {"upload", "fail", "failed", "mute",
                                                     "timed out"}
    BY DEF DoneIsTrue
  <2> DEFINE r == c.run
             held == assets[Tag(runs[r].rom)]
  <2>1. r \in DOMAIN runs /\ Held(r)
    <3>1. c = [kind |-> "done", run |-> r]
      BY <1>1 DEF IInv, TypeOK, Comment
    <3> QED  BY <1>1, <3>1 DEF IInv, DoneHeld, SaysDone
  <2>2. CASE held # NoRun
    <3>1. Tag(runs[r].rom) \in Tags /\ held \in DOMAIN runs
      BY <1>1, <2>1, <2>2, AssetsType DEF IInv
    <3>2. Tag(runs[held].rom) = Tag(runs[r].rom)
      BY <1>1, <2>2, <3>1 DEF IInv, AssetsTagged
    <3>3. runs[held].rom \in Roms /\ runs[r].rom \in Roms
      BY <1>1, <2>1, <3>1, RunsType DEF IInv, Run
    <3>4. runs[held].rom = runs[r].rom
      BY <1>1, <3>2, <3>3 DEF SlugTellsApart, Tag
    <3> QED  BY <2>2, <3>4 DEF Tag
  <2>3. CASE held = NoRun
    BY <2>1, <2>3 DEF Held, Tag, Broken
  <2> QED  BY <2>2, <2>3
<1>2. IInv => (SlugTellsApart => DoneIsTrue)
  BY <1>1
<1> QED  BY <1>2, AlwaysIInv, PTL
=============================================================================
