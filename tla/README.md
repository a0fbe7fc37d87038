# Verification of the LG V60 IMS / VoLTE / VoWiFi toolchain

This directory holds TLA+ models of the programs in this repository, the TLC
runs that check them on small instances, and TLAPS proofs of what matters most
for every instance.

The repository produces two things for LineageOS on the LG V60: a *substrate*
(a stock `system_ext` image with LG's IMS/ePDG daemons and their SELinux policy
grafted onto it) and two root modules that run on top of it. A wrong substrate
bootloops the phone of somebody who has never seen the tool, and the phone is
the only test bench. So the models start with the substrate: the tool that
builds it, the validator that judges it, and the service that builds it on
request.

## Inventory

| Component | State it keeps | Operations | Interacts with |
|---|---|---|---|
| **Substrate build tool** `tools/build_lg_substrate_image.py` | the output image (files, modes, labels), a scratch directory | copy, grow, remove the policy hash, make directories, graft 20 files and the certificates, merge 4 policy files, append grants | edits the image through `debugfs`; reads the stock and the donor image and `tools/sepolicy-baseline` |
| **Validator** `tools/validate_substrate.py` | lists of failures and warnings | contexts syntax, property trie, hash, boot-time `secilc` compile | reads both images and the policy directory; its status stops the job |
| **Extraction scripts** `tools/ci/extract_*.sh` | an image, a policy directory | find and unpack `system_ext`, refuse unsuitable ones; unpack what can be found of the other partitions | their files are the next steps' inputs |
| **Build service** `.github/workflows/build-substrate.yml` | issues, labels, runs, the rolling release, comments | parse, acknowledge, build, publish, report, close; fail and time out | GitHub's concurrency groups; the scripts above |
| **secilc build and cache** `tools/ci/build_secilc.sh`, `secilc-cache.yml` | a cached binary | clone (5 tries), build, save | restored by the service |
| **Blob extraction** `tools/extract_blobs.py` | the staging directory and `paths.json` | check the required blobs, dump `ipsecd`, write `paths.json`, dump the blobs one by one | the recipes patch what it staged, the module builder packs it |
| **Module builder** `tools/build_consolidated_modules.py` | two zips with boot scripts, install script, sepolicy rules | stamp templates, inject signer, zip | the scripts run on the phone, in boot stages, against init's services and properties |
| **Incoming call fix** `tools/build_incoming_reject_fix.py`, `DexReplaceClass.java` | a rewritten class of the telephony framework | find the markers, insert call cleanup, replace the class | the injected code runs among the callbacks of LG's IMS; the jar is one of the staged files |
| **Binary XML patcher** `tools/axml_patch.py` | the bytes of a manifest, cached offsets of its pool | append or overwrite a string, duplicate an element, set an attribute | used on LG's manifests by the recipes |
| **ipsecd patcher** `tools/patch_ipsecd.py` | the patched ELF | find two functions by their calls, write over them | the daemon that the VoWiFi module overlays |
| **Signing helper** `ApkV2Signer.java` | none | sign | the recipes |

Behaviours that are hard to test here:

* *silent failure*: `dfs()` (build tool, 89-92) never looks at what `debugfs`
  says, so any command of some hundred may do nothing or half of its work, and a
  read may give nothing or less than there is;
* *order*: an attribute set before `rm` is lost; a policy hash left behind makes
  init ignore everything else;
* *three-way merges*: donor, baseline and ROM come from three builds, in two
  comment syntaxes;
* *partial knowledge*: the validator runs on whatever partitions could be
  extracted;
* *concurrency*: workflow runs of one issue queue behind, replace and cancel
  each other, and all write one release;
* *crash, time-out, retry*: a job is cancelled half way and asked for again;
* *late callbacks*: a call's end arrives after the call went on, after another
  call came, or with another object than the call's own;
* *layers of policy*: what a rule of a module comes to depends on what the
  substrate's policy says already and on when init started the daemon;
* *arithmetic*: block budgets with two roundings, signed branch offsets, offsets
  into a string pool that moves.

What makes each component correct:

* build tool: exit status 0 means every file of which no read came back short has
  the intended content, mode and label; the ROM's own policy survives in it; LG's
  is complete, not doubled, and harmless to the parsers; it always ends;
* headroom: no write of the graft is ever cut short;
* validator and pipeline: what is published boots; what is rejected would not;
* service: the release holds the newest build of an issue, `Done` is true, and
  nobody who was told that a build started waits for ever;
* boot scripts: no boot runs with a stale manifest, IMS heals and is selected,
  the rules hold whatever LG's closure has, and the `ipsecd` that stays was
  started with its label and grants;
* incoming call fix: a call that is over leaves the tracker, one that is not
  stays in it, in whatever order the callbacks come;
* ipsecd patcher: the right functions or none;
* binary XML patcher: an edit of cells is the edit of strings and nodes that it
  is named for, and Android can read the result;
* extraction, jar patch, module builder: status 0 means that what was left is
  whole and of one staging.

## Modules

| Module | Models | Correspondence |
|---|---|---|
| `PolicyMerge` | the pure part of `merge_policy` and `append_cil` | a policy file is its set of lines; a line has a normalised text (`_norm`), a spacing and an origin. `Delta`, `Merged`, `Appended` are the loops of 148-193 and 226-230 |
| `SystemExt` | images | path -> content, mode, label. `Intended(b, d)` is the substrate of base `b` and donor `d` |
| `GraftSpec` | the tool's promise | begins, succeeds with `Intended` in every file but those it was given too little of (`unread`), or aborts |
| `SubstrateBuild` | the tool's run | one action per step of `main`; a `debugfs` command in `Silent` leaves one of several slots behind, or reads less than there is (`Dumped`, `LabelRead`, `Listed`). `unread` and `unlabelled` record which paths that befell; the tool does not look at them. `Start` in every end state models reruns on other inputs over an old output; `Kill` ends a run anywhere |
| `Headroom` | `ensure_headroom` and the writes after it, in blocks | `NewCount` is the arithmetic of 265-266; a write takes its file's blocks and some metadata |
| `Validate` | the validator, and secilc and init as its external reference | one operator per check; `Boots` says what a phone does |
| `SubstratePipeline` | the job from zip to release | one action per workflow step that passes policy on |
| `SubstrateService` | issues, labels, runs, release, comments | one action per step that changes something outside the job, and GitHub's scheduling |
| `ContextOverlay` | `customize.sh` over the life of a phone | `Install` is the whole script on the files that are `Live`; installs are staged, become active at a `Reboot` and are mounted in front of the ROM; `Ota` changes the ROM under them |
| `BootServices` | the scripts of both modules at every boot | one action per command or loop pass of `VOWIFI_POST_FS_DATA`, `IMS_SERVICE` and `VOWIFI_SERVICE`, among the boot's stages, the user, the package watchdog, updates and power cuts |
| `BootPolicy` | the SELinux rules of both modules at one boot, and `ipsecd` under init | `Loaded` is the root manager's loader of `sepolicy.rule`; `todo` is what is left of post-fs-data.sh and service.sh, one command a step, among init's starts and restarts and crashes |
| `CallCleanup` | `onCallStartFailed` with both insertions | the user, the network, AOSP's tracker and LG's IMS are external actions, as the script's comments describe them; `callbacks` is a set, of which `Deliver` hands any one to the patched class |
| `IpsecdPatch` | `main` of the patcher | `Patch` finds the functions and writes or refuses; `Rerun` feeds the output in again. What the linker knew (`starts`, `calls`, `stubs`) only the properties see |
| `ManifestSpec` | the binary XML patcher's promise | edits of a list of strings and a list of nodes |
| `AxmlPatch` | the binary XML patcher | one action per method of `AXML`, on the cells of the file; `AsWritten` is what aapt writes and the tool takes for granted, `Strings` and `Nodes` map the cells to `ManifestSpec` |
| `Staging` | `extract_blobs.py`, the jar patch and the packing of the two modules | one action per step of each `main`; any tool may be killed between two and any be started next, on other inputs |
| `MC*` | constants for TLC | `MCBoot` is `BootServices` or `BootPolicy`, `MCRecipeTools` is `IpsecdPatch`, `AxmlPatch` or `Staging`: parts that share no state, chosen in the initial state, so that one run explores each of them |
| `*_proofs` | theorems | one module per model, but that the theorems about `PolicyMerge` are in `SubstrateBuild_proofs`, `Boot_proofs` is about `BootServices` and `BootPolicy`, and `RecipeTools_proofs` about `IpsecdPatch`, `Staging` and `AxmlPatch` |

`Staging` composes the tools that share `staging/` and `out/`. `SubstrateBuild`
and `GraftSpec` extend `SystemExt`, which extends `PolicyMerge`; `SubstratePipeline` extends `Validate`, which extends
`PolicyMerge`, so the merge that is proved about is the merge that is built,
validated and published.

### What is abstracted

* Lines are unordered. No consumer of the four files depends on the order of
  lines, and `merge_policy` only asks whether a line occurs.
* The bytes of a grafted binary are a text like any other.
* uid and gid go with the mode, as they are always set together.
* `e2fsck` is taken to leave the files alone; its last call only prints.
* The scratch directory is fresh for each run and each path has its own names
  in it, so it is not a variable. (`graft` reached from `merge_policy` uses
  other names than `merge_policy` itself.)
* A line is malformed or not (`Malformed`), instead of `bad_context_line`'s
  list of reasons.
* `PropOf` has the property entries that the validator and init both read; a line
  that `property_entries` passes over defines nothing.
* Allow rules that contradict a `neverallow` are outside `Compiles`; it knows
  types that are not declared, and types that are declared twice other than by a
  repeated `(type X)`, which `secilc -m` lets pass (`Repeatable`).
* The reads that decide nothing are ideal: the sizes that `ensure_headroom` sums
  up and the superblock. A wrong one is a wrong headroom, and a write with no room
  is one of those that stop early.
* In the pipeline the build ends with the intended policy, which is what
  `BuildImplementsPromise` says of status 0; only the `rm` of the hash, which
  the promise does not cover, may have failed.
* A contexts line is what it is about (its key), what it says and who wrote it;
  the keys that `sed` deletes are a set. The stale boot-image files that
  `customize.sh` hides depend on nothing and are left out.
* In `BootServices` the three settings are one, as they are read and written
  alike; the APKs are builds of one size, since others always differ for
  PackageManager. The commands that patch the live policy, label `ipsecd` and
  restart it are in `BootPolicy` instead. post-fs-data runs to its end before the
  system starts, which holds for a script well under the root manager's time
  limit.
* `BootPolicy` has two or three of each list's rules, which differ in what LG's
  closure may have of them. The two sepolicy.rule files are loaded one after the
  other, before any script.
* In `CallCleanup` a connection is its call and the states that the patched
  method and its neighbours tell apart. A callback is of a kind (code 146, the
  silent redial; any other; the end of a started call) and carries its call's own
  `ImsCall` or another; they come in any order. `together` is history: the calls
  that were in `mRingingCall` with another.
* In `IpsecdPatch` an address counts instructions, and an instruction is one of
  those the patcher looks for, a branch with its immediate, or another. The
  section table and the relocations are read as they are.
* In `AxmlPatch` a cell is two bytes, the unit in which everything in a UTF-16
  pool is aligned; the upper half of a 32-bit field is 0.
* In `Staging` a file is the firmware it is of and whether it is whole. A zip is
  torn or has the files of its tree. The privapp allowlist and `andsf.xml`, which
  the repository ships, are always there.
* In the service a build is one step that succeeds or fails. A manual run's tag
  is what the maintainer types; the model trusts them with the slug.

## Runs

| Run | Question | Instance and why it is enough |
|---|---|---|
| `substrate_build` | does the tool keep its promise when commands fail silently? | two grafted files and one certificate, two policy files of which one is CIL, three bases: stock, a derivative without `file_contexts`, an older graft; five donors: with and without certificates, of other versions, without a policy file, without a binary. `rm`, `write` and `mkdir` may fail, any number of times, a `write` also half way; `dump`, `ea_get`, `stat` and `ls` may come back with nothing or with less than there is (`Heads`: empty, or the first lines). `MaxShort` 1 bounds the paths of a run that a read of content or label falls short of; the theorems have no such bound. Every branch of the code has an input that takes it. `ea_set` and `set_inode_field` are not in `Silent` here: see below |
| `substrate_pipeline` | does what is published boot? | thirteen kinds of ROM, three donors, every subset of the partitions extracted |
| `compile_skipped` | is the compile check skipped when a partition is missing? (no) | the same |
| `headroom` | does one look at the superblock suffice? | three files of up to several blocks, small blocks and roundings, every count and free count up to the bound, so that every residue of both divisions occurs; `SlackCovers` says what 16 MiB stands for |
| `substrate_service` | do concurrent runs publish and report truthfully, and is a started build always answered? | one issue and manual runs, two ROMs, three runs: one under way, one pending, one that replaces it. `MaxRuns` bounds the events |
| `tag_collision` | has every build an asset of its own? (no) | two names with one slug |
| `label_lost` | does the `build` label always lead to a build? (no) | one issue, three labels |
| `context_overlay` | do installs, reinstalls, updates and boots in any order keep the overlays sound? | five ROMs: the mapping in `vendor`, in `system_ext` on a substrate that has LG's entries already, doubled, and absent; no property file. The graph of installs and updates is finite, so nothing is bounded |
| `reinstall_overlay` | does a reinstall after an update follow the new ROM? (no) | the same |
| `boot` | do the boot scripts do their work and end, and do their rules hold for the `ipsecd` that stays, whatever happens meanwhile? | `BootServices`: two APKs; `ImsWait` 2, `VowWait` 1 and `Tries` 2 for 90, 60 and 60: each loop can end early, late and by its count, and one script can give up while the other still waits. `BootPolicy`: with and without the VoWiFi module, every one of the 32 subsets of five grants that LG's closure may have |
| `call_cleanup` | is every call that is over taken out of the tracker, and no other? | three incoming calls, any of which may ring together, two of them with callbacks that may carry another object, and an outgoing one: two such callbacks meet the same two connections in either order, with a third call that rings, is answered or is rejected meanwhile |
| `recipe_tools` | do the tools of `docs/PATCH-RECIPES.md` leave what they promise? | ipsecd: all binaries of two to four functions out of eight bodies, the PLT in front or behind, stubs of both sizes, `Span` 128 for 2^26, `Window` 5 and `Header` 8: offsets of both signs, a mark inside and outside the window. Manifests: two files of two or three strings, even and odd lengths, up to `MaxStrings` 4 and `MaxChunks` 8, so that an append follows a duplicate and the other way round. Staging: two firmwares, an image of neither and an unreadable one; jars that are stock, patched, half patched and of other versions; dumps that write nothing or an empty file |

Deadlock is checked but for the pipeline and `headroom`, whose job and tool stop
when they have ended, `call_cleanup`, whose calls run out, and `recipe_tools`,
where a binary is patched twice and a manifest grows to its bounds.

The type invariants of `Headroom`, `SubstrateService`, `BootServices`,
`CallCleanup`, `IpsecdPatch` and `Staging` are not in a run's list. They document
the variables; those of `Headroom`, `BootServices`, `CallCleanup`,
`IpsecdPatch` and `Staging` are proved.

### What the runs that fail show

* `compile_skipped`: `extract_policy_inputs.sh:7-8` says that the validator
  skips the compile check when a partition cannot be found. It does so for
  `system` and `vendor` only; without `product` or `odm` the compile runs on
  what is there. If the donor's CIL leans on a type of the missing partition, a
  substrate that boots is rejected.
* `tag_collision`: the release body promises one asset per build. The slug folds
  case and punctuation and is cut at 60 characters; two requests that share it
  share an asset, and the first requester's `Done` comment then points at the
  other's image.
* `label_lost`: the concurrency group is per issue and comes before the job's
  `if`. GitHub keeps one pending run per group, so any other label added while
  a `build` run is pending cancels it, and the run that replaces it is skipped.
  In the trace the first run builds what the form said at first; the requester
  corrects the form, `build` is added again, its run waits, another label cancels
  it, and no run builds the ROM that the form names now.
* `reinstall_overlay`: the comment above `IMS_CUSTOMIZE` says that the overlays
  are rebuilt from the ROM's live files and so stay correct across updates.
  While the module is active the live files *are* its overlay. A reinstall after
  an update copies the old ROM's lines again, and the new ROM's entries stay
  hidden until the module is installed with no overlay mounted
  (`CleanInstallFollowsRom`, which holds).

## Fairness

`SubstrateBuild` has weak fairness of the tool's own next step: it is one
sequential process that waits for nothing but programs that end. `Start` and
`Kill` are unfair. `SubstrateService` has weak fairness of each run's next step
(a runner executes it) and of a pending run's turn; labels, edits, manual runs
and time-outs are unfair: nobody has to ask for anything. `BootServices` has weak fairness of each script's next
command: they are processes of a running phone, and a power cut ends them.
Nobody has to boot the phone, and the system may take for ever to start or to
get its phone process ready, so the liveness properties speak of a boot that did
come so far, or say that the phone was switched off. `BootPolicy` has weak
fairness of the scripts' next command and of init, which starts its services and
serves its control messages; a crash is unfair. `CallCleanup` has weak fairness
of `Deliver`: a callback that was posted to the tracker's handler is run, while
nobody has to call or hang up. The other modules have no liveness property and
no fairness.

## Proofs

Each proof follows one plan: an inductive invariant `IInv` that contains what is
to be proved, `Init => IInv`, one lemma per action for `IInv /\ [Next]_vars =>
IInv'`, and theorems that read the property off `IInv`. The theorems hold for
every value of the constants under the `ASSUME`s of the modules, which TLC
evaluates in the runs, and, where it is said, under a hypothesis that is part of
the theorem.

**The merge.** `SubstrateBuild_proofs` begins with what the merge does to any two files:
it keeps the ROM's lines, adds only the donor's that are new, adds no `;` line to
a contexts file, redeclares no type it recognised, is complete up to the reasons
the code names, is idempotent, and keeps a closed CIL closed. They follow from
the definitions and from `PolicyAssumption`, `MarkerAssumption` (which lines
start with `;` and that the marker declares nothing) and `PlumbingAssumption`
(`CIL_APPEND` has allow rules only).

**The build tool.** It goes on to prove, for every set of silently failing
commands, reads included, and every set of input images:

* `TypeCorrect`: `Spec => []TypeOK`;
* `BuildImplementsPromise`: `Spec => KeepsPromise`, the refinement of
  `GraftSpec`;
* `PolicyAlwaysComplete`, `NeverSemicolonEntry`;
* `GraftAlwaysUsable` and `PolicyNeverDoubled`, below.

All of them except the files of which a read came back short in this run, and no
others: what the tool was given of one file never spoils another. `IInv` is
`TypeOK /\ Position /\ SoFar`. `Position` says where the run is: within the list
of its step (`InRange`), with certificates that are the donor's but for those it
was not told of (`CertsListed`), and with the paths it has not reached as the
base has them (`Unmerged`). `SoFar` says what is behind it: every path that the
run is done with has its final content unless it is in `unread` (`AsExpected`), a
policy file that is merged is whole (`MergedWhole`), a binary is never empty
(`NotEmpty`). `AsExpected` is needed because the promise speaks of the last state
only: that status 0 means the intended contents follows from what each read-back
established *and* from no later step touching the path, which is where
`PathAssumption` (no two lists share a path) comes in. A read-back can fall short
as well: one of an older file that `rm` left behind may look like the file that
should have replaced it, and is in `unread` then.

`GraftAlwaysUsable` is about modes and labels, which the tool sets and never
reads back; so it has the hypothesis `FieldsAreSet`, that the two commands that
set them are not in `Silent`, and excepts the labels that `ea_get` did not give
(`unlabelled`). Its part of the invariant, `Usable`, says of each path behind the
run that it has the donor's mode and label: an attribute set before the `rm`
would be lost with the file. `PolicyNeverDoubled` has the
hypothesis `CleanInputs`, that LG's policy has no double of its own and no graft
in it, and that donor and ROM declare types in the spelling the tool looks for;
doubles of the ROM's own are the ROM's.

**The block budget.** `GrownImageHolds` is the arithmetic of `NewCount`: for every
block size, rounding, free count and need, the grown image has at least the
needed bytes free, less what `resize2fs` keeps. `NeverTruncated` and
`BudgetAlwaysHolds` carry that through the writes, for every finite set of files
of any sizes. The invariant is a ledger: the free blocks hold what is still to be
written, in blocks, with the slack paying for the partly filled last block and
the metadata of each file. `SlackCovers` is where 16 MiB enters. The sum
`Bytes(files)` is a recursive function on finite sets, so the lemmas about it
(`Bytes` of a set without one of its files) go by a least counterexample, with
the well-foundedness of the finite subsets from the library.

**The pipeline.** `SubstratePipeline_proofs` proves `PublishedAlwaysParses`,
`PublishedAlwaysBoots`, `AlwaysRejectedForCause` and `PublishedAlwaysCurrent` for
all ROMs and donors and every set of partitions that could be extracted. The
invariant says that a base that was accepted is stock (`NotRefused`), that the
image is the one built from it by the merge (`BuiltFromStock`), and that
published and rejected are the validator's two answers to the state there still
is (`Judged`). The rest relates the validator to its external reference, check by
check: that a baseline of the *stock* image makes a complaint of the validator
and a refusal of init the same thing is why both directions hold.
`AlwaysRejectedForCause` also covers any part of the policy with which `secilc`
has no say (`Uncompiled`): what is then left are complaints about a contexts file,
the hash, or the property trie, and a trie that clashes in a part clashes in the
whole.
`PublishedAlwaysCurrent` needs that a stock ROM does not have the tool's own
marker (`PipelineAssumption`): otherwise the merge would be taken for done. `BuildIsTheTools` ties the job's
`Build` to the build tool: in each policy file it makes what `Intended` of
`SystemExt` has, which is the promise that `BuildImplementsPromise` is about.

**The service.** `NewestAlwaysWins` and `DoneAlwaysTrue` hold for any number of
issues, labels, edits, runs and time-outs. The first rests on `InTurn`: the runs
of an issue are under way one at a time and in the order of their events, since
the group's pending run is always newer than the one under way. The second adds
which run an asset is of (`AssetsTagged`) and that a comment's asset was there
when it was posted and was since replaced by runs of its tag only (`DoneHeld`),
with the hypothesis `SlugTellsApart`: run `tag_collision` shows that it is needed.

**The modules on the phone** (`ContextOverlay_proofs`, `Boot_proofs`).

* `OverlayTypeCorrect`, `NeverDoubleEntry`, `AlwaysImsMapped` and
  `CleanInstallAlwaysFollows` hold for every ROM and every number of installs. The
  inductive invariant says of the active *and* the staged module that their files
  are sound, since what is staged now is mounted, and read back by the next
  install, later; `OverlayAssumption` supplies that the script deletes every key
  it adds. For `CleanInstallAlwaysFollows` each module carries what it was made
  from: one that was installed with no overlay mounted has every line of the ROM
  it was installed on but those it replaces (`Follows`).
* `BootTypeCorrect` and `ManifestAlwaysCurrent` hold for every
  set of APKs, every wait and every count. The invariant ties the stamp to the
  cache: a stamp names the APK the cache was made from, unless the cache is gone
  (`CacheIsStamped`); the script has removed the cache whenever it may write the
  stamp (`RemovedFirst`), which is what makes a power cut between the two
  harmless; and the boot goes on only when the stamp is that of the APK
  (`StampedAtEnd`).
* `RulesAlwaysHold` and `SurvivorAlwaysLabelled` hold for all rules and whatever
  LG's closure grants, under `RulesAssumption`: what `VOWIFI_SEPOLICY` grants is in
  the substrate's `CIL_APPEND` or in a script, which is so in the source. The invariant looks ahead in the list of commands: each rule is granted or
  due before the mark that matters, which is the end of post-fs-data for the
  starter's rules and the restart of `ipsecd` for the VoWiFi module's
  (`GrantedBy`, `LabelledBy`); and once no restart is to come, one is pending, or
  `ipsecd` is down, or it was started with everything (`Fit`). Nothing is said of
  how much the loader takes of a sepolicy.rule file: the scripts alone suffice.

**The call cleanup.** `NoCallStuck`, `RingingAlwaysTracked` and `LiveAlwaysStays`
hold for any number of calls, however many ring together, and callbacks in every
order, under `CallAssumption`. Their statements except one case, which the code
does not tell apart (see the limits below): a rejected call whose callback
carries a foreign object while another is in `mRingingCall`. What the theorems add
is that the harm stays there. The invariant keeps accounts (`Accounts`): a
start-failed callback whose own call is no longer in `mRingingCall`, since an
earlier fallback took it (`Foreign`), is paid for by a stuck connection of its own
(`Covered(Foreign, Stuck)`, an injection), and each stuck connection is in
`Detached` and was in `mRingingCall` with another. So when a fallback finds a
connection there, either it is the callback's own, or there is a rejected one in
`mRingingCall` with it. `Callbacks` says that a call that is over has one callback
under way at most, and that one that is still tracked without is stuck.

**The ipsecd patcher** (`RecipeTools_proofs`). `OnlyCallersPatched`: for every binary with a `paciasp` at
each function and nowhere else, whatever it calls and however many functions it
has, only functions that call `getService` are changed, in a first run and on its
own output. The nearest `paciasp` above an instruction is then its function, so
both functions it finds own a call; a getter's call of another import is not that
of `getService`, as imports have stubs of their own (`IpsecdAssumption`), so
between the getter's prologue and the next there are at least the three
instructions written. `RegularAlwaysPatched` is the other direction: a regular
binary is patched as promised, wherever its PLT is. Its proof follows the scan to
the functions that the linker meant (`Linked`, the hypothesis: the calls are where
the branches are) and does the modular arithmetic of the branch that is written:
the offset it encodes leads to `property_get`'s stub for every `Span`. A patched
binary is no longer `Linked` to the table of calls it was made with, so the
theorem says nothing of a second run; `OnlyCallersPatched` does.

**The staging directory** (`RecipeTools_proofs`). `NeverHalfJar`,
`ExtractionAlwaysComplete` and `BuiltIsAlwaysStaged` hold for every list of blobs,
every image, jar and recipe, and every kill between two steps, under
`StagingAssumption` (the tools' files are apart). The invariant says nothing of
the directory, but for the jar, while no tool is under way: what a killed one left
is what it may be, and each property rests on what the tool under way has established itself.
For an extraction that is that each blob it is past is as the image has it, and
that the others are not there if none was when it began (`ExtractedSoFar`); that
is why a dump that does nothing is seen, while one that is cut short is not
(`NeverCut`, the hypothesis). For a build it is that the first zip is that of the
staging which the second is made of (`BuiltSoFar`).

**The manifest patcher** (`RecipeTools_proofs`). `ManifestAlwaysWellFormed` and
`ManifestEditsAreEdits` (the refinement of `ManifestSpec`, step by step) hold for
every manifest that aapt could have written, of any number of strings, chunks,
elements and attributes, and any operations in any order, under `AxmlAssumption`
(what is given to the tool is `AsWritten`) and the hypothesis `NoAstral`. The
invariant is `AsWritten(data)` itself, with `pool` what is parsed from `data`.
`WellFormed` is not inductive: an append is sound only if the strings lie apart in
front of `pool.next`, a duplicate only if the element's two chunks follow one
another and its record lies within the first, an attribute is set in that
element alone only if no two records overlap, and `AsWritten` has all of these.
The argument, for each operation:

* where every cell of the new file comes from: `PutIs` and `SpliceIs`, and from
  them `Grows` for an append, `Doubles` for a duplicate;
* what is read from cells that were moved is what was read before (`TextMoved`,
  `NodeLike`, `NodeMoved`);
* the new file is `AsWritten` (`GrownTidy`, `CopyTidy`, `Overwritten`, `AttrSet`),
  with chunks that are given outright. The code finds them by a walk that recurs
  over the file; `ChunksAre` says that the walk finds whatever chain of chunks
  leads from the pool to the end, by the last place in it where it would not;
* its strings and nodes are those that the edit of `ManifestSpec` makes
  (`StringsGrown`, `NodesOneSet`, `CopyList`, ...), and the element that
  `find_start_element` takes is the first leaf of that name (`LeafIs`).

**Model-checked only.** Liveness (`RunEnds`, `Answered`, `SelfHeals`,
`ImsSelected`, `ScriptsEnd`, `IpsecdComesUp`, `CallsEnd`), which is beyond the
prover here. Every safety property of the passing runs is the statement of a
theorem.

## Limits of what holds

* `GraftedUsable` holds in a run in which `ea_set` and
  `set_inode_field` do not fail silently. The tool never reads labels and modes
  back, so with them in `Silent` it fails; the theorems, which speak of
  content, hold all the same.
* A file of which a read came back short is outside `KeepsPromise`,
  `PolicyComplete`, `PolicyNotDoubled` and `NoSemicolonEntry`, and it is not
  harmless. A dump of the donor that is cut short at
  `build_lg_substrate_image.py:98` is what line 110 compares with; an `ls` that
  prints too little (302) leaves certificates out; and where the dump of a ROM's
  policy file fails at 134, 139-141 take the file for one that the ROM does not
  ship and put the donor's over it, with status 0 and with the ROM's own lines
  gone, which the comments at 118-121 and 140 exclude. `ea_get` without an answer
  leaves the file with no label. The run finds the loss of the ROM's lines and the
  other contents as soon as `unread` is not excepted. The workflow's validator
  looks at the image afterwards, but asks whether it boots, not whether the ROM's
  lines are there.
* `PublishedBoots` assumes the whole policy was extracted and a secilc that can
  compile it. `PublishedParses` does not. `RejectedForCause` assumes the whole
  policy, or a part with which `secilc` has no say: it is too old, what it needs
  was not extracted, or the stock policy does not compile either.
* `Found` has a partition wholly or not at all. `extract_policy_inputs.sh:41` and
  49 go on after a failed extraction (`|| true`), which may have left some files of
  one; to `PublishedBoots` this is a part of the policy like any other, and is
  excepted, while `PublishedParses`, which knows contexts files of the image
  only, is not touched.
* `PublishedCurrent` holds because `extract_system_ext.sh` refuses a grafted
  image. The build tool itself accepts one and keeps its old policy
  (`AlreadyMerged` in `PolicyComplete`).
* The policy directory is empty before a job. In a directory that is used twice
  a partition that the second ROM lacks would be the first one's
  (`Found_Stale`).
* Where a rejected call's callback carries another object and a second call is in
  `mRingingCall`, the fallback takes the first connection there
  (`build_incoming_reject_fix.py:85-101`), which may be the other, live one; the
  rejected one then stays. `LiveStays` (`BesideRejected`) and `NoStuckCall` and
  `CallsEnd` (`Detached \cap together`) except exactly these calls; the run finds
  the case as soon as they do not. Nothing in the repository says how many calls
  LG's IMS lets ring.
* Only incoming calls are reported with an `ImsCall` that is not the tracker's
  (`Detached`), the case that the fallback to `mRingingCall` is there for. If the
  start-failed callback of an outgoing call carried such an object while another
  call rings, the fallback would end the ringing call, although existing outgoing
  paths are said to be untouched (`docs/PATCH-RECIPES.md:327-328`). Nothing in the
  repository says that LG's IMS does so.
* `VOWIFI_SERVICE` reads a setting and writes it when it was null
  (`build_consolidated_modules.py:249-251`). A user who sets it between the two
  loses that choice. The two steps are in `BootServices` (`GetSetting`,
  `PutSetting`), the code does nothing about it, and no property denies it.
* `ManifestCurrent` is about the QNS APK, whose hash is what the script looks at
  (222-224). When another APK of the module changes alone, with its size and time
  kept, its old parse stays in the cache.
* `PacIsEnough` needs its hypothesis. In a binary without `paciasp`, or with one
  function that lacks it, the nearest one above may be a neighbour's, which is
  then written over, where `docs/PATCH-RECIPES.md:298-299` says that the helper
  bails out rather than guess.
* In `AxmlPatch` no string that is put in has an astral code point, which is the
  instance's choice in the run and the hypothesis `NoAstral` of the theorems.
  Lengths are counted in code points (`axml_patch.py:75`, 140), the pool in UTF-16
  units, so such a string would not end where its length says, and
  `StaysWellFormed` fails as soon as one is appended; names of Android
  permissions have none.
* The theorems about `AxmlPatch` are about files that aapt could have written
  (`AsWritten`: one pool of UTF-16 strings that lie apart, no styles, chunks up to
  the end). The two files of the run are such; a manifest that another tool wrote, with
  strings that share cells, is outside them.
* `get_attr`'s offset is used at once, as all callers do: after a
  splice before the element it would be stale.
* `ExtractionComplete` speaks of an empty staging directory. Nothing clears it
  (`extract_blobs.py:119` skips what the image lacks), so a second extraction
  from another firmware leaves the first one's blobs beside its own, and
  `BuiltIsStaged` says only that the zips are of the staging there is. A dump
  that was cut short is not empty and passes (`extract_blobs.py:125`); the run's
  `DumpFaults` leave it out, and the theorem has `NeverCut`.
* The second `keytool` call's status is not looked at
  (`build_consolidated_modules.py:287`): a zip may carry its message in place of
  the certificate (`CertDerHex`), and no property denies it.
* `RulesHold` asks for the rules of `imsipsecclient` and of the VoWiFi module. The
  rest of `IMS_SEPOLICY_RULE` may be dropped by the loader, after the first rule
  whose triple the substrate has; what it grants is in the substrate's closure
  or nothing in this repository makes up for it.
* On a slow boot `VOWIFI_SERVICE` leaves without its overrides
  (`build_consolidated_modules.py:239`), which a later, faster boot sets.

## Not modelled

* the `secilc` build and cache: a failed step of the job to everyone else;
* the Java helpers: thin wrappers of `dexlib2` and `apksig`, which fail or do not;
* the vendored baseline: data, a constant of the merge;
* in the boot scripts, `resetprop`, the relabelling of the data server's
  directory, and the `pm grant` commands (`build_consolidated_modules.py:97-99`),
  whose effect nothing else in the scripts reads.

Nothing else is planned: what only TLC checks is the liveness, which is beyond the
prover, and the four disagreements, for which an instance is enough.
