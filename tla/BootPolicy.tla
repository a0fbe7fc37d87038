------------------------------ MODULE BootPolicy ------------------------------
(***************************************************************************)
(* The SELinux rules behind the two modules at a boot: those compiled into *)
(* the substrate's CIL, those in the modules' sepolicy.rule files, and     *)
(* those that post-fs-data.sh and service.sh add to the live policy, among *)
(* which ipsecd gets its label and is restarted.                           *)
(*                                                                         *)
(* A rule is [triple, perms]: who may do what to which class of object.    *)
(* The loader of sepolicy.rule is external, as docs/FINDINGS.md:121-123    *)
(* describes it; so are init and the daemon's crashes.                     *)
(***************************************************************************)
EXTENDS Naturals, Sequences, SequencesExt

CONSTANTS
    Donors,        \* what LG's closure may grant: sets of <<triple, perm>>
    CIL_APPEND, VOWIFI_SEPOLICY, IMS_SEPOLICY_RULE,   \* sequences of rules
    ImsLive, VowLive     \* the rules of the magiskpolicy --live commands

Grants(rule) == {rule.triple} \X rule.perms
AllOf(rules) == UNION {Grants(rules[k]) : k \in DOMAIN rules}

\* All that VOWIFI_SEPOLICY grants is in the substrate's CIL or in a script
\* (tools/build_lg_substrate_image.py:74-86,
\* tools/build_consolidated_modules.py:198-216): the loader may drop any of it.
ASSUME RulesAssumption ==
    /\ {ImsLive, VowLive} \subseteq Seq(Range(ImsLive) \cup Range(VowLive))
    /\ AllOf(VOWIFI_SEPOLICY) \subseteq AllOf(CIL_APPEND) \cup AllOf(VowLive)

VARIABLES
    vowifi,    \* is v60_vowifi installed beside v60_ims_volte?
    policy,    \* the loaded policy, a set of <<triple, perm>>
    todo,      \* what is left of the boot, in order
    label,     \* is ipsecd's file labelled ipsecd_exec?
    ipsecd,    \* "none", or the process: was the file labelled, what was granted
    pending    \* a ctl.restart that init has not served yet
policyVars == <<vowifi, policy, todo, label, ipsecd, pending>>

-----------------------------------------------------------------------------

\* The loader: a rule whose triple the policy has, and all that follow it, are
\* dropped (external).
Loaded(p, rules) ==
    LET known(k) == \/ \E g \in p : g[1] = rules[k].triple
                    \/ \E j \in 1 .. k - 1 : rules[j].triple = rules[k].triple
    IN p \cup UNION {Grants(rules[k]) :
                     k \in {x \in DOMAIN rules : \A j \in 1 .. x : ~known(j)}}

Live(rules) == [k \in DOMAIN rules |-> [do |-> "live", rule |-> rules[k]]]
Do(what) == <<[do |-> what, rule |-> [triple |-> "", perms |-> {}]]>>

\* Mutant: the rules are left to sepolicy.rule.
ImsPostFsData_NoLive == Do("start ipsecd")
ImsPostFsData == Do("start ipsecd") \o Live(ImsLive)

\* Mutant: ipsecd is restarted first.
VowifiPostFsData_RestartFirst == Do("restart ipsecd") \o Do("chcon") \o Live(VowLive)
VowifiPostFsData == Do("chcon") \o Live(VowLive) \o Do("restart ipsecd")

VowifiService == Live(VowLive)

\* Mutant: the substrate without the plumbing.
Substrate_NoPlumbing(donor) == donor
Substrate(donor) == donor \cup AllOf(CIL_APPEND)

PolicyInit ==
    \E donor \in Donors :
        /\ vowifi \in BOOLEAN
        /\ policy = IF vowifi
                    THEN Loaded(Loaded(Substrate(donor), IMS_SEPOLICY_RULE), VOWIFI_SEPOLICY)
                    ELSE Loaded(Substrate(donor), IMS_SEPOLICY_RULE)
        /\ todo = ImsPostFsData \o IF vowifi
                                   THEN VowifiPostFsData \o Do("post-fs-data done") \o VowifiService
                                   ELSE Do("post-fs-data done")
        /\ label = FALSE /\ ipsecd = [is |-> "none"] /\ pending = FALSE

Started == [is |-> "running", label |-> label, policy |-> policy]

\* The next command of the scripts.
Script ==
    /\ todo # << >> /\ todo' = Tail(todo) /\ UNCHANGED vowifi
    /\ LET c == Head(todo)
       IN /\ policy' = IF c.do = "live" THEN policy \cup Grants(c.rule) ELSE policy
          /\ label' = (label \/ c.do = "chcon")
          /\ pending' = (pending \/ c.do = "restart ipsecd")
          /\ ipsecd' = IF c.do = "start ipsecd" /\ ipsecd.is = "none" THEN Started ELSE ipsecd

\* External: init starts its service and serves a restart; the daemon crashes.
InitStarts == /\ ipsecd.is = "none" /\ ipsecd' = Started
              /\ UNCHANGED <<vowifi, policy, todo, label, pending>>
InitRestarts == /\ pending /\ pending' = FALSE /\ ipsecd' = Started
                /\ UNCHANGED <<vowifi, policy, todo, label>>
Crash == /\ ipsecd.is = "running" /\ ipsecd' = [is |-> "none"]
         /\ UNCHANGED <<vowifi, policy, todo, label, pending>>

PolicyNext == Script \/ InitStarts \/ InitRestarts \/ Crash
PolicySpec ==
    /\ PolicyInit /\ [][PolicyNext]_policyVars
    /\ WF_policyVars(Script) /\ WF_policyVars(InitStarts) /\ WF_policyVars(InitRestarts)

-----------------------------------------------------------------------------
(* Properties.                                                             *)

PostFsDataDone == \A k \in DOMAIN todo : todo[k].do # "post-fs-data done"

\* From post-fs-data on the rules of imsipsecclient hold, and all that
\* v60_vowifi asks for, whatever part of them LG's closure has already: the
\* loader drops those and all that follow them, and the substrate's CIL or the
\* scripts make up for it (tools/build_consolidated_modules.py:88-92, 198-216;
\* tools/build_lg_substrate_image.py:74-86).
VowifiGrants == AllOf(VOWIFI_SEPOLICY) \cup AllOf(VowLive)
RulesHold ==
    PostFsDataDone =>
        AllOf(ImsLive) \cup (IF vowifi THEN VowifiGrants ELSE {}) \subseteq policy

\* The ipsecd that runs once the scripts and init are done was started from the
\* labelled file, with every grant there, even if init had started it, or it had
\* crashed, before (208-229).
SurvivorIsLabelled ==
    PostFsDataDone /\ vowifi /\ ~pending /\ ipsecd.is = "running" =>
        ipsecd.label /\ VowifiGrants \subseteq ipsecd.policy

\* With v60_vowifi every boot comes to run an ipsecd from the labelled file.
IpsecdComesUp == vowifi => <>(ipsecd.is = "running" /\ ipsecd.label)
=============================================================================
