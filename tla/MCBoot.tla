-------------------------------- MODULE MCBoot --------------------------------
(***************************************************************************)
(* The scripts of both modules at a boot, in two parts that share nothing: *)
(* what they leave on the phone (BootServices), over many boots, and the   *)
(* rules and the ipsecd of one boot (BootPolicy).                          *)
(***************************************************************************)
EXTENDS BootServices, BootPolicy

VARIABLE part      \* "services" or "policy"

-----------------------------------------------------------------------------
(* Of the starter's, the client's and the data service's rules, and of     *)
(* ipsecd's, two or three each.                                            *)

Rule(t, p) == [triple |-> t, perms |-> p]
Starter == Rule("starter socket", {"write"})
Client == Rule("client qtelephony", {"write", "sendto"})
Back == Rule("qtelephony client", {"sendto"})
DataService == Rule("dataservice prop", {"read"})
Prop == Rule("ipsecd wo_prop", {"read", "open"})
Find == Rule("ipsecd hwservice", {"find"})
Binder == Rule("ipsecd binder", {"call", "transfer"})

\* LG's closure may have any part of these.
MCDonors == SUBSET ({<<"starter socket", "write">>, <<"qtelephony client", "sendto">>,
                     <<"client qtelephony", "write">>,
                     <<"ipsecd wo_prop", "read">>, <<"ipsecd hwservice", "find">>})

MCCilAppend == <<Prop, Binder, Find>>
MCVowifiSepolicy == <<Prop, Find>>
MCImsSepolicyRule == <<Starter, Client, Back, DataService>>
MCImsLive == <<Client, Back>>
MCVowLive == <<Binder>>

-----------------------------------------------------------------------------

allVars == <<part, vars, policyVars>>

MCInit ==
    \/ part = "services" /\ Init /\ vowifi = FALSE /\ policy = {}
       /\ todo = Do("post-fs-data done") /\ label = FALSE
       /\ ipsecd = [is |-> "none"] /\ pending = FALSE
    \/ /\ part = "policy" /\ PolicyInit
       /\ Init /\ cache = None /\ apk = CHOOSE a \in Apks : TRUE

MCNext ==
    \/ part = "services" /\ Next /\ UNCHANGED <<part, policyVars>>
    \/ part = "policy" /\ PolicyNext /\ UNCHANGED <<part, vars>>

\* The fairness of both.
MCSpec ==
    /\ MCInit /\ [][MCNext]_allVars
    /\ WF_vars(PostFsData) /\ WF_vars(ImsService) /\ WF_vars(VowService)
    /\ WF_policyVars(part = "policy" /\ Script)
    /\ WF_policyVars(part = "policy" /\ InitStarts)
    /\ WF_policyVars(part = "policy" /\ InitRestarts)

=============================================================================
