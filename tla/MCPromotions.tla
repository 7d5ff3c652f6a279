---------------------------- MODULE MCPromotions ----------------------------
(***************************************************************************)
(* Promotions in two settings: in "serial" people run one command at a     *)
(* time and nothing dies, in "concurrent" two promoters, each of which may *)
(* die, race with pushes and with envs --set.  A batch is of a home        *)
(* screen, a detail screen it may navigate to, and an api spec.            *)
(***************************************************************************)
EXTENDS EnvironmentPromotionProofs

CONSTANT Regimes   \* the settings to look at
VARIABLE regime

\* A screen that needs an endpoint, an api that serves it and one that does not.
ScreenDoc(refs, endpoints) == [isApi |-> FALSE, refs |-> refs, endpoints |-> endpoints]
ApiDoc(endpoints) == [isApi |-> TRUE, refs |-> {}, endpoints |-> endpoints]
ContractDocs == {ScreenDoc({}, {"e"}), ApiDoc({"e"}), ApiDoc({})}
ContractBatches == {<<"home", "api">>, <<"home">>, <<"api">>}
ContractApis == {<<>>, <<"api">>}

\* Plain screens that are promoted together, or one that navigates to another.
PlainDocs == {ScreenDoc({}, {})}
PairBatch == {<<"home", "detail">>}
CrossDocs == {ScreenDoc({"detail"}, {})}
CrossBatches == {<<"home">>}
NoApis == {<<>>}

DevToProd == {<<"dev", "prod">>}
-----------------------------------------------------------------------------
Serially == INSTANCE EnvironmentPromotionProofs
              WITH Serial <- TRUE, Mortal <- {}, Promoter <- {"p1"}, MaxVersion <- 2, MaxJobs <- 3

regimeVars == <<promoteVars, regime>>

RegimeInit ==
    /\ regime \in Regimes
    /\ IF regime = "serial" THEN Serially!PromoteInit ELSE PromoteInit

RegimeNext ==
    /\ \/ regime = "serial" /\ Serially!PromoteNext
       \/ regime = "concurrent" /\ PromoteNext
    /\ UNCHANGED regime

RegimeSpec == RegimeInit /\ [][RegimeNext]_regimeVars

\* With one command at a time the destination holds, after a promotion, the planned versions,
\* which pass the contract that the gate checked (PromotedBatchConsistent).
DestinationSound ==
    IF regime = "serial" THEN Serially!PromoteTypeOK /\ Serially!PromotedBatchConsistent ELSE PromoteTypeOK
=============================================================================
