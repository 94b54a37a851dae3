----------------------------- MODULE MCComponents -----------------------------
(***************************************************************************)
(* The components that keep state of their own and share none of it, in    *)
(* one run: the first state chooses a component, and every later step is   *)
(* one of its own.  The states of the run are thus the states of the       *)
(* nine components one after the other, never their product.               *)
(***************************************************************************)
EXTENDS TrainingBudget, PilotBudget, InferenceAssets, JobFeed, PilotTraining,
        DatasetPreparation, SourceMaterialization, ConfigurationStore,
        MessageProtocol, TLC

VARIABLE part   \* the component that runs

Parts == {"training budget", "pilot budget", "assets", "feed", "pilot training",
          "preparation", "materialization", "settings", "messages"}

componentVars == <<part, budgetVars, pilotVars, assetVars, feedVars, pilotRunVars,
                   preparationVars, materializationVars, settingsVars,
                   messageVars>>

\* a component that does not run is at rest in one of its first states
AtRest ==
    /\ part # "preparation" =>
           rows = NoRows /\ \A f, g \in Files : source[f] = source[g] /\ source[f].content = Unreadable
    /\ part # "materialization" =>
           plan.source = "archive" /\ plan.labelled = {} /\ \A cap \in ImageCaps : plan.cap <= cap

ComponentsInit ==
    /\ part \in Parts
    /\ BudgetInit /\ PilotInit /\ AssetInit /\ FeedInit /\ PilotRunInit /\ SettingsInit
    /\ PreparationInit /\ MaterializationInit /\ MessageInit
    /\ AtRest

RestBudget == UNCHANGED budgetVars
RestPilot == UNCHANGED pilotVars
RestAssets == UNCHANGED assetVars
RestFeed == UNCHANGED feedVars
RestTraining == UNCHANGED pilotRunVars
RestPreparation == UNCHANGED preparationVars
RestMaterialization == UNCHANGED materializationVars
RestSettings == UNCHANGED settingsVars
RestMessages == UNCHANGED messageVars

ComponentsNext ==
    \/ /\ part = "training budget" /\ BudgetNext /\ UNCHANGED part
       /\ RestPilot /\ RestAssets /\ RestFeed /\ RestTraining /\ RestPreparation
       /\ RestMaterialization /\ RestSettings /\ RestMessages
    \/ /\ part = "pilot budget" /\ PilotNext /\ UNCHANGED part
       /\ RestBudget /\ RestAssets /\ RestFeed /\ RestTraining /\ RestPreparation
       /\ RestMaterialization /\ RestSettings /\ RestMessages
    \/ /\ part = "assets" /\ AssetNext /\ UNCHANGED part
       /\ RestBudget /\ RestPilot /\ RestFeed /\ RestTraining /\ RestPreparation
       /\ RestMaterialization /\ RestSettings /\ RestMessages
    \/ /\ part = "feed" /\ FeedNext /\ UNCHANGED part
       /\ RestBudget /\ RestPilot /\ RestAssets /\ RestTraining /\ RestPreparation
       /\ RestMaterialization /\ RestSettings /\ RestMessages
    \/ /\ part = "pilot training" /\ PilotRunNext /\ UNCHANGED part
       /\ RestBudget /\ RestPilot /\ RestAssets /\ RestFeed /\ RestPreparation
       /\ RestMaterialization /\ RestSettings /\ RestMessages
    \/ /\ part = "preparation" /\ PreparationNext /\ UNCHANGED part
       /\ RestBudget /\ RestPilot /\ RestAssets /\ RestFeed /\ RestTraining
       /\ RestMaterialization /\ RestSettings /\ RestMessages
    \/ /\ part = "materialization" /\ MaterializationNext /\ UNCHANGED part
       /\ RestBudget /\ RestPilot /\ RestAssets /\ RestFeed /\ RestTraining
       /\ RestPreparation /\ RestSettings /\ RestMessages
    \/ /\ part = "settings" /\ SettingsNext /\ UNCHANGED part
       /\ RestBudget /\ RestPilot /\ RestAssets /\ RestFeed /\ RestTraining
       /\ RestPreparation /\ RestMaterialization /\ RestMessages
    \/ /\ part = "messages" /\ MessageNext /\ UNCHANGED part
       /\ RestBudget /\ RestPilot /\ RestAssets /\ RestFeed /\ RestTraining
       /\ RestPreparation /\ RestMaterialization /\ RestSettings

ComponentsSpec == ComponentsInit /\ [][ComponentsNext]_componentVars

-----------------------------------------------------------------------------
PilotSeconds == [stage \in Stages |-> 4]
OneMapping == {[label \in UpstreamLabels |-> IF label = "a" THEN "train" ELSE "tuning"]}
SomePaths == {<<"x">>, <<"a", "x">>, <<"b", "x">>, <<"a", "b", "y">>}
SplitKeys == {<<"a">>, <<"b">>, <<"z">>, <<"b", "x">>}
LabelOf == [key \in SplitKeys |->
               CASE key = <<"z">> -> "b" [] key = <<"b", "x">> -> "b_x" [] OTHER -> key[1]]

\* the field of four elements, and a code over it that corrects one byte
Plus(a, b) == ((a \div 2 + b \div 2) % 2) * 2 + ((a + b) % 2)
Twice(a) == <<0, 2, 3, 1>>[a + 1]
FieldParity(data) == <<Plus(data[1], data[2]), Plus(data[1], Twice(data[2]))>>
TwoMessages == {<<>>, <<2>>}

\* the components share their model values, so that a few permutations serve them all
Alike == Permutations(InferenceJobs) \cup Permutations(ImageRefs)
=============================================================================
