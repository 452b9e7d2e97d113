--------------------------- MODULE JourneyScreens ---------------------------
(***************************************************************************)
(* The journeys of an account: their listing, the account-wide listing of  *)
(* scenarios, and the tabs of one journey down to the drawer of a step.    *)
(* See Panels for the vocabulary.                                          *)
(***************************************************************************)
EXTENDS Panels

UsePersonas == Options("personas", "persona")
EditablePersonasCell == UsePersonas

-----------------------------------------------------------------------------
(* The listing. *)

JourneyFormModal ==
  Over({TagsField, UsePersonas, Form("journey", {"journeys", "journeys/*"})})

JourneysTable == Screen(Shows("journeys", "journey", Row \cup Tallies), {})

\* Status, type, tags, personas and lock from a row.
JourneysList ==
  Over({JourneysTable, JourneyFormModal, EditableTagsCell, TagFilters,
        EditablePersonasCell, CanManageLock, ListView,
        Screen({}, {Write("journey", {"content"}, {"journeys"})})})

-----------------------------------------------------------------------------
(* One journey. *)

JourneyLayout == Detail("journeys/*", "journey")

\* The side navigation lists the scenarios with their state.
JourneySideNav == Options("journeys/*/scenarios", "journey_scenario")

\* Every field is edited in place; a deletion leaves for the listing, the only
\* answer it refreshes.
JourneyOverview ==
  Over({Detail("journeys/*", "journey"), EditableTagsCell,
        EditablePersonasCell, CanManageLock,
        Screen({}, {Write("journey", {"content"}, {"journeys", "journeys/*"}),
                    Write("journey", {"listing"}, {"journeys"})})})

JourneyCommentsScreen == CommentsFeed("journey", "journeys/*/comments")

\* The features a journey serves: the link, and the feature at its end whose
\* status and type are edited here.
LinkFeatureModal ==
  Over({Form("feature_journey", {"journeys/*/features"}),
        Options("features", "feature")})
JourneyFeaturesScreen ==
  Over({Screen(Shows("journeys/*/features", "feature_journey", Row)
                 \cup Shows("journeys/*/features", "feature", {"content"}),
               {Write("feature_journey", {"listing"}, {"journeys/*/features"}),
                Write("feature", {"content"},
                      {"journeys/*/features", "features"})}),
        LinkFeatureModal})

-----------------------------------------------------------------------------
(* Its scenarios, and those of the whole account. *)

ScenarioFormModal ==
  Over({TagsField, UsePersonas,
        Form("journey_scenario", {"journeys/*/scenarios"})})

\* Status, type and criticity from a row.
ScenariosScreen ==
  Over({Screen(Shows("journeys/*/scenarios", "journey_scenario",
                     Row \cup {"votes", "estimates"}),
               {Write("journey_scenario", {"content"},
                      {"journeys/*/scenarios"})}),
        ScenarioFormModal})

AccountScenariosTable ==
  Over({Screen(Shows("scenarios", "journey_scenario",
                     Row \cup {"votes", "estimates"}), {}),
        EditablePersonasCell, EditableTagsCell})

\* One patch for every editable cell; only this listing is refreshed.
AccountScenariosList ==
  Over({AccountScenariosTable, TagFilters, ListView,
        Screen({}, {Write("journey_scenario", {"content"}, {"scenarios"})})})

-----------------------------------------------------------------------------
(* The steps of a scenario. *)

Steps == "journeys/*/scenarios/*/steps"
UseActionTypes == Detail("core/actionTypes", "action_type")
UseAssertionTypes == Detail("core/assertionTypes", "assertion_type")

StepFormModal ==
  Over({TagsField, UseActionTypes, Form("journey_scenario_step", {Steps})})
StepList ==
  Over({Screen(Shows(Steps, "journey_scenario_step", Row), {}),
        UseActionTypes})

\* Step deletions refresh the steps; criticity, type, status and lock of the
\* scenario refresh the scenario the page reads.
ScenarioScreen ==
  Over({StepList, StepFormModal, UsePersonas, CanManageLock,
        Screen({}, {Write("journey_scenario_step", {"listing"}, {Steps}),
                    Write("journey_scenario", {"content"},
                          {"journeys/*/scenarios/*"})})})

\* The form of the scenario opens from its page.
ScenarioPage ==
  Over({Detail("journeys/*/scenarios/*", "journey_scenario"), ScenarioScreen,
        ScenarioFormModal})

StepFileQuery == {"journeys/*/scenarios/*/steps/*/files"}
StepFileFormModal == Form("step_file", StepFileQuery)

\* Upload, activate, archive and delete.
StepFiles ==
  Over({Screen(Shows("journeys/*/scenarios/*/steps/*/files", "step_file",
                     Row), {}),
        StepFileFormModal, Form("step_file", StepFileQuery)})

AssertionQuery == {"journeys/*/scenarios/*/steps/*/assertions"}
AssertionFormModal ==
  Over({UseAssertionTypes, Form("step_assertion", AssertionQuery)})
StepAssertions ==
  Over({Screen(Shows("journeys/*/scenarios/*/steps/*/assertions",
                     "step_assertion", Row), {}),
        UseAssertionTypes, AssertionFormModal,
        Form("step_assertion", AssertionQuery)})

StepRouteQuery == {"journeys/*/scenarios/*/steps/*/routes"}
LinkRouteModal ==
  Over({Form("step_route", StepRouteQuery),
        Options("applications", "application"),
        Options("applications/*/routes", "application_route")})
StepRoutes ==
  Over({Screen(Shows("journeys/*/scenarios/*/steps/*/routes", "step_route",
                     Row),
               {Write("step_route", {"listing"}, StepRouteQuery)}),
        LinkRouteModal})

\* The drawer locks the step and shows its files, assertions and routes.
StepDrawer ==
  Over({UseActionTypes, CanManageLock, StepFiles, StepAssertions, StepRoutes,
        Screen({}, {Write("journey_scenario_step", {"content"}, {Steps})})})

-----------------------------------------------------------------------------
(* The pages. *)

JourneyTab(parts) ==
  Over({AccountBreadcrumb("journeys/*", "journey"), JourneyLayout, JourneySideNav}
       \cup parts)

JourneyPages == [
  journeys |-> JourneysList,
  accountScenarios |-> AccountScenariosList,
  journey |-> JourneyTab({JourneyOverview}),
  journeyComments |-> JourneyTab({JourneyCommentsScreen}),
  journeyVotes |-> JourneyTab({VotesPanel("journey")}),
  journeyComplexity |-> JourneyTab({ComplexityPanel("journey")}),
  journeyLinks |-> JourneyTab({LinksPanel, LinkFormModal}),
  journeyFeatures |-> JourneyTab({JourneyFeaturesScreen}),
  scenarios |-> JourneyTab({ScenariosScreen}),
  scenario |-> JourneyTab({ScenarioPage}),
  stepOfScenario |-> JourneyTab({ScenarioPage, StepDrawer})]
=============================================================================
