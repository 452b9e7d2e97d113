--------------------------- MODULE CatalogScreens ---------------------------
(***************************************************************************)
(* The features, services and personas of an account, its tags and its     *)
(* search page.  See Panels for the vocabulary.                            *)
(***************************************************************************)
EXTENDS Panels

-----------------------------------------------------------------------------
(* Features. *)

FeatureFormModal ==
  Over({TagsField, Form("feature", {"features", "features/*"})})

FeaturesTable == Screen(Shows("features", "feature", Row \cup Tallies), {})

\* Status, type, tags and lock from a row.
FeaturesList ==
  Over({FeaturesTable, FeatureFormModal, EditableTagsCell, TagFilters,
        CanManageLock, ListView,
        Screen({}, {Write("feature", {"content"}, {"features"})})})

FeatureLayout == Detail("features/*", "feature")

\* Every field is edited in place; a deletion leaves for the listing.
FeatureOverview ==
  Over({Detail("features/*", "feature"), EditableTagsCell, CanManageLock,
        Screen({}, {Write("feature", {"content"}, {"features", "features/*"}),
                    Write("feature", {"listing"}, {"features"})})})

FeatureCommentsScreen == CommentsFeed("feature", "features/*/comments")

FeatureFileFormModal == Form("feature_file", {"features/*/files"})

\* Upload, activate, archive, type and delete.
FeatureFilesScreen ==
  Over({Screen(Shows("features/*/files", "feature_file", Row), {}),
        FeatureFileFormModal, Form("feature_file", {"features/*/files"})})

LinkJourneyModal ==
  Over({Form("feature_journey", {"features/*/journeys"}),
        Options("journeys", "journey")})
FeatureJourneysScreen ==
  Over({Screen(Shows("features/*/journeys", "feature_journey", Row)
                 \cup Shows("features/*/journeys", "journey", {"content"}),
               {Write("feature_journey", {"listing"}, {"features/*/journeys"}),
                Write("journey", {"content"},
                      {"features/*/journeys", "journeys"})}),
        LinkJourneyModal})

-----------------------------------------------------------------------------
(* Services and their actions. *)

ServiceFormModal == Form("service", {"services", "services/*"})

ServicesTable == Screen(Shows("services", "service", Row \cup Tallies), {})

\* Status, type, category, lock and deletion from a row.
ServicesList ==
  Over({ServicesTable, ServiceFormModal, CanManageLock, ListView,
        Form("service", {"services"})})

ServiceLayout == Detail("services/*", "service")
ServicePicture ==
  Screen({}, {Write("service", {"content"}, {"services", "services/*"})})
ServiceOverview ==
  Over({Detail("services/*", "service"), ServicePicture, ServiceFormModal,
        CanManageLock,
        Screen({}, {Write("service", {"content"},
                          {"services", "services/*"})})})

ServiceCommentsScreen == CommentsFeed("service", "services/*/comments")

ActionFormModal == Form("service_action", {"services/*/actions"})
ActionsTable ==
  Screen(Shows("services/*/actions", "service_action",
               Row \cup {"comments", "votes"}), {})

\* Status, type, lock and deletion from a row.
ActionsScreen ==
  Over({ActionsTable, ActionFormModal, CanManageLock,
        Form("service_action", {"services/*/actions"})})

ActionCommentsDrawer ==
  CommentsFeed("service_action", "services/*/actions/*/comments")

-----------------------------------------------------------------------------
(* Personas, which have no page of their own. *)

PersonaFormModal == Over({TagsField, Form("persona", {"personas"})})

PersonasTable == Screen(Shows("personas", "persona", Row \cup Tallies), {})

\* Status, type, tags, lock and deletion from a row.
PersonasList ==
  Over({PersonasTable, PersonaFormModal, EditableTagsCell, TagFilters,
        CanManageLock, ListView, Form("persona", {"personas"})})

PersonaCommentsDrawer == CommentsFeed("persona", "personas/*/comments")

-----------------------------------------------------------------------------
(* Tags and search. *)

TagFormModal == Form("tag", {"tags"})
TagsScreen ==
  Over({Screen(Shows("tags", "tag", Row), {}), TagFormModal,
        Form("tag", {"tags"})})

SearchPage ==
  Screen(Shows("search", "search_result", Row)
           \cup Shows("search/counts", "search_result", {"listing"}), {})

-----------------------------------------------------------------------------
(* The pages. *)

FeatureTab(parts) ==
  Over({AccountBreadcrumb("features/*", "feature"), FeatureLayout} \cup parts)
ServiceTab(parts) ==
  Over({AccountBreadcrumb("services/*", "service"), ServiceLayout} \cup parts)

CatalogPages == [
  features |-> FeaturesList,
  feature |-> FeatureTab({FeatureOverview}),
  featureComments |-> FeatureTab({FeatureCommentsScreen}),
  featureVotes |-> FeatureTab({VotesPanel("feature")}),
  featureComplexity |-> FeatureTab({ComplexityPanel("feature")}),
  featureLinks |-> FeatureTab({LinksPanel, LinkFormModal}),
  featureFiles |-> FeatureTab({FeatureFilesScreen}),
  featureJourneys |-> FeatureTab({FeatureJourneysScreen}),
  services |-> ServicesList,
  service |-> ServiceTab({ServiceOverview}),
  serviceComments |-> ServiceTab({ServiceCommentsScreen}),
  serviceVotes |-> ServiceTab({VotesPanel("service")}),
  serviceComplexity |-> ServiceTab({ComplexityPanel("service")}),
  serviceLinks |-> ServiceTab({LinksPanel, LinkFormModal}),
  actions |-> ServiceTab({ActionsScreen}),
  actionDrawer |-> ServiceTab({ActionsScreen, ActionCommentsDrawer}),
  personas |-> PersonasList,
  personaDrawer |-> Over({PersonasList, PersonaCommentsDrawer}),
  search |-> SearchPage]
=============================================================================
