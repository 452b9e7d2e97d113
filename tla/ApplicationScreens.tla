------------------------- MODULE ApplicationScreens -------------------------
(***************************************************************************)
(* The applications of an account: their listing, the account-wide         *)
(* listings of components and bounded contexts, and the tabs of one        *)
(* application.  See Panels for the vocabulary.                            *)
(***************************************************************************)
EXTENDS Panels

-----------------------------------------------------------------------------
(* The listing. *)

ApplicationFormModal_DetailOnly ==
  Over({TagsField, Form("application", {"applications/*"})})
ApplicationFormModal ==
  Over({TagsField, Form("application", {"applications", "applications/*"})})

ApplicationsTable ==
  Screen(Shows("applications", "application", Row \cup Tallies), {})

\* Status, type, tags, lock and deletion from a row.
ApplicationsList ==
  Over({ApplicationsTable, ApplicationFormModal, EditableTagsCell, TagFilters,
        CanManageLock, ListView, Form("application", {"applications"})})

-----------------------------------------------------------------------------
(* One application. *)

ApplicationLayout == Detail("applications/*", "application")

\* Status, type, lock and the form.
ApplicationOverview ==
  Over({Detail("applications/*", "application"), ApplicationFormModal,
        CanManageLock,
        Screen({}, {Write("application", {"content"},
                          {"applications", "applications/*"})})})

CommentsScreen == CommentsFeed("application", "applications/*/comments")

EnvironmentFormModal == Form("environment", {"applications/*/environments"})
EnvironmentsScreen ==
  Over({Screen(Shows("applications/*/environments", "environment", Row), {}),
        EnvironmentFormModal,
        Form("environment", {"applications/*/environments"})})

VersionFormModal == Form("version", {"applications/*/versions"})
VersionsScreen ==
  Over({Screen(Shows("applications/*/versions", "version", Row), {}),
        VersionFormModal, Form("version", {"applications/*/versions"})})

RoleFormModal == Form("role", {"applications/*/roles"})
RolesScreen ==
  Over({Screen(Shows("applications/*/roles", "role", Row), {}),
        RoleFormModal, Form("role", {"applications/*/roles"})})

GuardFormModal == Over({TagsField, Form("guard", {"applications/*/guards"})})
GuardsScreen ==
  Over({Screen(Shows("applications/*/guards", "guard", Row), {}),
        GuardFormModal, EditableTagsCell, TagFilters,
        Form("guard", {"applications/*/guards"})})

\* The deployments of the environment picked, and the versions to pick from.
DeploymentsTable ==
  Over({Screen(Shows("applications/*/environments/*/versions", "deployment",
                     Row), {}),
        Options("applications/*/environments", "environment"),
        Options("applications/*/versions", "version")})

\* deploy, markFinished, markCancelled, markError and delete.
DeploymentsScreen ==
  Over({DeploymentsTable,
        Form("deployment", {"applications/*/environments/*/versions"})})

-----------------------------------------------------------------------------
(* Its routes. *)

RouteFormModal ==
  Over({TagsField, Form("application_route", {"applications/*/routes"}),
        Options("applications/*/guards", "guard"),
        Options("applications/*/roles", "role")})

RoutesTable ==
  Over({Screen(Shows("applications/*/routes", "application_route",
                     Row \cup {"comments", "votes"}), {}),
        Options("applications/*/guards", "guard"),
        Options("applications/*/roles", "role")})

\* Status, lock and deletion from a row.
RoutesScreen ==
  Over({RoutesTable, RouteFormModal, CanManageLock,
        Form("application_route", {"applications/*/routes"})})

RouteCommentsDrawer ==
  CommentsFeed("application_route", "applications/*/routes/*/comments")

-----------------------------------------------------------------------------
(* Its components, and those of the whole account. *)

ComponentQueries == {"applications/*/components", "components"}

ComponentFormModal ==
  Over({TagsField, Form("application_component", ComponentQueries)})

ComponentsTable ==
  Screen(Shows("applications/*/components", "application_component",
               Row \cup Tallies), {})

\* Status, type, tags, lock and deletion from a row.
ComponentsScreen ==
  Over({ComponentsTable, ComponentFormModal, EditableTagsCell, TagFilters,
        CanManageLock, Form("application_component", ComponentQueries)})

\* The tables of a database a component works on.
ComponentTableFormModal ==
  Over({Form("component_table", {"applications/*/components/*/tables"}),
        Options("databases", "database"),
        Options("databases/*/versions", "database_version"),
        Options("databases/*/versions/*/tables", "database_table")})
ComponentTablesPanel ==
  Over({Screen(Shows("applications/*/components/*/tables", "component_table",
                     Row), {}),
        ComponentTableFormModal,
        Form("component_table", {"applications/*/components/*/tables"})})

ComponentActivityDrawer ==
  Over({ComponentTablesPanel, VotesPanel("application_component"),
        ComplexityPanel("application_component"),
        CommentsFeed("application_component",
                     "applications/*/components/*/comments")})

AccountComponentsTable ==
  Screen(Shows("components", "application_component",
               Row \cup {"votes", "estimates"}), {})

\* Only the tags are edited here, and only this listing is refreshed.
AccountComponentsList ==
  Over({AccountComponentsTable, EditableTagsCell, TagFilters, ListView,
        Screen({}, {Write("application_component", {"content"},
                          {"components"})})})

-----------------------------------------------------------------------------
(* Its bounded contexts, and those of the whole account. *)

ContextQueries == {"applications/*/bounded-contexts", "bounded-contexts"}

BoundedContextFormModal ==
  Over({Form("application_bounded_context", ContextQueries),
        Options("applications/*/components", "application_component")})

BoundedContextsTable ==
  Over({Screen(Shows("applications/*/bounded-contexts",
                     "application_bounded_context", Row \cup Tallies), {}),
        Options("applications/*/components", "application_component")})

\* Lock and deletion from a row.
BoundedContextsScreen ==
  Over({BoundedContextsTable, BoundedContextFormModal, CanManageLock,
        Form("application_bounded_context", ContextQueries)})

BoundedContextActivityDrawer ==
  Over({VotesPanel("application_bounded_context"),
        ComplexityPanel("application_bounded_context"),
        CommentsFeed("application_bounded_context",
                     "applications/*/bounded-contexts/*/comments")})

AccountBoundedContextsList ==
  Over({Screen(Shows("bounded-contexts", "application_bounded_context",
                     Row \cup {"votes", "estimates"}), {}),
        ListView})

-----------------------------------------------------------------------------
(* The pages: a listing; or the layout of an application around one tab;   *)
(* or a tab with a drawer open over it.                                    *)

ApplicationTab(parts) ==
  Over({AccountBreadcrumb("applications/*", "application"), ApplicationLayout}
       \cup parts)

ApplicationPages == [
  applications |-> ApplicationsList,
  accountComponents |-> AccountComponentsList,
  accountContexts |-> AccountBoundedContextsList,
  application |-> ApplicationTab({ApplicationOverview}),
  applicationComments |-> ApplicationTab({CommentsScreen}),
  applicationVotes |-> ApplicationTab({VotesPanel("application")}),
  applicationComplexity |-> ApplicationTab({ComplexityPanel("application")}),
  applicationLinks |-> ApplicationTab({LinksPanel, LinkFormModal}),
  environments |-> ApplicationTab({EnvironmentsScreen}),
  versions |-> ApplicationTab({VersionsScreen}),
  roles |-> ApplicationTab({RolesScreen}),
  guards |-> ApplicationTab({GuardsScreen}),
  deployments |-> ApplicationTab({DeploymentsScreen}),
  routes |-> ApplicationTab({RoutesScreen}),
  routeDrawer |-> ApplicationTab({RoutesScreen, RouteCommentsDrawer}),
  components |-> ApplicationTab({ComponentsScreen}),
  componentDrawer |->
    ApplicationTab({ComponentsScreen, ComponentActivityDrawer}),
  contexts |-> ApplicationTab({BoundedContextsScreen}),
  contextDrawer |->
    ApplicationTab({BoundedContextsScreen, BoundedContextActivityDrawer})]
=============================================================================
