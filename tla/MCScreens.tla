----------------------------- MODULE MCScreens ------------------------------
(***************************************************************************)
(* QueryCache over the pages of the client: every page within its shell,   *)
(* and each drawer over its page.  The table QueryCache is given is read   *)
(* off the components.                                                     *)
(***************************************************************************)
EXTENDS QueryCache, ApplicationScreens, DatabaseScreens, JourneyScreens,
        CatalogScreens, AccountScreens, Sequences, TLC

OfAccount == ApplicationPages @@ DatabasePages @@ JourneyPages
               @@ CatalogPages @@ [tags |-> TagsScreen] @@ AccountPages

AllPages == [p \in DOMAIN OfAccount |-> Over({AccountShell, OfAccount[p]})]
              @@ [p \in DOMAIN MePages |-> Over({AppShell, MePages[p]})]

AllPlaces == DOMAIN AllPages

QueriesOf(screen) == {shown[1] : shown \in screen.shows}
                       \cup UNION {w.refreshes : w \in screen.writes}
FactsOf(screen) == {shown[2] : shown \in screen.shows}
                     \cup UNION {w.changes : w \in screen.writes}
Everything == Over({OfAccount[p] : p \in DOMAIN OfAccount}
                     \cup {MePages[p] : p \in DOMAIN MePages}
                     \cup {AccountShell})
AllQueries == QueriesOf(Everything)
AllFacts == FactsOf(Everything)

-----------------------------------------------------------------------------
(* Where a page displays a fact, offers a write that changes it, and the   *)
(* handler does not refresh the query it was read from.                    *)

Scenarios == "journeys/*/scenarios"

\* Status and lock of a migration or of a scenario refresh the listing or the
\* detail, while the page shows both.
ContentGaps ==
  ({"migration", "migrationDrawer", "stepDrawer"}
     \X {Migrations \o "/*"} \X {<<"database_migration", "content">>})
  \cup ({"scenario", "stepOfScenario"} \X {Scenarios, Scenarios \o "/*"}
          \X {<<"journey_scenario", "content">>})

\* A reply counts as a comment and refreshes the replies only; an estimate
\* refreshes the estimates only; the comments of a column or of a migration
\* refresh another query than the one their tally came with.
Commented ==
  {<<"routeDrawer", "applications/*/routes", "application_route">>,
   <<"componentDrawer", "applications/*/components", "application_component">>,
   <<"contextDrawer", "applications/*/bounded-contexts",
     "application_bounded_context">>,
   <<"tableDrawer", "databases/*/versions/*/tables", "database_table">>,
   <<"columnDrawer", "databases/*/versions/*/tables", "database_table_column">>,
   <<"migrationDrawer", Migrations \o "/*", "database_migration">>,
   <<"stepDrawer", Migrations \o "/*/columns", "database_migration_column">>,
   <<"actionDrawer", "services/*/actions", "service_action">>,
   <<"personaDrawer", "personas", "persona">>}

TallyGaps ==
  {<<c[1], c[2], <<c[3], "comments">>>> : c \in Commented}
  \cup {<<c[1], c[2], <<c[3], "estimates">>>> :
          c \in {d \in Commented : d[1] \in {"componentDrawer", "contextDrawer"}}}

KnownGaps == ContentGaps \cup TallyGaps

\* With the gaps of the tallies left in: a comment, a vote or an estimate is
\* counted wherever the entity is shown.
CountsFollow == ScreenKeepsUp

Symmetry == Permutations(Caller)
=============================================================================
