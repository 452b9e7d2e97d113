-------------------------- MODULE DatabaseScreens ---------------------------
(***************************************************************************)
(* The databases of an account: their listing, the versions with their     *)
(* tables, columns, sub-fields, indexes and constraints, and the           *)
(* migrations.  A version's whole schema is one answer: the tables carry   *)
(* their columns and the columns their sub-fields.  See Panels.            *)
(***************************************************************************)
EXTENDS Panels

-----------------------------------------------------------------------------
(* The listing. *)

DatabaseFormModal ==
  Over({TagsField, Form("database", {"databases", "databases/*"})})

DatabasesTable == Screen(Shows("databases", "database", Row \cup Tallies), {})

\* Status, type, tags, lock and deletion from a row.
DatabasesList ==
  Over({DatabasesTable, DatabaseFormModal, EditableTagsCell, TagFilters,
        CanManageLock, ListView, Form("database", {"databases"})})

-----------------------------------------------------------------------------
(* One database. *)

\* The side navigation lists the versions and the migrations, each migration
\* with its state and the versions at its two ends.
UseVersionLookup == Options("databases/*/versions", "database_version")
DatabaseSideNav ==
  Over({Options("databases/*/versions", "database_version"),
        Options("databases/*/migrations", "database_migration"),
        UseVersionLookup})
DatabaseLayout == Detail("databases/*", "database")

DatabaseOverview ==
  Over({Detail("databases/*", "database"), DatabaseFormModal, CanManageLock,
        Screen({}, {Write("database", {"content"},
                          {"databases", "databases/*"})})})

DatabaseCommentsScreen == CommentsFeed("database", "databases/*/comments")

DatabaseVersionFormModal == Form("database_version", {"databases/*/versions"})

\* Status changes and deletions of versions.
DatabaseVersionsScreen ==
  Over({Screen(Shows("databases/*/versions", "database_version", Row), {}),
        DatabaseVersionFormModal,
        Form("database_version", {"databases/*/versions"})})

-----------------------------------------------------------------------------
(* The schema of a version. *)

Schema == "databases/*/versions/*/tables"
UseColumnTypes == Detail("core/databaseColumnTypes", "column_type")

TableFormModal == Over({TagsField, Form("database_table", {Schema})})
ColumnFormModal == Over({TagsField, Form("database_table_column", {Schema})})

SchemaGraph ==
  Over({Options(Schema, "database_table"),
        Options(Schema, "database_table_column"),
        Options(Schema, "database_table_column_subfield")})

\* A sub-field belongs to the listing under its column, and to the schema.
Subfields == "databases/*/versions/*/tables/*/columns/*/subfields"
SubfieldFormModal == Form("database_table_column_subfield", {Subfields, Schema})
ColumnSubfields ==
  Over({Screen(Shows(Subfields, "database_table_column_subfield", Row), {}),
        SubfieldFormModal,
        Form("database_table_column_subfield", {Subfields, Schema})})

ColumnRow ==
  Over({Screen(Shows(Schema, "database_table_column",
                     Row \cup {"comments", "votes"}), {}),
        ColumnSubfields, CanManageLock})

\* Columns are created in place, reordered and locked.
TableColumns == Over({ColumnRow, Form("database_table_column", {Schema})})

Indexes == "databases/*/versions/*/tables/*/indexes"
Constraints == "databases/*/versions/*/tables/*/constraints"
IndexFormModal == Form("database_table_index", {Indexes})
ConstraintFormModal == Form("database_table_constraint", {Constraints})
TableIndexesConstraints ==
  Over({Screen(Shows(Indexes, "database_table_index", Row)
                 \cup Shows(Constraints, "database_table_constraint", Row), {}),
        IndexFormModal, ConstraintFormModal,
        Form("database_table_index", {Indexes}),
        Form("database_table_constraint", {Constraints})})

TablesList ==
  Over({Screen(Shows(Schema, "database_table",
                     Row \cup {"comments", "votes"}), {}),
        TableColumns, TableIndexesConstraints})

\* Status, type, lock and deletion of a table, deletion of a column.
TablesScreen ==
  Over({TablesList, SchemaGraph, TableFormModal, ColumnFormModal,
        UseColumnTypes, CanManageLock, Form("database_table", {Schema}),
        Form("database_table_column", {Schema})})

VersionTablesPage ==
  Over({Detail("databases/*", "database"), TablesScreen,
        Detail("databases/*/versions/*", "database_version")})

TableCommentsDrawer ==
  CommentsFeed("database_table", "databases/*/versions/*/tables/*/comments")

\* The tallies of a column ride on the schema, which this drawer does not
\* refresh: ENTITY_QUERY_PATHS names the listing of columns.
ColumnCommentsDrawer ==
  CommentsFeed("database_table_column",
               "databases/*/versions/*/tables/*/columns/*/comments")

-----------------------------------------------------------------------------
(* Migrations. *)

Migrations == "databases/*/migrations"

MigrationFormModal ==
  Over({Form("database_migration", {Migrations}),
        Options("databases", "database"),
        Options("databases/*/versions", "database_version")})

MigrationEndpoints == Detail("databases/*", "database")

\* Lock and deletion from a row.
MigrationsScreen ==
  Over({Screen(Shows(Migrations, "database_migration",
                     Row \cup {"votes", "estimates"}), {}),
        MigrationEndpoints, UseVersionLookup, MigrationFormModal, CanManageLock,
        Form("database_migration", {Migrations})})

MigrationColumns == "databases/*/migrations/*/columns"

\* Each side of a step picks a table, a column and a sub-field.
MigrationSideFields ==
  Over({Options(Schema, "database_table"),
        Options(Schema, "database_table_column"),
        Options(Schema, "database_table_column_subfield")})
MigrationColumnFormModal ==
  Over({Form("database_migration_column", {MigrationColumns}),
        MigrationSideFields})

MigrationSteps ==
  Over({Screen(Shows(MigrationColumns, "database_migration_column",
                     Row \cup Tallies), {}),
        Options(Schema, "database_table"),
        Options(Schema, "database_table_column")})

\* The status and the lock of the migration refresh the listing of
\* migrations; those of a step, and its deletion, the listing of steps.
MigrationColumnsScreen ==
  Over({MigrationSteps, MigrationColumnFormModal, MigrationEndpoints,
        CanManageLock, Form("database_migration_column", {MigrationColumns}),
        Screen({}, {Write("database_migration", {"content"}, {Migrations})})})

\* The page hands the screen the migration it reads by itself.
MigrationPage ==
  Over({Screen(Shows("databases/*/migrations/*", "database_migration",
                     {"content", "comments"}), {}),
        MigrationColumnsScreen})

MigrationCommentsDrawer ==
  CommentsFeed("database_migration", "databases/*/migrations/*/comments")
MigrationColumnCommentsDrawer ==
  CommentsFeed("database_migration_column",
               "databases/*/migrations/*/columns/*/comments")

-----------------------------------------------------------------------------
(* The pages. *)

DatabaseTab(parts) ==
  Over({AccountBreadcrumb("databases/*", "database"), DatabaseLayout, DatabaseSideNav}
       \cup parts)

DatabasePages == [
  databases |-> DatabasesList,
  database |-> DatabaseTab({DatabaseOverview}),
  databaseComments |-> DatabaseTab({DatabaseCommentsScreen}),
  databaseVotes |-> DatabaseTab({VotesPanel("database")}),
  databaseComplexity |-> DatabaseTab({ComplexityPanel("database")}),
  databaseLinks |-> DatabaseTab({LinksPanel, LinkFormModal}),
  databaseVersions |-> DatabaseTab({DatabaseVersionsScreen}),
  tables |-> DatabaseTab({VersionTablesPage}),
  tableDrawer |-> DatabaseTab({VersionTablesPage, TableCommentsDrawer}),
  columnDrawer |-> DatabaseTab({VersionTablesPage, ColumnCommentsDrawer}),
  migrations |-> DatabaseTab({MigrationsScreen}),
  migration |-> DatabaseTab({MigrationPage}),
  migrationDrawer |-> DatabaseTab({MigrationPage, MigrationCommentsDrawer}),
  stepDrawer |-> DatabaseTab({MigrationPage, MigrationColumnCommentsDrawer})]
=============================================================================
