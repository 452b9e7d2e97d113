--------------------------- MODULE AccountScreens ---------------------------
(***************************************************************************)
(* What surrounds every page of an account, the user's own pages, the      *)
(* administration of an account and its dashboard.  See Panels.            *)
(***************************************************************************)
EXTENDS Panels

-----------------------------------------------------------------------------
(* The shell: who one is, the accounts one belongs to, the menu.            *)

CreateAccountModal == Creation("account", {"/accounts"})
SearchModal == Detail("search", "search_result")
AccountSwitcher ==
  Over({Options("/accounts", "account"), CreateAccountModal, SearchModal})

\* The menu offers the administration to the owner and administrators.
NavMenu == Detail("/accounts/*", "account")
UserMenu ==
  Over({Detail("/me", "user"), Options("/me/invitations", "invitation")})

AppShell == Over({AccountSwitcher, UserMenu})
AccountShell == Over({AppShell, NavMenu, Detail("/accounts/*", "account")})

-----------------------------------------------------------------------------
(* The dashboard. *)

Recent(queryPath, entity) == Options(queryPath, entity)
ActivityFeed ==
  Over({Recent("features", "feature"), Recent("journeys", "journey"),
        Recent("scenarios", "journey_scenario"),
        Recent("applications", "application"),
        Recent("databases", "database"), Recent("services", "service")})
RecentComments == Options("comments", "comment")
RecentVotes == Options("votes", "vote")
AccountDashboardScreen ==
  Over({Detail("/accounts/*", "account"), Detail("stats", "stats"),
        ActivityFeed, RecentComments, RecentVotes})

-----------------------------------------------------------------------------
(* Administration. *)

\* Changing the complexity modes refreshes the account alone: the listing of
\* accounts does not show them.
AccountComplexityModes ==
  Screen(Shows("/accounts/*", "complexity_mode", {"content"}),
         {Write("complexity_mode", {"content"}, {"/accounts/*"})})

\* Name and picture.
AccountInformation ==
  Over({Detail("/accounts/*", "account"), AccountComplexityModes,
        Screen({}, {Write("account", {"content"},
                          {"/accounts/*", "/accounts"})})})

\* Roles, vote roles and removals; of one's own row only the vote role.
AccountMembers == Over({Options("users", "member"), Form("member", {"users"})})
AccountMembersScreen == Over({Detail("/accounts/*", "account"), AccountMembers})

InviteMembersModal == Creation("seat_invitation", {"invitations"})

\* Resend and cancel.
AccountInvitations ==
  Over({Options("invitations", "seat_invitation"), InviteMembersModal,
        Form("seat_invitation", {"invitations"})})
AccountInvitationsScreen ==
  Over({Detail("/accounts/*", "account"), AccountInvitations})

AccountUsageScreen == Detail("usage", "usage")

\* Activation and deactivation stay on the page; leaving and deleting do not.
AccountAdvanced ==
  Over({Detail("/accounts/*", "account"),
        Screen({}, {Write("account", {"content"}, {"/accounts/*", "/accounts"}),
                    Write("account", {"listing"}, {"/accounts"})})})

-----------------------------------------------------------------------------
(* The user's own pages. *)

AccountsList == Over({Options("/accounts", "account"), CreateAccountModal})

\* Accepting an invitation adds an account.
MeInvitationsList ==
  Screen(Shows("/me/invitations", "invitation", Row),
         {Write("invitation", Row, {"/me/invitations", "/accounts"}),
          Write("account", {"listing"}, {"/me/invitations", "/accounts"})})

ProfilePicture == Screen({}, {Write("user", {"content"}, {"/me"})})
ProfileScreen ==
  Over({Detail("/me", "user"), ProfilePicture,
        Screen({}, {Write("user", {"content"}, {"/me"})})})
PreferencesScreen ==
  Over({Detail("/me", "user"), Screen({}, {Write("user", {"content"}, {"/me"})})})

\* The overview says which factors are set; each card lists its own.
Overview(refreshes) ==
  Screen({}, {Write("factors", {"content"}, {"/me/security"} \cup refreshes)})
PasswordCard == Overview({})
OtpCard ==
  Over({Options("/me/security/otp", "otp"), Overview({"/me/security/otp"}),
        Form("otp", {"/me/security", "/me/security/otp"})})
SecurityKeysCard ==
  Over({Options("/me/security/u2f", "u2f"), Overview({"/me/security/u2f"}),
        Form("u2f", {"/me/security", "/me/security/u2f"})})
SecurityScreen ==
  Over({Detail("/me/security", "factors"), PasswordCard, OtpCard,
        SecurityKeysCard})
ActivityLogCard == Options("/me/security/logs", "security_log")

IntegrationGrantsList ==
  Screen(Shows("/me/integrations/grants", "grant", Row),
         {Write("grant", {"listing"}, {"/me/integrations/grants"})})

-----------------------------------------------------------------------------
(* The pages. *)

AccountPages == [
  dashboard |-> AccountDashboardScreen,
  information |-> AccountInformation,
  members |-> AccountMembersScreen,
  invitations |-> AccountInvitationsScreen,
  usage |-> AccountUsageScreen,
  advanced |-> AccountAdvanced]

MePages == [
  profile |-> ProfileScreen,
  settings |-> PreferencesScreen,
  security |-> SecurityScreen,
  logs |-> ActivityLogCard,
  integrations |-> IntegrationGrantsList,
  myAccounts |-> AccountsList,
  myInvitations |-> MeInvitationsList]
=============================================================================
