------------------------------ MODULE Surfaces ------------------------------
(***************************************************************************)
(* The two surfaces of Blob Yard's client: the commands a person types and *)
(* the tools an agent calls over MCP.  Each operation is known by its tool *)
(* name without the blobyard_ prefix, or by its command when it has no     *)
(* tool.  A tool is described twice, once to the agent by the catalogue's  *)
(* schemas and once in the parsers that read the call; both are here.      *)
(***************************************************************************)
EXTENDS WireContract

\* Every tool and every command takes the scope it works in.
Args(required, optional) ==
    [requires |-> required, accepts |-> required \cup optional \cup Scoped]

\* Arguments that must be true for the call to go on.
Confirmed(required) == Args(required \cup {"confirm"}, {})

-----------------------------------------------------------------------------
(* The tools' parsers.                                                     *)

RegularTools ==
    LET none == Args({}, {})
    IN [whoami |-> none, list_workspaces |-> none, list_projects |-> none,
        get_retention |-> none, list_inboxes |-> none, list_shares |-> none,
        list_previews |-> none, clear_retention |-> none,
        create_workspace |-> Args({"name"}, {}),
        create_project   |-> Args({"name"}, {}),
        list_objects     |-> Args({}, {"prefix", "versions"}),
        upload_file      |-> Args({"source"}, {"path", "include_ignored"}),
        download_file    |-> Args({"uri", "output"}, {"force"}),
        delete_object    |-> Args({"uri"}, {}),
        create_share     |-> Args({"target"}, {"expires", "notify"}),
        revoke_share     |-> Args({"share_id"}, {}),
        create_preview   |-> Args({"directory"}, {"expires"}),
        revoke_preview   |-> Args({"preview_id"}, {}),
        create_inbox     |-> Args({"name"}, {"expires"}),
        revoke_inbox     |-> Args({"inbox_id"}, {}),
        set_retention    |-> Args({"latest"}, {"branch", "path"})]

AdminTools ==
    LET none == Args({}, {})
    IN [list_audit |-> Args({}, {"cursor"}),
        list_members |-> none, list_invites |-> none, list_local_users |-> none,
        list_api_tokens |-> none, list_ci_trusts |-> none, list_cli_sessions |-> none,
        create_invite   |-> Args({"email", "role"}, {}),
        create_ci_trust |-> Args({"repository", "workflow_path", "workflow_ref",
                                  "allowed_ref_glob", "allowed_actions"}, {"environment"}),
        revoke_invite         |-> Confirmed({"invite_id"}),
        update_member_role    |-> Confirmed({"user_id", "role"}),
        remove_member         |-> Confirmed({"user_id"}),
        deactivate_local_user |-> Confirmed({"user_id"}),
        revoke_api_token      |-> Confirmed({"token_id"}),
        revoke_ci_trust       |-> Confirmed({"trust_id"}),
        revoke_cli_session    |-> Confirmed({"session_id"})]

GroupTools ==
    [list_groups         |-> Args({}, {"cursor"}),
     create_group        |-> Args({"name"}, {}),
     rename_group        |-> Args({"group_id", "name"}, {}),
     list_group_members  |-> Args({"group_id"}, {"cursor"}),
     add_group_member    |-> Args({"group_id", "user_id"}, {}),
     remove_group_member |-> Confirmed({"group_id", "user_id"}),
     deactivate_group    |-> Confirmed({"group_id"})]

DashboardTools ==
    LET none == Args({}, {})
    IN [get_billing |-> none, get_account_export |-> none, request_account_export |-> none,
        get_account_deletion |-> none, get_retention_overview |-> none,
        rename_workspace |-> Args({"name"}, {})]

YardTools ==
    LET named == Args({"yard"}, {})
    IN [deploy_web_yard |-> Args({"directory", "yard", "public"}, {"spa", "clean_urls"}),
        list_web_yards  |-> Args({}, {}),
        list_yard_deploys |-> named, list_yard_environments |-> named,
        get_yard_access |-> named, get_yard_application_policy |-> named,
        list_yard_sessions |-> named,
        set_yard_visibility |-> Args({"yard", "visibility"}, {}),
        grant_yard_access   |-> Args({"yard", "principal_kind", "principal_id"},
                                     {"roles", "environment_id", "expires_at"}),
        revoke_yard_access  |-> Args({"yard", "grant_id"}, {}),
        revoke_yard_session |-> Args({"yard", "session_id"}, {}),
        rollback_web_yard   |-> Args({"yard"}, {"deploy_id"}),
        delete_web_yard     |-> Confirmed({"yard"})]

IdentityTools ==
    [list_yard_management_roles  |-> Args({"yard"}, {"cursor"}),
     set_yard_management_role    |-> Args({"yard", "user_id", "role"}, {}),
     revoke_yard_management_role |-> Args({"yard", "user_id"}, {}),
     set_yard_application_policy |-> Args({"yard", "source_manifest_digest", "default_role",
                                           "roles"}, {}),
     set_yard_access_roles       |-> Args({"yard", "grant_id", "roles"}, {})]

GuestInviteTools ==
    [list_yard_guest_invites  |-> Args({"yard"}, {"cursor"}),
     create_yard_guest_invite |-> Args({"yard", "email"}, {"roles", "environment_id", "expires_at"}),
     revoke_yard_guest_invite |-> Args({"yard", "invitation_id"}, {})]

\* Every tool that the server's parser knows.
Tools ==
    Merge({RegularTools, AdminTools, GroupTools, DashboardTools, YardTools,
           IdentityTools, GuestInviteTools})

-----------------------------------------------------------------------------
(* The catalogue: what the agent is told, as JSON schemas.  They refuse    *)
(* arguments they do not list.                                             *)

CatalogRegular ==
    LET scope == Args({}, {})
    IN [whoami |-> scope, list_workspaces |-> scope, list_projects |-> scope,
        get_retention |-> scope, list_inboxes |-> scope, list_shares |-> scope,
        list_previews |-> scope, clear_retention |-> scope,
        create_workspace |-> Args({"name"}, {}),
        create_project   |-> Args({"name"}, {}),
        list_objects     |-> Args({}, {"prefix", "versions"}),
        upload_file      |-> Args({"source"}, {"path", "include_ignored"}),
        download_file    |-> Args({"uri", "output"}, {"force"}),
        delete_object    |-> Args({"uri"}, {}),
        create_share     |-> Args({"target"}, {"expires", "notify"}),
        revoke_share     |-> Args({"share_id"}, {}),
        create_preview   |-> Args({"directory"}, {"expires"}),
        revoke_preview   |-> Args({"preview_id"}, {}),
        create_inbox     |-> Args({"name"}, {"expires"}),
        revoke_inbox     |-> Args({"inbox_id"}, {}),
        set_retention    |-> Args({"latest"}, {"branch", "path"}),
        deploy_web_yard   |-> Args({"directory", "yard", "public"}, {"spa", "clean_urls"}),
        list_web_yards    |-> scope,
        list_yard_deploys |-> Args({"yard"}, {}),
        list_yard_environments |-> Args({"yard"}, {}),
        rollback_web_yard |-> Args({"yard"}, {"deploy_id"}),
        delete_web_yard   |-> Confirmed({"yard"})]

CatalogAccess ==
    [get_yard_access     |-> Args({"yard"}, {}),
     set_yard_visibility |-> Args({"yard", "visibility"}, {}),
     grant_yard_access   |-> Args({"yard", "principal_kind", "principal_id"},
                                  {"roles", "environment_id", "expires_at"}),
     revoke_yard_access  |-> Args({"yard", "grant_id"}, {}),
     list_yard_guest_invites  |-> Args({"yard"}, {"cursor"}),
     create_yard_guest_invite |-> Args({"yard", "email"},
                                       {"roles", "environment_id", "expires_at"}),
     revoke_yard_guest_invite |-> Args({"yard", "invitation_id"}, {})]

CatalogIdentity ==
    [list_yard_management_roles  |-> Args({"yard"}, {"cursor"}),
     set_yard_management_role    |-> Args({"yard", "user_id", "role"}, {}),
     revoke_yard_management_role |-> Args({"yard", "user_id"}, {}),
     get_yard_application_policy |-> Args({"yard"}, {}),
     set_yard_application_policy |-> Args({"yard", "source_manifest_digest", "default_role",
                                           "roles"}, {}),
     set_yard_access_roles       |-> Args({"yard", "grant_id", "roles"}, {}),
     list_yard_sessions          |-> Args({"yard"}, {}),
     revoke_yard_session         |-> Args({"yard", "session_id"}, {})]

\* An administrative tool that works in a workspace must be told which.
CatalogAdmin ==
    LET within(required, optional) == Args(required \cup {"workspace"}, optional)
    IN [list_audit |-> within({}, {"cursor"}),
        list_members |-> within({}, {}), list_invites |-> within({}, {}),
        list_local_users |-> within({}, {}), list_ci_trusts |-> within({}, {}),
        list_api_tokens |-> Args({}, {}), list_cli_sessions |-> Args({}, {}),
        create_invite   |-> within({"email", "role"}, {}),
        create_ci_trust |-> within({"repository", "workflow_path", "workflow_ref",
                                    "allowed_ref_glob", "allowed_actions"}, {"environment"}),
        revoke_invite         |-> within({"invite_id", "confirm"}, {}),
        update_member_role    |-> within({"user_id", "role", "confirm"}, {}),
        remove_member         |-> within({"user_id", "confirm"}, {}),
        deactivate_local_user |-> Confirmed({"user_id"}),
        revoke_api_token      |-> Confirmed({"token_id"}),
        revoke_ci_trust       |-> Confirmed({"trust_id"}),
        revoke_cli_session    |-> Confirmed({"session_id"})]

CatalogGroups ==
    [list_groups         |-> Args({"workspace"}, {"cursor"}),
     create_group        |-> Args({"workspace", "name"}, {}),
     rename_group        |-> Args({"group_id", "name"}, {}),
     list_group_members  |-> Args({"group_id"}, {"cursor"}),
     add_group_member    |-> Args({"group_id", "user_id"}, {}),
     remove_group_member |-> Confirmed({"group_id", "user_id"}),
     deactivate_group    |-> Confirmed({"group_id"})]

CatalogDashboard ==
    LET scope == Args({}, {})
    IN [get_billing |-> scope, get_account_export |-> scope,
        request_account_export |-> scope, get_account_deletion |-> scope,
        get_retention_overview |-> scope, rename_workspace |-> Args({"name"}, {})]

Catalog ==
    Merge({CatalogRegular, CatalogAccess, CatalogIdentity, CatalogAdmin, CatalogGroups,
           CatalogDashboard})

\* The tools the catalogue declares to change nothing.
ReadOnlyRegular ==
    {"whoami", "list_workspaces", "list_projects", "list_objects", "list_inboxes",
     "list_shares", "list_previews", "list_web_yards", "list_yard_deploys",
     "list_yard_environments", "list_yard_guest_invites", "list_yard_management_roles",
     "list_yard_sessions", "get_retention", "get_yard_access", "get_yard_application_policy"}

ReadOnlyAdmin ==
    {"list_audit", "list_members", "list_invites", "list_local_users", "list_api_tokens",
     "list_ci_trusts", "list_cli_sessions"}

ReadOnlyGroups == {"list_groups", "list_group_members"}

ReadOnlyDashboard ==
    {"get_billing", "get_account_export", "get_account_deletion", "get_retention_overview"}

ReadOnly == ReadOnlyRegular \cup ReadOnlyAdmin \cup ReadOnlyGroups \cup ReadOnlyDashboard

-----------------------------------------------------------------------------
(* The commands' grammar.  A yard may be left out where the project's only *)
(* yard is meant.                                                          *)

ResourceCommands ==
    [whoami |-> Args({}, {}), logout |-> Args({}, {}), login |-> Args({}, {"name", "no_open"}),
     list_projects    |-> Args({}, {}),
     create_project   |-> Args({"name"}, {}),
     upload_file      |-> Args({"source"}, {"path", "include_ignored"}),
     download_file    |-> Args({"uri", "output"}, {"force"}),
     list_objects     |-> Args({}, {"prefix", "versions"}),
     delete_object    |-> Args({"uri"}, {}),
     create_share     |-> Args({"target"}, {"expires", "notify"}),
     share_file       |-> Args({"target"}, {"expires", "notify"}),
     create_preview   |-> Args({"directory"}, {"expires"})]

LinkCommands ==
    [create_inbox    |-> Args({"name"}, {"expires"}),
     list_inboxes    |-> Args({}, {}),
     revoke_inbox    |-> Args({"inbox_id"}, {}),
     set_retention   |-> Args({"latest"}, {"branch", "path"}),
     get_retention   |-> Args({}, {}),
     clear_retention |-> Args({}, {}),
     get_retention_overview |-> Args({}, {})]

WorkspaceCommands ==
    [list_workspaces  |-> Args({}, {}),
     create_workspace |-> Args({"name"}, {}),
     rename_workspace |-> Args({"name"}, {}),
     list_shares      |-> Args({}, {}),
     revoke_share     |-> Args({"share_id"}, {}),
     list_previews    |-> Args({}, {}),
     revoke_preview   |-> Args({"preview_id"}, {}),
     list_audit       |-> Args({}, {"cursor"}),
     list_groups         |-> Args({}, {"cursor"}),
     create_group        |-> Args({"name"}, {}),
     rename_group        |-> Args({"group_id", "name"}, {}),
     list_group_members  |-> Args({"group_id"}, {"cursor"}),
     add_group_member    |-> Args({"group_id", "user_id"}, {}),
     remove_group_member |-> Args({"group_id", "user_id"}, {}),
     deactivate_group    |-> Args({"group_id"}, {})]

MemberCommands ==
    [list_members       |-> Args({}, {}),
     update_member_role |-> Args({"user_id", "role"}, {}),
     remove_member      |-> Args({"user_id", "force"}, {}),
     list_invites       |-> Args({}, {}),
     create_invite      |-> Args({"email"}, {"role"}),
     revoke_invite      |-> Args({"invite_id"}, {}),
     list_api_tokens    |-> Args({}, {}),
     create_api_token   |-> Args({"name", "expires_days", "scopes"}, {}),
     create_write_token |-> Args({"name", "expires_days", "scopes"}, {}),
     revoke_api_token   |-> Args({"token_id"}, {}),
     list_local_users   |-> Args({}, {}),
     create_local_user  |-> Args({"display_name"}, {"email"}),
     reset_local_user_login_key |-> Args({"user_id"}, {}),
     deactivate_local_user      |-> Args({"user_id"}, {})]

TrustCommands ==
    [list_ci_trusts     |-> Args({}, {}),
     create_ci_trust    |-> Args({"repository", "workflow_path", "workflow_ref",
                                  "allowed_ref_glob", "allowed_actions"}, {"environment"}),
     revoke_ci_trust    |-> Args({"trust_id"}, {}),
     list_cli_sessions  |-> Args({}, {}),
     revoke_cli_session |-> Args({"session_id"}, {})]

AccessCommands ==
    [deploy_web_yard        |-> Args({}, {"directory", "yard", "all", "spa", "clean_urls", "public"}),
     list_yard_environments |-> Args({}, {"yard"}),
     get_yard_access        |-> Args({}, {"yard"}),
     set_yard_visibility    |-> Args({"yard", "visibility"}, {}),
     grant_yard_access      |-> Args({"yard", "principal_kind", "principal_id"},
                                     {"roles", "environment_id", "expires_at"}),
     revoke_yard_access     |-> Args({"yard", "grant_id"}, {}),
     set_yard_access_roles  |-> Args({"yard", "grant_id"}, {"roles"})]

IdentityCommands ==
    [list_yard_guest_invites     |-> Args({}, {"yard", "cursor"}),
     create_yard_guest_invite    |-> Args({"yard", "email"},
                                          {"roles", "environment_id", "expires_at"}),
     revoke_yard_guest_invite    |-> Args({"yard", "invitation_id"}, {}),
     list_yard_management_roles  |-> Args({"yard"}, {"cursor"}),
     set_yard_management_role    |-> Args({"yard", "user_id", "role"}, {}),
     revoke_yard_management_role |-> Args({"yard", "user_id"}, {}),
     get_yard_application_policy |-> Args({"yard"}, {}),
     set_yard_application_policy |-> Args({"yard", "policy", "source_manifest_digest"}, {})]

YardCommands ==
    [list_yard_sessions  |-> Args({}, {"yard"}),
     revoke_yard_session |-> Args({"yard", "session_id"}, {}),
     list_web_yards      |-> Args({}, {}),
     show_yard           |-> Args({}, {"yard"}),
     list_yard_deploys   |-> Args({"yard"}, {}),
     rollback_web_yard   |-> Args({"yard"}, {"deploy_id"}),
     delete_web_yard     |-> Args({"yard"}, {"force"})]

AccountCommands ==
    [request_account_export    |-> Args({}, {}),
     get_account_export        |-> Args({}, {}),
     download_account_export   |-> Args({"export_id"}, {"part_number"}),
     get_account_deletion      |-> Args({}, {}),
     prepare_account_deletion  |-> Args({}, {}),
     complete_account_deletion |-> Args({"confirmation_token", "force"}, {}),
     retry_account_deletion    |-> Args({"force"}, {})]

BillingCommands ==
    [get_billing      |-> Args({}, {}),
     billing_checkout |-> Args({"plan"}, {"seats"}),
     billing_portal   |-> Args({}, {}),
     billing_update   |-> Args({"plan"}, {"seats"}),
     storage_checkout |-> Args({"storage_blob_count"}, {}),
     storage_update   |-> Args({"storage_blob_count"}, {})]

Commands ==
    Merge({ResourceCommands, LinkCommands, WorkspaceCommands, MemberCommands,
           TrustCommands, AccessCommands, IdentityCommands, YardCommands,
           AccountCommands, BillingCommands})

\* A set of arguments that a grammar, a schema or a parser admits.
Admits(table, op, arguments) ==
    /\ table[op].requires \subseteq arguments
    /\ arguments \subseteq table[op].accepts

=============================================================================
