---------------------------- MODULE WireContract ----------------------------
(***************************************************************************)
(* The requests that Blob Yard's programs exchange: the API client's table *)
(* of endpoints, the fields the command runner and the client's models put *)
(* in each request, and the fields that the server's decoders demand and   *)
(* tolerate.  Sender and receiver are written in different crates, partly  *)
(* as literal JSON, so nothing but a test run joins them.  A field is its  *)
(* name on the wire; values are not modelled.                              *)
(***************************************************************************)
EXTENDS Sequences

Nothing == <<>>

\* The tables of a contract's parts, which have no entry in common, as one.
Merge(tables) ==
    [x \in UNION {DOMAIN t : t \in tables} |-> (CHOOSE t \in tables : x \in DOMAIN t)[x]]

\* What a decoder demands, and what it tolerates: unknown fields are refused.
Fields(required, optional) ==
    [requires |-> required, accepts |-> required \cup optional]

\* A request: its endpoint, the fields it always carries, and for an optional
\* argument of the command the field that is sent when the argument is given.
Request(endpoint, always, maybe) ==
    [endpoint |-> endpoint, always |-> always, maybe |-> maybe]

-----------------------------------------------------------------------------
(* Endpoints.                                                              *)

SafeEndpoints ==
    {"Health", "WhoAmI", "ListWorkspaces", "ListProjects", "ListObjects", "ListShares",
     "UploadStatus", "ResolveShare", "ResolvePreview", "ListPreviews", "ListInboxes",
     "ResolveInbox", "GetRetention", "ListWebYards", "ListYardDeploys",
     "ListYardEnvironments", "ListYardSessions", "GetYardAccess", "ListYardGuestInvites",
     "ListYardManagementRoles", "GetYardApplicationPolicy", "ListAudit", "ListMembers",
     "ListInvites", "ListApiTokens", "ListGroups", "ListGroupMembers", "ListLocalUsers",
     "ListCiTrusts", "ListCliSessions", "GetBilling", "GetAccountExport",
     "GetAccountDeletion", "GetRetentionOverview"}

\* The endpoints that take an Idempotency-Key.
SupportsIdempotency ==
    {"RequestUpload", "CreateBillingCheckout", "CreateBillingPortal",
     "RequestAccountExport", "PrepareAccountDeletion", "CompleteAccountDeletion"}

SelfHostedOnly ==
    {"ExchangeBootstrapToken", "ListLocalUsers", "CreateLocalUser",
     "ResetLocalUserLoginKey", "DeactivateLocalUser"}

HostedExtension ==
    {"DeviceStart", "DevicePoll", "TokenRefresh", "Logout", "ListMembers", "ListInvites",
     "CreateInvite", "RevokeInvite", "UpdateMemberRole", "RemoveMember",
     "CreateOneTimeSecret", "RedeemOneTimeSecret", "CreateBillingCheckout",
     "CreateBillingPortal", "GetBilling", "CreateStorageCheckout", "CreateStorageUpdate",
     "CreateBillingSubscriptionUpdate", "RequestAccountExport", "GetAccountExport",
     "DownloadAccountExport", "PrepareAccountDeletion", "CompleteAccountDeletion",
     "GetAccountDeletion", "RetryAccountDeletion"}

\* Whether the client lets a request for the endpoint leave for the deployment.
Available(endpoint, cloud) ==
    IF cloud THEN endpoint \notin SelfHostedOnly ELSE endpoint \notin HostedExtension

-----------------------------------------------------------------------------
(* What the standalone server decodes.                                     *)

ShareFields ==
    [CreateShare   |-> Fields({"target"}, {"expires", "notify"}),
     ListShares    |-> Fields({"workspace"}, {}),
     ResolveShare  |-> Fields({"token"}, {}),
     DownloadShare |-> Fields({"token"}, {}),
     RevokeShare   |-> Fields({"shareId"}, {})]

SharingFields ==
    [CreatePreview |-> Fields({"workspace", "project", "manifestId"}, {"expires"}),
     ListPreviews  |-> Fields({"workspace", "project"}, {}),
     RevokePreview |-> Fields({"previewId"}, {}),
     CreateInbox   |-> Fields({"workspace", "project", "name"}, {"expires"}),
     ListInboxes   |-> Fields({"workspace", "project"}, {"cursor"}),
     RevokeInbox   |-> Fields({"inboxId"}, {}),
     ResolveInbox  |-> Fields({"token"}, {})]

TransferFields ==
    [RequestUpload      |-> Fields({"workspace", "project", "path", "filename", "sizeBytes",
                                    "checksumSha256", "contentType"},
                                   {"gitRepository", "gitCommit", "gitBranch"}),
     RequestUploadParts |-> Fields({"uploadId", "partNumbers"}, {}),
     CompleteUpload     |-> Fields({"uploadId", "parts"}, {}),
     AbortUpload        |-> Fields({"uploadId"}, {}),
     UploadStatus       |-> Fields({"uploadId"}, {}),
     RequestDownload    |-> Fields({"uri"}, {})]

ObjectFields ==
    [ListObjects  |-> Fields({"workspace", "project", "versions"}, {"prefix", "cursor"}),
     DeleteObject |-> Fields({"uri"}, {})]

YardFields ==
    [StartYardDeploy      |-> Fields({"workspace", "project", "name", "clientDeployId",
                                      "spa", "cleanUrls", "public"}, {}),
     FinaliseYardDeploy   |-> Fields({"deployId"}, {}),
     FailYardDeploy       |-> Fields({"deployId", "failureCode", "failureMessage"}, {}),
     ListWebYards         |-> Fields({"workspace", "project"}, {}),
     ListYardDeploys      |-> Fields({"yardId"}, {}),
     ListYardEnvironments |-> Fields({"yardId"}, {}),
     GetYardAccess        |-> Fields({"yardId"}, {}),
     SetYardVisibility    |-> Fields({"yardId", "visibility"}, {}),
     GrantYardAccess      |-> Fields({"yardId", "principalKind", "principalId", "appRoles"},
                                     {"environmentId", "expiresAt"}),
     RevokeYardAccess     |-> Fields({"yardId", "grantId"}, {}),
     RollbackWebYard      |-> Fields({"yardId"}, {"deployId"}),
     DeleteWebYard        |-> Fields({"yardId"}, {})]

IdentityFields ==
    [ListYardManagementRoles  |-> Fields({"yardId"}, {"cursor"}),
     SetYardManagementRole    |-> Fields({"yardId", "userId", "role"}, {}),
     RevokeYardManagementRole |-> Fields({"yardId", "userId"}, {}),
     GetYardApplicationPolicy |-> Fields({"yardId"}, {}),
     SetYardApplicationPolicy |-> Fields({"yardId", "sourceManifestDigest", "roles"},
                                         {"defaultRole"}),
     SetYardAccessRoles       |-> Fields({"yardId", "grantId", "appRoles"}, {})]

GuestInviteFields ==
    [ListYardGuestInvites  |-> Fields({"yardId"}, {"cursor", "limit"}),
     CreateYardGuestInvite |-> Fields({"yardId", "email", "appRoles"},
                                      {"environmentId", "expiresAt"}),
     RevokeYardGuestInvite |-> Fields({"yardId", "invitationId"}, {})]

SessionFields ==
    [ListYardSessions  |-> Fields({"yardId"}, {}),
     RevokeYardSession |-> Fields({"sessionId", "yardId"}, {})]

GroupFields ==
    [ListGroups        |-> Fields({"workspace"}, {"cursor"}),
     CreateGroup       |-> Fields({"workspace", "name"}, {}),
     RenameGroup       |-> Fields({"groupId", "name"}, {}),
     ListGroupMembers  |-> Fields({"groupId"}, {"cursor"}),
     AddGroupMember    |-> Fields({"groupId", "userId"}, {}),
     RemoveGroupMember |-> Fields({"groupId", "userId"}, {}),
     DeactivateGroup   |-> Fields({"groupId"}, {})]

LocalUserFields ==
    [ListLocalUsers         |-> Fields({"workspace"}, {}),
     CreateLocalUser        |-> Fields({"workspace", "displayName"}, {"email"}),
     ResetLocalUserLoginKey |-> Fields({"userId"}, {}),
     DeactivateLocalUser    |-> Fields({"userId"}, {})]

\* The structures the server declares for itself.
WorkspaceFields ==
    [Health          |-> Fields({}, {}),
     WhoAmI          |-> Fields({}, {}),
     ListWorkspaces  |-> Fields({}, {"cursor"}),
     CreateWorkspace |-> Fields({"name"}, {}),
     ListProjects    |-> Fields({"workspace"}, {"cursor"}),
     CreateProject   |-> Fields({"workspace", "name"}, {})]

RenameFields == [RenameWorkspace |-> Fields({"workspace", "name"}, {})]

BootstrapFields ==
    [ExchangeBootstrapToken |-> Fields({"name", "platform", "token", "version"}, {})]

TokenFields ==
    [ListApiTokens  |-> Fields({}, {}),
     CreateApiToken |-> Fields({"expiresInDays", "name", "scopes"}, {"workspace", "project"}),
     RevokeApiToken |-> Fields({"tokenId"}, {})]

TrustFields ==
    [ListCiTrusts  |-> Fields({"workspace"}, {}),
     CreateCiTrust |-> Fields({"allowedActions", "allowedRefGlob", "repository",
                               "workflowPath", "workflowRef", "workspace"},
                              {"environment", "project"}),
     RevokeCiTrust |-> Fields({"trustId"}, {})]

ExchangeFields ==
    [GitHubOidcExchange |-> Fields({"actions", "project"}, {"workspace"})]

CliSessionFields ==
    [ListCliSessions  |-> Fields({}, {}),
     RevokeCliSession |-> Fields({"sessionId"}, {})]

AuditFields == [ListAudit |-> Fields({"workspace"}, {"cursor"})]

RetentionFields ==
    [GetRetention         |-> Fields({"workspace", "project"}, {}),
     GetRetentionOverview |-> Fields({"workspace", "project"}, {}),
     ClearRetention       |-> Fields({"workspace", "project"}, {}),
     SetRetention         |-> Fields({"workspace", "project", "keepLatest"},
                                     {"branch", "path"})]

\* Every route of the standalone server, with its decoder.
Routes ==
    Merge({ShareFields, SharingFields, TransferFields, ObjectFields, YardFields,
           IdentityFields, GuestInviteFields, SessionFields, GroupFields,
           LocalUserFields, WorkspaceFields, RenameFields, BootstrapFields, TokenFields,
           TrustFields, ExchangeFields, CliSessionFields, AuditFields, RetentionFields})

\* The server finds a route for the request and decodes it.
Understood(endpoint, fields) ==
    /\ endpoint \in DOMAIN Routes
    /\ Routes[endpoint].requires \subseteq fields
    /\ fields \subseteq Routes[endpoint].accepts

-----------------------------------------------------------------------------
(* What the runner sends, per operation.                                   *)

Scoped == {"workspace", "project"}

UploadRequests ==
    << Request("RequestUpload", Scoped \cup {"path", "filename", "sizeBytes",
                                              "checksumSha256", "contentType"}, Nothing),
       Request("CompleteUpload", {"uploadId", "parts"}, Nothing) >>

One(endpoint, always, maybe) == << Request(endpoint, always, maybe) >>

\* A command on a Web Yard lists the project's yards, finds the named one and
\* then acts on its identifier.
OnYard(endpoint, always, maybe) ==
    << Request("ListWebYards", Scoped, Nothing),
       Request(endpoint, {"yardId"} \cup always, maybe) >>

ResourceRequests ==
    [whoami           |-> One("WhoAmI", {}, Nothing),
     list_workspaces  |-> One("ListWorkspaces", {}, Nothing),
     create_workspace |-> One("CreateWorkspace", {"name"}, Nothing),
     rename_workspace |-> One("RenameWorkspace", {"name", "workspace"}, Nothing),
     list_projects    |-> One("ListProjects", {"workspace"}, Nothing),
     create_project   |-> One("CreateProject", {"workspace", "name"}, Nothing),
     list_objects     |-> One("ListObjects", Scoped \cup {"versions"}, [prefix |-> "prefix"]),
     delete_object    |-> One("DeleteObject", {"uri"}, Nothing),
     upload_file      |-> UploadRequests,
     download_file    |-> One("RequestDownload", {"uri"}, Nothing)]

SharingRequests ==
    [create_share   |-> One("CreateShare", {"target"},
                            [expires |-> "expires", notify |-> "notify"]),
     share_file     |-> UploadRequests \o One("CreateShare", {"target"},
                            [expires |-> "expires", notify |-> "notify"]),
     list_shares    |-> One("ListShares", {"workspace"}, Nothing),
     revoke_share   |-> One("RevokeShare", {"shareId"}, Nothing),
     create_inbox   |-> One("CreateInbox", Scoped \cup {"name"}, [expires |-> "expires"]),
     list_inboxes   |-> One("ListInboxes", Scoped, Nothing),
     revoke_inbox   |-> One("RevokeInbox", {"inboxId"}, Nothing)]

RetentionRequests ==
    [get_retention          |-> One("GetRetention", Scoped, Nothing),
     get_retention_overview |-> One("GetRetentionOverview", Scoped, Nothing),
     set_retention          |-> One("SetRetention", Scoped \cup {"keepLatest"},
                                    [branch |-> "branch", path |-> "path"]),
     clear_retention        |-> One("ClearRetention", Scoped, Nothing)]

PreviewRequests ==
    [create_preview |-> UploadRequests
                        \o One("CreatePreview", Scoped \cup {"manifestId"}, [expires |-> "expires"]),
     list_previews  |-> One("ListPreviews", Scoped, Nothing),
     revoke_preview |-> One("RevokePreview", {"previewId"}, Nothing)]

YardRequests ==
    [deploy_web_yard   |-> One("StartYardDeploy", Scoped \cup {"name", "clientDeployId", "spa",
                                                    "cleanUrls", "public"}, Nothing)
                           \o UploadRequests
                           \o One("FinaliseYardDeploy", {"deployId"}, Nothing),
     list_web_yards    |-> One("ListWebYards", Scoped, Nothing),
     show_yard         |-> One("ListWebYards", Scoped, Nothing),
     list_yard_deploys |-> OnYard("ListYardDeploys", {}, Nothing),
     rollback_web_yard |-> OnYard("RollbackWebYard", {}, [deploy_id |-> "deployId"]),
     delete_web_yard   |-> OnYard("DeleteWebYard", {}, Nothing),
     list_yard_environments |-> OnYard("ListYardEnvironments", {}, Nothing)]

AccessRequests ==
    [get_yard_access       |-> OnYard("GetYardAccess", {}, Nothing),
     set_yard_visibility   |-> OnYard("SetYardVisibility", {"visibility"}, Nothing),
     grant_yard_access     |-> OnYard("GrantYardAccess",
                                  {"principalKind", "principalId", "appRoles"},
                                  [environment_id |-> "environmentId", expires_at |-> "expiresAt"]),
     revoke_yard_access    |-> OnYard("RevokeYardAccess", {"grantId"}, Nothing),
     set_yard_access_roles |-> OnYard("SetYardAccessRoles", {"grantId", "appRoles"}, Nothing)]

GuestInviteRequests ==
    [list_yard_guest_invites  |-> OnYard("ListYardGuestInvites", {"limit"}, [cursor |-> "cursor"]),
     create_yard_guest_invite |-> OnYard("CreateYardGuestInvite", {"email", "appRoles"},
                                  [environment_id |-> "environmentId", expires_at |-> "expiresAt"]),
     revoke_yard_guest_invite |-> OnYard("RevokeYardGuestInvite", {"invitationId"}, Nothing)]

IdentityRequests ==
    [list_yard_management_roles  |-> OnYard("ListYardManagementRoles", {}, [cursor |-> "cursor"]),
     set_yard_management_role    |-> OnYard("SetYardManagementRole", {"userId", "role"}, Nothing),
     revoke_yard_management_role |-> OnYard("RevokeYardManagementRole", {"userId"}, Nothing),
     get_yard_application_policy |-> OnYard("GetYardApplicationPolicy", {}, Nothing),
     set_yard_application_policy |-> OnYard("SetYardApplicationPolicy",
                                        {"defaultRole", "roles", "sourceManifestDigest"}, Nothing)]

YardSessionRequests ==
    [list_yard_sessions  |-> OnYard("ListYardSessions", {}, Nothing),
     revoke_yard_session |-> OnYard("RevokeYardSession", {"sessionId"}, Nothing)]

AdminRequests ==
    [list_audit            |-> One("ListAudit", {"workspace"}, [cursor |-> "cursor"]),
     list_members          |-> One("ListMembers", {"workspace"}, Nothing),
     list_invites          |-> One("ListInvites", {"workspace"}, Nothing),
     create_invite         |-> One("CreateInvite", {"workspace", "email", "role"}, Nothing),
     revoke_invite         |-> One("RevokeInvite", {"workspace", "inviteId"}, Nothing),
     update_member_role    |-> One("UpdateMemberRole", {"workspace", "targetUserId", "role"}, Nothing),
     remove_member         |-> One("RemoveMember", {"workspace", "targetUserId"}, Nothing),
     list_local_users      |-> One("ListLocalUsers", {"workspace"}, Nothing),
     deactivate_local_user |-> One("DeactivateLocalUser", {"userId"}, Nothing),
     list_api_tokens       |-> One("ListApiTokens", {}, Nothing),
     revoke_api_token      |-> One("RevokeApiToken", {"tokenId"}, Nothing),
     list_ci_trusts        |-> One("ListCiTrusts", {"workspace"}, Nothing),
     create_ci_trust       |-> One("CreateCiTrust",
                                   {"workspace", "allowedActions", "allowedRefGlob", "repository",
                                    "workflowPath", "workflowRef"},
                                   [environment |-> "environment", project |-> "project"]),
     revoke_ci_trust       |-> One("RevokeCiTrust", {"trustId"}, Nothing),
     list_cli_sessions     |-> One("ListCliSessions", {}, Nothing),
     revoke_cli_session    |-> One("RevokeCliSession", {"sessionId"}, Nothing)]

\* Mutant: a member is named as the members' administration names it.
GroupRequestsTarget ==
    [list_groups         |-> One("ListGroups", {"workspace"}, [cursor |-> "cursor"]),
     create_group        |-> One("CreateGroup", {"workspace", "name"}, Nothing),
     rename_group        |-> One("RenameGroup", {"groupId", "name"}, Nothing),
     list_group_members  |-> One("ListGroupMembers", {"groupId"}, [cursor |-> "cursor"]),
     add_group_member    |-> One("AddGroupMember", {"groupId", "targetUserId"}, Nothing),
     remove_group_member |-> One("RemoveGroupMember", {"groupId", "targetUserId"}, Nothing),
     deactivate_group    |-> One("DeactivateGroup", {"groupId"}, Nothing)]

GroupRequests ==
    [list_groups         |-> One("ListGroups", {"workspace"}, [cursor |-> "cursor"]),
     create_group        |-> One("CreateGroup", {"workspace", "name"}, Nothing),
     rename_group        |-> One("RenameGroup", {"groupId", "name"}, Nothing),
     list_group_members  |-> One("ListGroupMembers", {"groupId"}, [cursor |-> "cursor"]),
     add_group_member    |-> One("AddGroupMember", {"groupId", "userId"}, Nothing),
     remove_group_member |-> One("RemoveGroupMember", {"groupId", "userId"}, Nothing),
     deactivate_group    |-> One("DeactivateGroup", {"groupId"}, Nothing)]

\* A token for one scope that only writes objects is confined to a project.
TokenRequests ==
    [create_api_token   |-> One("CreateApiToken", {"name", "expiresInDays", "scopes"}, Nothing),
     create_write_token |-> One("CreateApiToken",
                                {"name", "expiresInDays", "scopes"} \cup Scoped, Nothing)]

UserRequests ==
    [create_local_user          |-> One("CreateLocalUser", {"displayName", "workspace"},
                                        [email |-> "email"]),
     reset_local_user_login_key |-> One("ResetLocalUserLoginKey", {"userId"}, Nothing)]

BillingRequests ==
    [get_billing         |-> One("GetBilling", {}, Nothing),
     billing_checkout    |-> One("CreateBillingCheckout", {"plan"}, [seats |-> "seats"]),
     billing_portal      |-> One("CreateBillingPortal", {}, Nothing),
     billing_update      |-> One("CreateBillingSubscriptionUpdate", {"plan"}, [seats |-> "seats"]),
     storage_checkout    |-> One("CreateStorageCheckout", {"storageBlockCount"}, Nothing),
     storage_update      |-> One("CreateStorageUpdate", {"storageBlockCount"}, Nothing)]

AccountRequests ==
    [request_account_export    |-> One("RequestAccountExport", {}, Nothing),
     get_account_export        |-> One("GetAccountExport", {}, Nothing),
     download_account_export   |-> One("DownloadAccountExport", {"exportId", "partNumber"}, Nothing),
     get_account_deletion      |-> One("GetAccountDeletion", {}, Nothing),
     prepare_account_deletion  |-> One("PrepareAccountDeletion", {}, Nothing),
     complete_account_deletion |-> One("CompleteAccountDeletion", {"confirmationToken"}, Nothing),
     retry_account_deletion    |-> One("RetryAccountDeletion", {"confirmation"}, Nothing)]

SessionRequests ==
    [logout |-> One("Logout", {}, Nothing),
     login  |-> One("DeviceStart", {"name", "platform", "version"}, Nothing)
                \o One("DevicePoll", {"deviceCode"}, Nothing)]

Requests ==
    Merge({ResourceRequests, SharingRequests, RetentionRequests, PreviewRequests,
           YardRequests, AccessRequests, GuestInviteRequests, IdentityRequests,
           YardSessionRequests, AdminRequests, GroupRequests, TokenRequests,
           UserRequests, BillingRequests, AccountRequests, SessionRequests})

Operations == DOMAIN Requests

\* The fields of request r when the command was given the arguments.
FieldsOf(r, arguments) ==
    r.always \cup {r.maybe[a] : a \in DOMAIN r.maybe \cap arguments}

\* What the answer to an endpoint holds that opens something to its bearer.
Reveals(endpoint) ==
    CASE endpoint = "CreateShare"            -> {"shareUrl"}
      [] endpoint = "CreatePreview"          -> {"previewUrl"}
      [] endpoint = "CreateInbox"            -> {"inboxUrl"}
      [] endpoint = "CreateYardGuestInvite"  -> {"invitationUrl"}
      [] endpoint = "CreateApiToken"         -> {"rawToken"}
      [] endpoint \in {"CreateLocalUser", "ResetLocalUserLoginKey"} -> {"loginKey"}
      [] endpoint = "PrepareAccountDeletion" -> {"confirmationToken", "recoveryToken"}
      [] endpoint = "DownloadAccountExport"  -> {"downloadUrl"}
      [] OTHER -> {}

=============================================================================
