------------------------------- MODULE Routes -------------------------------
(***************************************************************************)
(* The handlers of the API and the router that leads to them.              *)
(*                                                                         *)
(* A handler is what it answers when the service succeeds, when it refuses *)
(* with an error the handler knows, each error with its status and the     *)
(* writes that went before, and otherwise; and how many writes of the      *)
(* service must succeed one after another (a transaction is one write, and *)
(* those whose errors are dropped are none).  Bodies and what they contain *)
(* are left out, but for whether the handler looks at them.                *)
(***************************************************************************)
EXTENDS Integers, FiniteSets

BadRequest == {<<"body", 400, 0>>}

\* A service that refuses before it writes.
Handler(success, refusals, otherwise, writes) ==
  [success |-> success, refusals |-> {<<r[1], r[2], 0>> : r \in refusals},
   otherwise |-> otherwise, writes |-> writes]

\* It may also refuse once the first writes are done.
Later(written, refusals, handler) ==
  [handler EXCEPT !.refusals = @ \cup {<<r[1], r[2], written>> : r \in refusals}]

\* Every error of the service is answered alike.
Alike(success, status, writes) == Handler(success, {}, status, writes)

\* A body or a parameter is looked at first.
Checked(handler) == [handler EXCEPT !.refusals = @ \cup BadRequest]

Reading == Alike(200, 500, 0)
Finding == Alike(200, 404, 0)

-----------------------------------------------------------------------------
(* api/handler/accounting.handler.go                                       *)

ListAccounts == Checked(Handler(200, {<<"type", 400>>}, 500, 0))
GetAccount == Checked(Finding)
CreateAccount == Checked(Alike(201, 400, 1))
UpdateAccount == Checked(Alike(200, 400, 1))
ListItems == Checked(Handler(200, {<<"type", 400>>}, 500, 0))
GetItem == Checked(Finding)
CreateItem == Checked(Alike(201, 400, 1))
UpdateItem == Checked(Alike(200, 400, 1))
DeleteItem == Checked(Alike(200, 404, 1))
ReactivateItem == Checked(Alike(200, 404, 1))
CreateTransaction == Checked(Alike(201, 400, 1))
GetTransaction == Checked(Finding)
ListTransactions == Checked(Reading)
VoidTransaction == Checked(Alike(201, 400, 1))
CategorizeTransaction == Checked(Reading)
GetTrialBalance == Checked(Reading)
GetBalanceSheet == Checked(Reading)
GetIncomeStatement == Checked(Reading)
GetCashFlow == Checked(Reading)
GetGeneralLedger == Checked(Reading)

-----------------------------------------------------------------------------
(* api/handler/auth.handler.go.  Codes, messages and what else a new user  *)
(* gets are written best-effort.                                           *)

Register == Checked(Alike(201, 400, 1))
LoginEmail == Checked(Alike(200, 401, 1))
LoginOTP == Checked(Alike(200, 401, 2))
RequestOTP == Checked(Alike(200, 400, 2))
RefreshToken == Alike(200, 401, 1)
Logout == Alike(200, 400, 1)
LogoutAll == Alike(200, 400, 1)
Me == Finding
GetSessions == Reading
RevokeSession == Alike(200, 400, 1)
VerifyOTP == Checked(Alike(200, 400, 2))
ChangePassword == Checked(Alike(200, 400, 1))
ResetPassword == Checked(Alike(200, 400, 2))

-----------------------------------------------------------------------------
(* api/handler/admin.handler.go                                            *)

AdminLogin == Checked(Alike(200, 401, 1))
VerifyMFA == Checked(Alike(200, 401, 0))
\* The error of its UPDATE is dropped, and of the one in ConfirmMFASetup.
SetupMFA == Alike(200, 400, 0)
ConfirmMFASetup == Checked(Alike(200, 400, 0))
AdminRefreshToken == Alike(200, 401, 0)
AdminLogout == Alike(200, 400, 0)
AdminMe == Finding
InviteAdmin == Checked(Alike(201, 400, 1))
ListAdmins == Reading
UpdateAdmin == Checked(Alike(200, 400, 1))
DeleteAdmin == Alike(200, 400, 1)

-----------------------------------------------------------------------------
(* api/handler/billing.handler.go, plan.handler.go, subscription.handler.go *)

ListInvoices == Reading
GetInvoice == Finding
PayInvoice == Checked(Alike(201, 400, 2))
ListPayments == Reading
XenditWebhook == Checked(Handler(200, {<<"signature", 401>>}, 400, 3))
AdminListInvoices == Reading

ListPlans == Reading
GetPlanBySlug == Finding
AdminListPlans == Reading
AdminGetPlan == Finding
AdminCreatePlan == Checked(Alike(201, 400, 1))
AdminUpdatePlan == Checked(Alike(200, 400, 1))
AdminDeletePlan == Alike(200, 400, 1)
AdminSetFeature == Checked(Alike(200, 400, 1))
AdminRemoveFeature == Alike(200, 400, 1)

\* The subscription, its invoice, the invoice at Xendit and the payment.
Subscribe == Checked(Alike(201, 400, 4))
GetActive == Finding
ListSubscriptions == Reading
Cancel == Alike(200, 400, 1)
ChangePlan == Checked(Alike(200, 400, 4))
GetUsage == Finding
AdminListSubscriptions == Reading

-----------------------------------------------------------------------------
(* api/handler/claim_handler.go                                            *)

OwnClaim == {<<"ErrClaimNotFound", 404>>, <<"ErrNotOwner", 403>>}
AnyClaim == {<<"ErrClaimNotFound", 404>>}
WrongStatus == {<<"ErrInvalidStatus", 400>>}

CreateClaim ==
  Checked(Handler(201, {<<"ErrNotShadow", 400>>, <<"ErrClaimExists", 409>>,
                        <<"ErrEntityNotFound", 404>>}, 500, 1))
GetMyClaims == Reading
GetClaim == Handler(200, OwnClaim, 500, 0)
\* Faulty variant: the documents are counted once the transaction is over.
SubmitClaimFirst ==
  Later(1, {<<"ErrDocumentsMissing", 400>>}, Handler(200, OwnClaim \cup WrongStatus, 500, 1))
SubmitClaim == Handler(200, OwnClaim \cup WrongStatus \cup {<<"ErrDocumentsMissing", 400>>}, 500, 1)
RequestClaimUpload == Checked(Handler(201, OwnClaim, 500, 1))
ConfirmClaimUpload ==
  Handler(200, OwnClaim \cup {<<"ErrDocNotFound", 404>>, <<"ErrUploadNotConfirmed", 400>>}, 500, 1)
GetClaimDocuments == Handler(200, OwnClaim, 500, 0)
DisputeClaim == Checked(Handler(200, OwnClaim \cup WrongStatus, 500, 1))
AdminListClaims == Reading
AdminGetClaim == Handler(200, AnyClaim, 500, 0)
AssignClaim == Handler(200, AnyClaim \cup WrongStatus, 500, 1)
ApproveClaim == Handler(200, AnyClaim \cup WrongStatus, 500, 1)
RejectClaim == Checked(Handler(200, AnyClaim \cup WrongStatus, 500, 1))
GetClaimAuditLog == Reading
GetDocumentViewURL == Reading
CountPendingClaims == Reading

-----------------------------------------------------------------------------
(* api/handler/document_handler.go, entity.handler.go, identity_handler.go *)

RequestUpload ==
  Checked(Handler(201, {<<"ErrOCRNotEnabled", 403>>, <<"ErrInvalidDocumentType", 400>>,
                       <<"ErrStorageNotConfigured", 503>>}, 500, 1))
\* The document is read again after the commit.
ConfirmUpload ==
  Later(1, {<<"ErrDocumentNotFound", 404>>},
    Handler(200, WrongStatus \cup {<<"ErrDocumentNotFound", 404>>, <<"ErrUploadNotConfirmed", 400>>},
            500, 1))
GetDocument == Handler(200, {<<"ErrDocumentNotFound", 404>>}, 500, 0)
ListDocuments == Reading

CreateEntity == Checked(Alike(201, 400, 1))
ListMyEntities == Reading
GetEntity == Handler(200, {<<"ErrNotAuthorized", 403>>}, 404, 0)
UpdateEntity == Checked(Alike(200, 400, 1))
UpdateEntityMeta == Checked(Alike(200, 400, 1))
SearchEntities == Checked(Reading)

NotTheirs == {<<"ErrNotAuthorized", 403>>}

GetVerificationStatus == Reading
AddLegalID == Checked(Handler(201, NotTheirs \cup {<<"ErrInvalidLegalIDType", 400>>}, 500, 1))
GetLegalIDs == Handler(200, NotTheirs, 500, 0)
UpdateLegalID == Checked(Handler(200, NotTheirs, 500, 1))
DeleteLegalID == Handler(200, NotTheirs, 500, 1)
AddAlias == Checked(Handler(201, NotTheirs, 500, 1))
GetAliases == Handler(200, NotTheirs, 500, 0)
DeleteAlias == Handler(200, NotTheirs, 500, 1)
SearchFuzzy == Checked(Handler(200, {<<"access", 403>>}, 500, 0))
FindDuplicates == Handler(200, NotTheirs, 500, 0)

-----------------------------------------------------------------------------
(* api/handler/tax_handler.go                                              *)

NoCalculation == {<<"ErrCalculationNotFound", 404>>}

\* Made when it is asked for first.
GetProfile == Checked(Alike(200, 500, 1))
\* The default profile is made before the status is looked at.
UpdateProfile ==
  Checked(Later(1, {<<"ErrInvalidTaxStatus", 400>>}, Handler(200, {}, 500, 2)))
ListCalculations == Checked(Reading)
GetCalculation == Checked(Handler(200, NoCalculation, 500, 0))
GetPPNSummary == Checked(Reading)
GetPPhSummary == Checked(Reading)
LinkDocument ==
  Checked(Handler(201, NoCalculation \cup {<<"ErrDocumentNotFound", 404>>,
                                         <<"ErrInvalidDocRefType", 400>>}, 500, 1))
ListDocumentRefs == Checked(Handler(200, NoCalculation, 500, 0))
RequestReport ==
  Checked(Handler(201, {<<"user", 401>>, <<"ErrInvalidReportType", 400>>}, 500, 1))
GetReportJob == Checked(Handler(200, {<<"ErrReportJobNotFound", 404>>}, 500, 0))
ListReportJobs == Checked(Reading)

-----------------------------------------------------------------------------
(* api/handler/workspace.handler.go, invite.handler.go                     *)

CreateWorkspace == Checked(Alike(201, 400, 1))
ListMyWorkspaces == Reading
ListMembers == Reading
UpdateMember == Checked(Alike(200, 400, 1))
RemoveMember == Alike(200, 400, 1)
\* A new entity first.
AddCounterparty == Checked(Alike(201, 400, 2))
ListCounterparties == Reading
ListRoles == Reading
CreateRole == Checked(Alike(201, 400, 1))
UpdateRole == Checked(Alike(200, 400, 1))
DeleteRole == Alike(200, 400, 1)
AssignRole == Checked(Alike(201, 400, 1))
UnassignRole == Checked(Alike(200, 400, 1))
SetCounterpartyAlias == Checked(Alike(200, 400, 2))
ListCounterpartyAliases == Reading
DeleteCounterpartyAlias == Alike(200, 400, 2)
SearchCounterparties == Checked(Reading)

CreateInvite == Checked(Handler(201, {<<"ErrEmailNotRegistered", 400>>}, 400, 1))
ListInvites == Reading
RevokeInvite == Alike(200, 400, 1)
AcceptInvite ==
  Checked(Handler(200, {<<"ErrInviteNotFound", 404>>, <<"ErrInviteExpired", 400>>,
                       <<"ErrInviteAlreadyAccepted", 400>>, <<"ErrEmailMismatch", 403>>}, 400, 3))

-----------------------------------------------------------------------------
(* api/router.go: what a request passes before it is handled, and the      *)
(* permission or the roles it needs.                                       *)

Through(chain, needs, handlers) ==
  {[chain |-> chain, needs |-> needs, handler |-> h] : h \in handlers}
Open(handlers) == Through("public", "", handlers)
ForUsers(handlers) == Through("user", "", handlers)
Guarded(permission, handlers) == Through("member", permission, handlers)

PlanRoutes == Open({ListPlans, GetPlanBySlug})
AuthRoutes ==
  Open({Register, LoginEmail, LoginOTP, RequestOTP, RefreshToken, VerifyOTP, ResetPassword})
  \cup ForUsers({Me, Logout, LogoutAll, ChangePassword, GetSessions, RevokeSession})
EntityRoutes ==
  ForUsers({CreateEntity, ListMyEntities, SearchEntities, SearchFuzzy, GetEntity, UpdateEntity,
            UpdateEntityMeta, GetVerificationStatus, AddLegalID, GetLegalIDs, UpdateLegalID,
            DeleteLegalID, AddAlias, GetAliases, DeleteAlias, FindDuplicates})
ClaimRoutes ==
  ForUsers({CreateClaim, GetMyClaims, GetClaim, SubmitClaim, RequestClaimUpload,
            ConfirmClaimUpload, GetClaimDocuments, DisputeClaim})
WorkspaceRoutes ==
  ForUsers({CreateWorkspace, ListMyWorkspaces, AcceptInvite})
  \cup Guarded("member:invite", {ListMembers, CreateInvite, ListInvites, RevokeInvite})
  \cup Guarded("member:manage", {UpdateMember})
  \cup Guarded("member:remove", {RemoveMember})
  \cup Guarded("role:assign", {ListRoles, AssignRole, UnassignRole})
  \cup Guarded("role:create", {CreateRole})
  \cup Guarded("role:update", {UpdateRole})
  \cup Guarded("role:delete", {DeleteRole})
  \cup Guarded("transaction:create", {AddCounterparty})
  \cup Guarded("transaction:read",
               {ListCounterparties, SearchCounterparties, ListCounterpartyAliases})
  \cup Guarded("transaction:update", {SetCounterpartyAlias, DeleteCounterpartyAlias})
SubscriptionRoutes ==
  Guarded("billing:manage", {Subscribe, Cancel, ChangePlan})
  \cup Guarded("billing:read", {GetActive, ListSubscriptions, GetUsage})
BillingRoutes ==
  Open({XenditWebhook})
  \cup Guarded("billing:manage", {PayInvoice})
  \cup Guarded("billing:read", {ListInvoices, GetInvoice, ListPayments})
AccountingRoutes ==
  Guarded("transaction:create",
          {CreateAccount, UpdateAccount, CreateItem, UpdateItem, DeleteItem, ReactivateItem,
           CreateTransaction, CategorizeTransaction})
  \cup Guarded("transaction:read",
               {ListAccounts, GetAccount, ListItems, GetItem, ListTransactions, GetTransaction})
  \cup Guarded("transaction:void", {VoidTransaction})
DocumentRoutes ==
  Guarded("transaction:create", {RequestUpload, ConfirmUpload})
  \cup Guarded("transaction:read", {ListDocuments, GetDocument})
ReportRoutes ==
  Guarded("report:read",
          {GetTrialBalance, GetBalanceSheet, GetIncomeStatement, GetCashFlow, GetGeneralLedger})
TaxRoutes ==
  Guarded("report:read",
          {GetProfile, ListCalculations, GetCalculation, ListDocumentRefs, GetPPNSummary,
           GetPPhSummary, ListReportJobs, GetReportJob})
  \cup Guarded("workspace:settings", {UpdateProfile})
  \cup Guarded("transaction:create", {LinkDocument})
  \cup Guarded("report:export", {RequestReport})
AdminRoutes ==
  Open({AdminLogin, VerifyMFA, AdminRefreshToken})
  \cup Through("setup", "", {SetupMFA, ConfirmMFASetup})
  \cup Through("admin", "", {AdminLogout, AdminMe})
  \cup Through("admin", "SUPER_ADMIN", {InviteAdmin, ListAdmins, UpdateAdmin, DeleteAdmin})
  \cup Through("admin", "ENGINEER",
               {AdminListPlans, AdminCreatePlan, AdminGetPlan, AdminUpdatePlan, AdminDeletePlan,
                AdminSetFeature, AdminRemoveFeature, AdminListSubscriptions, AdminListInvoices})
  \cup Through("admin", "REVIEWER",
               {AdminListClaims, CountPendingClaims, AdminGetClaim, AssignClaim, ApproveClaim,
                RejectClaim, GetClaimAuditLog, GetDocumentViewURL})

NewRouter ==
  PlanRoutes \cup AuthRoutes \cup EntityRoutes \cup ClaimRoutes \cup WorkspaceRoutes
  \cup SubscriptionRoutes \cup BillingRoutes \cup AccountingRoutes \cup DocumentRoutes
  \cup ReportRoutes \cup TaxRoutes \cup AdminRoutes

-----------------------------------------------------------------------------
(* workspace/permissions.go: the permissions a role may be given.          *)

AllPermissions ==
  {"transaction:create", "transaction:read", "transaction:update", "transaction:delete",
   "report:read", "report:export",
   "member:invite", "member:manage", "member:remove",
   "role:create", "role:update", "role:delete", "role:assign",
   "workspace:settings", "billing:read", "billing:manage",
   "item:create", "item:read", "item:update", "item:delete",
   "account:create", "account:read", "account:update", "account:delete"}
=============================================================================
