----------------------------- MODULE AccessRules -----------------------------
(***************************************************************************)
(* The access rules of the web client, as the tables the source keeps:     *)
(* the guarded routes (routes/router.tsx), the menu (config/navigation.ts),*)
(* the rules checked after a login (lib/canAccessPath.ts, lib/nextPath.ts) *)
(* and the permissions the backend seeds (app/services/seed_service.py).   *)
(*                                                                         *)
(* A path is the sequence of its segments, Id standing for any parameter.  *)
(* A permission is a <<resource, action>> pair. A query string is left out.*)
(***************************************************************************)
EXTENDS Naturals, Sequences, SequencesExt, TLC

Id == ":id"

\* The paths under root, given by their remaining segments.
Below(root, leaves) == {root \o leaf : leaf \in leaves}

Starts(path, prefix) == IsPrefix(prefix, path)

-----------------------------------------------------------------------------
(* Roles and the permissions the backend seeds *)

Actions ==
    [resource \in {"users", "branches", "catalog", "attendance_devices", "discounts"}
        |-> {"create", "read", "update", "delete"}]
    @@ [resource \in {"purchase_orders", "customers", "suppliers", "roles", "accounting"}
        |-> {"create", "read", "update"}]
    @@ [resource \in {"config", "inventory", "onboarding", "notifications"}
        |-> {"read", "update"}]
    @@ [resource \in {"audit_log", "attendance_kiosk", "analytics"} |-> {"read"}]
    @@ [resource \in {"marketing_advisory", "ai_advisory"} |-> {"run"}]
    @@ ("terminals" :> {"read", "create", "update", "authorize"})
    @@ ("invoice_scans" :> {"read", "create", "update", "validate"})
    @@ ("pos_shifts" :> {"open", "read", "update", "close"})
    @@ ("pos_carts" :> {"create", "read", "update", "discount"})
    @@ ("pos_payments" :> {"create", "capture"})
    @@ ("sales_invoices" :> {"create", "read", "void"})
    @@ ("returns" :> {"create"})
    @@ ("stock_adjustments" :> {"create", "read"})
    @@ ("employees" :> {"create", "read", "update", "delete", "approve"})
    @@ ("payroll" :> {"create", "read", "approve", "export"})
    @@ ("loyalty" :> {"create", "read", "update", "adjust"})
    @@ ("backups" :> {"read", "run"})

\* The selector (resource, "*").
Whole(resources) == UNION {{resource} \X Actions[resource] : resource \in resources}

Only(resource, actions) == {resource} \X actions

DefaultPermissions == Whole(DOMAIN Actions)

OfficeRoles ==
    ("OWNER" :> Whole({"catalog", "inventory", "purchase_orders", "suppliers", "employees",
                       "payroll", "onboarding", "attendance_devices", "accounting",
                       "discounts", "loyalty", "customers", "users", "roles", "config",
                       "branches", "terminals", "backups", "notifications", "ai_advisory",
                       "analytics", "marketing_advisory", "audit_log"}))
    @@ ("IT_ADMIN" :> Whole({"users", "roles", "audit_log", "config", "branches",
                             "terminals", "backups", "catalog", "notifications"}))
    @@ ("HR_MANAGER" :> Whole({"employees", "payroll", "onboarding", "attendance_devices",
                               "ai_advisory", "notifications"}))
    @@ ("ACCOUNTANT" :> Whole({"accounting", "suppliers", "inventory", "payroll"})
           \cup Only("sales_invoices", {"void"})
           \cup ({"catalog", "employees", "customers", "analytics", "discounts",
                  "loyalty", "branches", "notifications"} \X {"read"}))

BranchRoles ==
    ("CASHIER" :> Whole({"pos_shifts", "pos_carts", "pos_payments", "returns",
                         "notifications"})
         \cup Only("sales_invoices", {"create", "read"})
         \cup Only("customers", {"create", "read"}) \cup Only("terminals", {"read"}))
    @@ ("WAREHOUSE_MANAGER" :> Whole({"catalog", "purchase_orders", "inventory",
                                      "stock_adjustments", "ai_advisory"})
         \cup ({"suppliers", "branches", "notifications"} \X {"read"}))
    @@ ("MARKETING_MANAGER" :> Whole({"discounts", "analytics", "marketing_advisory",
                                      "ai_advisory"})
         \cup Only("loyalty", {"read", "update", "adjust"})
         \cup Only("customers", {"read", "update"})
         \cup ({"catalog", "notifications"} \X {"read"}))
    @@ ("ATTENDANCE_KIOSK" :> Whole({"attendance_kiosk"}))
    @@ ("FLOOR_STAFF" :> Whole({"pos_shifts", "pos_carts", "pos_payments", "returns"})
         \cup Only("sales_invoices", {"create", "read"}) \cup Only("customers", {"create"})
         \cup ({"catalog", "inventory", "terminals", "notifications"} \X {"read"}))

\* The Admin role is given every permission there is.
Seeded == OfficeRoles @@ BranchRoles @@ ("ADMIN" :> DefaultPermissions)

RoleCodes == DOMAIN Seeded

OrgManagers == {"OWNER", "ADMIN", "IT_ADMIN"}
PricingRoles == {"OWNER", "ADMIN", "ACCOUNTANT"}
InboxRoles == {"OWNER", "IT_ADMIN", "HR_MANAGER", "WAREHOUSE_MANAGER"}
CampaignRoles == {"OWNER", "ADMIN", "MARKETING_ADMIN", "MARKETING_MANAGER"}

SelfService == ({"employees", "pos_shifts", "catalog", "customers", "accounting",
                 "users", "sales_invoices"} \X {"read"})

-----------------------------------------------------------------------------
(* Guards: of every set in needs one permission, one of the roles in allow, *)
(* none of those in deny, and a branch                                      *)

Open == [needs |-> {}, allow |-> {}, deny |-> {}, branch |-> FALSE]

Needs(resource, action) == [Open EXCEPT !.needs = {{<<resource, action>>}}]

\* A guard inside a guard.
Also(guard, resource, action) == [guard EXCEPT !.needs = @ \cup {{<<resource, action>>}}]

InBranch(guard) == [guard EXCEPT !.branch = TRUE]

Permits(guard, perms, roles) ==
    /\ \A any \in guard.needs : any \cap perms # {}
    /\ guard.allow = {} \/ guard.allow \cap roles # {}
    /\ guard.deny \cap roles = {}

CorrespondenceInbox == [Open EXCEPT !.needs = {SelfService}, !.allow = InboxRoles]

MarketingCampaign == [Needs("ai_advisory", "run") EXCEPT !.allow = CampaignRoles,
                                                         !.deny = {"HR_MANAGER"}]

PricingEvaluation == [Open EXCEPT !.needs = {{"catalog", "accounting"} \X {"update"}},
                                  !.allow = PricingRoles]

OrgNotification == [Needs("notifications", "read") EXCEPT !.allow = OrgManagers]

-----------------------------------------------------------------------------
(* Routes: what guards a path and where it forwards to (itself: a page) *)

Page(guard, paths) == [path \in paths |-> [guard |-> guard, to |-> path]]

Forward(guard, from, to) == from :> [guard |-> guard, to |-> to]

Login == <<"login">>
Dashboard == <<"dashboard">>
ChangePassword == <<"change-password-required">>
SelectBranch == <<"select-branch">>
Kiosk == <<"attendance-kiosk">>
Home == <<>>

\* Paths that need no session.
PublicPaths ==
    {Login, <<"forgot-password">>, <<"password-reset-otp">>, <<"password-reset-new">>,
     <<"reset-password", Id>>, <<"two-factor-verify">>, <<"onboarding", "complete", Id>>,
     <<"customer-onboarding">>, <<"403">>, <<"404">>, <<"offline">>}

ShellRoutes ==
    Page(Open, {ChangePassword, SelectBranch, <<"profile">>, <<"my-leaves">>,
                <<"my-stock-count">>, <<"my-stock-count", Id>>, Dashboard})
    @@ Forward(Open, Home, Dashboard)
    @@ Page(Needs("attendance_kiosk", "read"), {Kiosk})
    @@ Page(CorrespondenceInbox,
            Below(<<"correspondence">>, {<<>>, <<"compose">>, <<Id>>}))
    @@ Page(Needs("notifications", "read"), {<<"notifications">>})

PosRoutes ==
    Page(InBranch(Needs("pos_shifts", "read")), {<<"pos">>})
    @@ Page(InBranch(Needs("pos_carts", "update")), {<<"pos", "register">>})
    @@ Page(InBranch(Needs("pos_shifts", "close")), {<<"pos", "close">>})
    @@ Page(InBranch(Needs("sales_invoices", "read")), {<<"pos", "invoices">>})
    @@ Page(InBranch(Needs("pos_carts", "read")), {<<"pos", "proforma">>})

CatalogRoutes ==
    LET products == <<"catalog", "products">>
        pricing == <<"accounting", "pricing-evaluation">>
    IN  Forward(Open, <<"catalog">>, products)
        @@ Page(Needs("catalog", "create"), {products \o <<"new">>})
        @@ Page(Needs("catalog", "update"), {<<"catalog", "attributes">>})
        @@ Forward(Open, products \o <<Id, "edit">>, products \o <<Id>>)
        @@ Forward(Open, <<"catalog", "price-lists", Id>>, products)
        @@ Forward(Open, <<"catalog", "pricing">>, pricing)
        @@ Forward(Open, <<"catalog", "pricing", Id, Id>>, pricing)
        @@ Page(Needs("catalog", "read"),
                Below(<<"catalog">>, {<<"products">>, <<"products", Id>>, <<"taxes">>,
                      <<"taxes", Id>>, <<"categories">>, <<"categories", Id>>}))

StockRoutes ==
    Forward(Open, <<"inventory">>, <<"inventory", "stock">>)
    @@ Page(Needs("inventory", "read"),
            Below(<<"inventory">>, {<<"stock">>, <<"stock", Id>>, <<"alerts">>,
                  <<"stock", Id, "movements">>, <<"transfers">>, <<"transfers", Id>>}))
    @@ Page(Needs("inventory", "update"),
            Below(<<"inventory", "transfers">>, {<<"new">>, <<Id, "edit">>}))
    @@ Page(Needs("stock_adjustments", "read"), {<<"inventory", "adjustments">>})
    @@ Page(Needs("stock_adjustments", "create"), {<<"inventory", "adjustments", "new">>})

MovementRoutes ==
    Page(Needs("stock_adjustments", "create"),
         Below(<<"inventory">>, {<<"receipts", "new">>, <<"reservations", "new">>,
                                 <<"damage", "new">>}))
    @@ Page(Needs("stock_adjustments", "read"),
            Below(<<"inventory">>, {<<"reservations">>, <<"damage">>}))
    @@ Page(Needs("inventory", "read"),
            Below(<<"inventory", "stock-count">>, {<<>>, <<Id>>}))

ProductionRoutes ==
    LET match == <<"purchasing", "invoice-match">>
        Scans == Needs("invoice_scans", "read")
    IN  Page(Needs("production_orders", "read"),
             Below(<<"inventory", "production">>, {<<>>, <<"boms", Id>>, <<"orders", Id>>}))
        @@ Page(Needs("production_orders", "create"),
                Below(<<"inventory", "production">>, {<<"boms", "new">>, <<"orders", "new">>}))
        @@ Forward(Scans, <<"inventory", "scans">>, match)
        @@ Forward(Scans, <<"inventory", "scans", Id>>, match \o <<Id>>)

PurchasingRoutes ==
    LET orders == <<"purchasing", "orders">>
        suppliers == <<"purchasing", "suppliers">>
    IN  Forward(Open, <<"purchasing">>, orders)
        @@ Forward(Open, <<"purchasing", "goods-receipts">>, orders)
        @@ Page(Needs("purchase_orders", "read"), Below(orders, {<<>>, <<Id>>}))
        @@ Page(Needs("purchase_orders", "create"), {orders \o <<"new">>})
        @@ Page(Needs("purchase_orders", "update"),
                Below(orders, {<<Id, "edit">>, <<Id, "receive">>}))
        @@ Page(Needs("suppliers", "create"), {suppliers \o <<"new">>})
        @@ Forward(Open, suppliers \o <<Id, "edit">>, suppliers \o <<Id, "data">>)
        @@ Forward(Needs("suppliers", "read"), suppliers \o <<Id>>,
                   suppliers \o <<Id, "data">>)
        @@ Page(Needs("suppliers", "read"),
                Below(suppliers, {<<>>, <<Id, "data">>, <<Id, "statement">>}))
        @@ Page(Needs("invoice_scans", "read"),
                Below(<<"purchasing", "invoice-match">>, {<<>>, <<Id>>}))

EmployeeRoutes ==
    LET employees == <<"hr", "employees">>
        Read == Needs("employees", "read")
    IN  Forward(Open, <<"hr">>, employees)
        @@ Page(Needs("onboarding", "read"), {employees \o <<"pending">>})
        @@ Page(Needs("onboarding", "update"), {employees \o <<"pending", Id>>})
        @@ Page(Needs("employees", "update"), {employees \o <<Id, "edit">>})
        @@ Forward(Read, employees \o <<Id>>, employees \o <<Id, "performance">>)
        @@ Page(Read, Below(employees, {<<>>, <<Id, "performance">>, <<Id, "data">>,
                                        <<Id, "attendance">>, <<Id, "leave">>}))
        @@ Page(Also(Read, "employees", "update"), {employees \o <<Id, "schedule">>})

HrRoutes ==
    Page(Needs("employees", "read"),
         Below(<<"hr">>, {<<"attendance">>, <<"attendance", "timesheet", Id>>, <<"leave">>}))
    @@ Page(Needs("attendance_devices", "read"), {<<"hr", "attendance", "devices">>})
    @@ Page(Needs("ai_advisory", "run"), {<<"hr", "anomalies">>})

PayrollRoutes ==
    Forward(Open, <<"payroll">>, <<"payroll", "overview">>)
    @@ Forward(Open, <<"payroll", "approvals">>, <<"payroll", "overview">>)
    @@ Page(Needs("payroll", "read"),
            Below(<<"payroll">>, {<<"overview">>, <<"deduction-policies">>, <<"runs">>,
                                  <<"runs", Id>>}))

JournalRoutes ==
    LET journal == <<"accounting", "journal">>
    IN  Forward(Open, <<"accounting">>, journal)
        @@ Page(Needs("accounting", "read"), Below(journal, {<<>>, <<Id>>}))
        @@ Page(Needs("accounting", "create"), Below(journal, {<<"new">>, <<Id, "reverse">>}))

AccountingRoutes ==
    Page(Needs("accounting", "read"),
         Below(<<"accounting">>, {<<"trial-balance">>, <<"income-statement">>,
               <<"balance-sheet">>, <<"balance-diagnostics">>, <<"general-ledger">>,
               <<"ar">>, <<"ap">>, <<"fiscal-periods">>, <<"fiscal-periods", Id>>,
               <<"chart-accounts">>, <<"currencies">>, <<"payment-terms">>}))
    @@ Page(Needs("accounting", "create"), {<<"accounting", "operations">>})
    @@ Page(PricingEvaluation,
            Below(<<"accounting", "pricing-evaluation">>, {<<>>, <<Id, Id>>}))

CrmRoutes ==
    LET Of(root, resource) ==
            Page(Needs(resource, "read"), {root})
            @@ Page(Needs(resource, "create"), {root \o <<"new">>})
            @@ Page(Needs(resource, "update"), {root \o <<Id, "edit">>})
        discounts == <<"crm", "discounts">>
    IN  Forward(Open, <<"crm">>, <<"crm", "customers">>)
        @@ Of(<<"crm", "customers">>, "customers")
        @@ Page(Needs("customers", "read"), {<<"crm", "customers", Id>>})
        @@ Of(<<"crm", "loyalty">>, "loyalty")
        @@ Page(Needs("discounts", "read"), {discounts})
        @@ Forward(Needs("discounts", "create"), discounts \o <<"new">>, discounts)
        @@ Forward(Needs("discounts", "update"), discounts \o <<Id, "edit">>, discounts)

MarketingRoutes ==
    Forward(Open, <<"marketing">>, <<"marketing", "analytics">>)
    @@ Page(Needs("analytics", "read"),
            Below(<<"marketing">>, {<<"analytics">>, <<"inventory-insights">>}))
    @@ Page(Needs("sales_invoices", "read"), {<<"marketing", "sales-invoices">>})
    @@ Page(Needs("marketing_advisory", "run"), {<<"marketing", "advisory">>})
    @@ Page(MarketingCampaign, {<<"marketing", "campaigns">>})
    @@ Forward(Open, <<"ai">>, <<"ai", "purchase-reorder">>)
    @@ Page(Needs("ai_advisory", "run"),
            Below(<<"ai">>, {<<"purchase-reorder">>, <<"hr-anomalies">>, <<"invoice-match">>}))

AdminRoutes ==
    Forward(Open, <<"admin">>, <<"admin", "users">>)
    @@ Forward(Open, <<"admin", "catalog-attributes">>, <<"catalog", "attributes">>)
    @@ Page(Needs("users", "read"),
            Below(<<"admin", "users">>, {<<>>, <<Id>>, <<Id, "permissions">>}))
    @@ Page(Needs("users", "create"), {<<"admin", "users", "new">>})
    @@ Page(Needs("roles", "read"), Below(<<"admin", "roles">>, {<<>>, <<Id>>}))
    @@ Page(Needs("branches", "read"), Below(<<"admin", "branches">>, {<<>>, <<Id>>}))
    @@ Page(Needs("terminals", "read"), Below(<<"admin", "terminals">>, {<<>>, <<Id>>}))
    @@ Page(Needs("backups", "read"), {<<"admin", "backups">>})
    @@ Page(Needs("audit_log", "read"), {<<"admin", "audit-logs">>})

NotificationRoutes ==
    LET root == <<"admin", "notifications">>
        Read == Needs("notifications", "read")
    IN  Forward(Read, root, root \o <<"send-now">>)
        @@ Page(Read, {root \o <<"routine">>})
        @@ Page(OrgNotification, Below(root, {<<"send-now">>, <<"history">>}))

Route == ShellRoutes @@ PosRoutes @@ CatalogRoutes @@ StockRoutes @@ MovementRoutes
         @@ ProductionRoutes @@ PurchasingRoutes @@ EmployeeRoutes @@ HrRoutes
         @@ PayrollRoutes @@ JournalRoutes @@ AccountingRoutes @@ CrmRoutes
         @@ MarketingRoutes @@ AdminRoutes @@ NotificationRoutes

GuardedPaths == DOMAIN Route

\* Variant: everyone is sent to the page of the managers.
TargetSameForAll(path, roles) == Route[path].to

\* Where the element at a path forwards to: AdminNotificationsIndexRedirect
\* looks at the roles.
Target(path, roles) ==
    IF path = <<"admin", "notifications">> /\ roles \cap OrgManagers = {}
    THEN path \o <<"routine">>
    ELSE Route[path].to

-----------------------------------------------------------------------------
(* The menu: what a link needs to be shown *)

Links(resource, action, paths) == [path \in paths |-> Needs(resource, action)]

ShopMenu ==
    (Dashboard :> Open)
    @@ Links("notifications", "read", {<<"notifications">>})
    @@ (<<"correspondence">> :> CorrespondenceInbox)
    @@ Links("pos_shifts", "read", {<<"pos", "register">>})
    @@ Links("catalog", "read", Below(<<"catalog">>, {<<"categories">>, <<"products">>}))
    @@ Links("catalog", "update", {<<"catalog", "attributes">>})

StockMenu ==
    Links("inventory", "read", Below(<<"inventory">>, {<<"stock">>, <<"alerts">>,
                                                       <<"transfers">>}))
    @@ Links("stock_adjustments", "read", {<<"inventory", "adjustments">>})
    @@ Links("stock_adjustments", "create", {<<"inventory", "stock-count">>})
    @@ Links("production_orders", "read", {<<"inventory", "production">>})
    @@ Links("purchase_orders", "read", {<<"purchasing", "orders">>})
    @@ Links("suppliers", "read", {<<"purchasing", "suppliers">>})
    @@ Links("invoice_scans", "read", {<<"purchasing", "invoice-match">>})
    @@ Links("ai_advisory", "run", {<<"ai", "purchase-reorder">>})

PeopleMenu ==
    Links("employees", "read", Below(<<"hr">>, {<<"employees">>, <<"attendance">>,
                                                <<"leave">>}))
    @@ Links("attendance_devices", "read", {<<"hr", "attendance", "devices">>})
    @@ Links("ai_advisory", "run", {<<"hr", "anomalies">>})
    @@ Links("payroll", "read", Below(<<"payroll">>, {<<"overview">>, <<"runs">>,
                                                      <<"deduction-policies">>}))

FinanceMenu ==
    Links("accounting", "read",
          Below(<<"accounting">>, {<<"journal">>, <<"trial-balance">>,
                <<"income-statement">>, <<"balance-sheet">>, <<"general-ledger">>,
                <<"chart-accounts">>, <<"ar">>, <<"ap">>, <<"fiscal-periods">>,
                <<"currencies">>, <<"payment-terms">>}))
    @@ Links("accounting", "create", {<<"accounting", "operations">>})
    @@ Links("catalog", "read", {<<"catalog", "taxes">>})
    @@ (<<"accounting", "pricing-evaluation">> :> PricingEvaluation)

GrowthMenu ==
    (<<"crm", "customers">> :> [Needs("customers", "read")
                                  EXCEPT !.deny = {"MARKETING_MANAGER", "FLOOR_STAFF"}])
    @@ Links("discounts", "read", {<<"crm", "discounts">>})
    @@ Links("analytics", "read",
             Below(<<"marketing">>, {<<"analytics">>, <<"inventory-insights">>}))
    @@ Links("sales_invoices", "read", {<<"marketing", "sales-invoices">>})
    @@ Links("marketing_advisory", "run", {<<"marketing", "advisory">>})
    @@ (<<"marketing", "campaigns">> :> MarketingCampaign)

SystemMenu ==
    Links("users", "read", {<<"admin", "users">>})
    @@ Links("roles", "read", {<<"admin", "roles">>})
    @@ Links("branches", "read", {<<"admin", "branches">>})
    @@ Links("terminals", "read", {<<"admin", "terminals">>})
    @@ Links("backups", "read", {<<"admin", "backups">>})
    @@ Links("audit_log", "read", {<<"admin", "audit-logs">>})
    @@ Links("notifications", "read", {<<"admin", "notifications">>})

Menu == ShopMenu @@ StockMenu @@ PeopleMenu @@ FinanceMenu @@ GrowthMenu @@ SystemMenu

\* filterNav: a group shows the links in it that are shown.
FilteredMenu(perms, roles) == {path \in DOMAIN Menu : Permits(Menu[path], perms, roles)}

\* filterNavForShell drops a lone dashboard.
ShellMenu(perms, roles) ==
    IF FilteredMenu(perms, roles) = {Dashboard} THEN {} ELSE FilteredMenu(perms, roles)

-----------------------------------------------------------------------------
(* Paths a login may continue to *)

SafeRoots == {"dashboard", "notifications", "pos", "catalog", "inventory", "purchasing",
              "hr", "payroll", "accounting", "crm", "marketing", "ai", "admin"}

\* sanitizeNextPath
SafeNext(next) == IF next # Home /\ Head(next) \in SafeRoots THEN next ELSE Home

Prefix(path, resource, action) ==
    [path |-> path, exact |-> FALSE, needs |-> {<<resource, action>>}]

Exactly(path, resource, action) == [Prefix(path, resource, action) EXCEPT !.exact = TRUE]

AdminRules ==
    <<[path |-> Home, exact |-> TRUE, needs |-> {}],
      [path |-> Dashboard, exact |-> TRUE, needs |-> {}],
      [path |-> <<"profile">>, exact |-> TRUE, needs |-> {}],
      [path |-> SelectBranch, exact |-> TRUE, needs |-> {}],
      Exactly(Kiosk, "attendance_kiosk", "read"),
      Prefix(<<"admin", "users", "new">>, "users", "create"),
      Prefix(<<"admin", "users">>, "users", "read"),
      Prefix(<<"admin", "roles">>, "roles", "read"),
      Prefix(<<"admin", "branches">>, "branches", "read"),
      Prefix(<<"admin", "terminals">>, "terminals", "read"),
      Prefix(<<"admin", "backups">>, "backups", "read"),
      Prefix(<<"admin", "notifications">>, "notifications", "read"),
      Prefix(<<"notifications">>, "notifications", "read")>>

ShopRules ==
    <<Exactly(<<"pos", "register">>, "pos_carts", "update"),
      Exactly(<<"pos", "close">>, "pos_shifts", "close"),
      Prefix(<<"pos", "invoices">>, "sales_invoices", "read"),
      Prefix(<<"pos">>, "pos_shifts", "read"),
      Prefix(<<"catalog", "products", "new">>, "catalog", "create"),
      Prefix(<<"catalog", "products", Id, "edit">>, "catalog", "update"),
      Prefix(<<"catalog">>, "catalog", "read"),
      Prefix(<<"inventory", "adjustments", "new">>, "stock_adjustments", "create"),
      Prefix(<<"inventory", "adjustments">>, "stock_adjustments", "read"),
      Prefix(<<"inventory", "scans">>, "invoice_scans", "read"),
      Prefix(<<"inventory">>, "inventory", "read"),
      Prefix(<<"purchasing", "orders", "new">>, "purchase_orders", "create"),
      Prefix(<<"purchasing", "suppliers", "new">>, "suppliers", "create"),
      Prefix(<<"purchasing", "suppliers">>, "suppliers", "read"),
      Prefix(<<"purchasing">>, "purchase_orders", "read")>>

OfficeRules ==
    <<Prefix(<<"hr", "employees", "new">>, "employees", "create"),
      Prefix(<<"hr">>, "employees", "read"),
      Prefix(<<"payroll">>, "payroll", "read"),
      Prefix(<<"accounting", "journal", "new">>, "journal_entries", "create"),
      Prefix(<<"accounting", "chart-accounts">>, "chart_accounts", "read"),
      Prefix(<<"accounting">>, "journal_entries", "read"),
      Prefix(<<"crm", "customers", "new">>, "customers", "create"),
      Prefix(<<"crm", "loyalty">>, "loyalty", "read"),
      Prefix(<<"crm", "discounts">>, "discounts", "read"),
      Prefix(<<"crm">>, "customers", "read"),
      Prefix(<<"marketing", "advisory">>, "marketing_advisory", "run"),
      Prefix(<<"marketing", "campaigns">>, "ai_advisory", "run"),
      Prefix(<<"marketing", "sales-invoices">>, "sales_invoices", "read"),
      Prefix(<<"marketing">>, "analytics", "read"),
      Prefix(<<"ai">>, "ai_advisory", "run")>>

PathRules == AdminRules \o ShopRules \o OfficeRules

Applies(rule, path) == IF rule.exact THEN path = rule.path ELSE Starts(path, rule.path)

\* The first rule that applies decides, campaigns by role as well. Only safe
\* paths come here, so the rule for the correspondence inbox never decides.
CanAccessPath(path, perms, roles) ==
    LET hits == SelectSeq(PathRules, LAMBDA rule : Applies(rule, path))
    IN  \/ hits = <<>>
        \/ /\ Head(hits).needs \subseteq perms
           /\ Starts(path, <<"marketing", "campaigns">>)
                 => Permits(MarketingCampaign, perms, roles)

\* Both ways to sign in continue to a path the rules let the user see.
Continue(target, perms, roles) ==
    IF target # Home /\ CanAccessPath(target, perms, roles) THEN target ELSE Dashboard

\* resolvePostLoginPath
PostLogin(next, perms, roles) ==
    LET target == SafeNext(next)
    IN  IF "ATTENDANCE_KIOSK" \in roles THEN Kiosk ELSE Continue(target, perms, roles)
=============================================================================
