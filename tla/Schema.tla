------------------------------- MODULE Schema -------------------------------
(***************************************************************************)
(* The tables the migrations create, with their foreign keys: the table    *)
(* each one refers to, what Django does to the referring row when the row  *)
(* it refers to is deleted, and whether the column may be NULL.  The other *)
(* columns play no part in a deletion.                                     *)
(***************************************************************************)

Key(to, on_delete) == [to |-> to, on_delete |-> on_delete, null |-> FALSE]

Cascade(to) == Key(to, "CASCADE")
Protect(to) == Key(to, "PROTECT")

Optional(key) == [key EXCEPT !.null = TRUE]

SetNull(to) == Optional(Key(to, "SET_NULL"))

-----------------------------------------------------------------------------
(* Tenants and users.                                                      *)

Tenant ==
  [owner |-> Protect("User")]

TenantSettings ==
  [tenant |-> Cascade("Tenant")]

Role ==
  [tenant |-> Cascade("Tenant")]

TenantMembership ==
  [branch |-> SetNull("Branch"), invited_by |-> SetNull("User"),
   role |-> Protect("Role"), tenant |-> Cascade("Tenant"),
   user |-> Cascade("User")]

UserInvitation ==
  [invited_by |-> Cascade("User"), role |-> Protect("Role"),
   tenant |-> Cascade("Tenant")]

User == [key \in {} |-> key]

-----------------------------------------------------------------------------
(* Places.                                                                 *)

Warehouse ==
  [manager |-> SetNull("User"), tenant |-> Cascade("Tenant")]

Branch ==
  [manager |-> SetNull("User"), tenant |-> Cascade("Tenant"),
   warehouse |-> SetNull("Warehouse")]

-----------------------------------------------------------------------------
(* The catalogue.                                                          *)

Category ==
  [parent |-> SetNull("Category"), tenant |-> Cascade("Tenant")]

ProductUnit == SetNull("Unit")

Product ==
  [category |-> SetNull("Category"), tenant |-> Cascade("Tenant"),
   unit |-> ProductUnit]

ProductVariant ==
  [product |-> Cascade("Product"), tenant |-> Cascade("Tenant")]

BundleItem ==
  [tenant |-> Cascade("Tenant"), bundle |-> Cascade("Product"),
   component |-> Cascade("Product"), variant |-> SetNull("ProductVariant")]

Unit ==
  [tenant |-> Cascade("Tenant")]

-----------------------------------------------------------------------------
(* Stock.                                                                  *)

StockTransfer ==
  [created_by |-> Protect("User"), from_warehouse |-> Protect("Warehouse"),
   received_by |-> Optional(Protect("User")), tenant |-> Cascade("Tenant"),
   to_warehouse |-> Protect("Warehouse")]

StockTransferItem ==
  [product |-> Protect("Product"), tenant |-> Cascade("Tenant"),
   transfer |-> Cascade("StockTransfer"),
   variant |-> Optional(Protect("ProductVariant"))]

BatchLot ==
  [product |-> Cascade("Product"), tenant |-> Cascade("Tenant"),
   warehouse |-> Cascade("Warehouse")]

SerialNumber ==
  [product |-> Cascade("Product"), tenant |-> Cascade("Tenant"),
   warehouse |-> Cascade("Warehouse")]

StockLevel ==
  [product |-> Cascade("Product"), tenant |-> Cascade("Tenant"),
   variant |-> Optional(Cascade("ProductVariant")),
   warehouse |-> Cascade("Warehouse")]

\* Mutant: the movements of a warehouse go with it.
StockMovementCascades ==
  [performed_by |-> Protect("User"), product |-> Protect("Product"),
   tenant |-> Cascade("Tenant"),
   variant |-> Optional(Protect("ProductVariant")),
   warehouse |-> Cascade("Warehouse")]

\* Mutant: the movements of a warehouse outlive it.
StockMovementOutlives ==
  [performed_by |-> Protect("User"), product |-> Protect("Product"),
   tenant |-> Cascade("Tenant"),
   variant |-> Optional(Protect("ProductVariant")),
   warehouse |-> SetNull("Warehouse")]

StockMovement ==
  [performed_by |-> Protect("User"), product |-> Protect("Product"),
   tenant |-> Cascade("Tenant"),
   variant |-> Optional(Protect("ProductVariant")),
   warehouse |-> Protect("Warehouse")]

-----------------------------------------------------------------------------
(* Sales.                                                                  *)

Customer ==
  [tenant |-> Cascade("Tenant")]

POSSession ==
  [cashier |-> Protect("User"), tenant |-> Cascade("Tenant"),
   warehouse |-> Protect("Warehouse")]

SalesOrder ==
  [assigned_to |-> SetNull("User"), branch |-> SetNull("Branch"),
   created_by |-> Protect("User"), customer |-> SetNull("Customer"),
   pos_session |-> SetNull("POSSession"), tenant |-> Cascade("Tenant"),
   warehouse |-> Protect("Warehouse")]

Payment ==
  [received_by |-> Protect("User"), tenant |-> Cascade("Tenant"),
   order |-> Cascade("SalesOrder")]

SalesOrderItem ==
  [order |-> Cascade("SalesOrder"), product |-> Protect("Product"),
   tenant |-> Cascade("Tenant"),
   variant |-> Optional(Protect("ProductVariant"))]

-----------------------------------------------------------------------------
(* Purchases.                                                              *)

PurchaseOrderSupplier == Protect("Supplier")

PurchaseOrder ==
  [approved_by |-> SetNull("User"), created_by |-> Protect("User"),
   tenant |-> Cascade("Tenant"), warehouse |-> Protect("Warehouse"),
   supplier |-> PurchaseOrderSupplier]

PurchaseOrderItem ==
  [order |-> Cascade("PurchaseOrder"), product |-> Protect("Product"),
   tenant |-> Cascade("Tenant"),
   variant |-> Optional(Protect("ProductVariant"))]

Supplier ==
  [tenant |-> Cascade("Tenant")]

-----------------------------------------------------------------------------
(* Finance.                                                                *)

ExpenseCategory ==
  [parent |-> SetNull("ExpenseCategory"), tenant |-> Cascade("Tenant")]

Expense ==
  [approved_by |-> SetNull("User"), submitted_by |-> Protect("User"),
   tenant |-> Cascade("Tenant"), warehouse |-> SetNull("Warehouse"),
   category |-> SetNull("ExpenseCategory")]

FinancialSummary ==
  [tenant |-> Cascade("Tenant")]

TaxRate ==
  [tenant |-> Cascade("Tenant")]

-----------------------------------------------------------------------------
(* Messages.                                                               *)

Notification ==
  [recipient |-> Optional(Cascade("User")), tenant |-> Cascade("Tenant")]

AuditLog ==
  [tenant |-> Optional(Cascade("Tenant")), user |-> SetNull("User")]

-----------------------------------------------------------------------------
ForeignKeys ==
  [Tenant |-> Tenant, TenantSettings |-> TenantSettings, Role |-> Role,
   TenantMembership |-> TenantMembership,
   UserInvitation |-> UserInvitation, User |-> User,
   Warehouse |-> Warehouse, Branch |-> Branch, Category |-> Category,
   Product |-> Product, ProductVariant |-> ProductVariant,
   BundleItem |-> BundleItem, Unit |-> Unit,
   StockTransfer |-> StockTransfer,
   StockTransferItem |-> StockTransferItem, BatchLot |-> BatchLot,
   SerialNumber |-> SerialNumber, StockLevel |-> StockLevel,
   StockMovement |-> StockMovement, Customer |-> Customer,
   POSSession |-> POSSession, SalesOrder |-> SalesOrder,
   Payment |-> Payment, SalesOrderItem |-> SalesOrderItem,
   PurchaseOrder |-> PurchaseOrder,
   PurchaseOrderItem |-> PurchaseOrderItem, Supplier |-> Supplier,
   ExpenseCategory |-> ExpenseCategory, Expense |-> Expense,
   FinancialSummary |-> FinancialSummary, TaxRate |-> TaxRate,
   Notification |-> Notification, AuditLog |-> AuditLog]

Tables == DOMAIN ForeignKeys
=============================================================================
