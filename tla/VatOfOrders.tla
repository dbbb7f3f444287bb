------------------------------ MODULE VatOfOrders ------------------------------
(***************************************************************************)
(* EuropeanVat under names of its own, so that it can be read beside       *)
(* OrderTerms: what an order is sold for, and what it is taxed with.       *)
(***************************************************************************)
EXTENDS Naturals

CONSTANTS
  TaxedProduct, TaxGroup, VatRate, Approver, TaxRequest,
  Untaxed   \* None of EuropeanVat

\* What stands for the lack of a group, a rate, an approver or an approval is
\* none of them.
ASSUME UntaxedAssumption ==
  Untaxed \notin TaxGroup \cup VatRate \cup Approver \cup [rate : VatRate, by : Approver]

VARIABLES taxRow, europe, deciding, signed, disputed

taxes == <<taxRow, europe, deciding, signed, disputed>>

Vat == INSTANCE EuropeanVat WITH
  Product <- TaxedProduct, Group <- TaxGroup, Rate <- VatRate, User <- Approver,
  Request <- TaxRequest, None <- Untaxed,
  row <- taxRow, enabled <- europe, req <- deciding, signature <- signed, overtaken <- disputed

InitVat == Vat!Init

\* The steps by what they leave alone: the catalogue changes under open requests,
OnProducts ==
  \/ \E p \in TaxedProduct, g \in TaxGroup \cup {Untaxed} : Vat!Create(p, g) /\ UNCHANGED deciding
  \/ \E p \in TaxedProduct, g \in TaxGroup \cup {Untaxed} : Vat!ChangeType(p, g) /\ UNCHANGED deciding
  \/ \E p \in TaxedProduct : Vat!Delete(p) /\ UNCHANGED deciding
  \/ \E p \in TaxedProduct, rate \in VatRate, available \in BOOLEAN :
       Vat!Import(p, rate, available) /\ UNCHANGED deciding

\* decisions do not ask whether the market is open,
OnRates ==
  \/ \E g \in TaxGroup, rate \in VatRate, u \in Approver : Vat!ApproveGroup(g, rate, u) /\ UNCHANGED europe
  \/ \E r \in TaxRequest, p \in TaxedProduct, u \in Approver, rate \in VatRate \cup {Untaxed} :
       \E status \in {"pending", "approved", "rejected"} :
         Vat!BeginDecision(r, p, status, rate, u) /\ UNCHANGED europe
  \/ \E r \in TaxRequest : Vat!CommitDecision(r) /\ UNCHANGED europe

\* and opening it or ordering in it writes no rate.
OnMarket ==
  \/ \E r \in TaxRequest : Vat!BeginActivation(r) /\ UNCHANGED taxRow
  \/ \E r \in TaxRequest : Vat!CommitActivation(r) /\ UNCHANGED taxRow
  \/ Vat!Deactivate /\ UNCHANGED taxRow
  \/ \E r \in TaxRequest, p \in TaxedProduct : Vat!BeginOrder(r, p) /\ UNCHANGED taxRow
  \/ \E r \in TaxRequest : Vat!ReadVat(r) /\ UNCHANGED taxRow
  \/ \E r \in TaxRequest : Vat!CommitOrder(r) /\ UNCHANGED taxRow
  \/ \E r \in TaxRequest : Vat!Answer(r) /\ UNCHANGED taxRow

NextVat == OnProducts \/ OnRates \/ OnMarket

SpecVat == InitVat /\ [][NextVat]_taxes

\* Of EuropeanVat: a rate on an order was approved for the product or for its group,
\* where the last decision took effect as decided.
InvoicedRatesWereSigned == Vat!InvoicedRatesWereSigned

=============================================================================
