--------------------------- MODULE MCWalletStore ---------------------------
(***************************************************************************)
(* Instances of WalletStore for TLC: two wallets, and calls whose amounts  *)
(* make each check succeed in some orders and fail in others.              *)
(***************************************************************************)
EXTENDS WalletStore

CONSTANTS a, b, h1, h2, k1, s1, s2, s3

Call(op, w, to, amount, key, req) ==
    [op |-> op, wallet |-> w, to |-> to, amount |-> amount, key |-> key, req |-> req]

DepositCalls == {Call("Deposit", a, a, 3, h1, 0)}
DeductCalls == {Call("Deduct", a, a, 2, k1, 0)}
AnonymousDeduct == {Call("Deduct", a, a, 1, NoKey, 0)}
CreditCalls == {Call("AddCredit", a, a, 2, k1, 0)}
OtherCredit == {Call("AddCredit", b, b, 1, k1, 0)}
TransferCalls == {Call("Transfer", a, b, 3, NoKey, 0)}
BackTransfer == {Call("Transfer", b, a, 1, NoKey, 0)}
WithdrawCalls == {Call("CreateWithdraw", a, a, 1, NoKey, 0)}
CompleteCalls == {Call("CompleteWithdraw", a, a, 0, h2, 1)}
RejectCalls == {Call("RejectWithdraw", a, a, 0, NoKey, 1)}

\* Amounts and keys the methods must refuse.
RefusedCalls ==
    {Call("AddCredit", a, a, -1, k1, 0), Call("Deduct", a, a, -1, NoKey, 0)}

AllCalls == DepositCalls \cup DeductCalls \cup CreditCalls \cup TransferCalls
            \cup WithdrawCalls \cup CompleteCalls \cup RejectCalls \cup RefusedCalls
            \cup BackTransfer \cup AnonymousDeduct \cup OtherCredit

AnyServe == [s \in Sessions |-> Ops]

\* One botpay process: the pay.deduct subscription runs its callbacks one at
\* a time and the TON watcher is one goroutine, so that one session deducts
\* and one deposits.
OneProcess ==
    [s \in Sessions |->
        CASE s = s1 -> {"Deduct"} [] s = s2 -> Ops \ {"Deduct"} [] OTHER -> Ops \ {"Deduct", "Deposit"}]

\* The calls of the runs about one question.
PaymentCalls == DepositCalls \cup DeductCalls
RetryCalls == {Call("Deposit", a, a, 4, h1, 0)} \cup DeductCalls \cup TransferCalls \cup BackTransfer \cup WithdrawCalls
HoldCalls == DepositCalls \cup WithdrawCalls
SettleCalls == DepositCalls \cup WithdrawCalls \cup CompleteCalls
CashOutCalls == CreditCalls \cup WithdrawCalls \cup CompleteCalls

=============================================================================
