--------------------------------- MODULE Escrow ---------------------------------
(***************************************************************************)
(* chain/contracts/Escrow.sol over the custody chain it reads.             *)
(*                                                                         *)
(* release and resolveDispute send native tokens with a low level call, so *)
(* the recipient's code runs in the middle of them and may call the escrow *)
(* again before the first call has returned.  A transaction is therefore   *)
(* not one step here: a call of the escrow that transfers is pushed as a   *)
(* frame, the recipient may start further calls, and the frame ends when   *)
(* the transfer returns.  If it returns false the code reverts with        *)
(* TransferFailed, which undoes everything done since the frame began, the *)
(* calls nested in it included; each frame keeps the state to go back to.  *)
(*                                                                         *)
(* Left out: the identities of payer and payee (a deposit's are fixed when *)
(* it is funded), fundedAt, the events.                                    *)
(***************************************************************************)
EXTENDS CustodyChain, Integers, FiniteSets, Functions

CONSTANTS
  Account,     \* accounts that may own the contract or arbitrate
  ZeroAddress, \* address(0)
  MaxAmount,   \* bound: the largest deposit
  MaxDepth     \* bound: nested calls (the EVM stops at 1024)

ASSUME EscrowAssumption ==
  /\ Manifest # {} /\ IsFiniteSet(Manifest)
  /\ MaxAmount \in Nat \ {0}
  /\ MaxDepth \in Nat \ {0}
  /\ ZeroAddress \notin Account

VARIABLES
  owner, arbiter,
  book,     \* _deposits, and what has been paid out of each
  balance,  \* the native balance of the contract
  depth,    \* how many calls that transfer are under way
  frame     \* what each of them is about and what it returns to

moneyVars == <<book, balance, depth, frame>>
escrowVars == <<stage, owner, arbiter, book, balance, depth, frame>>

Amount == 0 .. MaxAmount
DepositStatus == {"None", "Funded", "Released", "Refunded"}
Entry ==
  [ status: DepositStatus, amount: Amount,
    toPayee: Amount, toPayer: Amount, \* paid so far
    owed: Amount ]                    \* toPayer of a resolveDispute still under way
NoEntry == [status |-> "None", amount |-> 0, toPayee |-> 0, toPayer |-> 0, owed |-> 0]

Book == [Manifest -> Entry]
Frame == [manifest: Manifest, book: Book, balance: Int]

EscrowInit ==
  /\ ChainInit
  /\ owner \in Account /\ arbiter \in Account
  /\ book = [m \in Manifest |-> NoEntry]
  /\ balance = 0
  /\ depth = 0
  /\ frame \in [1 .. MaxDepth -> {[manifest |-> CHOOSE m \in Manifest : TRUE,
                                   book |-> book, balance |-> 0]}]

TransferOwnership(newOwner) ==
  /\ owner \in Account
  /\ owner' = newOwner
  /\ UNCHANGED <<stage, arbiter, moneyVars>>

SetArbiter(newArbiter) ==
  /\ owner \in Account
  /\ newArbiter # ZeroAddress
  /\ arbiter' = newArbiter
  /\ UNCHANGED <<stage, owner, moneyVars>>

Fund(m, value) ==
  /\ value # 0
  /\ book[m].status = "None"
  /\ book' = [book EXCEPT ![m] = [NoEntry EXCEPT !.status = "Funded", !.amount = value]]
  /\ balance' = balance + value
  /\ UNCHANGED <<stage, owner, arbiter, depth, frame>>

\* A call about m begins that transfers value: the tokens leave, then the
\* recipient runs.  Entry e is what the code has written before the transfer.
BeginTransfer(m, e, value) ==
  /\ depth < MaxDepth
  /\ value <= balance
  /\ depth' = depth + 1
  /\ frame' = [frame EXCEPT ![depth + 1] =
                 [manifest |-> m, book |-> book, balance |-> balance]]
  /\ book' = [book EXCEPT ![m] = e]
  /\ balance' = balance - value

MutMayRelease(m) == Releasable(m) \/ stage[m] = "InCustody"
MayRelease(m) == Releasable(m)

\* release: the status is written before the tokens are sent.
MutReleased(m) == [book[m] EXCEPT !.toPayee = @ + book[m].amount]
Released(m) ==
  [book[m] EXCEPT !.status = "Released", !.toPayee = @ + book[m].amount]

Release(m) ==
  /\ book[m].status = "Funded"
  /\ MayRelease(m)
  /\ BeginTransfer(m, Released(m), book[m].amount)
  /\ UNCHANGED <<stage, owner, arbiter>>

\* What goes back to the payer when split of the deposit goes to the payee.
MutRest(m, split) == book[m].amount
Rest(m, split) == book[m].amount - split

\* resolveDispute: the payee's part goes first, the payer's when it returned;
\* a part of zero is not sent.
ResolveDispute(sender, m, split) ==
  /\ sender = arbiter
  /\ book[m].status = "Funded"
  /\ InDispute(m)
  /\ split <= book[m].amount
  /\ LET rest == Rest(m, split)
         e == [book[m] EXCEPT !.status = "Refunded"]
     IN IF split > 0
        THEN BeginTransfer(m, [e EXCEPT !.toPayee = @ + split, !.owed = rest], split)
        ELSE BeginTransfer(m, [e EXCEPT !.toPayer = @ + rest], rest)
  /\ UNCHANGED <<stage, owner, arbiter>>

\* The transfer of the innermost call returned true: it sends what it still
\* owes the payer, or it is done.
TransferSucceeds ==
  /\ depth > 0
  /\ LET m == frame[depth].manifest
         rest == book[m].owed
     IN IF rest > 0
        THEN /\ rest <= balance
             /\ book' = [book EXCEPT ![m].toPayer = @ + rest, ![m].owed = 0]
             /\ balance' = balance - rest
             /\ UNCHANGED depth
        ELSE /\ depth' = depth - 1
             /\ UNCHANGED <<book, balance>>
  /\ UNCHANGED <<stage, owner, arbiter, frame>>

\* It returned false: the call reverts.
RevertTo(f) == book' = f.book /\ balance' = f.balance

TransferFails ==
  /\ depth > 0
  /\ RevertTo(frame[depth])
  /\ depth' = depth - 1
  /\ UNCHANGED <<stage, owner, arbiter, frame>>

\* Custody moves, and the roles change, in transactions of the relayer and of
\* the owner, which are plain accounts: never inside somebody's transfer.
BetweenTransactions ==
  /\ depth = 0
  /\ \/ ChainNext /\ UNCHANGED <<owner, arbiter, moneyVars>>
     \/ \E a \in Account \cup {ZeroAddress} : TransferOwnership(a) \/ SetArbiter(a)

EscrowNext ==
  \/ BetweenTransactions
  \/ \E m \in Manifest :
       \/ \E value \in Amount : Fund(m, value)
       \/ Release(m)
       \/ \E a \in Account, split \in Amount : ResolveDispute(a, m, split)
  \/ TransferSucceeds
  \/ TransferFails

EscrowSpec == EscrowInit /\ [][EscrowNext]_escrowVars

--------------------------------------------------------------------------------
EscrowTypeOK ==
  /\ stage \in [Manifest -> Stage]
  /\ owner \in Account \cup {ZeroAddress}
  /\ arbiter \in Account
  /\ book \in Book
  /\ balance \in Int
  /\ depth \in 0 .. MaxDepth
  /\ frame \in [1 .. MaxDepth -> Frame]

\* No order of nested calls, failed transfers and reverts pays out of a deposit
\* more than it held, or leaves a settled one partly unpaid: a payee that calls
\* the escrow again from inside its transfer is paid once (release and
\* resolveDispute write the status before they send).
EntrySound(e) ==
  /\ e.status = "None" => e = NoEntry
  /\ e.status = "Funded" => e.amount > 0 /\ e.toPayee + e.toPayer + e.owed = 0
  /\ e.status \in {"Released", "Refunded"} =>
       e.amount > 0 /\ e.toPayee + e.toPayer + e.owed = e.amount
  /\ e.status = "Released" => e.toPayer + e.owed = 0

PaidOnce ==
  /\ \A m \in Manifest : EntrySound(book[m])
  /\ depth = 0 => \A m \in Manifest : book[m].owed = 0

\* The contract holds exactly what it still has to send: every deposit whose
\* status is Funded, in full, and the payer's part of a resolveDispute that has
\* sent the payee's.  The status is what the code goes by, so a deposit that is
\* paid while it is still Funded, paid twice, or split into parts that do not
\* add up has been paid out of somebody else's, and the sum shows it, in the
\* middle of nested transfers too.
Due(e) == IF e.status = "Funded" THEN e.amount ELSE e.owed
Holdings(b) == FoldFunction(+, 0, [m \in Manifest |-> Due(b[m])])
Solvent == balance = Holdings(book)

\* The full amount goes to the payee only for a manifest delivered in full;
\* anything goes back, or is split, only for a short or disputed one
\* (isReleasable, STATUS_SHORT, STATUS_DISPUTED).  The detailed contract, with
\* its frames and reverts, makes one step of the promise per transaction.
committed == IF depth = 0 THEN book ELSE frame[1].book
Promise == INSTANCE EscrowPromise WITH
  held <- [m \in Manifest |-> IF committed[m].status = "Funded" THEN committed[m].amount ELSE 0],
  paid <- [m \in Manifest |-> [payee |-> committed[m].toPayee, payer |-> committed[m].toPayer]]
ImplementsPromise == Promise!PromiseSpec
================================================================================
