-------------------------------- MODULE Money_proofs --------------------------------
(***************************************************************************)
(* Proofs about the money: Escrow.tla, for any finite set of manifests,    *)
(* any largest deposit and any depth of nested calls, and ReleaseGate.tla, *)
(* for any finite manifest, any other pieces and any requests at a time.   *)
(***************************************************************************)
EXTENDS Escrow, ReleaseGate, FiniteSums

(***************************************************************************)
(* The escrow contract.  A revert restores a snapshot, so the invariant    *)
(* has to hold in every snapshot a frame keeps; and a deposit may be       *)
(* partly unpaid only while a frame about it is under way, in the present  *)
(* book and, for the frames below, in each snapshot.                       *)
(***************************************************************************)
\* Whatever is owed in book b is owed by one of the first d calls.
Owing(b, d) ==
  \A m \in Manifest : b[m].owed # 0 => \E i \in 1 .. d : frame[i].manifest = m

BookSound(b, d) == (\A m \in Manifest : EntrySound(b[m])) /\ Owing(b, d)

EscrowInv ==
  /\ EscrowTypeOK
  /\ BookSound(book, depth)
  /\ \A i \in 1 .. depth : BookSound(frame[i].book, i - 1)

--------------------------------------------------------------------------------
(***************************************************************************)
(* What release and resolveDispute write before they send.                 *)
(***************************************************************************)

LEMMA EntryTypes ==
  ASSUME NEW e \in Entry
  PROVE  /\ e.status \in DepositStatus
         /\ e.amount \in Amount /\ e.toPayee \in Amount /\ e.toPayer \in Amount /\ e.owed \in Amount
         /\ e.amount \in Nat /\ e.toPayee \in Nat /\ e.toPayer \in Nat /\ e.owed \in Nat
<1>1. Amount \subseteq Nat
  BY EscrowAssumption DEF Amount
<1> QED BY <1>1 DEF Entry

\* Nothing has been paid out of a funded deposit.
LEMMA FundedEntry ==
  ASSUME NEW e \in Entry, EntrySound(e), e.status = "Funded"
  PROVE  e.amount > 0 /\ e.toPayee = 0 /\ e.toPayer = 0 /\ e.owed = 0
<1>1. e.amount > 0 /\ e.toPayee + e.toPayer + e.owed = 0
  BY DEF EntrySound
<1>2. e.toPayee \in Nat /\ e.toPayer \in Nat /\ e.owed \in Nat
  BY EntryTypes
<1> QED BY <1>1, <1>2

\* The entry of a released deposit is sound and owes nothing.
LEMMA ReleasedSound ==
  ASSUME EscrowTypeOK, NEW m \in Manifest, EntrySound(book[m]), book[m].status = "Funded"
  PROVE  /\ Released(m) \in Entry
         /\ EntrySound(Released(m))
         /\ book[m].amount \in Amount
<1> DEFINE e == book[m]
<1>1. e \in Entry
  BY DEF EscrowTypeOK, Book
<1>2. e.amount > 0 /\ e.toPayee = 0 /\ e.toPayer = 0 /\ e.owed = 0
  BY <1>1, FundedEntry
<1>3. e.toPayee + e.amount = e.amount /\ e.amount \in Amount /\ e.amount \in Nat
  BY <1>1, <1>2, EntryTypes
<1>4. Released(m) = [e EXCEPT !.status = "Released", !.toPayee = e.amount]
  BY <1>3 DEF Released
<1>5. /\ Released(m) \in Entry
      /\ Released(m).status = "Released" /\ Released(m).amount = e.amount
      /\ Released(m).toPayee = e.amount /\ Released(m).toPayer = 0 /\ Released(m).owed = 0
  BY <1>1, <1>2, <1>3, <1>4 DEF Entry, DepositStatus
<1> QED BY <1>2, <1>3, <1>5 DEF EntrySound

\* The entry of a deposit that is being split: what has not been sent is owed.
Split(m, sent) ==
  LET rest == Rest(m, sent)
      e == [book[m] EXCEPT !.status = "Refunded"]
  IN IF sent > 0 THEN [e EXCEPT !.toPayee = @ + sent, !.owed = rest]
                 ELSE [e EXCEPT !.toPayer = @ + rest]

LEMMA SplitSound ==
  ASSUME EscrowTypeOK, NEW m \in Manifest, EntrySound(book[m]), book[m].status = "Funded",
         NEW sent \in Amount, sent <= book[m].amount
  PROVE  /\ Split(m, sent) \in Entry
         /\ EntrySound(Split(m, sent))
         /\ book[m].amount - sent \in Amount
<1> DEFINE e == book[m]
           f == Split(m, sent)
           rest == e.amount - sent
<1>1. e \in Entry
  BY DEF EscrowTypeOK, Book
<1>2. e.amount > 0 /\ e.toPayee = 0 /\ e.toPayer = 0 /\ e.owed = 0
  BY <1>1, FundedEntry
<1>3. /\ rest \in Amount /\ rest \in Nat /\ sent \in Nat
      /\ 0 + sent = sent /\ 0 + rest = rest /\ sent + rest = e.amount
  BY <1>1, EntryTypes, EscrowAssumption DEF Amount
<1>4. CASE sent > 0
  <2>1. f = [e EXCEPT !.status = "Refunded", !.toPayee = sent, !.owed = rest]
    BY <1>1, <1>2, <1>3, <1>4 DEF Split, Rest, Entry
  <2>2. /\ f \in Entry /\ f.status = "Refunded" /\ f.amount = e.amount
        /\ f.toPayee = sent /\ f.toPayer = 0 /\ f.owed = rest
    BY <1>1, <1>2, <1>3, <2>1 DEF Entry, DepositStatus
  <2> QED BY <1>2, <1>3, <2>2 DEF EntrySound
<1>5. CASE ~(sent > 0)
  <2>1. f = [e EXCEPT !.status = "Refunded", !.toPayer = rest]
    BY <1>1, <1>2, <1>3, <1>5 DEF Split, Rest, Entry
  <2>2. /\ f \in Entry /\ f.status = "Refunded" /\ f.amount = e.amount
        /\ f.toPayee = 0 /\ f.toPayer = rest /\ f.owed = 0
    BY <1>1, <1>2, <1>3, <2>1 DEF Entry, DepositStatus
  <2>3. rest = e.amount
    BY <1>3, <1>5
  <2> QED BY <1>2, <1>3, <2>2, <2>3 DEF EntrySound
<1> QED BY <1>3, <1>4, <1>5

--------------------------------------------------------------------------------
(***************************************************************************)
(* The invariant.                                                          *)
(***************************************************************************)

\* Starting a transfer keeps the invariant: the snapshot is the book as it
\* was, and what the new entry owes is owed by the new call.
LEMMA BeginTransferSound ==
  ASSUME EscrowInv, NEW m \in Manifest, NEW e \in Entry, EntrySound(e), NEW value \in Amount,
         BeginTransfer(m, e, value), UNCHANGED <<stage, owner, arbiter>>
  PROVE  EscrowInv'
<1> USE EscrowAssumption
<1>1. /\ depth \in 0 .. MaxDepth /\ depth < MaxDepth /\ depth' = depth + 1
      /\ book \in Book /\ balance \in Int /\ frame \in [1 .. MaxDepth -> Frame]
      /\ book' = [book EXCEPT ![m] = e]
  BY DEF EscrowInv, EscrowTypeOK, BeginTransfer
<1>2. /\ frame' \in [1 .. MaxDepth -> Frame]
      /\ frame'[depth + 1] = [manifest |-> m, book |-> book, balance |-> balance]
      /\ \A i \in 1 .. depth : frame'[i] = frame[i]
  BY <1>1 DEF BeginTransfer, Frame
<1>3. EscrowTypeOK'
  <2>1. book' \in Book
    BY <1>1 DEF Book
  <2>2. balance' \in Int
    BY <1>1 DEF BeginTransfer, Amount
  <2> QED BY <1>1, <1>2, <2>1, <2>2 DEF EscrowInv, EscrowTypeOK
<1>4. BookSound(book, depth)'
  <2>1. ASSUME NEW k \in Manifest
        PROVE  EntrySound(book'[k])
    BY <1>1 DEF EscrowInv, BookSound, Book
  <2>2. ASSUME NEW k \in Manifest, book'[k].owed # 0
        PROVE  \E i \in 1 .. depth' : frame'[i].manifest = k
    <3>1. CASE k = m
      BY <1>1, <1>2, <3>1
    <3>2. CASE k # m
      <4>1. book[k].owed # 0
        BY <1>1, <2>2, <3>2 DEF Book
      <4>2. PICK i \in 1 .. depth : frame[i].manifest = k
        BY <4>1 DEF EscrowInv, BookSound, Owing
      <4> QED BY <1>1, <1>2, <4>2
    <3> QED BY <3>1, <3>2
  <2> QED BY <2>1, <2>2 DEF BookSound, Owing
<1>5. ASSUME NEW i \in 1 .. depth'
      PROVE  BookSound(frame[i].book, i - 1)'
  <2>1. CASE i = depth + 1
    BY <1>1, <1>2, <2>1 DEF EscrowInv, BookSound, Owing
  <2>2. CASE i \in 1 .. depth
    BY <1>1, <1>2, <2>2 DEF EscrowInv, BookSound, Owing
  <2> QED BY <1>1, <2>1, <2>2
<1> QED BY <1>3, <1>4, <1>5 DEF EscrowInv

\* A step that leaves the frames alone and does not return.
LEMMA SameFrames ==
  ASSUME EscrowInv, EscrowTypeOK', BookSound(book, depth)', UNCHANGED <<depth, frame>>
  PROVE  EscrowInv'
BY DEF EscrowInv, BookSound, Owing

LEMMA TransferSucceedsSound ==
  ASSUME EscrowInv, TransferSucceeds
  PROVE  EscrowInv'
<1> DEFINE m == frame[depth].manifest
           e == book[m]
           rest == e.owed
<1> USE EscrowAssumption
<1>1. /\ depth \in 1 .. MaxDepth
      /\ book \in Book /\ balance \in Int /\ frame \in [1 .. MaxDepth -> Frame]
      /\ UNCHANGED <<stage, owner, arbiter, frame>>
  BY DEF EscrowInv, EscrowTypeOK, TransferSucceeds
<1>2. m \in Manifest /\ e \in Entry /\ EntrySound(e)
  BY <1>1 DEF Frame, Book, EscrowInv, BookSound
<1>3. CASE rest > 0
  <2> DEFINE f == [e EXCEPT !.toPayer = @ + rest, !.owed = 0]
  <2>1. /\ depth' = depth /\ balance' = balance - rest
        /\ book' = [book EXCEPT ![m] = f]
    BY <1>1, <1>2, <1>3 DEF TransferSucceeds, Book, Entry
  <2>2. e.status = "Refunded" /\ e.toPayer + rest \in Amount /\ e.amount > 0
        /\ e.toPayee + e.toPayer + e.owed = e.amount
    BY <1>2, <1>3 DEF EntrySound, Entry, Amount, NoEntry, DepositStatus
  <2>3. /\ f \in Entry /\ f.status = e.status /\ f.amount = e.amount
        /\ f.toPayee = e.toPayee /\ f.toPayer = e.toPayer + rest /\ f.owed = 0
    <3>1. 0 \in Amount
      BY DEF Amount
    <3> DEFINE paid == e.toPayer + rest
    <3>2. paid \in Amount
      BY <2>2
    <3> HIDE DEF paid
    <3> QED BY <1>2, <3>1, <3>2 DEF Entry, paid
  <2>4. EntrySound(f)
    BY <1>2, <2>2, <2>3 DEF EntrySound, Entry, Amount
  <2> HIDE DEF f
  <2>5. EscrowTypeOK'
    <3>1. book' \in Book
      BY <1>1, <2>1, <2>3 DEF Book
    <3>2. balance' \in Int
      BY <1>1, <1>2, <2>1 DEF Entry, Amount
    <3> QED BY <1>1, <2>1, <3>1, <3>2 DEF EscrowInv, EscrowTypeOK
  <2>6. BookSound(book, depth)'
    BY <1>1, <1>2, <2>1, <2>3, <2>4 DEF EscrowInv, BookSound, Owing, Book
  <2> QED BY <1>1, <2>1, <2>5, <2>6, SameFrames
<1>4. CASE ~(rest > 0)
  <2>1. depth' = depth - 1 /\ book' = book /\ balance' = balance /\ rest = 0
    BY <1>1, <1>2, <1>4 DEF TransferSucceeds, Entry, Amount
  <2>2. EscrowTypeOK'
    BY <1>1, <2>1 DEF EscrowInv, EscrowTypeOK
  <2>3. BookSound(book, depth)'
    <3>1. ASSUME NEW k \in Manifest, book[k].owed # 0
          PROVE  \E i \in 1 .. depth - 1 : frame[i].manifest = k
      <4>1. PICK i \in 1 .. depth : frame[i].manifest = k
        BY <3>1 DEF EscrowInv, BookSound, Owing
      <4> QED BY <1>1, <2>1, <3>1, <4>1
    <3> QED BY <1>1, <2>1, <3>1 DEF EscrowInv, BookSound, Owing
  <2>4. ASSUME NEW i \in 1 .. depth'
        PROVE  BookSound(frame[i].book, i - 1)'
    BY <1>1, <2>1 DEF EscrowInv, BookSound, Owing
  <2> QED BY <2>2, <2>3, <2>4 DEF EscrowInv
<1> QED BY <1>3, <1>4

\* A revert restores a snapshot, which was sound for the calls below it.
LEMMA TransferFailsSound ==
  ASSUME EscrowInv, TransferFails
  PROVE  EscrowInv'
<1>1. /\ depth \in 1 .. MaxDepth /\ frame \in [1 .. MaxDepth -> Frame]
      /\ depth' = depth - 1 /\ UNCHANGED <<stage, owner, arbiter, frame>>
      /\ book' = frame[depth].book /\ balance' = frame[depth].balance
  BY EscrowAssumption DEF EscrowInv, EscrowTypeOK, TransferFails, RevertTo
<1>2. EscrowTypeOK'
  BY <1>1, EscrowAssumption DEF EscrowInv, EscrowTypeOK, Frame
<1>3. BookSound(book, depth)'
  BY <1>1 DEF EscrowInv, BookSound, Owing
<1>4. ASSUME NEW i \in 1 .. depth'
      PROVE  BookSound(frame[i].book, i - 1)'
  BY <1>1, EscrowAssumption DEF EscrowInv, BookSound, Owing
<1> QED BY <1>2, <1>3, <1>4 DEF EscrowInv

LEMMA EscrowInvInit == EscrowInit => EscrowInv
<1> SUFFICES ASSUME EscrowInit PROVE EscrowInv
  OBVIOUS
<1> USE EscrowAssumption
<1>1. NoEntry \in Entry /\ EntrySound(NoEntry) /\ NoEntry.owed = 0
  BY DEF NoEntry, Entry, EntrySound, Amount, DepositStatus
<1>2. book \in Book /\ \A m \in Manifest : book[m] = NoEntry
  BY <1>1 DEF EscrowInit, Book
<1>3. (CHOOSE m \in Manifest : TRUE) \in Manifest
  OBVIOUS
<1>4. frame \in [1 .. MaxDepth -> Frame]
  BY <1>2, <1>3 DEF EscrowInit, Frame
<1>5. EscrowTypeOK
  BY <1>2, <1>4 DEF EscrowInit, EscrowTypeOK, ChainInit, Stage
<1>6. BookSound(book, depth) /\ depth = 0
  BY <1>1, <1>2 DEF EscrowInit, BookSound, Owing
<1> QED BY <1>5, <1>6 DEF EscrowInv

LEMMA FundSound ==
  ASSUME EscrowInv, NEW m \in Manifest, NEW value \in Amount, Fund(m, value)
  PROVE  EscrowInv'
<1> DEFINE e == [NoEntry EXCEPT !.status = "Funded", !.amount = value]
<1> USE EscrowAssumption
<1>1. /\ book \in Book /\ balance \in Int /\ UNCHANGED <<stage, owner, arbiter, depth, frame>>
      /\ book' = [book EXCEPT ![m] = e] /\ balance' = balance + value
  BY DEF EscrowInv, EscrowTypeOK, Fund
<1>2. value \in Nat /\ value > 0
  BY DEF Fund, Amount
<1>3. /\ e \in Entry /\ e.status = "Funded" /\ e.amount = value
      /\ e.toPayee = 0 /\ e.toPayer = 0 /\ e.owed = 0
  <2>1. /\ NoEntry \in Entry
        /\ NoEntry.toPayee = 0 /\ NoEntry.toPayer = 0 /\ NoEntry.owed = 0
    BY DEF NoEntry, Entry, Amount, DepositStatus
  <2> QED BY <2>1 DEF Entry, DepositStatus
<1>4. EntrySound(e)
  BY <1>2, <1>3 DEF EntrySound
<1>5. EscrowTypeOK'
  BY <1>1, <1>2, <1>3 DEF EscrowInv, EscrowTypeOK, Book
<1>6. BookSound(book, depth)'
  BY <1>1, <1>3, <1>4 DEF EscrowInv, BookSound, Owing, Book
<1> QED BY <1>1, <1>5, <1>6, SameFrames

LEMMA EscrowInvNext == EscrowInv /\ [EscrowNext]_escrowVars => EscrowInv'
<1> SUFFICES ASSUME EscrowInv, [EscrowNext]_escrowVars
             PROVE  EscrowInv'
  OBVIOUS
<1>0. EscrowTypeOK /\ book \in Book /\ \A m \in Manifest : EntrySound(book[m])
  BY DEF EscrowInv, EscrowTypeOK, BookSound
<1>1. CASE BetweenTransactions
  <2>1. UNCHANGED moneyVars
    BY <1>1 DEF BetweenTransactions, TransferOwnership, SetArbiter
  <2>2. stage' \in [Manifest -> Stage]
    BY <1>0, <1>1 DEF BetweenTransactions, EscrowTypeOK, TransferOwnership, SetArbiter,
         ChainNext, Open, Take, CloseFull, CloseShort, Escalate, Move, Stage
  <2>3. owner' \in Account \cup {ZeroAddress} /\ arbiter' \in Account
    BY <1>0, <1>1 DEF BetweenTransactions, EscrowTypeOK, TransferOwnership, SetArbiter
  <2>4. EscrowTypeOK'
    BY <1>0, <2>1, <2>2, <2>3 DEF EscrowTypeOK, moneyVars
  <2>5. BookSound(book, depth)'
    BY <2>1 DEF EscrowInv, BookSound, Owing, moneyVars
  <2> QED BY <2>1, <2>4, <2>5, SameFrames DEF moneyVars
<1>2. ASSUME NEW m \in Manifest, NEW value \in Amount, Fund(m, value)
      PROVE  EscrowInv'
  BY <1>2, FundSound
<1>3. ASSUME NEW m \in Manifest, Release(m)
      PROVE  EscrowInv'
  BY <1>0, <1>3, ReleasedSound, BeginTransferSound DEF Release
<1>4. ASSUME NEW m \in Manifest, NEW a \in Account, NEW sent \in Amount,
             ResolveDispute(a, m, sent)
      PROVE  EscrowInv'
  <2> DEFINE rest == book[m].amount - sent
             value == IF sent > 0 THEN sent ELSE rest
  <2>1. /\ book[m].status = "Funded" /\ sent <= book[m].amount
        /\ UNCHANGED <<stage, owner, arbiter>>
    BY <1>4 DEF ResolveDispute
  <2>2. BeginTransfer(m, Split(m, sent), value)
    BY <1>4 DEF ResolveDispute, Split, Rest
  <2>3. Split(m, sent) \in Entry /\ EntrySound(Split(m, sent)) /\ value \in Amount
    BY <1>0, <2>1, SplitSound
  <2> QED BY <2>1, <2>2, <2>3, BeginTransferSound
<1>5. CASE TransferSucceeds
  BY <1>5, TransferSucceedsSound
<1>6. CASE TransferFails
  BY <1>6, TransferFailsSound
<1>7. CASE UNCHANGED escrowVars
  BY <1>7 DEF escrowVars, EscrowInv, EscrowTypeOK, BookSound, Owing
<1> QED BY <1>1, <1>2, <1>3, <1>4, <1>5, <1>6, <1>7 DEF EscrowNext

THEOREM EscrowInvariant == EscrowSpec => []EscrowInv
BY EscrowInvInit, EscrowInvNext, PTL DEF EscrowSpec

\* The storage of the contract, and every snapshot a call may revert to, is typed.
THEOREM EscrowTypeCorrect == EscrowSpec => []EscrowTypeOK
<1>1. EscrowInv => EscrowTypeOK
  BY DEF EscrowInv
<1> QED BY <1>1, EscrowInvariant, PTL

\* release and resolveDispute under re-entrancy: whatever the recipients do from
\* inside their transfers, and however deep, no deposit pays more than it held,
\* and none is left partly paid when the transaction has ended.
THEOREM EscrowPaidOnce == EscrowSpec => []PaidOnce
<1>1. EscrowInv => PaidOnce
  <2> SUFFICES ASSUME EscrowInv PROVE PaidOnce
    OBVIOUS
  <2>1. ASSUME depth = 0, NEW m \in Manifest
        PROVE  book[m].owed = 0
    BY <2>1 DEF EscrowInv, BookSound, Owing
  <2> QED BY <2>1 DEF EscrowInv, BookSound, PaidOnce
<1> QED BY <1>1, EscrowInvariant, PTL

--------------------------------------------------------------------------------
(***************************************************************************)
(* Solvency.  A step changes one deposit and moves as much as what is due  *)
(* to it changes by; a revert restores a book with the balance it had.      *)
(***************************************************************************)

\* Balance n is what the deposits of book b still hold.
Covers(b, n) == n = Holdings(b)

SolventInv ==
  /\ EscrowInv
  /\ Covers(book, balance)
  /\ \A i \in 1 .. depth : Covers(frame[i].book, frame[i].balance)

\* Holdings depends on nothing but the book, in the next state too.
LEMMA HoldingsPrime ==
  /\ Covers(book, balance)' <=> Covers(book', balance')
  /\ \A i : Covers(frame[i].book, frame[i].balance)' <=> Covers(frame'[i].book, frame'[i].balance)
BY DEF Covers, Holdings, FoldFunction, FoldFunctionOnSet, MapThenFoldSet

LEMMA DueNat ==
  ASSUME NEW e \in Entry
  PROVE  Due(e) \in Nat /\ Due(e) \in Int
BY EntryTypes DEF Due

\* Writing one entry changes the holdings by what it changes the entry.
LEMMA HoldingsChange ==
  ASSUME NEW b \in Book, NEW m \in Manifest, NEW e \in Entry
  PROVE  /\ Holdings(b) \in Int /\ Due(b[m]) \in Int /\ Due(e) \in Int
         /\ Holdings([b EXCEPT ![m] = e]) = Holdings(b) - Due(b[m]) + Due(e)
<1> DEFINE c == [b EXCEPT ![m] = e]
           w == [k \in Manifest |-> Due(b[k])]
           v == [k \in Manifest |-> Due(c[k])]
<1>1. c \in Book /\ c[m] = e /\ \A k \in Manifest \ {m} : c[k] = b[k]
  BY DEF Book
<1>2. \A k \in Manifest : Due(b[k]) \in Int /\ Due(c[k]) \in Int
  BY <1>1, DueNat DEF Book
<1>3. Holdings(b) = SumOn(w, Manifest) /\ Holdings(c) = SumOn(v, Manifest)
  BY DEF Holdings, FoldFunction, SumOn
<1> HIDE DEF c
<1>4. \A k \in Manifest : w[k] \in Int /\ v[k] \in Int
  BY <1>2
<1>5. \A k \in Manifest \ {m} : v[k] = w[k]
  BY <1>1
<1>6. w[m] = Due(b[m]) /\ v[m] = Due(e)
  BY <1>1
<1> HIDE DEF w, v
<1>7. SumOn(w, Manifest) \in Int
  BY <1>4, EscrowAssumption, SumInt
<1>8. SumOn(v, Manifest) = SumOn(w, Manifest) - w[m] + v[m]
  BY <1>4, <1>5, EscrowAssumption, SumChange
<1> QED BY <1>2, <1>3, <1>4, <1>6, <1>7, <1>8 DEF c

\* A transfer begins: what leaves the balance leaves the deposit it is about.
LEMMA BeginTransferCovered ==
  ASSUME SolventInv, NEW m \in Manifest, NEW e \in Entry, NEW value \in Amount,
         BeginTransfer(m, e, value), Due(e) = Due(book[m]) - value
  PROVE  /\ Covers(book, balance)'
         /\ \A i \in 1 .. depth' : Covers(frame[i].book, frame[i].balance)'
<1> USE EscrowAssumption
<1>1. /\ depth \in 0 .. MaxDepth /\ depth < MaxDepth /\ depth' = depth + 1
      /\ book \in Book /\ balance \in Int /\ frame \in [1 .. MaxDepth -> Frame]
      /\ book' = [book EXCEPT ![m] = e] /\ balance' = balance - value
      /\ frame' = [frame EXCEPT ![depth + 1] =
                      [manifest |-> m, book |-> book, balance |-> balance]]
  BY DEF SolventInv, EscrowInv, EscrowTypeOK, BeginTransfer
<1>2. balance = Holdings(book) /\ value \in Int
  BY DEF SolventInv, Covers, Amount
<1>3. Holdings(book') = balance'
  <2>1. /\ Holdings(book) \in Int /\ Due(book[m]) \in Int
        /\ Holdings(book') = Holdings(book) - Due(book[m]) + Due(e)
    BY <1>1, HoldingsChange
  <2> QED BY <1>1, <1>2, <2>1
<1>4. frame'[depth + 1].book = book /\ frame'[depth + 1].balance = balance
  BY <1>1
<1>5. \A i \in 1 .. depth : frame'[i] = frame[i]
  BY <1>1
<1>6. ASSUME NEW i \in 1 .. depth'
      PROVE  Covers(frame[i].book, frame[i].balance)'
  <2>1. CASE i = depth + 1
    BY <1>2, <1>4, <2>1, HoldingsPrime DEF Covers
  <2>2. CASE i \in 1 .. depth
    BY <1>5, <2>2, HoldingsPrime DEF SolventInv
  <2> QED BY <1>1, <2>1, <2>2
<1> QED BY <1>3, <1>6, HoldingsPrime DEF Covers

LEMMA SolventInit == EscrowInit => SolventInv
<1> SUFFICES ASSUME EscrowInit PROVE SolventInv
  OBVIOUS
<1> USE EscrowAssumption
<1>1. EscrowInv /\ depth = 0 /\ balance = 0
  BY EscrowInvInit DEF EscrowInit
<1> DEFINE w == [k \in Manifest |-> Due(book[k])]
<1>2. \A k \in Manifest : w[k] = 0
  BY DEF EscrowInit, NoEntry, Due
<1>3. Holdings(book) = SumOn(w, Manifest)
  BY DEF Holdings, FoldFunction, SumOn
<1> HIDE DEF w
<1>4. SumOn(w, Manifest) = Cardinality({})
  BY <1>2, SumOfOnes
<1> QED BY <1>1, <1>3, <1>4, FS_EmptySet DEF SolventInv, Covers

LEMMA SolventNext == SolventInv /\ [EscrowNext]_escrowVars => SolventInv'
<1> SUFFICES ASSUME SolventInv, [EscrowNext]_escrowVars
             PROVE  SolventInv'
  OBVIOUS
<1> USE EscrowAssumption
<1> DEFINE Goal == /\ Covers(book, balance)'
                   /\ \A i \in 1 .. depth' : Covers(frame[i].book, frame[i].balance)'
<1>0. /\ EscrowInv /\ EscrowInv' /\ EscrowTypeOK
      /\ depth \in 0 .. MaxDepth /\ book \in Book /\ balance \in Int
      /\ frame \in [1 .. MaxDepth -> Frame]
      /\ balance = Holdings(book)
      /\ \A k \in Manifest : book[k] \in Entry /\ EntrySound(book[k])
  BY EscrowInvNext DEF SolventInv, EscrowInv, EscrowTypeOK, BookSound, Book, Covers
<1> SUFFICES Goal
  BY <1>0 DEF SolventInv
\* The balance and the book change together, or not at all, under the same frames.
<1>1. ASSUME UNCHANGED <<depth, frame>>, balance' = Holdings(book')
      PROVE  Goal
  BY <1>1, HoldingsPrime DEF SolventInv, Covers
<1>2. CASE BetweenTransactions \/ UNCHANGED escrowVars
  BY <1>0, <1>1, <1>2 DEF BetweenTransactions, TransferOwnership, SetArbiter, moneyVars,
       escrowVars
<1>3. ASSUME NEW m \in Manifest, NEW value \in Amount, Fund(m, value)
      PROVE  Goal
  <2> DEFINE e == [NoEntry EXCEPT !.status = "Funded", !.amount = value]
  <2>1. /\ book[m] = NoEntry /\ UNCHANGED <<depth, frame>>
        /\ book' = [book EXCEPT ![m] = e] /\ balance' = balance + value
    BY <1>0, <1>3 DEF Fund, EntrySound
  <2>2. e \in Entry /\ e.amount = value /\ e.status = "Funded"
    <3>1. /\ NoEntry \in Entry
          /\ NoEntry.toPayee = 0 /\ NoEntry.toPayer = 0
      BY DEF NoEntry, Entry, Amount, DepositStatus
    <3> QED BY <3>1 DEF Entry, DepositStatus
  <2>3. value \in Int
    BY DEF Amount
  <2> HIDE DEF e
  <2>4. Due(book[m]) = 0 /\ Due(e) = value
    BY <2>1, <2>2, <2>3 DEF Due, NoEntry
  <2>5. Holdings(book) \in Int /\ Holdings(book') = Holdings(book) - Due(book[m]) + Due(e)
    BY <1>0, <2>1, <2>2, HoldingsChange
  <2>6. balance' = Holdings(book')
    BY <1>0, <2>1, <2>3, <2>4, <2>5
  <2> QED BY <1>1, <2>1, <2>6
<1>4. ASSUME NEW m \in Manifest, Release(m)
      PROVE  Goal
  <2>1. /\ book[m].status = "Funded" /\ BeginTransfer(m, Released(m), book[m].amount)
    BY <1>4 DEF Release
  <2>2. Released(m) \in Entry /\ book[m].amount \in Amount
    BY <1>0, <2>1, ReleasedSound
  <2>3. Due(Released(m)) = Due(book[m]) - book[m].amount
    <3>1. Released(m).status = "Released" /\ Released(m).owed = book[m].owed
      BY <1>0 DEF Released, Entry
    <3>2. book[m].amount \in Nat /\ book[m].owed = 0
      BY <1>0, <2>1, EntryTypes, FundedEntry
    <3> QED BY <2>1, <3>1, <3>2 DEF Due
  <2> QED BY <2>1, <2>2, <2>3, BeginTransferCovered
<1>5. ASSUME NEW m \in Manifest, NEW a \in Account, NEW sent \in Amount,
             ResolveDispute(a, m, sent)
      PROVE  Goal
  <2> DEFINE rest == book[m].amount - sent
             value == IF sent > 0 THEN sent ELSE rest
  <2>1. /\ book[m].status = "Funded" /\ sent <= book[m].amount
        /\ BeginTransfer(m, Split(m, sent), value)
    BY <1>5 DEF ResolveDispute, Split, Rest
  <2>2. Split(m, sent) \in Entry /\ rest \in Amount
    BY <1>0, <2>1, SplitSound
  <2>3. book[m].amount \in Nat /\ book[m].owed = 0 /\ sent \in Nat
    BY <1>0, <2>1, EntryTypes, FundedEntry, EscrowAssumption DEF Amount
  <2>4. Due(Split(m, sent)) = Due(book[m]) - value
    <3>1. CASE sent > 0
      <4>1. Split(m, sent).status = "Refunded" /\ Split(m, sent).owed = rest
        BY <1>0, <3>1 DEF Split, Rest, Entry
      <4> QED BY <2>1, <2>3, <3>1, <4>1 DEF Due
    <3>2. CASE ~(sent > 0)
      <4>1. Split(m, sent).status = "Refunded" /\ Split(m, sent).owed = book[m].owed
        BY <1>0, <3>2 DEF Split, Entry
      <4> QED BY <2>1, <2>3, <3>2, <4>1 DEF Due
    <3> QED BY <3>1, <3>2
  <2> QED BY <2>1, <2>2, <2>4, BeginTransferCovered
<1>6. CASE TransferSucceeds
  <2> DEFINE m == frame[depth].manifest
             rest == book[m].owed
             f == [book[m] EXCEPT !.toPayer = @ + rest, !.owed = 0]
  <2>1. depth > 0 /\ UNCHANGED frame /\ m \in Manifest
    BY <1>0, <1>6 DEF TransferSucceeds, Frame
  <2>2. CASE rest > 0
    <3>1. depth' = depth /\ book' = [book EXCEPT ![m] = f] /\ balance' = balance - rest
      BY <1>0, <1>6, <2>1, <2>2 DEF TransferSucceeds, Book, Entry
    <3>2. f.owed = 0 /\ f.status = book[m].status /\ f.amount = book[m].amount
      BY <1>0, <2>1 DEF Entry
    <3>3. /\ book[m].amount \in Nat /\ book[m].toPayee \in Nat /\ book[m].toPayer \in Nat
          /\ rest \in Nat /\ rest \in Int
      BY <1>0, <2>1, EntryTypes
    <3>4. f \in Entry
      <4>1. /\ book'  \in Book /\ book'[m] = f
        BY <1>0, <2>1, <3>1 DEF EscrowInv, EscrowTypeOK, Book
      <4> QED BY <2>1, <4>1 DEF Book
    <3>5. Due(f) = Due(book[m]) - rest
      <4>1. book[m].status # "Funded"
        BY <1>0, <2>1, <2>2, <3>3, FundedEntry
      <4> QED BY <3>2, <3>3, <4>1 DEF Due
    <3> HIDE DEF f, rest, m
    <3>6. /\ Holdings(book) \in Int /\ Due(book[m]) \in Int
          /\ Holdings(book') = Holdings(book) - Due(book[m]) + Due(f)
      BY <1>0, <2>1, <3>1, <3>4, HoldingsChange
    <3>7. balance' = Holdings(book')
      BY <1>0, <3>1, <3>3, <3>5, <3>6
    <3> QED BY <1>1, <2>1, <3>1, <3>7
  <2>3. CASE ~(rest > 0)
    <3>1. depth' = depth - 1 /\ book' = book /\ balance' = balance
      BY <1>6, <2>3 DEF TransferSucceeds
    <3>2. \A i \in 1 .. depth' : i \in 1 .. depth
      BY <1>0, <3>1
    <3> QED BY <2>1, <3>1, <3>2, HoldingsPrime DEF SolventInv
  <2> QED BY <2>2, <2>3
<1>7. CASE TransferFails
  <2>1. /\ depth > 0 /\ depth' = depth - 1 /\ UNCHANGED frame
        /\ book' = frame[depth].book /\ balance' = frame[depth].balance
    BY <1>7 DEF TransferFails, RevertTo
  <2>2. \A i \in 1 .. depth' : i \in 1 .. depth
    BY <1>0, <2>1
  <2>3. depth \in 1 .. depth
    BY <1>0, <2>1
  <2> QED BY <2>1, <2>2, <2>3, HoldingsPrime DEF SolventInv
<1> QED BY <1>2, <1>3, <1>4, <1>5, <1>6, <1>7 DEF EscrowNext

\* The balance of the contract is, at every moment, in the middle of nested
\* transfers and after every revert too, the sum of the Funded deposits and of
\* what a resolveDispute under way has still to send.
THEOREM EscrowSolvent == EscrowSpec => []Solvent
<1>1. SolventInv => Solvent
  BY DEF SolventInv, Covers, Solvent
<1> QED BY <1>1, SolventInit, SolventNext, PTL DEF EscrowSpec

\* So the contract can pay whatever it still has to send: no transfer of
\* release or resolveDispute fails for want of funds, or eats another's deposit.
CanPay == \A m \in Manifest : Due(book[m]) \in 0 .. balance

THEOREM EscrowCanPay == EscrowSpec => []CanPay
<1>1. SolventInv => CanPay
  <2> SUFFICES ASSUME SolventInv, NEW m \in Manifest
               PROVE  Due(book[m]) \in 0 .. balance
    BY DEF CanPay
  <2> USE EscrowAssumption
  <2> DEFINE w == [k \in Manifest |-> Due(book[k])]
  <2>1. ASSUME NEW k \in Manifest
        PROVE  w[k] \in Int /\ w[k] >= 0
    <3>1. book[k] \in Entry
      BY DEF SolventInv, EscrowInv, EscrowTypeOK, Book
    <3> QED BY <3>1, DueNat
  <2>2. balance = SumOn(w, Manifest)
    BY DEF SolventInv, Covers, Holdings, FoldFunction, SumOn
  <2>3. w[m] = Due(book[m])
    OBVIOUS
  <2> HIDE DEF w
  <2>4. w[m] <= SumOn(w, Manifest)
    BY <2>1, SumAtLeast
  <2>5. SumOn(w, Manifest) \in Int
    BY <2>1, SumInt
  <2> QED BY <2>1, <2>2, <2>3, <2>4, <2>5
<1> QED BY <1>1, SolventInit, SolventNext, PTL DEF EscrowSpec

--------------------------------------------------------------------------------
(***************************************************************************)
(* Refinement: one step of the promise for each transaction.  While one is *)
(* under way the promise still sees the book as it was when the outermost  *)
(* call began.  The book, and each snapshot a call may go back to, differs *)
(* from that by whole deposits and settlements only.                       *)
(***************************************************************************)

\* What one transaction may do to the entry a of a manifest at stage st.
Progress(a, e, st) ==
  \/ e = a
  \/ a.status = "None" /\ e.status = "Funded"
  \/ /\ a.status = "None" \/ (a.status = "Funded" /\ a.amount = e.amount)
     /\ \/ e.status = "Released" /\ st = "Delivered"
        \/ e.status = "Refunded" /\ st \in {"Short", "Disputed"}

Since(b) == \A m \in Manifest : Progress(frame[1].book[m], b[m], stage[m])

TransactionInv ==
  /\ EscrowInv
  /\ depth > 0 => Since(book)
  /\ \A i \in 1 .. depth : Since(frame[i].book)

\* The steps of the code, one entry at a time.
LEMMA ProgressOnFund ==
  ASSUME NEW a, NEW b, NEW e, NEW st,
         Progress(a, b, st), b.status = "None", e.status = "Funded"
  PROVE  Progress(a, e, st)
BY DEF Progress

LEMMA ProgressOnSettle ==
  ASSUME NEW a, NEW b, NEW e, NEW st,
         Progress(a, b, st), b.status = "Funded", e.amount = b.amount,
         \/ e.status = "Released" /\ st = "Delivered"
         \/ e.status = "Refunded" /\ st \in {"Short", "Disputed"}
  PROVE  Progress(a, e, st)
BY DEF Progress

LEMMA ProgressOnRest ==
  ASSUME NEW a, NEW b, NEW e, NEW st,
         Progress(a, b, st), b # a, b.status = "Refunded", e.status = "Refunded",
         e.amount = b.amount
  PROVE  Progress(a, e, st)
BY DEF Progress

\* A call that transfers, begun from the present book.
LEMMA BeginTransferProgress ==
  ASSUME TransactionInv, NEW m \in Manifest, NEW e, NEW value,
         BeginTransfer(m, e, value), UNCHANGED stage,
         book[m].status = "Funded", e.amount = book[m].amount,
         \/ e.status = "Released" /\ stage[m] = "Delivered"
         \/ e.status = "Refunded" /\ stage[m] \in {"Short", "Disputed"}
  PROVE  /\ depth' > 0 => Since(book)'
         /\ \A i \in 1 .. depth' : Since(frame[i].book)'
<1> USE EscrowAssumption
<1>1. /\ depth \in 0 .. MaxDepth /\ depth < MaxDepth /\ depth' = depth + 1
      /\ book \in Book /\ frame \in [1 .. MaxDepth -> Frame]
      /\ book' = [book EXCEPT ![m] = e]
      /\ frame' = [frame EXCEPT ![depth + 1] =
                      [manifest |-> m, book |-> book, balance |-> balance]]
  BY DEF TransactionInv, EscrowInv, EscrowTypeOK, BeginTransfer
<1>2. frame'[depth + 1].book = book /\ \A i \in 1 .. depth : frame'[i] = frame[i]
  BY <1>1
<1> DEFINE first == frame'[1].book
<1>3. \A k \in Manifest : Progress(first[k], book[k], stage[k])
  <2>1. CASE depth = 0
    BY <1>2, <2>1 DEF Progress
  <2>2. CASE depth > 0
    BY <1>1, <1>2, <2>2 DEF TransactionInv, Since
  <2> QED BY <1>1, <2>1, <2>2
<1>4. Since(book)'
  <2>1. ASSUME NEW k \in Manifest, k # m
        PROVE  Progress(first[k], book'[k], stage[k])
    BY <1>1, <1>3, <2>1 DEF Book
  <2>2. Progress(first[m], e, stage[m])
    BY <1>3, ProgressOnSettle
  <2>3. book'[m] = e
    BY <1>1 DEF Book
  <2> QED BY <2>1, <2>2, <2>3 DEF Since
<1>5. ASSUME NEW i \in 1 .. depth'
      PROVE  Since(frame[i].book)'
  <2>1. CASE i = depth + 1
    BY <1>2, <1>3, <2>1 DEF Since
  <2>2. CASE i \in 1 .. depth
    BY <1>1, <1>2, <2>2 DEF TransactionInv, Since
  <2> QED BY <1>1, <2>1, <2>2
<1> QED BY <1>4, <1>5

LEMMA TransactionInvInit == EscrowInit => TransactionInv
BY EscrowInvInit DEF EscrowInit, TransactionInv

LEMMA TransactionInvNext == TransactionInv /\ [EscrowNext]_escrowVars => TransactionInv'
<1> SUFFICES ASSUME TransactionInv, [EscrowNext]_escrowVars
             PROVE  TransactionInv'
  OBVIOUS
<1> USE EscrowAssumption
<1> DEFINE Goal == /\ depth' > 0 => Since(book)'
                   /\ \A i \in 1 .. depth' : Since(frame[i].book)'
<1>0. /\ EscrowInv /\ EscrowInv'
      /\ depth \in 0 .. MaxDepth /\ book \in Book /\ frame \in [1 .. MaxDepth -> Frame]
      /\ \A m \in Manifest : book[m] \in Entry /\ EntrySound(book[m])
  BY EscrowInvNext DEF TransactionInv, EscrowInv, EscrowTypeOK, BookSound, Book
<1> SUFFICES Goal
  BY <1>0 DEF TransactionInv
<1>1. CASE BetweenTransactions
  <2>1. depth' = 0
    BY <1>1 DEF BetweenTransactions, TransferOwnership, SetArbiter, moneyVars
  <2> QED BY <2>1
<1>2. ASSUME NEW m \in Manifest, NEW value \in Amount, Fund(m, value)
      PROVE  Goal
  <2> DEFINE e == [NoEntry EXCEPT !.status = "Funded", !.amount = value]
  <2>1. /\ book[m].status = "None" /\ UNCHANGED <<stage, depth, frame>>
        /\ book' = [book EXCEPT ![m] = e]
    BY <1>2 DEF Fund
  <2>2. e.status = "Funded"
    BY DEF NoEntry
  <2> HIDE DEF e
  <2>3. ASSUME depth > 0, NEW k \in Manifest
        PROVE  Progress(frame[1].book[k], book'[k], stage[k])
    <3>1. Progress(frame[1].book[k], book[k], stage[k])
      BY <2>3 DEF TransactionInv, Since
    <3> QED BY <1>0, <2>1, <2>2, <3>1, ProgressOnFund DEF Book
  <2> QED BY <2>1, <2>3 DEF TransactionInv, Since
<1>3. ASSUME NEW m \in Manifest, Release(m)
      PROVE  Goal
  <2>1. Released(m).status = "Released" /\ Released(m).amount = book[m].amount
    BY <1>0 DEF Released, Entry
  <2>2. stage[m] = "Delivered"
    BY <1>3 DEF Release, MayRelease, Releasable
  <2> QED BY <1>3, <2>1, <2>2, BeginTransferProgress DEF Release
<1>4. ASSUME NEW m \in Manifest, NEW a \in Account, NEW sent \in Amount,
             ResolveDispute(a, m, sent)
      PROVE  Goal
  <2> DEFINE value == IF sent > 0 THEN sent ELSE book[m].amount - sent
  <2>1. Split(m, sent).status = "Refunded" /\ Split(m, sent).amount = book[m].amount
    BY <1>0 DEF Split, Rest, Entry
  <2>2. BeginTransfer(m, Split(m, sent), value)
    BY <1>4 DEF ResolveDispute, Split, Rest
  <2>3. /\ stage[m] \in {"Short", "Disputed"} /\ book[m].status = "Funded" /\ UNCHANGED stage
    BY <1>4 DEF ResolveDispute, InDispute
  <2> QED BY <2>1, <2>2, <2>3, BeginTransferProgress
<1>5. CASE TransferSucceeds
  <2> DEFINE m == frame[depth].manifest
             rest == book[m].owed
             f == [book[m] EXCEPT !.toPayer = @ + rest, !.owed = 0]
  <2>1. depth > 0 /\ UNCHANGED <<stage, frame>> /\ m \in Manifest
    BY <1>0, <1>5 DEF TransferSucceeds, Frame
  <2>2. CASE rest > 0
    <3>1. depth' = depth /\ book' = [book EXCEPT ![m] = f]
      BY <1>0, <1>5, <2>1, <2>2 DEF TransferSucceeds, Book, Entry
    <3>2. book[m].status = "Refunded"
      BY <1>0, <2>1, <2>2 DEF EntrySound, NoEntry, Entry, Amount, DepositStatus
    <3>3. f.status = "Refunded" /\ f.amount = book[m].amount
      BY <1>0, <2>1, <3>2 DEF Entry
    <3>4. book[m] # frame[1].book[m]
      <4>1. BookSound(frame[1].book, 0)
        BY <1>0, <2>1 DEF EscrowInv
      <4>2. frame[1].book[m].owed = 0
        BY <2>1, <4>1 DEF BookSound, Owing
      <4> QED BY <2>2, <4>2
    <3>5. Progress(frame[1].book[m], f, stage[m])
      <4>1. Progress(frame[1].book[m], book[m], stage[m])
        BY <2>1 DEF TransactionInv, Since
      <4> HIDE DEF f, m
      <4> QED BY <3>2, <3>3, <3>4, <4>1, ProgressOnRest
    <3>6. Since(book)'
      <4> HIDE DEF f
      <4>1. ASSUME NEW k \in Manifest
            PROVE  Progress(frame[1].book[k], book'[k], stage[k])
        BY <1>0, <2>1, <3>1, <3>5 DEF TransactionInv, Since, Book
      <4> QED BY <2>1, <4>1 DEF Since
    <3> QED BY <2>1, <3>1, <3>6 DEF TransactionInv, Since
  <2>3. CASE ~(rest > 0)
    <3>1. depth' = depth - 1 /\ book' = book
      BY <1>5, <2>3 DEF TransferSucceeds
    <3>2. depth' > 0 => Since(book)'
      BY <2>1, <3>1 DEF TransactionInv, Since
    <3>3. ASSUME NEW i \in 1 .. depth'
          PROVE  Since(frame[i].book)'
      BY <1>0, <2>1, <3>1 DEF TransactionInv, Since
    <3> QED BY <3>2, <3>3
  <2> QED BY <2>2, <2>3
<1>6. CASE TransferFails
  <2>1. /\ depth > 0 /\ depth' = depth - 1 /\ UNCHANGED <<stage, frame>>
        /\ book' = frame[depth].book
    BY <1>6 DEF TransferFails, RevertTo
  <2>2. Since(book)'
    BY <1>0, <2>1 DEF TransactionInv, Since
  <2>3. ASSUME NEW i \in 1 .. depth'
        PROVE  Since(frame[i].book)'
    BY <1>0, <2>1 DEF TransactionInv, Since
  <2> QED BY <2>2, <2>3
<1>7. CASE UNCHANGED escrowVars
  <2>1. depth' > 0 => Since(book)'
    BY <1>7 DEF escrowVars, TransactionInv, Since
  <2>2. ASSUME NEW i \in 1 .. depth'
        PROVE  Since(frame[i].book)'
    BY <1>7 DEF escrowVars, TransactionInv, Since
  <2> QED BY <2>1, <2>2
<1> QED BY <1>1, <1>2, <1>3, <1>4, <1>5, <1>6, <1>7 DEF EscrowNext

heldBar == [m \in Manifest |-> IF committed[m].status = "Funded" THEN committed[m].amount ELSE 0]
paidBar == [m \in Manifest |-> [payee |-> committed[m].toPayee, payer |-> committed[m].toPayer]]
promiseBar == <<stage, heldBar, paidBar>>

\* A book between two transactions: sound, and nothing is owed.
Settled(b) ==
  /\ b \in Book
  /\ \A m \in Manifest : EntrySound(b[m]) /\ b[m].owed = 0

LEMMA CommittedSettled ==
  ASSUME EscrowInv
  PROVE  Settled(committed)
<1> USE EscrowAssumption
<1>1. CASE depth = 0
  BY <1>1 DEF EscrowInv, EscrowTypeOK, BookSound, Owing, Settled, committed
<1>2. CASE depth # 0
  <2>1. depth \in 1 .. MaxDepth /\ frame[1] \in Frame /\ BookSound(frame[1].book, 0)
    BY <1>2 DEF EscrowInv, EscrowTypeOK
  <2> QED BY <1>2, <2>1 DEF Frame, BookSound, Owing, Settled, committed
<1> QED BY <1>1, <1>2

\* What a transaction did to one entry is what the promise allows.
LEMMA EntryStep ==
  ASSUME NEW a \in Entry, NEW e \in Entry, EntrySound(a), EntrySound(e),
         a.owed = 0, e.owed = 0, NEW st, Progress(a, e, st), e # a
  PROVE  \/ /\ a.status = "None" /\ e.status = "Funded"
            /\ a.toPayee = 0 /\ a.toPayer = 0
            /\ e.amount # 0 /\ e.toPayee = 0 /\ e.toPayer = 0
         \/ /\ a.toPayee = 0 /\ a.toPayer = 0
            /\ e.status \in {"Released", "Refunded"}
            /\ e.amount # 0 /\ e.toPayee + e.toPayer = e.amount
            /\ \/ a.status = "None"
               \/ a.status = "Funded" /\ a.amount = e.amount
            /\ \/ st = "Delivered" /\ e.toPayer = 0
               \/ st \in {"Short", "Disputed"}
<1>1. /\ a.amount \in Nat /\ a.toPayee \in Nat /\ a.toPayer \in Nat
      /\ e.amount \in Nat /\ e.toPayee \in Nat /\ e.toPayer \in Nat
  BY EntryTypes
<1>2. a.status = "None" => a.toPayee = 0 /\ a.toPayer = 0
  BY DEF EntrySound, NoEntry
<1>3. a.status = "Funded" => a.toPayee = 0 /\ a.toPayer = 0
  BY FundedEntry
<1>4. CASE a.status = "None" /\ e.status = "Funded"
  <2>1. e.amount > 0 /\ e.toPayee = 0 /\ e.toPayer = 0
    BY <1>4, FundedEntry
  <2> QED BY <1>2, <1>4, <2>1
<1>5. CASE e.status \in {"Released", "Refunded"}
  <2>1. e.amount > 0 /\ e.toPayee + e.toPayer + 0 = e.amount
    BY <1>5 DEF EntrySound
  <2>2. e.status = "Released" => e.toPayer + 0 = 0
    BY DEF EntrySound
  <2>3. e.amount # 0 /\ e.toPayee + e.toPayer = e.amount /\ (e.status = "Released" => e.toPayer = 0)
    BY <1>1, <2>1, <2>2
  <2> QED BY <1>2, <1>3, <1>5, <2>3 DEF Progress
<1> QED BY <1>4, <1>5 DEF Progress

\* The end of a transaction is a step of the promise.
LEMMA CommitStep ==
  ASSUME Settled(committed), Settled(committed)', UNCHANGED stage,
         \A m \in Manifest : Progress(committed[m], committed'[m], stage[m])
  PROVE  Promise!Transaction
<1>1. ASSUME NEW m \in Manifest
      PROVE  /\ committed[m] \in Entry /\ EntrySound(committed[m]) /\ committed[m].owed = 0
             /\ committed'[m] \in Entry /\ EntrySound(committed'[m]) /\ committed'[m].owed = 0
  BY DEF Settled, Book, EntrySound
<1>2. heldBar' \in [Manifest -> Amount]
  BY <1>1, EntryTypes, EscrowAssumption DEF heldBar, Amount
<1>3. paidBar' \in [Manifest -> [payee: Amount, payer: Amount]]
  BY <1>1, EntryTypes DEF paidBar
<1>4. ASSUME NEW m \in Manifest
      PROVE  Promise!Keep(m) \/ Promise!Fund(m) \/ Promise!Settle(m)
  <2> DEFINE a == committed[m]
             e == committed'[m]
  <2>1. /\ heldBar[m] = IF a.status = "Funded" THEN a.amount ELSE 0
        /\ heldBar'[m] = IF e.status = "Funded" THEN e.amount ELSE 0
        /\ paidBar[m] = [payee |-> a.toPayee, payer |-> a.toPayer]
        /\ paidBar'[m] = [payee |-> e.toPayee, payer |-> e.toPayer]
    BY DEF heldBar, paidBar
  <2>2. CASE e = a
    BY <2>1, <2>2 DEF Promise!Keep, heldBar, paidBar
  <2>3. CASE e # a
    <3> HIDE DEF a, e
    <3>0. /\ a \in Entry /\ e \in Entry /\ EntrySound(a) /\ EntrySound(e)
          /\ a.owed = 0 /\ e.owed = 0 /\ Progress(a, e, stage[m])
      BY <1>1 DEF a, e
    <3>1. CASE /\ a.status = "None" /\ e.status = "Funded"
               /\ a.toPayee = 0 /\ a.toPayer = 0
               /\ e.amount # 0 /\ e.toPayee = 0 /\ e.toPayer = 0
      <4>1. Promise!Fund(m)
        BY <2>1, <3>1 DEF Promise!Fund, Promise!Nothing, heldBar, paidBar
      <4> QED BY <4>1
    <3>2. CASE /\ a.toPayee = 0 /\ a.toPayer = 0
               /\ e.status \in {"Released", "Refunded"}
               /\ e.amount # 0 /\ e.toPayee + e.toPayer = e.amount
               /\ \/ a.status = "None"
                  \/ a.status = "Funded" /\ a.amount = e.amount
               /\ \/ stage[m] = "Delivered" /\ e.toPayer = 0
                  \/ stage[m] \in {"Short", "Disputed"}
      <4>1. e.toPayee # 0 \/ e.toPayer # 0
        BY <3>0, <3>2, EntryTypes
      <4>2. paidBar'[m] # [payee |-> 0, payer |-> 0]
        <5>1. paidBar'[m].payee = e.toPayee /\ paidBar'[m].payer = e.toPayer
          BY <2>1
        <5> QED BY <4>1, <5>1
      <4>3. Promise!Settle(m)
        BY <2>1, <3>2, <4>2 DEF Promise!Settle, Promise!Nothing, heldBar, paidBar
      <4> QED BY <4>3
    <3> QED BY <2>3, <3>0, <3>1, <3>2, EntryStep
  <2> QED BY <2>2, <2>3
<1> QED BY <1>2, <1>3, <1>4 DEF Promise!Transaction, Promise!Amount, Amount, heldBar, paidBar

\* Escrow.sol implements EscrowPromise: every transaction, with whatever the
\* recipients call from inside their transfers, is one step in which deposits
\* are made or leave whole, to whom the custody chain allows.
THEOREM EscrowRefinement == EscrowSpec => ImplementsPromise
<1>1. EscrowInit => Promise!PromiseInit
  BY DEF EscrowInit, ChainInit, NoEntry, committed, Promise!PromiseInit, Promise!Nothing
<1>2. TransactionInv /\ Settled(committed) /\ Settled(committed)' /\ [EscrowNext]_escrowVars
        => [Promise!PromiseNext]_promiseBar
  <2> SUFFICES ASSUME TransactionInv, Settled(committed), Settled(committed)',
                      [EscrowNext]_escrowVars
               PROVE  [Promise!PromiseNext]_promiseBar
    OBVIOUS
  <2> USE EscrowAssumption
  <2>0. /\ EscrowInv /\ Settled(committed) /\ Settled(committed)'
        /\ depth \in 0 .. MaxDepth /\ frame \in [1 .. MaxDepth -> Frame]
        /\ \A m \in Manifest : Progress(committed[m], committed[m], stage[m])
    BY DEF TransactionInv, EscrowInv, EscrowTypeOK, Progress
  <2>1. CASE committed' = committed /\ UNCHANGED stage
    BY <2>1 DEF promiseBar, heldBar, paidBar
  <2>2. CASE BetweenTransactions
    <3>1. committed' = committed
      BY <2>2 DEF BetweenTransactions, TransferOwnership, SetArbiter, moneyVars, committed
    <3>2. Promise!CustodyMoves
      BY <3>1 DEF Promise!CustodyMoves
    <3> QED BY <3>2 DEF Promise!PromiseNext
  <2>3. ASSUME NEW m \in Manifest, NEW value \in Amount, Fund(m, value)
        PROVE  [Promise!PromiseNext]_promiseBar
    <3>1. CASE depth > 0
      BY <2>1, <2>3, <3>1 DEF Fund, committed
    <3>2. CASE depth = 0
      <4>1. /\ UNCHANGED stage /\ committed = book /\ committed' = book'
            /\ book' = [book EXCEPT ![m] = [NoEntry EXCEPT !.status = "Funded", !.amount = value]]
            /\ book[m].status = "None" /\ book \in Book
        BY <2>0, <2>3, <3>2 DEF Fund, committed, EscrowInv, EscrowTypeOK
      <4>2. [NoEntry EXCEPT !.status = "Funded", !.amount = value].status = "Funded"
        BY DEF NoEntry
      <4>3. \A k \in Manifest : Progress(committed[k], committed'[k], stage[k])
        BY <4>1, <4>2 DEF Progress, Book
      <4> QED BY <2>0, <4>1, <4>3, CommitStep DEF Promise!PromiseNext
    <3> QED BY <2>0, <3>1, <3>2
  <2>4. ASSUME NEW m, NEW e, NEW value, BeginTransfer(m, e, value), UNCHANGED stage
        PROVE  [Promise!PromiseNext]_promiseBar
    <3>1. depth' = depth + 1 /\ depth < MaxDepth
          /\ frame' = [frame EXCEPT ![depth + 1] =
                          [manifest |-> m, book |-> book, balance |-> balance]]
      BY <2>4 DEF BeginTransfer
    <3>2. frame'[1].book = committed
      BY <2>0, <3>1 DEF committed
    <3>3. committed' = committed
      BY <2>0, <3>1, <3>2 DEF committed
    <3> QED BY <2>1, <2>4, <3>3
  <2>5. ASSUME NEW m \in Manifest, Release(m)
        PROVE  [Promise!PromiseNext]_promiseBar
    BY <2>4, <2>5 DEF Release
  <2>6. ASSUME NEW m \in Manifest, NEW a \in Account, NEW sent \in Amount,
               ResolveDispute(a, m, sent)
        PROVE  [Promise!PromiseNext]_promiseBar
    BY <2>4, <2>6 DEF ResolveDispute
  <2>7. CASE TransferSucceeds \/ TransferFails
    <3>1. /\ depth > 0 /\ UNCHANGED <<stage, frame>>
          /\ depth' = depth \/ depth' = depth - 1
      BY <2>7 DEF TransferSucceeds, TransferFails
    <3>2. CASE depth' > 0
      BY <2>1, <3>1, <3>2 DEF committed
    <3>3. CASE depth = 1 /\ depth' = 0
      <4>1. committed = frame[1].book /\ committed' = book'
        BY <3>3 DEF committed
      <4>2. CASE TransferFails
        BY <2>1, <3>1, <3>3, <4>1, <4>2 DEF TransferFails, RevertTo
      <4>3. CASE TransferSucceeds
        <5>1. book' = book
          BY <3>3, <4>3 DEF TransferSucceeds
        <5>2. \A k \in Manifest : Progress(committed[k], committed'[k], stage[k])
          BY <3>3, <4>1, <5>1 DEF TransactionInv, Since
        <5> QED BY <2>0, <3>1, <5>2, CommitStep DEF Promise!PromiseNext
      <4> QED BY <2>7, <4>2, <4>3
    <3> QED BY <2>0, <3>1, <3>2, <3>3
  <2>8. CASE UNCHANGED escrowVars
    BY <2>1, <2>8 DEF escrowVars, committed
  <2> QED BY <2>2, <2>3, <2>5, <2>6, <2>7, <2>8 DEF EscrowNext
<1>3. TransactionInv /\ [EscrowNext]_escrowVars => TransactionInv'
  BY TransactionInvNext
<1>4. TransactionInv => Settled(committed)
  BY CommittedSettled DEF TransactionInv
<1> QED BY <1>1, <1>2, <1>3, <1>4, TransactionInvInit, PTL
        DEF EscrowSpec, ImplementsPromise, Promise!PromiseSpec, Promise!promiseVars,
            promiseBar, heldBar, paidBar

--------------------------------------------------------------------------------
(***************************************************************************)
(* The release gate.  That money left for a full load is a fact about the  *)
(* past: what a request has read may be old when it is used.  It holds     *)
(* because what matters of it cannot be undone: scans are only added, the  *)
(* chain leaves InCustody once, and a signed count stays.                  *)
(***************************************************************************)
\* The chain says that the whole load was received, or said so before a dispute.
FullySigned ==
  chain.count = PieceCount /\ chain.status \in {"Delivered", "Disputed"}

\* What a request holds is still true.
RequestSound(q) ==
  /\ q.seen \subseteq scans
  /\ q.pc = "alert" /\ Missing(q.seen) # {} => chain.status \in {"Short", "Disputed"}
  /\ q.pc = "payout" /\ q.own => FullySigned

\* A payout was released on the chain's answer about this very load.
PaidOnOwn == payment.payout = "RELEASED" /\ paidOn # "another"

GateInv ==
  /\ GateTypeOK
  /\ CountIsTrue
  /\ chain.status = "Delivered" => chain.count = PieceCount
  /\ PaidOnOwn \/ escrow = "Released" => FullySigned
  /\ payment.payout = "HELD" <=> paidOn = "nothing"
  /\ ShortageIsPinned
  /\ \A r \in Request : RequestSound(req[r])

-------------------------------------------------------------------------------
\* A count of scanned manifest pieces lies between none and all of them; it is all of
\* them only when nothing is missing, and never sinks.
LEMMA Counts ==
  /\ PieceCount \in Nat
  /\ \A seen : Scanned(seen) \in 0 .. PieceCount
  /\ \A seen : Scanned(seen) = PieceCount <=> Missing(seen) = {}
  /\ \A seen, more : seen \subseteq more => Scanned(seen) <= Scanned(more)
<1>1. PieceCount \in Nat
  BY GateAssumption, FS_CardinalityType DEF PieceCount
<1>2. ASSUME NEW seen
      PROVE  /\ IsFiniteSet(seen \cap Expected)
             /\ Scanned(seen) \in 0 .. PieceCount
             /\ Scanned(seen) = PieceCount <=> Missing(seen) = {}
  <2>1. seen \cap Expected \in SUBSET Expected
    OBVIOUS
  <2>2. /\ IsFiniteSet(seen \cap Expected) /\ Scanned(seen) <= PieceCount
        /\ Scanned(seen) = PieceCount => Expected = seen \cap Expected
    BY <2>1, GateAssumption, FS_Subset DEF Scanned, PieceCount
  <2>3. Scanned(seen) \in Nat
    BY <2>2, FS_CardinalityType DEF Scanned
  <2>4. Missing(seen) = {} => seen \cap Expected = Expected
    BY DEF Missing
  <2>5. Scanned(seen) = PieceCount <=> Missing(seen) = {}
    BY <2>2, <2>4 DEF Missing, Scanned, PieceCount
  <2> QED BY <1>1, <2>2, <2>3, <2>5
<1>3. ASSUME NEW seen, NEW more, seen \subseteq more
      PROVE  Scanned(seen) <= Scanned(more)
  <2>1. seen \cap Expected \in SUBSET (more \cap Expected)
    BY <1>3
  <2> QED BY <1>2, <2>1, FS_Subset DEF Scanned
<1> QED BY <1>1, <1>2, <1>3

LEMMA IdleSound == Idle \in RequestState /\ RequestSound(Idle)
BY DEF Idle, RequestState, Status, RequestSound

LEMMA InitSound == GateInit => GateInv
<1> SUFFICES ASSUME GateInit PROVE GateInv
  OBVIOUS
<1>1. GateTypeOK
  BY Counts, IdleSound, GateAssumption DEF GateInit, GateTypeOK, Status
<1>2. CountIsTrue
  BY Counts DEF GateInit, CountIsTrue, Scanned
<1> QED BY <1>1, <1>2, IdleSound DEF GateInit, GateInv, ShortageIsPinned, PaidOnOwn

-------------------------------------------------------------------------------
\* A step of one request that leaves the chain, the scans and the alerts alone.
LEMMA RequestMoves ==
  ASSUME GateInv, NEW r \in Request, NEW q \in RequestState, RequestSound(q),
         Become(r, q), UNCHANGED <<chain, scans, alerts, escrow>>,
         mirror' \in Status, failures' \in 0 .. MaxFailures,
         payment' \in [status: {"None", "PENDING", "PAID", "FAILED"},
                       payout: {"HELD", "RELEASED"}],
         paidOn' \in {"nothing", "own", "another"},
         payment'.payout = "HELD" <=> paidOn' = "nothing",
         PaidOnOwn' => PaidOnOwn \/ FullySigned
  PROVE  GateInv'
<1>1. /\ req' \in [Request -> RequestState]
      /\ \A s \in Request : req'[s] = IF s = r THEN q ELSE req[s]
  BY DEF GateInv, GateTypeOK, Become
<1>2. GateTypeOK'
  BY <1>1 DEF GateInv, GateTypeOK
<1>3. \A s \in Request : RequestSound(req[s])'
  BY <1>1 DEF GateInv, RequestSound, FullySigned
<1> QED BY <1>2, <1>3 DEF GateInv, CountIsTrue, FullySigned, ShortageIsPinned

\* The steps of the surroundings.
LEMMA SurroundingsKept == ASSUME GateInv, Surroundings PROVE GateInv'
<1> USE DEF GateInv, GateTypeOK, FullySigned, PaidOnOwn
<1>1. ASSUME NEW status \in {"InCustody", "Disputed"}, chain' = [chain EXCEPT !.status = status],
             status = "InCustody" => chain.status = "Created",
             UNCHANGED <<scans, mirror, alerts, moneyOut, req, failures>>
      PROVE  GateInv'
  <2>1. /\ chain'.status = status /\ chain'.count = chain.count
        /\ chain' \in [status: Status, count: 0 .. PieceCount]
    BY <1>1 DEF Status
  <2>2. \A r \in Request : RequestSound(req[r])'
    BY <1>1, <2>1 DEF RequestSound
  <2> QED BY <1>1, <2>1, <2>2 DEF CountIsTrue, ShortageIsPinned, moneyOut
<1>2. ASSUME StartCustody PROVE GateInv'
  BY <1>1, <1>2 DEF StartCustody
<1>3. ASSUME MarkDisputed PROVE GateInv'
  BY <1>1, <1>3 DEF MarkDisputed
<1>4. ASSUME NEW p \in Expected \cup Foreign, RecordScan(p) PROVE GateInv'
  <2>1. /\ scans' = scans \cup {p}
        /\ UNCHANGED <<chain, mirror, alerts, payment, paidOn, escrow, req, failures>>
    BY <1>4 DEF RecordScan, moneyOut
  <2>2. CountIsTrue'
    <3>1. Scanned(scans) <= Scanned(scans') /\ Scanned(scans) \in Int /\ Scanned(scans') \in Int
      BY <2>1, Counts
    <3> QED BY <2>1, <3>1, Counts DEF CountIsTrue, Scanned
  <2>3. \A r \in Request : RequestSound(req[r])'
    BY <2>1 DEF RequestSound
  <2> QED BY <2>1, <2>2, <2>3 DEF ShortageIsPinned
<1>5. ASSUME EscrowRelease PROVE GateInv'
  BY <1>5 DEF EscrowRelease, IsReleasable, CountIsTrue, ShortageIsPinned, RequestSound
<1>6. ASSUME CreateCollection PROVE GateInv'
  BY <1>6 DEF CreateCollection, CountIsTrue, ShortageIsPinned, RequestSound
<1>7. ASSUME NEW outcome \in {"PAID", "FAILED"}, GatewayWebhook(outcome) PROVE GateInv'
  BY <1>7 DEF GatewayWebhook, CountIsTrue, ShortageIsPinned, RequestSound
<1> QED BY <1>2, <1>3, <1>4, <1>5, <1>6, <1>7 DEF Surroundings

\* The steps of a request.
LEMMA RequestKept ==
  ASSUME GateInv, NEW r \in Request
  PROVE  /\ StartConfirm(r) \/ Fail(r) => GateInv'
         /\ \A own \in BOOLEAN : StartWebhook(r, own) => GateInv'
         /\ \A payout \in BOOLEAN : StartEvaluate(r, payout) => GateInv'
         /\ Advance(r) => GateInv'
<1> PICK c \in RequestState : c = req[r]
  BY DEF GateInv, GateTypeOK
<1>0. /\ GateTypeOK /\ RequestSound(c) /\ scans \subseteq Expected \cup Foreign
      /\ mirror \in Status /\ failures \in 0 .. MaxFailures
      /\ payment \in [status: {"None", "PENDING", "PAID", "FAILED"},
                      payout: {"HELD", "RELEASED"}]
      /\ paidOn \in {"nothing", "own", "another"}
      /\ payment.payout = "HELD" <=> paidOn = "nothing"
  BY DEF GateInv, GateTypeOK
<1>1. ASSUME StartConfirm(r) PROVE GateInv'
  <2>1. PICK q : q = [Idle EXCEPT !.pc = "submit", !.seen = scans]
    OBVIOUS
  <2>2. q \in RequestState /\ RequestSound(q)
    BY <1>0, <2>1 DEF Idle, RequestState, Status, RequestSound
  <2> QED BY <1>0, <1>1, <2>1, <2>2, RequestMoves DEF StartConfirm, moneyOut, PaidOnOwn
<1>2. ASSUME NEW payout \in BOOLEAN, StartEvaluate(r, payout) PROVE GateInv'
  <2>1. PICK q : q = [Idle EXCEPT !.pc = "reconcile", !.payout = payout]
    OBVIOUS
  <2>2. q \in RequestState /\ RequestSound(q)
    BY <2>1 DEF Idle, RequestState, Status, RequestSound
  <2> QED BY <1>0, <1>2, <2>1, <2>2, RequestMoves DEF StartEvaluate, moneyOut, PaidOnOwn
<1>3. ASSUME NEW own \in BOOLEAN, StartWebhook(r, own) PROVE GateInv'
  <2>1. PICK q : q = [Idle EXCEPT !.pc = "webhook", !.own = own]
    OBVIOUS
  <2>2. q \in RequestState /\ RequestSound(q)
    BY <2>1 DEF Idle, RequestState, Status, RequestSound
  <2> QED BY <1>0, <1>3, <2>1, <2>2, RequestMoves DEF StartWebhook, moneyOut, PaidOnOwn
<1>4. ASSUME Fail(r) PROVE GateInv'
  <2>1. failures' \in 0 .. MaxFailures
    BY <1>0, <1>4, GateAssumption DEF Fail
  <2> QED BY <1>0, <1>4, <2>1, IdleSound, RequestMoves DEF Fail, moneyOut, PaidOnOwn
\* The count goes to the chain, which takes it once.
<1>5. ASSUME SubmitCount(r) PROVE GateInv'
  <2>1. PICK n : n = Scanned(c.seen)
    OBVIOUS
  <2>2. PICK q : q = [c EXCEPT !.pc = "alert"]
    OBVIOUS
  <2>3. /\ c.pc = "submit" /\ chain.status = "InCustody" /\ Become(r, q)
        /\ chain' = [status |-> IF n = PieceCount THEN "Delivered" ELSE "Short", count |-> n]
        /\ UNCHANGED <<scans, mirror, alerts, payment, paidOn, escrow, failures>>
    BY <1>5, <2>1, <2>2 DEF SubmitCount, SignedCount, moneyOut
  <2>4. /\ n \in 0 .. PieceCount /\ n <= Cardinality(scans \cap Expected)
        /\ n = PieceCount <=> Missing(c.seen) = {}
    BY <1>0, <2>1, Counts DEF RequestSound, Scanned
  <2>5. q \in RequestState /\ q.pc = "alert" /\ q.seen = c.seen
    BY <2>2 DEF RequestState
  <2>6. /\ chain'.count = n /\ chain' \in [status: Status, count: 0 .. PieceCount]
        /\ chain'.status = IF n = PieceCount THEN "Delivered" ELSE "Short"
    BY <2>3, <2>4 DEF Status
  <2>7. /\ req' \in [Request -> RequestState]
        /\ \A s \in Request : req'[s] = IF s = r THEN q ELSE req[s]
    BY <1>0, <2>3, <2>5 DEF GateTypeOK, Become
  <2>8. GateTypeOK'
    BY <1>0, <2>3, <2>6, <2>7 DEF GateTypeOK
  <2>9. \A s \in Request : RequestSound(req[s])'
    <3>1. RequestSound(q)'
      BY <1>0, <2>3, <2>4, <2>5, <2>6 DEF RequestSound
    <3>2. ASSUME NEW s \in Request, s # r PROVE RequestSound(req[s])'
      BY <2>3, <2>7, <3>2 DEF GateInv, RequestSound, FullySigned
    <3> QED BY <2>7, <3>1, <3>2 DEF RequestSound, FullySigned
  <2> QED
    BY <2>3, <2>4, <2>6, <2>8, <2>9 DEF GateInv, CountIsTrue, FullySigned, ShortageIsPinned, PaidOnOwn
<1>6. ASSUME SubmitReverts(r) PROVE GateInv'
  BY <1>0, <1>6, IdleSound, RequestMoves DEF SubmitReverts, moneyOut, PaidOnOwn
<1>7. ASSUME RaiseAlerts(r) PROVE GateInv'
  <2>1. PICK q : q = [Idle EXCEPT !.pc = "reconcile"]
    OBVIOUS
  <2>2. q \in RequestState /\ RequestSound(q)
    BY <2>1 DEF Idle, RequestState, Status, RequestSound
  <2>3. /\ c.pc = "alert" /\ Become(r, q)
        /\ alerts' = IF Missing(c.seen) # {} THEN alerts \cup {Attribution} ELSE alerts
        /\ UNCHANGED <<chain, scans, mirror, payment, paidOn, escrow, failures>>
    BY <1>7, <2>1 DEF RaiseAlerts, moneyOut
  <2>4. alerts' \subseteq Kinds /\ ShortageIsPinned'
    BY <1>0, <2>3 DEF GateInv, GateTypeOK, RequestSound, Attribution, Kinds, ShortageIsPinned
  <2>5. /\ req' \in [Request -> RequestState]
        /\ \A s \in Request : req'[s] = IF s = r THEN q ELSE req[s]
    BY <1>0, <2>2, <2>3 DEF GateTypeOK, Become
  <2>6. \A s \in Request : RequestSound(req[s])'
    BY <2>2, <2>3, <2>5 DEF GateInv, RequestSound, FullySigned
  <2> QED BY <2>3, <2>4, <2>5, <2>6 DEF GateInv, GateTypeOK, CountIsTrue, FullySigned, PaidOnOwn
<1>8. ASSUME EvaluateReconcile(r) PROVE GateInv'
  <2>1. PICK q : q = [c EXCEPT !.pc = "sync", !.seen = scans]
    OBVIOUS
  <2>2. q \in RequestState /\ RequestSound(q)
    BY <1>0, <2>1 DEF RequestState, RequestSound
  <2> QED BY <1>0, <1>8, <2>1, <2>2, RequestMoves DEF EvaluateReconcile, moneyOut, PaidOnOwn
<1>9. ASSUME EvaluateSync(r) PROVE GateInv'
  <2>1. PICK q : q = [c EXCEPT !.pc = "decide", !.synced = ReadBack]
    OBVIOUS
  <2>2. q \in RequestState /\ RequestSound(q)
    BY <1>0, <2>1 DEF RequestState, RequestSound, ReadBack, GateTypeOK
  <2> QED BY <1>0, <1>9, <2>1, <2>2, RequestMoves DEF EvaluateSync, moneyOut, PaidOnOwn
<1>10. ASSUME EvaluateDecide(r) PROVE GateInv'
  <2>1. PICK q \in {[c EXCEPT !.pc = "webhook", !.synced = "None"], Idle} : Become(r, q)
    BY <1>10 DEF EvaluateDecide
  <2>2. q \in RequestState /\ RequestSound(q)
    BY <1>0, <2>1, IdleSound DEF RequestState, Status, RequestSound
  <2>3. mirror' \in Status /\ UNCHANGED <<chain, scans, alerts, payment, paidOn, escrow, failures>>
    BY <1>10 DEF EvaluateDecide, RequestState, moneyOut
  <2> QED BY <1>0, <2>1, <2>2, <2>3, RequestMoves DEF PaidOnOwn
<1>11. ASSUME WebhookAsksChain(r) PROVE GateInv'
  <2>1. PICK ok \in WebhookAnswers(c.own) :
          Become(r, IF ok THEN [Idle EXCEPT !.pc = "payout", !.own = c.own] ELSE Idle)
    BY <1>11 DEF WebhookAsksChain
  <2>2. PICK q : q = IF ok THEN [Idle EXCEPT !.pc = "payout", !.own = c.own] ELSE Idle
    OBVIOUS
  <2>3. c.own \in BOOLEAN
    BY DEF RequestState
  <2>4. q \in RequestState
    BY <2>2, <2>3, IdleSound DEF Idle, RequestState, Status
  <2>5. RequestSound(q)
    <3>1. CASE ok /\ c.own
      <4>1. FullySigned
        BY <3>1 DEF WebhookAnswers, IsReleasable, FullySigned
      <4> QED BY <2>2, <3>1, <4>1 DEF Idle, RequestSound
    <3>2. CASE ok /\ ~c.own
      BY <2>2, <3>2 DEF Idle, RequestSound
    <3>3. CASE ~ok
      BY <2>2, <3>3, IdleSound
    <3> QED BY <3>1, <3>2, <3>3
  <2> QED
    BY <1>0, <1>11, <2>1, <2>2, <2>4, <2>5, RequestMoves DEF WebhookAsksChain, moneyOut, PaidOnOwn
<1>12. ASSUME PayOut(r) PROVE GateInv'
  <2>1. c.pc = "payout" /\ Become(r, Idle) /\ UNCHANGED <<chain, scans, mirror, alerts, escrow, failures>>
    BY <1>12 DEF PayOut
  <2>2. c.own => FullySigned
    BY <1>0, <2>1 DEF RequestSound
  <2>3. CASE payment = [status |-> "PAID", payout |-> "HELD"]
    <3>1. /\ payment' = [status |-> "PAID", payout |-> "RELEASED"]
          /\ paidOn' = IF c.own THEN "own" ELSE "another"
      BY <1>12, <2>3 DEF PayOut
    <3> QED BY <1>0, <2>1, <2>2, <3>1, IdleSound, RequestMoves DEF PaidOnOwn
  <2>4. CASE payment # [status |-> "PAID", payout |-> "HELD"]
    <3>1. UNCHANGED <<payment, paidOn>>
      BY <1>12, <2>4 DEF PayOut
    <3> QED BY <1>0, <2>1, <3>1, IdleSound, RequestMoves DEF PaidOnOwn
  <2> QED BY <2>3, <2>4
<1> QED
  BY <1>1, <1>2, <1>3, <1>4, <1>5, <1>6, <1>7, <1>8, <1>9, <1>10, <1>11, <1>12 DEF Advance

-------------------------------------------------------------------------------
LEMMA StepSound == GateInv /\ [GateNext]_gateVars => GateInv'
<1> SUFFICES ASSUME GateInv, [GateNext]_gateVars PROVE GateInv'
  OBVIOUS
<1>1. CASE GateNext
  BY <1>1, SurroundingsKept, RequestKept DEF GateNext
<1>2. CASE UNCHANGED gateVars
  BY <1>2 DEF gateVars, moneyOut, GateInv, GateTypeOK, CountIsTrue, FullySigned, IsReleasable, PaidOnOwn,
     ShortageIsPinned, RequestSound
<1> QED BY <1>1, <1>2

\* What a request holds of the scans and of the chain stays true until it is used
\* (release-gate.ts, handoff.ts, payments.service.ts).
THEOREM GateInvariant == GateSpec => []GateInv
BY InitSound, StepSound, PTL DEF GateSpec

\* The rows, the chain's record and the requests hold what they may hold.
THEOREM GateTypeCorrect == GateSpec => []GateTypeOK
<1>1. GateInv => GateTypeOK
  BY DEF GateInv
<1> QED BY <1>1, GateInvariant, PTL

\* The count that confirmAndSign puts on the chain is never more than what was scanned.
THEOREM GateCount == GateSpec => []CountIsTrue
<1>1. GateInv => CountIsTrue
  BY DEF GateInv
<1> QED BY <1>1, GateInvariant, PTL

\* Money leaves, by the escrow or by a payout for which the chain was asked about this
\* load (handleReleaseGate), only for a load that was scanned whole and whose full count
\* the receiver signed.
THEOREM GateMoney == GateSpec => []MoneyNeedsFullScan
<1>1. GateInv => MoneyNeedsFullScan
  <2> SUFFICES ASSUME GateInv, PaidOnOwn \/ escrow = "Released"
               PROVE  /\ Expected \subseteq scans /\ chain.count = PieceCount
                      /\ chain.status \in {"Delivered", "Disputed"}
    BY DEF MoneyNeedsFullScan, PaidOnOwn
  <2>1. FullySigned
    BY DEF GateInv
  <2>2. Scanned(scans) = PieceCount
    BY <2>1, Counts DEF GateInv, CountIsTrue, FullySigned, Scanned
  <2> QED BY <2>1, <2>2, Counts DEF FullySigned, Missing
<1> QED BY <1>1, GateInvariant, PTL

\* A shortage that pins nobody (attributeLoss) was disputed in between.
THEOREM GateAttribution == GateSpec => []ShortageIsPinned
<1>1. GateInv => ShortageIsPinned
  BY DEF GateInv
<1> QED BY <1>1, GateInvariant, PTL

--------------------------------------------------------------------------------
(***************************************************************************)
(* The release gate implements LoadPromise.  A load is cleared for payout  *)
(* while a request holds the chain's answer.                               *)
(***************************************************************************)
clearedBar == \E r \in Request : req[r].pc = "payout" /\ req[r].own
collectedBar == payment.status = "PAID"
loadBar == <<scans \cap Expected, chain.status, chain.count, clearedBar, collectedBar, WaysOut>>

\* LoadPromise counts as this module does.
LEMMA SameCount == \A S : Load!Cardinality(S) = Cardinality(S)
BY DEF Cardinality, Load!Cardinality

\* A step of which LoadPromise sees at most that a clearance comes or goes.
LEMMA ClearanceMoves ==
  ASSUME scans' \cap Expected = scans \cap Expected,
         chain'.status = chain.status, chain'.count = chain.count,
         collectedBar' = collectedBar, WaysOut' = WaysOut,
         clearedBar' => clearedBar \/ chain.status = "Delivered"
  PROVE  [Load!LoadNext]_loadBar
<1>1. CASE clearedBar' /\ ~clearedBar
  BY <1>1 DEF Load!LoadNext, Load!Clear, clearedBar, collectedBar
<1>2. CASE ~clearedBar'
  BY <1>2 DEF Load!LoadNext, Load!Withdraw, clearedBar, collectedBar
<1>3. CASE clearedBar' /\ clearedBar
  <2>1. clearedBar' = clearedBar
    BY <1>3 DEF clearedBar
  <2> QED BY <2>1 DEF loadBar
<1> QED BY <1>1, <1>2, <1>3

\* A request holds the chain's word about this load.
Holds(q) == q.pc = "payout" /\ q.own

\* Where a request moves to, and whether a clearance comes with it.
LEMMA Clearances ==
  ASSUME GateInv, NEW r \in Request, NEW q, Become(r, q)
  PROVE  /\ ~Holds(q) => (clearedBar' => clearedBar)
         /\ Holds(req[r]) => clearedBar
         /\ ~Holds(req[r]) /\ ~Holds(q) => clearedBar' = clearedBar
<1>1. \A s \in Request : req'[s] = IF s = r THEN q ELSE req[s]
  BY DEF GateInv, GateTypeOK, Become
<1>2. ASSUME ~Holds(q), clearedBar' PROVE \E s \in Request : s # r /\ Holds(req[s])
  BY <1>1, <1>2 DEF clearedBar, Holds
<1>3. ASSUME ~Holds(req[r]), clearedBar
      PROVE  \E s \in Request : s # r /\ req'[s].pc = "payout" /\ req'[s].own
  BY <1>1, <1>3 DEF clearedBar, Holds
<1> QED BY <1>2, <1>3 DEF clearedBar, Holds

\* A request that does not come to hold the chain's word and does not pay.
LEMMA OtherRequests ==
  ASSUME GateInv, NEW r \in Request, NEW q, Become(r, q), ~Holds(q),
         UNCHANGED <<chain, scans, payment, paidOn, escrow>>
  PROVE  [Load!LoadNext]_loadBar
<1>1. clearedBar' => clearedBar
  BY Clearances
<1>2. WaysOut' = WaysOut /\ collectedBar' = collectedBar
  BY DEF WaysOut, collectedBar
<1> QED BY <1>1, <1>2, ClearanceMoves

LEMMA SurroundingsPromised ==
  ASSUME GateInv, Surroundings PROVE [Load!LoadNext]_loadBar
<1>0. /\ chain \in [status: Status, count: 0 .. PieceCount]
      /\ payment \in [status: {"None", "PENDING", "PAID", "FAILED"}, payout: {"HELD", "RELEASED"}]
  BY DEF GateInv, GateTypeOK
<1>1. ASSUME UNCHANGED req PROVE clearedBar' = clearedBar
  BY <1>1 DEF clearedBar
<1>2. ASSUME UNCHANGED <<payment, paidOn, escrow>>
      PROVE  WaysOut' = WaysOut /\ collectedBar' = collectedBar
  BY <1>2 DEF WaysOut, collectedBar
<1>3. ASSUME StartCustody PROVE [Load!LoadNext]_loadBar
  <2>1. /\ chain.status = "Created" /\ chain'.status = "InCustody" /\ chain'.count = chain.count
        /\ UNCHANGED <<scans, payment, paidOn, escrow, req>>
    BY <1>0, <1>3 DEF StartCustody, moneyOut
  <2> QED BY <1>1, <1>2, <2>1 DEF Load!LoadNext, Load!Take, clearedBar, collectedBar
<1>4. ASSUME MarkDisputed PROVE [Load!LoadNext]_loadBar
  <2>1. /\ chain'.status = "Disputed" /\ chain'.count = chain.count
        /\ UNCHANGED <<scans, payment, paidOn, escrow, req>>
    BY <1>0, <1>4 DEF MarkDisputed, moneyOut
  <2> QED BY <1>1, <1>2, <2>1 DEF Load!LoadNext, Load!Escalate, clearedBar, collectedBar
<1>5. ASSUME NEW p \in Expected \cup Foreign, RecordScan(p) PROVE [Load!LoadNext]_loadBar
  <2>1. scans' = scans \cup {p} /\ UNCHANGED <<chain, payment, paidOn, escrow, req>>
    BY <1>5 DEF RecordScan, moneyOut
  <2>2. CASE p \in Expected
    <3>1. scans' \cap Expected = (scans \cap Expected) \cup {p}
      BY <2>1, <2>2
    <3> QED BY <1>1, <1>2, <2>1, <2>2, <3>1 DEF Load!LoadNext, Load!Scan, clearedBar, collectedBar
  <2>3. CASE p \notin Expected
    <3>1. scans' \cap Expected = scans \cap Expected
      BY <2>1, <2>3
    <3> QED BY <1>1, <1>2, <2>1, <3>1, ClearanceMoves
  <2> QED BY <2>2, <2>3
<1>6. ASSUME EscrowRelease PROVE [Load!LoadNext]_loadBar
  <2>1. /\ escrow = "Funded" /\ escrow' = "Released" /\ chain.status = "Delivered"
        /\ UNCHANGED <<chain, scans, payment, paidOn, req>>
    BY <1>6 DEF EscrowRelease, IsReleasable
  <2>2. "escrow" \notin WaysOut /\ WaysOut' = WaysOut \cup {"escrow"}
    BY <2>1 DEF WaysOut
  <2> QED BY <1>1, <2>1, <2>2 DEF Load!LoadNext, Load!EscrowOut, clearedBar, collectedBar
<1>7. ASSUME CreateCollection PROVE [Load!LoadNext]_loadBar
  <2>1. /\ payment'.status = "PENDING" /\ payment.status = "None" /\ payment'.payout = payment.payout
        /\ UNCHANGED <<chain, scans, paidOn, escrow, req>>
    BY <1>0, <1>7 DEF CreateCollection
  <2>2. WaysOut' = WaysOut /\ collectedBar' = collectedBar
    BY <2>1 DEF WaysOut, collectedBar
  <2> QED BY <1>1, <2>1, <2>2, ClearanceMoves
<1>8. ASSUME NEW outcome \in {"PAID", "FAILED"}, GatewayWebhook(outcome)
      PROVE  [Load!LoadNext]_loadBar
  <2>1. /\ payment'.status = outcome /\ payment.status = "PENDING"
        /\ payment'.payout = payment.payout /\ UNCHANGED <<chain, scans, paidOn, escrow, req>>
    BY <1>0, <1>8 DEF GatewayWebhook
  <2>2. WaysOut' = WaysOut
    BY <2>1 DEF WaysOut
  <2>3. CASE outcome = "PAID"
    BY <1>1, <2>1, <2>2, <2>3 DEF Load!LoadNext, Load!Collect, clearedBar
  <2>4. CASE outcome = "FAILED"
    <3>1. collectedBar' = collectedBar
      BY <2>1, <2>4 DEF collectedBar
    <3> QED BY <1>1, <2>1, <2>2, <3>1, ClearanceMoves
  <2> QED BY <2>3, <2>4
<1> QED BY <1>3, <1>4, <1>5, <1>6, <1>7, <1>8 DEF Surroundings

LEMMA RequestPromised ==
  ASSUME GateInv, NEW r \in Request
  PROVE  /\ StartConfirm(r) \/ Fail(r) => [Load!LoadNext]_loadBar
         /\ \A own \in BOOLEAN : StartWebhook(r, own) => [Load!LoadNext]_loadBar
         /\ \A payout \in BOOLEAN : StartEvaluate(r, payout) => [Load!LoadNext]_loadBar
         /\ Advance(r) => [Load!LoadNext]_loadBar
<1> PICK c \in RequestState : c = req[r]
  BY DEF GateInv, GateTypeOK
<1> USE DEF moneyOut
<1>1. ASSUME StartConfirm(r) PROVE [Load!LoadNext]_loadBar
  BY <1>1, OtherRequests DEF Holds, StartConfirm, Idle
<1>2. ASSUME NEW own \in BOOLEAN, StartWebhook(r, own) PROVE [Load!LoadNext]_loadBar
  BY <1>2, OtherRequests DEF Holds, StartWebhook, Idle
<1>3. ASSUME Fail(r) PROVE [Load!LoadNext]_loadBar
  BY <1>3, OtherRequests DEF Holds, Fail, Idle
<1>4. ASSUME NEW payout \in BOOLEAN, StartEvaluate(r, payout) PROVE [Load!LoadNext]_loadBar
  BY <1>4, OtherRequests DEF Holds, StartEvaluate, Idle
\* No more is signed than was scanned.
<1>5. ASSUME SubmitCount(r) PROVE [Load!LoadNext]_loadBar
  <2>1. PICK n : n = Scanned(c.seen)
    OBVIOUS
  <2>2. PICK q : q = [c EXCEPT !.pc = "alert"]
    OBVIOUS
  <2>3. /\ c.pc = "submit" /\ chain.status = "InCustody" /\ Become(r, q)
        /\ chain' = [status |-> IF n = PieceCount THEN "Delivered" ELSE "Short", count |-> n]
        /\ UNCHANGED <<scans, payment, paidOn, escrow>>
    BY <1>5, <2>1, <2>2 DEF SubmitCount, SignedCount
  <2>4. n \in 0 .. Cardinality(Expected) /\ n <= Cardinality(scans \cap Expected)
    <3>1. c.seen \subseteq scans
      BY DEF GateInv, RequestSound
    <3> QED BY <2>1, <3>1, Counts DEF Scanned, PieceCount
  <2>5. chain'.count = n
        /\ chain'.status = IF n = Cardinality(Expected) THEN "Delivered" ELSE "Short"
    BY <2>3 DEF PieceCount
  <2>6. clearedBar' = clearedBar
    BY <2>2, <2>3, Clearances DEF RequestState, Holds
  <2>7. WaysOut' = WaysOut /\ collectedBar' = collectedBar
    BY <2>3 DEF WaysOut, collectedBar
  <2>8. UNCHANGED <<scans \cap Expected, clearedBar, collectedBar, WaysOut>>
    BY <2>3, <2>6, <2>7
  <2>9. Load!Sign(n)
    BY <2>3, <2>4, <2>5, <2>8, SameCount DEF Load!Sign, clearedBar, collectedBar
  <2>10. \E k \in 0 .. Load!Cardinality(Expected) : Load!Sign(k)
    BY <2>4, <2>9, SameCount
  <2> QED BY <2>10 DEF Load!LoadNext
<1>6. ASSUME SubmitReverts(r) PROVE [Load!LoadNext]_loadBar
  BY <1>6, OtherRequests DEF Holds, SubmitReverts, Idle
<1>7. ASSUME RaiseAlerts(r) PROVE [Load!LoadNext]_loadBar
  BY <1>7, OtherRequests DEF Holds, RaiseAlerts, Idle
<1>8. ASSUME EvaluateReconcile(r) PROVE [Load!LoadNext]_loadBar
  <2>1. PICK q : q = [c EXCEPT !.pc = "sync", !.seen = scans]
    OBVIOUS
  <2>2. q.pc = "sync"
    BY <2>1 DEF RequestState
  <2> QED BY <1>8, <2>1, <2>2, OtherRequests DEF Holds, EvaluateReconcile
<1>9. ASSUME EvaluateSync(r) PROVE [Load!LoadNext]_loadBar
  <2>1. PICK q : q = [c EXCEPT !.pc = "decide", !.synced = ReadBack]
    OBVIOUS
  <2>2. q.pc = "decide"
    BY <2>1 DEF RequestState
  <2> QED BY <1>9, <2>1, <2>2, OtherRequests DEF Holds, EvaluateSync
<1>10. ASSUME EvaluateDecide(r) PROVE [Load!LoadNext]_loadBar
  <2>1. PICK q \in {[c EXCEPT !.pc = "webhook", !.synced = "None"], Idle} : Become(r, q)
    BY <1>10 DEF EvaluateDecide
  <2>2. ~Holds(q)
    <3>1. [c EXCEPT !.pc = "webhook", !.synced = "None"].pc = "webhook"
      BY DEF RequestState
    <3>2. Idle.pc = "idle"
      BY DEF Idle
    <3> QED BY <2>1, <3>1, <3>2 DEF Holds
  <2> QED BY <1>10, <2>1, <2>2, OtherRequests DEF EvaluateDecide
\* The chain's answer about this load clears a payout.
<1>11. ASSUME WebhookAsksChain(r) PROVE [Load!LoadNext]_loadBar
  <2>1. UNCHANGED <<chain, scans, payment, paidOn, escrow>>
    BY <1>11 DEF WebhookAsksChain
  <2>2. PICK ok \in WebhookAnswers(c.own) :
          Become(r, IF ok THEN [Idle EXCEPT !.pc = "payout", !.own = c.own] ELSE Idle)
    BY <1>11 DEF WebhookAsksChain
  <2>3. CASE ok /\ c.own
    <3>1. chain.status = "Delivered"
      BY <2>3 DEF WebhookAnswers, IsReleasable
    <3>2. WaysOut' = WaysOut /\ collectedBar' = collectedBar
      BY <2>1 DEF WaysOut, collectedBar
    <3> QED BY <2>1, <3>1, <3>2, ClearanceMoves
  <2>4. CASE ~(ok /\ c.own)
    <3>1. PICK q : q = IF ok THEN [Idle EXCEPT !.pc = "payout", !.own = c.own] ELSE Idle
      OBVIOUS
    <3>2. ~Holds(q)
      BY <2>4, <3>1 DEF Holds, Idle
    <3> QED BY <2>1, <2>2, <3>1, <3>2, OtherRequests
  <2> QED BY <2>3, <2>4
\* Only a row that is PAID and not RELEASED changes.
<1>12. ASSUME PayOut(r) PROVE [Load!LoadNext]_loadBar
  <2>1. c.pc = "payout" /\ Become(r, Idle) /\ UNCHANGED <<chain, scans, escrow>>
    BY <1>12 DEF PayOut
  <2>2. CASE payment = [status |-> "PAID", payout |-> "HELD"]
    <3>1. /\ payment'.status = "PAID" /\ payment.status = "PAID" /\ paidOn = "nothing"
          /\ paidOn' = IF c.own THEN "own" ELSE "another"
      BY <1>12, <2>2 DEF PayOut, GateInv
    <3>2. {"payout", "stray"} \cap WaysOut = {} /\ collectedBar /\ collectedBar' = collectedBar
      BY <3>1 DEF WaysOut, collectedBar
    <3>3. CASE c.own
      <4>1. WaysOut' = WaysOut \cup {"payout"}
        BY <2>1, <3>1, <3>3 DEF WaysOut
      <4>2. clearedBar /\ clearedBar' \in BOOLEAN
        BY <2>1, <3>3 DEF clearedBar
      <4>3. Load!PayOutOnce
        BY <2>1, <3>2, <4>1, <4>2 DEF Load!PayOutOnce, clearedBar, collectedBar
      <4> QED BY <4>3 DEF Load!LoadNext
    <3>4. CASE ~c.own
      <4>1. WaysOut' = WaysOut \cup {"stray"}
        BY <2>1, <3>1, <3>4 DEF WaysOut
      <4>2. clearedBar' = clearedBar
        BY <2>1, <3>4, Clearances DEF Holds, Idle
      <4>3. Load!PayOutStray
        BY <2>1, <3>2, <4>1, <4>2 DEF Load!PayOutStray, clearedBar, collectedBar
      <4> QED BY <4>3 DEF Load!LoadNext
    <3> QED BY <3>3, <3>4
  <2>3. CASE payment # [status |-> "PAID", payout |-> "HELD"]
    <3>1. UNCHANGED <<payment, paidOn>>
      BY <1>12, <2>3 DEF PayOut
    <3> QED BY <2>1, <3>1, OtherRequests DEF Holds, Idle
  <2> QED BY <2>2, <2>3
<1> QED
  BY <1>1, <1>2, <1>3, <1>4, <1>5, <1>6, <1>7, <1>8, <1>9, <1>10, <1>11, <1>12 DEF Advance

\* confirmAndSign, evaluate, handleReleaseGate and Escrow.release together keep the
\* promise about the money of a load, whatever requests are under way.
THEOREM LoadRefinement == GateSpec => ImplementsLoadPromise
<1>1. GateInit => Load!LoadInit
  BY DEF GateInit, Load!LoadInit, Idle, WaysOut
<1>2. GateInv /\ [GateNext]_gateVars => [Load!LoadNext]_loadBar
  <2> SUFFICES ASSUME GateInv, [GateNext]_gateVars PROVE [Load!LoadNext]_loadBar
    OBVIOUS
  <2>1. CASE GateNext
    BY <2>1, SurroundingsPromised, RequestPromised DEF GateNext
  <2>2. CASE UNCHANGED gateVars
    BY <2>2 DEF gateVars, moneyOut, loadBar, clearedBar, collectedBar, WaysOut
  <2> QED BY <2>1, <2>2
<1> QED BY <1>1, <1>2, GateInvariant, PTL
        DEF GateSpec, ImplementsLoadPromise, Load!LoadSpec, Load!loadVars,
            loadBar, clearedBar, collectedBar
====================================================================================
