---------------------------- MODULE SignerOtp_proofs ----------------------------
(***************************************************************************)
(* Proofs about SignerOtp.tla, for any key pairs, any number of codes and  *)
(* crashes and any finite number of requests at a time.                    *)
(*                                                                         *)
(* That a code is used once rests on row locks: a live row has one holder, *)
(* and only its holder takes it out of use.  That one code is live rests   *)
(* on the unique index: whoever inserts a code holds every live row, and   *)
(* nobody else inserts one until it commits.                               *)
(***************************************************************************)
EXTENDS SignerOtp, FiniteSetTheorems, TLAPS

RequestState ==
  [ pc: {"idle", "mint", "update", "wait", "insert", "send", "locked",
         "sign", "submit", "await", "flush"},
    address: Key \cup {None}, minted: BOOLEAN, old: SUBSET Code,
    code: 0 .. MaxCodes, row: 0 .. MaxCodes ]

\* The rows that a request in this state has locked.
HeldBy(c) ==
  CASE c.pc \in {"insert", "send"} -> c.old
    [] c.pc = "locked" -> {c.row}
    [] OTHER -> {}

RequestSound(c) ==
  /\ HeldBy(c) \subseteq Live
  /\ c.pc \in {"mint", "update", "wait", "insert", "send"} => c.address \in Key
  /\ c.pc = "send" =>
       c.code \in Code /\ c.code <= issued /\ challenge[c.code] = "none" /\ Live \subseteq c.old
  /\ c.pc \in {"sign", "submit", "await", "flush"} => c.code \in Code

LocksSound ==
  \A r, s \in Request : r # s =>
    /\ HeldBy(req[r]) \cap HeldBy(req[s]) = {}
    /\ ~(req[r].pc = "send" /\ req[s].pc = "send")

CodeSound(c) ==
  /\ challenge[c] # "none" => c <= issued
  /\ accepted[c] <= 1
  /\ accepted[c] = 1 => challenge[c] = "consumed"

LiveSound == \A c, d \in Live : c = d

\* Whose signature is on the chain and not yet in the log.
OnRecord ==
  \A c \in released \ audit : crashes > 0 \/ \E r \in At({"await", "flush"}) : req[r].code = c

\* Requests that will number a code.
Owing == At({"mint", "update", "wait", "insert"})
Owes(c) == IF c.pc \in {"mint", "update", "wait", "insert"} THEN 1 ELSE 0
WithinCodes == issued + Cardinality(Owing) <= MaxCodes

SignerInv ==
  /\ SignerTypeOK
  /\ \A r \in Request : RequestSound(req[r])
  /\ LocksSound
  /\ \A c \in Code : CodeSound(c)
  /\ LiveSound
  /\ OnRecord
  /\ WithinCodes

-------------------------------------------------------------------------------
LEMMA IdleSound ==
  /\ Idle \in RequestState /\ RequestSound(Idle) /\ RequestSound(Idle)'
  /\ Idle.pc = "idle" /\ HeldBy(Idle) = {} /\ Owes(Idle) = 0
BY SignerAssumption DEF Idle, RequestState, RequestSound, HeldBy, Owes

LEMMA RequestTyped ==
  ASSUME SignerInv, NEW r \in Request
  PROVE  req[r] \in RequestState /\ RequestSound(req[r])
BY DEF SignerInv, SignerTypeOK, RequestState

LEMMA TablesTyped ==
  ASSUME SignerInv
  PROVE  /\ key \in Key \cup {None} /\ challenge \in [Code -> {"none", "live", "consumed"}]
         /\ expired \subseteq Code /\ issued \in 0 .. MaxCodes /\ answered \subseteq Key
         /\ accepted \in [Code -> Nat] /\ released \subseteq Code /\ audit \subseteq Code
         /\ crashes \in 0 .. MaxCrashes
BY DEF SignerInv, SignerTypeOK

LEMMA HeldByIsHolds == \A r : Holds(r) = HeldBy(req[r])
BY DEF Holds, HeldBy

LEMMA InitSound == SignerInit => SignerInv
<1> SUFFICES ASSUME SignerInit PROVE SignerInv
  OBVIOUS
<1>1. SignerTypeOK
  BY IdleSound, SignerAssumption DEF SignerInit, SignerTypeOK, RequestState, Code
<1>2. Live = {} /\ released = {}
  BY DEF SignerInit, Live
<1>3. Owing = {}
  BY IdleSound DEF SignerInit, Owing, At
<1>4. WithinCodes
  BY <1>3, FS_EmptySet, SignerAssumption DEF SignerInit, WithinCodes
<1>5. LocksSound
  BY IdleSound DEF SignerInit, LocksSound
<1>6. \A c \in Code : CodeSound(c)
  BY DEF SignerInit, CodeSound, Code
<1> QED BY <1>1, <1>2, <1>4, <1>5, <1>6, IdleSound DEF SignerInit, SignerInv, LiveSound, OnRecord

\* A request that moves joins or leaves those that will number a code.
LEMMA CountMoves ==
  ASSUME SignerInv, NEW r \in Request, NEW q \in RequestState, Become(r, q)
  PROVE  /\ Cardinality(Owing) \in Nat /\ Cardinality(Owing') \in Nat
         /\ Owes(q) \in {0, 1} /\ Owes(req[r]) \in {0, 1}
         /\ Cardinality(Owing') = Cardinality(Owing) + Owes(q) - Owes(req[r])
<1> DEFINE R == {s \in Request \ {r} : Owes(req[s]) = 1}
<1>1. \A s \in Request : req'[s] = IF s = r THEN q ELSE req[s]
  BY DEF SignerInv, SignerTypeOK, Become
<1>2. /\ IsFiniteSet(R) /\ r \notin R /\ Cardinality(R) \in Nat
      /\ Cardinality(R \cup {r}) = Cardinality(R) + 1
  <2>1. R \in SUBSET Request
    OBVIOUS
  <2>2. IsFiniteSet(R)
    BY <2>1, FS_Subset, SignerAssumption
  <2> QED BY <2>2, FS_AddElement, FS_CardinalityType
<1>3. Owing = IF Owes(req[r]) = 1 THEN R \cup {r} ELSE R
  BY DEF Owing, At, Owes
<1>4. Owing' = IF Owes(q) = 1 THEN R \cup {r} ELSE R
  BY <1>1 DEF Owing, At, Owes
<1>5. Owes(q) \in {0, 1} /\ Owes(req[r]) \in {0, 1}
  BY DEF Owes
<1> HIDE DEF R
<1>6. Cardinality(Owing) = Cardinality(R) + Owes(req[r])
  <2>1. CASE Owes(req[r]) = 1
    BY <1>2, <1>3, <2>1
  <2>2. CASE Owes(req[r]) = 0
    BY <1>2, <1>3, <2>2
  <2> QED BY <1>5, <2>1, <2>2
<1>7. Cardinality(Owing') = Cardinality(R) + Owes(q)
  <2>1. CASE Owes(q) = 1
    BY <1>2, <1>4, <2>1
  <2>2. CASE Owes(q) = 0
    BY <1>2, <1>4, <2>2
  <2> QED BY <1>5, <2>1, <2>2
<1> QED BY <1>2, <1>5, <1>6, <1>7

-------------------------------------------------------------------------------
\* What the other requests rely on is not taken from them.
Spares(others) ==
  /\ issued <= issued'
  /\ \A s \in others :
       /\ HeldBy(req[s]) \subseteq Live'
       /\ req[s].pc = "send" => challenge'[req[s].code] = "none" /\ Live' \subseteq Live

LEMMA Moves ==
  ASSUME SignerInv, NEW r \in Request, NEW q \in RequestState, Become(r, q), RequestSound(q)',
         key' \in Key \cup {None}, challenge' \in [Code -> {"none", "live", "consumed"}],
         expired' \subseteq Code, issued' \in 0 .. MaxCodes, answered' \subseteq Key,
         accepted' \in [Code -> Nat], released' \subseteq Code, audit' \subseteq Code,
         crashes' \in 0 .. MaxCrashes,
         \A s \in Request \ {r} : /\ HeldBy(q) \cap HeldBy(req[s]) = {}
                                  /\ ~(q.pc = "send" /\ req[s].pc = "send"),
         \A c \in Code : CodeSound(c)', LiveSound', OnRecord',
         issued' + Owes(q) <= issued + Owes(req[r]) \/ WithinCodes',
         Spares(Request \ {r})
  PROVE  SignerInv'
<1>1. /\ req' \in [Request -> RequestState]
      /\ \A s \in Request : req'[s] = IF s = r THEN q ELSE req[s]
  BY DEF SignerInv, SignerTypeOK, RequestState, Become
<1>2. SignerTypeOK'
  BY <1>1 DEF SignerTypeOK, RequestState
<1>3. \A s \in Request : RequestSound(req[s])'
  <2>1. ASSUME NEW s \in Request \ {r} PROVE RequestSound(req[s])'
    <3>1. PICK c \in RequestState : c = req[s] /\ c = req'[s] /\ RequestSound(c)
      BY <1>1, <2>1, RequestTyped
    <3>2. /\ issued <= issued' /\ HeldBy(c) \subseteq Live'
          /\ c.pc = "send" => challenge'[c.code] = "none" /\ Live' \subseteq Live
      BY <2>1, <3>1 DEF Spares
    <3>3. c.pc = "send" => c.code <= issued'
      BY <3>1, <3>2, TablesTyped DEF RequestSound, Code
    <3> QED BY <3>1, <3>2, <3>3 DEF RequestSound
  <2>2. RequestSound(req[r])'
    BY <1>1 DEF RequestSound
  <2> QED BY <2>1, <2>2
<1>4. LocksSound'
  <2> SUFFICES ASSUME NEW s \in Request, NEW u \in Request, s # u
               PROVE  /\ HeldBy(req'[s]) \cap HeldBy(req'[u]) = {}
                      /\ ~(req'[s].pc = "send" /\ req'[u].pc = "send")
    BY DEF LocksSound, HeldBy
  <2> QED BY <1>1 DEF SignerInv, LocksSound
<1>5. WithinCodes'
  <2>1. issued + Cardinality(Owing) <= MaxCodes /\ MaxCodes \in Nat
    BY SignerAssumption DEF SignerInv, WithinCodes
  <2>2. CASE issued' + Owes(q) <= issued + Owes(req[r])
    <3>1. issued \in Int /\ issued' \in Int
      BY TablesTyped
    <3>2. issued' + Cardinality(Owing') <= MaxCodes
      BY <2>1, <2>2, <3>1, CountMoves
    <3> QED BY <3>2 DEF WithinCodes
  <2> QED BY <2>2
<1> QED BY <1>2, <1>3, <1>4, <1>5 DEF SignerInv

\* A step that leaves the tables as they are.
LEMMA QuietMoves ==
  ASSUME SignerInv, NEW r \in Request, NEW q \in RequestState, Become(r, q), RequestSound(q),
         UNCHANGED <<tables, history, expired, issued>>,
         crashes' \in 0 .. MaxCrashes, crashes <= crashes',
         \A s \in Request \ {r} : /\ HeldBy(q) \cap HeldBy(req[s]) = {}
                                  /\ ~(q.pc = "send" /\ req[s].pc = "send"),
         req[r].pc \in {"await", "flush"} =>
           crashes' > 0 \/ (q.pc \in {"await", "flush"} /\ q.code = req[r].code),
         Owes(q) <= Owes(req[r]) \/ WithinCodes'
  PROVE  SignerInv'
<1>1. /\ key' = key /\ challenge' = challenge /\ audit' = audit /\ expired' = expired
      /\ issued' = issued /\ answered' = answered /\ accepted' = accepted /\ released' = released
  BY DEF tables, history
<1>2. Live' = Live
  BY <1>1 DEF Live
<1>3. RequestSound(q)'
  BY <1>1, <1>2 DEF RequestSound
<1>4. (\A c \in Code : CodeSound(c)') /\ LiveSound'
  BY <1>1, <1>2 DEF SignerInv, CodeSound, LiveSound
<1>5. \A s \in Request : req'[s] = IF s = r THEN q ELSE req[s]
  BY DEF SignerInv, SignerTypeOK, Become
<1>6. OnRecord'
  <2> SUFFICES ASSUME NEW c \in released \ audit
               PROVE  \/ crashes' > 0
                      \/ \E s \in Request : req'[s].pc \in {"await", "flush"} /\ req'[s].code = c
    BY <1>1 DEF OnRecord, At
  <2>1. CASE crashes > 0
    BY <2>1, TablesTyped
  <2>2. CASE \E s \in Request : req[s].pc \in {"await", "flush"} /\ req[s].code = c
    BY <2>2, <1>5
  <2> QED BY <2>1, <2>2 DEF SignerInv, OnRecord, At
<1>7. issued' + Owes(q) <= issued + Owes(req[r]) \/ WithinCodes'
  BY <1>1, CountMoves, TablesTyped
<1>8. Spares(Request \ {r})
  BY <1>1, <1>2, RequestTyped, TablesTyped DEF Spares, RequestSound
<1> QED BY <1>1, <1>3, <1>4, <1>6, <1>7, <1>8, TablesTyped, Moves

\* A request that ends and leaves the tables as they are.
LEMMA QuietEnd ==
  ASSUME SignerInv, NEW r \in Request, Become(r, Idle),
         UNCHANGED <<tables, history, expired, issued>>,
         crashes' \in 0 .. MaxCrashes, crashes <= crashes',
         req[r].pc \notin {"await", "flush"} \/ crashes' > 0
  PROVE  SignerInv'
<1>1. Owes(Idle) <= Owes(req[r])
  BY IdleSound DEF Owes
<1> QED BY <1>1, IdleSound, QuietMoves

-------------------------------------------------------------------------------
\* requestDeliveryOtp.
LEMMA EnsureKeySound ==
  ASSUME SignerInv, NEW r \in Request, EnsureKey(r)
  PROVE  SignerInv'
<1>1. PICK pc \in {"mint", "update"}, k \in Key : Become(r, [Idle EXCEPT !.pc = pc, !.address = k])
  BY TablesTyped DEF EnsureKey
<1>2. PICK q : q = [Idle EXCEPT !.pc = pc, !.address = k]
  OBVIOUS
<1>3. q \in RequestState /\ q.pc = pc /\ q.address = k
  BY <1>2, IdleSound DEF RequestState, Idle
<1>4. RequestSound(q) /\ HeldBy(q) = {} /\ Owes(q) = 1 /\ q.pc # "send"
  BY <1>3 DEF RequestSound, HeldBy, Owes
<1>5. /\ Become(r, q) /\ req[r].pc = "idle" /\ issued + Cardinality(Issuing) < MaxCodes
      /\ UNCHANGED <<tables, history, expired, issued, crashes>>
  BY <1>1, <1>2 DEF EnsureKey
<1>6. WithinCodes'
  <2>1. Owing \in SUBSET Issuing /\ Issuing \in SUBSET Request
    BY DEF Owing, Issuing, At
  <2>2. /\ Cardinality(Owing) <= Cardinality(Issuing)
        /\ Cardinality(Issuing) \in Nat /\ Cardinality(Owing) \in Nat
    BY <2>1, FS_Subset, FS_CardinalityType, SignerAssumption
  <2>3. Owes(req[r]) = 0
    BY <1>5 DEF Owes
  <2>4. Cardinality(Owing') = Cardinality(Owing) + 1
    BY <1>3, <1>4, <1>5, <2>2, <2>3, CountMoves
  <2>5. issued' + Cardinality(Owing') <= MaxCodes
    BY <1>5, <2>2, <2>4, TablesTyped, SignerAssumption
  <2> QED BY <2>5 DEF WithinCodes
<1> QED BY <1>3, <1>4, <1>5, <1>6, TablesTyped, QuietMoves

LEMMA PutKeySound ==
  ASSUME SignerInv, NEW r \in Request, PutKey(r)
  PROVE  SignerInv'
<1>1. PICK c \in RequestState : c = req[r] /\ RequestSound(c)
  BY RequestTyped
<1>2. PICK q : q = [c EXCEPT !.pc = "update", !.minted = (key = None)]
  OBVIOUS
<1>3. q \in RequestState /\ q.pc = "update" /\ q.address = c.address
  BY <1>2 DEF RequestState
<1>4. /\ c.pc = "mint" /\ Become(r, q)
      /\ UNCHANGED <<tables, history, expired, issued, crashes>>
  BY <1>1, <1>2 DEF PutKey
<1>5. RequestSound(q) /\ HeldBy(q) = {} /\ Owes(q) <= Owes(c)
  BY <1>1, <1>3, <1>4 DEF RequestSound, HeldBy, Owes
<1> QED BY <1>1, <1>3, <1>4, <1>5, TablesTyped, QuietMoves

LEMMA SeeLiveSound ==
  ASSUME SignerInv, NEW r \in Request, SeeLive(r)
  PROVE  SignerInv'
<1>1. PICK c \in RequestState : c = req[r] /\ RequestSound(c)
  BY RequestTyped
<1>2. PICK q : q = [c EXCEPT !.pc = "wait", !.old = Live]
  OBVIOUS
<1>3. q \in RequestState /\ q.pc = "wait" /\ q.address = c.address
  BY <1>2 DEF RequestState, Live
<1>4. /\ c.pc = "update" /\ Become(r, q)
      /\ UNCHANGED <<tables, history, expired, issued, crashes>>
  BY <1>1, <1>2 DEF SeeLive
<1>5. RequestSound(q) /\ HeldBy(q) = {} /\ Owes(q) <= Owes(c)
  BY <1>1, <1>3, <1>4 DEF RequestSound, HeldBy, Owes
<1> QED BY <1>1, <1>3, <1>4, <1>5, TablesTyped, QuietMoves

LEMMA ConsumeLiveSound ==
  ASSUME SignerInv, NEW r \in Request, ConsumeLive(r)
  PROVE  SignerInv'
<1>1. PICK c \in RequestState : c = req[r] /\ RequestSound(c)
  BY RequestTyped
<1>2. PICK q : q = [c EXCEPT !.pc = "insert", !.old = @ \cap Live]
  OBVIOUS
<1>3. q \in RequestState /\ q.pc = "insert" /\ q.address = c.address /\ q.old = c.old \cap Live
  BY <1>2 DEF RequestState
<1>4. /\ c.pc = "wait" /\ Become(r, q) /\ RowsFree(r, c.old)
      /\ UNCHANGED <<tables, history, expired, issued, crashes>>
  BY <1>1, <1>2 DEF ConsumeLive
<1>5. RequestSound(q) /\ HeldBy(q) \subseteq c.old /\ Owes(q) <= Owes(c)
  BY <1>1, <1>3, <1>4 DEF RequestSound, HeldBy, Owes
<1>6. \A s \in Request \ {r} : HeldBy(q) \cap HeldBy(req[s]) = {}
  BY <1>4, <1>5, HeldByIsHolds DEF RowsFree
<1> QED BY <1>1, <1>3, <1>4, <1>5, <1>6, TablesTyped, QuietMoves

LEMMA InsertCodeSound ==
  ASSUME SignerInv, NEW r \in Request, InsertCode(r)
  PROVE  SignerInv'
<1>1. PICK c \in RequestState : c = req[r] /\ RequestSound(c)
  BY RequestTyped
<1>2. PICK q : q = [c EXCEPT !.pc = "send", !.code = issued + 1]
  OBVIOUS
<1>3. /\ c.pc = "insert" /\ At({"send"}) = {} /\ Live \ c.old = {} /\ issued' = issued + 1
      /\ Become(r, q)
      /\ key' = key /\ challenge' = challenge /\ audit' = audit /\ expired' = expired
      /\ answered' = answered /\ accepted' = accepted /\ released' = released /\ crashes' = crashes
  BY <1>1, <1>2 DEF InsertCode, Taken, NextCode, tables, history
<1>4. Owes(c) = 1
  BY <1>3 DEF Owes
<1>5. issued + 1 \in Code /\ issued' \in 0 .. MaxCodes
  <2>1. r \in Owing
    BY <1>1, <1>3 DEF Owing, At
  <2>2. IsFiniteSet(Owing)
    BY FS_Subset, SignerAssumption DEF Owing, At
  <2>3. Cardinality(Owing) \in Nat /\ Cardinality(Owing) # 0
    BY <2>1, <2>2, FS_EmptySet, FS_CardinalityType
  <2>4. issued + 1 <= MaxCodes
    BY <2>3, TablesTyped, SignerAssumption DEF SignerInv, WithinCodes
  <2> QED BY <1>3, <2>4, TablesTyped, SignerAssumption DEF Code
<1>6. /\ q \in RequestState /\ q.pc = "send" /\ q.address = c.address
      /\ q.old = c.old /\ q.code = issued + 1
  <2>1. issued + 1 \in 0 .. MaxCodes
    BY <1>5 DEF Code
  <2> QED BY <1>2, <2>1 DEF RequestState
<1>7. Live' = Live
  BY <1>3 DEF Live
<1>8. challenge[issued + 1] = "none"
  <2>1. ~(issued + 1 <= issued)
    BY TablesTyped
  <2> QED BY <1>5, <2>1, TablesTyped DEF SignerInv, CodeSound
<1>9. RequestSound(q)'
  <2>1. HeldBy(c) = c.old /\ HeldBy(q) = c.old
    BY <1>3, <1>6 DEF HeldBy
  <2>2. issued + 1 <= issued'
    BY <1>3, <1>5
  <2> QED BY <1>1, <1>3, <1>5, <1>6, <1>7, <1>8, <2>1, <2>2 DEF RequestSound
<1>10. \A s \in Request \ {r} : HeldBy(q) \cap HeldBy(req[s]) = {} /\ req[s].pc # "send"
  <2>1. HeldBy(q) = HeldBy(c)
    BY <1>3, <1>6 DEF HeldBy
  <2> QED BY <1>1, <1>3, <2>1 DEF SignerInv, LocksSound, At
<1>11. (\A x \in Code : CodeSound(x)') /\ LiveSound'
  BY <1>3, <1>7, TablesTyped DEF SignerInv, CodeSound, LiveSound, Code
<1>12. \A s \in Request : req'[s] = IF s = r THEN q ELSE req[s]
  BY <1>3 DEF SignerInv, SignerTypeOK, Become
<1>13. OnRecord'
  BY <1>1, <1>3, <1>12 DEF SignerInv, OnRecord, At
<1>14. issued' + Owes(q) <= issued + Owes(c)
  BY <1>3, <1>4, <1>6, TablesTyped DEF Owes
<1>15. Spares(Request \ {r})
  BY <1>3, <1>7, RequestTyped, TablesTyped DEF Spares, RequestSound
<1> QED BY <1>1, <1>3, <1>5, <1>6, <1>9, <1>10, <1>11, <1>13, <1>14, <1>15, TablesTyped, Moves

LEMMA SendCodeSound ==
  ASSUME SignerInv, NEW r \in Request, SendCode(r)
  PROVE  SignerInv'
<1>1. PICK c \in RequestState : c = req[r] /\ RequestSound(c)
  BY RequestTyped
<1>2. /\ c.pc = "send" /\ Become(r, Idle) /\ key' = (IF c.minted THEN c.address ELSE key)
      /\ challenge' = [x \in Code |-> IF x = c.code THEN "live"
                                      ELSE IF x \in c.old THEN "consumed" ELSE challenge[x]]
      /\ answered' = answered \cup {c.address}
      /\ expired' = expired /\ issued' = issued /\ accepted' = accepted
      /\ released' = released /\ audit' = audit /\ crashes' = crashes
  BY <1>1 DEF SendCode, StoredKey
<1>3. /\ c.address \in Key /\ c.code \in Code /\ c.code <= issued /\ challenge[c.code] = "none"
      /\ Live \subseteq c.old /\ c.old \subseteq Live
  BY <1>1, <1>2 DEF RequestSound, HeldBy
<1>4. /\ key' \in Key \cup {None} /\ answered' \subseteq Key
      /\ challenge' \in [Code -> {"none", "live", "consumed"}]
  BY <1>2, <1>3, TablesTyped
<1>5. \A x \in Code : challenge'[x] = IF x = c.code THEN "live"
                                      ELSE IF challenge[x] = "live" THEN "consumed" ELSE challenge[x]
  BY <1>2, <1>3 DEF Live
<1>6. Live' = {c.code}
  BY <1>3, <1>4, <1>5 DEF Live
<1>7. \A x \in Code : CodeSound(x)'
  <2> SUFFICES ASSUME NEW x \in Code PROVE CodeSound(x)'
    OBVIOUS
  <2>1. CodeSound(x)
    BY DEF SignerInv
  <2> QED BY <1>2, <1>3, <1>5, <2>1, TablesTyped DEF CodeSound
<1>8. \A s \in Request : req'[s] = IF s = r THEN Idle ELSE req[s]
  BY <1>2 DEF SignerInv, SignerTypeOK, Become
<1>9. OnRecord'
  BY <1>1, <1>2, <1>8 DEF SignerInv, OnRecord, At
<1>10. \A s \in Request \ {r} : HeldBy(req[s]) = {} /\ req[s].pc # "send"
  <2> SUFFICES ASSUME NEW s \in Request \ {r} PROVE HeldBy(req[s]) = {} /\ req[s].pc # "send"
    OBVIOUS
  <2>1. HeldBy(c) = c.old
    BY <1>2 DEF HeldBy
  <2>2. HeldBy(req[s]) \subseteq Live
    BY RequestTyped DEF RequestSound
  <2> QED BY <1>1, <1>2, <1>3, <2>1, <2>2 DEF SignerInv, LocksSound
<1>11. Spares(Request \ {r})
  BY <1>2, <1>10, TablesTyped DEF Spares
<1>12. LiveSound'
  BY <1>6 DEF LiveSound
<1>13. issued' + Owes(Idle) <= issued + Owes(c)
  BY <1>2, IdleSound, TablesTyped DEF Owes
<1> QED
  BY <1>1, <1>2, <1>4, <1>7, <1>9, <1>11, <1>12, <1>13, IdleSound, TablesTyped, Moves

\* confirmDelivery.
LEMMA PresentSound ==
  ASSUME SignerInv, NEW r \in Request, NEW code \in 0 .. issued, Present(r, code)
  PROVE  SignerInv'
<1>1. PICK x \in Live : /\ RowsFree(r, {x})
                        /\ Become(r, [Idle EXCEPT !.pc = "locked", !.code = code, !.row = x])
  BY DEF Present
<1>2. PICK q : q = [Idle EXCEPT !.pc = "locked", !.code = code, !.row = x]
  OBVIOUS
<1>3. code \in 0 .. MaxCodes /\ x \in 0 .. MaxCodes
  BY TablesTyped, SignerAssumption DEF Live, Code
<1>4. q \in RequestState /\ q.pc = "locked" /\ q.row = x
  BY <1>2, <1>3, IdleSound DEF RequestState, Idle
<1>5. RequestSound(q) /\ HeldBy(q) = {x}
  BY <1>4 DEF RequestSound, HeldBy
<1>6. /\ Become(r, q) /\ req[r].pc = "idle"
      /\ UNCHANGED <<tables, history, expired, issued, crashes>>
  BY <1>1, <1>2 DEF Present
<1>7. Owes(q) <= Owes(req[r])
  BY <1>4, <1>6 DEF Owes
<1>8. \A s \in Request \ {r} : HeldBy(q) \cap HeldBy(req[s]) = {}
  BY <1>1, <1>5, HeldByIsHolds DEF RowsFree
<1> QED BY <1>4, <1>5, <1>6, <1>7, <1>8, TablesTyped, QuietMoves

LEMMA AcceptSound ==
  ASSUME SignerInv, NEW r \in Request, Accept(r)
  PROVE  SignerInv'
<1>1. PICK c \in RequestState : c = req[r] /\ RequestSound(c)
  BY RequestTyped
<1>2. PICK q : q = [c EXCEPT !.pc = "sign", !.row = 0]
  OBVIOUS
<1>3. /\ c.pc = "locked" /\ c.code = c.row /\ Become(r, q)
      /\ challenge' = [challenge EXCEPT ![c.row] = "consumed"]
      /\ accepted' = [accepted EXCEPT ![c.row] = @ + 1]
      /\ key' = key /\ expired' = expired /\ issued' = issued /\ answered' = answered
      /\ released' = released /\ audit' = audit /\ crashes' = crashes
  BY <1>1, <1>2 DEF Accept, Matches, Consumed
<1>4. c.row \in Live /\ c.row \in Code /\ challenge[c.row] = "live" /\ HeldBy(c) = {c.row}
  BY <1>1, <1>3 DEF RequestSound, HeldBy, Live
<1>5. q \in RequestState /\ q.pc = "sign" /\ q.code = c.row
  <2>1. 0 \in 0 .. MaxCodes
    BY SignerAssumption
  <2> QED BY <1>2, <1>3, <2>1 DEF RequestState
<1>6. /\ challenge' \in [Code -> {"none", "live", "consumed"}] /\ accepted' \in [Code -> Nat]
      /\ Live' = Live \ {c.row}
      /\ challenge'[c.row] = "consumed" /\ accepted'[c.row] = accepted[c.row] + 1
      /\ \A x \in Code \ {c.row} : challenge'[x] = challenge[x] /\ accepted'[x] = accepted[x]
  BY <1>3, <1>4, TablesTyped DEF Live
<1>7. HeldBy(q) = {} /\ RequestSound(q)'
  BY <1>4, <1>5 DEF RequestSound, HeldBy
<1>8. \A x \in Code : CodeSound(x)'
  <2>1. CodeSound(c.row)'
    <3>1. CodeSound(c.row) /\ accepted[c.row] \in Nat
      BY <1>4, TablesTyped DEF SignerInv
    <3> QED BY <1>3, <1>4, <1>6, <3>1 DEF CodeSound
  <2>2. \A x \in Code \ {c.row} : CodeSound(x)'
    BY <1>3, <1>6 DEF SignerInv, CodeSound
  <2> QED BY <2>1, <2>2
<1>9. LiveSound'
  BY <1>6 DEF SignerInv, LiveSound
<1>10. \A s \in Request : req'[s] = IF s = r THEN q ELSE req[s]
  BY <1>3 DEF SignerInv, SignerTypeOK, Become
<1>11. OnRecord'
  BY <1>1, <1>3, <1>10 DEF SignerInv, OnRecord, At
<1>12. Spares(Request \ {r})
  <2> SUFFICES ASSUME NEW s \in Request \ {r}
               PROVE  /\ HeldBy(req[s]) \subseteq Live'
                      /\ req[s].pc = "send" => challenge'[req[s].code] = "none" /\ Live' \subseteq Live
    BY <1>3, TablesTyped DEF Spares
  <2>1. RequestSound(req[s]) /\ c.row \notin HeldBy(req[s])
    BY <1>1, <1>4, RequestTyped DEF SignerInv, LocksSound
  <2> QED BY <1>4, <1>6, <2>1 DEF RequestSound
<1>13. issued' + Owes(q) <= issued + Owes(c)
  BY <1>3, <1>5, TablesTyped DEF Owes
<1> QED
  BY <1>1, <1>3, <1>5, <1>6, <1>7, <1>8, <1>9, <1>11, <1>12, <1>13, TablesTyped, Moves

LEMMA SignDigestSound ==
  ASSUME SignerInv, NEW r \in Request, SignDigest(r)
  PROVE  SignerInv'
<1>1. PICK c \in RequestState : c = req[r] /\ RequestSound(c)
  BY RequestTyped
<1>2. PICK q : q = [c EXCEPT !.pc = "submit"]
  OBVIOUS
<1>3. q \in RequestState /\ q.pc = "submit" /\ q.code = c.code
  BY <1>2 DEF RequestState
<1>4. /\ c.pc = "sign" /\ Become(r, q)
      /\ UNCHANGED <<tables, history, expired, issued, crashes>>
  BY <1>1, <1>2 DEF SignDigest, PreVerified
<1>5. RequestSound(q) /\ HeldBy(q) = {} /\ Owes(q) <= Owes(c)
  BY <1>1, <1>3, <1>4 DEF RequestSound, HeldBy, Owes
<1> QED BY <1>1, <1>3, <1>4, <1>5, TablesTyped, QuietMoves

LEMMA EndPhaseTwoSound ==
  ASSUME SignerInv, NEW r \in Request, NEW ok \in BOOLEAN, EndPhaseTwo(r, ok)
  PROVE  SignerInv'
<1>1. PICK c \in RequestState : c = req[r] /\ RequestSound(c)
  BY RequestTyped
<1>2. PICK q : q = [c EXCEPT !.pc = "flush"]
  OBVIOUS
<1>3. q \in RequestState /\ q.pc = "flush" /\ q.code = c.code
  BY <1>2 DEF RequestState
<1>4. /\ c.pc = "await" /\ Become(r, q)
      /\ UNCHANGED <<tables, history, expired, issued, crashes>>
  BY <1>1, <1>2 DEF EndPhaseTwo, Finally
<1>5. RequestSound(q) /\ HeldBy(q) = {} /\ Owes(q) <= Owes(c)
  BY <1>1, <1>3, <1>4 DEF RequestSound, HeldBy, Owes
<1> QED BY <1>1, <1>3, <1>4, <1>5, TablesTyped, QuietMoves

\* The signature goes to the chain, or its row to the log: no lock and no row is touched.
LEMMA RecordMoves ==
  ASSUME SignerInv, NEW r \in Request, NEW q \in RequestState, Become(r, q),
         q.pc \in {"idle", "await"}, q.pc = "await" => q.code \in Code,
         req[r].pc \in {"submit", "flush"},
         key' = key, challenge' = challenge, expired' = expired, issued' = issued,
         answered' = answered, accepted' = accepted, crashes' = crashes,
         released' \subseteq Code, audit' \subseteq Code, OnRecord'
  PROVE  SignerInv'
<1>1. Live' = Live
  BY DEF Live
<1>2. RequestSound(q)' /\ HeldBy(q) = {} /\ Owes(q) = 0 /\ q.pc # "send"
  BY DEF RequestSound, HeldBy, Owes
<1>3. (\A c \in Code : CodeSound(c)') /\ LiveSound'
  BY <1>1 DEF SignerInv, CodeSound, LiveSound
<1>4. issued' + Owes(q) <= issued + Owes(req[r])
  BY <1>2, TablesTyped DEF Owes
<1>5. Spares(Request \ {r})
  BY <1>1, RequestTyped, TablesTyped DEF Spares, RequestSound
<1> QED BY <1>2, <1>3, <1>4, <1>5, TablesTyped, Moves

LEMMA SubmitSound ==
  ASSUME SignerInv, NEW r \in Request, Submit(r)
  PROVE  SignerInv'
<1>1. PICK c \in RequestState : c = req[r] /\ RequestSound(c)
  BY RequestTyped
<1>2. PICK q : q = [c EXCEPT !.pc = "await"]
  OBVIOUS
<1>3. q \in RequestState /\ q.pc = "await" /\ q.code = c.code
  BY <1>2 DEF RequestState
<1>4. /\ c.pc = "submit" /\ Become(r, q) /\ released' = released \cup {c.code}
      /\ key' = key /\ challenge' = challenge /\ audit' = audit /\ expired' = expired
      /\ issued' = issued /\ answered' = answered /\ accepted' = accepted /\ crashes' = crashes
  BY <1>1, <1>2 DEF Submit, tables
<1>5. c.code \in Code
  BY <1>1, <1>4 DEF RequestSound
<1>6. \A s \in Request : req'[s] = IF s = r THEN q ELSE req[s]
  BY <1>4 DEF SignerInv, SignerTypeOK, Become
<1>7. OnRecord'
  BY <1>1, <1>3, <1>4, <1>6 DEF SignerInv, OnRecord, At
<1> QED BY <1>1, <1>3, <1>4, <1>5, <1>7, TablesTyped, RecordMoves

LEMMA FlushSound ==
  ASSUME SignerInv, NEW r \in Request, Flush(r)
  PROVE  SignerInv'
<1>1. PICK c \in RequestState : c = req[r] /\ RequestSound(c)
  BY RequestTyped
<1>2. /\ c.pc = "flush" /\ Become(r, Idle) /\ audit' = audit \cup {c.code}
      /\ key' = key /\ challenge' = challenge /\ released' = released /\ expired' = expired
      /\ issued' = issued /\ answered' = answered /\ accepted' = accepted /\ crashes' = crashes
  BY <1>1 DEF Flush, history
<1>3. c.code \in Code
  BY <1>1, <1>2 DEF RequestSound
<1>4. \A s \in Request : req'[s] = IF s = r THEN Idle ELSE req[s]
  BY <1>2 DEF SignerInv, SignerTypeOK, Become
<1>5. OnRecord'
  BY <1>1, <1>2, <1>4 DEF SignerInv, OnRecord, At
<1> QED BY <1>1, <1>2, <1>3, <1>5, IdleSound, TablesTyped, RecordMoves

LEMMA CrashSound ==
  ASSUME SignerInv, NEW r \in Request, Crash(r)
  PROVE  SignerInv'
<1>1. crashes' \in 0 .. MaxCrashes /\ crashes' > 0 /\ crashes <= crashes'
  BY TablesTyped, SignerAssumption DEF Crash
<1> QED BY <1>1, QuietEnd DEF Crash

\* Requests that give up.
LEMMA GiveUpSound ==
  ASSUME SignerInv, NEW r \in Request,
         InsertConflict(r) \/ SendFails(r) \/ Reject(r) \/ RefuseToSign(r)
  PROVE  SignerInv'
<1>1. /\ req[r].pc \in {"insert", "send", "locked", "sign"} /\ Become(r, Idle)
      /\ UNCHANGED <<tables, history, expired, issued, crashes>>
  BY DEF InsertConflict, SendFails, Reject, RefuseToSign
<1> QED BY <1>1, TablesTyped, QuietEnd

\* Time passes, or nothing happens.
LEMMA ExpireSound ==
  ASSUME SignerInv, expired' \subseteq Code, UNCHANGED <<tables, history, issued, req, crashes>>
  PROVE  SignerInv'
<1>1. /\ key' = key /\ challenge' = challenge /\ audit' = audit /\ req' = req
      /\ issued' = issued /\ answered' = answered /\ accepted' = accepted
      /\ released' = released /\ crashes' = crashes
  BY DEF tables, history
<1>2. Live' = Live /\ Owing' = Owing
  BY <1>1 DEF Live, Owing, At
<1>3. SignerTypeOK'
  BY <1>1 DEF SignerInv, SignerTypeOK
<1>4. (\A r \in Request : RequestSound(req[r])') /\ LocksSound'
  BY <1>1, <1>2 DEF SignerInv, RequestSound, LocksSound
<1>5. (\A c \in Code : CodeSound(c)') /\ LiveSound' /\ WithinCodes'
  BY <1>1, <1>2 DEF SignerInv, CodeSound, LiveSound, WithinCodes
<1>6. OnRecord'
  BY <1>1 DEF SignerInv, OnRecord, At
<1> QED BY <1>3, <1>4, <1>5, <1>6 DEF SignerInv

-------------------------------------------------------------------------------
LEMMA StepSound == SignerInv /\ [SignerNext]_signerVars => SignerInv'
<1> SUFFICES ASSUME SignerInv, [SignerNext]_signerVars PROVE SignerInv'
  OBVIOUS
<1>1. ASSUME NEW r \in Request,
             EnsureKey(r) \/ PutKey(r) \/ SeeLive(r) \/ ConsumeLive(r) \/ InsertCode(r) \/ SendCode(r)
      PROVE  SignerInv'
  BY <1>1, EnsureKeySound, PutKeySound, SeeLiveSound, ConsumeLiveSound, InsertCodeSound, SendCodeSound
<1>2. ASSUME NEW r \in Request, NEW code \in 0 .. issued, Present(r, code)
      PROVE  SignerInv'
  BY <1>2, PresentSound
<1>3. ASSUME NEW r \in Request, Accept(r) \/ SignDigest(r) \/ Submit(r) \/ Flush(r) \/ Crash(r)
      PROVE  SignerInv'
  BY <1>3, AcceptSound, SignDigestSound, SubmitSound, FlushSound, CrashSound
<1>4. ASSUME NEW r \in Request, NEW ok \in BOOLEAN, EndPhaseTwo(r, ok)
      PROVE  SignerInv'
  BY <1>4, EndPhaseTwoSound
<1>5. ASSUME NEW r \in Request,
             InsertConflict(r) \/ SendFails(r) \/ Reject(r) \/ RefuseToSign(r)
      PROVE  SignerInv'
  BY <1>5, GiveUpSound
<1>6. ASSUME NEW c \in Code, Expire(c) PROVE SignerInv'
  BY <1>6, TablesTyped, ExpireSound DEF Expire
<1>7. ASSUME UNCHANGED signerVars PROVE SignerInv'
  BY <1>7, TablesTyped, ExpireSound DEF signerVars, tables, history
<1> QED BY <1>1, <1>2, <1>3, <1>4, <1>5, <1>6, <1>7 DEF SignerNext, PresentInVain

\* Locks, codes, the order of a signature's records and the number of codes stay sound
\* whatever requests for a code, confirmations and crashes overlap (otp.ts,
\* signer-service.ts, custody.service.ts).
THEOREM SignerInvariant == SignerSpec => []SignerInv
<1>1. SignerInit => SignerInv
  BY InitSound
<1>2. SignerInv /\ [SignerNext]_signerVars => SignerInv'
  BY StepSound
<1> QED BY <1>1, <1>2, PTL DEF SignerSpec

\* Tables and requests hold what their columns and fields may hold (otp_challenges,
\* participant_keys, signer_audit); no code is numbered beyond the bound.
THEOREM SignerTypeCorrect == SignerSpec => []SignerTypeOK
<1>1. SignerInv => SignerTypeOK
  BY DEF SignerInv
<1> QED BY <1>1, SignerInvariant, PTL

\* A code lets one confirmation through, however many present it at the same moment
\* (OtpService.verify).
THEOREM SignerSingleUse == SignerSpec => []SingleUse
<1>1. SignerInv => SingleUse
  BY DEF SignerInv, SingleUse, CodeSound
<1> QED BY <1>1, SignerInvariant, PTL

\* At most one code of the phone is live (OtpService.issue and the unique index
\* otp_challenges_live_idx).
THEOREM SignerOneLiveCode == SignerSpec => []OneLiveCode
<1>1. ASSUME SignerInv PROVE OneLiveCode
  <2>1. CASE Live = {}
    BY <2>1, FS_EmptySet DEF OneLiveCode
  <2>2. CASE Live # {}
    <3>1. PICK c \in Live : TRUE
      BY <2>2
    <3>2. Live = {c}
      BY <1>1, <3>1 DEF SignerInv, LiveSound
    <3>3. Cardinality(Live) = 1
      BY <3>2, FS_Singleton
    <3> QED BY <3>3 DEF OneLiveCode
  <2> QED BY <2>1, <2>2
<1> QED BY <1>1, SignerInvariant, PTL

\* A signature that reached the chain has its row in signer_audit once its request has
\* ended, unless a process died (the finally block of confirmDelivery).
THEOREM SignerOnRecord == SignerSpec => []UnauditedOnlyByCrash
<1>1. SignerInv => UnauditedOnlyByCrash
  BY DEF SignerInv, OnRecord, UnauditedOnlyByCrash, At
<1> QED BY <1>1, SignerInvariant, PTL
================================================================================
