-------------------------- MODULE BlobStoreProofs --------------------------
(***************************************************************************)
(* Proofs about BlobStore for any members, files, sizes and limits: its    *)
(* state is typed, a member's figure covers the member's files, and every  *)
(* step is one of the ledger's.                                            *)
(***************************************************************************)
EXTENDS BlobStore, FiniteSetTheorems, TLAPS

-----------------------------------------------------------------------------
(* Sums. *)

\* A bill is what a part of it takes and what the rest takes.
LEMMA BytesSplit ==
    ASSUME NEW A \in SUBSET Lines, NEW B \in SUBSET Lines, A \subseteq B
    PROVE  /\ Bytes(A) \in Nat /\ Bytes(B) \in Nat
           /\ Bytes(B \ A) \in Nat
           /\ Bytes(B) = Bytes(A) + Bytes(B \ A)
<1>1. A \cap (B \ A) = {} /\ A \cup (B \ A) = B
  OBVIOUS
<1>2. B \ A \in SUBSET Lines
  OBVIOUS
<1> QED BY <1>1, <1>2, BytesAssumption

\* No lines, no bytes.
LEMMA BytesEmpty == Bytes({}) = 0
<1>1. {} \in SUBSET Lines /\ {} \ {} = {}
  OBVIOUS
<1> QED BY <1>1, BytesSplit

\* The objects under a key can be counted.
LEMMA ObjectsCounted ==
    ASSUME NEW b \in Blobs, r2 \subseteq Lines
    PROVE  Cardinality(Objects(b)) \in Nat
<1>1. IsFiniteSet({b} \X (1 .. Parts))
  <2>1. IsFiniteSet({b})
    BY FS_Singleton
  <2>2. IsFiniteSet(1 .. Parts)
    BY FS_Interval, LimitsAssumption
  <2> QED BY <2>1, <2>2, FS_Product
<1>2. Objects(b) \subseteq {b} \X (1 .. Parts)
  BY DEF Objects, Lines
<1> QED BY <1>1, <1>2, FS_Subset, FS_CardinalityType

-----------------------------------------------------------------------------
(* Typing. *)

LEMMA TypingInit == Init => TypeOK
<1> SUFFICES ASSUME Init PROVE TypeOK
  OBVIOUS
<1> USE LimitsAssumption, ConstantsAssumption
<1> QED BY DEF Init, TypeOK, Sending, Committing, Lines

\* A step of an upload keeps the types.
LEMMA TypingUpload ==
    ASSUME TypeOK, NEW b \in Blobs, Upload(b)
    PROVE  TypeOK'
<1> USE LimitsAssumption, ConstantsAssumption
<1> USE DEF TypeOK, Sending, Committing, Lines
<1>1. CASE Intent(b)
  BY <1>1 DEF Intent, userVars, itemVars, pruneVars
<1>2. CASE Ticket(b)
  BY <1>2 DEF Ticket, Finish, userVars, blobVars, itemVars, pruneVars
<1>3. CASE Put(b)
  BY <1>3 DEF Put, LastPart, userVars, blobVars, itemVars, pruneVars
<1>4. CASE GiveUp(b)
  BY <1>4 DEF GiveUp, Uploading, Finish, userVars, blobVars, itemVars, pruneVars
<1>5. CASE CommitCheck(b)
  BY <1>5 DEF CommitCheck, Finish, userVars, blobVars, itemVars, pruneVars
<1>6. CASE Stat(b)
  BY <1>6, ObjectsCounted
     DEF Stat, StatAccepted, Finish, userVars, blobVars, itemVars, pruneVars
<1>7. CASE CommitTx(b)
  <2>1. used' \in [Users -> Nat]
    BY <1>7 DEF CommitTx
  <2>2. state' \in [Blobs -> {"none", "pending", "committed"}]
        /\ byteSize' \in [Blobs -> 0 .. Parts]
        /\ item' \in [Blobs -> {"none", "live", "gone"}]
    BY <1>7 DEF CommitTx
  <2> QED BY <1>7, <2>1, <2>2 DEF CommitTx, Finish, pruneVars
<1> QED BY <1>1, <1>2, <1>3, <1>4, <1>5, <1>6, <1>7 DEF Upload

\* So does what else a member or an admin does.
LEMMA TypingAccount ==
    ASSUME TypeOK, NEW u \in Users, Account(u)
    PROVE  TypeOK'
<1> USE LimitsAssumption, ConstantsAssumption
<1> USE DEF TypeOK
<1>1. CASE \E g \in Grants : Grant(u, g)
  BY <1>1 DEF Grant, blobVars, itemVars, clientVars, pruneVars
<1>2. CASE ResetExpiry(u)
  BY <1>2 DEF ResetExpiry, userVars, blobVars, clientVars, pruneVars
<1>3. CASE \E on \in BOOLEAN : PreserveUser(u, on)
  BY <1>3 DEF PreserveUser, blobVars, itemVars, clientVars, pruneVars
<1>4. CASE \E ok \in BOOLEAN : PreserveItems(u, ok)
  BY <1>4 DEF PreserveItems, Owned, blobVars, clientVars, pruneVars
<1>5. CASE RemoveUser(u)
  BY <1>5 DEF RemoveUser, DropBlobs, DropItems, clientVars, pruneVars
<1> QED BY <1>1, <1>2, <1>3, <1>4, <1>5 DEF Account

\* So does the cron.
LEMMA TypingCron ==
    ASSUME TypeOK, ChargedOnce, Cron
    PROVE  TypeOK'
<1> USE LimitsAssumption, ConstantsAssumption
<1> USE DEF TypeOK
<1>1. CASE PruneReadItems
  BY <1>1 DEF PruneReadItems, Uploading, userVars, blobVars, itemVars, clientVars
<1>2. CASE PruneReadBlobs
  <2>1. refund' \subseteq Lines
    <3>1. \A b \in Blobs : Refunded(b) => byteSize[b] \in 1 .. Parts
      BY DEF Refunded, OrphanedCommitted, ChargedOnce
    <3> QED BY <1>2, <3>1 DEF PruneReadBlobs, Lines
  <2> QED BY <1>2, <2>1
        DEF PruneReadBlobs, Rows, userVars, blobVars, itemVars, clientVars
<1>3. CASE PruneWrite
  <2>1. \A u \in Users : Bytes({l \in refund : Owner[l[1]] = u}) \in Nat
    BY BytesAssumption
  <2>2. used' \in [Users -> Nat]
    BY <1>3, <2>1 DEF PruneWrite
  <2> QED BY <1>3, <2>2 DEF PruneWrite, DropItems, DropBlobs, clientVars
<1>4. CASE SweepList
  BY <1>4 DEF SweepList, userVars, blobVars, itemVars, clientVars
<1>5. CASE Sweep
  BY <1>5 DEF Sweep, SweepDelete, userVars, blobVars, itemVars, clientVars, pruneVars
<1>6. CASE SweepDone \/ CronFails
  BY <1>6 DEF SweepDone, CronFails, EndCron, userVars, blobVars, itemVars, clientVars
<1> QED BY <1>1, <1>2, <1>3, <1>4, <1>5, <1>6 DEF Cron

LEMMA TypingNext == TypeOK /\ ChargedOnce /\ [Next]_vars => TypeOK'
<1> SUFFICES ASSUME TypeOK, ChargedOnce, [Next]_vars PROVE TypeOK'
  OBVIOUS
<1>1. CASE \E b \in Blobs : Upload(b)
  BY <1>1, TypingUpload
<1>2. CASE \E b \in Blobs : Forget(b)
  BY <1>2 DEF Forget, DropItems, TypeOK, userVars, blobVars, clientVars, pruneVars
<1>3. CASE \E u \in Users : Account(u)
  BY <1>3, TypingAccount
<1>4. CASE Cron
  BY <1>4, TypingCron
<1>5. CASE Tick
  BY <1>5, ConstantsAssumption
     DEF Tick, TypeOK, userVars, blobVars, itemVars, clientVars, pruneVars
<1>6. CASE UNCHANGED vars
  BY <1>6 DEF vars, TypeOK, userVars, blobVars, itemVars, clientVars, pruneVars
<1> QED BY <1>1, <1>2, <1>3, <1>4, <1>5, <1>6 DEF Next

-----------------------------------------------------------------------------
(* The invariant behind the accounting. *)

LEMMA ChargedInit == Init => ChargedOnce
BY DEF Init, ChargedOnce

\* An upload: only CommitTx commits a row, and a charged row is not its own.
LEMMA ChargedUpload ==
    ASSUME TypeOK, ChargedOnce, NEW b \in Blobs, Upload(b)
    PROVE  ChargedOnce'
<1> USE DEF TypeOK, ChargedOnce, Sending, Committing, Lines
<1>1. CASE Intent(b)
  BY <1>1, ConstantsAssumption, LimitsAssumption
     DEF Intent, MayUpload, userVars, pruneVars
<1>2. CASE Ticket(b)
  BY <1>2 DEF Ticket, Finish, userVars, blobVars, pruneVars
<1>3. CASE Put(b)
  BY <1>3 DEF Put, userVars, blobVars, pruneVars
<1>4. CASE GiveUp(b)
  BY <1>4 DEF GiveUp, Uploading, Finish, userVars, blobVars, pruneVars
<1>5. CASE CommitCheck(b)
  BY <1>5 DEF CommitCheck, Finish, userVars, blobVars, pruneVars
<1>6. CASE Stat(b)
  BY <1>6 DEF Stat, StatAccepted, Finish, userVars, blobVars, pruneVars
<1>7. CASE CommitTx(b)
  BY <1>7 DEF CommitTx, QuotaAllows, Finish, pruneVars
<1> QED BY <1>1, <1>2, <1>3, <1>4, <1>5, <1>6, <1>7 DEF Upload

\* The cron: what it will give back is what it will drop, each once.
LEMMA ChargedCron ==
    ASSUME TypeOK, ChargedOnce, Cron
    PROVE  ChargedOnce'
<1> USE DEF TypeOK, ChargedOnce
<1>1. CASE PruneReadItems
  BY <1>1 DEF PruneReadItems, userVars, blobVars, clientVars
<1>2. CASE PruneReadBlobs
  <2>1. \A l \in refund' :
            /\ l[1] \in Blobs /\ l[1] \in drop'
            /\ state[l[1]] = "committed" /\ byteSize[l[1]] = l[2]
    BY <1>2 DEF PruneReadBlobs, Refunded, OrphanedCommitted
  <2> QED BY <1>2, <2>1 DEF PruneReadBlobs, userVars, blobVars, clientVars
<1>3. CASE PruneWrite
  BY <1>3 DEF PruneWrite, DropBlobs, clientVars
<1>4. CASE SweepList
  BY <1>4 DEF SweepList, userVars, blobVars, clientVars
<1>5. CASE Sweep
  BY <1>5 DEF Sweep, SweepDelete, userVars, blobVars, clientVars, pruneVars
<1>6. CASE SweepDone \/ CronFails
  BY <1>6 DEF SweepDone, CronFails, EndCron, userVars, blobVars, clientVars
<1> QED BY <1>1, <1>2, <1>3, <1>4, <1>5, <1>6 DEF Cron

LEMMA ChargedAccount ==
    ASSUME TypeOK, ChargedOnce, NEW u \in Users, Account(u)
    PROVE  ChargedOnce'
<1> USE DEF TypeOK, ChargedOnce
<1>1. CASE \E g \in Grants : Grant(u, g)
  BY <1>1 DEF Grant, blobVars, clientVars, pruneVars
<1>2. CASE ResetExpiry(u)
  BY <1>2 DEF ResetExpiry, userVars, blobVars, clientVars, pruneVars
<1>3. CASE \E on \in BOOLEAN : PreserveUser(u, on)
  BY <1>3 DEF PreserveUser, blobVars, clientVars, pruneVars
<1>4. CASE \E ok \in BOOLEAN : PreserveItems(u, ok)
  BY <1>4 DEF PreserveItems, blobVars, clientVars, pruneVars
<1>5. CASE RemoveUser(u)
  <2>1. \A b \in Blobs : Owner[b] # u => state'[b] = state[b] /\ byteSize'[b] = byteSize[b]
    BY <1>5 DEF RemoveUser, DropBlobs, Owned
  <2>2. \A b \in Blobs : Owner[b] = u => state'[b] = "none"
    BY <1>5 DEF RemoveUser, DropBlobs, Owned
  <2> QED BY <1>5, <2>1, <2>2 DEF RemoveUser, clientVars, pruneVars, Lines
<1> QED BY <1>1, <1>2, <1>3, <1>4, <1>5 DEF Account

LEMMA ChargedNext == TypeOK /\ ChargedOnce /\ [Next]_vars => ChargedOnce'
<1> SUFFICES ASSUME TypeOK, ChargedOnce, [Next]_vars PROVE ChargedOnce'
  OBVIOUS
<1>1. CASE \E b \in Blobs : Upload(b)
  BY <1>1, ChargedUpload
<1>2. CASE \E b \in Blobs : Forget(b)
  BY <1>2 DEF Forget, ChargedOnce, userVars, blobVars, clientVars, pruneVars
<1>3. CASE \E u \in Users : Account(u)
  BY <1>3, ChargedAccount
<1>4. CASE Cron
  BY <1>4, ChargedCron
<1>5. CASE Tick
  BY <1>5 DEF Tick, ChargedOnce, userVars, blobVars, clientVars, pruneVars
<1>6. CASE UNCHANGED vars
  BY <1>6 DEF vars, ChargedOnce, userVars, blobVars, clientVars, pruneVars
<1> QED BY <1>1, <1>2, <1>3, <1>4, <1>5, <1>6 DEF Next

\* Type correctness, and each committed row charged once, for any constants
\* that meet the assumptions.
THEOREM Typing == Spec => [](TypeOK /\ ChargedOnce)
<1>1. Init => TypeOK /\ ChargedOnce
  BY TypingInit, ChargedInit
<1>2. TypeOK /\ ChargedOnce /\ [Next]_vars => TypeOK' /\ ChargedOnce'
  BY TypingNext, ChargedNext
<1> QED BY <1>1, <1>2, PTL DEF Spec

-----------------------------------------------------------------------------
(* The accounting implements the ledger. *)

\* The bills that the rows stand for are typed.
LEMMA BillsTyped ==
    ASSUME TypeOK, ChargedOnce
    PROVE  \A u \in Users : Bill(u) \in SUBSET Lines
<1>1. \A b \in Blobs : state[b] = "committed" => byteSize[b] \in 1 .. Parts
  BY DEF TypeOK, ChargedOnce
<1> QED BY <1>1 DEF Bill, Owned, Lines

\* A commit charges a line that was not on the bill.
LEMMA CommitCharges ==
    ASSUME TypeOK, ChargedOnce, NEW b \in Blobs, CommitTx(b)
    PROVE  [Billing!Next]_(Billing!vars)
<1> DEFINE u == Owner[b]
           l == <<b, sized[b]>>
<1>0. u \in Users
  BY ConstantsAssumption
<1>1. CASE QuotaAllows(u, sized[b]) /\ state[b] # "none"
  <2>1. pc[b] = "tx" /\ sized[b] \in 1 .. Parts /\ state[b] # "committed"
    BY <1>1 DEF CommitTx, TypeOK, ChargedOnce
  <2>2. l \in Lines /\ Bytes({l}) = sized[b]
    BY <2>1, BytesAssumption DEF Lines
  <2>3. l \notin Bill(u)
    BY <2>1 DEF Bill
  <2>4. used[u] + sized[b] <= MaxGrant
    <3>1. quota[u] \in Nat /\ quota[u] <= MaxGrant
      <4>1. quota[u] \in {0} \cup Grants
        BY <1>0 DEF TypeOK
      <4>2. quota[u] = 0 \/ quota[u] \in 1 .. MaxGrant
        BY <4>1, ConstantsAssumption
      <4> QED BY <4>2, LimitsAssumption
    <3>2. used[u] \in Nat /\ sized[b] \in Nat /\ used[u] + sized[b] <= quota[u]
      BY <1>0, <1>1, <2>1 DEF QuotaAllows, TypeOK
    <3> QED BY <3>1, <3>2, LimitsAssumption
  <2>5. \A v \in Users : Bill(v)' = IF v = u THEN Bill(v) \cup {l} ELSE Bill(v)
    <3>1. /\ state' = [state EXCEPT ![b] = "committed"]
          /\ byteSize' = [byteSize EXCEPT ![b] = sized[b]]
      BY <1>1 DEF CommitTx
    <3>2. \A c \in Blobs : /\ state'[c] = IF c = b THEN "committed" ELSE state[c]
                           /\ byteSize'[c] = IF c = b THEN sized[b] ELSE byteSize[c]
      BY <3>1 DEF TypeOK
    <3> QED BY <3>2, <2>1 DEF Bill, Owned
  <2>6. [v \in Users |-> Bill(v)]' =
            [[v \in Users |-> Bill(v)] EXCEPT ![u] = @ \cup {l}]
    BY <2>5, <1>0
  <2>7. used' = [used EXCEPT ![u] = @ + Bytes({l})]
    BY <1>1, <2>2 DEF CommitTx
  <2>8. Billing!Charge(u, l)
    BY <1>0, <2>2, <2>3, <2>4, <2>6, <2>7 DEF Billing!Charge
  <2> HIDE DEF u, l
  <2> QED BY <1>0, <2>2, <2>8 DEF Billing!Next, Billing!Lines, Lines
<1>2. CASE ~(QuotaAllows(u, sized[b]) /\ state[b] # "none")
  BY <1>2 DEF CommitTx, Billing!vars, Bill
<1> QED BY <1>1, <1>2

\* A prune strikes the rows it drops off their bills, and gives back no more.
LEMMA PruneStrikes ==
    ASSUME TypeOK, ChargedOnce, TypeOK', ChargedOnce', PruneWrite
    PROVE  Billing!Strike
<1> DEFINE back(u) == {l \in refund : Owner[l[1]] = u}
<1>1. [u \in Users |-> Bill(u)]' \in [Users -> SUBSET Lines]
      /\ used' \in [Users -> Nat]
  <2>1. \A u \in Users : Bill(u)' \in SUBSET Lines
    <3>1. \A b \in Blobs : state'[b] = "committed" => byteSize'[b] \in 1 .. Parts
      BY DEF TypeOK, ChargedOnce
    <3> QED BY <3>1 DEF Bill, Owned, Lines
  <2> QED BY <2>1 DEF TypeOK
<1>2. \A u \in Users : Bill(u)' = {l \in Bill(u) : l[1] \notin drop}
  <2>1. /\ state' = [b \in Blobs |-> IF b \in drop THEN "none" ELSE state[b]]
        /\ byteSize' = [b \in Blobs |-> IF b \in drop THEN 0 ELSE byteSize[b]]
    BY DEF PruneWrite, DropBlobs
  <2> QED BY <2>1 DEF Bill, Owned
<1>3. ASSUME NEW u \in Users
      PROVE  /\ Bill(u)' \subseteq Bill(u)
             /\ used[u] - Bytes(Bill(u) \ Bill(u)') <= used'[u]
             /\ used'[u] <= used[u]
  <2>1. Bill(u) \in SUBSET Lines /\ Bill(u) \ Bill(u)' \in SUBSET Lines
    BY BillsTyped
  <2>2. CASE u \in member
    <3>1. back(u) \subseteq Bill(u) \ Bill(u)'
      <4>1. \A l \in back(u) : /\ l \in Lines /\ l[1] \in drop
                               /\ state[l[1]] = "committed"
                               /\ byteSize[l[1]] = l[2]
        BY <2>2 DEF ChargedOnce, TypeOK
      <4>2. \A l \in back(u) : l \in Bill(u) /\ l[1] \in drop
        BY <4>1 DEF Bill, Owned, Lines
      <4> QED BY <4>2, <1>2
    <3>2. back(u) \in SUBSET Lines
      BY DEF TypeOK
    <3>3. /\ Bytes(back(u)) \in Nat /\ Bytes(Bill(u) \ Bill(u)') \in Nat
          /\ Bytes(back(u)) <= Bytes(Bill(u) \ Bill(u)')
      <4> DEFINE A == back(u)
                 B == Bill(u) \ Bill(u)'
      <4>1. A \in SUBSET Lines /\ B \in SUBSET Lines /\ A \subseteq B
        BY <3>1, <3>2, <2>1
      <4> HIDE DEF A, B
      <4>2. /\ Bytes(A) \in Nat /\ Bytes(B) \in Nat /\ Bytes(B \ A) \in Nat
            /\ Bytes(B) = Bytes(A) + Bytes(B \ A)
        BY <4>1, BytesSplit
      <4>3. Bytes(A) \in Nat /\ Bytes(B) \in Nat /\ Bytes(A) <= Bytes(B)
        BY <4>2
      <4> QED BY <4>3 DEF A, B
    <3>4. used'[u] = IF used[u] > Bytes(back(u)) THEN used[u] - Bytes(back(u)) ELSE 0
      BY <2>2 DEF PruneWrite
    <3>5. used[u] \in Nat
      BY DEF TypeOK
    <3> HIDE DEF back
    <3> QED BY <1>2, <3>3, <3>4, <3>5
  <2>3. CASE u \notin member
    <3>1. used'[u] = used[u]
      BY <2>3 DEF PruneWrite
    <3>2. Bytes(Bill(u) \ Bill(u)') \in Nat /\ used[u] \in Nat
      BY <2>1, BytesAssumption DEF TypeOK
    <3> QED BY <1>2, <3>1, <3>2
  <2> QED BY <2>2, <2>3
<1>4. [u \in Users |-> Bill(u)]' = [u \in Users |-> Bill(u)']
  OBVIOUS
<1>5. \A u \in Users : /\ [v \in Users |-> Bill(v)][u] = Bill(u)
                       /\ [v \in Users |-> Bill(v)]'[u] = Bill(u)'
  BY <1>4
<1>6. [u \in Users |-> Bill(u)]' \in [Users -> SUBSET Billing!Lines]
  BY <1>1 DEF Billing!Lines, Lines
<1>7. \A u \in Users :
          LET old == [v \in Users |-> Bill(v)][u]
              new == [v \in Users |-> Bill(v)]'[u]
          IN  /\ new \subseteq old
              /\ used[u] - Bytes(old \ new) <= used'[u]
              /\ used'[u] <= used[u]
  BY <1>3, <1>5
<1> QED BY <1>1, <1>6, <1>7 DEF Billing!Strike

\* The removal of a member closes the account.
LEMMA RemovalCloses ==
    ASSUME TypeOK, NEW u \in Users, RemoveUser(u)
    PROVE  Billing!Close(u)
<1>1. \A v \in Users : Bill(v)' = IF v = u THEN {} ELSE Bill(v)
  <2>1. \A b \in Blobs : Owner[b] = u => state'[b] = "none"
    BY DEF RemoveUser, DropBlobs, Owned
  <2>2. \A b \in Blobs : Owner[b] # u => state'[b] = state[b] /\ byteSize'[b] = byteSize[b]
    BY DEF RemoveUser, DropBlobs, Owned
  <2> QED BY <2>1, <2>2 DEF Bill, Owned
<1> QED BY <1>1 DEF RemoveUser, Billing!Close

\* Every step is one of the ledger's, or none.
LEMMA StepsOfLedger ==
    ASSUME TypeOK, ChargedOnce, TypeOK', ChargedOnce', [Next]_vars
    PROVE  [Billing!Next]_(Billing!vars)
<1> DEFINE Same == \A b \in Blobs : /\ (state'[b] = "committed") = (state[b] = "committed")
                                    /\ state[b] = "committed" => byteSize'[b] = byteSize[b]
<1>1. ASSUME Same, used' = used
      PROVE  UNCHANGED Billing!vars
  <2>1. \A u \in Users : Bill(u)' = Bill(u)
    BY <1>1 DEF Bill, Owned
  <2> QED BY <1>1, <2>1 DEF Billing!vars
<1>2. ASSUME NEW b \in Blobs, Upload(b), ~CommitTx(b)
      PROVE  Same /\ used' = used
  <2>1. CASE Intent(b)
    <3>1. state[b] # "committed"
      BY <2>1 DEF Intent, ChargedOnce
    <3> QED BY <2>1, <3>1 DEF Intent, TypeOK, userVars
  <2>2. CASE Ticket(b) \/ Put(b) \/ GiveUp(b) \/ CommitCheck(b) \/ Stat(b)
    BY <2>2 DEF Ticket, Put, GiveUp, CommitCheck, Stat, userVars, blobVars
  <2> QED BY <1>2, <2>1, <2>2 DEF Upload
<1>3. ASSUME NEW u \in Users, Account(u), ~RemoveUser(u)
      PROVE  Same /\ used' = used
  BY <1>3 DEF Account, Grant, ResetExpiry, PreserveUser, PreserveItems, userVars, blobVars
<1>4. ASSUME Cron, ~PruneWrite
      PROVE  Same /\ used' = used
  BY <1>4 DEF Cron, PruneReadItems, PruneReadBlobs, SweepList, Sweep, SweepDelete,
              SweepDone, CronFails, EndCron, userVars, blobVars
<1>5. ASSUME Tick \/ (\E b \in Blobs : Forget(b)) \/ UNCHANGED vars
      PROVE  Same /\ used' = used
  BY <1>5 DEF Tick, Forget, vars, userVars, blobVars
<1>6. ASSUME NEW b \in Blobs, CommitTx(b)
      PROVE  [Billing!Next]_(Billing!vars)
  BY <1>6, CommitCharges
<1>7. ASSUME NEW u \in Users, RemoveUser(u)
      PROVE  [Billing!Next]_(Billing!vars)
  BY <1>7, RemovalCloses DEF Billing!Next
<1>8. ASSUME PruneWrite
      PROVE  [Billing!Next]_(Billing!vars)
  BY <1>8, PruneStrikes DEF Billing!Next
<1> HIDE DEF Same
<1> QED BY <1>1, <1>2, <1>3, <1>4, <1>5, <1>6, <1>7, <1>8 DEF Next

LEMMA StartsAsLedger == Init => Billing!Init
<1> SUFFICES ASSUME Init PROVE Billing!Init
  OBVIOUS
<1>1. \A u \in Users : Bill(u) = {}
  BY DEF Init, Bill, Owned
<1> QED BY <1>1 DEF Init, Billing!Init

\* The accounting of files implements the ledger.
THEOREM Accounting == Spec => ImplementsLedger
<1>1. Init => Billing!Init
  BY StartsAsLedger
<1>2. TypeOK /\ ChargedOnce /\ TypeOK' /\ ChargedOnce' /\ [Next]_vars
          => [Billing!Next]_(Billing!vars)
  BY StepsOfLedger
<1> QED BY <1>1, <1>2, Typing, PTL DEF Spec, ImplementsLedger, Billing!Spec

-----------------------------------------------------------------------------
(* What the ledger promises of it. *)

\* A step of the ledger keeps every figure above its bill.
LEMMA LedgerKeepsSolvent ==
    ASSUME Billing!TypeOK, Billing!TypeOK', Billing!Solvent, [Billing!Next]_(Billing!vars)
    PROVE  Billing!Solvent'
<1> DEFINE bill == [u \in Users |-> Bill(u)]
<1>0. /\ bill \in [Users -> SUBSET Lines] /\ bill' \in [Users -> SUBSET Lines]
      /\ used \in [Users -> Nat] /\ used' \in [Users -> Nat]
  BY DEF Billing!TypeOK, Billing!Lines, Lines
<1>1. \A u \in Users : Bytes(bill[u]) <= used[u] /\ used[u] <= MaxGrant
  BY DEF Billing!Solvent
<1>2. SUFFICES ASSUME NEW u \in Users
               PROVE  Bytes(bill'[u]) <= used'[u] /\ used'[u] <= MaxGrant
  BY DEF Billing!Solvent
<1>3. Bytes(bill[u]) \in Nat /\ Bytes(bill'[u]) \in Nat
      /\ used[u] \in Nat /\ used'[u] \in Nat
  BY <1>0, BytesAssumption
<1>4. ASSUME NEW v \in Users, NEW l \in Lines, Billing!Charge(v, l)
      PROVE  Bytes(bill'[u]) <= used'[u] /\ used'[u] <= MaxGrant
  <2>1. /\ l \notin bill[v] /\ used[v] + Bytes({l}) <= MaxGrant
        /\ bill' = [bill EXCEPT ![v] = @ \cup {l}]
        /\ used' = [used EXCEPT ![v] = @ + Bytes({l})]
    BY <1>4 DEF Billing!Charge
  <2> HIDE DEF bill
  <2>2. CASE u = v
    <3>1. bill'[u] = bill[u] \cup {l} /\ used'[u] = used[u] + Bytes({l})
      BY <2>1, <2>2, <1>0
    <3>2. {l} \in SUBSET Lines /\ bill[u] \in SUBSET Lines /\ bill[u] \cap {l} = {}
      BY <2>1, <2>2, <1>0
    <3>3. Bytes(bill'[u]) = Bytes(bill[u]) + Bytes({l}) /\ Bytes({l}) \in Nat
      BY <3>1, <3>2, BytesAssumption
    <3> QED BY <3>1, <3>3, <1>1, <1>3, <2>1, <2>2
  <2>3. CASE u # v
    BY <2>1, <2>3, <1>0, <1>1
  <2> QED BY <2>2, <2>3
<1>5. ASSUME Billing!Strike
      PROVE  Bytes(bill'[u]) <= used'[u] /\ used'[u] <= MaxGrant
  <2>1. /\ bill'[u] \subseteq bill[u]
        /\ used[u] - Bytes(bill[u] \ bill'[u]) <= used'[u]
        /\ used'[u] <= used[u]
    BY <1>5 DEF Billing!Strike
  <2> HIDE DEF bill
  <2>2. bill[u] \in SUBSET Lines /\ bill'[u] \in SUBSET Lines
    BY <1>0
  <2>3. /\ Bytes(bill[u] \ bill'[u]) \in Nat
        /\ Bytes(bill[u]) = Bytes(bill'[u]) + Bytes(bill[u] \ bill'[u])
    BY <2>1, <2>2, BytesSplit
  <2> QED BY <2>1, <2>3, <1>1, <1>3, LimitsAssumption
<1>6. ASSUME NEW v \in Users, Billing!Close(v)
      PROVE  Bytes(bill'[u]) <= used'[u] /\ used'[u] <= MaxGrant
  <2>1. bill' = [bill EXCEPT ![v] = {}] /\ used' = [used EXCEPT ![v] = 0]
    BY <1>6 DEF Billing!Close
  <2> HIDE DEF bill
  <2> QED BY <2>1, <1>0, <1>1, BytesEmpty, LimitsAssumption
<1>7. ASSUME UNCHANGED Billing!vars
      PROVE  Bytes(bill'[u]) <= used'[u] /\ used'[u] <= MaxGrant
  <2>1. bill' = bill /\ used' = used
    BY <1>7 DEF Billing!vars
  <2> HIDE DEF bill
  <2> QED BY <2>1, <1>1
<1> HIDE DEF bill
<1> QED BY <1>4, <1>5, <1>6, <1>7 DEF Billing!Next, Billing!Lines, Lines

\* The committed files of a member never take more than the member's figure
\* says, nor that more than the largest grant.
THEOREM Solvency == Spec => []UsedCoversFiles
<1>1. Init => Billing!Solvent
  <2>1. ASSUME Init PROVE Billing!Solvent
    <3>1. \A u \in Users : Bill(u) = {} /\ used[u] = 0
      BY <2>1 DEF Init, Bill, Owned
    <3>2. ASSUME NEW u \in Users
          PROVE  Bytes([v \in Users |-> Bill(v)][u]) <= used[u] /\ used[u] <= MaxGrant
      <4>1. [v \in Users |-> Bill(v)][u] = {}
        BY <3>1
      <4>2. Bytes([v \in Users |-> Bill(v)][u]) = 0
        BY <4>1, BytesEmpty, Zenon
      <4> QED BY <3>1, <4>2, LimitsAssumption
    <3> QED BY <3>2 DEF Billing!Solvent
  <2> QED BY <2>1
<1>2. TypeOK /\ ChargedOnce => Billing!TypeOK
  BY BillsTyped DEF TypeOK, Billing!TypeOK, Billing!Lines, Lines
<1>3. (TypeOK /\ ChargedOnce)' => Billing!TypeOK'
  BY <1>2, PTL
<1>4. ASSUME TypeOK, ChargedOnce, Billing!Solvent, TypeOK', ChargedOnce', [Next]_vars
      PROVE  Billing!Solvent'
  <2>1. [Billing!Next]_(Billing!vars)
    BY <1>4, StepsOfLedger
  <2>2. Billing!TypeOK /\ Billing!TypeOK'
    BY <1>2, <1>3, <1>4
  <2> QED BY <1>4, <2>1, <2>2, LedgerKeepsSolvent
<1>5. Spec => []Billing!Solvent
  BY <1>1, <1>4, Typing, PTL DEF Spec
<1> QED BY <1>5, PTL DEF UsedCoversFiles

-----------------------------------------------------------------------------
(* Quiet files stay whole. *)

LEMMA QuietInit == Init => QuietKept /\ QuietFilesIntact
BY DEF Init, QuietKept, QuietFilesIntact, Kept, SentParts, Live

\* A step of an upload; only its own file can change.
LEMMA QuietUpload ==
    ASSUME TypeOK, QuietKept, QuietFilesIntact, NEW b \in Blobs, Upload(b)
    PROVE  QuietKept' /\ QuietFilesIntact'
<1> USE ConstantsAssumption, LimitsAssumption
<1> USE DEF TypeOK, QuietKept, QuietFilesIntact, Kept, SentParts, Live,
            Uploading, Sending, Committing
<1>1. CASE Intent(b)
  BY <1>1 DEF Intent, userVars, itemVars, pruneVars
<1>2. CASE Ticket(b)
  BY <1>2 DEF Ticket, Finish, userVars, blobVars, itemVars, pruneVars
<1>3. CASE Put(b)
  BY <1>3 DEF Put, LastPart, userVars, blobVars, itemVars, pruneVars
<1>4. CASE GiveUp(b)
  BY <1>4 DEF GiveUp, Uploading, Finish, userVars, blobVars, itemVars, pruneVars
<1>5. CASE CommitCheck(b)
  BY <1>5 DEF CommitCheck, Finish, userVars, blobVars, itemVars, pruneVars
<1>6. CASE Stat(b)
  BY <1>6 DEF Stat, Finish, userVars, blobVars, itemVars, pruneVars
<1>7. CASE CommitTx(b)
  BY <1>7 DEF CommitTx, Finish, pruneVars
<1> QED BY <1>1, <1>2, <1>3, <1>4, <1>5, <1>6, <1>7 DEF Upload

\* A step of the cron: each stage hands the quiet files on to the next.
LEMMA QuietCron ==
    ASSUME TypeOK, QuietKept, QuietFilesIntact, Cron
    PROVE  QuietKept' /\ QuietFilesIntact'
<1> USE DEF TypeOK, QuietKept, QuietFilesIntact, Kept, SentParts, Live,
            Uploading, Sending, Committing
<1>1. CASE PruneReadItems
  BY <1>1 DEF PruneReadItems, userVars, blobVars, itemVars, clientVars
<1>2. CASE PruneReadBlobs
  BY <1>2 DEF PruneReadBlobs, PendingExpired, OrphanedCommitted, Rows,
              userVars, blobVars, itemVars, clientVars
<1>3. CASE PruneWrite
  BY <1>3 DEF PruneWrite, DropItems, DropBlobs, clientVars
<1>4. CASE SweepList
  BY <1>4 DEF SweepList, Unkept, userVars, blobVars, itemVars, clientVars
<1>5. CASE Sweep
  BY <1>5 DEF Sweep, SweepDelete, userVars, blobVars, itemVars, clientVars, pruneVars
<1>6. CASE SweepDone \/ CronFails
  BY <1>6 DEF SweepDone, CronFails, EndCron, userVars, blobVars, itemVars, clientVars
<1> QED BY <1>1, <1>2, <1>3, <1>4, <1>5, <1>6 DEF Cron

LEMMA QuietAccount ==
    ASSUME TypeOK, QuietKept, QuietFilesIntact, NEW u \in Users, Account(u)
    PROVE  QuietKept' /\ QuietFilesIntact'
<1> USE DEF TypeOK, QuietKept, QuietFilesIntact, Kept, SentParts, Live, Uploading
<1>1. CASE \E g \in Grants : Grant(u, g)
  BY <1>1 DEF Grant, blobVars, itemVars, clientVars, pruneVars
<1>2. CASE ResetExpiry(u)
  BY <1>2 DEF ResetExpiry, userVars, blobVars, clientVars, pruneVars
<1>3. CASE \E on \in BOOLEAN : PreserveUser(u, on)
  BY <1>3 DEF PreserveUser, blobVars, itemVars, clientVars, pruneVars
<1>4. CASE \E ok \in BOOLEAN : PreserveItems(u, ok)
  BY <1>4 DEF PreserveItems, blobVars, clientVars, pruneVars
<1>5. CASE RemoveUser(u)
  BY <1>5 DEF RemoveUser, DropBlobs, DropItems, Owned, clientVars, pruneVars
<1> QED BY <1>1, <1>2, <1>3, <1>4, <1>5 DEF Account

LEMMA QuietNext ==
    TypeOK /\ QuietKept /\ QuietFilesIntact /\ [Next]_vars
        => QuietKept' /\ QuietFilesIntact'
<1> SUFFICES ASSUME TypeOK, QuietKept, QuietFilesIntact, [Next]_vars
             PROVE  QuietKept' /\ QuietFilesIntact'
  OBVIOUS
<1>1. CASE \E b \in Blobs : Upload(b)
  BY <1>1, QuietUpload
<1>2. CASE \E b \in Blobs : Forget(b)
  BY <1>2 DEF Forget, DropItems, TypeOK, QuietKept, QuietFilesIntact, Kept, SentParts,
              Live, Uploading, userVars, blobVars, clientVars, pruneVars
<1>3. CASE \E u \in Users : Account(u)
  BY <1>3, QuietAccount
<1>4. CASE Cron
  BY <1>4, QuietCron
<1>5. CASE Tick \/ UNCHANGED vars
  BY <1>5 DEF Tick, vars, QuietKept, QuietFilesIntact, Kept, SentParts, Live,
              Uploading, userVars, blobVars, itemVars, clientVars, pruneVars
<1> QED BY <1>1, <1>2, <1>3, <1>4, <1>5 DEF Next

\* A file whose upload met no cron run stays whole while its item is stored.
THEOREM QuietFiles == Spec => []QuietFilesIntact
BY QuietInit, QuietNext, Typing, PTL DEF Spec
=============================================================================
