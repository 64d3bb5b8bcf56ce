---------------------------- MODULE AccountsProofs ----------------------------
(***************************************************************************)
(* Theorems about Accounts, for any accounts, callers and readers, and any *)
(* number of faults.                                                       *)
(*                                                                         *)
(* A call carries from step to step what makes the properties inductive:   *)
(* whom it is about (Named), that what it has of the index is the index or *)
(* nothing (Snapped), that it is alone in the store (Sectioned), and that  *)
(* the token it is about to cache is the active account's (Minted).        *)
(***************************************************************************)
EXTENDS Accounts, TLAPS

StoreOK == /\ keyring \subseteq Accounts /\ index \in Indexes
           /\ strayed \subseteq Accounts /\ vanished \subseteq Accounts
TokenOK == engine \in Engines /\ cache \in Tokens /\ lock \in Callers \cup {NoCaller}
LocalOK == /\ pc \in [Callers -> Pcs] /\ op \in [Callers -> Ops]
           /\ who \in [Callers -> Accounts \cup {NoAccount}]
           /\ eng \in [Callers -> Engines]
           /\ snap \in [Callers -> Indexes]
           /\ todo \in [Callers -> SUBSET Accounts]
ReadsOK == /\ reader \in [Reads -> Accounts \cup {NoAccount}]
           /\ slot \in [Accounts -> Reads \cup {NoRead}]
           /\ over \subseteq Reads
           /\ waits \in [Callers -> Reads \cup {NoRead}]
Typed   == StoreOK /\ TokenOK /\ LocalOK /\ ReadsOK /\ faults \in 0..MaxFaults

\* The steps of a call know whom it is about.
Named(c) ==
    /\ pc[c] \in {"keyset", "save", "revoke", "keydel"} => who[c] \in Accounts
    /\ pc[c] = "keyset" => op[c] = "signin"
    /\ pc[c] = "save" /\ op[c] = "switch" => who[c] \in snap[c].accounts
    /\ pc[c] \in {"active", "refresh"} => op[c] \in {"fetch", "ensure"}
    /\ pc[c] = "lock" => op[c] = "fetch"
    /\ op[c] = "fetch" => pc[c] \in {"idle", "lock", "active", "refresh"}
    /\ op[c] = "fetch" /\ pc[c] \in {"lock", "active"} => who[c] = NoAccount
    /\ op[c] = "fetch" /\ pc[c] = "active" => eng[c] = "native"
    /\ op[c] = "fetch" /\ pc[c] = "refresh" =>
          IF eng[c] = "native" THEN who[c] \in Accounts ELSE who[c] = NoAccount

\* What a call is about to rewrite is the index, or nothing if it was unreadable.
Snapped(c) == pc[c] \in {"save", "prune"} => snap[c] \in {index, EmptyIndex}

\* One call at a time is in the store.
Sectioned == \A c, d \in Callers : pc[c] \in Section /\ pc[d] \in Section => c = d

\* The fetch under way is for the active account, or will be thrown away.
Minted ==
    \A c \in Callers : op[c] = "fetch" /\ pc[c] = "refresh" /\ eng[c] = "native" =>
        who[c] = index.active \/ Owed \/ who[c] \in vanished

\* A slot stands for a read that goes on, and such a read has its slot; who
\* has begun to wait for a read still waits.
OneRead ==
    /\ over \subseteq Reads /\ \A r \in over : reader[r] # NoAccount
    /\ \A a \in Accounts : \A r \in Reads : slot[a] = r <=> reader[r] = a /\ r \notin over
    /\ \A c \in Callers : waits[c] # NoRead <=> pc[c] = "wait"

IInv ==
    /\ Typed /\ Sectioned
    /\ \A c \in Callers : Named(c) /\ Snapped(c)
    /\ HolderFetches /\ ActiveIsListed /\ NothingUnlisted /\ ServedIsActive /\ Minted

\* The type invariant is made of its parts.
LEMMA TypeParts == Typed <=> TypeOK
  BY DEF Typed, TypeOK, StoreOK, TokenOK, LocalOK, ReadsOK

\* An index that could not be read counts as an index.
LEMMA EmptyType == EmptyIndex \in Indexes
  BY DEF EmptyIndex, Indexes

\* What a fetch may put into the cache.
LEMMA TokenType ==
  /\ NoToken \in Tokens
  /\ \A a \in Accounts : [acct |-> a, engine |-> "native"] \in Tokens
  /\ [acct |-> NoAccount, engine |-> "gcloud"] \in Tokens
  BY DEF Tokens, NoToken

-----------------------------------------------------------------------------
\* The initial states satisfy the invariant.
LEMMA InitIInv == Init => IInv
<1> SUFFICES ASSUME Init PROVE IInv
  OBVIOUS
<1> USE DEF Init, Idle
<1>1. Typed
  BY EmptyType, TokenType, AccountsAssumption
     DEF Typed, StoreOK, TokenOK, LocalOK, ReadsOK, Engines, Ops, Pcs, NoToken
<1>2. Sectioned /\ \A c \in Callers : Named(c) /\ Snapped(c)
  BY DEF Sectioned, Section, Named, Snapped
<1>3. HolderFetches /\ Minted
  BY AccountsAssumption DEF HolderFetches, Minted
<1>4. ActiveIsListed /\ NothingUnlisted /\ ServedIsActive
  BY DEF ActiveIsListed, NothingUnlisted, ServedIsActive, EmptyIndex, NoToken
<1> QED
  BY <1>1, <1>2, <1>3, <1>4 DEF IInv

-----------------------------------------------------------------------------
(* What the steps have in common: a call goes on, or is over; the others'  *)
(* places stay.                                                            *)

Others(c) ==
    \A d \in Callers \ {c} :
        /\ pc'[d] = pc[d] /\ op'[d] = op[d] /\ who'[d] = who[d]
        /\ eng'[d] = eng[d] /\ snap'[d] = snap[d] /\ todo'[d] = todo[d]

Over(c) ==
    /\ pc'[c] = "idle" /\ op'[c] = "fetch" /\ who'[c] = NoAccount
    /\ eng'[c] = "native" /\ snap'[c] = EmptyIndex /\ todo'[c] = {}

\* A call begins or takes a step, a status check's included.
Moves(c) ==
    \/ \E o \in Ops : \E a \in Accounts \cup {NoAccount} : Call(c, o, a)
    \/ Step(c)
    \/ CheckCredential(c) \/ StatusAnswered(c) \/ StatusPending(c)

\* The first step of each call.
LEMMA FirstStep ==
  ASSUME NEW o \in Ops
  PROVE  /\ Starts[o] \in {"browser", "active", "load", "revoke", "pref", "lock", "status"}
         /\ Starts[o] \in {"lock", "active"} <=> o \in {"fetch", "ensure"}
         /\ Starts[o] = "lock" <=> o = "fetch"
         /\ Starts[o] = "revoke" <=> o = "remove"
<1> USE DEF Starts
<1>1. CASE o = "signin"  BY <1>1
<1>2. CASE o = "ensure"  BY <1>2
<1>3. CASE o = "switch"  BY <1>3
<1>4. CASE o = "remove"  BY <1>4
<1>5. CASE o = "logout"  BY <1>5
<1>6. CASE o = "list"  BY <1>6
<1>7. CASE o = "engine"  BY <1>7
<1>8. CASE o = "fetch"  BY <1>8
<1>9. CASE o = "status"  BY <1>9
<1> QED
  BY <1>1, <1>2, <1>3, <1>4, <1>5, <1>6, <1>7, <1>8, <1>9 DEF Ops

\* A call that returns is over, and leaves the others where they are.
LEMMA ReturnEffect ==
  ASSUME LocalOK, NEW c \in Callers, Return(c)
  PROVE  LocalOK' /\ Others(c) /\ Over(c)
  BY EmptyType DEF LocalOK, Return, Goto, Others, Over, Pcs, Ops, Engines

\* What is kept is a part of what was read.
LEMMA KeptPart ==
  ASSUME LocalOK, NEW c \in Callers, NEW answered
  PROVE  Kept(c, answered) \subseteq snap[c].accounts /\ snap[c].accounts \subseteq Accounts
  BY DEF Kept, LocalOK, Indexes

\* A listing, and the first step of a log-out, go on with what they keep ...
LEMMA PrunesLocal ==
  ASSUME Typed, NEW c \in Callers, Named(c), NEW kept, kept \subseteq Accounts,
         Prunes(c, kept, TRUE) \/ Prunes(c, kept, FALSE)
  PROVE  /\ LocalOK' /\ Others(c) /\ Named(c)'
         /\ pc[c] = "prune" /\ pc'[c] \in {"idle", "revoke"}
         /\ UNCHANGED <<keyring, engine, cache, lock>>
<1>1. LocalOK' /\ Others(c) /\ Named(c)'
  BY ReturnEffect, EmptyType
     DEF Prunes, Goto, Typed, LocalOK, Others, Over, Named, Pcs, Ops
<1>2. pc[c] = "prune" /\ pc'[c] \in {"idle", "revoke"}
  BY ReturnEffect DEF Prunes, Goto, Typed, LocalOK, Over
<1> QED
  BY <1>1, <1>2 DEF Prunes

\* ... and write the index only if that differs from what they read.
Cut(c, kept) ==
    /\ Pruned(c, kept) # snap[c]
    /\ index' = Pruned(c, kept)
    /\ vanished' = vanished \cup (snap[c].accounts \ kept)
    /\ strayed' = (strayed \cup Dropped(Pruned(c, kept))) \ kept

\* The effect of a listing, whatever the keyring answers.
LEMMA PruneEffect ==
  ASSUME Typed, NEW c \in Callers, Named(c),
         Prune(c) \/ \E answered \in SUBSET Accounts : PruneFails(c, answered)
  PROVE  /\ LocalOK' /\ Others(c) /\ Named(c)'
         /\ pc[c] = "prune" /\ pc'[c] \in {"idle", "revoke"}
         /\ UNCHANGED <<keyring, engine, cache, lock>> /\ faults' \in 0..MaxFaults
         /\ \/ UNCHANGED <<index, vanished, strayed>>
            \/ \E kept \in SUBSET snap[c].accounts : Cut(c, kept)
<1>1. ASSUME NEW kept \in SUBSET snap[c].accounts,
             Prunes(c, kept, FALSE) \/ (Prunes(c, kept, TRUE) /\ Pruned(c, kept) # snap[c])
      PROVE  /\ LocalOK' /\ Others(c) /\ Named(c)'
             /\ pc[c] = "prune" /\ pc'[c] \in {"idle", "revoke"}
             /\ UNCHANGED <<keyring, engine, cache, lock>>
             /\ UNCHANGED <<index, vanished, strayed>> \/ Cut(c, kept)
  <2>1. kept \subseteq Accounts
    BY DEF Typed, LocalOK, Indexes
  <2>2. UNCHANGED <<index, vanished, strayed>> \/ Cut(c, kept)
    BY <1>1 DEF Prunes, Cut
  <2> QED
    BY <1>1, <2>1, <2>2, PrunesLocal
<1>2. LocalOK /\ faults \in 0..MaxFaults
  BY DEF Typed
<1>3. ASSUME NEW answered \in SUBSET Accounts,
             \/ Prunes(c, Kept(c, answered), Pruned(c, Kept(c, answered)) # snap[c])
             \/ Prunes(c, Kept(c, answered), FALSE)
      PROVE  /\ LocalOK' /\ Others(c) /\ Named(c)'
             /\ pc[c] = "prune" /\ pc'[c] \in {"idle", "revoke"}
             /\ UNCHANGED <<keyring, engine, cache, lock>>
             /\ \/ UNCHANGED <<index, vanished, strayed>>
                \/ \E kept \in SUBSET snap[c].accounts : Cut(c, kept)
  <2> DEFINE kept == Kept(c, answered)
  <2>1. kept \in SUBSET snap[c].accounts
    BY <1>2, KeptPart
  <2>2. Prunes(c, kept, FALSE) \/ (Prunes(c, kept, TRUE) /\ Pruned(c, kept) # snap[c])
    <3>1. CASE Pruned(c, kept) # snap[c]
      <4>1. (Pruned(c, kept) # snap[c]) = TRUE
        BY <3>1
      <4> QED
        BY <1>3, <3>1, <4>1
    <3>2. CASE ~(Pruned(c, kept) # snap[c])
      <4>1. (Pruned(c, kept) # snap[c]) = FALSE
        BY <3>2
      <4> QED
        BY <1>3, <4>1
    <3> QED
      BY <3>1, <3>2
  <2> HIDE DEF kept
  <2> QED
    BY <1>1, <2>1, <2>2
<1>4. CASE Prune(c)
  <2>1. snap[c].accounts \in SUBSET Accounts
    BY <1>2 DEF LocalOK, Indexes
  <2> QED
    BY <1>2, <1>3, <1>4, <2>1 DEF Prune
<1>5. ASSUME NEW answered \in SUBSET Accounts, PruneFails(c, answered)
      PROVE  /\ \/ Prunes(c, Kept(c, answered), Pruned(c, Kept(c, answered)) # snap[c])
                \/ Prunes(c, Kept(c, answered), FALSE)
             /\ faults' \in 0..MaxFaults
  <2>1. faults' \in 0..MaxFaults
    BY <1>2, <1>5, AccountsAssumption DEF PruneFails, Fault
  <2> QED
    BY <1>5, <2>1 DEF PruneFails
<1> QED
  BY <1>3, <1>4, <1>5

\* A step touches its own call only, and goes on knowing whom it is about.
LEMMA StepLocal ==
  ASSUME Typed, NEW c \in Callers, Named(c), ActiveIsListed, Moves(c)
  PROVE  LocalOK' /\ Others(c) /\ Named(c)'
<1> USE DEF Typed
<1>1. ASSUME NEW o \in Ops, NEW a \in Accounts \cup {NoAccount}, Call(c, o, a)
      PROVE  LocalOK' /\ Others(c) /\ Named(c)'
  BY <1>1, FirstStep, ReturnEffect, EmptyType
     DEF Call, Enter, Goto, TokenOK, LocalOK, StoreOK, Others, Over, Named, Pcs, Ops
<1>2. ASSUME NEW kind \in Kinds, NEW a \in Accounts, Redirect(c, kind, a)
      PROVE  LocalOK' /\ Others(c) /\ Named(c)'
  BY <1>2, ReturnEffect, EmptyType
     DEF Redirect, Enter, Goto, LocalOK, StoreOK, Others, Over, Named, Pcs, Ops
<1>3. ASSUME StoreSecret(c)
      PROVE  LocalOK' /\ Others(c) /\ Named(c)'
  BY <1>3, ReturnEffect, EmptyType
     DEF StoreSecret, Goto, LocalOK, StoreOK, Others, Over, Named, Pcs, Ops
<1>4. ASSUME StoreSecretFails(c)
      PROVE  LocalOK' /\ Others(c) /\ Named(c)'
  BY <1>4, ReturnEffect, EmptyType
     DEF StoreSecretFails, LocalOK, StoreOK, Others, Over, Named, Pcs, Ops
<1>5. ASSUME Load(c)
      PROVE  LocalOK' /\ Others(c) /\ Named(c)'
  BY <1>5, ReturnEffect, EmptyType
     DEF Load, Loads, Goto, LocalOK, StoreOK, Others, Over, Named, Pcs, Ops
<1>6. ASSUME LoadFails(c)
      PROVE  LocalOK' /\ Others(c) /\ Named(c)'
  BY <1>6, ReturnEffect, EmptyType
     DEF LoadFails, Loads, Goto, LocalOK, StoreOK, Others, Over, Named, Pcs, Ops
<1>7. ASSUME Save(c)
      PROVE  LocalOK' /\ Others(c) /\ Named(c)'
  BY <1>7, ReturnEffect, EmptyType
     DEF Save, Goto, LocalOK, StoreOK, Others, Over, Named, Pcs, Ops
<1>8. ASSUME SaveFails(c)
      PROVE  LocalOK' /\ Others(c) /\ Named(c)'
  BY <1>8, ReturnEffect, EmptyType
     DEF SaveFails, LocalOK, StoreOK, Others, Over, Named, Pcs, Ops
<1>9. ASSUME Invalidate(c)
      PROVE  LocalOK' /\ Others(c) /\ Named(c)'
  BY <1>9, ReturnEffect, EmptyType
     DEF Invalidate, Onwards, Goto, LocalOK, StoreOK, Others, Over, Named, Pcs, Ops
<1>10. ASSUME Revoke(c)
      PROVE  LocalOK' /\ Others(c) /\ Named(c)'
  BY <1>10, ReturnEffect, EmptyType
     DEF Revoke, Enter, Goto, LocalOK, StoreOK, Others, Over, Named, Pcs, Ops
<1>11. ASSUME DeleteSecret(c)
      PROVE  LocalOK' /\ Others(c) /\ Named(c)'
  BY <1>11, ReturnEffect, EmptyType
     DEF DeleteSecret, Goto, LocalOK, StoreOK, Others, Over, Named, Pcs, Ops
<1>12. ASSUME DeleteSecretFails(c)
      PROVE  LocalOK' /\ Others(c) /\ Named(c)'
  BY <1>12, ReturnEffect, EmptyType
     DEF DeleteSecretFails, LocalOK, StoreOK, Others, Over, Named, Pcs, Ops
<1>13. ASSUME Prune(c)
      PROVE  LocalOK' /\ Others(c) /\ Named(c)'
  BY <1>13, PruneEffect
<1>14. ASSUME NEW answered \in SUBSET Accounts, PruneFails(c, answered)
      PROVE  LocalOK' /\ Others(c) /\ Named(c)'
  BY <1>14, PruneEffect
<1>15. ASSUME NEW e \in Engines, StorePref(c, e)
      PROVE  LocalOK' /\ Others(c) /\ Named(c)'
  BY <1>15, ReturnEffect, EmptyType
     DEF StorePref, Goto, LocalOK, StoreOK, Others, Over, Named, Pcs, Ops, Engines
<1>16. ASSUME StorePrefFails(c)
      PROVE  LocalOK' /\ Others(c) /\ Named(c)'
  BY <1>16, ReturnEffect, EmptyType
     DEF StorePrefFails, LocalOK, StoreOK, Others, Over, Named, Pcs, Ops
<1>17. ASSUME FetchHit(c)
      PROVE  LocalOK' /\ Others(c) /\ Named(c)'
  BY <1>17, ReturnEffect, EmptyType
     DEF FetchHit, LocalOK, StoreOK, Others, Over, Named, Pcs, Ops
<1>18. ASSUME FetchMiss(c)
      PROVE  LocalOK' /\ Others(c) /\ Named(c)'
  BY <1>18, ReturnEffect, EmptyType
     DEF FetchMiss, Goto, LocalOK, StoreOK, Others, Over, Named, Pcs, Ops
<1>19. ASSUME ReadActive(c)
      PROVE  LocalOK' /\ Others(c) /\ Named(c)'
  BY <1>19, ReturnEffect, EmptyType
     DEF ReadActive, Goto, LocalOK, StoreOK, Others, Over, Named, Pcs, Ops
<1>20. ASSUME ReadActiveFails(c)
      PROVE  LocalOK' /\ Others(c) /\ Named(c)'
  BY <1>20, ReturnEffect, EmptyType
     DEF ReadActiveFails, LocalOK, StoreOK, Others, Over, Named, Pcs, Ops
<1>21. ASSUME Refreshed(c)
      PROVE  LocalOK' /\ Others(c) /\ Named(c)'
  BY <1>21, ReturnEffect, EmptyType
     DEF Refreshed, LocalOK, StoreOK, Others, Over, Named, Pcs, Ops
<1>22. ASSUME NEW needsReauth \in BOOLEAN, RefreshFails(c, needsReauth)
      PROVE  LocalOK' /\ Others(c) /\ Named(c)'
  BY <1>22, ReturnEffect, EmptyType
     DEF RefreshFails, Goto, LocalOK, StoreOK, Others, Over, Named, Pcs, Ops
<1>23. ASSUME CheckCredential(c)
      PROVE  LocalOK' /\ Others(c) /\ Named(c)'
  BY <1>23, ReturnEffect, EmptyType
     DEF CheckCredential, Goto, LocalOK, StoreOK, Others, Over, Named, Pcs, Ops
<1>24. ASSUME StatusAnswered(c)
      PROVE  LocalOK' /\ Others(c) /\ Named(c)'
  BY <1>24, ReturnEffect, EmptyType
     DEF StatusAnswered, LocalOK, StoreOK, Others, Over, Named, Pcs, Ops
<1>25. ASSUME StatusPending(c)
      PROVE  LocalOK' /\ Others(c) /\ Named(c)'
  BY <1>25, ReturnEffect, EmptyType
     DEF StatusPending, LocalOK, StoreOK, Others, Over, Named, Pcs, Ops
<1> QED
  BY <1>1, <1>2, <1>3, <1>4, <1>5, <1>6, <1>7, <1>8, <1>9, <1>10, <1>11, <1>12, <1>13, <1>14, <1>15, <1>16, <1>17, <1>18, <1>19, <1>20, <1>21, <1>22, <1>23, <1>24, <1>25 DEF Step, Moves

\* A step keeps the types of what is shared.
LEMMA StepShared ==
  ASSUME Typed, NEW c \in Callers, Named(c), Moves(c)
  PROVE  StoreOK' /\ TokenOK' /\ faults' \in 0..MaxFaults
<1> USE DEF Typed
<1>1. ASSUME NEW o \in Ops, NEW a \in Accounts \cup {NoAccount}, Call(c, o, a)
      PROVE  StoreOK' /\ TokenOK' /\ faults' \in 0..MaxFaults
  BY <1>1, FirstStep, AccountsAssumption DEF Call, Fault, StoreOK, TokenOK, LocalOK, Named, store
<1>2. ASSUME NEW kind \in Kinds, NEW a \in Accounts, Redirect(c, kind, a)
      PROVE  StoreOK' /\ TokenOK' /\ faults' \in 0..MaxFaults
  BY <1>2, AccountsAssumption DEF Redirect, Fault, StoreOK, TokenOK, LocalOK, Named, store
<1>3. ASSUME StoreSecret(c)
      PROVE  StoreOK' /\ TokenOK' /\ faults' \in 0..MaxFaults
  BY <1>3, AccountsAssumption DEF StoreSecret, Fault, StoreOK, TokenOK, LocalOK, Named, store
<1>4. ASSUME StoreSecretFails(c)
      PROVE  StoreOK' /\ TokenOK' /\ faults' \in 0..MaxFaults
  BY <1>4, AccountsAssumption DEF StoreSecretFails, Fault, StoreOK, TokenOK, LocalOK, Named, store
<1>5. ASSUME Load(c)
      PROVE  StoreOK' /\ TokenOK' /\ faults' \in 0..MaxFaults
  BY <1>5, AccountsAssumption DEF Load, Fault, StoreOK, TokenOK, LocalOK, Named, store, Loads
<1>6. ASSUME LoadFails(c)
      PROVE  StoreOK' /\ TokenOK' /\ faults' \in 0..MaxFaults
  BY <1>6, AccountsAssumption DEF LoadFails, Fault, StoreOK, TokenOK, LocalOK, Named, store, Loads
<1>7. ASSUME Save(c)
      PROVE  StoreOK' /\ TokenOK' /\ faults' \in 0..MaxFaults
  <2>1. Rewritten(c) \in Indexes
    BY <1>7 DEF Save, Named, Rewritten, index_upsert, index_remove, index_set_active, LocalOK, Indexes
  <2>2. Rewritten(c).accounts \subseteq Accounts /\ Dropped(Rewritten(c)) \subseteq Accounts
    BY <2>1 DEF Dropped, Indexes, StoreOK
  <2> QED
    BY <1>7, <2>1, <2>2 DEF Save, StoreOK, TokenOK
<1>8. ASSUME SaveFails(c)
      PROVE  StoreOK' /\ TokenOK' /\ faults' \in 0..MaxFaults
  BY <1>8, AccountsAssumption DEF SaveFails, Fault, StoreOK, TokenOK, LocalOK, Named, store
<1>9. ASSUME Invalidate(c)
      PROVE  StoreOK' /\ TokenOK' /\ faults' \in 0..MaxFaults
  BY <1>9, TokenType DEF Invalidate, StoreOK, TokenOK, store
<1>10. ASSUME Revoke(c)
      PROVE  StoreOK' /\ TokenOK' /\ faults' \in 0..MaxFaults
  BY <1>10, AccountsAssumption DEF Revoke, Fault, StoreOK, TokenOK, LocalOK, Named, store
<1>11. ASSUME DeleteSecret(c)
      PROVE  StoreOK' /\ TokenOK' /\ faults' \in 0..MaxFaults
  BY <1>11, AccountsAssumption DEF DeleteSecret, Fault, StoreOK, TokenOK, LocalOK, Named, store
<1>12. ASSUME DeleteSecretFails(c)
      PROVE  StoreOK' /\ TokenOK' /\ faults' \in 0..MaxFaults
  BY <1>12, AccountsAssumption DEF DeleteSecretFails, Fault, StoreOK, TokenOK, LocalOK, Named, store
<1>13. ASSUME Prune(c)
      PROVE  StoreOK' /\ TokenOK' /\ faults' \in 0..MaxFaults
  <2>1. CASE UNCHANGED <<index, vanished, strayed>>
    BY <1>13, <2>1, PruneEffect DEF StoreOK, TokenOK
  <2>2. ASSUME NEW kept \in SUBSET snap[c].accounts, Cut(c, kept)
        PROVE  StoreOK'
    BY <1>13, <2>2, PruneEffect DEF Cut, Pruned, Dropped, StoreOK, LocalOK, Indexes
  <2> QED
    BY <1>13, <2>1, <2>2, PruneEffect DEF TokenOK
<1>14. ASSUME NEW answered \in SUBSET Accounts, PruneFails(c, answered)
      PROVE  StoreOK' /\ TokenOK' /\ faults' \in 0..MaxFaults
  <2>1. CASE UNCHANGED <<index, vanished, strayed>>
    BY <1>14, <2>1, PruneEffect DEF StoreOK, TokenOK
  <2>2. ASSUME NEW kept \in SUBSET snap[c].accounts, Cut(c, kept)
        PROVE  StoreOK'
    BY <1>14, <2>2, PruneEffect DEF Cut, Pruned, Dropped, StoreOK, LocalOK, Indexes
  <2> QED
    BY <1>14, <2>1, <2>2, PruneEffect DEF TokenOK
<1>15. ASSUME NEW e \in Engines, StorePref(c, e)
      PROVE  StoreOK' /\ TokenOK' /\ faults' \in 0..MaxFaults
  BY <1>15 DEF StorePref, StoreOK, TokenOK, store
<1>16. ASSUME StorePrefFails(c)
      PROVE  StoreOK' /\ TokenOK' /\ faults' \in 0..MaxFaults
  BY <1>16, AccountsAssumption DEF StorePrefFails, Fault, StoreOK, TokenOK, LocalOK, Named, store
<1>17. ASSUME FetchHit(c)
      PROVE  StoreOK' /\ TokenOK' /\ faults' \in 0..MaxFaults
  BY <1>17, AccountsAssumption DEF FetchHit, Fault, StoreOK, TokenOK, LocalOK, Named, store
<1>18. ASSUME FetchMiss(c)
      PROVE  StoreOK' /\ TokenOK' /\ faults' \in 0..MaxFaults
  BY <1>18, AccountsAssumption DEF FetchMiss, Fault, StoreOK, TokenOK, LocalOK, Named, store
<1>19. ASSUME ReadActive(c)
      PROVE  StoreOK' /\ TokenOK' /\ faults' \in 0..MaxFaults
  BY <1>19, AccountsAssumption DEF ReadActive, Fault, StoreOK, TokenOK, LocalOK, Named, store, Release
<1>20. ASSUME ReadActiveFails(c)
      PROVE  StoreOK' /\ TokenOK' /\ faults' \in 0..MaxFaults
  BY <1>20, AccountsAssumption DEF ReadActiveFails, Fault, StoreOK, TokenOK, LocalOK, Named, store, Release
<1>21. ASSUME Refreshed(c)
      PROVE  StoreOK' /\ TokenOK' /\ faults' \in 0..MaxFaults
  <2>1. cache' \in Tokens
    BY <1>21, TokenType DEF Refreshed, Named, TokenOK, LocalOK, Engines
  <2> QED
    BY <1>21, <2>1 DEF Refreshed, Release, StoreOK, TokenOK, store
<1>22. ASSUME NEW needsReauth \in BOOLEAN, RefreshFails(c, needsReauth)
      PROVE  StoreOK' /\ TokenOK' /\ faults' \in 0..MaxFaults
  BY <1>22, AccountsAssumption DEF RefreshFails, Fault, StoreOK, TokenOK, LocalOK, Named, store, Release
<1>23. ASSUME CheckCredential(c)
      PROVE  StoreOK' /\ TokenOK' /\ faults' \in 0..MaxFaults
  BY <1>23, AccountsAssumption DEF CheckCredential, Fault, StoreOK, TokenOK, LocalOK, Named, store
<1>24. ASSUME StatusAnswered(c)
      PROVE  StoreOK' /\ TokenOK' /\ faults' \in 0..MaxFaults
  BY <1>24, AccountsAssumption DEF StatusAnswered, Fault, StoreOK, TokenOK, LocalOK, Named, store
<1>25. ASSUME StatusPending(c)
      PROVE  StoreOK' /\ TokenOK' /\ faults' \in 0..MaxFaults
  BY <1>25, AccountsAssumption DEF StatusPending, Fault, StoreOK, TokenOK, LocalOK, Named, store
<1> QED
  BY <1>1, <1>2, <1>3, <1>4, <1>5, <1>6, <1>7, <1>8, <1>9, <1>10, <1>11, <1>12, <1>13, <1>14, <1>15, <1>16, <1>17, <1>18, <1>19, <1>20, <1>21, <1>22, <1>23, <1>24, <1>25 DEF Step, Moves

\* Whoever is in the store stays alone there: it was entered when nobody was.
LEMMA StepSectioned ==
  ASSUME Typed, Sectioned, NEW c \in Callers, Others(c),
         pc'[c] \in Section => pc[c] \in Section \/ MayEnter(c)
  PROVE  Sectioned'
  BY DEF Typed, LocalOK, Others, Sectioned, MayEnter

\* A step that enters the store waits until it may.
LEMMA StepEnters ==
  ASSUME Typed, NEW c \in Callers, Named(c), Moves(c)
  PROVE  pc'[c] \in Section => pc[c] \in Section \/ MayEnter(c)
<1>1. ASSUME NEW o \in Ops, NEW a \in Accounts \cup {NoAccount}, Call(c, o, a)
      PROVE  pc'[c] \in Section => pc[c] \in Section \/ MayEnter(c)
  BY <1>1, FirstStep, ReturnEffect DEF Call, Enter, Goto, TokenOK, Typed, LocalOK, Over, Section, Pcs
<1>2. ASSUME NEW kind \in Kinds, NEW a \in Accounts, Redirect(c, kind, a)
      PROVE  pc'[c] \in Section => pc[c] \in Section \/ MayEnter(c)
  BY <1>2, ReturnEffect DEF Redirect, Enter, Goto, Typed, LocalOK, Over, Section, Pcs
<1>3. ASSUME StoreSecret(c)
      PROVE  pc'[c] \in Section => pc[c] \in Section \/ MayEnter(c)
  BY <1>3, ReturnEffect DEF StoreSecret, Goto, Typed, LocalOK, Over, Section, Pcs
<1>4. ASSUME StoreSecretFails(c)
      PROVE  pc'[c] \in Section => pc[c] \in Section \/ MayEnter(c)
  BY <1>4, ReturnEffect DEF StoreSecretFails, Typed, LocalOK, Over, Section, Pcs
<1>5. ASSUME Load(c)
      PROVE  pc'[c] \in Section => pc[c] \in Section \/ MayEnter(c)
  BY <1>5, ReturnEffect DEF Load, Loads, Goto, Typed, LocalOK, Over, Section, Pcs
<1>6. ASSUME LoadFails(c)
      PROVE  pc'[c] \in Section => pc[c] \in Section \/ MayEnter(c)
  BY <1>6, ReturnEffect DEF LoadFails, Loads, Goto, Typed, LocalOK, Over, Section, Pcs
<1>7. ASSUME Save(c)
      PROVE  pc'[c] \in Section => pc[c] \in Section \/ MayEnter(c)
  BY <1>7, ReturnEffect DEF Save, Goto, Typed, LocalOK, Over, Section, Pcs
<1>8. ASSUME SaveFails(c)
      PROVE  pc'[c] \in Section => pc[c] \in Section \/ MayEnter(c)
  BY <1>8, ReturnEffect DEF SaveFails, Typed, LocalOK, Over, Section, Pcs
<1>9. ASSUME Invalidate(c)
      PROVE  pc'[c] \in Section => pc[c] \in Section \/ MayEnter(c)
  BY <1>9, ReturnEffect DEF Invalidate, Onwards, Goto, Typed, LocalOK, Over, Section, Pcs
<1>10. ASSUME Revoke(c)
      PROVE  pc'[c] \in Section => pc[c] \in Section \/ MayEnter(c)
  BY <1>10, ReturnEffect DEF Revoke, Enter, Goto, Typed, LocalOK, Over, Section, Pcs
<1>11. ASSUME DeleteSecret(c)
      PROVE  pc'[c] \in Section => pc[c] \in Section \/ MayEnter(c)
  BY <1>11, ReturnEffect DEF DeleteSecret, Goto, Typed, LocalOK, Over, Section, Pcs
<1>12. ASSUME DeleteSecretFails(c)
      PROVE  pc'[c] \in Section => pc[c] \in Section \/ MayEnter(c)
  BY <1>12, ReturnEffect DEF DeleteSecretFails, Typed, LocalOK, Over, Section, Pcs
<1>13. ASSUME Prune(c)
      PROVE  pc'[c] \in Section => pc[c] \in Section \/ MayEnter(c)
  BY <1>13, PruneEffect DEF Section
<1>14. ASSUME NEW answered \in SUBSET Accounts, PruneFails(c, answered)
      PROVE  pc'[c] \in Section => pc[c] \in Section \/ MayEnter(c)
  BY <1>14, PruneEffect DEF Section
<1>15. ASSUME NEW e \in Engines, StorePref(c, e)
      PROVE  pc'[c] \in Section => pc[c] \in Section \/ MayEnter(c)
  BY <1>15, ReturnEffect DEF StorePref, Goto, Typed, LocalOK, Over, Section, Pcs
<1>16. ASSUME StorePrefFails(c)
      PROVE  pc'[c] \in Section => pc[c] \in Section \/ MayEnter(c)
  BY <1>16, ReturnEffect DEF StorePrefFails, Typed, LocalOK, Over, Section, Pcs
<1>17. ASSUME FetchHit(c)
      PROVE  pc'[c] \in Section => pc[c] \in Section \/ MayEnter(c)
  BY <1>17, ReturnEffect DEF FetchHit, Typed, LocalOK, Over, Section, Pcs
<1>18. ASSUME FetchMiss(c)
      PROVE  pc'[c] \in Section => pc[c] \in Section \/ MayEnter(c)
  BY <1>18, ReturnEffect DEF FetchMiss, Goto, Typed, LocalOK, Over, Section, Pcs
<1>19. ASSUME ReadActive(c)
      PROVE  pc'[c] \in Section => pc[c] \in Section \/ MayEnter(c)
  BY <1>19, ReturnEffect DEF ReadActive, Goto, Typed, LocalOK, Over, Section, Pcs
<1>20. ASSUME ReadActiveFails(c)
      PROVE  pc'[c] \in Section => pc[c] \in Section \/ MayEnter(c)
  BY <1>20, ReturnEffect DEF ReadActiveFails, Typed, LocalOK, Over, Section, Pcs
<1>21. ASSUME Refreshed(c)
      PROVE  pc'[c] \in Section => pc[c] \in Section \/ MayEnter(c)
  BY <1>21, ReturnEffect DEF Refreshed, Typed, LocalOK, Over, Section, Pcs
<1>22. ASSUME NEW needsReauth \in BOOLEAN, RefreshFails(c, needsReauth)
      PROVE  pc'[c] \in Section => pc[c] \in Section \/ MayEnter(c)
  BY <1>22, ReturnEffect DEF RefreshFails, Goto, Typed, LocalOK, Over, Section, Pcs
<1>23. ASSUME CheckCredential(c)
      PROVE  pc'[c] \in Section => pc[c] \in Section \/ MayEnter(c)
  BY <1>23, ReturnEffect DEF CheckCredential, Goto, Typed, LocalOK, Over, Section, Pcs
<1>24. ASSUME StatusAnswered(c)
      PROVE  pc'[c] \in Section => pc[c] \in Section \/ MayEnter(c)
  BY <1>24, ReturnEffect DEF StatusAnswered, Typed, LocalOK, Over, Section, Pcs
<1>25. ASSUME StatusPending(c)
      PROVE  pc'[c] \in Section => pc[c] \in Section \/ MayEnter(c)
  BY <1>25, ReturnEffect DEF StatusPending, Typed, LocalOK, Over, Section, Pcs
<1> QED
  BY <1>1, <1>2, <1>3, <1>4, <1>5, <1>6, <1>7, <1>8, <1>9, <1>10, <1>11, <1>12, <1>13, <1>14, <1>15, <1>16, <1>17, <1>18, <1>19, <1>20, <1>21, <1>22, <1>23, <1>24, <1>25 DEF Step, Moves

\* Only a call that is in the store changes the index, and what it is about to
\* write comes from the index or from nothing.
LEMMA StepSnapped ==
  ASSUME Typed, Sectioned, NEW c \in Callers, Others(c), \A d \in Callers : Snapped(d),
         UNCHANGED index \/ pc[c] \in Section,
         pc'[c] \in {"save", "prune"} => snap'[c] \in {index', EmptyIndex}
  PROVE  \A d \in Callers : Snapped(d)'
  BY DEF Sectioned, Section, Others, Snapped

\* That is what every step does.
LEMMA StepSnaps ==
  ASSUME Typed, NEW c \in Callers, Named(c), Moves(c)
  PROVE  /\ UNCHANGED index \/ pc[c] \in Section
         /\ pc'[c] \in {"save", "prune"} => snap'[c] \in {index', EmptyIndex}
<1>1. ASSUME NEW o \in Ops, NEW a \in Accounts \cup {NoAccount}, Call(c, o, a)
      PROVE  /\ UNCHANGED index \/ pc[c] \in Section
             /\ pc'[c] \in {"save", "prune"} => snap'[c] \in {index', EmptyIndex}
  BY <1>1, ReturnEffect, FirstStep DEF Call, Enter, Goto, Typed, LocalOK, Over, Section, store
<1>2. ASSUME NEW kind \in Kinds, NEW a \in Accounts, Redirect(c, kind, a)
      PROVE  /\ UNCHANGED index \/ pc[c] \in Section
             /\ pc'[c] \in {"save", "prune"} => snap'[c] \in {index', EmptyIndex}
  BY <1>2, ReturnEffect DEF Redirect, Enter, Goto, Typed, LocalOK, Over, Section, store
<1>3. ASSUME StoreSecret(c)
      PROVE  /\ UNCHANGED index \/ pc[c] \in Section
             /\ pc'[c] \in {"save", "prune"} => snap'[c] \in {index', EmptyIndex}
  BY <1>3, ReturnEffect DEF StoreSecret, Goto, Typed, LocalOK, Over, Section, store
<1>4. ASSUME StoreSecretFails(c)
      PROVE  /\ UNCHANGED index \/ pc[c] \in Section
             /\ pc'[c] \in {"save", "prune"} => snap'[c] \in {index', EmptyIndex}
  BY <1>4, ReturnEffect DEF StoreSecretFails, Typed, LocalOK, Over, Section, store
<1>5. ASSUME Load(c)
      PROVE  /\ UNCHANGED index \/ pc[c] \in Section
             /\ pc'[c] \in {"save", "prune"} => snap'[c] \in {index', EmptyIndex}
  BY <1>5, ReturnEffect DEF Load, Loads, Goto, Typed, LocalOK, Over, Section, store
<1>6. ASSUME LoadFails(c)
      PROVE  /\ UNCHANGED index \/ pc[c] \in Section
             /\ pc'[c] \in {"save", "prune"} => snap'[c] \in {index', EmptyIndex}
  BY <1>6, ReturnEffect DEF LoadFails, Loads, Goto, Typed, LocalOK, Over, Section, store
<1>7. ASSUME Save(c)
      PROVE  /\ UNCHANGED index \/ pc[c] \in Section
             /\ pc'[c] \in {"save", "prune"} => snap'[c] \in {index', EmptyIndex}
  BY <1>7, ReturnEffect DEF Save, Goto, Typed, LocalOK, Over, Section, store
<1>8. ASSUME SaveFails(c)
      PROVE  /\ UNCHANGED index \/ pc[c] \in Section
             /\ pc'[c] \in {"save", "prune"} => snap'[c] \in {index', EmptyIndex}
  BY <1>8, ReturnEffect DEF SaveFails, Typed, LocalOK, Over, Section, store
<1>9. ASSUME Invalidate(c)
      PROVE  /\ UNCHANGED index \/ pc[c] \in Section
             /\ pc'[c] \in {"save", "prune"} => snap'[c] \in {index', EmptyIndex}
  BY <1>9, ReturnEffect DEF Invalidate, Onwards, Goto, Typed, LocalOK, Over, Section, store
<1>10. ASSUME Revoke(c)
      PROVE  /\ UNCHANGED index \/ pc[c] \in Section
             /\ pc'[c] \in {"save", "prune"} => snap'[c] \in {index', EmptyIndex}
  BY <1>10, ReturnEffect DEF Revoke, Enter, Goto, Typed, LocalOK, Over, Section, store
<1>11. ASSUME DeleteSecret(c)
      PROVE  /\ UNCHANGED index \/ pc[c] \in Section
             /\ pc'[c] \in {"save", "prune"} => snap'[c] \in {index', EmptyIndex}
  BY <1>11, ReturnEffect DEF DeleteSecret, Goto, Typed, LocalOK, Over, Section, store
<1>12. ASSUME DeleteSecretFails(c)
      PROVE  /\ UNCHANGED index \/ pc[c] \in Section
             /\ pc'[c] \in {"save", "prune"} => snap'[c] \in {index', EmptyIndex}
  BY <1>12, ReturnEffect DEF DeleteSecretFails, Typed, LocalOK, Over, Section, store
<1>13. ASSUME Prune(c)
      PROVE  /\ UNCHANGED index \/ pc[c] \in Section
             /\ pc'[c] \in {"save", "prune"} => snap'[c] \in {index', EmptyIndex}
  BY <1>13, PruneEffect DEF Section
<1>14. ASSUME NEW answered \in SUBSET Accounts, PruneFails(c, answered)
      PROVE  /\ UNCHANGED index \/ pc[c] \in Section
             /\ pc'[c] \in {"save", "prune"} => snap'[c] \in {index', EmptyIndex}
  BY <1>14, PruneEffect DEF Section
<1>15. ASSUME NEW e \in Engines, StorePref(c, e)
      PROVE  /\ UNCHANGED index \/ pc[c] \in Section
             /\ pc'[c] \in {"save", "prune"} => snap'[c] \in {index', EmptyIndex}
  BY <1>15, ReturnEffect DEF StorePref, Goto, Typed, LocalOK, Over, Section, store
<1>16. ASSUME StorePrefFails(c)
      PROVE  /\ UNCHANGED index \/ pc[c] \in Section
             /\ pc'[c] \in {"save", "prune"} => snap'[c] \in {index', EmptyIndex}
  BY <1>16, ReturnEffect DEF StorePrefFails, Typed, LocalOK, Over, Section, store
<1>17. ASSUME FetchHit(c)
      PROVE  /\ UNCHANGED index \/ pc[c] \in Section
             /\ pc'[c] \in {"save", "prune"} => snap'[c] \in {index', EmptyIndex}
  BY <1>17, ReturnEffect DEF FetchHit, Typed, LocalOK, Over, Section, store
<1>18. ASSUME FetchMiss(c)
      PROVE  /\ UNCHANGED index \/ pc[c] \in Section
             /\ pc'[c] \in {"save", "prune"} => snap'[c] \in {index', EmptyIndex}
  BY <1>18, ReturnEffect DEF FetchMiss, Goto, Typed, LocalOK, Over, Section, store
<1>19. ASSUME ReadActive(c)
      PROVE  /\ UNCHANGED index \/ pc[c] \in Section
             /\ pc'[c] \in {"save", "prune"} => snap'[c] \in {index', EmptyIndex}
  BY <1>19, ReturnEffect DEF ReadActive, Goto, Typed, LocalOK, Over, Section, store
<1>20. ASSUME ReadActiveFails(c)
      PROVE  /\ UNCHANGED index \/ pc[c] \in Section
             /\ pc'[c] \in {"save", "prune"} => snap'[c] \in {index', EmptyIndex}
  BY <1>20, ReturnEffect DEF ReadActiveFails, Typed, LocalOK, Over, Section, store
<1>21. ASSUME Refreshed(c)
      PROVE  /\ UNCHANGED index \/ pc[c] \in Section
             /\ pc'[c] \in {"save", "prune"} => snap'[c] \in {index', EmptyIndex}
  BY <1>21, ReturnEffect DEF Refreshed, Typed, LocalOK, Over, Section, store
<1>22. ASSUME NEW needsReauth \in BOOLEAN, RefreshFails(c, needsReauth)
      PROVE  /\ UNCHANGED index \/ pc[c] \in Section
             /\ pc'[c] \in {"save", "prune"} => snap'[c] \in {index', EmptyIndex}
  BY <1>22, ReturnEffect DEF RefreshFails, Goto, Typed, LocalOK, Over, Section, store
<1>23. ASSUME CheckCredential(c)
      PROVE  /\ UNCHANGED index \/ pc[c] \in Section
             /\ pc'[c] \in {"save", "prune"} => snap'[c] \in {index', EmptyIndex}
  BY <1>23, ReturnEffect DEF CheckCredential, Goto, Typed, LocalOK, Over, Section, store
<1>24. ASSUME StatusAnswered(c)
      PROVE  /\ UNCHANGED index \/ pc[c] \in Section
             /\ pc'[c] \in {"save", "prune"} => snap'[c] \in {index', EmptyIndex}
  BY <1>24, ReturnEffect DEF StatusAnswered, Typed, LocalOK, Over, Section, store
<1>25. ASSUME StatusPending(c)
      PROVE  /\ UNCHANGED index \/ pc[c] \in Section
             /\ pc'[c] \in {"save", "prune"} => snap'[c] \in {index', EmptyIndex}
  BY <1>25, ReturnEffect DEF StatusPending, Typed, LocalOK, Over, Section, store
<1> QED
  BY <1>1, <1>2, <1>3, <1>4, <1>5, <1>6, <1>7, <1>8, <1>9, <1>10, <1>11, <1>12, <1>13, <1>14, <1>15, <1>16, <1>17, <1>18, <1>19, <1>20, <1>21, <1>22, <1>23, <1>24, <1>25 DEF Step, Moves

\* The mutex is taken by a fetch, and given back by the call that holds it.
LEMMA StepHolds ==
  ASSUME Typed, NEW c \in Callers, Named(c), Named(c)', HolderFetches, Moves(c)
  PROVE  /\ lock' = c <=> op'[c] = "fetch" /\ pc'[c] \in {"active", "refresh"}
         /\ \A d \in Callers \ {c} : lock' = d <=> lock = d
<1> USE DEF Typed
<1>1. ASSUME NEW o \in Ops, NEW a \in Accounts \cup {NoAccount}, Call(c, o, a)
      PROVE  /\ lock' = c <=> op'[c] = "fetch" /\ pc'[c] \in {"active", "refresh"}
             /\ \A d \in Callers \ {c} : lock' = d <=> lock = d
  BY <1>1, ReturnEffect, AccountsAssumption, FirstStep DEF Call, Enter, Goto, LocalOK, TokenOK, Over, HolderFetches, Named
<1>2. ASSUME NEW kind \in Kinds, NEW a \in Accounts, Redirect(c, kind, a)
      PROVE  /\ lock' = c <=> op'[c] = "fetch" /\ pc'[c] \in {"active", "refresh"}
             /\ \A d \in Callers \ {c} : lock' = d <=> lock = d
  BY <1>2, ReturnEffect, AccountsAssumption DEF Redirect, Enter, Goto, LocalOK, TokenOK, Over, HolderFetches, Named
<1>3. ASSUME StoreSecret(c)
      PROVE  /\ lock' = c <=> op'[c] = "fetch" /\ pc'[c] \in {"active", "refresh"}
             /\ \A d \in Callers \ {c} : lock' = d <=> lock = d
  BY <1>3, ReturnEffect, AccountsAssumption DEF StoreSecret, Goto, LocalOK, TokenOK, Over, HolderFetches, Named
<1>4. ASSUME StoreSecretFails(c)
      PROVE  /\ lock' = c <=> op'[c] = "fetch" /\ pc'[c] \in {"active", "refresh"}
             /\ \A d \in Callers \ {c} : lock' = d <=> lock = d
  BY <1>4, ReturnEffect, AccountsAssumption DEF StoreSecretFails, LocalOK, TokenOK, Over, HolderFetches, Named
<1>5. ASSUME Load(c)
      PROVE  /\ lock' = c <=> op'[c] = "fetch" /\ pc'[c] \in {"active", "refresh"}
             /\ \A d \in Callers \ {c} : lock' = d <=> lock = d
  BY <1>5, ReturnEffect, AccountsAssumption DEF Load, Loads, Goto, LocalOK, TokenOK, Over, HolderFetches, Named
<1>6. ASSUME LoadFails(c)
      PROVE  /\ lock' = c <=> op'[c] = "fetch" /\ pc'[c] \in {"active", "refresh"}
             /\ \A d \in Callers \ {c} : lock' = d <=> lock = d
  BY <1>6, ReturnEffect, AccountsAssumption DEF LoadFails, Loads, Goto, LocalOK, TokenOK, Over, HolderFetches, Named
<1>7. ASSUME Save(c)
      PROVE  /\ lock' = c <=> op'[c] = "fetch" /\ pc'[c] \in {"active", "refresh"}
             /\ \A d \in Callers \ {c} : lock' = d <=> lock = d
  BY <1>7, ReturnEffect, AccountsAssumption DEF Save, Goto, LocalOK, TokenOK, Over, HolderFetches, Named
<1>8. ASSUME SaveFails(c)
      PROVE  /\ lock' = c <=> op'[c] = "fetch" /\ pc'[c] \in {"active", "refresh"}
             /\ \A d \in Callers \ {c} : lock' = d <=> lock = d
  BY <1>8, ReturnEffect, AccountsAssumption DEF SaveFails, LocalOK, TokenOK, Over, HolderFetches, Named
<1>9. ASSUME Invalidate(c)
      PROVE  /\ lock' = c <=> op'[c] = "fetch" /\ pc'[c] \in {"active", "refresh"}
             /\ \A d \in Callers \ {c} : lock' = d <=> lock = d
  BY <1>9, ReturnEffect, AccountsAssumption DEF Invalidate, Onwards, Goto, LocalOK, TokenOK, Over, HolderFetches, Named
<1>10. ASSUME Revoke(c)
      PROVE  /\ lock' = c <=> op'[c] = "fetch" /\ pc'[c] \in {"active", "refresh"}
             /\ \A d \in Callers \ {c} : lock' = d <=> lock = d
  BY <1>10, ReturnEffect, AccountsAssumption DEF Revoke, Enter, Goto, LocalOK, TokenOK, Over, HolderFetches, Named
<1>11. ASSUME DeleteSecret(c)
      PROVE  /\ lock' = c <=> op'[c] = "fetch" /\ pc'[c] \in {"active", "refresh"}
             /\ \A d \in Callers \ {c} : lock' = d <=> lock = d
  BY <1>11, ReturnEffect, AccountsAssumption DEF DeleteSecret, Goto, LocalOK, TokenOK, Over, HolderFetches, Named
<1>12. ASSUME DeleteSecretFails(c)
      PROVE  /\ lock' = c <=> op'[c] = "fetch" /\ pc'[c] \in {"active", "refresh"}
             /\ \A d \in Callers \ {c} : lock' = d <=> lock = d
  BY <1>12, ReturnEffect, AccountsAssumption DEF DeleteSecretFails, LocalOK, TokenOK, Over, HolderFetches, Named
<1>13. ASSUME Prune(c)
      PROVE  /\ lock' = c <=> op'[c] = "fetch" /\ pc'[c] \in {"active", "refresh"}
             /\ \A d \in Callers \ {c} : lock' = d <=> lock = d
  BY <1>13, PruneEffect DEF HolderFetches, Named
<1>14. ASSUME NEW answered \in SUBSET Accounts, PruneFails(c, answered)
      PROVE  /\ lock' = c <=> op'[c] = "fetch" /\ pc'[c] \in {"active", "refresh"}
             /\ \A d \in Callers \ {c} : lock' = d <=> lock = d
  BY <1>14, PruneEffect DEF HolderFetches, Named
<1>15. ASSUME NEW e \in Engines, StorePref(c, e)
      PROVE  /\ lock' = c <=> op'[c] = "fetch" /\ pc'[c] \in {"active", "refresh"}
             /\ \A d \in Callers \ {c} : lock' = d <=> lock = d
  BY <1>15, ReturnEffect, AccountsAssumption DEF StorePref, Goto, LocalOK, TokenOK, Over, HolderFetches, Named
<1>16. ASSUME StorePrefFails(c)
      PROVE  /\ lock' = c <=> op'[c] = "fetch" /\ pc'[c] \in {"active", "refresh"}
             /\ \A d \in Callers \ {c} : lock' = d <=> lock = d
  BY <1>16, ReturnEffect, AccountsAssumption DEF StorePrefFails, LocalOK, TokenOK, Over, HolderFetches, Named
<1>17. ASSUME FetchHit(c)
      PROVE  /\ lock' = c <=> op'[c] = "fetch" /\ pc'[c] \in {"active", "refresh"}
             /\ \A d \in Callers \ {c} : lock' = d <=> lock = d
  BY <1>17, ReturnEffect, AccountsAssumption DEF FetchHit, LocalOK, TokenOK, Over, HolderFetches, Named
<1>18. ASSUME FetchMiss(c)
      PROVE  /\ lock' = c <=> op'[c] = "fetch" /\ pc'[c] \in {"active", "refresh"}
             /\ \A d \in Callers \ {c} : lock' = d <=> lock = d
  BY <1>18, ReturnEffect, AccountsAssumption DEF FetchMiss, Goto, LocalOK, TokenOK, Over, HolderFetches, Named
<1>19. ASSUME ReadActive(c)
      PROVE  /\ lock' = c <=> op'[c] = "fetch" /\ pc'[c] \in {"active", "refresh"}
             /\ \A d \in Callers \ {c} : lock' = d <=> lock = d
  BY <1>19, ReturnEffect, AccountsAssumption DEF ReadActive, Goto, LocalOK, TokenOK, Over, HolderFetches, Named, Release
<1>20. ASSUME ReadActiveFails(c)
      PROVE  /\ lock' = c <=> op'[c] = "fetch" /\ pc'[c] \in {"active", "refresh"}
             /\ \A d \in Callers \ {c} : lock' = d <=> lock = d
  BY <1>20, ReturnEffect, AccountsAssumption DEF ReadActiveFails, LocalOK, TokenOK, Over, HolderFetches, Named, Release
<1>21. ASSUME Refreshed(c)
      PROVE  /\ lock' = c <=> op'[c] = "fetch" /\ pc'[c] \in {"active", "refresh"}
             /\ \A d \in Callers \ {c} : lock' = d <=> lock = d
  BY <1>21, ReturnEffect, AccountsAssumption DEF Refreshed, LocalOK, TokenOK, Over, HolderFetches, Named, Release
<1>22. ASSUME NEW needsReauth \in BOOLEAN, RefreshFails(c, needsReauth)
      PROVE  /\ lock' = c <=> op'[c] = "fetch" /\ pc'[c] \in {"active", "refresh"}
             /\ \A d \in Callers \ {c} : lock' = d <=> lock = d
  BY <1>22, ReturnEffect, AccountsAssumption DEF RefreshFails, Goto, LocalOK, TokenOK, Over, HolderFetches, Named, Release
<1>23. ASSUME CheckCredential(c)
      PROVE  /\ lock' = c <=> op'[c] = "fetch" /\ pc'[c] \in {"active", "refresh"}
             /\ \A d \in Callers \ {c} : lock' = d <=> lock = d
  BY <1>23, ReturnEffect, AccountsAssumption DEF CheckCredential, Goto, LocalOK, TokenOK, Over, HolderFetches, Named
<1>24. ASSUME StatusAnswered(c)
      PROVE  /\ lock' = c <=> op'[c] = "fetch" /\ pc'[c] \in {"active", "refresh"}
             /\ \A d \in Callers \ {c} : lock' = d <=> lock = d
  BY <1>24, ReturnEffect, AccountsAssumption DEF StatusAnswered, LocalOK, TokenOK, Over, HolderFetches, Named
<1>25. ASSUME StatusPending(c)
      PROVE  /\ lock' = c <=> op'[c] = "fetch" /\ pc'[c] \in {"active", "refresh"}
             /\ \A d \in Callers \ {c} : lock' = d <=> lock = d
  BY <1>25, ReturnEffect, AccountsAssumption DEF StatusPending, LocalOK, TokenOK, Over, HolderFetches, Named
<1> QED
  BY <1>1, <1>2, <1>3, <1>4, <1>5, <1>6, <1>7, <1>8, <1>9, <1>10, <1>11, <1>12, <1>13, <1>14, <1>15, <1>16, <1>17, <1>18, <1>19, <1>20, <1>21, <1>22, <1>23, <1>24, <1>25 DEF Step, Moves

\* A rewritten index lists the account it makes active.
LEMMA StepListed ==
  ASSUME Typed, ActiveIsListed, NEW c \in Callers, Named(c), Snapped(c), Moves(c)
  PROVE  ActiveIsListed'
<1>1. ASSUME NEW o \in Ops, NEW a \in Accounts \cup {NoAccount}, Call(c, o, a)
      PROVE  ActiveIsListed'
  BY <1>1 DEF Call, store, ActiveIsListed
<1>2. ASSUME NEW kind \in Kinds, NEW a \in Accounts, Redirect(c, kind, a)
      PROVE  ActiveIsListed'
  BY <1>2 DEF Redirect, store, ActiveIsListed
<1>3. ASSUME StoreSecret(c)
      PROVE  ActiveIsListed'
  BY <1>3 DEF StoreSecret, store, ActiveIsListed
<1>4. ASSUME StoreSecretFails(c)
      PROVE  ActiveIsListed'
  BY <1>4 DEF StoreSecretFails, store, ActiveIsListed
<1>5. ASSUME Load(c)
      PROVE  ActiveIsListed'
  BY <1>5 DEF Load, Loads, store, ActiveIsListed
<1>6. ASSUME LoadFails(c)
      PROVE  ActiveIsListed'
  BY <1>6 DEF LoadFails, Loads, store, ActiveIsListed
<1>7. ASSUME Save(c)
      PROVE  ActiveIsListed'
  <2>1. snap[c] \in {index, EmptyIndex}
    BY <1>7 DEF Save, Snapped
  <2>2. snap[c].active \in snap[c].accounts \cup {NoAccount}
    BY <2>1 DEF ActiveIsListed, EmptyIndex
  <2>3. index' = Rewritten(c) /\ pc[c] = "save"
    BY <1>7 DEF Save
  <2> QED
    BY <2>2, <2>3 DEF Rewritten, index_upsert, index_remove, index_set_active, Named, ActiveIsListed
<1>8. ASSUME SaveFails(c)
      PROVE  ActiveIsListed'
  BY <1>8 DEF SaveFails, store, ActiveIsListed
<1>9. ASSUME Invalidate(c)
      PROVE  ActiveIsListed'
  BY <1>9 DEF Invalidate, store, ActiveIsListed
<1>10. ASSUME Revoke(c)
      PROVE  ActiveIsListed'
  BY <1>10 DEF Revoke, store, ActiveIsListed
<1>11. ASSUME DeleteSecret(c)
      PROVE  ActiveIsListed'
  BY <1>11 DEF DeleteSecret, store, ActiveIsListed
<1>12. ASSUME DeleteSecretFails(c)
      PROVE  ActiveIsListed'
  BY <1>12 DEF DeleteSecretFails, store, ActiveIsListed
<1>13. ASSUME Prune(c)
      PROVE  ActiveIsListed'
  <2>1. CASE UNCHANGED <<index, vanished, strayed>>
    BY <2>1 DEF ActiveIsListed
  <2>2. ASSUME NEW kept \in SUBSET snap[c].accounts, Cut(c, kept)
        PROVE  ActiveIsListed'
    BY <2>2 DEF Cut, Pruned, ActiveIsListed
  <2> QED
    BY <1>13, <2>1, <2>2, PruneEffect
<1>14. ASSUME NEW answered \in SUBSET Accounts, PruneFails(c, answered)
      PROVE  ActiveIsListed'
  <2>1. CASE UNCHANGED <<index, vanished, strayed>>
    BY <2>1 DEF ActiveIsListed
  <2>2. ASSUME NEW kept \in SUBSET snap[c].accounts, Cut(c, kept)
        PROVE  ActiveIsListed'
    BY <2>2 DEF Cut, Pruned, ActiveIsListed
  <2> QED
    BY <1>14, <2>1, <2>2, PruneEffect
<1>15. ASSUME NEW e \in Engines, StorePref(c, e)
      PROVE  ActiveIsListed'
  BY <1>15 DEF StorePref, store, ActiveIsListed
<1>16. ASSUME StorePrefFails(c)
      PROVE  ActiveIsListed'
  BY <1>16 DEF StorePrefFails, store, ActiveIsListed
<1>17. ASSUME FetchHit(c)
      PROVE  ActiveIsListed'
  BY <1>17 DEF FetchHit, store, ActiveIsListed
<1>18. ASSUME FetchMiss(c)
      PROVE  ActiveIsListed'
  BY <1>18 DEF FetchMiss, store, ActiveIsListed
<1>19. ASSUME ReadActive(c)
      PROVE  ActiveIsListed'
  BY <1>19 DEF ReadActive, store, ActiveIsListed
<1>20. ASSUME ReadActiveFails(c)
      PROVE  ActiveIsListed'
  BY <1>20 DEF ReadActiveFails, store, ActiveIsListed
<1>21. ASSUME Refreshed(c)
      PROVE  ActiveIsListed'
  BY <1>21 DEF Refreshed, store, ActiveIsListed
<1>22. ASSUME NEW needsReauth \in BOOLEAN, RefreshFails(c, needsReauth)
      PROVE  ActiveIsListed'
  BY <1>22 DEF RefreshFails, store, ActiveIsListed
<1>23. ASSUME CheckCredential(c)
      PROVE  ActiveIsListed'
  BY <1>23 DEF CheckCredential, store, ActiveIsListed
<1>24. ASSUME StatusAnswered(c)
      PROVE  ActiveIsListed'
  BY <1>24 DEF StatusAnswered, store, ActiveIsListed
<1>25. ASSUME StatusPending(c)
      PROVE  ActiveIsListed'
  BY <1>25 DEF StatusPending, store, ActiveIsListed
<1> QED
  BY <1>1, <1>2, <1>3, <1>4, <1>5, <1>6, <1>7, <1>8, <1>9, <1>10, <1>11, <1>12, <1>13, <1>14, <1>15, <1>16, <1>17, <1>18, <1>19, <1>20, <1>21, <1>22, <1>23, <1>24, <1>25 DEF Step, Moves

\* A sign-in between its two writes goes on, unless the step is one of those
\* that change the keyring or the index.
LEMMA PlainUnlisted ==
  ASSUME NothingUnlisted, NEW c \in Callers, Others(c), UNCHANGED <<keyring, index, strayed>>,
         pc[c] \in {"load", "save"} /\ op[c] = "signin" =>
            op'[c] = "signin" /\ who'[c] = who[c] /\ pc'[c] \in {"load", "save"}
  PROVE  NothingUnlisted'
<1>1. ASSUME NEW a, Listing(a) PROVE Listing(a)'
  BY <1>1 DEF Listing, Others
<1> QED
  BY <1>1 DEF NothingUnlisted

\* What a call that is in the store and no sign-in leaves unlisted is strayed.
LEMMA AloneUnlisted ==
  ASSUME NothingUnlisted, Sectioned, NEW c \in Callers, pc[c] \in Section,
         NEW a \in keyring \ index.accounts
  PROVE  a \in strayed \/ (op[c] = "signin" /\ who[c] = a /\ pc[c] \in {"load", "save"})
  BY DEF NothingUnlisted, Sectioned, Section, Listing

\* No step leaves a secret that nothing accounts for.
LEMMA StepUnlisted ==
  ASSUME Typed, Sectioned, NothingUnlisted, NEW c \in Callers, Named(c), Snapped(c),
         Others(c), Moves(c)
  PROVE  NothingUnlisted'
<1>1. ASSUME NEW o \in Ops, NEW a \in Accounts \cup {NoAccount}, Call(c, o, a)
      PROVE  NothingUnlisted'
  BY <1>1, ReturnEffect, PlainUnlisted DEF Call, Enter, Goto, Typed, LocalOK, store
<1>2. ASSUME NEW kind \in Kinds, NEW a \in Accounts, Redirect(c, kind, a)
      PROVE  NothingUnlisted'
  BY <1>2, ReturnEffect, PlainUnlisted DEF Redirect, Enter, Goto, Typed, LocalOK, store
<1>3. ASSUME StoreSecret(c)
      PROVE  NothingUnlisted'
  <2>1. Listing(who[c])'
    BY <1>3 DEF StoreSecret, Goto, Named, Listing, Typed, LocalOK
  <2>2. ASSUME NEW a, Listing(a) PROVE Listing(a)'
    BY <1>3, <2>2 DEF StoreSecret, Goto, Listing, Typed, LocalOK
  <2> QED
    BY <1>3, <2>1, <2>2 DEF StoreSecret, NothingUnlisted
<1>4. ASSUME StoreSecretFails(c)
      PROVE  NothingUnlisted'
  BY <1>4, ReturnEffect, PlainUnlisted DEF StoreSecretFails, Typed, LocalOK, store
<1>5. ASSUME Load(c)
      PROVE  NothingUnlisted'
  <2>1. pc[c] = "load" /\ op[c] = "signin" =>
          op'[c] = "signin" /\ who'[c] = who[c] /\ (pc'[c] \in {"load", "save"} \/ who[c] = NoAccount)
    BY <1>5 DEF Load, Loads, Goto, Typed, LocalOK
  <2>2. UNCHANGED <<keyring, index, strayed>> /\ pc[c] = "load"
    BY <1>5 DEF Load, Loads, store
  <2>3. CASE op[c] = "signin" /\ who[c] = NoAccount
    <3>1. ASSUME NEW a \in Accounts, Listing(a) PROVE Listing(a)'
      BY <2>3, <3>1, AccountsAssumption DEF Listing, Others
    <3> QED
      BY <2>2, <3>1 DEF NothingUnlisted, Typed, StoreOK
  <2> QED
    BY <2>1, <2>2, <2>3, PlainUnlisted
<1>6. ASSUME LoadFails(c)
      PROVE  NothingUnlisted'
  <2>1. pc[c] = "load" /\ op[c] = "signin" =>
          op'[c] = "signin" /\ who'[c] = who[c] /\ (pc'[c] \in {"load", "save"} \/ who[c] = NoAccount)
    BY <1>6 DEF LoadFails, Loads, Goto, Typed, LocalOK
  <2>2. UNCHANGED <<keyring, index, strayed>> /\ pc[c] = "load"
    BY <1>6 DEF LoadFails, Loads, store
  <2>3. CASE op[c] = "signin" /\ who[c] = NoAccount
    <3>1. ASSUME NEW a \in Accounts, Listing(a) PROVE Listing(a)'
      BY <2>3, <3>1, AccountsAssumption DEF Listing, Others
    <3> QED
      BY <2>2, <3>1 DEF NothingUnlisted, Typed, StoreOK
  <2> QED
    BY <2>1, <2>2, <2>3, PlainUnlisted
<1>7. ASSUME Save(c)
      PROVE  NothingUnlisted'
  <2>1. pc[c] \in Section /\ keyring' = keyring
    BY <1>7 DEF Save, Section
  <2> DEFINE now == Rewritten(c).accounts
  <2>2. index'.accounts = now
        /\ strayed' = (strayed \cup ((index.accounts \ now) \cap keyring)) \ now
    BY <1>7 DEF Save, Dropped
  <2>3. op[c] = "signin" => who[c] \in now
    BY DEF Rewritten, index_upsert
  <2>4. \A a \in keyring \ index.accounts : a \in strayed \/ a \in now
    BY <2>1, <2>3, AloneUnlisted
  <2> HIDE DEF now
  <2> QED
    BY <2>1, <2>2, <2>4 DEF NothingUnlisted
<1>8. ASSUME SaveFails(c)
      PROVE  NothingUnlisted'
  <2>1. pc[c] = "save" /\ pc[c] \in Section /\ index' = index
    BY <1>8 DEF SaveFails, Section
  <2>2. \A a \in keyring \ index.accounts : a \in strayed \/ (op[c] = "signin" /\ who[c] = a)
    BY <2>1, AloneUnlisted
  <2>3. CASE op[c] = "signin" /\ who[c] \notin snap[c].accounts
    BY <1>8, <2>1, <2>2, <2>3 DEF SaveFails, NothingUnlisted
  <2>4. CASE ~(op[c] = "signin" /\ who[c] \notin snap[c].accounts)
    <3>1. op[c] = "signin" => who[c] \in index.accounts
      BY <2>1, <2>4 DEF Snapped, EmptyIndex
    <3> QED
      BY <1>8, <2>1, <2>2, <2>4, <3>1 DEF SaveFails, NothingUnlisted
  <2> QED
    BY <2>3, <2>4
<1>9. ASSUME Invalidate(c)
      PROVE  NothingUnlisted'
  BY <1>9, ReturnEffect, PlainUnlisted DEF Invalidate, Onwards, Goto, Typed, LocalOK, store
<1>10. ASSUME Revoke(c)
      PROVE  NothingUnlisted'
  BY <1>10, ReturnEffect, PlainUnlisted DEF Revoke, Enter, Goto, Typed, LocalOK, store
<1>11. ASSUME DeleteSecret(c)
      PROVE  NothingUnlisted'
  <2>1. ASSUME NEW a, Listing(a) PROVE Listing(a)'
    BY <1>11, <2>1 DEF DeleteSecret, Goto, Listing, Typed, LocalOK
  <2> QED
    BY <1>11, <2>1 DEF DeleteSecret, NothingUnlisted
<1>12. ASSUME DeleteSecretFails(c)
      PROVE  NothingUnlisted'
  BY <1>12, ReturnEffect, PlainUnlisted DEF DeleteSecretFails, Typed, LocalOK, store
<1>13. ASSUME Prune(c)
      PROVE  NothingUnlisted'
  <2>1. CASE UNCHANGED <<index, vanished, strayed>>
    BY <1>13, <2>1, PruneEffect, PlainUnlisted
  <2>2. ASSUME NEW kept \in SUBSET snap[c].accounts, Cut(c, kept)
        PROVE  NothingUnlisted'
    <3>1. pc[c] \in Section /\ pc[c] = "prune" /\ keyring' = keyring
      BY <1>13, PruneEffect DEF Section
    <3>2. index'.accounts = kept /\ strayed' = (strayed \cup ((index.accounts \ kept) \cap keyring)) \ kept
      BY <2>2 DEF Cut, Pruned, Dropped
    <3>3. \A a \in keyring \ index.accounts : a \in strayed
      BY <3>1, AloneUnlisted
    <3> QED
      BY <3>1, <3>2, <3>3 DEF NothingUnlisted
  <2> QED
    BY <1>13, <2>1, <2>2, PruneEffect
<1>14. ASSUME NEW answered \in SUBSET Accounts, PruneFails(c, answered)
      PROVE  NothingUnlisted'
  <2>1. CASE UNCHANGED <<index, vanished, strayed>>
    BY <1>14, <2>1, PruneEffect, PlainUnlisted
  <2>2. ASSUME NEW kept \in SUBSET snap[c].accounts, Cut(c, kept)
        PROVE  NothingUnlisted'
    <3>1. pc[c] \in Section /\ pc[c] = "prune" /\ keyring' = keyring
      BY <1>14, PruneEffect DEF Section
    <3>2. index'.accounts = kept /\ strayed' = (strayed \cup ((index.accounts \ kept) \cap keyring)) \ kept
      BY <2>2 DEF Cut, Pruned, Dropped
    <3>3. \A a \in keyring \ index.accounts : a \in strayed
      BY <3>1, AloneUnlisted
    <3> QED
      BY <3>1, <3>2, <3>3 DEF NothingUnlisted
  <2> QED
    BY <1>14, <2>1, <2>2, PruneEffect
<1>15. ASSUME NEW e \in Engines, StorePref(c, e)
      PROVE  NothingUnlisted'
  BY <1>15, ReturnEffect, PlainUnlisted DEF StorePref, Goto, Typed, LocalOK, store
<1>16. ASSUME StorePrefFails(c)
      PROVE  NothingUnlisted'
  BY <1>16, ReturnEffect, PlainUnlisted DEF StorePrefFails, Typed, LocalOK, store
<1>17. ASSUME FetchHit(c)
      PROVE  NothingUnlisted'
  BY <1>17, ReturnEffect, PlainUnlisted DEF FetchHit, Typed, LocalOK, store
<1>18. ASSUME FetchMiss(c)
      PROVE  NothingUnlisted'
  BY <1>18, ReturnEffect, PlainUnlisted DEF FetchMiss, Goto, Typed, LocalOK, store
<1>19. ASSUME ReadActive(c)
      PROVE  NothingUnlisted'
  BY <1>19, ReturnEffect, PlainUnlisted DEF ReadActive, Goto, Typed, LocalOK, store
<1>20. ASSUME ReadActiveFails(c)
      PROVE  NothingUnlisted'
  BY <1>20, ReturnEffect, PlainUnlisted DEF ReadActiveFails, Typed, LocalOK, store
<1>21. ASSUME Refreshed(c)
      PROVE  NothingUnlisted'
  BY <1>21, ReturnEffect, PlainUnlisted DEF Refreshed, Typed, LocalOK, store
<1>22. ASSUME NEW needsReauth \in BOOLEAN, RefreshFails(c, needsReauth)
      PROVE  NothingUnlisted'
  BY <1>22, ReturnEffect, PlainUnlisted DEF RefreshFails, Goto, Typed, LocalOK, store
<1>23. ASSUME CheckCredential(c)
      PROVE  NothingUnlisted'
  BY <1>23, ReturnEffect, PlainUnlisted DEF CheckCredential, Goto, Typed, LocalOK, store
<1>24. ASSUME StatusAnswered(c)
      PROVE  NothingUnlisted'
  BY <1>24, ReturnEffect, PlainUnlisted DEF StatusAnswered, Typed, LocalOK, store
<1>25. ASSUME StatusPending(c)
      PROVE  NothingUnlisted'
  BY <1>25, ReturnEffect, PlainUnlisted DEF StatusPending, Typed, LocalOK, store
<1> QED
  BY <1>1, <1>2, <1>3, <1>4, <1>5, <1>6, <1>7, <1>8, <1>9, <1>10, <1>11, <1>12, <1>13, <1>14, <1>15, <1>16, <1>17, <1>18, <1>19, <1>20, <1>21, <1>22, <1>23, <1>24, <1>25 DEF Step, Moves

\* A step that changes neither the index nor the cache, and ends no change of
\* account, may make a fetch of the active account ready.
LEMMA PlainServed ==
  ASSUME Typed, ServedIsActive, Minted, NEW c \in Callers, Others(c),
         UNCHANGED <<index, cache, vanished>>, pc[c] # "invalidate",
         op'[c] = "fetch" /\ pc'[c] = "refresh" /\ eng'[c] = "native" => who'[c] = index.active
  PROVE  ServedIsActive' /\ Minted'
<1>1. Owed => Owed'
  BY DEF Owed, Others
<1>2. ServedIsActive'
  BY <1>1 DEF ServedIsActive
<1>3. ASSUME NEW d \in Callers, op'[d] = "fetch", pc'[d] = "refresh", eng'[d] = "native"
      PROVE  who'[d] = index'.active \/ Owed' \/ who'[d] \in vanished'
  BY <1>1, <1>3 DEF Minted, Others
<1> QED
  BY <1>2, <1>3 DEF Minted

\* A token that is served, or about to be, stays the active account's or owed
\* an invalidation.
LEMMA StepServed ==
  ASSUME Typed, ServedIsActive, Minted, ActiveIsListed, HolderFetches', NEW c \in Callers,
         \A d \in Callers : Named(d), Snapped(c), Named(c)', Others(c), Moves(c)
  PROVE  ServedIsActive' /\ Minted'
<1>1. ASSUME NEW o \in Ops, NEW a \in Accounts \cup {NoAccount}, Call(c, o, a)
      PROVE  ServedIsActive' /\ Minted'
  BY <1>1, ReturnEffect, PlainServed, FirstStep DEF Call, Enter, Goto, Typed, LocalOK, Over, store, Named, TokenOK
<1>2. ASSUME NEW kind \in Kinds, NEW a \in Accounts, Redirect(c, kind, a)
      PROVE  ServedIsActive' /\ Minted'
  BY <1>2, ReturnEffect, PlainServed DEF Redirect, Enter, Goto, Typed, LocalOK, Over, store, Named
<1>3. ASSUME StoreSecret(c)
      PROVE  ServedIsActive' /\ Minted'
  BY <1>3, ReturnEffect, PlainServed DEF StoreSecret, Goto, Typed, LocalOK, Over, store, Named
<1>4. ASSUME StoreSecretFails(c)
      PROVE  ServedIsActive' /\ Minted'
  BY <1>4, ReturnEffect, PlainServed DEF StoreSecretFails, Typed, LocalOK, Over, store, Named
<1>5. ASSUME Load(c)
      PROVE  ServedIsActive' /\ Minted'
  BY <1>5, ReturnEffect, PlainServed DEF Load, Loads, Goto, Typed, LocalOK, Over, store, Named
<1>6. ASSUME LoadFails(c)
      PROVE  ServedIsActive' /\ Minted'
  BY <1>6, ReturnEffect, PlainServed DEF LoadFails, Loads, Goto, Typed, LocalOK, Over, store, Named
<1>7. ASSUME Save(c)
      PROVE  ServedIsActive' /\ Minted'
  <2>1. Owed'
    BY <1>7 DEF Save, Goto, Owed, Typed, LocalOK
  <2> QED
    BY <2>1 DEF ServedIsActive, Minted
<1>8. ASSUME SaveFails(c)
      PROVE  ServedIsActive' /\ Minted'
  BY <1>8, ReturnEffect, PlainServed DEF SaveFails, Typed, LocalOK, Over
<1>9. ASSUME Invalidate(c)
      PROVE  ServedIsActive' /\ Minted'
  <2>1. cache' = NoToken /\ lock = NoCaller /\ lock' = lock
    BY <1>9 DEF Invalidate
  <2>2. \A d \in Callers : ~(op'[d] = "fetch" /\ pc'[d] = "refresh")
    BY <2>1, AccountsAssumption DEF HolderFetches
  <2> QED
    BY <2>1, <2>2 DEF ServedIsActive, Minted, NoToken
<1>10. ASSUME Revoke(c)
      PROVE  ServedIsActive' /\ Minted'
  BY <1>10, ReturnEffect, PlainServed DEF Revoke, Enter, Goto, Typed, LocalOK, Over, store, Named
<1>11. ASSUME DeleteSecret(c)
      PROVE  ServedIsActive' /\ Minted'
  BY <1>11, ReturnEffect, PlainServed DEF DeleteSecret, Goto, Typed, LocalOK, Over, store, Named
<1>12. ASSUME DeleteSecretFails(c)
      PROVE  ServedIsActive' /\ Minted'
  BY <1>12, ReturnEffect, PlainServed DEF DeleteSecretFails, Typed, LocalOK, Over, store, Named
<1>13. ASSUME Prune(c)
      PROVE  ServedIsActive' /\ Minted'
  <2>1. pc[c] = "prune" /\ pc'[c] \in {"idle", "revoke"} /\ cache' = cache
    BY <1>13, PruneEffect
  <2>2. CASE UNCHANGED <<index, vanished, strayed>>
    BY <2>1, <2>2, PlainServed
  <2>3. ASSUME NEW kept \in SUBSET snap[c].accounts, Cut(c, kept)
        PROVE  ServedIsActive' /\ Minted'
    <3>1. snap[c] = index
      BY <2>1, <2>3 DEF Snapped, Cut, Pruned, EmptyIndex
    <3>2. /\ vanished' = vanished \cup (index.accounts \ kept)
          /\ index'.active = IF index.active \in kept THEN index.active ELSE NoAccount
      BY <2>3, <3>1 DEF Cut, Pruned
    <3>3. Owed => Owed'
      BY <2>1 DEF Owed, Others
    <3>4. ASSUME NEW a \in Accounts, a = index.active PROVE a = index'.active \/ a \in vanished'
      BY <3>2, <3>4, AccountsAssumption DEF ActiveIsListed
    <3>5. ServedIsActive'
      BY <2>1, <3>2, <3>3, <3>4 DEF ServedIsActive, Typed, TokenOK, Tokens, NoToken
    <3>6. ASSUME NEW d \in Callers, op'[d] = "fetch", pc'[d] = "refresh", eng'[d] = "native"
          PROVE  who'[d] = index'.active \/ Owed' \/ who'[d] \in vanished'
      <4>1. d # c /\ who'[d] = who[d] /\ op[d] = "fetch" /\ pc[d] = "refresh" /\ eng[d] = "native"
        BY <2>1, <3>6 DEF Others
      <4>2. who[d] \in Accounts
        BY <4>1 DEF Named
      <4> QED
        BY <3>2, <3>3, <3>4, <4>1, <4>2 DEF Minted
    <3> QED
      BY <3>5, <3>6 DEF Minted
  <2> QED
    BY <1>13, <2>2, <2>3, PruneEffect
<1>14. ASSUME NEW answered \in SUBSET Accounts, PruneFails(c, answered)
      PROVE  ServedIsActive' /\ Minted'
  <2>1. pc[c] = "prune" /\ pc'[c] \in {"idle", "revoke"} /\ cache' = cache
    BY <1>14, PruneEffect
  <2>2. CASE UNCHANGED <<index, vanished, strayed>>
    BY <2>1, <2>2, PlainServed
  <2>3. ASSUME NEW kept \in SUBSET snap[c].accounts, Cut(c, kept)
        PROVE  ServedIsActive' /\ Minted'
    <3>1. snap[c] = index
      BY <2>1, <2>3 DEF Snapped, Cut, Pruned, EmptyIndex
    <3>2. /\ vanished' = vanished \cup (index.accounts \ kept)
          /\ index'.active = IF index.active \in kept THEN index.active ELSE NoAccount
      BY <2>3, <3>1 DEF Cut, Pruned
    <3>3. Owed => Owed'
      BY <2>1 DEF Owed, Others
    <3>4. ASSUME NEW a \in Accounts, a = index.active PROVE a = index'.active \/ a \in vanished'
      BY <3>2, <3>4, AccountsAssumption DEF ActiveIsListed
    <3>5. ServedIsActive'
      BY <2>1, <3>2, <3>3, <3>4 DEF ServedIsActive, Typed, TokenOK, Tokens, NoToken
    <3>6. ASSUME NEW d \in Callers, op'[d] = "fetch", pc'[d] = "refresh", eng'[d] = "native"
          PROVE  who'[d] = index'.active \/ Owed' \/ who'[d] \in vanished'
      <4>1. d # c /\ who'[d] = who[d] /\ op[d] = "fetch" /\ pc[d] = "refresh" /\ eng[d] = "native"
        BY <2>1, <3>6 DEF Others
      <4>2. who[d] \in Accounts
        BY <4>1 DEF Named
      <4> QED
        BY <3>2, <3>3, <3>4, <4>1, <4>2 DEF Minted
    <3> QED
      BY <3>5, <3>6 DEF Minted
  <2> QED
    BY <1>14, <2>2, <2>3, PruneEffect
<1>15. ASSUME NEW e \in Engines, StorePref(c, e)
      PROVE  ServedIsActive' /\ Minted'
  BY <1>15, ReturnEffect, PlainServed DEF StorePref, Goto, Typed, LocalOK, Over, store, Named
<1>16. ASSUME StorePrefFails(c)
      PROVE  ServedIsActive' /\ Minted'
  BY <1>16, ReturnEffect, PlainServed DEF StorePrefFails, Typed, LocalOK, Over, store, Named
<1>17. ASSUME FetchHit(c)
      PROVE  ServedIsActive' /\ Minted'
  BY <1>17, ReturnEffect, PlainServed DEF FetchHit, Typed, LocalOK, Over, store, Named
<1>18. ASSUME FetchMiss(c)
      PROVE  ServedIsActive' /\ Minted'
  BY <1>18, ReturnEffect, PlainServed DEF FetchMiss, Goto, Typed, LocalOK, Over, store, Named
<1>19. ASSUME ReadActive(c)
      PROVE  ServedIsActive' /\ Minted'
  BY <1>19, ReturnEffect, PlainServed DEF ReadActive, Goto, Typed, LocalOK, Over, store, Named
<1>20. ASSUME ReadActiveFails(c)
      PROVE  ServedIsActive' /\ Minted'
  BY <1>20, ReturnEffect, PlainServed DEF ReadActiveFails, Typed, LocalOK, Over, store, Named
<1>21. ASSUME Refreshed(c)
      PROVE  ServedIsActive' /\ Minted'
  <2>1. /\ Others(c) /\ Over(c) /\ pc[c] = "refresh" /\ UNCHANGED <<index, vanished>>
    BY <1>21, ReturnEffect DEF Refreshed, store, Typed
  <2>2. CASE op[c] = "fetch"
    <3>1. Owed => Owed'
      BY <2>1 DEF Owed, Others
    <3>2. cache'.acct = who[c]
      BY <1>21, <2>2 DEF Refreshed
    <3>3. who[c] # NoAccount => eng[c] = "native"
      BY <2>1, <2>2 DEF Named
    <3>4. ServedIsActive'
      BY <2>1, <2>2, <3>1, <3>2, <3>3 DEF ServedIsActive, Minted
    <3>5. Minted'
      BY <2>1, <3>1 DEF Minted, Others, Over
    <3> QED
      BY <3>4, <3>5
  <2>3. CASE op[c] # "fetch"
    BY <1>21, <2>1, <2>3, PlainServed DEF Refreshed, Over
  <2> QED
    BY <2>2, <2>3
<1>22. ASSUME NEW needsReauth \in BOOLEAN, RefreshFails(c, needsReauth)
      PROVE  ServedIsActive' /\ Minted'
  BY <1>22, ReturnEffect, PlainServed DEF RefreshFails, Goto, Typed, LocalOK, Over, store, Named
<1>23. ASSUME CheckCredential(c)
      PROVE  ServedIsActive' /\ Minted'
  BY <1>23, ReturnEffect, PlainServed DEF CheckCredential, Goto, Typed, LocalOK, Over, store, Named
<1>24. ASSUME StatusAnswered(c)
      PROVE  ServedIsActive' /\ Minted'
  BY <1>24, ReturnEffect, PlainServed DEF StatusAnswered, Typed, LocalOK, Over, store, Named
<1>25. ASSUME StatusPending(c)
      PROVE  ServedIsActive' /\ Minted'
  BY <1>25, ReturnEffect, PlainServed DEF StatusPending, Typed, LocalOK, Over, store, Named
<1> QED
  BY <1>1, <1>2, <1>3, <1>4, <1>5, <1>6, <1>7, <1>8, <1>9, <1>10, <1>11, <1>12, <1>13, <1>14, <1>15, <1>16, <1>17, <1>18, <1>19, <1>20, <1>21, <1>22, <1>23, <1>24, <1>25 DEF Step, Moves

-----------------------------------------------------------------------------
(* The status check's reads                                                *)

Calls(c) == Step(c) \/ \E o \in Ops : \E a \in Accounts \cup {NoAccount} : Call(c, o, a)

\* No other step begins or ends a wait for a read.
LEMMA StepWaits ==
  ASSUME Typed, NEW c \in Callers, Named(c), Calls(c)
  PROVE  pc[c] # "wait" /\ pc'[c] # "wait"
<1>1. ASSUME NEW o \in Ops, NEW a \in Accounts \cup {NoAccount}, Call(c, o, a)
      PROVE  pc[c] # "wait" /\ pc'[c] # "wait"
  BY <1>1, ReturnEffect, FirstStep DEF Call, Enter, Goto, Typed, LocalOK, Over, Pcs
<1>2. ASSUME NEW kind \in Kinds, NEW a \in Accounts, Redirect(c, kind, a)
      PROVE  pc[c] # "wait" /\ pc'[c] # "wait"
  BY <1>2, ReturnEffect DEF Redirect, Enter, Goto, Typed, LocalOK, Over, Pcs
<1>3. ASSUME StoreSecret(c)
      PROVE  pc[c] # "wait" /\ pc'[c] # "wait"
  BY <1>3, ReturnEffect DEF StoreSecret, Goto, Typed, LocalOK, Over, Pcs
<1>4. ASSUME StoreSecretFails(c)
      PROVE  pc[c] # "wait" /\ pc'[c] # "wait"
  BY <1>4, ReturnEffect DEF StoreSecretFails, Typed, LocalOK, Over, Pcs
<1>5. ASSUME Load(c)
      PROVE  pc[c] # "wait" /\ pc'[c] # "wait"
  BY <1>5, ReturnEffect DEF Load, Loads, Goto, Typed, LocalOK, Over, Pcs
<1>6. ASSUME LoadFails(c)
      PROVE  pc[c] # "wait" /\ pc'[c] # "wait"
  BY <1>6, ReturnEffect DEF LoadFails, Loads, Goto, Typed, LocalOK, Over, Pcs
<1>7. ASSUME Save(c)
      PROVE  pc[c] # "wait" /\ pc'[c] # "wait"
  BY <1>7, ReturnEffect DEF Save, Goto, Typed, LocalOK, Over, Pcs
<1>8. ASSUME SaveFails(c)
      PROVE  pc[c] # "wait" /\ pc'[c] # "wait"
  BY <1>8, ReturnEffect DEF SaveFails, Typed, LocalOK, Over, Pcs
<1>9. ASSUME Invalidate(c)
      PROVE  pc[c] # "wait" /\ pc'[c] # "wait"
  BY <1>9, ReturnEffect DEF Invalidate, Onwards, Goto, Typed, LocalOK, Over, Pcs
<1>10. ASSUME Revoke(c)
      PROVE  pc[c] # "wait" /\ pc'[c] # "wait"
  BY <1>10, ReturnEffect DEF Revoke, Enter, Goto, Typed, LocalOK, Over, Pcs
<1>11. ASSUME DeleteSecret(c)
      PROVE  pc[c] # "wait" /\ pc'[c] # "wait"
  BY <1>11, ReturnEffect DEF DeleteSecret, Goto, Typed, LocalOK, Over, Pcs
<1>12. ASSUME DeleteSecretFails(c)
      PROVE  pc[c] # "wait" /\ pc'[c] # "wait"
  BY <1>12, ReturnEffect DEF DeleteSecretFails, Typed, LocalOK, Over, Pcs
<1>13. ASSUME Prune(c)
      PROVE  pc[c] # "wait" /\ pc'[c] # "wait"
  BY <1>13, PruneEffect
<1>14. ASSUME NEW answered \in SUBSET Accounts, PruneFails(c, answered)
      PROVE  pc[c] # "wait" /\ pc'[c] # "wait"
  BY <1>14, PruneEffect
<1>15. ASSUME NEW e \in Engines, StorePref(c, e)
      PROVE  pc[c] # "wait" /\ pc'[c] # "wait"
  BY <1>15, ReturnEffect DEF StorePref, Goto, Typed, LocalOK, Over, Pcs
<1>16. ASSUME StorePrefFails(c)
      PROVE  pc[c] # "wait" /\ pc'[c] # "wait"
  BY <1>16, ReturnEffect DEF StorePrefFails, Typed, LocalOK, Over, Pcs
<1>17. ASSUME FetchHit(c)
      PROVE  pc[c] # "wait" /\ pc'[c] # "wait"
  BY <1>17, ReturnEffect DEF FetchHit, Typed, LocalOK, Over, Pcs
<1>18. ASSUME FetchMiss(c)
      PROVE  pc[c] # "wait" /\ pc'[c] # "wait"
  BY <1>18, ReturnEffect DEF FetchMiss, Goto, Typed, LocalOK, Over, Pcs
<1>19. ASSUME ReadActive(c)
      PROVE  pc[c] # "wait" /\ pc'[c] # "wait"
  BY <1>19, ReturnEffect DEF ReadActive, Goto, Typed, LocalOK, Over, Pcs
<1>20. ASSUME ReadActiveFails(c)
      PROVE  pc[c] # "wait" /\ pc'[c] # "wait"
  BY <1>20, ReturnEffect DEF ReadActiveFails, Typed, LocalOK, Over, Pcs
<1>21. ASSUME Refreshed(c)
      PROVE  pc[c] # "wait" /\ pc'[c] # "wait"
  BY <1>21, ReturnEffect DEF Refreshed, Typed, LocalOK, Over, Pcs
<1>22. ASSUME NEW needsReauth \in BOOLEAN, RefreshFails(c, needsReauth)
      PROVE  pc[c] # "wait" /\ pc'[c] # "wait"
  BY <1>22, ReturnEffect DEF RefreshFails, Goto, Typed, LocalOK, Over, Pcs
<1> QED
  BY <1>1, <1>2, <1>3, <1>4, <1>5, <1>6, <1>7, <1>8, <1>9, <1>10, <1>11, <1>12, <1>13, <1>14, <1>15, <1>16, <1>17, <1>18, <1>19, <1>20, <1>21, <1>22 DEF Step, Calls

\* A read that is begun takes the free slot of its account; one that ends frees
\* its own; a wait begins and ends with its call.
LEMMA StepReads ==
  ASSUME Typed, OneRead, Status
  PROVE  ReadsOK' /\ OneRead'
<1> USE DEF Typed, ReadsOK
<1>1. ASSUME NEW c \in Callers, CheckCredential(c) PROVE ReadsOK' /\ OneRead'
  <2>1. CASE index.active = NoAccount
    <3>1. UNCHANGED reads /\ Others(c) /\ Over(c) /\ pc[c] = "status"
      BY <1>1, <2>1, ReturnEffect DEF CheckCredential
    <3> QED
      BY <3>1 DEF reads, OneRead, Others, Over
  <2>2. CASE index.active # NoAccount
    <3> DEFINE a == index.active
    <3>1. a \in Accounts
      BY <2>2 DEF StoreOK, Indexes
    <3>2. pc[c] = "status" /\ pc' = [pc EXCEPT ![c] = "wait"]
      BY <1>1, <2>2 DEF CheckCredential, Goto
    <3>3. CASE slot[a] # NoRead
      <4>1. UNCHANGED <<reader, slot, over>> /\ waits' = [waits EXCEPT ![c] = slot[a]]
        BY <1>1, <2>2, <3>3 DEF CheckCredential
      <4> QED
        BY <3>1, <3>2, <3>3, <4>1 DEF OneRead, LocalOK
    <3>4. CASE slot[a] = NoRead
      <4>1. PICK r \in Reads :
               /\ reader[r] = NoAccount
               /\ reader' = [reader EXCEPT ![r] = a]
               /\ slot' = [slot EXCEPT ![a] = r]
               /\ waits' = [waits EXCEPT ![c] = r]
               /\ UNCHANGED over
        BY <1>1, <2>2, <3>4 DEF CheckCredential
      <4>2. r # NoRead
        BY AccountsAssumption
      <4> HIDE DEF a
      <4>3. ReadsOK'
        BY <3>1, <4>1
      <4>6. over' \subseteq Reads /\ \A q \in over' : reader'[q] # NoAccount
        BY <3>1, <4>1, AccountsAssumption DEF OneRead
      <4>4. \A b \in Accounts : \A q \in Reads :
               slot'[b] = q <=> reader'[q] = b /\ q \notin over'
        BY <3>1, <3>4, <4>1, <4>2, AccountsAssumption DEF OneRead
      <4>5. \A d \in Callers : waits'[d] # NoRead <=> pc'[d] = "wait"
        BY <3>2, <4>1, <4>2 DEF OneRead, LocalOK
      <4> QED
        BY <4>3, <4>4, <4>5, <4>6 DEF OneRead
    <3> QED
      BY <3>3, <3>4
  <2> QED
    BY <2>1, <2>2
<1>2. ASSUME NEW c \in Callers, StatusAnswered(c) \/ StatusPending(c) PROVE ReadsOK' /\ OneRead'
  <2>1. /\ pc[c] = "wait" /\ Others(c) /\ Over(c)
        /\ waits' = [waits EXCEPT ![c] = NoRead] /\ UNCHANGED <<reader, slot, over>>
    BY <1>2, ReturnEffect DEF StatusAnswered, StatusPending
  <2> QED
    BY <2>1 DEF OneRead, Others, Over
<1>3. ASSUME NEW r \in Reads, ReadFrees(r) PROVE ReadsOK' /\ OneRead'
  <2>1. /\ reader[r] \in Accounts /\ slot[reader[r]] = r /\ r \notin over
        /\ over' = over \cup {r}
        /\ slot' = [slot EXCEPT ![reader[r]] = NoRead]
        /\ UNCHANGED <<reader, waits, pc>>
    BY <1>3 DEF ReadFrees, OneRead, local
  <2>2. \A b \in Accounts : \A q \in Reads :
           slot'[b] = q <=> reader'[q] = b /\ q \notin over'
    BY <2>1, AccountsAssumption DEF OneRead
  <2>3. over' \subseteq Reads /\ \A q \in over' : reader'[q] # NoAccount
    BY <2>1, AccountsAssumption DEF OneRead
  <2> QED
    BY <2>1, <2>2, <2>3 DEF OneRead
<1>4. ASSUME NEW r \in Reads, ReadAnswers(r) PROVE ReadsOK' /\ OneRead'
  <2>1. /\ r \in over /\ over' = over \ {r}
        /\ reader' = [reader EXCEPT ![r] = NoAccount]
        /\ UNCHANGED <<slot, waits, pc>>
    BY <1>4 DEF ReadAnswers, local
  <2>2. \A b \in Accounts : \A q \in Reads :
           slot'[b] = q <=> reader'[q] = b /\ q \notin over'
    BY <2>1, AccountsAssumption DEF OneRead
  <2>3. over' \subseteq Reads /\ \A q \in over' : reader'[q] # NoAccount
    BY <2>1 DEF OneRead
  <2> QED
    BY <2>1, <2>2, <2>3 DEF OneRead
<1> QED
  BY <1>1, <1>2, <1>3, <1>4 DEF Status

-----------------------------------------------------------------------------
(* The invariant                                                           *)

\* A call's step keeps all of it but the reads.
LEMMA MovesInv ==
  ASSUME IInv, ReadsOK', NEW c \in Callers, Moves(c)
  PROVE  IInv'
<1> USE DEF IInv
<1>1. LocalOK' /\ Others(c) /\ Named(c)'
  BY StepLocal
<1>2. Typed'
  BY <1>1, StepShared DEF Typed
<1>3. Sectioned'
  BY <1>1, StepEnters, StepSectioned
<1>4. \A d \in Callers : Named(d)'
  BY <1>1 DEF Named, Others
<1>5. \A d \in Callers : Snapped(d)'
  BY <1>1, StepSnaps, StepSnapped
<1>6. HolderFetches'
  BY <1>1, StepHolds DEF HolderFetches, Others
<1>7. ActiveIsListed'
  BY StepListed
<1>8. NothingUnlisted'
  BY <1>1, StepUnlisted
<1>9. ServedIsActive' /\ Minted'
  BY <1>1, <1>6, StepServed
<1> QED
  BY <1>2, <1>3, <1>4, <1>5, <1>6, <1>7, <1>8, <1>9

\* The token may expire, a read end, or nothing happen.
LEMMA QuietInv ==
  ASSUME IInv, ReadsOK', UNCHANGED <<store, engine, lock, local, faults>>,
         cache' \in {cache, NoToken}
  PROVE  IInv'
<1> USE DEF IInv, store, local
<1>1. Typed'
  BY TokenType DEF Typed, StoreOK, TokenOK, LocalOK
<1>2. Sectioned' /\ \A c \in Callers : Named(c)' /\ Snapped(c)'
  BY DEF Sectioned, Named, Snapped
<1>3. HolderFetches' /\ ActiveIsListed'
  BY DEF HolderFetches, ActiveIsListed
<1>4. NothingUnlisted'
  BY DEF NothingUnlisted, Listing
<1>5. ServedIsActive' /\ Minted'
  BY DEF ServedIsActive, Minted, Owed, NoToken
<1> QED
  BY <1>1, <1>2, <1>3, <1>4, <1>5

\* A secret that vanishes is one less to account for.
LEMMA ClearedInv ==
  ASSUME IInv, NEW a \in Accounts, Cleared(a), UNCHANGED reads
  PROVE  IInv'
<1> USE DEF IInv, Cleared, local
<1>1. Typed'
  BY AccountsAssumption DEF Typed, StoreOK, TokenOK, LocalOK, ReadsOK, Fault, reads
<1>2. Sectioned' /\ \A c \in Callers : Named(c)' /\ Snapped(c)'
  BY DEF Sectioned, Named, Snapped
<1>3. HolderFetches' /\ ActiveIsListed'
  BY DEF HolderFetches, ActiveIsListed
<1>4. NothingUnlisted'
  BY DEF NothingUnlisted, Listing
<1>5. ServedIsActive' /\ Minted'
  BY DEF ServedIsActive, Minted, Owed
<1> QED
  BY <1>1, <1>2, <1>3, <1>4, <1>5

\* A crash ends every call and forgets the token.
LEMMA CrashInv == ASSUME IInv, Crash PROVE IInv'
<1> USE DEF IInv, Crash
<1>1. Typed'
  BY EmptyType, TokenType, AccountsAssumption
     DEF Typed, StoreOK, TokenOK, LocalOK, ReadsOK, Fault, Engines, Ops, Pcs
<1>2. Sectioned' /\ \A c \in Callers : Named(c)' /\ Snapped(c)'
  BY DEF Sectioned, Section, Named, Snapped
<1>3. HolderFetches' /\ ActiveIsListed'
  BY AccountsAssumption DEF HolderFetches, ActiveIsListed
<1>4. NothingUnlisted'
  BY DEF NothingUnlisted
<1>5. ServedIsActive' /\ Minted'
  BY DEF ServedIsActive, Minted, NoToken
<1> QED
  BY <1>1, <1>2, <1>3, <1>4, <1>5

\* Every step keeps the invariant and the bookkeeping of the reads.
LEMMA NextInv == IInv /\ OneRead /\ [Next]_vars => IInv' /\ OneRead'
<1> SUFFICES ASSUME IInv, OneRead, [Next]_vars PROVE IInv' /\ OneRead'
  OBVIOUS
<1>1. ASSUME NEW c \in Callers, Calls(c), UNCHANGED reads PROVE IInv' /\ OneRead'
  <2>1. Moves(c)
    BY <1>1 DEF Calls, Moves
  <2>2. ReadsOK'
    BY <1>1 DEF IInv, Typed, ReadsOK, reads
  <2>3. IInv' /\ Others(c)
    BY <2>1, <2>2, MovesInv, StepLocal DEF IInv
  <2>4. pc[c] # "wait" /\ pc'[c] # "wait"
    BY <1>1, StepWaits DEF IInv
  <2> QED
    BY <1>1, <2>3, <2>4 DEF OneRead, reads, Others
<1>2. ASSUME Expire \/ UNCHANGED vars, UNCHANGED reads PROVE IInv' /\ OneRead'
  <2>1. UNCHANGED <<store, engine, lock, local, faults>> /\ cache' \in {cache, NoToken}
    BY <1>2 DEF Expire, vars
  <2>2. ReadsOK'
    BY <1>2 DEF IInv, Typed, ReadsOK, reads
  <2> QED
    BY <1>2, <2>1, <2>2, QuietInv DEF OneRead, reads, local
<1>3. ASSUME NEW a \in Accounts, Cleared(a), UNCHANGED reads PROVE IInv' /\ OneRead'
  BY <1>3, ClearedInv DEF OneRead, reads, Cleared, local
<1>4. CASE Status
  <2>1. ReadsOK' /\ OneRead'
    BY <1>4, StepReads DEF IInv
  <2>2. ASSUME NEW r \in Reads, ReadFrees(r) \/ ReadAnswers(r) PROVE IInv'
    BY <2>1, <2>2, QuietInv DEF ReadFrees, ReadAnswers
  <2>3. ASSUME NEW c \in Callers, CheckCredential(c) \/ StatusAnswered(c) \/ StatusPending(c)
        PROVE  IInv'
    BY <2>1, <2>3, MovesInv DEF Moves
  <2> QED
    BY <1>4, <2>1, <2>2, <2>3 DEF Status
<1>5. CASE Crash
  <2>1. OneRead'
    BY <1>5, AccountsAssumption DEF Crash, OneRead
  <2> QED
    BY <1>5, <2>1, CrashInv
<1> QED
  BY <1>1, <1>2, <1>3, <1>4, <1>5 DEF Next, Calls, vars

\* The invariant and the bookkeeping hold in every reachable state.
LEMMA Invariant == Spec => [](IInv /\ OneRead)
<1>1. Init => OneRead
  BY AccountsAssumption DEF Init, Idle, OneRead
<1> QED
  BY <1>1, InitIInv, NextInv, PTL DEF Spec

-----------------------------------------------------------------------------
\* Every variable keeps its type, in particular the cached token is none, a
\* listed account's minted natively, or gcloud's.
THEOREM TypeCorrect == Spec => []TypeOK
<1>1. IInv => TypeOK
  BY TypeParts DEF IInv
<1> QED
  BY <1>1, Invariant, PTL

\* save_account, delete_account and list_accounts: no secret is left behind
\* that nothing lists, whatever fails, but for the named exceptions.
THEOREM SecretsAccountedFor == Spec => []NothingUnlisted
<1>1. IInv => NothingUnlisted
  BY DEF IInv
<1> QED
  BY <1>1, Invariant, PTL

\* get_access_token, switch, remove and sign-in: the cache never serves the
\* token of an account that is no longer active, once the call that changed
\* the account has returned.
THEOREM ActiveIsServed == Spec => []ServedIsActive
<1>1. IInv => ServedIsActive
  BY DEF IInv
<1> QED
  BY <1>1, Invariant, PTL

\* index_upsert, index_remove, index_set_active and the pruning: the active
\* account is listed.
THEOREM ActiveListed == Spec => []ActiveIsListed
<1>1. IInv => ActiveIsListed
  BY DEF IInv
<1> QED
  BY <1>1, Invariant, PTL

\* The cache's mutex is held by nobody but the fetch that took it.
THEOREM HolderIsFetching == Spec => []HolderFetches
<1>1. IInv => HolderFetches
  BY DEF IInv
<1> QED
  BY <1>1, Invariant, PTL

\* InFlightReads, FreeSlot: checks of one account share one keyring read, and
\* none joins a read that is over, whoever gives up, panics or asks again. It
\* needs the converse too: a read that goes on has its slot (OneRead), else the
\* next check would begin a second one.
THEOREM ReadsAreSingle == Spec => []ChecksShareOneRead
<1>1. IInv /\ OneRead => ChecksShareOneRead
  <2> SUFFICES ASSUME IInv, OneRead PROVE ChecksShareOneRead
    OBVIOUS
  <2>1. ReadsOK
    BY DEF IInv, Typed
  <2>2. \A r \in Reads : UnderWay(r) => reader[r] \in Accounts /\ slot[reader[r]] = r
    BY <2>1 DEF ReadsOK, OneRead, UnderWay
  <2>3. \A a \in Accounts : slot[a] # NoRead => UnderWay(slot[a]) /\ reader[slot[a]] = a
    BY <2>1, AccountsAssumption DEF ReadsOK, OneRead, UnderWay
  <2> QED
    BY <2>2, <2>3 DEF ChecksShareOneRead
<1> QED
  BY <1>1, Invariant, PTL
=============================================================================
