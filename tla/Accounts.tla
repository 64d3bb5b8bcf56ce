------------------------------ MODULE Accounts ------------------------------
(***************************************************************************)
(* Google accounts: the token store (a secret per account in the system    *)
(* keyring, an index file that lists the accounts and the active one), the *)
(* operations on accounts, and the process-wide cache of the access token, *)
(* whose mutex is held while a token is fetched.                           *)
(*                                                                         *)
(* Callers run the operations concurrently. Two of them never rewrite the  *)
(* index at the same time: the code has no lock for that and relies on the *)
(* account dialog to run one at a time. A sign-in that waits for the       *)
(* browser, and every token fetch, overlap with anything.                  *)
(***************************************************************************)
EXTENDS Naturals, FiniteSets

CONSTANTS Accounts,   \* the Google accounts
          Callers,    \* the tasks that call into the module
          Reads,      \* the threads that may read the keyring for a status check
          NoAccount,
          NoCaller,
          NoRead,
          MaxFaults   \* bound: how often the disk or the keyring fails, a secret
                      \* vanishes, or the program is killed

ASSUME AccountsAssumption ==
    /\ NoAccount \notin Accounts /\ NoCaller \notin Callers /\ NoRead \notin Reads
    /\ MaxFaults \in Nat

VARIABLES
    keyring,  \* the accounts with a secret in the system keyring
    index,    \* the index file: the accounts it lists, and the active one
    engine,   \* the stored engine preference for signing in
    cache,    \* the cached access token: whose, and which engine minted it
    lock,     \* who holds the cache's mutex
    pc, op, who, eng, snap, todo,  \* a caller's place, call and locals
    reader,   \* what each of Reads reads for a status check
    slot,     \* InFlightReads: the read under way for each account
    over,     \* the reads that have freed their slot and not yet answered
    waits,    \* the read each caller waits for
    faults,
    strayed,  \* secrets a crash, a refused rollback or an unreadable index unlisted
    vanished  \* accounts a listing pruned: their secret was gone

store == <<keyring, index, strayed, vanished>>
local == <<pc, op, who, eng, snap, todo>>
reads == <<reader, slot, over, waits>>
vars  == <<store, engine, cache, lock, local, reads, faults>>

Engines    == {"native", "gcloud"}
EmptyIndex == [accounts |-> {}, active |-> NoAccount]
Indexes    == [accounts : SUBSET Accounts, active : Accounts \cup {NoAccount}]
NoToken    == [acct |-> NoAccount, engine |-> "none"]
Tokens     == {NoToken} \cup [acct : Accounts, engine : {"native"}]
                        \cup [acct : {NoAccount}, engine : {"gcloud"}]

Ops == {"signin", "ensure", "switch", "remove", "logout", "list", "engine", "fetch", "status"}
Pcs == {"idle", "browser", "keyset", "load", "save", "prune", "revoke", "keydel",
        "invalidate", "pref", "lock", "active", "refresh", "status", "wait"}
(* The steps between which a call has the index, or is about to rewrite it. *)
Section == {"keyset", "load", "save", "prune", "keydel"}

TypeOK ==
    /\ keyring \subseteq Accounts
    /\ index \in Indexes
    /\ engine \in Engines
    /\ cache \in Tokens
    /\ lock \in Callers \cup {NoCaller}
    /\ pc \in [Callers -> Pcs] /\ op \in [Callers -> Ops]
    /\ who \in [Callers -> Accounts \cup {NoAccount}]
    /\ eng \in [Callers -> Engines]
    /\ snap \in [Callers -> Indexes]
    /\ todo \in [Callers -> SUBSET Accounts]
    /\ reader \in [Reads -> Accounts \cup {NoAccount}]
    /\ slot \in [Accounts -> Reads \cup {NoRead}]
    /\ over \subseteq Reads
    /\ waits \in [Callers -> Reads \cup {NoRead}]
    /\ faults \in 0..MaxFaults
    /\ strayed \subseteq Accounts /\ vanished \subseteq Accounts

Idle ==
    /\ pc = [c \in Callers |-> "idle"] /\ op = [c \in Callers |-> "fetch"]
    /\ who = [c \in Callers |-> NoAccount] /\ eng = [c \in Callers |-> "native"]
    /\ snap = [c \in Callers |-> EmptyIndex] /\ todo = [c \in Callers |-> {}]
    /\ reader = [r \in Reads |-> NoAccount] /\ slot = [a \in Accounts |-> NoRead]
    /\ over = {} /\ waits = [c \in Callers |-> NoRead]
    /\ cache = NoToken /\ lock = NoCaller

Init ==
    /\ keyring = {} /\ index = EmptyIndex /\ engine = "native"
    /\ strayed = {} /\ vanished = {} /\ faults = 0
    /\ Idle

----------------------------------------------------------------------------
(* Going from one step of a call to the next                               *)

Goto(c, p) == pc' = [pc EXCEPT ![c] = p]

Fault == faults < MaxFaults /\ faults' = faults + 1

(* The call returns, with a result or an error; its locals are gone.       *)
Return(c) ==
    /\ Goto(c, "idle")
    /\ op' = [op EXCEPT ![c] = "fetch"] /\ who' = [who EXCEPT ![c] = NoAccount]
    /\ eng' = [eng EXCEPT ![c] = "native"]
    /\ snap' = [snap EXCEPT ![c] = EmptyIndex] /\ todo' = [todo EXCEPT ![c] = {}]

(* The store is entered by one call at a time.                             *)
MayEnter(c) == \A d \in Callers \ {c} : pc[d] \notin Section

Enter(c, p) == MayEnter(c) /\ Goto(c, p)

Starts == [signin |-> "browser", ensure |-> "active", switch |-> "load", remove |-> "revoke",
           logout |-> "load", list |-> "load", engine |-> "pref", fetch |-> "lock",
           status |-> "status"]

(* Every call dispatches on the engine first. With gcloud, the account     *)
(* operations of this store only print what to run in a terminal.          *)
Call(c, o, a) ==
    /\ pc[c] = "idle"
    /\ engine = "gcloud" => o \in {"engine", "fetch"}
    /\ a = NoAccount <=> o \notin {"switch", "remove"}
    /\ IF Starts[o] \in Section THEN Enter(c, Starts[o]) ELSE Goto(c, Starts[o])
    /\ op' = [op EXCEPT ![c] = o] /\ who' = [who EXCEPT ![c] = a]
    /\ eng' = [eng EXCEPT ![c] = engine]
    /\ UNCHANGED <<store, engine, cache, lock, snap, todo, faults>>

----------------------------------------------------------------------------
(* sign_in_and_store                                                       *)

(* What reaches the loopback listener and ends the wait: a request that    *)
(* carries a code or an error, well or badly, or the timeout. A silent     *)
(* peer and a stray request are dropped and change nothing.                *)
Redirect(c, kind, a) ==
    /\ pc[c] = "browser"
    /\ \/ kind # "code" /\ Return(c)
       \/ /\ kind = "code"
          /\ Enter(c, "keyset")
          /\ op' = [op EXCEPT ![c] = "signin"]
          /\ who' = [who EXCEPT ![c] = a]
          /\ UNCHANGED <<eng, snap, todo>>
    /\ UNCHANGED <<store, engine, cache, lock, faults>>

(* save_account writes the secret first ...                                *)
StoreSecret(c) ==
    /\ pc[c] = "keyset"
    /\ keyring' = keyring \cup {who[c]}
    /\ Goto(c, "load")
    /\ UNCHANGED <<index, strayed, vanished, engine, cache, lock, op, who, eng, snap, todo, faults>>

StoreSecretFails(c) ==
    /\ Fault /\ pc[c] = "keyset"
    /\ Return(c)
    /\ UNCHANGED <<store, engine, cache, lock>>

(* load_index: an index that cannot be read counts as empty. A listing and *)
(* the first step of a log-out name no account: they prune what they read. *)
Loads(c, read) ==
    /\ pc[c] = "load"
    /\ IF op[c] = "switch" /\ who[c] \notin read.accounts
       THEN Return(c)   \* index_set_active: not a known account
       ELSE /\ snap' = [snap EXCEPT ![c] = read]
            /\ Goto(c, IF who[c] = NoAccount THEN "prune" ELSE "save")
            /\ UNCHANGED <<op, who, eng, todo>>
    /\ UNCHANGED <<store, engine, cache, lock>>

Load(c)      == Loads(c, index) /\ UNCHANGED faults
LoadFails(c) == Loads(c, EmptyIndex) /\ Fault

index_upsert(i, a) == [accounts |-> i.accounts \cup {a},
                       active |-> IF i.active = NoAccount THEN a ELSE i.active]
index_remove(i, a) == [accounts |-> i.accounts \ {a},
                       active |-> IF i.active = a THEN NoAccount ELSE i.active]
index_set_active(i, a) == [i EXCEPT !.active = a]

Rewritten(c) ==
    CASE op[c] = "signin" -> index_upsert(snap[c], who[c])
      [] op[c] = "switch" -> index_set_active(snap[c], who[c])
      [] OTHER            -> index_remove(snap[c], who[c])

(* The accounts a rewrite drops although their secret stays.               *)
Dropped(new) == (index.accounts \ new.accounts) \cap keyring

(* save_index writes a temporary file and renames it over the index.       *)
Save(c) ==
    /\ pc[c] = "save"
    /\ index' = Rewritten(c)
    /\ strayed' = (strayed \cup Dropped(Rewritten(c))) \ Rewritten(c).accounts
    /\ vanished' = vanished \ {who[c]}
    /\ Goto(c, "invalidate")
    /\ snap' = [snap EXCEPT ![c] = EmptyIndex]
    /\ UNCHANGED <<keyring, engine, cache, lock, op, who, eng, todo, faults>>

(* Mutant: the secret of an account that could not be listed stays.        *)
SaveFailsWithoutRollback(c) ==
    /\ Fault /\ pc[c] = "save"
    /\ Return(c)
    /\ UNCHANGED <<store, engine, cache, lock>>

(* A new account whose listing failed is taken out of the keyring again,   *)
(* if the keyring lets it; one that was listed keeps its new secret.       *)
SaveFails(c) ==
    /\ Fault /\ pc[c] = "save"
    /\ Return(c)
    /\ IF op[c] = "signin" /\ who[c] \notin snap[c].accounts
       THEN \/ keyring' = keyring \ {who[c]} /\ strayed' = strayed \ {who[c]}
            \/ /\ strayed' = strayed \cup ({who[c]} \ index.accounts)
               /\ UNCHANGED keyring
       ELSE UNCHANGED <<keyring, strayed>>
    /\ UNCHANGED <<index, vanished, engine, cache, lock>>

(* The end of a change of account. A log-out goes on to the next account,  *)
(* unless the engine is gcloud by now: each removal asks for it anew, and  *)
(* with gcloud it is refused.                                              *)
Onwards(c) ==
    IF todo[c] = {} \/ engine = "gcloud"
    THEN Return(c)
    ELSE \E a \in todo[c] :
           /\ Goto(c, "revoke")
           /\ who' = [who EXCEPT ![c] = a]
           /\ todo' = [todo EXCEPT ![c] = @ \ {a}]
           /\ UNCHANGED <<op, eng, snap>>

(* Mutant: a fetch under way is not waited for.                            *)
InvalidateUnlocked(c) ==
    /\ pc[c] = "invalidate"
    /\ cache' = NoToken
    /\ Onwards(c)
    /\ UNCHANGED <<store, engine, lock, faults>>

(* invalidate_cached_access_token, under the cache's mutex.                *)
Invalidate(c) ==
    /\ pc[c] = "invalidate" /\ lock = NoCaller
    /\ cache' = NoToken
    /\ Onwards(c)
    /\ UNCHANGED <<store, engine, lock, faults>>

----------------------------------------------------------------------------
(* remove, list and log_out_all                                            *)

(* revoke_then_delete: the answer of Google is logged and no more.         *)
Revoke(c) ==
    /\ pc[c] = "revoke"
    /\ Enter(c, "keydel")
    /\ UNCHANGED <<store, engine, cache, lock, op, who, eng, snap, todo, faults>>

(* delete_account: the secret first; one that is not there is no error.    *)
DeleteSecret(c) ==
    /\ pc[c] = "keydel"
    /\ keyring' = keyring \ {who[c]} /\ strayed' = strayed \ {who[c]}
    /\ Goto(c, "load")
    /\ UNCHANGED <<index, vanished, engine, cache, lock, op, who, eng, snap, todo, faults>>

DeleteSecretFails(c) ==
    /\ Fault /\ pc[c] = "keydel"
    /\ Return(c)
    /\ UNCHANGED <<store, engine, cache, lock>>

(* What list_accounts keeps: all but those the keyring says it lacks. An   *)
(* active account that is no longer kept is cleared.                       *)
Kept(c, answered) == snap[c].accounts \ (answered \ keyring)
Pruned(c, kept) ==
    [accounts |-> kept,
     active   |-> IF snap[c].active \in kept THEN snap[c].active ELSE NoAccount]

(* list_accounts; a failed save is ignored, the pruned list is returned    *)
(* all the same. log_out_all then removes what was listed, one by one, the *)
(* engine permitting.                                                      *)
Prunes(c, kept, written) ==
    /\ pc[c] = "prune"
    /\ IF written
       THEN /\ index' = Pruned(c, kept)
            /\ vanished' = vanished \cup (snap[c].accounts \ kept)
            /\ strayed' = (strayed \cup Dropped(Pruned(c, kept))) \ kept
       ELSE UNCHANGED <<index, vanished, strayed>>
    /\ IF op[c] = "list" \/ kept = {} \/ engine = "gcloud"
       THEN Return(c)
       ELSE \E a \in kept :
              /\ Goto(c, "revoke")
              /\ who' = [who EXCEPT ![c] = a]
              /\ todo' = [todo EXCEPT ![c] = kept \ {a}]
              /\ snap' = [snap EXCEPT ![c] = EmptyIndex]
              /\ UNCHANGED <<op, eng>>
    /\ UNCHANGED <<keyring, engine, cache, lock>>

Prune(c) ==
    LET kept == Kept(c, snap[c].accounts)
    IN  Prunes(c, kept, Pruned(c, kept) # snap[c]) /\ UNCHANGED faults

(* The keyring did not answer for some, or the pruned index was not saved. *)
PruneFails(c, answered) ==
    /\ answered \subseteq snap[c].accounts
    /\ LET kept == Kept(c, answered)
       IN  \/ answered # snap[c].accounts /\ Prunes(c, kept, Pruned(c, kept) # snap[c])
           \/ answered = snap[c].accounts /\ Pruned(c, kept) # snap[c] /\ Prunes(c, kept, FALSE)
    /\ Fault

----------------------------------------------------------------------------
(* set_auth_engine                                                         *)

StorePref(c, e) ==
    /\ pc[c] = "pref"
    /\ engine' = e
    /\ Goto(c, "invalidate")
    /\ UNCHANGED <<store, cache, lock, op, who, eng, snap, todo, faults>>

StorePrefFails(c) ==
    /\ Fault /\ pc[c] = "pref"
    /\ Return(c)
    /\ UNCHANGED <<store, engine, cache, lock>>

----------------------------------------------------------------------------
(* get_access_token: the engine is read when the call begins, the mutex is *)
(* held from the look at the cache to the end of the fetch.                *)

is_usable_for(e) == cache # NoToken /\ cache.engine = e

FetchHit(c) ==
    /\ pc[c] = "lock" /\ lock = NoCaller
    /\ is_usable_for(eng[c])
    /\ Return(c)
    /\ UNCHANGED <<store, engine, cache, lock, faults>>

FetchMiss(c) ==
    /\ pc[c] = "lock" /\ lock = NoCaller
    /\ ~is_usable_for(eng[c])
    /\ lock' = c
    /\ Goto(c, IF eng[c] = "native" THEN "active" ELSE "refresh")
    /\ UNCHANGED <<store, engine, cache, op, who, eng, snap, todo, faults>>

Release(c) == lock' = IF lock = c THEN NoCaller ELSE lock

(* Who is active, and is there a secret? ensure_signed_in asks the same,   *)
(* without the mutex, and signs in when there is none.                     *)
ReadActive(c) ==
    /\ pc[c] = "active"
    /\ IF index.active \in keyring
       THEN /\ who' = [who EXCEPT ![c] = index.active]
            /\ Goto(c, "refresh")
            /\ UNCHANGED <<lock, op, eng, snap, todo>>
       ELSE IF op[c] = "ensure"
            THEN Goto(c, "browser") /\ UNCHANGED <<lock, op, who, eng, snap, todo>>
            ELSE Return(c) /\ Release(c)
    /\ UNCHANGED <<store, engine, cache, faults>>

ReadActiveFails(c) ==
    /\ Fault /\ pc[c] = "active"
    /\ Return(c) /\ Release(c)
    /\ UNCHANGED <<store, engine, cache>>

(* A fetch stores the token Google, or gcloud, gave and releases the mutex.*)
Refreshed(c) ==
    /\ pc[c] = "refresh"
    /\ Return(c) /\ Release(c)
    /\ cache' = IF op[c] = "fetch" THEN [acct |-> who[c], engine |-> eng[c]] ELSE cache
    /\ UNCHANGED <<store, engine, faults>>

(* No answer, or a refresh token that needs a new sign-in: an error to a   *)
(* fetch, which must not open a browser; a sign-in for ensure_signed_in.   *)
RefreshFails(c, needsReauth) ==
    /\ pc[c] = "refresh"
    /\ IF needsReauth /\ op[c] = "ensure"
       THEN Goto(c, "browser") /\ UNCHANGED <<lock, op, who, eng, snap, todo>>
       ELSE Return(c) /\ Release(c)
    /\ UNCHANGED <<store, engine, cache, faults>>

----------------------------------------------------------------------------
(* auth_status: is the active account's secret readable? The keyring may   *)
(* wait for the user to unlock it, so it is read on a thread of its own,   *)
(* which the caller gives three seconds. The answer changes no state.      *)

(* The slot is looked up, or taken, under its mutex.                       *)
CheckCredential(c) ==
    /\ pc[c] = "status"
    /\ IF index.active = NoAccount
       THEN Return(c) /\ UNCHANGED reads
       ELSE LET a == index.active
            IN  /\ IF slot[a] # NoRead
                   THEN waits' = [waits EXCEPT ![c] = slot[a]] /\ UNCHANGED <<reader, slot>>
                   ELSE \E r \in Reads :
                          /\ reader[r] = NoAccount /\ \A d \in Callers : waits[d] # r
                          /\ reader' = [reader EXCEPT ![r] = a]
                          /\ slot' = [slot EXCEPT ![a] = r]
                          /\ waits' = [waits EXCEPT ![c] = r]
                /\ Goto(c, "wait")
                /\ UNCHANGED <<op, who, eng, snap, todo>>
    /\ UNCHANGED <<store, engine, cache, lock, over, faults>>

(* A read that ends, or panics, first frees its slot ...                   *)
ReadFrees(r) ==
    /\ reader[r] # NoAccount /\ r \notin over
    /\ over' = over \cup {r}
    /\ slot' = [slot EXCEPT ![reader[r]] = NoRead]
    /\ UNCHANGED <<store, engine, cache, lock, local, reader, waits, faults>>

(* ... and then answers those who wait for it.                             *)
ReadAnswers(r) ==
    /\ r \in over
    /\ over' = over \ {r}
    /\ reader' = [reader EXCEPT ![r] = NoAccount]
    /\ UNCHANGED <<store, engine, cache, lock, local, slot, waits, faults>>

StatusAnswered(c) ==
    /\ pc[c] = "wait" /\ reader[waits[c]] = NoAccount
    /\ Return(c) /\ waits' = [waits EXCEPT ![c] = NoRead]
    /\ UNCHANGED <<store, engine, cache, lock, reader, slot, over, faults>>

(* Mutant: the deadline gives up the slot together with the wait.          *)
StatusPendingFrees(c) ==
    /\ pc[c] = "wait"
    /\ Return(c) /\ waits' = [waits EXCEPT ![c] = NoRead]
    /\ slot' = [a \in Accounts |-> IF slot[a] = waits[c] THEN NoRead ELSE slot[a]]
    /\ UNCHANGED <<store, engine, cache, lock, reader, over, faults>>

(* No answer within CREDENTIAL_READ_TIMEOUT: the read goes on.             *)
StatusPending(c) ==
    /\ pc[c] = "wait"
    /\ Return(c) /\ waits' = [waits EXCEPT ![c] = NoRead]
    /\ UNCHANGED <<store, engine, cache, lock, reader, slot, over, faults>>

----------------------------------------------------------------------------
(* The environment                                                         *)

(* The cached token reaches its time to live.                              *)
Expire ==
    /\ cache # NoToken /\ lock = NoCaller
    /\ cache' = NoToken
    /\ UNCHANGED <<store, engine, lock, local, faults>>

(* A secret disappears from the keyring behind the program's back.         *)
Cleared(a) ==
    /\ Fault /\ a \in keyring
    /\ keyring' = keyring \ {a} /\ strayed' = strayed \ {a}
    /\ UNCHANGED <<index, vanished, engine, cache, lock, local>>

(* The program is killed and started again: the disk and the keyring stay. *)
Crash ==
    /\ Fault
    /\ strayed' = strayed \cup (keyring \ index.accounts)
    /\ pc' = [c \in Callers |-> "idle"] /\ op' = [c \in Callers |-> "fetch"]
    /\ who' = [c \in Callers |-> NoAccount] /\ eng' = [c \in Callers |-> "native"]
    /\ snap' = [c \in Callers |-> EmptyIndex] /\ todo' = [c \in Callers |-> {}]
    /\ reader' = [r \in Reads |-> NoAccount] /\ slot' = [a \in Accounts |-> NoRead]
    /\ over' = {} /\ waits' = [c \in Callers |-> NoRead]
    /\ cache' = NoToken /\ lock' = NoCaller
    /\ UNCHANGED <<keyring, index, vanished, engine>>

----------------------------------------------------------------------------
Kinds == {"code", "mismatch", "denied", "timeout", "exchange fails"}

Step(c) ==
    \/ \E kind \in Kinds : \E a \in Accounts : Redirect(c, kind, a)
    \/ StoreSecret(c) \/ StoreSecretFails(c)
    \/ Load(c) \/ LoadFails(c) \/ Save(c) \/ SaveFails(c) \/ Invalidate(c)
    \/ Revoke(c) \/ DeleteSecret(c) \/ DeleteSecretFails(c)
    \/ Prune(c)
    \/ \E answered \in SUBSET Accounts : PruneFails(c, answered)
    \/ \E e \in Engines : StorePref(c, e)
    \/ StorePrefFails(c)
    \/ FetchHit(c) \/ FetchMiss(c)
    \/ ReadActive(c) \/ ReadActiveFails(c) \/ Refreshed(c)
    \/ \E needsReauth \in BOOLEAN : RefreshFails(c, needsReauth)

Status ==
    \/ \E c \in Callers : CheckCredential(c) \/ StatusAnswered(c) \/ StatusPending(c)
    \/ \E r \in Reads : ReadFrees(r) \/ ReadAnswers(r)

Next ==
    \/ /\ \/ \E c \in Callers : \E o \in Ops : \E a \in Accounts \cup {NoAccount} : Call(c, o, a)
          \/ \E c \in Callers : Step(c)
          \/ Expire
          \/ \E a \in Accounts : Cleared(a)
       /\ UNCHANGED reads
    \/ Status
    \/ Crash

Spec == Init /\ [][Next]_vars

----------------------------------------------------------------------------
Owed == \E c \in Callers : pc[c] = "invalidate"
Listing(a) == \E c \in Callers : op[c] = "signin" /\ who[c] = a /\ pc[c] \in {"load", "save"}

(* No secret is left behind that nothing lists, unless a crash fell        *)
(* between the two writes, the keyring refused the rollback, or an         *)
(* unreadable index was written over.                                      *)
NothingUnlisted ==
    \A a \in keyring \ index.accounts : a \in strayed \/ Listing(a)

(* The active account is one of those listed, whatever order of saves,     *)
(* removals and prunings made the index.                                   *)
ActiveIsListed == index.active \in index.accounts \cup {NoAccount}

(* The token served from the cache is the active account's, whenever no    *)
(* call that changed the account has yet to return: no switch, removal or  *)
(* sign-in leaves a token of the account before, even one whose fetch was  *)
(* under way. (An account whose secret vanished is cleared by a listing,   *)
(* which does not touch the cache.)                                        *)
ServedIsActive ==
    cache.acct # NoAccount =>
        cache.acct = index.active \/ Owed \/ cache.acct \in vanished

(* Whoever holds the mutex is fetching: no caller holds it while it waits  *)
(* for a browser, for the mutex once more, or for nothing at all, so every *)
(* other call gets its turn.                                               *)
HolderFetches ==
    \A c \in Callers : lock = c <=> op[c] = "fetch" /\ pc[c] \in {"active", "refresh"}

(* "At most one keyring read per account at a time": checks that time out,  *)
(* panic or ask again do not stack prompts. And whoever joins a slot joins *)
(* a read that still goes on: "a caller that sees this answer and asks     *)
(* again starts a fresh read", and no slot is left that nobody will fill.  *)
UnderWay(r) == reader[r] # NoAccount /\ r \notin over
ChecksShareOneRead ==
    /\ \A q, r \in Reads :
          UnderWay(q) /\ UnderWay(r) /\ reader[q] = reader[r] => q = r
    /\ \A a \in Accounts :
          slot[a] # NoRead => UnderWay(slot[a]) /\ reader[slot[a]] = a

(* "The native arm actually empties it": a log-out that succeeds leaves no *)
(* secret in the keyring.                                                  *)
LogOutEmpties ==
    [][\A c \in Callers :
         op[c] = "logout" /\ pc[c] \in {"prune", "invalidate"} /\ pc'[c] = "idle"
         /\ faults' = faults /\ engine = "native" => keyring' = {}]_vars
=============================================================================
