--------------------------- MODULE InstanceAccess ---------------------------
(***************************************************************************)
(* Getting into a VM: the tabs that need an SSH login, which probe for one *)
(* and, with the user's consent, publish LCC's key; and the resets of a    *)
(* Windows password. Both rewrite the one metadata list of the instance,   *)
(* which others write too, under an optimistic fingerprint; the answer to  *)
(* a write is an operation that may still fail. The VM's agent picks up    *)
(* what the metadata says and answers resets on a serial port.             *)
(***************************************************************************)
EXTENDS Naturals, Sequences, FiniteSets

CONSTANTS Tabs,      \* the sessions that ask for SSH access to the VM
          Windows,   \* the windows they live in: each has its own _inFlight
          Resets,    \* the password resets, each with a key pair of its own
          Keys,      \* the key pairs LCC may generate
          Theirs,    \* the key pair of somebody else's reset
          None,
          MaxForeign \* bound: the writes of others

ASSUME AccessAssumption ==
    /\ Tabs \cap Resets = {} /\ None \notin Tabs \cup Resets \cup Keys
    /\ Theirs \notin Resets \cup {None} /\ MaxForeign \in Nat

Writers == Tabs \cup Resets
Moduli  == Resets \cup {Theirs}

VARIABLES
    guest,      \* what the VM runs: SSH keys are for one kind, passwords for the other
    osLogin,    \* the VM's enable-oslogin
    meta,       \* the instance's metadata; its fingerprint is a digest of it
    op,         \* the operation each writer's last write was answered with
    foreign,    \* how many writes others made
    account,    \* the OS Login account: whether it has a profile, its keys
    authorised, \* the logins sshd accepts
    serial,     \* serial port 4: the agent's answers, the last maybe unfinished
    handled,    \* the windows-keys request the agent answered last
    keyFile,    \* the key pair on disk
    consent,    \* setSshProvisionConsent
    window,     \* the window of each tab
    flight,     \* _inFlight: the tab that asks for everybody in the window
    tab,        \* the calls of ensureSshAccess
    reset,      \* the calls of generate_windows_password
    stored      \* the credential in the keyring: whose password it is

cloud  == <<meta, op, foreign, account>>
vm     == <<guest, osLogin, authorised, serial, handled>>
ssh    == <<keyFile, consent, window, flight, tab>>
win    == <<reset, stored>>
vars   == <<cloud, vm, ssh, win>>

Metas    == [keys : SUBSET Keys, request : Moduli \cup {None}, startup : BOOLEAN]
Blank    == [keys |-> {}, request |-> None, startup |-> FALSE]
NoOp     == [status |-> "none", on |-> Blank, body |-> Blank]
Users    == {"none", "local", "mangled", "posix"}
TabPcs   == {"idle", "joined", "probe", "key", "consent", "asking", "provision",
             "publish", "read", "write", "operation", "session"}

Fresh(answer) ==
    [pc |-> "idle", user |-> "none", key |-> None, fresh |-> None, attempt |-> 0,
     read |-> Blank, late |-> FALSE, landed |-> FALSE, moved |-> 0, answer |-> answer]

TypeOK ==
    /\ guest \in {"linux", "windows"} /\ osLogin \in BOOLEAN
    /\ meta \in Metas /\ foreign \in 0..MaxForeign
    /\ op \in [Writers ->
               [status : {"none", "pending", "done", "error"}, on : Metas, body : Metas]]
    /\ account \in [profile : BOOLEAN, keys : SUBSET Keys]
    /\ authorised \subseteq Users \X Keys
    /\ serial \in [lines : Seq(Moduli), open : BOOLEAN]
    /\ handled \in Moduli \cup {None}
    /\ keyFile \in Keys \cup {None} /\ consent \in {"unset", "yes", "no"}
    /\ window \in [Tabs -> Windows] /\ flight \in [Windows -> Tabs \cup {None}]
    /\ tab \in [Tabs -> [pc : TabPcs, user : Users, key : Keys \cup {None},
                         fresh : Keys \cup {None}, attempt : 0..2, read : Metas,
                         late : BOOLEAN, landed : BOOLEAN, moved : 0..2,
                         answer : {"none", "granted", "refused", "conflict", "failed"}]]
    /\ reset \in [Resets -> [pc : {"idle", "read", "write", "poll", "store"}, read : Metas,
                             late : BOOLEAN, from : Nat, answer : {"none", "ok", "failed"}]]
    /\ stored \in Moduli \cup {None}

Init ==
    /\ guest \in {"linux", "windows"} /\ osLogin \in {FALSE, guest = "linux"}
    /\ meta = Blank /\ foreign = 0 /\ op = [w \in Writers |-> NoOp]
    /\ account \in [profile : {FALSE, osLogin}, keys : {{}}]
    /\ authorised = {} /\ serial = [lines |-> <<>>, open |-> FALSE] /\ handled = None
    /\ keyFile = None /\ consent = "unset"
    /\ window \in [Tabs -> Windows] /\ flight = [w \in Windows |-> None]
    /\ tab = [t \in Tabs |-> Fresh("none")]
    /\ reset = [r \in Resets |-> [pc |-> "idle", read |-> Blank, late |-> FALSE, from |-> 0,
                                  answer |-> "none"]]
    /\ stored \in (IF guest = "windows" THEN {None, Theirs} ELSE {None})

-----------------------------------------------------------------------------
(* The metadata server. A write carries the fingerprint its writer read: it *)
(* is refused with 412 when that is stale, and otherwise becomes an         *)
(* operation, which fails if the metadata has moved by then.                *)

SentBlind(read) == meta   \* mutant: the fingerprint is read afresh for the write
Sent(read)  == read
Stale(read) == Sent(read) # meta

\* A wait ends at its deadline.
GivesUpNever(late) == FALSE   \* mutant: no deadline
GivesUp(late) == late

Accepted(w, read, body) ==
    op' = [op EXCEPT ![w] = [status |-> "pending", on |-> Sent(read), body |-> body]]

\* A change of the metadata by w counts for the tabs about to write; it may be
\* a write of the tab's own that an earlier call gave up on.
Noticed(w) ==
    [t \in Tabs |->
        LET waits == tab[t].attempt > 0 /\ tab[t].pc \in {"read", "write"} IN
        [tab[t] EXCEPT !.landed = @ \/ t = w,
                       !.moved  = IF waits /\ @ < 2 THEN @ + 1 ELSE @]]

Lands(w) ==
    /\ op[w].status = "pending" /\ op[w].on = meta
    /\ meta' = op[w].body
    /\ op' = [op EXCEPT ![w] = [NoOp EXCEPT !.status = "done"]]
    /\ tab' = Noticed(w)
    /\ UNCHANGED <<foreign, account, vm, keyFile, consent, window, flight, win>>

FailsToLand(w) ==
    /\ op[w].status = "pending"
    /\ op' = [op EXCEPT ![w] = [NoOp EXCEPT !.status = "error"]]
    /\ UNCHANGED <<meta, foreign, account, vm, ssh, win>>

\* Somebody else, with gcloud or in the console, adds an item of their own or
\* asks for a Windows password.
OthersWrite ==
    /\ foreign < MaxForeign
    /\ \/ meta' = [meta EXCEPT !.startup = ~@]
       \/ meta' = [meta EXCEPT !.request = Theirs]
    /\ meta' # meta
    /\ foreign' = foreign + 1 /\ tab' = Noticed(None)
    /\ UNCHANGED <<op, account, vm, keyFile, consent, window, flight, win>>

\* The deadline of the wait a call is in passes.
TabExpires(t) ==
    /\ tab[t].pc \in {"operation", "session"} /\ ~tab[t].late
    /\ tab' = [tab EXCEPT ![t].late = TRUE]
    /\ UNCHANGED <<cloud, vm, keyFile, consent, window, flight, win>>

ResetExpires(r) ==
    /\ reset[r].pc = "poll" /\ ~reset[r].late
    /\ reset' = [reset EXCEPT ![r].late = TRUE]
    /\ UNCHANGED <<cloud, vm, ssh, stored>>

-----------------------------------------------------------------------------
(* The VM: sshd's view of the keys, and the agent's answer to a request for *)
(* a password, a line of which half may be on the port when it is read.     *)

AgentSyncs ==
    /\ authorised' = IF osLogin THEN {"posix"} \X account.keys ELSE {"local"} \X meta.keys
    /\ authorised' # authorised
    /\ UNCHANGED <<cloud, guest, osLogin, serial, handled, ssh, win>>

AgentStartsLine ==
    /\ guest = "windows" /\ ~serial.open /\ meta.request \notin {None, handled}
    /\ handled' = meta.request
    /\ serial' = [lines |-> Append(serial.lines, meta.request), open |-> TRUE]
    /\ UNCHANGED <<cloud, guest, osLogin, authorised, ssh, win>>

AgentEndsLine ==
    /\ serial.open
    /\ serial' = [serial EXCEPT !.open = FALSE]
    /\ UNCHANGED <<cloud, guest, osLogin, authorised, handled, ssh, win>>

-----------------------------------------------------------------------------
(* ensureSshAccess: one flight per window, which the other tabs join.       *)

At(t, pc)   == tab[t].pc = pc
Goto(t, pc) == tab' = [tab EXCEPT ![t].pc = pc] /\ UNCHANGED flight

\* The flight ends: it and every tab that joined it get the same answer.
Answer(t, answer) ==
    LET w == window[t]
        mine(u) == u = t \/ (window[u] = w /\ At(u, "joined") /\ flight[w] = t)
    IN /\ tab' = [u \in Tabs |-> IF mine(u) THEN Fresh(answer) ELSE tab[u]]
       /\ flight' = [flight EXCEPT ![w] = IF @ = t THEN None ELSE @]

Joins(t) == flight[window[t]] # None

Ensure(t) ==
    /\ guest = "linux" /\ At(t, "idle") /\ tab[t].answer = "none"
    /\ tab' = [tab EXCEPT ![t] = [Fresh("none") EXCEPT !.pc = IF Joins(t) THEN "joined" ELSE "probe"]]
    /\ flight' = IF Joins(t) THEN flight ELSE [flight EXCEPT ![window[t]] = t]
    /\ UNCHANGED <<cloud, vm, keyFile, consent, window, win>>

\* resolve_username and choose_username: the profile may be unreadable, and
\* there may be none yet.
ResolvedUsers ==
    IF ~osLogin THEN {"local"}
    ELSE {"mangled"} \cup (IF account.profile THEN {"posix"} ELSE {})

Opens(user, key) == <<user, key>> \in authorised

\* probe_ssh_access: a real login, with the agent's keys, the user's or LCC's.
\* Only a refusal of all of them leads on to publishing.
Probe(t) ==
    /\ At(t, "probe")
    /\ \/ Answer(t, "granted")   \* with the agent's or the user's own key
       \/ \E user \in ResolvedUsers :
             IF Opens(user, keyFile) THEN Answer(t, "granted") ELSE Goto(t, "key")
    /\ UNCHANGED <<cloud, vm, keyFile, consent, window, win>>

\* load_or_create_key: looks whether the file is there, and writes it if it
\* was not; another call may write its own in between.
LoadKey(t, next) ==
    /\ \/ /\ tab[t].fresh = None /\ keyFile # None
          /\ tab' = [tab EXCEPT ![t].key = keyFile, ![t].pc = next]
          /\ UNCHANGED keyFile
       \/ /\ tab[t].fresh = None /\ keyFile = None
          /\ \E k \in Keys : /\ \A u \in Tabs : tab[u].fresh # k
                            /\ tab' = [tab EXCEPT ![t].fresh = k]
          /\ UNCHANGED keyFile
       \/ /\ tab[t].fresh # None
          /\ keyFile' = tab[t].fresh
          /\ tab' = [tab EXCEPT ![t].key = tab[t].fresh, ![t].fresh = None, ![t].pc = next]
    /\ UNCHANGED flight

ProbeKey(t) ==
    /\ At(t, "key") /\ LoadKey(t, "consent")
    /\ UNCHANGED <<cloud, vm, consent, window, win>>

\* What the user said for the project before decides, or the user is asked;
\* a call whose window is gone by then is abandoned.
Consent(t) ==
    /\ At(t, "consent")
    /\ \/ consent = "no" /\ Answer(t, "refused")
       \/ consent = "yes" /\ Goto(t, "provision")
       \/ consent = "unset" /\ Goto(t, "asking")
       \/ consent = "unset" /\ Answer(t, "failed")
    /\ UNCHANGED <<cloud, vm, keyFile, consent, window, win>>

UserAnswers(t) ==
    /\ At(t, "asking")
    /\ \/ consent' = "yes" /\ Goto(t, "provision")
       \/ consent' = "no" /\ Answer(t, "refused")
       \/ UNCHANGED consent /\ Answer(t, "failed")
    /\ UNCHANGED <<cloud, vm, keyFile, window, win>>

-----------------------------------------------------------------------------
(* provision_ssh_access: publish the key, then log in with it until the VM  *)
(* has picked it up.                                                        *)

Provision(t) ==
    /\ At(t, "provision") /\ LoadKey(t, IF osLogin THEN "publish" ELSE "read")
    /\ UNCHANGED <<cloud, vm, consent, window, win>>

\* importSshPublicKey creates the profile; its answer usually names the user,
\* and the name resolved before is kept when it does not.
PublishToOsLogin(t) ==
    /\ At(t, "publish")
    /\ \E user \in ResolvedUsers \cup {"posix"} :
         tab' = [tab EXCEPT ![t].user = user, ![t].pc = "session"]
    /\ account' = [profile |-> TRUE, keys |-> account.keys \cup {tab[t].key}]
    /\ UNCHANGED <<meta, op, foreign, vm, flight, keyFile, consent, window, win>>

\* publish_attempt, the read: with it begins one of the two attempts.
ReadMetadata(t) ==
    /\ At(t, "read")
    /\ tab' = [tab EXCEPT ![t].attempt = @ + 1, ![t].user = "local", ![t].read = meta,
                          ![t].pc = "write"]
    /\ UNCHANGED <<cloud, vm, keyFile, consent, window, flight, win>>

\* merge_ssh_keys and metadata_items_with_ssh_keys: every other entry and
\* every other item stays as it was read.
Merged(items, key) == [items EXCEPT !.keys = @ \cup {key}]

\* Where an accepted write leads.
AfterWriteAtOnce == "session"   \* mutant: the operation is not waited for
AfterWrite == "operation"

\* with_fingerprint_retry: two attempts.
MayRetryNever(attempt) == FALSE         \* mutant: no retry
MayRetry(attempt) == attempt < 2

\* The write; a stale fingerprint (412) is retried once, from the read.
WriteMetadata(t) ==
    LET read == tab[t].read IN
    /\ At(t, "write")
    /\ \/ /\ ~Stale(read) /\ Accepted(t, read, Merged(read, tab[t].key))
          /\ tab' = [tab EXCEPT ![t].pc = AfterWrite, ![t].read = Blank, ![t].landed = FALSE]
          /\ UNCHANGED flight
       \/ Stale(read) /\ MayRetry(tab[t].attempt) /\ Goto(t, "read") /\ UNCHANGED op
       \/ Stale(read) /\ ~MayRetry(tab[t].attempt) /\ Answer(t, "conflict") /\ UNCHANGED op
    /\ UNCHANGED <<meta, foreign, account, vm, keyFile, consent, window, win>>

\* wait_for_zone_operation: only an operation that is done without an error
\* means that the key is in the metadata.
WaitForOperation(t) ==
    /\ At(t, "operation")
    /\ \/ /\ op[t].status = "done"
          /\ tab' = [tab EXCEPT ![t].pc = "session", ![t].late = FALSE]
          /\ UNCHANGED flight
       \/ op[t].status = "error" /\ Answer(t, "failed")
       \/ op[t].status = "pending" /\ GivesUp(tab[t].late) /\ Answer(t, "failed")
    /\ UNCHANGED <<cloud, vm, keyFile, consent, window, win>>

\* A login with the key on disk, tried again until the deadline while the VM
\* refuses it; any other failure, the tunnel's too, ends the call.
Session(t) ==
    /\ At(t, "session")
    /\ \/ Opens(tab[t].user, keyFile) /\ Answer(t, "granted")
       \/ ~Opens(tab[t].user, keyFile) /\ GivesUp(tab[t].late) /\ Answer(t, "failed")
    /\ UNCHANGED <<cloud, vm, keyFile, consent, window, win>>

\* A request, the tunnel or a login fails for a reason of its own, and with it
\* the call: nothing but a refusal of the credentials is tried again. An import
\* and a write may have been carried out although their answer is lost.
Breaks(t) ==
    /\ tab[t].pc \in {"probe", "provision", "publish", "read", "write", "operation", "session"}
    /\ Answer(t, "failed")
    /\ UNCHANGED <<meta, foreign, vm, keyFile, consent, window, win>>
    /\ \/ At(t, "publish") /\ account' = [profile |-> TRUE, keys |-> account.keys \cup {tab[t].key}]
          /\ UNCHANGED op
       \/ At(t, "write") /\ ~Stale(tab[t].read)
          /\ Accepted(t, tab[t].read, Merged(tab[t].read, tab[t].key)) /\ UNCHANGED account
       \/ UNCHANGED <<account, op>>

-----------------------------------------------------------------------------
(* generate_windows_password and reset_windows_password: ask through the    *)
(* metadata, wait on the serial port, decrypt, store.                       *)

Step(r, pc)     == reset' = [reset EXCEPT ![r].pc = pc]
Ends(r, answer) == reset' = [reset EXCEPT ![r] = [pc |-> "idle", read |-> Blank, late |-> FALSE,
                                                  from |-> 0, answer |-> answer]]

\* A reset first deletes the credential there is, whatever comes of it.
StartReset(r) ==
    /\ guest = "windows" /\ reset[r].pc = "idle" /\ reset[r].answer = "none"
    /\ Step(r, "read") /\ stored' \in {None, stored}
    /\ UNCHANGED <<cloud, vm, ssh>>

ResetReads(r) ==
    /\ reset[r].pc = "read"
    /\ reset' = [reset EXCEPT ![r].pc = "write", ![r].read = meta]
    /\ UNCHANGED <<cloud, vm, ssh, stored>>

\* set_windows_keys_metadata: a stale fingerprint is not tried again, and
\* the operation is not waited for.
ResetWrites(r) ==
    LET read == reset[r].read IN
    /\ reset[r].pc = "write"
    /\ \/ /\ ~Stale(read) /\ Accepted(r, read, [read EXCEPT !.request = r])
          /\ reset' = [reset EXCEPT ![r].pc = "poll", ![r].read = Blank]
       \/ Stale(read) /\ Ends(r, "failed") /\ UNCHANGED op
    /\ UNCHANGED <<meta, foreign, account, vm, ssh, stored>>

\* The port is read from where the last poll stopped, half a line included:
\* the rest of that line, alone, is no answer to anybody.
Written == 2 * Len(serial.lines) - (IF serial.open THEN 1 ELSE 0)
SeenWhole(from) == {i \in 1..Len(serial.lines) : 2 * i - 2 >= from /\ 2 * i <= Written}

\* parse_serial_output: a line that answers this request's own key.
Answered(r, lines) == \E i \in lines : serial.lines[i] = r

\* A poll that fails changes nothing; the next one is made.
PollPort(r) ==
    LET found == Answered(r, SeenWhole(reset[r].from)) IN
    /\ reset[r].pc = "poll" /\ ~GivesUp(reset[r].late)
    /\ \/ ~found /\ reset' = [reset EXCEPT ![r].from = Written]
       \/ found /\ reset' = [reset EXCEPT ![r].pc = "store", ![r].from = 0]
       \/ found /\ Ends(r, "failed")   \* the agent answers with an error
    /\ UNCHANGED <<cloud, vm, ssh, stored>>

PollEnds(r) ==
    /\ reset[r].pc = "poll" /\ GivesUp(reset[r].late)
    /\ Ends(r, "failed")
    /\ UNCHANGED <<cloud, vm, ssh, stored>>

StorePassword(r) ==
    /\ reset[r].pc = "store"
    /\ Ends(r, "ok") /\ stored' = r
    /\ UNCHANGED <<cloud, vm, ssh>>

\* A request or the keyring fails: a request that was sent may have been
\* carried out, a password that was stored may be in the keyring unlisted.
ResetBreaks(r) ==
    /\ reset[r].pc \in {"read", "write", "store"}
    /\ Ends(r, "failed")
    /\ stored' \in {stored} \cup (IF reset[r].pc = "store" THEN {r} ELSE {})
    /\ UNCHANGED <<meta, foreign, account, vm, ssh>>
    /\ \/ /\ reset[r].pc = "write" /\ ~Stale(reset[r].read)
          /\ Accepted(r, reset[r].read, [reset[r].read EXCEPT !.request = r])
       \/ UNCHANGED op

-----------------------------------------------------------------------------
TabRuns(t) ==
    \/ Probe(t) \/ ProbeKey(t) \/ Consent(t) \/ Provision(t) \/ PublishToOsLogin(t)
    \/ ReadMetadata(t) \/ WriteMetadata(t) \/ WaitForOperation(t) \/ Session(t)

ResetRuns(r) == ResetReads(r) \/ ResetWrites(r) \/ PollEnds(r) \/ StorePassword(r)

Agent == AgentSyncs \/ AgentStartsLine \/ AgentEndsLine

Next ==
    \/ \E t \in Tabs : Ensure(t) \/ TabRuns(t) \/ UserAnswers(t) \/ Breaks(t) \/ TabExpires(t)
    \/ \E r \in Resets : \/ StartReset(r) \/ ResetRuns(r) \/ PollPort(r)
                        \/ ResetBreaks(r) \/ ResetExpires(r)
    \/ \E w \in Writers : Lands(w) \/ FailsToLand(w)
    \/ OthersWrite \/ Agent

Spec == Init /\ [][Next]_vars

\* Requests are answered or time out, sessions end, clocks run. Nobody need
\* answer a dialog, and neither the server's operations nor the VM's agent
\* need ever get anywhere.
FairSpec ==
    /\ Spec
    /\ \A t \in Tabs : WF_vars(TabRuns(t)) /\ WF_vars(TabExpires(t))
    /\ \A r \in Resets : WF_vars(ResetRuns(r)) /\ WF_vars(ResetExpires(r))

-----------------------------------------------------------------------------
\* A tab goes on to log in with a key it published in the metadata only when
\* the write took effect: the answer to the write is a promise, not a result.
PublishedMeansLanded ==
    \A t \in Tabs : At(t, "session") /\ ~osLogin => tab[t].landed

\* Two tabs of a window never probe, ask or publish for the VM side by side.
OneFlight ==
    \A t, u \in Tabs :
        t # u /\ window[t] = window[u] => \E v \in {t, u} : tab[v].pc \in {"idle", "joined"}

\* One conflict is absorbed: a call that gives up because the metadata kept
\* changing has seen others change it at least twice since it first read it.
ConflictMeansContention ==
    [][\A t \in Tabs : At(t, "write") /\ tab'[t].answer = "conflict" => tab[t].moved = 2]_vars

\* Whatever LCC writes keeps the keys and the items others put there since it
\* read: only the request of a password replaces the one before.
NobodyLosesAnItem ==
    [][/\ meta.keys \subseteq meta'.keys
       /\ foreign' = foreign =>
             /\ meta'.startup = meta.startup
             /\ meta'.request \in {meta.request} \cup Resets]_vars

\* Every call ends. A tab that asks is answered, the ones that joined a flight
\* too, unless the user leaves the dialog open; a reset ends with a password or
\* without, whatever the agent does.
CallsEnd ==
    /\ \A t \in Tabs : (tab[t].pc # "idle") ~>
          (tab[t].pc = "idle" \/ \E u \in Tabs : At(u, "asking"))
    /\ \A r \in Resets : (reset[r].pc # "idle") ~> (reset[r].answer # "none")
=============================================================================
