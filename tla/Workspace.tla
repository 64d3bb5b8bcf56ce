----------------------------- MODULE Workspace -----------------------------
(***************************************************************************)
(* The dashboard's workspace: the projects the user selected, the VMs each *)
(* of them lists, and the account all of it belongs to. The selection is   *)
(* stored per account and once more as "the" selection; a switch of account*)
(* saves the one and restores the other's.                                 *)
(*                                                                         *)
(* The notifiers run on one thread: what they do between two awaits is one *)
(* step, and everything else may come in at an await. A stored preference  *)
(* reads as written as soon as the write is asked for. A listing asks Rust,*)
(* which takes the access token of whoever is active at that moment.       *)
(***************************************************************************)
EXTENDS Naturals, Sequences, FiniteSets

CONSTANTS Accounts, Projects,
          NoAccount,
          maxSelectedProjects,
          MaxPresses            \* bound: what the user does, in all

ASSUME WorkspaceAssumption ==
    /\ NoAccount \notin Accounts
    /\ maxSelectedProjects \in Nat \ {0} /\ MaxPresses \in Nat

VARIABLES
    active,      \* the account Rust serves
    known,       \* the account the account list last read calls active
    isLoading,   \* the account list's spinner, which holds the switch buttons
    rebuilds,    \* rebuilds of the account list that are due
    listing,     \* whether the account list is being read
    starting,    \* _loadSelectedProjects: where it is and what it found
    switches,    \* the switches under way
    selected, rows, isRefreshing,   \* the workspace shown: whose VMs each project lists
    loads,       \* the listings in flight
    joins,       \* the presses that wait for their listings, to stop the spinner
    menu, asking,   \* whose projects the project list offers, and its reading
    saved, migrated, global,  \* the stored selections: per account, once there are any,
                     \* and "the" selection
    writes,      \* selections being stored, in the order of the presses
    presses,
    meant,       \* what the user last chose while each account was active
    spoilt,      \* the accounts that carries no promise for
    crossed      \* the projects a listing of which outlived its account

accountVars   == <<active, known, isLoading, rebuilds, listing>>
menuVars      == <<menu, asking>>
shownVars     == <<selected, rows, isRefreshing>>
storedVars    == <<saved, migrated, global>>
taskVars      == <<starting, switches, writes>>
loadVars      == <<loads, joins>>
historyVars   == <<meant, spoilt, crossed>>
workspaceVars == <<accountVars, menuVars, shownVars, storedVars, taskVars, loadVars,
                   presses, historyVars>>

Selections == {s \in SUBSET Projects : Cardinality(s) <= maxSelectedProjects}
Ids        == 0..MaxPresses     \* a task is named by its press; 0 is the start
Someone    == Accounts \cup {NoAccount}

WorkspaceTypeOK ==
    /\ active \in Accounts /\ known \in Someone
    /\ isLoading \in BOOLEAN /\ rebuilds \in 0..(2 * (MaxPresses + 1)) /\ listing \in BOOLEAN
    /\ starting \in [at : {"no", "accounts", "show", "auth"}, found : Selections]
    /\ switches \subseteq [by : Ids, at : {"tunnels", "switch", "accounts", "restore", "list"},
                           to : Accounts, previous : Someone, found : Selections]
    /\ selected \in Selections
    /\ rows \in [Projects -> Someone]
    /\ isRefreshing \in BOOLEAN
    /\ loads \subseteq [by : Ids, project : Projects, as : Someone]
    /\ joins \subseteq Ids
    /\ menu \in Someone /\ asking \in BOOLEAN
    /\ saved \in [Accounts -> Selections] /\ migrated \in BOOLEAN /\ global \in Selections
    /\ writes \in Seq([set : Selections, by : Ids, added : SUBSET Projects])
    /\ presses \in 0..MaxPresses
    /\ meant \in [Accounts -> Selections] /\ spoilt \subseteq Accounts
    /\ crossed \subseteq Projects

----------------------------------------------------------------------------
(* Storage                                                                 *)

saveAccountProjects(a, set) == saved' = [saved EXCEPT ![a] = set] /\ migrated' = TRUE

(* The list of an older version becomes the active account's, once.        *)
migrateProjectsToAccount(a) ==
    IF ~migrated /\ global # {} THEN saveAccountProjects(a, global)
                                ELSE UNCHANGED <<saved, migrated>>

----------------------------------------------------------------------------
(* Listings                                                                *)

Fetches(by, set) == {[by |-> by, project |-> p, as |-> NoAccount] : p \in set}
Loads(by, set) ==
    /\ loads' = loads \cup Fetches(by, set)
    /\ rows' = [p \in Projects |-> IF p \in set THEN NoAccount ELSE rows[p]]

(* get_access_token: the account that is active now.                       *)
ListTakesToken(l) ==
    /\ l.as = NoAccount
    /\ loads' = (loads \ {l}) \cup {[l EXCEPT !.as = active]}
    /\ UNCHANGED <<accountVars, menuVars, shownVars, storedVars, taskVars, joins,
                   presses, historyVars>>

(* The answer is the row, whatever has become of the project meanwhile.    *)
list_instances(l) ==
    /\ l.as # NoAccount
    /\ loads' = loads \ {l}
    /\ rows' = [rows EXCEPT ![l.project] = l.as]
    /\ UNCHANGED <<accountVars, menuVars, selected, isRefreshing, storedVars, taskVars,
                   joins, presses, historyVars>>

(* No token, no answer, a refusal.                                         *)
ListFails(l) ==
    /\ loads' = loads \ {l}
    /\ rows' = [rows EXCEPT ![l.project] = NoAccount]
    /\ UNCHANGED <<accountVars, menuVars, selected, isRefreshing, storedVars, taskVars,
                   joins, presses, historyVars>>

Listed(by) == \A l \in loads : l.by # by

(* A mutant: it is read once.                                              *)
MenuStays ==
    \/ (known' = known \/ menu # NoAccount) /\ UNCHANGED menuVars
    \/ known' # known /\ menu = NoAccount /\ menu' = NoAccount /\ asking' = (known' # NoAccount)

(* The project list: rebuilt with the account, the latest reading counts.  *)
MenuFollows ==
    \/ known' = known /\ UNCHANGED menuVars
    \/ known' # known /\ menu' = NoAccount /\ asking' = (known' # NoAccount)

(* Its answer is of no use to a later reading: the token may as well be    *)
(* taken when the answer comes.                                            *)
list_projects ==
    /\ asking /\ asking' = FALSE
    /\ menu' \in {active, NoAccount}
    /\ UNCHANGED <<accountVars, shownVars, storedVars, taskVars, loadVars,
                   presses, historyVars>>

----------------------------------------------------------------------------
(* The account list                                                        *)

(* It is read anew when the sign-in status is; until it has answered there *)
(* is no active account to store a selection under.                        *)
Rebuild ==
    /\ rebuilds > 0 /\ rebuilds' = rebuilds - 1
    /\ known' = NoAccount /\ isLoading' = TRUE /\ listing' = TRUE
    /\ MenuFollows
    /\ UNCHANGED <<active, shownVars, storedVars, taskVars, loadVars, presses, historyVars>>

(* Of several readings only the last is told from the others.              *)
_loadAccounts ==
    /\ isLoading' = FALSE
    /\ \/ known' = active /\ migrateProjectsToAccount(active)
       \/ known' = NoAccount /\ UNCHANGED <<saved, migrated>>
    /\ MenuFollows

ListAccounts ==
    /\ listing /\ rebuilds = 0
    /\ listing' = FALSE
    /\ _loadAccounts
    /\ UNCHANGED <<active, rebuilds, shownVars, global, taskVars, loadVars,
                   presses, historyVars>>

----------------------------------------------------------------------------
(* What the user does. meant is what he chose when nothing else was going  *)
(* on; a choice made in the middle of something is promised nothing.       *)

Calm ==
    /\ starting.at \in {"no", "auth"} /\ switches = {}
    /\ writes = <<>> /\ rebuilds = 0 /\ ~listing

Press == presses < MaxPresses /\ presses' = presses + 1

Chose(set) ==
    IF Calm /\ known # NoAccount
    THEN meant' = [meant EXCEPT ![known] = set] /\ UNCHANGED <<spoilt, crossed>>
    ELSE spoilt' = Accounts /\ UNCHANGED <<meant, crossed>>

Stores(set, added) ==
    /\ selected' = set /\ global' = set
    /\ writes' = Append(writes, [set |-> set, by |-> presses', added |-> added])
    /\ Chose(set)
    /\ UNCHANGED <<accountVars, menuVars, isRefreshing, saved, migrated, starting, switches,
                   loadVars>>

addProject(p) ==
    /\ Press /\ p \notin selected /\ Cardinality(selected) < maxSelectedProjects
    /\ Stores(selected \cup {p}, {p})
    /\ UNCHANGED rows

removeProject(p) ==
    /\ Press /\ p \in selected
    /\ Stores(selected \ {p}, {})
    /\ rows' = [rows EXCEPT ![p] = NoAccount]

(* Then it is stored under the account that is known by now, and what was  *)
(* added is listed.                                                        *)
_syncProjectsToActiveAccount ==
    /\ writes # <<>>
    /\ writes' = Tail(writes)
    /\ IF known = NoAccount THEN UNCHANGED <<saved, migrated>>
                            ELSE saveAccountProjects(known, Head(writes).set)
    /\ Loads(Head(writes).by, Head(writes).added)
    /\ UNCHANGED <<accountVars, menuVars, selected, isRefreshing, global, starting,
                   switches, joins, presses, historyVars>>

clearAll ==
    /\ Press /\ selected # {}
    /\ selected' = {} /\ rows' = [p \in Projects |-> NoAccount] /\ isRefreshing' = FALSE
    /\ global' = {}
    /\ spoilt' = Accounts
    /\ UNCHANGED <<accountVars, menuVars, saved, migrated, taskVars, loadVars, meant, crossed>>

refreshAllProjects ==
    /\ Press /\ ~isRefreshing /\ selected # {}
    /\ isRefreshing' = TRUE /\ joins' = joins \cup {presses'}
    /\ Loads(presses', selected)
    /\ UNCHANGED <<accountVars, menuVars, selected, storedVars, taskVars, historyVars>>

Refreshed ==
    \E by \in joins :
        /\ Listed(by)
        /\ joins' = joins \ {by} /\ isRefreshing' = FALSE
        /\ UNCHANGED <<accountVars, menuVars, selected, rows, storedVars, taskVars,
                       loads, presses, historyVars>>

----------------------------------------------------------------------------
(* _loadSelectedProjects, when the program starts                          *)

(* The stored selection of whoever Rust says is active; nobody's is empty. *)
_loadSelectedProjects ==
    /\ starting.at = "accounts"
    /\ \/ /\ migrateProjectsToAccount(active)
          /\ global' = saved'[active]
          /\ UNCHANGED spoilt
       \/ /\ UNCHANGED <<saved, migrated>>
          /\ global' = {}
          /\ spoilt' = Accounts
    /\ starting' = [at |-> IF global' = {} THEN "no" ELSE "show", found |-> global']
    /\ UNCHANGED <<accountVars, menuVars, shownVars, switches, writes, loadVars, presses,
                   meant, crossed>>

ShowSelected ==
    /\ starting.at = "show"
    /\ selected' = starting.found
    /\ starting' = [at |-> "auth", found |-> {}]
    /\ UNCHANGED <<accountVars, menuVars, rows, isRefreshing, storedVars, switches, writes,
                   loadVars, presses, historyVars>>

CheckAuth ==
    /\ starting.at = "auth"
    /\ starting' = [at |-> "no", found |-> {}]
    /\ \/ UNCHANGED <<shownVars, loadVars>>
       \/ /\ selected # {} /\ isRefreshing' = TRUE
          /\ joins' = joins \cup {0} /\ Loads(0, selected)
          /\ UNCHANGED selected
    /\ UNCHANGED <<accountVars, menuVars, storedVars, switches, writes, presses, historyVars>>

(* The program is closed, or dies, and is started again.                   *)
Started ==
    /\ known' = NoAccount /\ isLoading' = FALSE /\ rebuilds' = 1 /\ listing' = FALSE
    /\ starting' = [at |-> "accounts", found |-> {}]
    /\ switches' = {} /\ writes' = <<>>
    /\ selected' = {} /\ rows' = [p \in Projects |-> NoAccount] /\ isRefreshing' = FALSE
    /\ loads' = {} /\ joins' = {}
    /\ menu' = NoAccount /\ asking' = FALSE

Restart ==
    /\ Press /\ Started
    /\ spoilt' = (IF Calm THEN spoilt ELSE Accounts) /\ crossed' = {}
    /\ UNCHANGED <<active, storedVars, meant>>

----------------------------------------------------------------------------
(* switchAccount                                                           *)

Moves(s, at) == switches' = (switches \ {s}) \cup {[s EXCEPT !.at = at]}

switchAccount(a) ==
    /\ Press /\ ~isLoading /\ known \notin {NoAccount, a}
    /\ isLoading' = TRUE
    /\ switches' = switches \cup {[by |-> presses', at |-> "tunnels", to |-> a,
                                   previous |-> known, found |-> {}]}
    /\ spoilt' = IF Calm THEN spoilt ELSE Accounts
    /\ UNCHANGED <<active, known, rebuilds, listing, menuVars, shownVars, storedVars,
                   starting, writes, loadVars, meant, crossed>>

(* A mutant: the selection is saved under the account switched to.         *)
SavesForTheNext(s) ==
    /\ s.at = "tunnels" /\ Moves(s, "switch")
    /\ IF selected = {} THEN UNCHANGED <<saved, migrated>>
                        ELSE saveAccountProjects(s.to, selected)
    /\ UNCHANGED <<accountVars, menuVars, shownVars, global, starting, writes, loadVars,
                   presses, historyVars>>

(* With the tunnels closed; an empty selection is not saved.               *)
saveProjectsForAccount(s) ==
    /\ s.at = "tunnels" /\ Moves(s, "switch")
    /\ IF selected = {} THEN UNCHANGED <<saved, migrated>>
                        ELSE saveAccountProjects(s.previous, selected)
    /\ UNCHANGED <<accountVars, menuVars, shownVars, global, starting, writes, loadVars,
                   presses, historyVars>>

switchGcloudAccount(s) ==
    /\ s.at = "switch"
    /\ \/ active' = s.to /\ Moves(s, "accounts") /\ UNCHANGED isLoading
       \/ isLoading' = FALSE /\ switches' = switches \ {s} /\ UNCHANGED active
    /\ UNCHANGED <<known, rebuilds, listing, menuVars, shownVars, storedVars, starting,
                   writes, loadVars, presses, historyVars>>

SwitchListsAccounts(s) ==
    /\ s.at = "accounts" /\ Moves(s, "restore")
    /\ _loadAccounts
    /\ UNCHANGED <<active, rebuilds, listing, shownVars, global, starting, writes, loadVars,
                   presses, historyVars>>

(* The sign-in status is asked for anew, which rebuilds the account list   *)
(* twice; the workspace is the other account's.                            *)
switchToAccount(s) ==
    /\ s.at = "restore"
    /\ rebuilds' = rebuilds + 2
    /\ selected' = saved[s.to] /\ global' = saved[s.to]
    /\ rows' = [p \in Projects |-> NoAccount] /\ isRefreshing' = TRUE
    /\ switches' = (switches \ {s}) \cup {[s EXCEPT !.at = "list", !.found = saved[s.to]]}
    /\ crossed' = {l.project : l \in {m \in loads : m.as \notin {NoAccount, active}}}
    /\ UNCHANGED <<active, known, isLoading, listing, menuVars, saved, migrated, starting,
                   writes, loadVars, presses, meant, spoilt>>

SwitchLoads(s) ==
    /\ s.at = "list"
    /\ switches' = switches \ {s}
    /\ joins' = joins \cup {s.by} /\ Loads(s.by, s.found)
    /\ UNCHANGED <<accountVars, menuVars, selected, isRefreshing, storedVars, starting, writes,
                   presses, historyVars>>

----------------------------------------------------------------------------
WorkspaceInit ==
    /\ active \in Accounts
    /\ known = NoAccount /\ isLoading = FALSE /\ rebuilds = 1 /\ listing = FALSE
    /\ starting = [at |-> "accounts", found |-> {}] /\ switches = {} /\ writes = <<>>
    /\ selected = {} /\ rows = [p \in Projects |-> NoAccount] /\ isRefreshing = FALSE
    /\ loads = {} /\ joins = {}
    /\ menu = NoAccount /\ asking = FALSE
    /\ migrated \in BOOLEAN /\ global \in Selections
    /\ saved \in [Accounts -> Selections]
    /\ IF migrated THEN global = saved[active] ELSE \A a \in Accounts : saved[a] = {}
    /\ meant = [saved EXCEPT ![active] = global]
    /\ presses = 0 /\ spoilt = {} /\ crossed = {}

Answers ==
    \/ \E l \in loads : ListTakesToken(l) \/ list_instances(l) \/ ListFails(l)
    \/ list_projects
    \/ Refreshed
Accounting == Rebuild \/ ListAccounts
Starting   == _loadSelectedProjects \/ ShowSelected \/ CheckAuth
Switching  ==
    \E s \in switches :
        \/ saveProjectsForAccount(s) \/ switchGcloudAccount(s) \/ SwitchListsAccounts(s)
        \/ switchToAccount(s) \/ SwitchLoads(s)

WorkspacePresses ==
    \/ \E p \in Projects : addProject(p) \/ removeProject(p)
    \/ clearAll \/ refreshAllProjects \/ Restart
    \/ \E a \in Accounts : switchAccount(a)

(* A press elsewhere: in a panel of a VM.                                  *)
WorkspaceStays == UNCHANGED <<accountVars, menuVars, shownVars, storedVars, taskVars,
                              loadVars, historyVars>>

WorkspaceSteps == Answers \/ Accounting \/ Starting \/ Switching \/ _syncProjectsToActiveAccount

WorkspaceNext == WorkspacePresses \/ WorkspaceSteps \/ (Press /\ WorkspaceStays)

WorkspaceSpec == WorkspaceInit /\ [][WorkspaceNext]_workspaceVars

(* What is awaited comes: a channel, Rust, a request that is answered or   *)
(* refused. Nothing here has a time limit of its own.                      *)
WorkspaceFairness ==
    /\ WF_workspaceVars(Answers) /\ WF_workspaceVars(Accounting)
    /\ WF_workspaceVars(Starting) /\ WF_workspaceVars(Switching)
    /\ WF_workspaceVars(_syncProjectsToActiveAccount)

----------------------------------------------------------------------------
(* Each account gets back what the user had selected under it, through     *)
(* switches that fail, listings that fail and restarts (gcloud_provider's  *)
(* switchAccount, addProject and removeProject). No promise once a choice, *)
(* another switch or a restart fell in the middle of a switch or of a      *)
(* start, nor after clearAll or a start without accounts: what is stored   *)
(* then is what is known by then, for whichever account.                   *)
SelectionIsRestored ==
    Calm /\ known \in Accounts \ spoilt => selected = meant[known]

(* What is shown was listed for the account that is active, in the rows    *)
(* and in the project list; but for the projects of which a listing was    *)
(* under way across a switch (switchToAccount, _loadInstancesForProject).  *)
RowsAreOfTheirAccount ==
    Calm =>
        /\ \A p \in selected \ crossed : rows[p] \in {NoAccount, active}
        /\ menu \in {NoAccount, active}

WorkspaceRests ==
    loads = {} /\ joins = {} /\ ~isRefreshing /\ ~isLoading /\ ~asking /\ Calm
=============================================================================
