------------------------------- MODULE Doctor -------------------------------
(***************************************************************************)
(* The connectivity doctor: one run makes thirteen checks in a fixed order *)
(* and reports a row for each. Every check reads the engine preference and *)
(* the world afresh, so the world may change between two checks of a run;  *)
(* the six checks that call Google fetch their own token from the          *)
(* process-wide cache. A fix changes the world and is followed by a run.   *)
(*                                                                         *)
(* A check is one step. The world is what the checks can tell apart.       *)
(***************************************************************************)
EXTENDS Naturals, Sequences, FiniteSets

CONSTANTS MaxDefects,  \* bound: what is wrong with the world at one time
          MaxUpsets    \* bound: changes of the world and unanswered requests, in all

ASSUME DoctorAssumption == MaxDefects \in Nat /\ MaxUpsets \in Nat

VARIABLES
    engine,    \* the stored engine preference
    gcloud,    \* the gcloud CLI and its active account
    adc,       \* the file of application default credentials
    session,   \* LCC's active account and its stored sign-in
    keyring,   \* whether the system keyring answers
    troubles,  \* what is wrong with the project, the VM and this machine
    cached,    \* the engine that minted the cached access token, if there is one
    at, row,   \* the run: the next check, and the rows so far
    fixes,     \* the fix actions the rows offer
    standing,  \* the problems there have been since the run began
    well,      \* whether all has been well since the run began
    missed,    \* whether the run lost a token or an answer, or its engine changed
    upsets

world   == <<engine, gcloud, adc, session, keyring, troubles>>
report  == <<at, row, fixes>>
doctorVars == <<world, cached, report, standing, well, missed, upsets>>

Checks == <<"gcloud", "account", "adc", "store", "index", "token", "project", "compute",
            "iap", "firewall", "vm", "agent", "clients">>
ApiChecks == {Checks[i] : i \in 7..12}
Statuses  == {"none", "pass", "warning", "fail", "skipped"}
Engines   == {"native", "gcloud"}
Fixes     == {"re_authenticate", "start_vm"}
Troubles  == {"denied", "no_project", "compute_off", "iap_off", "no_rule", "no_vm",
              "vm_stopped", "vm_starting", "no_agent", "orphan",
              "some_clients", "no_clients"}

DoctorTypeOK ==
    /\ engine \in Engines
    /\ gcloud \in {"absent", "signed_out", "expired", "signed_in"}
    /\ adc \in {"missing", "stale", "good"}
    /\ session \in {"none", "orphan", "dead", "live"}
    /\ keyring \in BOOLEAN /\ troubles \subseteq Troubles
    /\ cached \in Engines \cup {"none"}
    /\ at \in 1..(Len(Checks) + 1)
    /\ row \in [{Checks[i] : i \in DOMAIN Checks} -> Statuses]
    /\ fixes \subseteq Fixes
    /\ standing \subseteq Troubles \cup {"no_credentials"}
    /\ well \in BOOLEAN /\ missed \in BOOLEAN
    /\ upsets \in 0..MaxUpsets

----------------------------------------------------------------------------
(* The world                                                               *)

(* What a token can be minted from: LCC's own session, with no fallback;   *)
(* gcloud's account, or else the application default credentials. A gcloud *)
(* that is no program, or lies where anybody can write, counts as absent.  *)
token_from_native_session == session = "live" /\ keyring
gcloud_path               == gcloud # "absent"
token_from_gcloud_cli     == gcloud_path /\ gcloud = "signed_in"
token_from_adc_refresh    == adc = "good"

Serves(e) ==
    IF e = "native" THEN token_from_native_session
    ELSE token_from_gcloud_cli \/ token_from_adc_refresh

(* The engine's own session is in order, whatever the other one's is.      *)
SignedIn ==
    IF engine = "native" THEN token_from_native_session
    ELSE token_from_gcloud_cli /\ adc # "missing"

(* What keeps the user from working, now or when the cached token expires. *)
(* An expired session of gcloud's behind a cached token passes: nothing in *)
(* a run asks gcloud for a new token then.                                 *)
Problems ==
    (troubles \ (IF engine = "gcloud" THEN {"orphan"} ELSE {}))
        \cup (IF Serves(engine) \/ (cached = engine /\ engine = "gcloud")
              THEN {} ELSE {"no_credentials"})

(* iap.googleapis.com is nothing that LCC calls.                           *)
Healthy == SignedIn /\ troubles \subseteq {"iap_off"}

Plausible ==
    /\ Cardinality(troubles) + (IF gcloud = "signed_in" /\ adc = "good" THEN 0 ELSE 1)
         + (IF session = "live" /\ keyring THEN 0 ELSE 1) <= MaxDefects
    /\ Cardinality(troubles \cap {"vm_stopped", "vm_starting", "no_vm"}) <= 1
    /\ ~({"some_clients", "no_clients"} \subseteq troubles)

Worlds ==
    /\ engine \in Engines
    /\ gcloud \in {"absent", "signed_out", "expired", "signed_in"}
    /\ adc \in {"missing", "stale", "good"}
    /\ session \in {"none", "orphan", "dead", "live"}
    /\ keyring \in BOOLEAN
    /\ troubles \in {t \in SUBSET Troubles : Cardinality(t) <= MaxDefects}
    /\ Plausible

Fresh ==
    /\ at' = 1 /\ row' = [k \in DOMAIN row |-> "none"] /\ fixes' = {}
    /\ standing' = Problems' /\ well' = Healthy' /\ missed' = FALSE

(* The history follows every step of a run.                                *)
Follow == standing' = standing \cap Problems' /\ well' = (well /\ Healthy')

DoctorInit ==
    /\ Worlds
    /\ cached \in {"none", engine}
    /\ cached = "none" \/ Serves(cached)
    /\ at = 1 /\ row = [k \in {Checks[i] : i \in DOMAIN Checks} |-> "none"] /\ fixes = {}
    /\ standing = Problems /\ well = Healthy /\ missed = FALSE
    /\ upsets = 0

Upset == upsets < MaxUpsets /\ upsets' = upsets + 1

(* Anything but an expiry of the cached token is done by someone: settings,*)
(* another window, a terminal, the cloud. A change of engine, of account   *)
(* or a sign-in drops the cached token.                                    *)
Changed(e, g, s, k, t) ==
    /\ Upset
    /\ engine' = e /\ gcloud' = g /\ session' = s /\ keyring' = k /\ troubles' = t
    /\ cached' = IF <<e, s>> # <<engine, session>> /\ s # "dead" THEN "none" ELSE cached
    /\ UNCHANGED <<adc, report>>
    /\ Plausible' /\ Follow
    /\ missed' = (missed \/ e # engine)

ChangeEngine == \E e \in Engines \ {engine} : Changed(e, gcloud, session, keyring, troubles)
GcloudChanges ==
    \E g \in {"signed_out", "expired", "signed_in"} \ {gcloud} :
        gcloud # "absent" /\ Changed(engine, g, session, keyring, troubles)
SessionChanges ==
    \E s \in {"none", "dead", "live"} \ {session} :
        Changed(engine, gcloud, s, keyring, troubles)
KeyringChanges == Changed(engine, gcloud, session, ~keyring, troubles)
CloudChanges ==
    \E t \in Troubles :
        Changed(engine, gcloud, session, keyring,
                IF t \in troubles THEN troubles \ {t} ELSE troubles \cup {t})

Expire ==
    /\ cached # "none" /\ cached' = "none"
    /\ UNCHANGED <<world, report, missed, upsets>>
    /\ Follow

----------------------------------------------------------------------------
(* What the rows say                                                       *)

gcloud_check_status(present) ==
    IF engine = "native" THEN "skipped" ELSE IF present THEN "pass" ELSE "fail"

severity_when_unhealthy(required) == IF required THEN "fail" ELSE "warning"

At(k) == at <= Len(Checks) /\ Checks[at] = k

Report(k, status, offered, token) ==
    /\ At(k)
    /\ row' = [row EXCEPT ![k] = status]
    /\ at' = at + 1 /\ fixes' = fixes \cup offered
    /\ cached' = token
    /\ UNCHANGED world
    /\ Follow

Local(k, status, offered) ==
    Report(k, status, offered, cached) /\ UNCHANGED <<missed, upsets>>

----------------------------------------------------------------------------
(* The checks                                                              *)

(* gcloud --version, of the gcloud that is found.                          *)
is_gcloud_installed == gcloud_path
check_gcloud_installed == Local("gcloud", gcloud_check_status(is_gcloud_installed), {})

(* Under gcloud the account is asked for only where gcloud was found. Its  *)
(* expired session still counts as an account.                             *)
is_gcloud_authenticated == gcloud_path /\ gcloud \in {"signed_in", "expired"}
check_gcloud_account ==
    LET status == IF engine = "gcloud" /\ row["gcloud"] # "pass" THEN "skipped"
                  ELSE gcloud_check_status(is_gcloud_authenticated)
    IN  Local("account", status, IF status = "fail" THEN {"re_authenticate"} ELSE {})

check_adc_credentials == Local("adc", gcloud_check_status(adc # "missing"), {})

native_check_status == IF engine = "gcloud" THEN "skipped" ELSE "pass"

(* A read of a key that cannot exist.                                      *)
probe_keyring == keyring
check_credential_store ==
    Local("store", IF probe_keyring \/ engine = "gcloud" THEN native_check_status ELSE "fail", {})

(* The raw index against the keyring: an entry without a secret. A keyring *)
(* that does not answer is the store's row's to report.                    *)
index_health ==
    CASE ~probe_keyring -> "unavailable"
      [] session = "orphan" \/ "orphan" \in troubles -> "orphaned"
      [] OTHER -> "consistent"
check_account_index ==
    /\ Report("index", CASE engine = "gcloud" \/ index_health = "unavailable" -> "skipped"
                         [] index_health = "orphaned" -> "warning"
                         [] index_health = "consistent" -> native_check_status, {}, cached)
    /\ missed' = (missed \/ (engine = "native" /\ ~keyring))
    /\ UNCHANGED upsets

(* The refresh token is tried at Google, and the token thrown away. Mutant *)
(* first: a dead refresh token reads as success.                           *)
refresh_verdict_lenient == session \in {"live", "dead"}
refresh_verdict == session = "live"

Minted(status) ==
    Local("token", status, IF status \in {"warning", "fail"} THEN {"re_authenticate"} ELSE {})

check_native_token ==
    Minted(CASE engine = "gcloud" -> "skipped"
             [] session = "none" -> "warning"
             [] OTHER -> IF keyring /\ refresh_verdict THEN "pass" ELSE "fail")

check_native_token_fails ==
    /\ engine = "native" /\ session \in {"live", "dead"} /\ keyring
    /\ Report("token", "fail", {"re_authenticate"}, cached)
    /\ missed' = TRUE /\ Upset

credentials_usable == row["account"] = "pass" \/ row["token"] = "pass"

(* The verdicts on an answer of Google, by what is wrong. A disabled API   *)
(* and a missing permission both answer 403.                               *)
Has(ts) == troubles \cap ts # {}
Barred  == Has({"denied", "no_project", "compute_off"})

project_accessible == IF Has({"denied", "no_project"}) THEN "fail" ELSE "pass"

api_enabled(required, off) ==
    IF Has({"denied", "no_project", off}) THEN severity_when_unhealthy(required) ELSE "pass"

iap_firewall ==
    IF "no_project" \in troubles THEN "fail"
    ELSE IF Has({"denied", "compute_off", "no_rule"}) THEN "warning" ELSE "pass"

vm_status ==
    IF Barred \/ Has({"no_vm", "vm_stopped"}) THEN "fail"
    ELSE IF "vm_starting" \in troubles THEN "warning" ELSE "pass"

(* The guest attributes, or else the serial console: a request that is not *)
(* answered well counts as neither.                                        *)
detect_guest_agent == ~Barred /\ ~Has({"no_vm", "no_agent"})
vm_guest_agent == IF detect_guest_agent THEN "pass" ELSE "warning"

Answer(k) ==
    CASE k = "project"  -> project_accessible
      [] k = "compute"  -> api_enabled(TRUE, "compute_off")
      [] k = "iap"      -> api_enabled(FALSE, "iap_off")
      [] k = "firewall" -> iap_firewall
      [] k = "vm"       -> vm_status
      [] k = "agent"    -> vm_guest_agent

(* No answer at all, within ten seconds.                                   *)
NoAnswer == [project |-> "fail", compute |-> severity_when_unhealthy(TRUE),
             iap |-> severity_when_unhealthy(FALSE), firewall |-> "fail", vm |-> "fail",
             agent |-> "warning"]

SkipsApiChecks(k) ==
    /\ k \in ApiChecks /\ ~credentials_usable
    /\ Local(k, "skipped", {})

CanAsk(k) == k \in ApiChecks /\ credentials_usable

Stopped == "vm_stopped" \in troubles /\ ~Barred

Asks(k) ==
    /\ CanAsk(k) /\ (cached = engine \/ Serves(engine))
    /\ Report(k, Answer(k), IF k = "vm" /\ Stopped THEN {"start_vm"} ELSE {}, engine)
    /\ UNCHANGED <<missed, upsets>>

AskFails(k) ==
    /\ CanAsk(k) /\ (cached = engine \/ Serves(engine))
    /\ Report(k, NoAnswer[k], {}, engine)
    /\ missed' = TRUE /\ Upset

token_failure_remedy == IF engine = "native" THEN {"re_authenticate"} ELSE {}

(* Without a token only the project's row complains; the rest are skipped. *)
TokenFails(k) ==
    /\ CanAsk(k) /\ cached # engine
    /\ IF k = "project" THEN Report(k, "fail", token_failure_remedy, cached)
                        ELSE Report(k, "skipped", {}, cached)
    /\ missed' = (missed \/ Serves(engine) \/ k # "project")
    /\ IF Serves(engine) THEN Upset ELSE UNCHANGED upsets

(* Which kinds of client are installed: all, some (here: no VNC), none.    *)
Clients == {"rdp", "vnc", "ssh"}
any_available(kind) ==
    "no_clients" \notin troubles /\ (kind = "vnc" => "some_clients" \notin troubles)
check_local_clients ==
    Local("clients", CASE \A kind \in Clients : any_available(kind) -> "pass"
                       [] \A kind \in Clients : ~any_available(kind) -> "fail"
                       [] OTHER -> "warning", {})

----------------------------------------------------------------------------
(* The report, and what the user does with it                              *)

Done == at = Len(Checks) + 1

RunAgain ==
    /\ Done
    /\ UNCHANGED <<world, cached, upsets>>
    /\ Fresh

(* LCC's own sign-in, or an error that says what to run in a terminal.     *)
Reauthenticate ==
    /\ Done /\ "re_authenticate" \in fixes
    /\ engine = "native" /\ keyring
    /\ session' = "live" /\ cached' = "none"
    /\ UNCHANGED <<engine, gcloud, adc, keyring, troubles, upsets>>
    /\ Fresh

StartVm ==
    /\ Done /\ "start_vm" \in fixes
    /\ cached = engine \/ Serves(engine)
    /\ Stopped
    /\ troubles' = (troubles \ {"vm_stopped"}) \cup {"vm_starting"}
    /\ cached' = engine
    /\ UNCHANGED <<engine, gcloud, adc, session, keyring, upsets>>
    /\ Fresh

run_all_checks ==
    \/ check_gcloud_installed \/ check_gcloud_account \/ check_adc_credentials
    \/ check_credential_store \/ check_account_index
    \/ check_native_token \/ check_native_token_fails
    \/ \E k \in ApiChecks : SkipsApiChecks(k) \/ Asks(k) \/ AskFails(k) \/ TokenFails(k)
    \/ check_local_clients

DoctorNext ==
    \/ run_all_checks
    \/ RunAgain \/ Reauthenticate \/ StartVm
    \/ ChangeEngine \/ GcloudChanges \/ SessionChanges \/ KeyringChanges \/ CloudChanges
    \/ Expire

DoctorSpec == DoctorInit /\ [][DoctorNext]_doctorVars

----------------------------------------------------------------------------
Rows(status) == {k \in DOMAIN row : row[k] = status}

(* A report without a red or a yellow row asked everything: whatever was   *)
(* wrong all through the run would show, whether the token came from the   *)
(* cache or not and whatever else changed between two checks. Excepted are *)
(* runs that lost a token or an answer on the way, and those that the user *)
(* switched the engine under.                                              *)
TroubleIsReported ==
    Done /\ ~missed /\ Rows("fail") \cup Rows("warning") = {} => standing = {}

(* A machine that has been in order for its own engine throughout gets no  *)
(* red row: not for a missing gcloud under the native engine, nor for an   *)
(* empty account store under gcloud, nor for the IAP API.                  *)
HealthyIsNotRed == well /\ ~missed => Rows("fail") = {}

(* The report says how things are, in both directions.                     *)
ReportIsTrue == TroubleIsReported /\ HealthyIsNotRed

=============================================================================
