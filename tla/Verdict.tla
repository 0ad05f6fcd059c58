------------------------------ MODULE Verdict ------------------------------
(***************************************************************************)
(* How an incident is judged.  A fault template damages a healthy host and *)
(* hands the verifier a specification of "fixed": symptom probes against   *)
(* the live service, root-cause checks on files and databases, and the     *)
(* files a fix may change.  Two faults may be composed into one incident.  *)
(* A responder changes files, databases and the crontab and restarts the   *)
(* service, which knows only what it loaded when it started; customers and *)
(* cron go on meanwhile, until one verdict is given.                       *)
(***************************************************************************)
EXTENDS Naturals

CONSTANTS
    Incidents,         \* the incidents to consider: sets of fault names
    MaxCalls           \* tool calls a responder may make

VARIABLES
    inc,               \* the faults of this incident
    host,              \* files, databases, permissions and crontab of the host
    proc,              \* the service process: what it loaded when it started
    verdict,           \* the three criteria, once given
    calls              \* tool calls made

vars == <<inc, host, proc, verdict, calls>>
-----------------------------------------------------------------------------
(* The configuration.  "fault" is what the fault wrote, "unset" a key that *)
(* fell back to its development default, "other" a value that is neither   *)
(* faulty nor acceptable: another path, a limit between 7 and 59, a quota  *)
(* of a few thousand pages.                                                *)

Keys == {"DATABASE_URL", "LEDGER_DATABASE_URL", "DATABASE_MAX_PAGES", "LOG_PATH",
         "RATE_LIMIT_PER_MINUTE", "WEBHOOK_SIGNING_SECRET", "SESSION_SECRET"}
Values == {"prod", "fault", "unset", "other"}
Healthy == [k \in Keys |-> "prod"]

(* Probes: "burst" is several checkouts at once, "payment" a checkout whose *)
(* payment must be in the real ledger, "window" checkouts over more than a  *)
(* minute, "complete" the search for orders without a payment, "log" a read *)
(* whose structured log line must appear.                                   *)

Writes == {"checkout", "burst", "payment", "window"}
Reads == {"order", "orders", "user", "users"}
Probes == {"health", "webhook", "log"} \cup Writes \cup Reads
-----------------------------------------------------------------------------
(* Fault templates: the damage (keys and their value, read-only paths,      *)
(* probes that need a column nobody added) and the specification of a fix.  *)

Check(type, on) == [type |-> type, on |-> on]
AppUnchanged == Check("files_unchanged", {"main.py"})

Template == [keys |-> {}, value |-> "prod", ro |-> {}, needs |-> {},
             symptom |-> {"health"}, root |-> {AppUnchanged}, allow |-> {}]

\* mutation: only the symptom and the code are checked
EnvVarTypoUnchecked(k) ==
    [Template EXCEPT !.keys = {k}, !.value = "fault",
        !.symptom = {"health", "checkout", "orders", "user"},
        !.allow = {".env"}]

EnvVarTypo(k) ==
    [Template EXCEPT !.keys = {k}, !.value = "fault",
        !.symptom = {"health", "checkout", "orders", "user"},
        !.root = {Check("env", {k}), AppUnchanged},
        !.allow = {".env"}]

\* The write stopped after the header of the databases, or after DATABASE_URL.
TruncatedEnv(lost) ==
    [Template EXCEPT !.keys = lost, !.value = "unset",
        !.symptom = {"health", "checkout", "orders"},
        !.root = {Check("env", {"DATABASE_URL", "LEDGER_DATABASE_URL", "LOG_PATH",
                                "RATE_LIMIT_PER_MINUTE", "WEBHOOK_SIGNING_SECRET"}),
                  AppUnchanged},
        !.allow = {".env"}]

\* SESSION_SECRET is rotated in the same commit, rightly.
StaleSecret ==
    [Template EXCEPT !.keys = {"WEBHOOK_SIGNING_SECRET"}, !.value = "fault",
        !.symptom = {"health", "checkout", "webhook"},
        !.root = {Check("env", {"WEBHOOK_SIGNING_SECRET"}), AppUnchanged},
        !.allow = {".env"}]

RateLimitMisconfig ==
    [Template EXCEPT !.keys = {"RATE_LIMIT_PER_MINUTE"}, !.value = "fault",
        !.symptom = {"health", "burst"},
        !.root = {Check("env", {"RATE_LIMIT_PER_MINUTE"}), AppUnchanged},
        !.allow = {".env"}]

DiskFull ==
    [Template EXCEPT !.keys = {"DATABASE_MAX_PAGES"}, !.value = "fault",
        !.symptom = {"health", "burst", "orders"},
        !.root = {Check("env", {"DATABASE_MAX_PAGES"}), AppUnchanged},
        !.allow = {".env"}]

\* mutation: the template keeps its workaround detector but not the column check
UnappliedMigrationUnchecked(failing, committed) ==
    [Template EXCEPT !.needs = failing,
        !.symptom = {"health"} \cup failing,
        !.allow = IF committed THEN {} ELSE {"migrations"}]

\* mutation: writing the forgotten migration counts as damage
UnappliedMigrationFrozen(failing, committed) ==
    [Template EXCEPT !.needs = failing,
        !.symptom = {"health"} \cup failing,
        !.root = {Check("db_query", failing), AppUnchanged}]

UnappliedMigration(failing, committed) ==
    [Template EXCEPT !.needs = failing,
        !.symptom = {"health"} \cup failing,
        !.root = {Check("db_query", failing), AppUnchanged},
        !.allow = IF committed THEN {} ELSE {"migrations"}]

\* mutation: nothing is written to see whether writes work again
DbFilePermissionsReads(path) ==
    [Template EXCEPT !.ro = {path},
        !.symptom = {"health", "user"},
        !.root = {Check("path_writable", {path}),
                  Check("files_unchanged", {".env"}), AppUnchanged}]

DbFilePermissions(path) ==
    [Template EXCEPT !.ro = {path},
        !.symptom = {"health", "checkout", "user"},
        !.root = {Check("path_writable", {path}),
                  Check("files_unchanged", {".env"}), AppUnchanged}]

\* "Root cause is the SCHEDULE alone": no check of the application's files.
CronWriteLock ==
    [Template EXCEPT !.symptom = {"health", "window"},
        !.root = {Check("cron_job_disabled", {"archive_orders.py"})},
        !.allow = {"cron.d"}]

\* mutation: the backfill is not part of the fix
LedgerDivergenceNoBackfill ==
    [Template EXCEPT !.keys = {"LEDGER_DATABASE_URL"}, !.value = "fault",
        !.symptom = {"health", "payment"},
        !.root = {Check("env", {"LEDGER_DATABASE_URL"}), AppUnchanged},
        !.allow = {".env"}]

LedgerDivergence ==
    [Template EXCEPT !.keys = {"LEDGER_DATABASE_URL"}, !.value = "fault",
        !.symptom = {"health", "payment", "complete"},
        !.root = {Check("env", {"LEDGER_DATABASE_URL"}), AppUnchanged},
        !.allow = {".env"}]

BadDependencyPin ==
    [Template EXCEPT !.symptom = {"health", "checkout", "orders"},
        !.root = {Check("any_of", {"rollback", "fix_forward"})},
        !.allow = {"requirements.txt", "lib", "main.py"}]

Lost == {"LEDGER_DATABASE_URL", "LOG_PATH", "RATE_LIMIT_PER_MINUTE",
         "WEBHOOK_SIGNING_SECRET", "SESSION_SECRET"}

Faults ==
    [typo_core |-> EnvVarTypo("DATABASE_URL"),
     typo_ledger |-> EnvVarTypo("LEDGER_DATABASE_URL"),
     truncated_databases |-> TruncatedEnv(Lost \cup {"DATABASE_URL"}),
     truncated_ledger |-> TruncatedEnv(Lost),
     stale_secret |-> StaleSecret,
     rate_limit |-> RateLimitMisconfig,
     disk_full |-> DiskFull,
     coupons |-> UnappliedMigration({"checkout", "order"}, TRUE),
     fulfillment |-> UnappliedMigration({"order", "orders"}, TRUE),
     marketing_optin |-> UnappliedMigration({"user", "users"}, TRUE),
     coupons_forgotten |-> UnappliedMigration({"checkout", "order"}, FALSE),
     fulfillment_forgotten |-> UnappliedMigration({"order", "orders"}, FALSE),
     marketing_optin_forgotten |-> UnappliedMigration({"user", "users"}, FALSE),
     perms_data |-> DbFilePermissions("data"),
     perms_core |-> DbFilePermissions("core"),
     perms_ledger |-> DbFilePermissions("ledger"),
     cron_write_lock |-> CronWriteLock,
     ledger_divergence |-> LedgerDivergence,
     bad_dependency_pin |-> BadDependencyPin]

Migrations == {"coupons", "fulfillment", "marketing_optin"}
Forgotten == {"coupons_forgotten", "fulfillment_forgotten", "marketing_optin_forgotten"}
Permissions == {"perms_data", "perms_core", "perms_ledger"}

Singles == {{n} : n \in DOMAIN Faults}
Pairs == {{m, p} : m \in Migrations \cup Forgotten \cup {"rate_limit"}, p \in Permissions}
           \cup {{m, "cron_write_lock"} : m \in Migrations \cup Forgotten}

ASSUME IncidentsAssumption == Incidents \subseteq Singles \cup Pairs
ASSUME CallsAssumption == MaxCalls \in Nat
-----------------------------------------------------------------------------
(* The specification of the incident: the members' specifications merged.   *)

SymptomChecks == UNION {Faults[n].symptom : n \in inc}
Allowed == UNION {Faults[n].allow : n \in inc}

\* mutation: the members' guards are taken over as they are
PrefixedAsIs(n) == Faults[n].root

\* A member's "unchanged" guard gives way to what its sibling's fix must change.
Prefixed(n) ==
    LET sibling == UNION {Faults[m].allow : m \in inc \ {n}}
        shrunk(c) == IF c.type = "files_unchanged" THEN Check(c.type, c.on \ sibling) ELSE c
    IN  {shrunk(c) : c \in Faults[n].root}

RootChecks == UNION {Prefixed(n) : n \in inc}
-----------------------------------------------------------------------------
(* The host and the service.  host.code is main.py: as shipped, with the   *)
(* symptom worked around, or migrated to the 3.0 API of the library; "lib"  *)
(* is the installed library, "edited" one made to serve both APIs by hand.  *)

Paths == {"data", "core", "ledger"}
Hosts == [env : [Keys -> Values], code : {"shipped", "patched", "migrated"},
          pin : {"2.1.0", "3.0.0"}, lib : {"2.1.0", "3.0.0", "edited"},
          schema : {"old", "new"}, ro : SUBSET Paths, cron : {"off", "daily", "minute"},
          script : {"shipped", "edited"}, written : BOOLEAN, stray : BOOLEAN,
          forbidden : BOOLEAN, diverted : BOOLEAN,
          job : {"idle", "starting", "locked"}]

Damage(k) == {Faults[n].value : n \in {m \in inc : k \in Faults[m].keys}}
Needs == UNION {Faults[n].needs : n \in inc}
Pinned == IF "bad_dependency_pin" \in inc THEN "3.0.0" ELSE "2.1.0"

Generated ==
    [env |-> [k \in Keys |-> IF Damage(k) = {} THEN "prod" ELSE CHOOSE v \in Damage(k) : TRUE],
     code |-> "shipped", pin |-> Pinned, lib |-> Pinned,
     schema |-> IF Needs = {} THEN "new" ELSE "old",
     ro |-> UNION {Faults[n].ro : n \in inc},
     cron |-> IF "cron_write_lock" \in inc THEN "minute" ELSE "off",
     script |-> "shipped", written |-> FALSE, stray |-> FALSE, forbidden |-> FALSE,
     diverted |-> "ledger_divergence" \in inc, job |-> "idle"]

\* What the service is once started on a host: settings and code are read once.
Boots(h) == \/ h.code = "patched"
            \/ h.code = "shipped" /\ h.lib \in {"2.1.0", "edited"}
            \/ h.code = "migrated" /\ h.lib \in {"3.0.0", "edited"}

Boot(h) == [up |-> Boots(h), env |-> h.env, code |-> h.code]

\* The stale copy of the ledger exists, a mistyped path and a default do not.
OnSnapshot(env) == "ledger_divergence" \in inc /\ env["LEDGER_DATABASE_URL"] = "fault"

Breaks(env) ==
    LET off(k) == env[k] # "prod"
    IN  (IF off("DATABASE_URL") THEN {"health", "log"} \cup Reads \cup Writes ELSE {})
        \cup (IF ~off("LEDGER_DATABASE_URL") THEN {}
              ELSE {"webhook", "payment"}
                   \cup IF OnSnapshot(env) THEN {} ELSE {"health"} \cup Writes)
        \cup (IF env["DATABASE_MAX_PAGES"] = "fault" THEN Writes ELSE {})
        \cup (IF env["RATE_LIMIT_PER_MINUTE"] = "fault" THEN {"burst"} ELSE {})
        \cup (IF off("WEBHOOK_SIGNING_SECRET") THEN {"webhook"} ELSE {})
        \cup (IF off("LOG_PATH") THEN {"log"} ELSE {})

\* An old schema fails the probes that read its columns, or every checkout.
Outdated == Needs \cup IF "checkout" \in Needs THEN Writes ELSE {}

\* The probes that always fail: what process p loaded against what the disk is.
Failing(p) ==
    IF ~p.up THEN Probes \cup (IF host.diverted THEN {"complete"} ELSE {})
    ELSE (IF p.code = "patched" THEN {"log"}
          ELSE Breaks(p.env) \cup IF host.schema = "old" THEN Outdated ELSE {})
         \cup (IF host.ro = {} THEN {} ELSE Writes)
         \cup (IF host.ro \cap {"data", "ledger"} = {} THEN {} ELSE {"webhook"})
         \cup (IF host.diverted THEN {"complete"} ELSE {})
-----------------------------------------------------------------------------
(* The verifier.                                                            *)

\* Files whose content differs from the one recorded at generation.
Changed ==
    LET differs(f) == CASE f = ".env" -> host.env # Generated.env
                        [] f = "main.py" -> host.code # Generated.code
                        [] f = "requirements.txt" -> host.pin # Generated.pin
                        [] f = "lib" -> host.lib # Generated.lib
                        [] f = "cron.d" -> host.cron # Generated.cron
                        [] f = "archive_orders.py" -> host.script # Generated.script
                        [] f = "migrations" -> host.written
                        [] f = "README.md" -> host.stray
    IN  {f \in {".env", "main.py", "requirements.txt", "lib", "cron.d",
                "archive_orders.py", "migrations", "README.md"} : differs(f)}

\* The two coherent ends of a bad pin.
EndState(name) ==
    \/ name = "rollback" /\ host.pin = "2.1.0" /\ host.lib = "2.1.0" /\ host.code = "shipped"
    \/ name = "fix_forward" /\ host.pin = "3.0.0" /\ host.lib = "3.0.0"
       /\ host.code # "patched" /\ "log" \notin Failing(proc)

Passes(c) ==
    CASE c.type = "env" -> \A k \in c.on : host.env[k] = "prod"
      [] c.type = "files_unchanged" -> c.on \cap Changed = {}
      [] c.type = "db_query" -> host.schema = "new"
      [] c.type = "path_writable" -> c.on \cap host.ro = {}
      [] c.type = "cron_job_disabled" -> host.cron # "minute"
      [] c.type = "any_of" -> \E name \in c.on : EndState(name)

\* hits: probes that fail because the job holds the lock while they are made.
Symptom(hits) == SymptomChecks \cap (Failing(proc) \cup hits) = {}
RootCause == \A c \in RootChecks : Passes(c)
NoCollateral == Changed \subseteq Allowed /\ ~host.forbidden

\* In percent.
ComputeReward(s, r, c) ==
    IF s /\ r /\ c THEN 100
    ELSE ((IF s THEN 30 ELSE 0) + (IF r THEN 70 ELSE 0)) \div (IF c THEN 1 ELSE 2)

Reward == ComputeReward(verdict.symptom, verdict.root, verdict.collateral)
Success == verdict.given /\ verdict.symptom /\ verdict.root /\ verdict.collateral
-----------------------------------------------------------------------------
Init ==
    /\ inc \in Incidents
    /\ host = Generated
    /\ proc = Boot(host)
    /\ verdict = [given |-> FALSE, symptom |-> FALSE, root |-> FALSE, collateral |-> FALSE]
    /\ calls = 0

\* One tool call that leaves the host as h.
Tool(h) ==
    /\ ~verdict.given /\ calls < MaxCalls
    /\ host' = h
    /\ calls' = calls + 1
    /\ UNCHANGED <<inc, verdict>>

Change(h) == Tool(h) /\ UNCHANGED proc

\* A responder puts the right value back, or one that only quiets the symptom.
EditEnv(k, v) ==
    /\ v = "other" => k \in {"DATABASE_URL", "LEDGER_DATABASE_URL",
                             "DATABASE_MAX_PAGES", "RATE_LIMIT_PER_MINUTE"}
    /\ Change([host EXCEPT !.env[k] = v])

GitRestoreEnv == Change([host EXCEPT !.env = Healthy])
EditMain(code) ==
    /\ code = "migrated" => "bad_dependency_pin" \in inc
    /\ Change([host EXCEPT !.code = code])

EditPin(v) == "bad_dependency_pin" \in inc /\ Change([host EXCEPT !.pin = v])

\* Installs the pinned version unless the installed one says it is that version,
\* which an edited copy of 3.0.0 does.
DeployDeps ==
    LET version == IF host.lib = "edited" THEN "3.0.0" ELSE host.lib
    IN  Change([host EXCEPT !.lib = IF version = host.pin THEN @ ELSE host.pin])

EditLib == host.lib = "3.0.0" /\ Change([host EXCEPT !.lib = "edited"])
Chmod(path) == path \in host.ro /\ Change([host EXCEPT !.ro = @ \ {path}])
WriteMigration == inc \cap Forgotten # {} /\ Change([host EXCEPT !.written = TRUE])

\* Reads both databases' versions through .env, then writes the core database.
Migrate ==
    /\ inc \cap Forgotten # {} => host.written
    /\ host.env["DATABASE_URL"] = "prod"
    /\ host.env["LEDGER_DATABASE_URL"] = "prod" \/ OnSnapshot(host.env)
    /\ host.ro \cap {"data", "core"} = {}
    /\ host.job # "locked"
    /\ Change([host EXCEPT !.schema = "new"])

EditCron(schedule) == "cron_write_lock" \in inc /\ Change([host EXCEPT !.cron = schedule])
EditScript == Change([host EXCEPT !.script = "edited"])
EditOther == Change([host EXCEPT !.stray = ~@])

\* A new file under data/ succeeds, and stays in the trajectory.
EditData == "data" \notin host.ro /\ Change([host EXCEPT !.forbidden = TRUE])

\* reconcile_ledger.py --apply into the real ledger.
Backfill ==
    /\ host.env["DATABASE_URL"] = "prod"
    /\ host.ro \cap {"data", "ledger"} = {}
    /\ Change([host EXCEPT !.diverted = FALSE])

Restart == Tool(host) /\ proc' = Boot(host)
Stop == Tool(host) /\ proc' = [proc EXCEPT !.up = FALSE]

\* A customer's payment goes where the process records it.
Customer ==
    /\ proc.up /\ proc.code # "patched" /\ OnSnapshot(proc.env)
    /\ "checkout" \notin Failing(proc)
    /\ host' = [host EXCEPT !.diverted = TRUE]
    /\ UNCHANGED <<inc, proc, verdict, calls>>

\* The runner starts the deployed script; what it started goes on, whatever is
\* done to the crontab then: the job takes the write lock, and gives it back.
Scheduled == host.cron = "minute" /\ host.script = "shipped"

Job(from, to) ==
    /\ ~verdict.given /\ host.job = from
    /\ host' = [host EXCEPT !.job = to]
    /\ UNCHANGED <<inc, proc, verdict, calls>>

JobStarts == Scheduled /\ Job("idle", "starting")
JobLocks == Job("starting", "locked")
JobEnds == Job("locked", "idle")

\* A checkout of the window or of another probe may meet a run that is under
\* way, or does not; the window also meets those of a job still scheduled,
\* mostly (Cron says when it does not).
Resolve(hits) ==
    /\ ~verdict.given
    /\ hits # {} => host.job # "idle" \/ (hits = {"window"} /\ Scheduled)
    /\ verdict' = [given |-> TRUE, symptom |-> Symptom(hits),
                   root |-> RootCause, collateral |-> NoCollateral]
    /\ UNCHANGED <<inc, host, proc, calls>>

Next ==
    \/ \E k \in Keys, v \in {"prod", "other"} : EditEnv(k, v)
    \/ GitRestoreEnv \/ DeployDeps \/ EditLib
    \/ \E code \in {"shipped", "patched", "migrated"} : EditMain(code)
    \/ \E v \in {"2.1.0", "3.0.0"} : EditPin(v)
    \/ \E path \in Paths : Chmod(path)
    \/ WriteMigration \/ Migrate \/ Backfill \/ Restart \/ Stop
    \/ \E schedule \in {"off", "daily", "minute"} : EditCron(schedule)
    \/ EditScript \/ EditOther \/ EditData
    \/ Customer \/ JobStarts \/ JobLocks \/ JobEnds
    \/ \E hits \in {{}, {"window"}, Writes \ {"window"}, Writes} : Resolve(hits)

Spec == Init /\ [][Next]_vars
-----------------------------------------------------------------------------
(* Properties.                                                              *)

\* The state is typed, a verdict not given says nothing, and only the incident
\* of the bad pin ever has another library or the migrated code.
TypeOK ==
    /\ inc \in Incidents
    /\ host \in Hosts
    /\ proc \in [up : BOOLEAN, env : [Keys -> Values], code : {"shipped", "patched", "migrated"}]
    /\ verdict \in [given : BOOLEAN, symptom : BOOLEAN, root : BOOLEAN, collateral : BOOLEAN]
    /\ calls \in 0 .. MaxCalls
    /\ ~verdict.given => ~(verdict.symptom \/ verdict.root \/ verdict.collateral)
    /\ "bad_dependency_pin" \notin inc => /\ host.pin = "2.1.0" /\ host.lib = "2.1.0"
                                          /\ "migrated" \notin {host.code, proc.code}

\* Everything the incident broke is repaired and nothing else is changed.
Repaired ==
    /\ host.env = Healthy /\ host.schema = "new" /\ host.ro = {}
    /\ host.cron # "minute" /\ host.script = "shipped"
    /\ ~host.stray /\ ~host.forbidden /\ ~host.diverted
    /\ \/ host.pin = "2.1.0" /\ host.lib = "2.1.0" /\ host.code = "shipped"
       \/ host.pin = "3.0.0" /\ host.lib = "3.0.0" /\ host.code = "migrated"

\* A repair, in whatever order, is worth everything once the service runs it,
\* and 0.7 while the service still runs what the incident started (verify.py:9):
\* no member of a composed incident vetoes its sibling's fix.  Only a run of the
\* archive job that was under way when the incident was resolved, with the lock
\* or about to take it, can cost a repair its symptom, and no more than that.
RepairIsRewarded ==
    verdict.given /\ Repaired =>
        /\ proc = Boot(host) => Reward = 100 \/ (host.job # "idle" /\ Reward = 70)
        /\ host.code = "shipped" /\ proc = Boot(Generated) /\ proc # Boot(host) => Reward = 70

\* Some fault is still on the host, or hidden by the code.  What the session
\* secret is, no check asks, nor which code runs on which library.
StillBroken ==
    \/ \E n \in inc :
         \/ \E k \in Faults[n].keys \ {"SESSION_SECRET"} : host.env[k] # "prod"
         \/ Faults[n].needs # {} /\ host.schema = "old"
         \/ Faults[n].ro \cap host.ro # {}
    \/ "cron_write_lock" \in inc /\ host.cron = "minute"
    \/ inc # {"cron_write_lock"} /\ host.code = "patched"

\* With one fault of the incident left, whatever was done about its symptom and
\* about the other fault, the reward is at most that of a mask (verify.py:8-9).
MaskedScoresLow == verdict.given /\ StillBroken => Reward <= 30

\* No payment is in the wrong ledger after a success, although customers go on
\* buying while the responder backfills and after the verdict.
NoMoneyLeftBehind == Success => ~host.diverted

\* Restarting the service and changing nothing is worth nothing (verify.py:10);
\* except that of the archive job alone, whose only symptom is intermittent: a
\* probe window that misses it pays the symptom, and never more.
NothingForNothing ==
    verdict.given /\ [host EXCEPT !.job = "idle"] = Generated /\ proc = Boot(host)
        => Reward = 0 \/ (inc = {"cron_write_lock"} /\ Reward <= 30)
=============================================================================
