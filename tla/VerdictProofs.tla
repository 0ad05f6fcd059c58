--------------------------- MODULE VerdictProofs ----------------------------
(***************************************************************************)
(* Type correctness and the safety properties of Verdict, for every choice *)
(* of incidents and any number of tool calls.                              *)
(***************************************************************************)
EXTENDS Verdict, TLAPS

Typed(t) == t.keys \subseteq Keys /\ t.value \in Values /\ t.ro \subseteq Paths

\* The table of faults, entry by entry.
LEMMA Entries ==
    /\ Faults.typo_core = EnvVarTypo("DATABASE_URL")
    /\ Faults.typo_ledger = EnvVarTypo("LEDGER_DATABASE_URL")
    /\ Faults.truncated_databases = TruncatedEnv(Lost \cup {"DATABASE_URL"})
    /\ Faults.truncated_ledger = TruncatedEnv(Lost)
    /\ Faults.stale_secret = StaleSecret
    /\ Faults.rate_limit = RateLimitMisconfig
    /\ Faults.disk_full = DiskFull
    /\ Faults.coupons = UnappliedMigration({"checkout", "order"}, TRUE)
    /\ Faults.fulfillment = UnappliedMigration({"order", "orders"}, TRUE)
    /\ Faults.marketing_optin = UnappliedMigration({"user", "users"}, TRUE)
    /\ Faults.coupons_forgotten = UnappliedMigration({"checkout", "order"}, FALSE)
    /\ Faults.fulfillment_forgotten = UnappliedMigration({"order", "orders"}, FALSE)
    /\ Faults.marketing_optin_forgotten = UnappliedMigration({"user", "users"}, FALSE)
    /\ Faults.perms_data = DbFilePermissions("data")
    /\ Faults.perms_core = DbFilePermissions("core")
    /\ Faults.perms_ledger = DbFilePermissions("ledger")
    /\ Faults.cron_write_lock = CronWriteLock
    /\ Faults.ledger_divergence = LedgerDivergence
    /\ Faults.bad_dependency_pin = BadDependencyPin
  BY DEF Faults

LEMMA Names ==
    DOMAIN Faults = {"typo_core", "typo_ledger", "truncated_databases", "truncated_ledger",
                     "stale_secret", "rate_limit", "disk_full", "coupons", "fulfillment",
                     "marketing_optin", "coupons_forgotten", "fulfillment_forgotten",
                     "marketing_optin_forgotten", "perms_data", "perms_core",
                     "perms_ledger", "cron_write_lock", "ledger_divergence",
                     "bad_dependency_pin"}
  BY DEF Faults

\* Every template damages typed things only.
LEMMA FaultsTyped == \A n \in DOMAIN Faults : Typed(Faults[n])
  <1>1. \A k \in Keys : Typed(EnvVarTypo(k))
    BY DEF Typed, EnvVarTypo, Template, Values
  <1>2. \A lost \in SUBSET Keys : Typed(TruncatedEnv(lost))
    BY DEF Typed, TruncatedEnv, Template, Values
  <1>3. Typed(StaleSecret) /\ Typed(RateLimitMisconfig) /\ Typed(DiskFull)
    BY DEF Typed, StaleSecret, RateLimitMisconfig, DiskFull, Template, Values, Keys
  <1>4. \A f, c : Typed(UnappliedMigration(f, c))
    BY DEF Typed, UnappliedMigration, Template, Values
  <1>5. \A p \in Paths : Typed(DbFilePermissions(p))
    BY DEF Typed, DbFilePermissions, Template, Values
  <1>6. Typed(CronWriteLock) /\ Typed(LedgerDivergence) /\ Typed(BadDependencyPin)
    BY DEF Typed, CronWriteLock, LedgerDivergence, BadDependencyPin, Template, Values, Keys
  <1>7. /\ Lost \subseteq Keys /\ Lost \cup {"DATABASE_URL"} \subseteq Keys
        /\ "DATABASE_URL" \in Keys /\ "LEDGER_DATABASE_URL" \in Keys
        /\ "data" \in Paths /\ "core" \in Paths /\ "ledger" \in Paths
    BY DEF Lost, Keys, Paths
  <1>8. /\ Typed(Faults.typo_core)
        /\ Typed(Faults.typo_ledger)
    BY <1>1, <1>7, Entries
  <1>9. /\ Typed(Faults.truncated_databases)
        /\ Typed(Faults.truncated_ledger)
    BY <1>2, <1>7, Entries
  <1>10. /\ Typed(Faults.stale_secret)
        /\ Typed(Faults.rate_limit)
        /\ Typed(Faults.disk_full)
    BY <1>3, <1>7, Entries
  <1>11. /\ Typed(Faults.coupons)
        /\ Typed(Faults.fulfillment)
        /\ Typed(Faults.marketing_optin)
        /\ Typed(Faults.coupons_forgotten)
        /\ Typed(Faults.fulfillment_forgotten)
        /\ Typed(Faults.marketing_optin_forgotten)
    BY <1>4, <1>7, Entries
  <1>12. /\ Typed(Faults.perms_data)
        /\ Typed(Faults.perms_core)
        /\ Typed(Faults.perms_ledger)
    BY <1>5, <1>7, Entries
  <1>13. /\ Typed(Faults.cron_write_lock)
        /\ Typed(Faults.ledger_divergence)
        /\ Typed(Faults.bad_dependency_pin)
    BY <1>6, <1>7, Entries
  <1>14. QED BY <1>8, <1>9, <1>10, <1>11, <1>12, <1>13, Names

\* An incident is made of known faults.
LEMMA Members == ASSUME inc \in Incidents PROVE inc \subseteq DOMAIN Faults
  <1>1. inc \in Singles \/ inc \in Pairs
    BY IncidentsAssumption
  <1>2. CASE inc \in Singles
    BY <1>2 DEF Singles
  <1>3. CASE inc \in Pairs
    BY <1>3 DEF Pairs, Migrations, Forgotten, Permissions, Faults
  <1>4. QED BY <1>1, <1>2, <1>3
-----------------------------------------------------------------------------
\* The host the incident starts with is typed.
LEMMA GeneratedTyped == ASSUME inc \in Incidents PROVE Generated \in Hosts
  <1>1. \A n \in inc : Typed(Faults[n])
    BY Members, FaultsTyped
  <1>2. \A k \in Keys : Damage(k) \subseteq Values
    BY <1>1 DEF Damage, Typed
  <1>3. [k \in Keys |-> IF Damage(k) = {} THEN "prod" ELSE CHOOSE v \in Damage(k) : TRUE]
            \in [Keys -> Values]
    <2> SUFFICES ASSUME NEW k \in Keys, Damage(k) # {}
                 PROVE  (CHOOSE v \in Damage(k) : TRUE) \in Values
      BY DEF Values
    <2>1. (CHOOSE v \in Damage(k) : TRUE) \in Damage(k)
      OBVIOUS
    <2>2. QED BY <2>1, <1>2
  <1>4. UNION {Faults[n].ro : n \in inc} \in SUBSET Paths
    BY <1>1 DEF Typed
  <1>5. Pinned \in {"2.1.0", "3.0.0"}
    BY DEF Pinned
  <1>6. ("ledger_divergence" \in inc) \in BOOLEAN
    OBVIOUS
  <1>7. QED BY <1>3, <1>4, <1>5, <1>6 DEF Generated, Hosts

\* A process is what it was started on.
Processes == [up : BOOLEAN, env : [Keys -> Values], code : {"shipped", "patched", "migrated"}]

LEMMA BootTyped == ASSUME NEW h \in Hosts PROVE Boot(h) \in Processes
  <1>1. Boots(h) \in BOOLEAN
    BY Zenon DEF Boots
  <1>2. QED BY <1>1 DEF Boot, Processes, Hosts

\* The part of the type that speaks of the bad pin.
Unpinned(h, p) ==
    "bad_dependency_pin" \notin inc => /\ h.pin = "2.1.0" /\ h.lib = "2.1.0"
                                       /\ "migrated" \notin {h.code, p.code}

\* What every tool call leaves alone.
LEMMA ToolTyped ==
    ASSUME TypeOK, NEW h \in Hosts, Tool(h), proc' \in Processes, Unpinned(h, proc')
    PROVE  TypeOK'
  <1>1. calls' \in 0 .. MaxCalls
    BY CallsAssumption DEF Tool, TypeOK
  <1>2. QED BY <1>1 DEF Tool, TypeOK, Unpinned, Processes

LEMMA ChangeTyped ==
    ASSUME TypeOK, NEW h \in Hosts, Change(h), Unpinned(h, proc)
    PROVE  TypeOK'
  BY ToolTyped DEF Change, TypeOK, Processes, Unpinned

\* Every reachable state is typed.
THEOREM TypeCorrect == Spec => []TypeOK
  <1>1. Init => TypeOK
    <2> SUFFICES ASSUME Init PROVE TypeOK
      OBVIOUS
    <2>1. host \in Hosts /\ inc \in Incidents
      BY GeneratedTyped DEF Init
    <2>2. proc \in Processes
      BY <2>1, BootTyped DEF Init
    <2>3. Unpinned(host, proc)
      BY DEF Init, Unpinned, Generated, Pinned, Boot
    <2>4. QED BY <2>1, <2>2, <2>3, CallsAssumption DEF Init, TypeOK, Processes, Unpinned
  <1>2. TypeOK /\ [Next]_vars => TypeOK'
    <2> SUFFICES ASSUME TypeOK, [Next]_vars PROVE TypeOK'
      OBVIOUS
    <2> USE DEF Hosts
    <2>0. Unpinned(host, proc) /\ host \in Hosts /\ proc \in Processes
      BY DEF TypeOK, Unpinned, Processes
    <2>1. ASSUME NEW k \in Keys, NEW v \in {"prod", "other"}, EditEnv(k, v) PROVE TypeOK'
      BY <2>0, <2>1, ChangeTyped DEF EditEnv, Unpinned, Values
    <2>2. CASE GitRestoreEnv
      BY <2>0, <2>2, ChangeTyped DEF GitRestoreEnv, Healthy, Unpinned, Values
    <2>3. CASE DeployDeps
      BY <2>0, <2>3, ChangeTyped DEF DeployDeps, Unpinned
    <2>4. CASE EditLib
      BY <2>0, <2>4, ChangeTyped DEF EditLib, Unpinned
    <2>5. ASSUME NEW code \in {"shipped", "patched", "migrated"}, EditMain(code) PROVE TypeOK'
      BY <2>0, <2>5, ChangeTyped DEF EditMain, Unpinned
    <2>6. ASSUME NEW v \in {"2.1.0", "3.0.0"}, EditPin(v) PROVE TypeOK'
      BY <2>0, <2>6, ChangeTyped DEF EditPin, Unpinned
    <2>7. ASSUME NEW path \in Paths, Chmod(path) PROVE TypeOK'
      BY <2>0, <2>7, ChangeTyped DEF Chmod, Unpinned
    <2>8. CASE WriteMigration
      BY <2>0, <2>8, ChangeTyped DEF WriteMigration, Unpinned
    <2>9. CASE Migrate
      BY <2>0, <2>9, ChangeTyped DEF Migrate, Unpinned
    <2>10. CASE Backfill
      BY <2>0, <2>10, ChangeTyped DEF Backfill, Unpinned
    <2>11. CASE Restart
      BY <2>0, <2>11, ToolTyped, BootTyped DEF Restart, Boot, Unpinned
    <2>19. CASE Stop
      BY <2>0, <2>19, ToolTyped DEF Stop, Processes, Unpinned
    <2>12. ASSUME NEW schedule \in {"off", "daily", "minute"}, EditCron(schedule) PROVE TypeOK'
      BY <2>0, <2>12, ChangeTyped DEF EditCron, Unpinned
    <2>13. CASE EditScript
      BY <2>0, <2>13, ChangeTyped DEF EditScript, Unpinned
    <2>14. CASE EditOther
      <3>1. (~host.stray) \in BOOLEAN
        BY Zenon
      <3>2. QED BY <3>1, <2>0, <2>14, ChangeTyped DEF EditOther, Unpinned
    <2>15. CASE EditData
      BY <2>0, <2>15, ChangeTyped DEF EditData, Unpinned
    <2>16. CASE Customer \/ JobStarts \/ JobLocks \/ JobEnds
      <3>1. ASSUME NEW to \in {"idle", "starting", "locked"},
                   host' = [host EXCEPT !.job = to], UNCHANGED proc
            PROVE  host' \in Hosts /\ Unpinned(host', proc)
        BY <2>0, <3>1 DEF Unpinned
      <3>2. ASSUME host' = [host EXCEPT !.diverted = TRUE], UNCHANGED proc
            PROVE  host' \in Hosts /\ Unpinned(host', proc)
        BY <2>0, <3>2 DEF Unpinned
      <3>3. UNCHANGED <<inc, proc, verdict, calls>>
        BY <2>16 DEF Customer, JobStarts, JobLocks, JobEnds, Job
      <3>4. \/ host' = [host EXCEPT !.diverted = TRUE]
            \/ \E to \in {"idle", "starting", "locked"} : host' = [host EXCEPT !.job = to]
        BY <2>16, Zenon DEF Customer, JobStarts, JobLocks, JobEnds, Job
      <3>5. host' \in Hosts /\ Unpinned(host', proc)
        BY <3>1, <3>2, <3>3, <3>4
      <3>6. QED BY <3>3, <3>5 DEF TypeOK, Unpinned
    <2>17. ASSUME NEW hits, Resolve(hits) PROVE TypeOK'
      <3>1. Symptom(hits) \in BOOLEAN /\ RootCause \in BOOLEAN /\ NoCollateral \in BOOLEAN
        BY DEF Symptom, RootCause, NoCollateral
      <3>2. QED BY <2>17, <3>1 DEF Resolve, TypeOK
    <2>18. CASE UNCHANGED vars
      BY <2>18 DEF vars, TypeOK
    <2>20. QED BY <2>1, <2>2, <2>3, <2>4, <2>5, <2>6, <2>7, <2>8, <2>9, <2>10, <2>11, <2>12,
                  <2>13, <2>14, <2>15, <2>16, <2>17, <2>18, <2>19 DEF Next
  <1>3. QED BY <1>1, <1>2, PTL DEF Spec
-----------------------------------------------------------------------------
\* Money is diverted only into the stale copy, and after a success the service
\* no longer writes there.
Diverting == proc.up /\ proc.code # "patched" /\ OnSnapshot(proc.env)

Recovered ==
    /\ "ledger_divergence" \notin inc => ~host.diverted
    /\ Success => ~host.diverted /\ ~Diverting

\* The probes of the diverged ledger see both.
LEMMA SuccessIsComplete ==
    ASSUME TypeOK, "ledger_divergence" \in inc, NEW hits, Symptom(hits)
    PROVE  ~host.diverted /\ ~Diverting
  <1>1. Faults.ledger_divergence.symptom \subseteq SymptomChecks
    BY DEF SymptomChecks
  <1>2. {"payment", "complete"} \subseteq SymptomChecks
    BY <1>1, Entries DEF LedgerDivergence, Template
  <1>3. "payment" \notin Failing(proc) /\ "complete" \notin Failing(proc)
    BY <1>2 DEF Symptom
  <1>4. ~host.diverted
    BY <1>3 DEF Failing
  <1>5. ASSUME Diverting PROVE FALSE
    <2>1. "payment" \in Breaks(proc.env)
      BY <1>5 DEF Diverting, OnSnapshot, Breaks
    <2>2. Breaks(proc.env) \subseteq Failing(proc)
      BY <1>5 DEF Diverting, Failing
    <2>3. QED BY <2>1, <2>2, <1>3
  <1>6. QED BY <1>4, <1>5

\* A success leaves every payment in the real ledger, for good.
THEOREM MoneyIsRecovered == Spec => []NoMoneyLeftBehind
  <1>1. Init => Recovered
    <2> SUFFICES ASSUME Init PROVE Recovered
      OBVIOUS
    <2>1. ~Success
      BY DEF Init, Success
    <2>2. host.diverted <=> "ledger_divergence" \in inc
      BY Zenon DEF Init, Generated
    <2>3. QED BY <2>1, <2>2 DEF Recovered
  <1>2. TypeOK /\ Recovered /\ [Next]_vars => Recovered'
    <2> SUFFICES ASSUME TypeOK, Recovered, [Next]_vars PROVE Recovered'
      OBVIOUS
    <2>1. ASSUME NEW h, Tool(h), h.diverted = host.diverted \/ ~h.diverted PROVE Recovered'
      BY <2>1 DEF Tool, Recovered, Success
    <2>0. host \in Hosts
      BY DEF TypeOK
    <2> USE DEF Hosts
    <2>3. ASSUME NEW k \in Keys, NEW v \in {"prod", "other"}, EditEnv(k, v) PROVE Recovered'
      BY <2>0, <2>1, <2>3 DEF EditEnv, Change
    <2>4. CASE GitRestoreEnv \/ DeployDeps \/ EditLib \/ WriteMigration
      BY <2>0, <2>1, <2>4 DEF GitRestoreEnv, DeployDeps, EditLib, WriteMigration, Change
    <2>5. ASSUME NEW code \in {"shipped", "patched", "migrated"}, EditMain(code) PROVE Recovered'
      BY <2>0, <2>1, <2>5 DEF EditMain, Change
    <2>6. ASSUME NEW v \in {"2.1.0", "3.0.0"}, EditPin(v) PROVE Recovered'
      BY <2>0, <2>1, <2>6 DEF EditPin, Change
    <2>7. ASSUME NEW path \in Paths, Chmod(path) PROVE Recovered'
      BY <2>0, <2>1, <2>7 DEF Chmod, Change
    <2>8. CASE Migrate \/ Backfill
      BY <2>0, <2>1, <2>8 DEF Migrate, Backfill, Change
    <2>9. CASE Restart \/ Stop
      BY <2>1, <2>9 DEF Restart, Stop
    <2>10. ASSUME NEW schedule \in {"off", "daily", "minute"}, EditCron(schedule) PROVE Recovered'
      BY <2>0, <2>1, <2>10 DEF EditCron, Change
    <2>11. CASE EditScript \/ EditOther \/ EditData
      BY <2>0, <2>1, <2>11 DEF EditScript, EditOther, EditData, Change
    <2>12. CASE Customer
      BY <2>12 DEF Customer, Recovered, Success, Diverting, OnSnapshot
    <2>13. CASE JobStarts \/ JobLocks \/ JobEnds
      BY <2>0, <2>13 DEF JobStarts, JobLocks, JobEnds, Job, Recovered, Success, Diverting, OnSnapshot
    <2>14. ASSUME NEW hits, Resolve(hits)
           PROVE  Recovered'
      <3>1. CASE "ledger_divergence" \in inc
        <4>1. Success' => Symptom(hits)
          BY <2>14 DEF Resolve, Success
        <4>2. Success' => ~host.diverted /\ ~Diverting
          BY <3>1, <4>1, SuccessIsComplete
        <4>3. UNCHANGED <<inc, host, proc>>
          BY <2>14 DEF Resolve
        <4>4. QED BY <3>1, <4>2, <4>3 DEF Recovered, Diverting, OnSnapshot
      <3>2. CASE "ledger_divergence" \notin inc
        BY <2>14, <3>2 DEF Resolve, Recovered, Diverting, OnSnapshot
      <3>3. QED BY <3>1, <3>2
    <2>15. CASE UNCHANGED vars
      BY <2>15 DEF vars, Recovered, Success, Diverting, OnSnapshot
    <2>16. QED BY <2>3, <2>4, <2>5, <2>6, <2>7, <2>8, <2>9, <2>10, <2>11, <2>12, <2>13,
                  <2>14, <2>15 DEF Next
  <1>3. Recovered => NoMoneyLeftBehind
    BY DEF Recovered, NoMoneyLeftBehind
  <1>4. QED BY <1>1, <1>2, <1>3, TypeCorrect, PTL DEF Spec
-----------------------------------------------------------------------------
\* Each template has a root-cause check for everything it breaks, and all but
\* two of them one for the application's code.
Guarded(t) ==
    /\ \A k \in t.keys \ {"SESSION_SECRET"} : \E c \in t.root : c.type = "env" /\ k \in c.on
    /\ t.needs # {} => \E c \in t.root : c.type = "db_query"
    /\ \A p \in t.ro : \E c \in t.root : c.type = "path_writable" /\ p \in c.on

LEMMA FaultsGuarded == \A n \in DOMAIN Faults : Guarded(Faults[n])
  <1>1. \A k \in Keys : Guarded(EnvVarTypo(k))
    BY DEF Guarded, EnvVarTypo, Template, Check
  <1>2. \A lost \in SUBSET (Lost \cup {"DATABASE_URL"}) : Guarded(TruncatedEnv(lost))
    BY DEF Guarded, TruncatedEnv, Template, Lost, Check
  <1>3. Guarded(StaleSecret) /\ Guarded(RateLimitMisconfig) /\ Guarded(DiskFull)
    BY DEF Guarded, StaleSecret, RateLimitMisconfig, DiskFull, Template, Check
  <1>4. \A f, c : Guarded(UnappliedMigration(f, c))
    BY DEF Guarded, UnappliedMigration, Template, Check
  <1>5. \A p \in Paths : Guarded(DbFilePermissions(p))
    BY DEF Guarded, DbFilePermissions, Template, Check
  <1>6. Guarded(CronWriteLock) /\ Guarded(LedgerDivergence) /\ Guarded(BadDependencyPin)
    BY DEF Guarded, CronWriteLock, LedgerDivergence, BadDependencyPin, Template, Check
  <1>7. /\ "DATABASE_URL" \in Keys /\ "LEDGER_DATABASE_URL" \in Keys
        /\ "data" \in Paths /\ "core" \in Paths /\ "ledger" \in Paths
    BY DEF Keys, Paths
  <1>8. /\ Guarded(Faults.typo_core)
        /\ Guarded(Faults.typo_ledger)
    BY <1>1, <1>7, Entries
  <1>9. /\ Guarded(Faults.truncated_databases)
        /\ Guarded(Faults.truncated_ledger)
    BY <1>2, <1>7, Entries
  <1>10. /\ Guarded(Faults.stale_secret)
        /\ Guarded(Faults.rate_limit)
        /\ Guarded(Faults.disk_full)
    BY <1>3, <1>7, Entries
  <1>11. /\ Guarded(Faults.coupons)
        /\ Guarded(Faults.fulfillment)
        /\ Guarded(Faults.marketing_optin)
        /\ Guarded(Faults.coupons_forgotten)
        /\ Guarded(Faults.fulfillment_forgotten)
        /\ Guarded(Faults.marketing_optin_forgotten)
    BY <1>4, <1>7, Entries
  <1>12. /\ Guarded(Faults.perms_data)
        /\ Guarded(Faults.perms_core)
        /\ Guarded(Faults.perms_ledger)
    BY <1>5, <1>7, Entries
  <1>13. /\ Guarded(Faults.cron_write_lock)
        /\ Guarded(Faults.ledger_divergence)
        /\ Guarded(Faults.bad_dependency_pin)
    BY <1>6, <1>7, Entries
  <1>14. QED BY <1>8, <1>9, <1>10, <1>11, <1>12, <1>13, Names

\* Two templates do not check the application's code by its hash, and only the
\* bad pin's lets a fix change it.
Pinning == {"cron_write_lock", "bad_dependency_pin"}
Watched(t) == AppUnchanged \in t.root /\ "main.py" \notin t.allow

LEMMA CodeWatched == \A n \in DOMAIN Faults \ Pinning : Watched(Faults[n])
  <1>1. \A k : Watched(EnvVarTypo(k))
    BY DEF Watched, EnvVarTypo, Template
  <1>2. \A lost : Watched(TruncatedEnv(lost))
    BY DEF Watched, TruncatedEnv, Template
  <1>3. Watched(StaleSecret) /\ Watched(RateLimitMisconfig) /\ Watched(DiskFull)
    BY DEF Watched, StaleSecret, RateLimitMisconfig, DiskFull, Template
  <1>4. \A f, c : Watched(UnappliedMigration(f, c))
    BY DEF Watched, UnappliedMigration, Template
  <1>5. \A p : Watched(DbFilePermissions(p))
    BY DEF Watched, DbFilePermissions, Template
  <1>6. Watched(LedgerDivergence)
    BY DEF Watched, LedgerDivergence, Template
  <1>7. /\ Watched(Faults.typo_core)
        /\ Watched(Faults.typo_ledger)
    BY <1>1, Entries
  <1>8. /\ Watched(Faults.truncated_databases)
        /\ Watched(Faults.truncated_ledger)
    BY <1>2, Entries
  <1>9. /\ Watched(Faults.stale_secret)
        /\ Watched(Faults.rate_limit)
        /\ Watched(Faults.disk_full)
    BY <1>3, Entries
  <1>10. /\ Watched(Faults.coupons)
        /\ Watched(Faults.fulfillment)
        /\ Watched(Faults.marketing_optin)
        /\ Watched(Faults.coupons_forgotten)
        /\ Watched(Faults.fulfillment_forgotten)
        /\ Watched(Faults.marketing_optin_forgotten)
    BY <1>4, Entries
  <1>11. /\ Watched(Faults.perms_data)
        /\ Watched(Faults.perms_core)
        /\ Watched(Faults.perms_ledger)
    BY <1>5, Entries
  <1>12. /\ Watched(Faults.ledger_divergence)
    BY <1>6, Entries
  <1>13. QED BY <1>7, <1>8, <1>9, <1>10, <1>11, <1>12, Names DEF Pinning

\* Merging two members' checks drops none but the guards of files.
LEMMA ChecksSurvive ==
    ASSUME NEW n \in inc, NEW c \in Faults[n].root, c.type # "files_unchanged"
    PROVE  c \in RootChecks
  BY DEF RootChecks, Prefixed

\* While something is broken some root-cause check of the incident fails.
LEMMA BrokenIsSeen == ASSUME TypeOK, StillBroken PROVE ~RootCause
  <1>0. inc \subseteq DOMAIN Faults
    BY Members DEF TypeOK
  <1>1. ASSUME NEW n \in inc, NEW c \in Faults[n].root, c.type # "files_unchanged", ~Passes(c)
        PROVE  ~RootCause
    BY <1>1, ChecksSurvive DEF RootCause
  <1>2. ASSUME NEW n \in inc, NEW k \in Faults[n].keys \ {"SESSION_SECRET"}, host.env[k] # "prod"
        PROVE  ~RootCause
    <2>1. PICK c \in Faults[n].root : c.type = "env" /\ k \in c.on
      BY <1>0, FaultsGuarded DEF Guarded
    <2>2. ~Passes(c)
      BY <2>1, <1>2 DEF Passes
    <2>3. QED BY <2>1, <2>2, <1>1
  <1>3. ASSUME NEW n \in inc, Faults[n].needs # {}, host.schema = "old"
        PROVE  ~RootCause
    <2>1. PICK c \in Faults[n].root : c.type = "db_query"
      BY <1>0, <1>3, FaultsGuarded DEF Guarded
    <2>2. ~Passes(c)
      BY <2>1, <1>3 DEF Passes
    <2>3. QED BY <2>1, <2>2, <1>1
  <1>4. ASSUME NEW n \in inc, NEW p \in Faults[n].ro \cap host.ro
        PROVE  ~RootCause
    <2>1. PICK c \in Faults[n].root : c.type = "path_writable" /\ p \in c.on
      BY <1>0, FaultsGuarded DEF Guarded
    <2>2. ~Passes(c)
      BY <2>1 DEF Passes
    <2>3. QED BY <2>1, <2>2, <1>1
  <1>5. ASSUME "cron_write_lock" \in inc, host.cron = "minute"
        PROVE  ~RootCause
    <2>0. \E c \in CronWriteLock.root : c.type = "cron_job_disabled"
      BY DEF CronWriteLock, Template, Check
    <2>1. PICK c \in Faults["cron_write_lock"].root : c.type = "cron_job_disabled"
      BY <2>0, Entries
    <2>2. ~Passes(c)
      BY <2>1, <1>5 DEF Passes
    <2>3. QED BY <2>1, <2>2, <1>1, <1>5
  <1>6. ASSUME inc # {"cron_write_lock"}, host.code = "patched"
        PROVE  ~RootCause
    <2>1. CASE inc = {"bad_dependency_pin"}
      <3>0. \E c \in BadDependencyPin.root : c.type = "any_of" /\ c.on = {"rollback", "fix_forward"}
        BY DEF BadDependencyPin, Template, Check
      <3>1. PICK c \in Faults["bad_dependency_pin"].root :
                c.type = "any_of" /\ c.on = {"rollback", "fix_forward"}
        BY <3>0, Entries
      <3>2. ~Passes(c)
        BY <3>1, <1>6 DEF Passes, EndState
      <3>3. QED BY <3>1, <3>2, <1>1, <2>1
    <2>2. CASE inc # {"bad_dependency_pin"}
      <3>1. \E n \in inc \ Pinning : "bad_dependency_pin" \notin inc
        <4>1. inc \in Singles \/ inc \in Pairs
          BY IncidentsAssumption DEF TypeOK
        <4>2. CASE inc \in Singles
          BY <1>6, <2>2, <4>2 DEF Singles, Pinning
        <4>3. CASE inc \in Pairs
          <5>1. PICK m \in Migrations \cup Forgotten \cup {"rate_limit"},
                     p \in Permissions \cup {"cron_write_lock"} : inc = {m, p}
            BY <4>3 DEF Pairs
          <5>2. m \notin Pinning /\ m # "bad_dependency_pin" /\ p # "bad_dependency_pin"
            BY DEF Pinning, Migrations, Forgotten, Permissions
          <5>3. QED BY <5>1, <5>2
        <4>4. QED BY <4>1, <4>2, <4>3
      <3>2. PICK n \in inc \ Pinning : "bad_dependency_pin" \notin inc
        BY <3>1
      <3>3. "main.py" \notin Faults["cron_write_lock"].allow
        <4>1. "main.py" \notin CronWriteLock.allow
          BY DEF CronWriteLock, Template
        <4>2. QED BY <4>1, Entries
      <3>4. \A m \in inc : "main.py" \notin Faults[m].allow
        BY <1>0, <3>2, <3>3, CodeWatched DEF Pinning, Watched
      <3>5. AppUnchanged \in Faults[n].root
        BY <1>0, <3>2, CodeWatched DEF Watched
      <3>6. AppUnchanged \in Prefixed(n)
        <4> DEFINE sibling == UNION {Faults[m].allow : m \in inc \ {n}}
        <4>1. "main.py" \notin sibling
          BY <3>4
        <4>2. {"main.py"} \ sibling = {"main.py"}
          BY <4>1
        <4>3. Check(AppUnchanged.type, AppUnchanged.on \ sibling) = AppUnchanged
          BY <4>2 DEF AppUnchanged, Check
        <4>4. AppUnchanged.type = "files_unchanged"
          BY DEF AppUnchanged, Check
        <4>5. QED BY <3>5, <4>3, <4>4 DEF Prefixed
      <3>7. AppUnchanged \in RootChecks
        BY <3>6 DEF RootChecks
      <3>8. "main.py" \in Changed
        BY <1>6 DEF Changed, Generated
      <3>9. ~Passes(AppUnchanged)
        BY <3>8 DEF Passes, AppUnchanged, Check
      <3>10. QED BY <3>7, <3>9 DEF RootCause
    <2>3. QED BY <2>1, <2>2
  <1>7. QED BY <1>2, <1>3, <1>4, <1>5, <1>6 DEF StillBroken

\* With a fault left on the host a verdict is worth a mask at most.
THEOREM MasksScoreLow == Spec => []MaskedScoresLow
  <1> DEFINE Seen == verdict.given /\ StillBroken => ~verdict.root
  <1>1. Init => Seen
    BY DEF Init
  <1>2. TypeOK /\ Seen /\ [Next]_vars => Seen'
    <2> SUFFICES ASSUME TypeOK, Seen, [Next]_vars PROVE Seen'
      OBVIOUS
    <2>1. ASSUME ~verdict.given, UNCHANGED verdict PROVE Seen'
      BY <2>1
    <2>2. ASSUME NEW h, Tool(h) PROVE Seen'
      BY <2>1, <2>2 DEF Tool
    <2>3. CASE JobStarts \/ JobLocks \/ JobEnds
      BY <2>1, <2>3 DEF JobStarts, JobLocks, JobEnds, Job
    <2>4. CASE Customer
      <3>1. StillBroken' => StillBroken
        BY <2>4 DEF Customer, StillBroken, TypeOK, Hosts
      <3>2. QED BY <2>4, <3>1 DEF Customer
    <2>5. ASSUME NEW hits, Resolve(hits) PROVE Seen'
      <3>1. StillBroken' => StillBroken
        BY <2>5 DEF Resolve, StillBroken
      <3>2. verdict'.root <=> RootCause
        BY <2>5 DEF Resolve
      <3>3. QED BY <3>1, <3>2, BrokenIsSeen
    <2>6. CASE UNCHANGED vars
      BY <2>6 DEF vars, StillBroken
    <2>7. QED
      BY <2>2, <2>3, <2>4, <2>5, <2>6
         DEF Next, Change, EditEnv, GitRestoreEnv, DeployDeps, EditLib, EditMain, EditPin, Chmod,
             WriteMigration, Migrate, Backfill, Restart, Stop, EditCron, EditScript, EditOther, EditData
  <1>3. TypeOK /\ Seen => MaskedScoresLow
    BY DEF TypeOK, MaskedScoresLow, Reward, ComputeReward
  <1>4. QED BY <1>1, <1>2, <1>3, TypeCorrect, PTL DEF Spec
-----------------------------------------------------------------------------
(* What the incident's damage does to the probes, and what a repair leaves. *)

\* The faults that write the configuration; each writes a key other than the
\* session secret, and lets a fix change the file.
Keyed == {"typo_core", "typo_ledger", "truncated_databases", "truncated_ledger",
          "stale_secret", "rate_limit", "disk_full", "ledger_divergence"}

LEMMA KeyedFaults ==
    /\ \A n \in DOMAIN Faults : Faults[n].keys # {} <=> n \in Keyed
    /\ \A n \in Keyed : /\ Faults[n].keys \ {"SESSION_SECRET"} # {}
                      /\ Faults[n].value # "prod" /\ ".env" \in Faults[n].allow
  <1> DEFINE Spoils(t) == /\ t.keys \ {"SESSION_SECRET"} # {}
                          /\ t.value # "prod" /\ ".env" \in t.allow
  <1>1. \A k \in {"DATABASE_URL", "LEDGER_DATABASE_URL"} : Spoils(EnvVarTypo(k))
    BY DEF EnvVarTypo, Template
  <1>2. Spoils(TruncatedEnv(Lost))
    BY DEF TruncatedEnv, Template, Lost
  <1>3. Spoils(TruncatedEnv(Lost \cup {"DATABASE_URL"}))
    BY DEF TruncatedEnv, Template, Lost
  <1>4. /\ Spoils(StaleSecret) /\ Spoils(RateLimitMisconfig)
        /\ Spoils(DiskFull) /\ Spoils(LedgerDivergence)
    BY DEF StaleSecret, RateLimitMisconfig, DiskFull, LedgerDivergence, Template
  <1>5. /\ \A f, c : UnappliedMigration(f, c).keys = {}
        /\ \A q : DbFilePermissions(q).keys = {}
        /\ CronWriteLock.keys = {} /\ BadDependencyPin.keys = {}
    BY DEF UnappliedMigration, DbFilePermissions, CronWriteLock, BadDependencyPin, Template
  <1>6. \A n \in Keyed : Spoils(Faults[n])
    <2> HIDE DEF Spoils
    <2> QED
      BY <1>1, <1>2, <1>3, <1>4, Entries DEF Keyed
  <1>7. \A n \in DOMAIN Faults \ Keyed : Faults[n].keys = {}
    <2> DEFINE Unkeyed(t) == t.keys = {}
    <2>0. \A f, c : Unkeyed(UnappliedMigration(f, c))
      BY <1>5
    <2>1. /\ \A q : Unkeyed(DbFilePermissions(q))
          /\ Unkeyed(CronWriteLock) /\ Unkeyed(BadDependencyPin)
      BY <1>5
    <2> HIDE DEF Unkeyed
    <2>2. /\ Unkeyed(Faults.coupons) /\ Unkeyed(Faults.fulfillment)
          /\ Unkeyed(Faults.marketing_optin)
          /\ Unkeyed(Faults.coupons_forgotten) /\ Unkeyed(Faults.fulfillment_forgotten)
          /\ Unkeyed(Faults.marketing_optin_forgotten)
      BY <2>0, Entries
    <2>3. /\ Unkeyed(Faults.perms_data) /\ Unkeyed(Faults.perms_core)
          /\ Unkeyed(Faults.perms_ledger) /\ Unkeyed(Faults.cron_write_lock)
          /\ Unkeyed(Faults.bad_dependency_pin)
      BY <2>1, Entries
    <2>4. \A n \in DOMAIN Faults \ Keyed : Unkeyed(Faults[n])
      BY <2>2, <2>3, Names DEF Keyed
    <2> QED
      BY <2>4 DEF Unkeyed
  <1>8. Keyed \subseteq DOMAIN Faults
    BY Names DEF Keyed
  <1> QED
    BY <1>6, <1>7, <1>8

\* A fault of the configuration comes alone, or is the rate limit.
LEMMA KeyedAlone ==
    ASSUME inc \in Incidents, NEW n \in inc, n \in Keyed
    PROVE  inc = {n} \/ (n = "rate_limit" /\ \E p \in Permissions : inc = {n, p})
  <1>1. inc \in Singles \/ inc \in Pairs
    BY IncidentsAssumption
  <1>2. CASE inc \in Singles
    BY <1>2 DEF Singles
  <1>3. CASE inc \in Pairs
    BY <1>3 DEF Pairs, Migrations, Forgotten, Permissions, Keyed
  <1> QED
    BY <1>1, <1>2, <1>3

LEMMA Damaged ==
    ASSUME inc \in Incidents, NEW n \in inc, n \in Keyed, NEW k \in Faults[n].keys
    PROVE  Generated.env[k] = Faults[n].value
  <1>1. inc \subseteq DOMAIN Faults /\ k \in Keys
    BY Members, FaultsTyped DEF Typed
  <1>2. \A m \in inc \ {n} : Faults[m].keys = {}
    <2>1. \A m \in Permissions : m \notin Keyed
      BY DEF Permissions, Keyed
    <2> QED
      BY <1>1, <2>1, KeyedAlone, KeyedFaults
  <1>3. Damage(k) = {Faults[n].value}
    BY <1>2 DEF Damage
  <1> QED
    BY <1>1, <1>3 DEF Generated

\* Without one the configuration is as it should be.
LEMMA Undamaged ==
    ASSUME inc \in Incidents, inc \cap Keyed = {}
    PROVE  Generated.env = Healthy
  <1>1. \A m \in inc : Faults[m].keys = {}
    BY Members, KeyedFaults
  <1>2. \A k \in Keys : Damage(k) = {}
    BY <1>1 DEF Damage
  <1> QED
    BY <1>2 DEF Generated, Healthy

\* One probe of one member that fails is enough to fail the symptom.
LEMMA Shows ==
    ASSUME NEW n \in inc, NEW s \in Faults[n].symptom, s \in Failing(proc)
    PROVE  \A hits : ~Symptom(hits)
  BY DEF Symptom, SymptomChecks

\* What the configuration spoils is seen in a service that runs the code.
LEMMA BreaksShow ==
    ASSUME proc.up, proc.code # "patched", NEW n \in inc, NEW s \in Faults[n].symptom,
           s \in Breaks(proc.env)
    PROVE  \A hits : ~Symptom(hits)
  <1>1. s \in Failing(proc)
    BY DEF Failing
  <1> QED
    BY <1>1, Shows

LEMMA HealthIsProbed == \A n \in DOMAIN Faults : "health" \in Faults[n].symptom
  <1> DEFINE Healthful(t) == "health" \in t.symptom
  <1>1. \A k : Healthful(EnvVarTypo(k))
    BY DEF EnvVarTypo, Template
  <1>2. \A lost : Healthful(TruncatedEnv(lost))
    BY DEF TruncatedEnv, Template
  <1>3. Healthful(StaleSecret) /\ Healthful(RateLimitMisconfig) /\ Healthful(DiskFull)
    BY DEF StaleSecret, RateLimitMisconfig, DiskFull, Template
  <1>4. \A f, c : Healthful(UnappliedMigration(f, c))
    BY DEF UnappliedMigration, Template
  <1>5. \A q : Healthful(DbFilePermissions(q))
    BY DEF DbFilePermissions, Template
  <1>6. Healthful(CronWriteLock) /\ Healthful(LedgerDivergence) /\ Healthful(BadDependencyPin)
    BY DEF CronWriteLock, LedgerDivergence, BadDependencyPin, Template
  <1> HIDE DEF Healthful
  <1>7. Healthful(Faults.typo_core) /\ Healthful(Faults.typo_ledger)
    BY <1>1, Entries
  <1>8. Healthful(Faults.truncated_databases) /\ Healthful(Faults.truncated_ledger)
    BY <1>2, Entries
  <1>9. /\ Healthful(Faults.stale_secret) /\ Healthful(Faults.rate_limit)
        /\ Healthful(Faults.disk_full)
    BY <1>3, Entries
  <1>10. /\ Healthful(Faults.coupons) /\ Healthful(Faults.fulfillment)
         /\ Healthful(Faults.marketing_optin)
         /\ Healthful(Faults.coupons_forgotten) /\ Healthful(Faults.fulfillment_forgotten)
         /\ Healthful(Faults.marketing_optin_forgotten)
    BY <1>4, Entries
  <1>11. /\ Healthful(Faults.perms_data) /\ Healthful(Faults.perms_core)
         /\ Healthful(Faults.perms_ledger)
    BY <1>5, Entries
  <1>12. /\ Healthful(Faults.cron_write_lock) /\ Healthful(Faults.ledger_divergence)
         /\ Healthful(Faults.bad_dependency_pin)
    BY <1>6, Entries
  <1>13. \A n \in DOMAIN Faults : Healthful(Faults[n])
    BY <1>7, <1>8, <1>9, <1>10, <1>11, <1>12, Names
  <1> QED
    BY <1>13 DEF Healthful

\* A service that did not come up fails the symptom of every incident.
LEMMA DownShows ==
    ASSUME inc \in Incidents, ~proc.up
    PROVE  \A hits : ~Symptom(hits)
  <1>1. PICK n \in inc : n \in DOMAIN Faults
    <2>1. inc # {}
      <3>1. inc \in Singles \/ inc \in Pairs
        BY IncidentsAssumption
      <3> QED
        BY <3>1 DEF Singles, Pairs
    <2> QED
      BY <2>1, Members
  <1>2. "health" \in Failing(proc)
    BY DEF Failing, Probes
  <1> QED
    BY <1>1, <1>2, HealthIsProbed, Shows

\* A service that runs the damaged configuration fails the symptom of the
\* fault that damaged it.
LEMMA DamageShows ==
    ASSUME inc \in Incidents, NEW n \in inc, n \in Keyed,
           proc.up, proc.code # "patched", proc.env = Generated.env
    PROVE  \A hits : ~Symptom(hits)
  <1>1. \A k \in Faults[n].keys : proc.env[k] = Faults[n].value
    BY Damaged
  <1>2. \A s \in Faults[n].symptom : s \in Breaks(proc.env) => \A hits : ~Symptom(hits)
    BY BreaksShow
  <1>3. n \in DOMAIN Faults /\ "health" \in Faults[n].symptom
    BY Members, HealthIsProbed
  <1>4. n # "ledger_divergence" => "ledger_divergence" \notin inc
    BY KeyedAlone DEF Permissions
  <1>5. ASSUME "DATABASE_URL" \in Faults[n].keys, Faults[n].value # "prod"
        PROVE  "health" \in Breaks(proc.env)
    BY <1>1, <1>5 DEF Breaks
  <1>6. ASSUME "LEDGER_DATABASE_URL" \in Faults[n].keys, n # "ledger_divergence"
        PROVE  "health" \in Breaks(proc.env)
    <2>1. proc.env["LEDGER_DATABASE_URL"] # "prod" /\ ~OnSnapshot(proc.env)
      BY <1>1, <1>4, <1>6, KeyedFaults DEF OnSnapshot
    <2> QED
      BY <2>1 DEF Breaks
  <1>7. CASE n = "typo_core"
    <2>1. LET t == EnvVarTypo("DATABASE_URL")
          IN  "DATABASE_URL" \in t.keys /\ t.value # "prod"
      BY DEF EnvVarTypo, Template
    <2>2. "DATABASE_URL" \in Faults[n].keys /\ Faults[n].value # "prod"
      BY <1>7, <2>1, Entries
    <2> QED
      BY <2>2, <1>2, <1>3, <1>5
  <1>8. CASE n \in {"typo_ledger", "truncated_databases", "truncated_ledger"}
    <2>1. "LEDGER_DATABASE_URL" \in EnvVarTypo("LEDGER_DATABASE_URL").keys
      BY DEF EnvVarTypo, Template
    <2>2. "LEDGER_DATABASE_URL" \in TruncatedEnv(Lost).keys
      BY DEF TruncatedEnv, Template, Lost
    <2>3. "LEDGER_DATABASE_URL" \in TruncatedEnv(Lost \cup {"DATABASE_URL"}).keys
      BY DEF TruncatedEnv, Template, Lost
    <2>4. "LEDGER_DATABASE_URL" \in Faults[n].keys
      BY <1>8, <2>1, <2>2, <2>3, Entries
    <2> QED
      BY <2>4, <1>2, <1>3, <1>6, <1>8
  <1>9. CASE n = "stale_secret"
    <2>1. /\ "WEBHOOK_SIGNING_SECRET" \in StaleSecret.keys /\ StaleSecret.value = "fault"
          /\ "webhook" \in StaleSecret.symptom
      BY DEF StaleSecret, Template
    <2>2. "webhook" \in Breaks(proc.env) /\ "webhook" \in Faults[n].symptom
      BY <1>1, <1>9, <2>1, Entries DEF Breaks
    <2> QED
      BY <2>2, <1>2
  <1>10. CASE n = "rate_limit"
    <2>1. /\ "RATE_LIMIT_PER_MINUTE" \in RateLimitMisconfig.keys
          /\ RateLimitMisconfig.value = "fault" /\ "burst" \in RateLimitMisconfig.symptom
      BY DEF RateLimitMisconfig, Template
    <2>2. "burst" \in Breaks(proc.env) /\ "burst" \in Faults[n].symptom
      BY <1>1, <1>10, <2>1, Entries DEF Breaks
    <2> QED
      BY <2>2, <1>2
  <1>11. CASE n = "disk_full"
    <2>1. /\ "DATABASE_MAX_PAGES" \in DiskFull.keys
          /\ DiskFull.value = "fault" /\ "burst" \in DiskFull.symptom
      BY DEF DiskFull, Template
    <2>2. "burst" \in Breaks(proc.env) /\ "burst" \in Faults[n].symptom
      BY <1>1, <1>11, <2>1, Entries DEF Breaks, Writes
    <2> QED
      BY <2>2, <1>2
  <1>12. CASE n = "ledger_divergence"
    <2>1. /\ "LEDGER_DATABASE_URL" \in LedgerDivergence.keys
          /\ LedgerDivergence.value = "fault" /\ "payment" \in LedgerDivergence.symptom
      BY DEF LedgerDivergence, Template
    <2>2. "payment" \in Breaks(proc.env) /\ "payment" \in Faults[n].symptom
      BY <1>1, <1>12, <2>1, Entries DEF Breaks
    <2> QED
      BY <2>2, <1>2
  <1> QED
    BY <1>7, <1>8, <1>9, <1>10, <1>11, <1>12 DEF Keyed

\* The faults of the schema and of the permissions fail what their symptom asks.
LEMMA OtherFaults ==
    /\ \A n \in Migrations \cup Forgotten :
          Faults[n].needs # {} /\ Faults[n].needs \subseteq Faults[n].symptom
    /\ \A n \in Permissions : Faults[n].ro # {} /\ "checkout" \in Faults[n].symptom
  <1> DEFINE Migrating(t) == t.needs # {} /\ t.needs \subseteq t.symptom
             Locking(t) == t.ro # {} /\ "checkout" \in t.symptom
  <1>1. \A f, c : f # {} => Migrating(UnappliedMigration(f, c))
    BY DEF UnappliedMigration, Template
  <1>2. \A q : Locking(DbFilePermissions(q))
    BY DEF DbFilePermissions, Template
  <1> HIDE DEF Migrating, Locking
  <1>4. /\ Migrating(Faults.coupons) /\ Migrating(Faults.fulfillment)
        /\ Migrating(Faults.marketing_optin)
        /\ Migrating(Faults.coupons_forgotten) /\ Migrating(Faults.fulfillment_forgotten)
        /\ Migrating(Faults.marketing_optin_forgotten)
    BY <1>1, Entries
  <1>5. /\ Locking(Faults.perms_data) /\ Locking(Faults.perms_core)
        /\ Locking(Faults.perms_ledger)
    BY <1>2, Entries
  <1>6. \A n \in Migrations \cup Forgotten : Migrating(Faults[n])
    BY <1>4 DEF Migrations, Forgotten
  <1>7. \A n \in Permissions : Locking(Faults[n])
    BY <1>5 DEF Permissions
  <1> QED
    BY <1>6, <1>7 DEF Migrating, Locking

\* Every fault is of one of five kinds; the bad pin comes alone.
LEMMA Kinds ==
    ASSUME inc \in Incidents
    PROVE  /\ inc # {}
           /\ \A n \in inc : \/ n \in Keyed \cup Migrations \cup Forgotten \cup Permissions
                             \/ n = "cron_write_lock"
                             \/ n = "bad_dependency_pin" /\ inc = {n}
  <1>1. inc \in Singles \/ inc \in Pairs
    BY IncidentsAssumption
  <1>2. CASE inc \in Singles
    BY <1>2, Names DEF Singles, Keyed, Migrations, Forgotten, Permissions
  <1>3. CASE inc \in Pairs
    BY <1>3 DEF Pairs, Keyed
  <1> QED
    BY <1>1, <1>2, <1>3

\* The host as generated, but for what customers and the job do to it.
Untouched ==
    /\ host.env = Generated.env /\ host.code = "shipped"
    /\ host.pin = Pinned /\ host.lib = Pinned
    /\ host.schema = Generated.schema /\ host.ro = Generated.ro
    /\ host.cron = Generated.cron /\ host.script = "shipped"

\* On it, with the service just started, neither criterion of the fix holds, but
\* for the window that may miss a scheduled job.
LEMMA UntouchedFails ==
    ASSUME TypeOK, Untouched, proc = Boot(host)
    PROVE  ~RootCause /\ (inc = {"cron_write_lock"} \/ \A hits : ~Symptom(hits))
  <1>1. inc \in Incidents
    BY DEF TypeOK
  <1>2. PICK n \in inc : inc = {"cron_write_lock"} \/ n # "cron_write_lock"
    BY <1>1, Kinds
  <1>3. proc.code = "shipped" /\ proc.env = Generated.env /\ (proc.up <=> Boots(host))
    BY DEF Boot, Untouched
  <1>4. ASSUME StillBroken, proc.up => \A hits : ~Symptom(hits)
        PROVE  ~RootCause /\ \A hits : ~Symptom(hits)
    BY <1>1, <1>4, BrokenIsSeen, DownShows
  <1>5. CASE n \in Keyed
    <2>1. PICK k \in Faults[n].keys \ {"SESSION_SECRET"} : TRUE
      BY <1>5, KeyedFaults
    <2>2. host.env[k] # "prod"
      BY <1>1, <1>5, Damaged, KeyedFaults DEF Untouched
    <2>3. StillBroken
      BY <2>2 DEF StillBroken
    <2>4. proc.up => \A hits : ~Symptom(hits)
      BY <1>1, <1>3, <1>5, DamageShows
    <2> QED
      BY <2>3, <2>4, <1>4
  <1>6. CASE n \in Migrations \cup Forgotten
    <2>1. PICK s \in Faults[n].needs : s \in Faults[n].symptom
      BY <1>6, OtherFaults
    <2>2. s \in Needs
      BY DEF Needs
    <2>3. host.schema = "old"
      BY <2>2 DEF Untouched, Generated
    <2>4. StillBroken
      BY <2>3 DEF StillBroken
    <2>5. ASSUME proc.up PROVE s \in Failing(proc)
      BY <1>3, <2>2, <2>3, <2>5 DEF Failing, Outdated
    <2>6. proc.up => \A hits : ~Symptom(hits)
      BY <2>1, <2>5, Shows
    <2> QED
      BY <2>4, <2>6, <1>4
  <1>7. CASE n \in Permissions
    <2>1. PICK p \in Faults[n].ro : TRUE
      BY <1>7, OtherFaults
    <2>2. p \in host.ro
      BY DEF Untouched, Generated
    <2>3. StillBroken
      BY <2>2 DEF StillBroken
    <2>4. ASSUME proc.up PROVE "checkout" \in Failing(proc)
      BY <2>2, <2>4 DEF Failing, Writes
    <2>5. proc.up => \A hits : ~Symptom(hits)
      BY <1>7, <2>4, OtherFaults, Shows
    <2> QED
      BY <2>3, <2>5, <1>4
  <1>8. CASE n = "cron_write_lock"
    <2>1. host.cron = "minute" /\ host.script = "shipped"
      BY <1>8 DEF Untouched, Generated
    <2>2. StillBroken
      BY <2>1, <1>8 DEF StillBroken
    <2> QED
      BY <2>2, <1>2, <1>8, BrokenIsSeen
  <1>9. CASE n = "bad_dependency_pin"
    <2>1. host.pin = "3.0.0" /\ host.lib = "3.0.0" /\ host.code = "shipped"
      BY <1>9 DEF Untouched, Pinned
    <2>2. ~proc.up
      BY <1>3, <2>1 DEF Boots
    <2>3. "log" \in Failing(proc)
      BY <2>2 DEF Failing, Probes
    <2>4. \A name : ~EndState(name)
      BY <2>1, <2>3 DEF EndState
    <2>5. \E c \in BadDependencyPin.root : c.type = "any_of"
      BY DEF BadDependencyPin, Template, Check
    <2>6. PICK c \in Faults["bad_dependency_pin"].root : c.type = "any_of"
      BY <2>5, Entries
    <2>7. ~Passes(c)
      BY <2>4, <2>6 DEF Passes
    <2>8. c \in RootChecks
      BY <1>9, <2>6, ChecksSurvive
    <2> QED
      BY <1>1, <2>2, <2>7, <2>8, DownShows DEF RootCause
  <1> QED
    BY <1>1, <1>2, <1>5, <1>6, <1>7, <1>8, <1>9, Kinds

\* What the incident started with is fixed.
LEMMA SameIncident == ASSUME UNCHANGED inc PROVE UNCHANGED <<Generated, Pinned>>
  BY DEF Generated, Pinned, Needs, Damage

\* Restarting the service of an untouched host earns nothing, whatever
\* customers and the job do before and after the verdict, but for the symptom
\* of the archive job alone, which a window may miss.
THEOREM NothingIsFree == Spec => []NothingForNothing
  <1> DEFINE Free == verdict.given /\ Untouched /\ proc = Boot(host)
                       => /\ ~verdict.root
                          /\ inc = {"cron_write_lock"} \/ ~verdict.symptom
  <1>1. Init => Free
    BY DEF Init
  <1>2. TypeOK /\ Free /\ [Next]_vars => Free'
    <2> SUFFICES ASSUME TypeOK, Free, [Next]_vars PROVE Free'
      OBVIOUS
    <2>1. ASSUME ~verdict.given, UNCHANGED verdict PROVE Free'
      BY <2>1
    <2>2. ASSUME NEW h, Tool(h) PROVE Free'
      BY <2>1, <2>2 DEF Tool
    <2>3. CASE JobStarts \/ JobLocks \/ JobEnds
      BY <2>1, <2>3 DEF JobStarts, JobLocks, JobEnds, Job
    <2>4. CASE Customer
      <3>1. /\ host' = [host EXCEPT !.diverted = TRUE] /\ host \in Hosts
            /\ UNCHANGED <<inc, proc, verdict>>
        BY <2>4 DEF Customer, TypeOK
      <3>2. Untouched' => Untouched
        <4>1. /\ host'.env = host.env /\ host'.code = host.code /\ host'.pin = host.pin
              /\ host'.lib = host.lib /\ host'.schema = host.schema /\ host'.ro = host.ro
              /\ host'.cron = host.cron /\ host'.script = host.script
          BY <3>1 DEF Hosts
        <4> QED
          BY <3>1, <4>1, SameIncident DEF Untouched
      <3>3. Boot(host') = Boot(host)
        BY <3>1 DEF Boot, Boots, Hosts
      <3> QED
        BY <3>1, <3>2, <3>3
    <2>5. ASSUME NEW hits, Resolve(hits) PROVE Free'
      <3>1. /\ UNCHANGED <<inc, host, proc>>
            /\ verdict'.root = RootCause /\ verdict'.symptom = Symptom(hits)
        BY <2>5 DEF Resolve
      <3>2. Untouched' => Untouched
        BY <3>1, SameIncident DEF Untouched
      <3>3. Boot(host') = Boot(host)
        BY <3>1
      <3> QED
        BY <3>1, <3>2, <3>3, UntouchedFails
    <2>6. CASE UNCHANGED vars
      <3>1. UNCHANGED <<inc, host, proc, verdict>>
        BY <2>6 DEF vars
      <3> QED
        BY <3>1, SameIncident DEF Untouched
    <2> QED
      BY <2>2, <2>3, <2>4, <2>5, <2>6
         DEF Next, Change, EditEnv, GitRestoreEnv, DeployDeps, EditLib, EditMain, EditPin, Chmod,
             WriteMigration, Migrate, Backfill, Restart, Stop, EditCron, EditScript, EditOther, EditData
  <1>3. TypeOK /\ Free => NothingForNothing
    <2> SUFFICES ASSUME TypeOK, Free, verdict.given,
                        [host EXCEPT !.job = "idle"] = Generated, proc = Boot(host)
                 PROVE  Reward = 0 \/ (inc = {"cron_write_lock"} /\ Reward <= 30)
      BY DEF NothingForNothing
    <2>1. host \in Hosts
      BY DEF TypeOK
    <2>2. /\ host.env = Generated.env /\ host.code = Generated.code
          /\ host.pin = Generated.pin /\ host.lib = Generated.lib
          /\ host.schema = Generated.schema /\ host.ro = Generated.ro
          /\ host.cron = Generated.cron /\ host.script = Generated.script
      BY <2>1 DEF Hosts
    <2>3. Untouched
      BY <2>2 DEF Untouched, Generated
    <2>4. verdict.symptom \in BOOLEAN /\ verdict.collateral \in BOOLEAN
      BY DEF TypeOK
    <2>5. CASE ~verdict.symptom
      BY <2>3, <2>5 DEF Reward, ComputeReward
    <2>6. CASE verdict.symptom
      BY <2>3, <2>4, <2>6 DEF Reward, ComputeReward
    <2> QED
      BY <2>5, <2>6
  <1> QED
    BY <1>1, <1>2, <1>3, TypeCorrect, PTL DEF Spec
-----------------------------------------------------------------------------
(* A repair passes every check: no check asks for more than the damage, and *)
(* what a sibling's fix changes is taken out of a member's guards.          *)

Asks(t) ==
    \A c \in t.root :
        \/ c.type \in {"db_query", "path_writable", "cron_job_disabled"}
        \/ c.type = "env" /\ c.on \subseteq Keys
        \/ /\ c.type = "files_unchanged" /\ c.on \subseteq {"main.py", ".env"}
           /\ ".env" \in c.on => t.keys = {}
        \/ c.type = "any_of" /\ c.on = {"rollback", "fix_forward"}

LEMMA FaultsAsk == \A n \in DOMAIN Faults : Asks(Faults[n])
  <1>1. \A k \in Keys : Asks(EnvVarTypo(k))
    BY DEF Asks, EnvVarTypo, Template, AppUnchanged, Check
  <1>2. \A lost : Asks(TruncatedEnv(lost))
    BY DEF Asks, TruncatedEnv, Template, AppUnchanged, Check, Keys
  <1>3. Asks(StaleSecret) /\ Asks(RateLimitMisconfig) /\ Asks(DiskFull)
    BY DEF Asks, StaleSecret, RateLimitMisconfig, DiskFull, Template, AppUnchanged, Check, Keys
  <1>4. \A f, c : Asks(UnappliedMigration(f, c))
    BY DEF Asks, UnappliedMigration, Template, AppUnchanged, Check
  <1>5. \A q : Asks(DbFilePermissions(q))
    BY DEF Asks, DbFilePermissions, Template, AppUnchanged, Check
  <1>6. Asks(CronWriteLock) /\ Asks(LedgerDivergence) /\ Asks(BadDependencyPin)
    BY DEF Asks, CronWriteLock, LedgerDivergence, BadDependencyPin, Template, AppUnchanged,
           Check, Keys
  <1>7. "DATABASE_URL" \in Keys /\ "LEDGER_DATABASE_URL" \in Keys
    BY DEF Keys
  <1>8. Asks(Faults.typo_core) /\ Asks(Faults.typo_ledger)
    BY <1>1, <1>7, Entries
  <1>9. Asks(Faults.truncated_databases) /\ Asks(Faults.truncated_ledger)
    BY <1>2, Entries
  <1>10. Asks(Faults.stale_secret) /\ Asks(Faults.rate_limit) /\ Asks(Faults.disk_full)
    BY <1>3, Entries
  <1>11. /\ Asks(Faults.coupons) /\ Asks(Faults.fulfillment)
         /\ Asks(Faults.marketing_optin)
         /\ Asks(Faults.coupons_forgotten) /\ Asks(Faults.fulfillment_forgotten)
         /\ Asks(Faults.marketing_optin_forgotten)
    BY <1>4, Entries
  <1>12. Asks(Faults.perms_data) /\ Asks(Faults.perms_core) /\ Asks(Faults.perms_ledger)
    BY <1>5, Entries
  <1>13. /\ Asks(Faults.cron_write_lock) /\ Asks(Faults.ledger_divergence)
         /\ Asks(Faults.bad_dependency_pin)
    BY <1>6, Entries
  <1> QED
    BY <1>8, <1>9, <1>10, <1>11, <1>12, <1>13, Names

\* Whose fix needs to change files besides .env, and which.
LEMMA FaultsAllow ==
    /\ \A n \in Forgotten : "migrations" \in Faults[n].allow
    /\ "cron.d" \in Faults["cron_write_lock"].allow
    /\ {"requirements.txt", "lib", "main.py"} \subseteq Faults["bad_dependency_pin"].allow
    /\ \A c \in Faults["bad_dependency_pin"].root : c.type # "files_unchanged"
  <1> DEFINE Writing(t) == "migrations" \in t.allow
             Pins(t) == /\ {"requirements.txt", "lib", "main.py"} \subseteq t.allow
                        /\ \A c \in t.root : c.type # "files_unchanged"
  <1>1. \A f : Writing(UnappliedMigration(f, FALSE))
    BY DEF UnappliedMigration, Template
  <1>2. "cron.d" \in CronWriteLock.allow
    BY DEF CronWriteLock, Template
  <1>3. Pins(BadDependencyPin)
    BY DEF BadDependencyPin, Template, Check
  <1> HIDE DEF Writing, Pins
  <1>4. /\ Writing(Faults.coupons_forgotten) /\ Writing(Faults.fulfillment_forgotten)
        /\ Writing(Faults.marketing_optin_forgotten)
    BY <1>1, Entries
  <1>5. \A n \in Forgotten : Writing(Faults[n])
    BY <1>4 DEF Forgotten
  <1>6. "cron.d" \in Faults["cron_write_lock"].allow
    BY <1>2, Entries
  <1>7. Pins(Faults["bad_dependency_pin"])
    BY <1>3, Entries
  <1> QED
    BY <1>5, <1>6, <1>7 DEF Writing, Pins

\* A responder only touches the crontab of a job and writes the migration of
\* an incident that has one.
Orderly ==
    /\ host.written => inc \cap Forgotten # {}
    /\ "cron_write_lock" \notin inc => host.cron = "off"

\* What a repair changes, and for whom.
LEMMA RepairChanges ==
    ASSUME TypeOK, Orderly, Repaired
    PROVE  /\ \A f \in Changed : \E n \in inc : f \in Faults[n].allow
           /\ ".env" \in Changed => inc \cap Keyed # {}
           /\ "main.py" \in Changed => inc = {"bad_dependency_pin"}
  <1>1. inc \in Incidents /\ inc \subseteq DOMAIN Faults
    BY Members DEF TypeOK
  <1>2. ".env" \in Changed => inc \cap Keyed # {}
    BY <1>1, Undamaged DEF Changed, Repaired
  <1>3. host.pin # "2.1.0" \/ host.lib # "2.1.0" \/ host.code # "shipped"
            => "bad_dependency_pin" \in inc
    BY DEF TypeOK, Repaired
  <1>4. "bad_dependency_pin" \in inc => inc = {"bad_dependency_pin"}
    <2>1. "bad_dependency_pin" \notin Keyed \cup Migrations \cup Forgotten \cup Permissions
      BY DEF Keyed, Migrations, Forgotten, Permissions
    <2> QED
      BY <1>1, <2>1, Kinds
  <1>5. "main.py" \in Changed => inc = {"bad_dependency_pin"}
    BY <1>3, <1>4 DEF Changed, Generated
  <1>6. "requirements.txt" \in Changed => "bad_dependency_pin" \in inc
    BY <1>3 DEF Changed, Generated, Pinned
  <1>7. "lib" \in Changed => "bad_dependency_pin" \in inc
    BY <1>3 DEF Changed, Generated, Pinned
  <1>8. "cron.d" \in Changed => "cron_write_lock" \in inc
    BY DEF Changed, Generated, Orderly
  <1>9. "migrations" \in Changed => inc \cap Forgotten # {}
    BY DEF Changed, Orderly
  <1>10. Changed \subseteq {".env", "main.py", "requirements.txt", "lib", "cron.d", "migrations"}
    BY DEF Changed, Repaired, Generated
  <1>11. \A f \in Changed : \E n \in inc : f \in Faults[n].allow
    BY <1>2, <1>5, <1>6, <1>7, <1>8, <1>9, <1>10, KeyedFaults, FaultsAllow
  <1> QED
    BY <1>2, <1>5, <1>11

LEMMA RepairIsClean == ASSUME TypeOK, Orderly, Repaired PROVE NoCollateral
  <1>1. \A f \in Changed : \E n \in inc : f \in Faults[n].allow
    BY RepairChanges
  <1>2. Changed \subseteq Allowed
    BY <1>1 DEF Allowed
  <1>3. ~host.forbidden
    BY DEF Repaired
  <1> QED
    BY <1>2, <1>3 DEF NoCollateral

\* A service started on a repaired host fails no probe.
LEMMA RepairRuns ==
    ASSUME TypeOK, Repaired, proc = Boot(host)
    PROVE  Failing(proc) = {}
  <1>1. Boots(host) /\ host.code # "patched" /\ host.env = Healthy
    BY DEF Repaired, Boots
  <1>2. proc.up /\ proc.code # "patched" /\ proc.env = Healthy
    BY <1>1 DEF Boot
  <1>3. \A k \in Keys : Healthy[k] = "prod"
    BY DEF Healthy
  <1>4. Breaks(proc.env) = {}
    BY <1>2, <1>3 DEF Breaks, Keys
  <1> QED
    BY <1>2, <1>4 DEF Failing, Repaired

LEMMA RepairIsRooted ==
    ASSUME TypeOK, Orderly, Repaired, host.code = "shipped" \/ proc = Boot(host)
    PROVE  RootCause
  <1> SUFFICES ASSUME NEW n \in inc, NEW d \in Prefixed(n) PROVE Passes(d)
    BY DEF RootCause, RootChecks
  <1> DEFINE sibling == UNION {Faults[m].allow : m \in inc \ {n}}
  <1>0. PICK c \in Faults[n].root :
          d = IF c.type = "files_unchanged" THEN Check(c.type, c.on \ sibling) ELSE c
    BY DEF Prefixed
  <1>1. n \in DOMAIN Faults /\ inc \in Incidents
    BY Members DEF TypeOK
  <1>2. CASE c.type \in {"db_query", "path_writable", "cron_job_disabled"}
    BY <1>0, <1>2 DEF Passes, Repaired
  <1>3. CASE c.type = "env" /\ c.on \subseteq Keys
    BY <1>0, <1>3 DEF Passes, Repaired, Healthy
  <1>4. CASE c.type = "any_of" /\ c.on = {"rollback", "fix_forward"}
    <2>1. CASE host.code = "shipped"
      <3>1. EndState("rollback")
        BY <2>1 DEF EndState, Repaired
      <3> QED
        BY <1>0, <1>4, <3>1 DEF Passes
    <2>2. CASE host.code # "shipped" /\ proc = Boot(host)
      <3>1. EndState("fix_forward")
        BY <2>2, RepairRuns DEF EndState, Repaired
      <3> QED
        BY <1>0, <1>4, <3>1 DEF Passes
    <2> QED
      BY <2>1, <2>2
  <1>5. CASE /\ c.type = "files_unchanged" /\ c.on \subseteq {"main.py", ".env"}
             /\ ".env" \in c.on => Faults[n].keys = {}
    <2>1. "main.py" \notin Changed
      BY <1>5, RepairChanges, FaultsAllow
    <2>2. ASSUME ".env" \in c.on, ".env" \in Changed PROVE ".env" \in sibling
      <3>1. PICK m \in inc : m \in Keyed
        BY <2>2, RepairChanges
      <3>2. n \notin Keyed
        BY <1>1, <1>5, <2>2, KeyedFaults
      <3> QED
        BY <3>1, <3>2, KeyedFaults
    <2>3. (c.on \ sibling) \cap Changed = {}
      BY <1>5, <2>1, <2>2
    <2>4. Passes(Check(c.type, c.on \ sibling))
      BY <1>5, <2>3 DEF Passes, Check
    <2> QED
      BY <1>0, <1>5, <2>4
  <1>6. Asks(Faults[n])
    BY <1>1, FaultsAsk
  <1> QED
    BY <1>2, <1>3, <1>4, <1>5, <1>6 DEF Asks

\* While the service still runs what the incident started, the symptom shows.
LEMMA RepairNotRunning ==
    ASSUME TypeOK, Repaired, host.code = "shipped",
           proc = Boot(Generated), proc # Boot(host)
    PROVE  \A hits : ~Symptom(hits)
  <1>1. inc \in Incidents
    BY DEF TypeOK
  <1>2. CASE ~proc.up
    BY <1>1, <1>2, DownShows
  <1>3. CASE proc.up
    <2>1. proc.code = "shipped" /\ proc.env = Generated.env
      BY DEF Boot, Generated
    <2>2. Boots(host) /\ host.env = Healthy
      BY DEF Boots, Repaired
    <2>3. Boots(Generated)
      BY <1>3 DEF Boot
    <2>4. Generated.env # Healthy
      BY <2>1, <2>2, <2>3 DEF Boot, Generated
    <2>5. PICK n \in inc : n \in Keyed
      BY <1>1, <2>4, Undamaged
    <2> QED
      BY <1>1, <1>3, <2>1, <2>5, DamageShows
  <1> QED
    BY <1>2, <1>3

LEMMA OrderlyStep == TypeOK /\ Orderly /\ [Next]_vars => Orderly'
  <1> SUFFICES ASSUME TypeOK, Orderly, [Next]_vars PROVE Orderly'
    OBVIOUS
  <1>0. host \in Hosts
    BY DEF TypeOK
  <1>1. ASSUME NEW h, Tool(h), h.written = host.written, h.cron = host.cron PROVE Orderly'
    BY <1>1 DEF Tool, Orderly
  <1> USE DEF Hosts
  <1>2. ASSUME NEW k \in Keys, NEW v \in {"prod", "other"}, EditEnv(k, v) PROVE Orderly'
    BY <1>0, <1>1, <1>2 DEF EditEnv, Change
  <1>3. CASE GitRestoreEnv \/ DeployDeps \/ EditLib
    BY <1>0, <1>1, <1>3 DEF GitRestoreEnv, DeployDeps, EditLib, Change
  <1>4. ASSUME NEW code \in {"shipped", "patched", "migrated"}, EditMain(code) PROVE Orderly'
    BY <1>0, <1>1, <1>4 DEF EditMain, Change
  <1>5. ASSUME NEW v \in {"2.1.0", "3.0.0"}, EditPin(v) PROVE Orderly'
    BY <1>0, <1>1, <1>5 DEF EditPin, Change
  <1>6. ASSUME NEW path \in Paths, Chmod(path) PROVE Orderly'
    BY <1>0, <1>1, <1>6 DEF Chmod, Change
  <1>7. CASE WriteMigration
    BY <1>0, <1>7 DEF WriteMigration, Change, Tool, Orderly
  <1>8. CASE Migrate \/ Backfill
    BY <1>0, <1>1, <1>8 DEF Migrate, Backfill, Change
  <1>9. CASE Restart \/ Stop
    BY <1>1, <1>9 DEF Restart, Stop
  <1>10. ASSUME NEW schedule \in {"off", "daily", "minute"}, EditCron(schedule) PROVE Orderly'
    BY <1>0, <1>10 DEF EditCron, Change, Tool, Orderly
  <1>11. CASE EditScript \/ EditOther \/ EditData
    BY <1>0, <1>1, <1>11 DEF EditScript, EditOther, EditData, Change
  <1>12. CASE Customer \/ JobStarts \/ JobLocks \/ JobEnds
    BY <1>0, <1>12 DEF Customer, JobStarts, JobLocks, JobEnds, Job, Orderly
  <1>13. ASSUME NEW hits, Resolve(hits) PROVE Orderly'
    BY <1>13 DEF Resolve, Orderly
  <1>14. CASE UNCHANGED vars
    BY <1>14 DEF vars, Orderly
  <1> QED
    BY <1>2, <1>3, <1>4, <1>5, <1>6, <1>7, <1>8, <1>9, <1>10, <1>11, <1>12, <1>13, <1>14 DEF Next

\* A repair is worth everything once the service runs it, or 0.7 if a run of the
\* archive job was under way, and 0.7 before, for every incident, alone or
\* composed, and every way the responder took.
THEOREM RepairsScoreHigh == Spec => []RepairIsRewarded
  <1> DEFINE
        Live == proc = Boot(host)
        Stale == host.code = "shipped" /\ proc = Boot(Generated) /\ proc # Boot(host)
        Paid == verdict.given /\ Repaired =>
                  /\ Live => /\ verdict.root /\ verdict.collateral
                             /\ verdict.symptom \/ host.job # "idle"
                  /\ Stale => ~verdict.symptom /\ verdict.root /\ verdict.collateral
  <1>1. Init => Paid /\ Orderly
    <2>1. Init => ~verdict.given
      BY DEF Init
    <2>2. Init => Orderly
      BY DEF Init, Generated, Orderly
    <2> QED
      BY <2>1, <2>2
  <1>2. TypeOK /\ Orderly /\ Paid /\ [Next]_vars => Paid'
    <2> SUFFICES ASSUME TypeOK, Orderly, Paid, [Next]_vars PROVE Paid'
      OBVIOUS
    <2>1. ASSUME ~verdict.given, UNCHANGED verdict PROVE Paid'
      BY <2>1
    <2>2. ASSUME NEW h, Tool(h) PROVE Paid'
      BY <2>1, <2>2 DEF Tool
    <2>3. CASE JobStarts \/ JobLocks \/ JobEnds
      BY <2>1, <2>3 DEF JobStarts, JobLocks, JobEnds, Job
    <2>4. CASE Customer
      <3>1. host'.diverted
        BY <2>4 DEF Customer, TypeOK, Hosts
      <3> QED
        BY <3>1 DEF Repaired
    <2>5. ASSUME NEW hits, Resolve(hits) PROVE Paid'
      <3> SUFFICES ASSUME Repaired' PROVE Paid'
        OBVIOUS
      <3>1. /\ UNCHANGED <<inc, host, proc>>
            /\ verdict'.symptom = Symptom(hits) /\ verdict'.root = RootCause
            /\ verdict'.collateral = NoCollateral
            /\ hits = {} \/ host.job # "idle" \/ Scheduled
        BY <2>5 DEF Resolve
      <3>2. Repaired /\ (Live' <=> Live) /\ (Stale' <=> Stale)
        BY <3>1, SameIncident DEF Repaired, Boot, Boots
      <3>3. hits = {} \/ host.job # "idle"
        BY <3>1, <3>2 DEF Repaired, Scheduled
      <3>4. Live => (Symptom(hits) \/ host.job # "idle") /\ RootCause
        BY <3>2, <3>3, RepairRuns, RepairIsRooted DEF Symptom
      <3>5. Stale => ~Symptom(hits) /\ RootCause
        BY <3>2, RepairNotRunning, RepairIsRooted
      <3>6. NoCollateral
        BY <3>2, RepairIsClean
      <3> HIDE DEF Live, Stale
      <3> QED
        BY <3>1, <3>2, <3>4, <3>5, <3>6
    <2>6. CASE UNCHANGED vars
      <3>1. UNCHANGED <<inc, host, proc, verdict>>
        BY <2>6 DEF vars
      <3>2. (Repaired' <=> Repaired) /\ (Live' <=> Live) /\ (Stale' <=> Stale)
        BY <3>1, SameIncident DEF Repaired, Boot, Boots
      <3> HIDE DEF Live, Stale
      <3> QED
        BY <3>1, <3>2
    <2> QED
      BY <2>2, <2>3, <2>4, <2>5, <2>6
         DEF Next, Change, EditEnv, GitRestoreEnv, DeployDeps, EditLib, EditMain, EditPin, Chmod,
             WriteMigration, Migrate, Backfill, Restart, Stop, EditCron, EditScript, EditOther, EditData
  <1>3. TypeOK /\ Paid => RepairIsRewarded
    BY DEF RepairIsRewarded, Reward, ComputeReward
  <1> QED
    BY <1>1, <1>2, <1>3, TypeCorrect, OrderlyStep, PTL DEF Spec
=============================================================================
