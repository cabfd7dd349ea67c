----------------------------- MODULE StatusPage -----------------------------
(***************************************************************************)
(* apps/status-page: scripts/probe.ts writes a snapshot that builds on the *)
(* published one, scripts/notify.ts posts what changed to Slack, and       *)
(* .github/workflows/deploy-pages.yml then publishes the snapshot.  A new  *)
(* run of the workflow cancels the one in flight, wherever it is.          *)
(***************************************************************************)
EXTENDS Naturals

CONSTANTS
  Services,
  Endpoints,   \* checks per service
  Period,      \* SIX_HOURS_MS
  MaxTime,     \* bound: the last time a run can probe at
  NoSnapshot

ASSUME StatusAssumption ==
  /\ Endpoints \in Nat \ {0} /\ Period \in Nat \ {0} /\ MaxTime \in Nat

VARIABLES
  now,        \* when the last run probed
  published,  \* the deployed status.json
  snapshot,   \* the status.json of the run in flight
  phase,      \* of that run
  told,       \* the last health each service's readers saw posted
  lastPost,   \* when
  start,      \* history: since when `published` has each service's health
  lost,       \* history: services last posted about by a run never published
  trouble     \* history: what failed so far

vars == <<now, published, snapshot, phase, told, lastPost, start, lost, trouble>>

Health == {"healthy", "degraded", "unhealthy"}
Time == 0..MaxTime

Snapshots ==
  [checkedAt : Time, previousCheckedAt : Time \cup {NoSnapshot},
   health : [Services -> Health],
   previousHealth : [Services -> Health \cup {NoSnapshot}],
   since : [Services -> Time],
   previousSince : [Services -> Time \cup {NoSnapshot}]]

ASSUME SentinelAssumption == NoSnapshot \notin Health \cup Snapshots

\* The shape of the state.
TypeOK ==
  /\ now \in Time
  /\ published \in Snapshots \cup {NoSnapshot}
  /\ snapshot \in Snapshots \cup {NoSnapshot}
  /\ phase \in {"idle", "built", "notified"}
  /\ told \in [Services -> Health \cup {NoSnapshot}]
  /\ lastPost \in [Services -> Time]
  /\ start \in [Services -> Time]
  /\ lost \subseteq Services
  /\ trouble \subseteq {"fetch", "slack", "deploy"}

Init ==
  /\ now = 0
  /\ published = NoSnapshot /\ snapshot = NoSnapshot
  /\ phase = "idle"
  /\ told = [s \in Services |-> NoSnapshot]
  /\ lastPost = [s \in Services |-> 0]
  /\ start = [s \in Services |-> 0]
  /\ lost = {}
  /\ trouble = {}

\* `passing` of the service's checks passed.
RollUp(passing) ==
  IF passing = Endpoints THEN "healthy"
  ELSE IF passing = 0 THEN "unhealthy" ELSE "degraded"

\* A mistaken variant: `since` moves whatever the health.
WithHistoryForgets(previous, health, checkedAt) ==
  LET known == previous # NoSnapshot IN
  [checkedAt |-> checkedAt,
   previousCheckedAt |-> IF known THEN previous.checkedAt ELSE NoSnapshot,
   health |-> health,
   previousHealth |-> [s \in Services |-> IF known THEN previous.health[s] ELSE NoSnapshot],
   since |-> [s \in Services |-> checkedAt],
   previousSince |-> [s \in Services |-> IF known THEN previous.since[s] ELSE NoSnapshot]]

\* withHistory, of all services.
WithHistory(previous, health, checkedAt) ==
  LET known == previous # NoSnapshot IN
  [checkedAt |-> checkedAt,
   previousCheckedAt |-> IF known THEN previous.checkedAt ELSE NoSnapshot,
   health |-> health,
   previousHealth |-> [s \in Services |-> IF known THEN previous.health[s] ELSE NoSnapshot],
   since |-> [s \in Services |->
                IF known /\ previous.health[s] = health[s] THEN previous.since[s]
                ELSE checkedAt],
   previousSince |-> [s \in Services |-> IF known THEN previous.since[s] ELSE NoSnapshot]]

\* Mistaken variants of the reason to post: quiet about a bad first sight, a
\* reminder in every run, and one when runs are six hours apart.
ReasonQuietAtFirst(s) ==
  CASE snapshot.previousHealth[s] = NoSnapshot -> "none"
    [] snapshot.previousHealth[s] # snapshot.health[s] -> "changed"
    [] OTHER -> "none"

ReasonAlways(s) ==
  CASE snapshot.previousHealth[s] = NoSnapshot ->
         IF snapshot.health[s] = "healthy" THEN "none" ELSE "first-sighting"
    [] snapshot.previousHealth[s] # snapshot.health[s] -> "changed"
    [] OTHER -> IF snapshot.health[s] = "healthy" THEN "none" ELSE "reminder"

ReasonByGap(s) ==
  CASE snapshot.previousHealth[s] = NoSnapshot ->
         IF snapshot.health[s] = "healthy" THEN "none" ELSE "first-sighting"
    [] snapshot.previousHealth[s] # snapshot.health[s] -> "changed"
    [] snapshot.health[s] = "healthy" -> "none"
    [] OTHER -> IF snapshot.checkedAt - snapshot.previousCheckedAt >= Period
                THEN "reminder" ELSE "none"

\* The multiple of six hours of an outage that `time` is past.
PeriodOf(since, time) == (time - since) \div Period

\* reasonToPost
Reason(s) ==
  LET health == snapshot.health[s]
      previous == snapshot.previousHealth[s]
      since == snapshot.since[s]
  IN CASE previous = NoSnapshot -> IF health = "healthy" THEN "none" ELSE "first-sighting"
       [] previous # NoSnapshot /\ previous # health -> "changed"
       [] previous = health /\ health = "healthy" -> "none"
       [] previous = health /\ health # "healthy" ->
            IF PeriodOf(since, snapshot.checkedAt)
                 > PeriodOf(since, snapshot.previousCheckedAt)
            THEN "reminder" ELSE "none"

Due == {s \in Services : Reason(s) # "none"}

\* What the run in flight has posted about, once it has notified.
Posted == {s \in Services : lastPost[s] = snapshot.checkedAt}

-----------------------------------------------------------------------------
\* A run starts, on the cron or a push, and cancels the one in flight; it reads
\* what is published and probes, then builds.  A fetch that fails reads
\* nothing, as before the first deploy.
Probe ==
  /\ now' \in (now + 1)..MaxTime
  /\ \E passing \in [Services -> 0..Endpoints], previous \in {published, NoSnapshot} :
       /\ snapshot' = WithHistory(previous, [s \in Services |-> RollUp(passing[s])], now')
       /\ trouble' = trouble \cup (IF previous # published THEN {"fetch"} ELSE {})
                             \cup (IF phase = "notified" THEN {"deploy"} ELSE {})
  /\ phase' = "built"
  /\ lost' = IF phase = "notified" THEN lost \cup Posted ELSE lost
  /\ UNCHANGED <<published, told, lastPost, start>>

\* One message for all services with a reason, delivered or not.
Notify ==
  /\ phase = "built"
  /\ \/ /\ told' = [s \in Services |-> IF s \in Due THEN snapshot.health[s] ELSE told[s]]
        /\ lastPost' = [s \in Services |-> IF s \in Due THEN snapshot.checkedAt ELSE lastPost[s]]
        /\ lost' = lost \ Due
        /\ UNCHANGED trouble
     \/ /\ Due # {}
        /\ trouble' = trouble \cup {"slack"}
        /\ UNCHANGED <<told, lastPost, lost>>
  /\ phase' = "notified"
  /\ UNCHANGED <<now, published, snapshot, start>>

\* The snapshot is published as it was built.
Deploy ==
  /\ phase = "notified"
  /\ published' = snapshot
  /\ start' = [s \in Services |->
       IF published # NoSnapshot /\ published.health[s] = snapshot.health[s]
       THEN start[s] ELSE snapshot.checkedAt]
  /\ phase' = "idle"
  /\ snapshot' = NoSnapshot
  /\ UNCHANGED <<now, told, lastPost, lost, trouble>>

\* A later step of the workflow, or the deployment, fails.
DeployFails ==
  /\ phase = "notified"
  /\ phase' = "idle"
  /\ snapshot' = NoSnapshot
  /\ lost' = lost \cup Posted
  /\ trouble' = trouble \cup {"deploy"}
  /\ UNCHANGED <<now, published, told, lastPost, start>>

Next == Probe \/ Notify \/ Deploy \/ DeployFails

Spec == Init /\ [][Next]_vars

-----------------------------------------------------------------------------
(* Properties.                                                             *)

Bad(s) == snapshot.health[s] # "healthy"

\* The outage clock: `since` is when the published state began, over runs that
\* are cancelled or fail to deploy (probe.ts: "Carries the outage clock
\* forward"); a snapshot that could not be fetched restarts it, so that it
\* never overstates an outage.
OutageClock ==
  published # NoSnapshot =>
    \A s \in Services :
      /\ published.since[s] \in start[s]..published.checkedAt
      /\ "fetch" \notin trouble => published.since[s] = start[s]

\* "A lost or failed deploy cannot desynchronise the cadence" (notify.ts): as
\* long as Slack takes the posts, a service that is down has been posted about
\* since its outage last crossed a multiple of six hours.
OutageRemembered ==
  phase = "notified" /\ "slack" \notin trouble =>
    \A s \in Services :
      Bad(s) => /\ lastPost[s] >= snapshot.since[s]
                /\ PeriodOf(snapshot.since[s], lastPost[s])
                     = PeriodOf(snapshot.since[s], snapshot.checkedAt)

\* "The memory is the last successful deploy" (README.md of the status page): as
\* long as Slack takes the posts, the channel knows of every service that is
\* down, and how, over fetches, runs and deployments that fail; but for one: when
\* the last post about the service is of a run whose deployment was lost, the
\* channel believes that run and the next one compares with what came before it.
BadNewsKnown ==
  phase = "notified" /\ "slack" \notin trouble =>
    \A s \in Services : Bad(s) => told[s] = snapshot.health[s] \/ s \in lost

\* "The whole design goal is silence" (notify.ts): when nothing fails, the same
\* state is posted again only after six more hours of it.
SameStateOnlyReminded ==
  [][ Notify /\ trouble' = {} =>
        \A s \in Services :
          lastPost'[s] # lastPost[s] /\ told'[s] = told[s] =>
            PeriodOf(snapshot.since[s], lastPost'[s]) > PeriodOf(snapshot.since[s], lastPost[s])
    ]_vars

\* "The worst consequence is a repeated notification, never a missed one"
\* (probe.ts, of a fetch that fails): the channel also knows what recovered.
NothingMissed ==
  phase = "notified" /\ trouble \subseteq {"fetch"} =>
    \A s \in Services : told[s] \in {snapshot.health[s], NoSnapshot}
=============================================================================
