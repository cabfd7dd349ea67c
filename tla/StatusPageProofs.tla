------------------------- MODULE StatusPageProofs -------------------------
(***************************************************************************)
(* The invariants of StatusPage, for any services, checks, period and      *)
(* number of runs.                                                         *)
(***************************************************************************)
EXTENDS StatusPage, TLAPS

\* The published state of s, as the run in flight found it: still so now, as
\* only Deploy publishes.
Continues(s) == published # NoSnapshot /\ published.health[s] = snapshot.health[s]

\* The clocks are in order: every run probes after all the earlier ones.
ClocksOrdered ==
  /\ published # NoSnapshot =>
       /\ published.checkedAt <= now
       /\ \A s \in Services : /\ start[s] <= published.since[s]
                              /\ published.since[s] <= published.checkedAt
                              /\ "fetch" \notin trouble => published.since[s] = start[s]
  /\ \A s \in Services : lastPost[s] <= now

\* What the snapshot in flight says of the one before: the truth, or nothing.
BuiltOnPublished ==
  phase # "idle" =>
    /\ snapshot \in Snapshots
    /\ snapshot.checkedAt = now
    /\ \A s \in Services :
         \/ /\ snapshot.previousHealth[s] = NoSnapshot
            /\ snapshot.since[s] = now
            /\ "fetch" \in trouble \/ published = NoSnapshot
         \/ /\ published # NoSnapshot
            /\ snapshot.previousCheckedAt = published.checkedAt
            /\ snapshot.previousHealth[s] = published.health[s]
            /\ snapshot.since[s] = IF Continues(s) THEN published.since[s] ELSE now

\* The channel knows what the published snapshot says is down, unless a run has
\* posted otherwise that is about to deploy, or was lost.
PublishedKnown ==
  published # NoSnapshot /\ "slack" \notin trouble =>
    \A s \in Services :
      published.health[s] # "healthy" =>
        \/ told[s] = published.health[s]
        \/ s \in lost
        \/ phase = "notified" /\ s \in Posted

\* And it has heard of it since the outage last crossed a multiple of the
\* period: a run that was lost after its post may have posted later still.
PublishedRemembered ==
  published # NoSnapshot /\ "slack" \notin trouble =>
    \A s \in Services :
      published.health[s] # "healthy" =>
        /\ lastPost[s] >= published.since[s]
        /\ PeriodOf(published.since[s], lastPost[s])
             >= PeriodOf(published.since[s], published.checkedAt)

\* When nothing has failed, the channel was last told what the newest run that
\* has posted saw, and no later.
Untroubled ==
  LET newest == IF phase = "notified" THEN snapshot ELSE published IN
  trouble = {} =>
    \A s \in Services :
      IF newest = NoSnapshot THEN told[s] = NoSnapshot
      ELSE /\ told[s] \in {newest.health[s], NoSnapshot}
           /\ lastPost[s] <= newest.checkedAt

IInv ==
  /\ TypeOK
  /\ ClocksOrdered
  /\ BuiltOnPublished
  /\ PublishedKnown
  /\ PublishedRemembered
  /\ Untroubled
  /\ BadNewsKnown
  /\ OutageRemembered
-----------------------------------------------------------------------------
(* Periods.                                                                *)

\* What whole division promises.
LEMMA DivBounds ==
  ASSUME NEW a \in Nat, NEW p \in Nat \ {0}
  PROVE  a \div p \in Nat /\ p * (a \div p) <= a /\ a < p * (a \div p) + p
BY SMTT(20)

\* A later time is past no fewer multiples of the period.
LEMMA PeriodMonotone ==
  ASSUME NEW since \in Nat, NEW t \in Nat, NEW u \in Nat, since <= t, t <= u
  PROVE  /\ PeriodOf(since, t) \in Nat /\ PeriodOf(since, u) \in Nat
         /\ PeriodOf(since, t) <= PeriodOf(since, u)
<1> DEFINE x == PeriodOf(since, t)
           y == PeriodOf(since, u)
<1>1. x \in Nat /\ Period * x <= t - since
  BY DivBounds, StatusAssumption DEF PeriodOf
<1>2. y \in Nat /\ u - since < Period * y + Period
  BY DivBounds, StatusAssumption DEF PeriodOf
<1> HIDE DEF x, y
<1>3. ASSUME x > y PROVE FALSE
  <2>1. PICK d \in Nat : x = y + 1 + d
    BY <1>1, <1>2, <1>3
  <2>2. Period * x = Period * y + Period + Period * d /\ Period * d >= 0
    BY <2>1, <1>2, StatusAssumption
  <2> QED
    BY <2>2, <1>1, <1>2, StatusAssumption
<1> QED
  BY <1>1, <1>2, <1>3 DEF x, y

-----------------------------------------------------------------------------
(* Every action preserves IInv.                                            *)

\* Before the first run.
LEMMA InitInv == Init => IInv
<1> SUFFICES ASSUME Init PROVE IInv
  OBVIOUS
<1> USE DEF Init
<1>1. TypeOK
  BY StatusAssumption DEF TypeOK, Time
<1>2. ClocksOrdered
  BY DEF ClocksOrdered
<1>3. BuiltOnPublished /\ PublishedKnown /\ PublishedRemembered /\ Untroubled
  BY DEF BuiltOnPublished, PublishedKnown, PublishedRemembered, Untroubled
<1>4. BadNewsKnown /\ OutageRemembered
  BY DEF BadNewsKnown, OutageRemembered
<1> QED
  BY <1>1, <1>2, <1>3, <1>4 DEF IInv

\* withHistory builds a snapshot from a published one or from nothing.
LEMMA WithHistoryType ==
  ASSUME NEW previous \in Snapshots \cup {NoSnapshot},
         NEW health \in [Services -> Health], NEW checkedAt \in Time
  PROVE  WithHistory(previous, health, checkedAt) \in Snapshots
BY DEF WithHistory, Snapshots

\* The health of any number of passed checks.
LEMMA RollUpType == ASSUME NEW passing PROVE RollUp(passing) \in Health
BY DEF RollUp, Health

LEMMA ProbeInv ==
  ASSUME IInv, Probe
  PROVE  IInv'
<1> USE DEF IInv
<1>1. PICK passing \in [Services -> 0..Endpoints], previous \in {published, NoSnapshot} :
        /\ snapshot' = WithHistory(previous, [s \in Services |-> RollUp(passing[s])], now')
        /\ trouble' = trouble \cup (IF previous # published THEN {"fetch"} ELSE {})
                              \cup (IF phase = "notified" THEN {"deploy"} ELSE {})
  BY DEF Probe
<1>2. now' \in Time /\ now \in Time /\ now' > now
  BY StatusAssumption DEF Probe, TypeOK, Time
<1>3. snapshot' \in Snapshots
  <2>1. previous \in Snapshots \cup {NoSnapshot}
    BY DEF TypeOK
  <2>2. [s \in Services |-> RollUp(passing[s])] \in [Services -> Health]
    BY RollUpType
  <2> QED
    BY <1>1, <1>2, <2>1, <2>2, WithHistoryType
<1>4. phase' = "built" /\ UNCHANGED <<published, told, lastPost, start>>
  BY DEF Probe
<1>5. TypeOK'
  <2>1. lost' \subseteq Services
    BY DEF Probe, TypeOK, Posted
  <2> QED
    BY <1>1, <1>2, <1>3, <1>4, <2>1 DEF TypeOK
<1>6. ClocksOrdered'
  BY <1>1, <1>2, <1>4 DEF ClocksOrdered, TypeOK, Time, Snapshots
<1>7. BuiltOnPublished'
  <2>1. CASE previous = NoSnapshot
    BY <2>1, <1>1, <1>3, <1>4 DEF BuiltOnPublished, WithHistory
  <2>2. CASE previous # NoSnapshot
    BY <2>2, <1>1, <1>3, <1>4 DEF BuiltOnPublished, WithHistory, Continues
  <2> QED
    BY <2>1, <2>2
<1>8. PublishedKnown'
  <2>1. lost \subseteq lost' /\ (phase = "notified" => Posted \subseteq lost')
    BY DEF Probe
  <2> QED
    BY <1>1, <1>4, <2>1 DEF PublishedKnown
<1>9. PublishedRemembered'
  BY <1>1, <1>4 DEF PublishedRemembered, PeriodOf
<1>10. Untroubled'
  BY <1>1, <1>4 DEF Untroubled
<1>11. BadNewsKnown' /\ OutageRemembered'
  BY <1>4 DEF BadNewsKnown, OutageRemembered
<1> QED
  BY <1>5, <1>6, <1>7, <1>8, <1>9, <1>10, <1>11

\* The outage of s is past a multiple of the period that it was not past at
\* the previous check.
Crossed(s) ==
  PeriodOf(snapshot.since[s], snapshot.checkedAt)
    > PeriodOf(snapshot.since[s], snapshot.previousCheckedAt)

\* Why a service is not posted about, and why one that stays as it was is.
LEMMA WhyNot ==
  ASSUME NEW s, snapshot.health[s] # NoSnapshot
  PROVE  /\ Reason(s) = "none" /\ snapshot.health[s] # "healthy" =>
              /\ snapshot.previousHealth[s] # NoSnapshot
              /\ snapshot.previousHealth[s] = snapshot.health[s]
              /\ ~Crossed(s)
         /\ Reason(s) = "none" /\ snapshot.previousHealth[s] # NoSnapshot =>
              snapshot.previousHealth[s] = snapshot.health[s]
         /\ /\ Reason(s) # "none"
            /\ snapshot.previousHealth[s] # NoSnapshot
            /\ snapshot.previousHealth[s] = snapshot.health[s]
            => snapshot.health[s] # "healthy" /\ Crossed(s)
<1> DEFINE first == snapshot.previousHealth[s] = NoSnapshot
           same == snapshot.previousHealth[s] = snapshot.health[s]
           well == snapshot.health[s] = "healthy"
<1>1. CASE first
  <2>1. CASE well
    BY <1>1, <2>1
  <2>2. CASE ~well
    <3>1. Reason(s) = "first-sighting"
      BY <1>1, <2>2, Zenon DEF Reason
    <3> QED
      BY <1>1, <3>1
  <2> QED
    BY <2>1, <2>2
<1>2. CASE ~first /\ ~same
  <2>1. Reason(s) = "changed"
    BY <1>2, Zenon DEF Reason
  <2> QED
    BY <2>1, <1>2
<1>3. CASE ~first /\ same /\ well
  <2>1. Reason(s) = "none"
    BY <1>3, Zenon DEF Reason
  <2> QED
    BY <2>1, <1>3
<1>4. CASE ~first /\ same /\ ~well
  <2>1. Reason(s) = IF Crossed(s) THEN "reminder" ELSE "none"
    BY <1>4, Zenon DEF Reason, Crossed
  <2> QED
    BY <2>1, <1>4
<1> QED
  BY <1>1, <1>2, <1>3, <1>4

\* A service that is down and not posted about: the published snapshot has it
\* down in the same way, and no multiple of the period was crossed since.
LEMMA NotDue ==
  ASSUME IInv, phase = "built", NEW s \in Services, Bad(s), s \notin Due
  PROVE  /\ Continues(s)
         /\ snapshot.since[s] = published.since[s]
         /\ PeriodOf(snapshot.since[s], now)
              <= PeriodOf(snapshot.since[s], published.checkedAt)
<1> USE DEF IInv
<1>1. snapshot.checkedAt = now /\ now \in Nat
  BY DEF BuiltOnPublished, TypeOK, Time
<1>2. Reason(s) = "none"
  BY DEF Due
<1>3. /\ snapshot.previousHealth[s] # NoSnapshot
      /\ snapshot.previousHealth[s] = snapshot.health[s]
      /\ ~Crossed(s)
  <2>1. snapshot.health[s] # NoSnapshot
    BY SentinelAssumption DEF BuiltOnPublished, Snapshots
  <2> QED
    BY <1>2, <2>1, WhyNot DEF Bad
<1>4. /\ Continues(s)
      /\ snapshot.since[s] = published.since[s]
      /\ snapshot.previousCheckedAt = published.checkedAt
  BY <1>3 DEF BuiltOnPublished, Continues
<1>5. ~(PeriodOf(snapshot.since[s], now) > PeriodOf(snapshot.since[s], published.checkedAt))
  BY <1>1, <1>3, <1>4 DEF Crossed
<1>6. /\ published.since[s] \in Nat /\ published.checkedAt \in Nat
      /\ published.since[s] <= published.checkedAt /\ published.checkedAt <= now
  BY <1>4 DEF Continues, ClocksOrdered, TypeOK, Snapshots, Time
<1>7. /\ PeriodOf(published.since[s], published.checkedAt) \in Nat
      /\ PeriodOf(published.since[s], now) \in Nat
  BY <1>1, <1>6, PeriodMonotone
<1> QED
  BY <1>4, <1>5, <1>7

LEMMA NotifyInv ==
  ASSUME IInv, Notify
  PROVE  IInv'
<1> USE DEF IInv
<1>1. /\ phase = "built" /\ phase' = "notified"
      /\ UNCHANGED <<now, published, snapshot, start>>
      /\ snapshot \in Snapshots /\ snapshot.checkedAt = now /\ now \in Time
  BY DEF Notify, BuiltOnPublished, TypeOK
<1>2. CASE /\ told' = [s \in Services |-> IF s \in Due THEN snapshot.health[s] ELSE told[s]]
           /\ lastPost' = [s \in Services |-> IF s \in Due THEN snapshot.checkedAt ELSE lastPost[s]]
           /\ lost' = lost \ Due
           /\ UNCHANGED trouble
  <2>1. TypeOK'
    BY <1>1, <1>2 DEF TypeOK, Snapshots
  <2>2. ClocksOrdered'
    BY <1>1, <1>2 DEF ClocksOrdered, TypeOK, Time
  <2>3. BuiltOnPublished' /\ PublishedKnown'
    <3>1. BuiltOnPublished'
      BY <1>1, <1>2 DEF BuiltOnPublished, Continues
    <3>2. ASSUME NEW s \in Services
          PROVE  IF s \in Due THEN s \in Posted'
                 ELSE told'[s] = told[s] /\ (s \in lost => s \in lost')
      BY <1>1, <1>2 DEF Posted
    <3>3. PublishedKnown'
      BY <1>1, <1>2, <3>2 DEF PublishedKnown
    <3> QED
      BY <3>1, <3>3
  <2>4. PublishedRemembered'
    <3> SUFFICES ASSUME published # NoSnapshot, "slack" \notin trouble, NEW s \in Services,
                        published.health[s] # "healthy"
                 PROVE  /\ lastPost'[s] >= published.since[s]
                        /\ PeriodOf(published.since[s], lastPost'[s])
                             >= PeriodOf(published.since[s], published.checkedAt)
      BY <1>1, <1>2 DEF PublishedRemembered, PeriodOf
    <3>1. CASE s \notin Due
      BY <3>1, <1>2 DEF PublishedRemembered
    <3>2. CASE s \in Due
      <4>1. lastPost'[s] = now
        BY <3>2, <1>1, <1>2
      <4>2. /\ published.since[s] \in Nat /\ published.checkedAt \in Nat /\ now \in Nat
            /\ published.since[s] <= published.checkedAt /\ published.checkedAt <= now
        BY DEF ClocksOrdered, TypeOK, Snapshots, Time
      <4> QED
        BY <4>1, <4>2, PeriodMonotone
    <3> QED
      BY <3>1, <3>2
  <2>5. BadNewsKnown'
    <3> SUFFICES ASSUME "slack" \notin trouble, NEW s \in Services, Bad(s)
                 PROVE  told'[s] = snapshot.health[s] \/ s \in lost'
      BY <1>1, <1>2 DEF BadNewsKnown, Bad
    <3>1. CASE s \in Due
      BY <3>1, <1>2
    <3>2. CASE s \notin Due
      BY <3>2, <1>1, <1>2, NotDue DEF Continues, PublishedKnown, Bad
    <3> QED
      BY <3>1, <3>2
  <2>6. OutageRemembered'
    <3> SUFFICES ASSUME "slack" \notin trouble, NEW s \in Services, Bad(s)
                 PROVE  /\ lastPost'[s] >= snapshot.since[s]
                        /\ PeriodOf(snapshot.since[s], lastPost'[s])
                             = PeriodOf(snapshot.since[s], now)
      BY <1>1, <1>2 DEF OutageRemembered, Bad, PeriodOf
    <3>1. snapshot.since[s] \in Nat /\ now \in Nat /\ snapshot.since[s] <= now
      BY <1>1 DEF BuiltOnPublished, Continues, ClocksOrdered, TypeOK, Snapshots, Time
    <3>2. CASE s \in Due
      BY <3>1, <3>2, <1>1, <1>2
    <3>3. CASE s \notin Due
      <4> DEFINE since == snapshot.since[s]
                 last == lastPost[s]
                 checked == published.checkedAt
      <4>1. Continues(s) /\ since = published.since[s]
            /\ PeriodOf(since, now) <= PeriodOf(since, checked)
        BY <3>3, <1>1, NotDue
      <4>2. last >= since /\ PeriodOf(since, last) >= PeriodOf(since, checked)
        BY <4>1 DEF Continues, PublishedRemembered, Bad
      <4>3. last \in Nat /\ last <= now /\ checked \in Nat /\ since <= checked /\ checked <= now
        BY <4>1 DEF Continues, ClocksOrdered, TypeOK, Snapshots, Time
      <4>4. /\ PeriodOf(since, last) \in Nat /\ PeriodOf(since, now) \in Nat
            /\ PeriodOf(since, last) <= PeriodOf(since, now)
            /\ PeriodOf(since, checked) \in Nat
        BY <3>1, <4>2, <4>3, PeriodMonotone
      <4>5. lastPost'[s] = last
        BY <3>3, <1>2
      <4> HIDE DEF since, last, checked
      <4>6. last >= since /\ PeriodOf(since, last) = PeriodOf(since, now)
        BY <4>1, <4>2, <4>4
      <4> QED
        BY <4>5, <4>6 DEF since
    <3> QED
      BY <3>2, <3>3
  <2>7. Untroubled'
    <3> SUFFICES ASSUME trouble = {}, NEW s \in Services
                 PROVE  /\ told'[s] \in {snapshot.health[s], NoSnapshot}
                        /\ lastPost'[s] <= now
      BY <1>1, <1>2, SentinelAssumption DEF Untroubled
    <3>1. lastPost'[s] <= now
      BY <1>1, <1>2, <2>2 DEF ClocksOrdered
    <3>2. CASE s \in Due
      BY <3>1, <3>2, <1>2
    <3>3. CASE s \notin Due
      <4>1. told'[s] = told[s]
        BY <3>3, <1>2
      <4>2. CASE published = NoSnapshot
        BY <4>1, <4>2, <3>1, <1>1 DEF Untroubled
      <4>3. CASE published # NoSnapshot
        <5>1. snapshot.previousHealth[s] = published.health[s] /\ published.health[s] \in Health
          BY <4>3, <1>1 DEF BuiltOnPublished, TypeOK, Snapshots
        <5>2. snapshot.health[s] # NoSnapshot
          BY <1>1, SentinelAssumption DEF Snapshots
        <5>3. published.health[s] = snapshot.health[s]
          BY <5>1, <5>2, <3>3, WhyNot, SentinelAssumption DEF Due
        <5> QED
          BY <4>1, <4>3, <5>3, <3>1, <1>1 DEF Untroubled
      <4> QED
        BY <4>2, <4>3
    <3> QED
      BY <3>2, <3>3
  <2> QED
    BY <2>1, <2>2, <2>3, <2>4, <2>5, <2>6, <2>7
<1>3. CASE trouble' = trouble \cup {"slack"} /\ UNCHANGED <<told, lastPost, lost>>
  <2>1. TypeOK' /\ ClocksOrdered'
    BY <1>1, <1>3 DEF TypeOK, ClocksOrdered
  <2>2. BuiltOnPublished' /\ PublishedKnown' /\ PublishedRemembered' /\ Untroubled'
    BY <1>1, <1>3 DEF BuiltOnPublished, Continues, PublishedKnown, PublishedRemembered, Untroubled
  <2>3. BadNewsKnown' /\ OutageRemembered'
    BY <1>3 DEF BadNewsKnown, OutageRemembered
  <2> QED
    BY <2>1, <2>2, <2>3
<1> QED
  BY <1>2, <1>3 DEF Notify

LEMMA DeployInv ==
  ASSUME IInv, Deploy
  PROVE  IInv'
<1> USE DEF IInv, Deploy
<1>1. snapshot \in Snapshots /\ snapshot # NoSnapshot /\ snapshot.checkedAt = now /\ now \in Time
  BY SentinelAssumption DEF BuiltOnPublished, TypeOK
<1>2. TypeOK'
  BY <1>1 DEF TypeOK, Snapshots
<1>3. ClocksOrdered'
  <2>1. ASSUME NEW s \in Services
        PROVE  /\ start'[s] <= snapshot.since[s]
               /\ snapshot.since[s] <= now
               /\ "fetch" \notin trouble => snapshot.since[s] = start'[s]
    BY <1>1 DEF BuiltOnPublished, Continues, ClocksOrdered, TypeOK, Snapshots, Time
  <2> QED
    BY <2>1, <1>1 DEF ClocksOrdered, TypeOK, Time
<1>4. PublishedKnown'
  BY DEF PublishedKnown, BadNewsKnown, Bad
<1>5. PublishedRemembered'
  <2> SUFFICES ASSUME "slack" \notin trouble, NEW s \in Services, Bad(s)
               PROVE  /\ lastPost[s] >= snapshot.since[s]
                      /\ PeriodOf(snapshot.since[s], lastPost[s])
                           >= PeriodOf(snapshot.since[s], snapshot.checkedAt)
    BY DEF PublishedRemembered, Bad, PeriodOf
  <2>1. /\ lastPost[s] >= snapshot.since[s]
        /\ PeriodOf(snapshot.since[s], lastPost[s])
             = PeriodOf(snapshot.since[s], snapshot.checkedAt)
    BY DEF OutageRemembered
  <2>2. /\ snapshot.since[s] \in Nat /\ lastPost[s] \in Nat
        /\ snapshot.since[s] <= lastPost[s]
    BY <2>1, <1>1 DEF TypeOK, Snapshots, Time
  <2>3. PeriodOf(snapshot.since[s], lastPost[s]) \in Nat
    BY <2>2, PeriodMonotone
  <2> QED
    BY <2>1, <2>3
<1>6. Untroubled' /\ BuiltOnPublished'
  BY <1>1 DEF Untroubled, BuiltOnPublished
<1>7. BadNewsKnown' /\ OutageRemembered'
  BY DEF BadNewsKnown, OutageRemembered
<1> QED
  BY <1>2, <1>3, <1>4, <1>5, <1>6, <1>7

LEMMA DeployFailsInv ==
  ASSUME IInv, DeployFails
  PROVE  IInv'
<1> USE DEF IInv, DeployFails
<1>1. TypeOK' /\ ClocksOrdered'
  BY DEF TypeOK, ClocksOrdered, Posted
<1>2. BuiltOnPublished' /\ PublishedKnown' /\ PublishedRemembered' /\ Untroubled'
  BY DEF BuiltOnPublished, PublishedKnown, PublishedRemembered, PeriodOf, Untroubled
<1>3. BadNewsKnown' /\ OutageRemembered'
  BY DEF BadNewsKnown, OutageRemembered
<1> QED
  BY <1>1, <1>2, <1>3

\* A step that changes nothing.
LEMMA StutterInv ==
  ASSUME IInv, UNCHANGED vars
  PROVE  IInv'
BY DEF vars, IInv, TypeOK, ClocksOrdered, BuiltOnPublished, Continues, PublishedKnown,
       PublishedRemembered, Posted, Untroubled, BadNewsKnown, OutageRemembered, Bad, PeriodOf

-----------------------------------------------------------------------------
(* The theorems.                                                           *)

\* IInv holds in every state of the status page.
THEOREM StatusInvariant == Spec => []IInv
<1>1. IInv /\ [Next]_vars => IInv'
  BY ProbeInv, NotifyInv, DeployInv, DeployFailsInv, StutterInv DEF Next
<1> QED
  BY <1>1, InitInv, PTL DEF Spec

\* The published `since` is when the published state began (probe.ts), over
\* cancelled runs and failed deploys; an unread snapshot can only move it later.
THEOREM ClockOfOutages == Spec => []OutageClock
<1>1. IInv => OutageClock
  <2> SUFFICES ASSUME IInv, published # NoSnapshot, NEW s \in Services
               PROVE  /\ published.since[s] \in start[s]..published.checkedAt
                      /\ "fetch" \notin trouble => published.since[s] = start[s]
    BY DEF OutageClock
  <2>1. published \in Snapshots /\ start[s] \in Nat
    BY DEF IInv, TypeOK, Time
  <2>2. published.since[s] \in Nat /\ published.checkedAt \in Nat
    BY <2>1 DEF Snapshots, Time
  <2> QED
    BY <2>1, <2>2 DEF IInv, ClocksOrdered
<1> QED
  BY <1>1, StatusInvariant, PTL

\* No outage goes longer than a period without a post, as long as Slack takes
\* the posts (notify.ts), whatever happens to runs, fetches and deploys.
THEOREM CadenceKept == Spec => []OutageRemembered
<1>1. IInv => OutageRemembered
  BY DEF IInv
<1> QED
  BY <1>1, StatusInvariant, PTL

\* As long as Slack takes the posts, the channel knows of every service that is
\* down and how (notify.ts), after whatever runs were cancelled, could not read
\* the published snapshot or failed to deploy; except of a service that a run
\* whose deployment was lost was the last to post about.
THEOREM ChannelKnows == Spec => []BadNewsKnown
<1>1. IInv => BadNewsKnown
  BY DEF IInv
<1> QED
  BY <1>1, StatusInvariant, PTL

\* When nothing fails, the same state is posted again only after another
\* period of it (notify.ts).
THEOREM Silence == Spec => SameStateOnlyReminded
<1> DEFINE Quiet(s) ==
      lastPost'[s] # lastPost[s] /\ told'[s] = told[s] =>
        PeriodOf(snapshot.since[s], lastPost'[s]) > PeriodOf(snapshot.since[s], lastPost[s])
<1>1. ASSUME IInv, IInv', Notify, trouble' = {}, NEW s \in Services,
             lastPost'[s] # lastPost[s], told'[s] = told[s]
      PROVE  PeriodOf(snapshot.since[s], lastPost'[s]) > PeriodOf(snapshot.since[s], lastPost[s])
  <2> USE DEF IInv
  <2>1. /\ trouble = {} /\ phase = "built" /\ s \in Due
        /\ told'[s] = snapshot.health[s] /\ lastPost'[s] = now
        /\ snapshot \in Snapshots /\ snapshot.checkedAt = now
    BY <1>1 DEF Notify, BuiltOnPublished
  <2>2. told[s] # NoSnapshot
    BY <1>1, <2>1, SentinelAssumption DEF Snapshots
  <2>3. published # NoSnapshot
    BY <1>1, <2>1, <2>2 DEF Untroubled
  <2>4. told[s] = published.health[s] /\ lastPost[s] <= published.checkedAt
    BY <1>1, <2>1, <2>2, <2>3 DEF Untroubled
  <2>5. published.health[s] = snapshot.health[s] /\ published.health[s] # NoSnapshot
    BY <1>1, <2>1, <2>2, <2>4
  <2>6. /\ snapshot.previousHealth[s] = snapshot.health[s]
        /\ snapshot.previousHealth[s] # NoSnapshot
        /\ snapshot.previousCheckedAt = published.checkedAt
        /\ snapshot.since[s] = published.since[s]
    BY <1>1, <2>1, <2>3, <2>5 DEF BuiltOnPublished, Continues
  <2>7. /\ snapshot.health[s] # "healthy"
        /\ PeriodOf(published.since[s], now) > PeriodOf(published.since[s], published.checkedAt)
    BY <2>1, <2>5, <2>6, WhyNot DEF Due, Crossed
  <2>8. lastPost[s] >= published.since[s]
    BY <1>1, <2>1, <2>3, <2>5, <2>7 DEF PublishedRemembered
  <2>9. /\ published.since[s] \in Nat /\ lastPost[s] \in Nat /\ published.checkedAt \in Nat
        /\ now \in Nat /\ published.checkedAt <= now
    BY <1>1, <2>1, <2>3 DEF ClocksOrdered, TypeOK, Snapshots, Time
  <2>10. /\ PeriodOf(published.since[s], lastPost[s]) \in Nat
         /\ PeriodOf(published.since[s], published.checkedAt) \in Nat
         /\ PeriodOf(published.since[s], lastPost[s])
              <= PeriodOf(published.since[s], published.checkedAt)
         /\ PeriodOf(published.since[s], now) \in Nat
    BY <2>4, <2>8, <2>9, PeriodMonotone
  <2>11. PeriodOf(published.since[s], now) > PeriodOf(published.since[s], lastPost[s])
    BY <2>7, <2>10
  <2> QED
    BY <2>1, <2>6, <2>11
<1>2. IInv /\ IInv' /\ [Next]_vars =>
        [Notify /\ trouble' = {} => \A s \in Services : Quiet(s)]_vars
  BY <1>1
<1> QED
  BY <1>2, StatusInvariant, PTL DEF Spec, SameStateOnlyReminded
=============================================================================
