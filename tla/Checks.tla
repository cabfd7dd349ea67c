------------------------------- MODULE Checks -------------------------------
(***************************************************************************)
(* One run of apps/status-page/scripts/probe.ts up to its history: the     *)
(* services are checked in parallel, a service's checks one after another, *)
(* each answer is judged, and a service's health rolled up.  Meanwhile     *)
(* parts of the system break and are repaired, and the container of        *)
(* api-compile may have been asleep: its start takes longer than most      *)
(* checks wait.  StatusPage takes any outcome of this from there.          *)
(***************************************************************************)
EXTENDS Naturals, Sequences, FiniteSets

CONSTANTS MaxBroken,  \* parts broken when the run starts: a bound
          MaxChanges  \* breakages and repairs in a run: a bound

VARIABLE probe

\* The definitions of the services, in the order of their checks.
EndpointsOf ==
    [api_registry |-> <<"root", "account_by_code", "account_by_id", "note_by_script", "note_by_id">>,
     web_verifier |-> <<"root">>,
     web_viewer   |-> <<"root">>,
     api_compile  |-> <<"root", "compile", "verify", "import">>]

Services == DOMAIN EndpointsOf

\* Besides the services: the registry's database, its records of the fixtures,
\* the node, what the fixtures are on chain, the toolchain and build slots.  A
\* part that is broken is down, wrong, or slower than the check waits; "slots",
\* that the other builds fill the queue.
Parts == Services \cup {"database", "records", "node", "fixtures", "toolchain", "slots"}

ASSUME ChangesAssumption == MaxBroken \in Nat /\ MaxChanges \in Nat

-----------------------------------------------------------------------------
\* An answer: a status (0 when there is none), whether the whole body arrived
\* and is JSON, and what is wrong with what it says.
Answer(status, json, wrong) == [status |-> status, json |-> json, wrong |-> wrong]
Right == Answer(200, TRUE, {})
Wrong(what) == Answer(200, TRUE, {what})
Failed(status) == Answer(status, TRUE, {})
\* The check gave up, after 15 s or, the patient ones, 450 s: or nothing listens.
NoAnswer == Answer(0, FALSE, {})

Patient == {"compile", "verify"}

\* From a broken service: nothing, an error, a body that is cut or of some
\* other service, or any JSON.
Faults == {"root", "network", "content", "id", "built", "commitment", "manifest", "verified", "type"}
BrokenAnswers ==
    {NoAnswer, Failed(504), Answer(200, FALSE, {})}
        \cup [status : {200}, json : {TRUE}, wrong : {Faults, Faults \ {"root"}, Faults \ {"built"}}]

\* The by-id routes of the registry ask api-compile, which asks the node; a
\* root that was never verified, or no longer the one of the fixtures, is a miss.
Resolving(broken) ==
    CASE broken \cap {"api_compile", "node"} # {} -> {NoAnswer, Failed(502)}
      [] broken \cap {"api_compile", "node"} = {} /\ "fixtures" \in broken ->
           {Failed(404), Wrong("root")}
      [] OTHER -> {Right}

Reading(broken) ==
    CASE "database" \in broken -> {NoAnswer, Failed(500)}
      [] "database" \notin broken /\ "records" \in broken -> {Failed(404)}
      [] OTHER -> {Right}

Compiling(broken) ==
    CASE "slots" \in broken -> {NoAnswer, Failed(503), Failed(504)}
      [] "slots" \notin broken /\ "toolchain" \in broken ->
           {Wrong("built"), Failed(500), Failed(504)}
      [] OTHER -> {Right}

\* /verify refuses a project that does not build; an id that is not on chain
\* never verifies.
Verifying(broken) ==
    CASE broken \cap {"slots", "toolchain"} # {} ->
           {NoAnswer} \cup {Failed(s) : s \in {400, 500, 503, 504}}
      [] broken \cap {"slots", "toolchain"} = {} /\ "node" \in broken -> {Failed(502)}
      [] broken \cap {"slots", "toolchain", "node"} = {} /\ "fixtures" \in broken ->
           {Failed(400), Wrong("verified")}
      [] OTHER -> {Right}

Importing(broken) ==
    CASE "node" \in broken -> {NoAnswer, Failed(502)}
      [] "node" \notin broken /\ "fixtures" \in broken -> {Failed(404), Wrong("root")}
      [] OTHER -> {Right}

\* What a check is answered, in one moment, while these parts are broken and
\* api-compile's container is up.
Answers(service, check, broken) ==
    IF service \in broken THEN BrokenAnswers
    ELSE CASE check = "root" -> {Right}
           [] check \in {"account_by_code", "note_by_script"} -> Reading(broken)
           [] check \in {"account_by_id", "note_by_id"} ->
                IF Resolving(broken) = {Right} THEN Reading(broken)
                ELSE Resolving(broken)
           [] check = "compile" -> Compiling(broken)
           [] check = "verify" -> Verifying(broken)
           [] check = "import" -> Importing(broken)

\* Whether a check comes to the container, and starts it when it sleeps.
Reaches(service, check, broken) ==
    /\ {service, "api_compile"} \cap broken = {}
    /\ \/ service = "api_compile"
       \/ service = "api_registry" /\ check \in {"account_by_id", "note_by_id"}

-----------------------------------------------------------------------------
\* What each check asserts of a payload: the registry's record is the one asked
\* for, of the resource asked for, and api-compile did what it was asked to do.
RegistryAsserts ==
    LET record == {"root", "network", "content"} IN
    [account_by_code |-> record, note_by_script |-> record,
     account_by_id |-> record \cup {"id"}, note_by_id |-> record \cup {"id"}]

CompileAsserts ==
    [compile |-> {"built", "commitment", "manifest"}, verify |-> {"verified"},
     import |-> {"type", "root"}]

Asserts ==
    [check \in DOMAIN RegistryAsserts \cup DOMAIN CompileAsserts \cup {"root"} |->
        IF check \in DOMAIN RegistryAsserts THEN RegistryAsserts[check]
        ELSE IF check \in DOMAIN CompileAsserts THEN CompileAsserts[check] ELSE {}]

\* The pages serve HTML: nothing of theirs is inspected.
Inspected(service, check) == check # "root" \/ service \in {"api_registry", "api_compile"}

\* Variant with one plausible mistake: the status is the whole judgement.
ProbeEndpointByStatus(service, check, answer) == answer.status \in 200..299

\* probeEndpoint: whether the check is healthy.
ProbeEndpoint(service, check, answer) ==
    /\ answer.status \in 200..299
    /\ Inspected(service, check) => answer.json /\ answer.wrong \cap Asserts[check] = {}

Healthy(results) == {i \in DOMAIN results : results[i]}

\* rollUp
HealthOf(results) ==
    IF Healthy(results) = DOMAIN results THEN "healthy"
    ELSE IF Healthy(results) = {} THEN "unhealthy" ELSE "degraded"

-----------------------------------------------------------------------------
\* awake: the container is known to be up.  Only then can its slots be taken.
\* cold: it may have been asleep when the run started.
ChecksInit ==
    \E broken \in SUBSET Parts, awake \in BOOLEAN :
        /\ Cardinality(broken) <= MaxBroken
        /\ "slots" \in broken => awake
        /\ probe = [pc |-> "probing", results |-> [s \in Services |-> <<>>],
                    broken |-> broken, ever |-> broken, always |-> broken, changes |-> 0,
                    awake |-> awake, cold |-> ~awake]

\* A part breaks or is repaired while the run goes on.
PartChanges(part) ==
    /\ probe.pc = "probing" /\ probe.changes < MaxChanges
    /\ part = "slots" => probe.awake
    /\ LET broken == IF part \in probe.broken THEN probe.broken \ {part}
                     ELSE probe.broken \cup {part}
       IN  probe' = [probe EXCEPT !.broken = broken, !.ever = @ \cup broken,
                                  !.always = @ \cap broken, !.changes = @ + 1]

\* The next check of a service: the earlier ones have been answered.
NextCheck(service) == EndpointsOf[service][Len(probe.results[service]) + 1]
Due(service) ==
    probe.pc = "probing" /\ Len(probe.results[service]) + 1 \in DOMAIN EndpointsOf[service]

\* It is answered; the container, up by then, stays up for longer than the
\* checks leave it alone.
CheckNext(service) ==
    /\ Due(service)
    /\ \E answer \in Answers(service, NextCheck(service), probe.broken) :
         probe' = [probe EXCEPT
            !.results[service] = Append(@, ProbeEndpoint(service, NextCheck(service), answer)),
            !.awake = @ \/ Reaches(service, NextCheck(service), probe.broken)]

\* It gives up on a container that takes about 50 s to start.
CheckGivesUp(service) ==
    /\ Due(service)
    /\ ~probe.awake /\ Reaches(service, NextCheck(service), probe.broken)
    /\ NextCheck(service) \notin Patient
    /\ probe' = [probe EXCEPT
         !.results[service] = Append(@, ProbeEndpoint(service, NextCheck(service), NoAnswer))]

Checked(s) == Len(probe.results[s]) = Len(EndpointsOf[s])

\* Promise.all: the snapshot has every service.
Probed ==
    /\ probe.pc = "probing"
    /\ \A s \in Services : Checked(s)
    /\ probe' = [probe EXCEPT !.pc = "probed"]

ChecksNext ==
    \/ \E part \in Parts : PartChanges(part)
    \/ \E service \in Services : CheckNext(service) \/ CheckGivesUp(service)
    \/ Probed

-----------------------------------------------------------------------------
\* What a service needs for all of its checks.
Needs ==
    [api_registry |-> {"api_registry", "database", "records", "api_compile", "node", "fixtures"},
     web_verifier |-> {"web_verifier"},
     web_viewer   |-> {"web_viewer"},
     api_compile  |-> {"api_compile", "slots", "toolchain", "node", "fixtures"}]

\* The checks of a service that a sleeping container may cost.
LostToStart ==
    [api_registry |-> {"account_by_id", "note_by_id"},
     web_verifier |-> {}, web_viewer |-> {},
     api_compile  |-> {"root"}]

FailedChecks(s) ==
    {EndpointsOf[s][i] : i \in DOMAIN probe.results[s] \ Healthy(probe.results[s])}

\* The snapshot blames whom it should, whatever breaks and is repaired between
\* two checks.  Of a service whose needs all held, no check fails, or only those
\* that a sleeping container costs: "GET / runs first and wakes api-compile's
\* container, so the compile checks behind it don't each pay a cold start".  One
\* with a need that was broken all along is not healthy, unless the service
\* itself answered for it (broken, it can say anything).  And it is unhealthy
\* only when it was broken itself, so that "an api-compile outage degrades" the
\* registry, or is an api-compile whose root check met the sleeping container.
BlameIsJust ==
    probe.pc # "off" =>
        \A s \in {t \in Services : Checked(t)} :
            LET health == HealthOf(probe.results[s]) IN
            /\ probe.ever \cap Needs[s] = {} =>
                 FailedChecks(s) \subseteq (IF probe.cold THEN LostToStart[s] ELSE {})
            /\ s \notin probe.ever /\ probe.always \cap Needs[s] # {} => health # "healthy"
            /\ health = "unhealthy" => s \in probe.ever \/ (probe.cold /\ s = "api_compile")
=============================================================================
