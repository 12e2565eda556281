------------------------------ MODULE Catalogue ------------------------------
(***************************************************************************)
(* How an image that is published becomes a task definition a router can      *)
(* start.  The task-definitions service lists the images, registers with ECS  *)
(* what its rows do not have yet, and writes which revision belongs to    *)
(* which hash to Redis: once when it starts, then again and again, and when a  *)
(* request to refresh the definitions comes in, possibly at the same time.     *)
(* Every router copies that from Redis into a map and looks its requests up    *)
(* there.                                                                    *)
(***************************************************************************)
EXTENDS Environment

CONSTANTS Universe,       \* images that are ever published
          Listings,       \* what the registries may hold together
          Changes,        \* for each of those, what may be published instead
          Configured,     \* the configuration the process is started with
          Configurations, \* those a refresh may set: registries and exclusions
          Loop,           \* the pass of environmentRefresh and environmentUpdate
          Refreshes,      \* requests to refresh the definitions
          Routers,
          Requests,       \* capabilities a router may be asked for
          Disturbances    \* bound, by what is published first: changes of what is
                          \* published, refresh requests, failed calls and crashes

Passes == {Loop} \cup Refreshes

ASSUME CatalogueAssumption ==
    /\ IsFiniteSet(Universe)
    /\ Universe \subseteq [repository : Repositories, tag : Tags, registry : Registries]
    /\ Listings \subseteq SUBSET Universe /\ Listings # {}
    /\ Loop \notin Refreshes
    /\ Requests \subseteq AnyCapabilities
    /\ Changes \in [Listings -> SUBSET Listings]
    /\ Disturbances \in [Listings -> Nat]

VARIABLES
    published,  \* what the registries hold
    conf,       \* the configuration of the service
    done,       \* DefinitionRefreshDone: the first pass of the process is over
    pass,       \* each pass: where it is and what it has read
    rows,       \* the definitions table
    store,      \* the definitions in Redis, by hash
    members,    \* the set of hashes in Redis
    ready,      \* routers that have seen the first pass done
    known,      \* definitionsMap of each router, by hash
    scanned,    \* the hashes a router has read from the set and not looked up yet
    due,        \* history: the hashes that passes have to write, none of which
                \* a pass may have taken out of the set behind their back
    settled,    \* history: the images of the last pass, if it ran alone
    quota       \* disturbances that may still happen

service == <<conf, done>>
redis == <<store, members>>
router == <<ready, known, scanned>>
history == <<due, settled>>
vars == <<published, conf, done, pass, rows, store, members, ready, known, scanned,
          due, settled, quota>>

-----------------------------------------------------------------------------
(* Types *)

ImageEnvs == [i \in Universe |-> EnvsOfImage(i)]
Environments == UNION {ImageEnvs[i] : i \in Universe}
Hashes == {HashOvverideDefinition(e) : e \in Environments}

EnvsOf(images) == UNION {ImageEnvs[i] : i \in images}
HashesOf(images) == {HashOvverideDefinition(e) : e \in EnvsOf(images)}

ASSUME RevisionAssumption == NoRevision \notin Environments

\* A revision stands for the environment it was registered with: ECS never changes
\* one, and two that were registered with the same are not told apart.
Revisions == Environments \cup {NoRevision}
NoDefinitions == [h \in Hashes |-> NoRevision]
NoRecord == [rev |-> NoRevision, ttl |-> FALSE]

\* boot: environmentRefresh is about to list images; list: environmentUpdate is;
\* keys, expire: in ExpireAll; compare, save: in compareWithStoredTaskDefinition;
\* write: in WriteAll; idle: asleep, or a refresh nobody asked for yet; over,
\* failed: a refresh that was answered.
Phases == {"boot", "list", "keys", "expire", "compare", "save", "write",
           "idle", "over", "failed"}

Idle(phase) ==
    [phase |-> phase, images |-> {}, todo |-> {}, env |-> {}, old |-> {},
     found |-> NoDefinitions, keys |-> {},
     alone |-> FALSE, unchanged |-> FALSE]

Busy(p) == pass[p].phase \in {"keys", "expire", "compare", "save", "write"}

Init ==
    /\ published \in Listings
    /\ conf = Configured
    /\ done = FALSE
    /\ pass = [p \in Passes |-> Idle(IF p = Loop THEN "boot" ELSE "idle")]
    /\ rows = {}
    /\ store = [h \in Hashes |-> NoRecord]
    /\ members = {}
    /\ ready = {}
    /\ known = [r \in Routers |-> NoDefinitions]
    /\ scanned = [r \in Routers |-> {}]
    /\ due = {}
    /\ settled = {}
    /\ quota = Disturbances[published]

Disturb == quota > 0 /\ quota' = quota - 1

-----------------------------------------------------------------------------
(* The service: passes over the images *)

\* A plausible bug: the last environment is taken for done.
ComparingButLast(todo) == IF Cardinality(todo) <= 1 THEN "write" ELSE "compare"

\* The environments that are left decide what comes next.
Comparing(todo) == IF todo = {} THEN "write" ELSE "compare"

\* A pass has its list.  No other pass is affected, but it is not alone any more.
Begin(p, images, phase) ==
    LET alone == \A q \in Passes \ {p} : ~Busy(q)
    IN  /\ pass' = [q \in Passes |->
             IF q = p
             THEN [Idle(phase) EXCEPT !.images = images, !.todo = EnvsOf(images),
                                      !.alone = alone,
                                      !.unchanged = alone /\ settled = {images}]
             ELSE [pass[q] EXCEPT !.alone = FALSE, !.unchanged = FALSE]]
        /\ settled' = IF alone THEN settled \cap {images} ELSE {}

\* What ListImages may return: all images, or when the gallery fails only the private ones.
Listed(c, images) ==
    \/ images = ListImages(c, published) /\ UNCHANGED quota
    \/ images = ListImagesWithoutPublic(c, published) /\ Disturb

Images(c) == {ListImages(c, published), ListImagesWithoutPublic(c, published)}

\* environmentRefresh, once per process: nothing is expired.
ListForRefresh ==
    /\ pass[Loop].phase = "boot"
    /\ \E images \in Images(conf) :
          /\ Listed(conf, images) /\ Begin(Loop, images, Comparing(EnvsOf(images)))
          /\ due' = due \cup HashesOf(images)
    /\ UNCHANGED <<published, conf, done, rows, redis, router>>

\* environmentUpdate
ListForUpdate ==
    /\ pass[Loop].phase = "list"
    /\ \E images \in Images(conf) : Listed(conf, images) /\ Begin(Loop, images, "keys")
    /\ UNCHANGED <<published, conf, done, rows, redis, router, due>>

\* RefreshDefinitions: the new configuration is kept once its images are listed.
RefreshDefinitions(p) ==
    /\ p \in Refreshes /\ pass[p].phase = "idle"
    /\ \E c \in Configurations \cup {conf} :
          /\ \E images \in Images(c) : Begin(p, images, "keys")
          /\ conf' = c
    /\ Disturb
    /\ UNCHANGED <<published, done, rows, redis, router, due>>

\* getDefinitions: the hashes of the set that have a value.
Visible == {h \in members : store[h].rev # NoRevision}

\* ExpireAll reads first ...
ReadKeys(p) ==
    /\ pass[p].phase = "keys"
    /\ pass' = [pass EXCEPT ![p] = [@ EXCEPT !.phase = "expire", !.keys = Visible]]
    /\ UNCHANGED <<published, conf, done, rows, redis, router, history, quota>>

\* A plausible bug: the pipeline is filled and never executed.
ExpiredNothing(keys) == UNCHANGED <<store, members>>

\* EXPIRE and SREM of some keys: the values stay for an hour and a half.
Expired(keys) ==
    /\ store' = [h \in Hashes |->
                    IF h \in keys /\ store[h].rev # NoRevision
                    THEN [store[h] EXCEPT !.ttl = TRUE] ELSE store[h]]
    /\ members' = members \ keys

\* ... and takes those out of the set.
ExpireAll(p) ==
    /\ pass[p].phase = "expire"
    /\ Expired(pass[p].keys)
    /\ pass' = [pass EXCEPT ![p] = [@ EXCEPT !.phase = Comparing(pass[p].todo), !.keys = {}]]
    /\ due' = HashesOf(pass[p].images)
    /\ UNCHANGED <<published, conf, done, rows, router, settled, quota>>

\* Images are taken in their sorted order, and without mitm first.
First(todo) ==
    {e \in todo : \A d \in todo : /\ ~Before(d.image, e.image)
                                  /\ d.image = e.image => "mitm" \notin e.schema \/ d = e}

GetDefinition(env) == {row \in rows : row.family = env.family /\ row.schema = env.schema}

\* The definition of an environment is known to the pass.
Keep(p, env, rev) ==
    LET left == pass[p].todo \ {env}
    IN  pass' = [pass EXCEPT ![p] =
                     [@ EXCEPT !.phase = Comparing(left), !.todo = left, !.env = {}, !.old = {},
                               !.found[HashOvverideDefinition(env)] = rev]]

\* A plausible bug: a row of the family and schema is good enough.
AnyRowWillDo(env, row) == row.schema = env.schema

\* A plausible bug: what is registered is not compared, only what is asked for.
SameOverride(env, row) == row.override = HashOvverideDefinition(env)

\* What a stored row says of an environment.
UpToDate(env, row) == row.register = HashRegisterDefinition(env)

\* compareWithStoredTaskDefinition: the row is up to date.
Reuse(p) ==
    /\ pass[p].phase = "compare"
    /\ \E env \in First(pass[p].todo) : \E row \in GetDefinition(env) :
          UpToDate(env, row) /\ Keep(p, env, row.rev)
    /\ UNCHANGED <<published, conf, done, rows, redis, router, history, quota>>

\* compareWithStoredTaskDefinition: there is no row, or it is of another definition.
\* The row is read and a revision registered, without any other call in between
\* that matters to both.
Register(p) ==
    /\ pass[p].phase = "compare"
    /\ \E env \in First(pass[p].todo) :
          \E old \in {{row.register} : row \in {r \in GetDefinition(env) : ~UpToDate(env, r)}}
                     \cup (IF GetDefinition(env) = {} THEN {{}} ELSE {}) :
             pass' = [pass EXCEPT ![p] = [@ EXCEPT !.phase = "save", !.env = {env}, !.old = old]]
    /\ UNCHANGED <<published, conf, done, rows, redis, router, history, quota>>

\* The rows InsertDefinition or RefreshTag touches.
Touched(old) == {row \in rows : row.register \in old}

\* Both hashes of a definition are unique in the table.
Conflict(env, old) ==
    /\ old = {} \/ Touched(old) # {}
    /\ \E row \in rows \ Touched(old) :
          \/ row.register = HashRegisterDefinition(env)
          \/ row.override = HashOvverideDefinition(env)

InsertDefinition(env) ==
    rows' = rows \cup {[family |-> env.family, schema |-> env.schema,
                        register |-> HashRegisterDefinition(env),
                        override |-> HashOvverideDefinition(env), rev |-> env]}

\* No row may be touched any more when another pass was faster.
RefreshTag(env, old) ==
    rows' = {IF row \in Touched(old)
             THEN [row EXCEPT !.register = HashRegisterDefinition(env),
                              !.override = HashOvverideDefinition(env), !.rev = env]
             ELSE row : row \in rows}

Save(p) ==
    /\ pass[p].phase = "save"
    /\ \E env \in pass[p].env :
          /\ ~Conflict(env, pass[p].old)
          /\ IF pass[p].old = {} THEN InsertDefinition(env)
                                 ELSE RefreshTag(env, pass[p].old)
          /\ Keep(p, env, env)
    /\ UNCHANGED <<published, conf, done, redis, router, history, quota>>

\* A plausible bug: SET keeps the time to live of the key.
WrittenWithTTL(rev) == [rev |-> rev, ttl |-> TRUE]

\* SET without a time to live.
Written(rev) == [rev |-> rev, ttl |-> FALSE]

\* The pass is over: the loop sleeps, the refresh is answered.
Finish(p) ==
    /\ pass' = [pass EXCEPT ![p] = Idle(IF p = Loop THEN "idle" ELSE "over")]
    /\ done' = (done \/ p = Loop)
    /\ settled' = IF pass[p].alone THEN {pass[p].images} ELSE settled

\* WriteAll, one definition of the pipeline after the other.
Write(p, h) ==
    /\ pass[p].phase = "write" /\ pass[p].found[h] # NoRevision
    /\ store' = [store EXCEPT ![h] = Written(pass[p].found[h])]
    /\ members' = members \cup {h}
    /\ IF \E other \in Hashes \ {h} : pass[p].found[other] # NoRevision
       THEN pass' = [pass EXCEPT ![p] = [@ EXCEPT !.found[h] = NoRevision]]
            /\ UNCHANGED <<done, settled>>
       ELSE Finish(p)
    /\ UNCHANGED <<published, conf, rows, router, due, quota>>

\* There is nothing to write.
WriteNothing(p) ==
    /\ pass[p].phase = "write" /\ pass[p].found = NoDefinitions
    /\ Finish(p)
    /\ UNCHANGED <<published, conf, rows, redis, router, due, quota>>

\* The interval of the updates is longer than the one routers read in.
RoutersCaughtUp ==
    \A r \in Routers : known[r] = [h \in Hashes |-> IF h \in members THEN store[h].rev ELSE NoRevision]

Wake ==
    /\ pass[Loop].phase = "idle" /\ RoutersCaughtUp
    /\ pass' = [pass EXCEPT ![Loop].phase = "list"]
    /\ UNCHANGED <<published, conf, done, rows, redis, router, history, quota>>

-----------------------------------------------------------------------------
(* Failures of the service *)

\* The process starts again with its first configuration.
Restart ==
    /\ pass' = [p \in Passes |-> IF p = Loop THEN Idle("boot")
                                 ELSE IF Busy(p) THEN Idle("failed") ELSE pass[p]]
    /\ conf' = Configured
    /\ done' = FALSE
    /\ due' = {}

\* A pass that fails is retried by the loop, or ends the process if it was its
\* first; a refresh is answered with an error.
Fail(p) ==
    IF p = Loop /\ ~done THEN Restart
    ELSE /\ pass' = [pass EXCEPT ![p] = Idle(IF p = Loop THEN "list" ELSE "failed")]
         /\ due' = {}
         /\ UNCHANGED <<conf, done>>

\* A unique hash is there already.
SaveConflicts(p) ==
    /\ pass[p].phase = "save"
    /\ \E env \in pass[p].env : Conflict(env, pass[p].old)
    /\ Fail(p)
    /\ UNCHANGED <<published, rows, redis, router, settled, quota>>

\* A call fails: of ExpireAll any part may have been done.
PassFails(p) ==
    /\ Busy(p) /\ Disturb
    /\ \/ /\ pass[p].phase = "expire"
          /\ \E keys \in SUBSET pass[p].keys : Expired(keys)
       \/ UNCHANGED redis
    /\ Fail(p)
    /\ UNCHANGED <<published, rows, router, settled>>

ServiceCrash ==
    /\ Disturb
    /\ Restart
    /\ UNCHANGED <<published, rows, redis, router, settled>>

-----------------------------------------------------------------------------
(* Redis, the registries and the routers *)

ExpireKey(h) ==
    /\ store[h].ttl
    /\ store' = [store EXCEPT ![h] = NoRecord]
    /\ UNCHANGED <<published, conf, done, pass, rows, members, router, history, quota>>

Publish ==
    /\ Disturb
    /\ published' \in Changes[published]
    /\ UNCHANGED <<conf, done, pass, rows, redis, router, history>>

\* A router waits for IsTaskDefinitionRefreshDone before it reads definitions.
RouterReady(r) ==
    /\ r \notin ready /\ done
    /\ ready' = ready \cup {r}
    /\ UNCHANGED <<published, conf, done, pass, rows, redis, known, scanned, history, quota>>

\* ActualizeDefinitionsMap reads the set ...
Scan(r) ==
    /\ r \in ready /\ scanned[r] = {}
    /\ scanned' = [scanned EXCEPT ![r] = {members}]
    /\ UNCHANGED <<published, conf, done, pass, rows, redis, ready, known, history, quota>>

\* ... and then the values that are still there, and replaces the map.
ActualizeDefinitionsMap(r) ==
    /\ \E keys \in scanned[r] :
          known' = [known EXCEPT ![r] =
                       [h \in Hashes |-> IF h \in keys THEN store[h].rev ELSE NoRevision]]
    /\ scanned' = [scanned EXCEPT ![r] = {}]
    /\ UNCHANGED <<published, conf, done, pass, rows, redis, ready, history, quota>>

Pass(p) ==
    \/ ReadKeys(p) \/ ExpireAll(p) \/ Reuse(p) \/ Register(p) \/ Save(p)
    \/ SaveConflicts(p) \/ WriteNothing(p)
    \/ \E h \in Hashes : Write(p, h)

Next ==
    \/ ListForRefresh \/ ListForUpdate \/ Wake
    \/ \E p \in Passes : RefreshDefinitions(p) \/ Pass(p) \/ PassFails(p)
    \/ \E h \in Hashes : ExpireKey(h)
    \/ \E r \in Routers : RouterReady(r) \/ Scan(r) \/ ActualizeDefinitionsMap(r)
    \/ Publish \/ ServiceCrash

Spec == Init /\ [][Next]_vars

\* The loop of the service and those of the routers go on; calls are answered.
\* Nobody has to ask for a refresh or change what is published.
FairSpec ==
    /\ Spec
    /\ WF_vars(ListForRefresh) /\ WF_vars(ListForUpdate) /\ WF_vars(Wake)
    /\ \A p \in Passes : WF_vars(Pass(p))
    /\ \A r \in Routers : WF_vars(RouterReady(r)) /\ WF_vars(Scan(r))
                          /\ WF_vars(ActualizeDefinitionsMap(r))

-----------------------------------------------------------------------------
(* What is published: conditions of theorems *)

\* The image of a dedicated repository that takes the place of that of the browser's own.
Twin(dedicated, shared) ==
    /\ dedicated.repository.dedicated /\ dedicated.tag \in AutoUpdateTags
    /\ shared.repository.name = shared.repository.browser
    /\ dedicated.repository.browser = shared.repository.browser
    /\ dedicated.repository.platform = shared.repository.platform
    /\ dedicated.tag = shared.tag

\* No two images that are published together generate definitions of one family and
\* schema, except such twins: not one name and tag from two registries, and no tags that
\* differ in dots and dashes only.
OnlyTwinsShareFamilies ==
    \A listed \in Listings : \A i, j \in listed :
        \A d \in ImageEnvs[i], e \in ImageEnvs[j] :
            d.family = e.family /\ d.schema = e.schema => d = e \/ Twin(i, j) \/ Twin(j, i)

\* Repositories that end in the auto-update suffix are the dedicated ones.
DedicatedAreNamed ==
    /\ \A r \in Repositories : r.dedicated => r.name = remapName(r.browser) \o "-auto-update"
    /\ \A request \in Requests :
          \A r \in RepositoriesNamed(remapName(request.browser) \o "-auto-update") : r.dedicated

\* Their images have tags that end in it, with dashes a request cannot confuse with
\* another version's.
DedicatedAreTagged ==
    \A image \in Universe : image.repository.dedicated =>
        /\ image.tag \in AutoUpdateTags
        /\ \A v \in {remapVersion(asked) : asked \in Tags \cup {NoVersion}} :
              Dashed[Lower[image.tag]] = Dashed[v] => v = image.tag

-----------------------------------------------------------------------------
(* Properties *)

TypeOK ==
    /\ published \in Listings
    /\ conf \in Configurations \cup {Configured}
    /\ done \in BOOLEAN
    /\ \A p \in Passes :
          /\ DOMAIN pass[p] = DOMAIN Idle("idle")
          /\ pass[p].phase \in Phases
          /\ pass[p].images \subseteq Universe /\ pass[p].todo \subseteq EnvsOf(pass[p].images)
          /\ pass[p].env \subseteq First(pass[p].todo)
          /\ pass[p].phase = "write" => pass[p].todo = {}
          /\ pass[p].found \in [Hashes -> Revisions]
          /\ pass[p].keys \subseteq Hashes
    /\ store \in [Hashes -> [rev : Revisions, ttl : BOOLEAN]]
    /\ members \subseteq Hashes
    /\ ready \subseteq Routers
    /\ known \in [Routers -> [Hashes -> Revisions]]
    /\ \A r \in Routers : scanned[r] \subseteq SUBSET Hashes
    /\ due \subseteq Hashes
    /\ quota \in Nat

Runs(rev, hash) == rev = NoRevision \/ HashOvverideDefinition(rev) = hash

\* Wherever a hash is paired with a revision, in a pass, in Redis or in a router,
\* that revision runs the containers the hash stands for
\* (definitions.go:57, definitionmap.go:18): the rows of the table are reused by
\* later passes and changed by passes that run at the same time.
RevisionsRunTheirHash ==
    \A h \in Hashes :
        /\ \A p \in Passes : Runs(pass[p].found[h], h)
        /\ Runs(store[h].rev, h)
        /\ \A r \in Routers : Runs(known[r][h], h)

\* The requests with what a router may build for them.
Asking == [request \in Requests |-> Candidates(request)]
Started(r, request) == BuildEnvForTaskDefinitionOverride(Asking[request], known[r])

\* What a request asked for: the browser with its version, with mitm or without.
RunsTheRequest(request, env) ==
    \E image \in buildImageFromCaps(request) :
        /\ env.image.tag = image.tag
        /\ env.image.repository.browser = image.repository.browser
        /\ env.image.repository.platform = image.repository.platform
        /\ env.schema = Schema(EnvironmentType(request),
                               request.mitm /\ EnvironmentType(request) = "linux", request.maven)

\* A router that starts a task for a request starts a revision with the browser,
\* the version and the containers that were asked for; the image is of the
\* dedicated auto-update repository whenever the router knows that it has one
\* (builder.go:77, environment.go:71): what is looked up is a hash, and many
\* definitions share a family.
StartRunsWhatWasAskedFor ==
    \A r \in Routers, request \in Requests :
        \A env \in Started(r, request) :
            LET rev == GetFamilyRevision(env, known[r])
            IN  rev # NoRevision =>
                  /\ RunsTheRequest(request, rev)
                  /\ (\E h \in Hashes :
                          /\ known[r][h] # NoRevision /\ h.image.repository.dedicated
                          /\ h.family = env.family /\ h.schema = env.schema)
                     => rev.image.repository.dedicated

\* A task that is accepted fits an empty instance of the smallest type of its
\* capacity provider, whatever its request asks for (container.go:139): the scaler
\* counts on that when it starts instances for it.
AcceptedTaskFitsAnyInstance ==
    \A r \in Routers, request \in Requests :
        \A env \in Started(r, request) :
            LET limit == InstanceLimit[env.type]
                reserved == GetAllocationResources(env)
            IN  limit # NoLimit =>
                  /\ reserved.cpu <= limit.cpu
                  /\ 1000 * (limit.memory - reserved.memory) >= 28 * limit.memory + 163840

\* Once the passes that were under way are over, everything written by those the
\* set was not emptied under is there to be read and stays there
\* (definitionmap.go:30): a pass that starts with an empty set of its own fills it
\* while another one may empty it again.
WrittenDefinitionsStay ==
    (\A p \in Passes : ~Busy(p)) => \A h \in due : h \in Visible /\ ~store[h].ttl

\* Two rows for one family and schema: two passes that listed different images of
\* the same family both found none.  From then on what is found is left to chance,
\* and an update may fail on a row of its own.
Doubled == \E a, b \in rows : a # b /\ a.family = b.family /\ a.schema = b.schema

\* An update that runs alone and finds the images of the one before, which ran
\* alone as well, registers nothing (definitions.go:57, images.go:335).
UnchangedImagesAreNotRegistered ==
    \A p \in Passes : pass[p].unchanged /\ ~Doubled => pass[p].phase # "save"

\* The request a client makes for an image.
RequestFor(image) ==
    LET r == image.repository
    IN  CASE r.platform = "cypress" ->
               [Capabilities("cypress", "", NoVersion) EXCEPT !.image = [name |-> r.name, tag |-> image.tag]]
          [] r.platform = "playwright" -> Capabilities("playwright", "chromium", image.tag)
          [] OTHER -> Capabilities(r.platform, r.browser, image.tag)

\* Tags with capital letters cannot be asked for, except on cypress.
Askable(image) == image.repository.platform = "cypress" \/ Lower[image.tag] = image.tag

AskingForImage == [i \in Universe |-> Candidates(RequestFor(i))]

\* The router starts just this image, of this registry.
Serves(r, image) ==
    \E env \in BuildEnvForTaskDefinitionOverride(AskingForImage[image], known[r]) :
        LET rev == GetFamilyRevision(env, known[r])
        IN  rev # NoRevision /\ rev.image = image

\* Again and again every router can start every image the registries hold and the
\* configuration allows, of the registry it is in now, whatever failed, crashed or
\* was refreshed before (main.go:72, definitions.go:47) -- unless rows are doubled.
PublishedImageIsServed ==
    []<>(Doubled \/ \A r \in Routers, i \in ListImages(conf, published) : Askable(i) => Serves(r, i))

\* Again and again no router knows a definition of an image that is gone or
\* excluded (definitionmap.go:29), under the same condition.
RemovedImageIsForgotten ==
    []<>(Doubled \/ \A r \in Routers, h \in Hashes :
                        known[r][h] # NoRevision => h \in HashesOf(ListImages(conf, published)))
=============================================================================
