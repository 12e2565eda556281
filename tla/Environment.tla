----------------------------- MODULE Environment -----------------------------
(***************************************************************************)
(* The execution environment of a task: the family of its task definition,    *)
(* its containers and their resources, and the two hashes a definition is     *)
(* registered and found by.  It is built from an image when definitions are   *)
(* generated, and from the capabilities of a request when a task is started.  *)
(*                                                                          *)
(* A hash is the record of what it is computed from: two different hashes     *)
(* never collide here.  Images of the sidecars, ports, mounts and the like are *)
(* the same for all environments of a type and schema, and left out.          *)
(***************************************************************************)
EXTENDS Images, TaskResources

CONSTANTS NoRevision,     \* no task definition is known
          NoVersion,      \* a version that is absent, empty or "null"
          NoLimit,        \* the smallest instance of a capacity provider nobody asked for
          InstanceLimit   \* CPU and memory of the smallest instance, by environment type

Types == {"linux", "windows", "cypress", "playwright", "generic"}

ASSUME EnvironmentAssumption ==
    /\ NoVersion \notin Tags
    /\ InstanceLimit \in [Types -> [cpu : Nat, memory : Nat] \cup {NoLimit}]
    /\ NoLimit \notin [cpu : Nat, memory : Nat]

-----------------------------------------------------------------------------
(* Containers *)

Res(cpu, memory) == [cpu |-> cpu, memory |-> memory]

NoContainer == Res(0, 0)
Fixed(clone, entrypoint, maven, recorder, uploader) ==
    [clone |-> clone, entrypoint |-> entrypoint, maven |-> maven, recorder |-> recorder,
     uploader |-> uploader]

\* The containers with fixed resources, by builder.
LinuxSidecars ==
    Fixed(NoContainer, NoContainer, NoContainer, Res(160, 1024), Res(128, 256))
PlaywrightSidecars ==
    Fixed(NoContainer, NoContainer, NoContainer, Res(160, 1024), Res(128, 256))
WindowsSidecars ==
    Fixed(NoContainer, NoContainer, NoContainer, Res(8, 8), Res(16, 16))
CypressSidecars ==
    Fixed(Res(128, 512), Res(16, 16), NoContainer, Res(320, 2048), Res(128, 256))
GenericSidecars(maven) ==
    Fixed(Res(128, 512), Res(16, 16), IF maven THEN Res(16, 16) ELSE NoContainer,
          Res(16, 64), Res(128, 256))

Sidecars(type, maven) ==
    CASE type = "linux"      -> LinuxSidecars
      [] type = "playwright" -> PlaywrightSidecars
      [] type = "windows"    -> WindowsSidecars
      [] type = "cypress"    -> CypressSidecars
      [] type = "generic"    -> GenericSidecars(maven)

\* SumResources
SidecarCpu(s) == s.clone.cpu + s.entrypoint.cpu + s.maven.cpu + s.recorder.cpu + s.uploader.cpu
SidecarMemory(s) ==
    s.clone.memory + s.entrypoint.memory + s.maven.memory + s.recorder.memory + s.uploader.memory

\* The minimum of the browser or executor, and of mitm when there is one.
MinimumCpu(mitm) == [main |-> 1024, mitm |-> IF mitm THEN 512 ELSE 0]
MinimumMemory(type, mitm) ==
    [main |-> IF type \in {"cypress", "playwright"} THEN 2048 ELSE 1024,
     mitm |-> IF mitm THEN 512 ELSE 0]

\* buildSchema: the names of all containers.
Schema(type, mitm, maven) ==
    LET sidecars == Sidecars(type, maven)
    IN  {n \in DOMAIN sidecars : sidecars[n] # NoContainer}
            \cup {IF type = "generic" THEN "executor" ELSE "browser"}
            \cup (IF mitm THEN {"mitm"} ELSE {})

-----------------------------------------------------------------------------
(* Capabilities *)

\* The capabilities that decide which environment is built, names in lower case.
Capabilities(platform, browser, version) ==
    [platform |-> platform, browser |-> browser, version |-> version,
     playwrightVersion |-> NoVersion, image |-> [name |-> "", tag |-> Latest],
     mitm |-> FALSE, maven |-> FALSE,
     cpu |-> [c \in Scaled |-> 0], memory |-> [c \in Scaled |-> 0]]

AnyCapabilities ==
    [platform : STRING, browser : STRING, version : Tags \cup {NoVersion},
     playwrightVersion : Tags \cup {NoVersion}, image : [name : STRING, tag : Tags],
     mitm : BOOLEAN, maven : BOOLEAN, cpu : Demand, memory : Demand]

\* GetMockCapabilities: what the definitions of an image are generated for.
MockCapabilities(image) ==
    LET plain == Capabilities(image.repository.platform, image.repository.browser, image.tag)
    IN  CASE image.repository.platform = "linux" -> {plain, [plain EXCEPT !.mitm = TRUE]}
          [] image.repository.platform = "playwright" -> {[plain EXCEPT !.browser = ""]}
          [] OTHER -> {plain}

EnvironmentType(caps) == IF caps.platform \in {"", "any"} THEN "linux" ELSE caps.platform

remapName(name) ==
    IF name = "microsoftedge" THEN "edge"
    ELSE IF \E r \in Repositories : name = "playwright-" \o r.browser
    THEN (CHOOSE r \in Repositories : name = "playwright-" \o r.browser).browser
    ELSE name

remapVersion(version) == IF version = NoVersion THEN Latest ELSE Lower[version]

\* playwrightVersion, with browserVersion as its older name.
playwrightVersion(caps) ==
    LET version == IF caps.playwrightVersion # NoVersion THEN caps.playwrightVersion
                                                         ELSE caps.version
    IN  IF version = NoVersion THEN NoVersion ELSE Lower[version]

\* The engines a request on the playwright platform may name.
PlaywrightNames ==
    {"", "chromium", "chrome", "edge", "microsoftedge", "firefox", "webkit", "safari"}

ResolvePlaywrightBrowserType(browser) ==
    browser \in PlaywrightNames \cup {"playwright-" \o name : name \in PlaywrightNames}

Family(platform, browser, version) ==
    [platform |-> platform, browser |-> browser, version |-> version]

\* Versions in a family have dashes for dots, so some share a family.
buildTaskDefinitionFamily(caps) ==
    LET type == EnvironmentType(caps)
    IN  CASE type = "playwright" /\ playwrightVersion(caps) # NoVersion ->
               Family(type, "", Dashed[playwrightVersion(caps)])
          [] type # "playwright" /\ caps.browser # "" ->
               Family(type, remapName(caps.browser), Dashed[remapVersion(caps.version)])
          [] OTHER -> Family(type, "", NoVersion)

-----------------------------------------------------------------------------
(* The environment *)

\* calculateResources: the resources of the scaled containers, or none when the
\* minimum does not fit the smallest instance.  Without a limit there is room for
\* the minimum only.
CalculatedResources(type, caps, limit) ==
    LET sidecars == Sidecars(type, caps.maven)
        minCpu == MinimumCpu(caps.mitm)
        minMemory == MinimumMemory(type, caps.mitm)
        cpuLeft == IF limit = NoLimit THEN Total(minCpu)
                   ELSE limit.cpu - SidecarCpu(sidecars)
        memoryLeft == IF limit = NoLimit THEN Total(minMemory)
                      ELSE limit.memory - SidecarMemory(sidecars) - getMemoryDeviation(limit.memory)
    IN  IF MinimumFits(minCpu, cpuLeft) /\ MinimumFits(minMemory, memoryLeft)
        THEN {[cpu |-> Granted(caps.cpu, minCpu, cpuLeft),
               memory |-> Granted(caps.memory, minMemory, memoryLeft)]}
        ELSE {}

\* A builder: the environment of an image, or none.  Capabilities that are
\* malformed are refused before, and not among the ones that are asked for.
BuildEnv(image, caps, limit) ==
    LET type == EnvironmentType(caps)
    IN  IF type \notin Types \/ (type = "playwright" /\ ~ResolvePlaywrightBrowserType(caps.browser))
        THEN {}
        ELSE {[family |-> buildTaskDefinitionFamily(caps),
               schema |-> Schema(type, caps.mitm /\ type = "linux", caps.maven),
               type |-> type, image |-> image, res |-> res] :
              res \in CalculatedResources(type, [caps EXCEPT !.mitm = @ /\ type = "linux"], limit)}

\* A plausible bug: the image is left out of the hash.
HashWithoutImage(env) ==
    [family |-> env.family, schema |-> env.schema, type |-> env.type,
     image |-> [repository |-> [env.image.repository EXCEPT !.dedicated = FALSE], tag |-> Latest]]

\* What must be equal for a task to be started with its definition and overrides:
\* not the registry, and not the resources.
HashOvverideDefinition(env) ==
    [family |-> env.family, schema |-> env.schema, type |-> env.type,
     image |-> NameTag(env.image)]

\* What a definition is registered with: not its family.
HashRegisterDefinition(env) ==
    [schema |-> env.schema, type |-> env.type, image |-> Url(env.image), res |-> env.res]

\* buildEnvsFromImage
EnvsOfImage(image) ==
    UNION {BuildEnv(image, caps, NoLimit) : caps \in MockCapabilities(image)}

-----------------------------------------------------------------------------
(* Requests *)

Asked(names, tag) ==
    {[repository |-> r, tag |-> tag, registry |-> NoRegistry] : r \in names}

\* The image a request is for, or none.
buildImageFromCaps(caps) ==
    LET type == EnvironmentType(caps)
        version == remapVersion(caps.version)
        suffix == IF version \in AutoUpdateTags THEN "-auto-update" ELSE ""
    IN  CASE type = "linux" ->
               Asked(RepositoriesNamed(remapName(caps.browser) \o suffix), version)
          [] type = "windows" ->
               Asked(RepositoriesNamed("windows-" \o remapName(caps.browser)), version)
          [] type = "cypress" /\ caps.image.name # "" ->
               Asked(RepositoriesNamed(caps.image.name), caps.image.tag)
          [] type = "playwright" /\ caps.browser # "" /\ playwrightVersion(caps) # NoVersion ->
               Asked(RepositoriesNamed("playwright"), playwrightVersion(caps))
          [] type = "generic" /\ caps.image.name # "" ->
               Asked({Repository(caps.image.name, "", "generic", FALSE)}, caps.image.tag)
          [] OTHER -> {}

\* On cypress the browser and its version are taken from the image.
CompletedCaps(caps, image) ==
    IF EnvironmentType(caps) = "cypress"
    THEN [caps EXCEPT !.browser = IF image.repository.platform = "cypress"
                                  THEN image.repository.browser ELSE image.repository.name,
                      !.version = image.tag]
    ELSE caps

\* The revision a router knows for a hash, or none.
FindRevision(definitions, hash) ==
    IF hash \in DOMAIN definitions THEN definitions[hash] ELSE NoRevision

\* The environments a request may get: the one of the image it is for and, for a
\* dedicated auto-update image, the one of the browser's own repository.
Candidates(request) ==
    UNION {LET caps == CompletedCaps(request, image)
               limit == InstanceLimit[EnvironmentType(caps)]
               shared == {[image EXCEPT !.repository = r] :
                             r \in RepositoriesNamed(image.repository.browser)}
           IN  {[preferred |-> env,
                 fallback |-> IF image.tag \in AutoUpdateTags /\ image.repository.dedicated
                              THEN UNION {BuildEnv(i, caps, limit) : i \in shared} ELSE {}] :
                env \in BuildEnv(image, caps, limit)} :
           image \in buildImageFromCaps(request)}

\* A dedicated auto-update image that has no definition gives way to the image of
\* the browser's own repository if that one has.
selectAutoUpdateEnvironment(candidate, definitions) ==
    LET HasDefinition(env) == FindRevision(definitions, HashOvverideDefinition(env)) # NoRevision
    IN  IF ~HasDefinition(candidate.preferred) /\ \E env \in candidate.fallback : HasDefinition(env)
        THEN candidate.fallback
        ELSE {candidate.preferred}

\* The environment a router builds from the candidates and the definitions it knows.
BuildEnvForTaskDefinitionOverride(candidates, definitions) ==
    UNION {selectAutoUpdateEnvironment(c, definitions) : c \in candidates}

\* GetFamilyRevision: the revision to start, or none.  A generic task's definition
\* is registered for it alone and has no revision to be found.
GetFamilyRevision(env, definitions) ==
    IF env.type = "generic" THEN NoRevision
    ELSE FindRevision(definitions, HashOvverideDefinition(env))

\* GetAllocationResources: what is reserved for the task.
GetAllocationResources(env) ==
    LET sidecars == Sidecars(env.type, "maven" \in env.schema)
    IN  Res(Total(env.res.cpu) + SidecarCpu(sidecars),
            Total(env.res.memory) + SidecarMemory(sidecars))
=============================================================================
