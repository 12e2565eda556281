-------------------------- MODULE Catalogue_proofs --------------------------
(***************************************************************************)
(* For any images, listings, refreshes, routers and number of disturbances:   *)
(*                                                                          *)
(* HashedRevisions.  A hash is only ever paired with a revision that runs     *)
(* what the hash was computed from.  The pairs are made from the rows of the  *)
(* database, where a row is found by family and schema, compared by what was  *)
(* registered, and updated by what was registered before, which may be        *)
(* another row by then.  What makes this safe is that environments that are   *)
(* registered alike have the same family: a row always holds a revision of    *)
(* its own family.  The invariant is Inv.                                     *)
(*                                                                          *)
(* TypesCorrect and WrittenStays.  A pass has a list of environments to look  *)
(* for and a map of the definitions it has found, and every hash of its       *)
(* images is in one or the other until it is written (Checked, DueDone).      *)
(*                                                                          *)
(* UnchangedNotRegistered.  While a pass runs alone the environments it is    *)
(* done with have rows that are up to date, and stay so until another pass    *)
(* runs (Alone).  Each environment has a family and schema of its own there,  *)
(* because of the twins a listing drops; without that each pass would         *)
(* register what the one before has replaced.                                 *)
(*                                                                          *)
(* StartsWhatWasAskedFor, AcceptedTasksFit.  What a router builds for a       *)
(* request, from Inv and from what the builders compute.                      *)
(***************************************************************************)
EXTENDS Catalogue, TaskResources_proofs

-----------------------------------------------------------------------------
(* Environments *)

\* All environments generated for an image have one family.
LEMMA MockFamily ==
    ASSUME NEW image, NEW c \in MockCapabilities(image), NEW d \in MockCapabilities(image)
    PROVE  buildTaskDefinitionFamily(c) = buildTaskDefinitionFamily(d)
<1>1. /\ c.platform = d.platform /\ c.browser = d.browser
      /\ c.version = d.version /\ c.playwrightVersion = d.playwrightVersion
  <2> DEFINE plain == Capabilities(image.repository.platform, image.repository.browser, image.tag)
  <2>1. CASE image.repository.platform = "linux"
    <3>1. c \in {plain, [plain EXCEPT !.mitm = TRUE]} /\ d \in {plain, [plain EXCEPT !.mitm = TRUE]}
      BY <2>1 DEF MockCapabilities
    <3> QED
      BY <3>1 DEF Capabilities
  <2>2. CASE image.repository.platform = "playwright"
    BY <2>2 DEF MockCapabilities
  <2>3. CASE image.repository.platform \notin {"linux", "playwright"}
    BY <2>3 DEF MockCapabilities
  <2> QED
    BY <2>1, <2>2, <2>3
<1>2. EnvironmentType(c) = EnvironmentType(d) /\ playwrightVersion(c) = playwrightVersion(d)
    BY <1>1 DEF EnvironmentType, playwrightVersion
<1> QED
    BY <1>1, <1>2 DEF buildTaskDefinitionFamily

\* What is built has the image and the family it was built for.
LEMMA BuiltFor ==
    ASSUME NEW image, NEW caps, NEW limit, NEW e \in BuildEnv(image, caps, limit)
    PROVE  e.image = image /\ e.family = buildTaskDefinitionFamily(caps)
    BY DEF BuildEnv

\* Environments that are registered alike are looked up alike.
LEMMA RegisteredAlike ==
    ASSUME NEW d \in Environments, NEW e \in Environments,
           HashRegisterDefinition(d) = HashRegisterDefinition(e)
    PROVE  d.family = e.family /\ HashOvverideDefinition(d) = HashOvverideDefinition(e)
<1>1. d.schema = e.schema /\ d.type = e.type /\ d.image = e.image
    BY DEF HashRegisterDefinition, Url
<1>2. PICK i \in Universe : \E caps \in MockCapabilities(i) : d \in BuildEnv(i, caps, NoLimit)
    BY DEF Environments, ImageEnvs, EnvsOfImage
<1>3. PICK j \in Universe : \E caps \in MockCapabilities(j) : e \in BuildEnv(j, caps, NoLimit)
    BY DEF Environments, ImageEnvs, EnvsOfImage
<1>4. i = j
    BY <1>1, <1>2, <1>3, BuiltFor
<1>5. PICK c \in MockCapabilities(i) : d \in BuildEnv(i, c, NoLimit)
    BY <1>2
<1>6. PICK b \in MockCapabilities(i) : e \in BuildEnv(i, b, NoLimit)
    BY <1>3, <1>4
<1>7. d.family = e.family
    BY <1>5, <1>6, BuiltFor, MockFamily
<1> QED
    BY <1>1, <1>7 DEF HashOvverideDefinition

\* Whatever is listed was published.
LEMMA Listing ==
    ASSUME NEW c, published \in Listings, NEW images \in Images(c)
    PROVE  images \subseteq Universe /\ EnvsOf(images) \subseteq Environments
<1>1. images \subseteq published
    BY DEF Images, ListImages, ListImagesWithoutPublic, preferAutoUpdateRepositories
<1>2. images \subseteq Universe
    BY <1>1, CatalogueAssumption DEF CatalogueAssumption
<1> QED
    BY <1>2 DEF EnvsOf, Environments

-----------------------------------------------------------------------------
(* The inductive invariant *)

Registers == {HashRegisterDefinition(e) : e \in Environments}

PassRecord ==
    [phase : Phases, images : SUBSET Universe, todo : SUBSET Environments,
     env : SUBSET Environments, old : SUBSET Registers, found : [Hashes -> Revisions],
     keys : SUBSET Hashes, alone : BOOLEAN, unchanged : BOOLEAN]

Row == [family : {e.family : e \in Environments}, schema : {e.schema : e \in Environments},
        register : Registers, override : Hashes, rev : Environments]

\* A pass whose pairs are true, and that replaces a row of the family it looked for.
Sound(q) ==
    /\ \A h \in Hashes : Runs(q.found[h], h)
    /\ \A register \in q.old, env \in q.env :
          \E e \in Environments : /\ HashRegisterDefinition(e) = register
                                 /\ e.family = env.family /\ e.schema = env.schema

PassesSound == pass \in [Passes -> PassRecord] /\ \A p \in Passes : Sound(pass[p])

\* A row holds a revision of its family and schema, and says how that was registered.
Holds(row) == /\ row.register = HashRegisterDefinition(row.rev)
              /\ row.family = row.rev.family /\ row.schema = row.rev.schema

RowsSound == rows \subseteq Row /\ \A row \in rows : Holds(row)

RedisSound ==
    /\ store \in [Hashes -> [rev : Revisions, ttl : BOOLEAN]]
    /\ members \subseteq Hashes
    /\ \A h \in Hashes : Runs(store[h].rev, h)

RouterSound ==
    /\ known \in [Routers -> [Hashes -> Revisions]]
    /\ \A r \in Routers, h \in Hashes : Runs(known[r][h], h)

Inv == published \in Listings /\ PassesSound /\ RowsSound /\ RedisSound /\ RouterSound

\* The invariant says what the property does.
LEMMA InvImplies == Inv => RevisionsRunTheirHash
    BY DEF Inv, PassesSound, Sound, RedisSound, RouterSound, RevisionsRunTheirHash

\* A pass that has not begun has paired nothing.
LEMMA IdleSound ==
    ASSUME NEW phase \in Phases
    PROVE  Idle(phase) \in PassRecord /\ Sound(Idle(phase))
    BY DEF Idle, PassRecord, NoDefinitions, Revisions, Sound, Runs

\* At the start there are no pairs.
LEMMA InvInit == Init => Inv
<1> SUFFICES ASSUME Init PROVE Inv
    OBVIOUS
<1>1. PassesSound
    BY IdleSound DEF Init, Phases, PassesSound
<1>2. RowsSound /\ RedisSound /\ RouterSound
    BY DEF Init, RowsSound, RedisSound, RouterSound, NoRecord, NoDefinitions, Revisions, Runs
<1> QED
    BY <1>1, <1>2 DEF Inv, Init

-----------------------------------------------------------------------------
(* The steps of a pass *)

\* One pass becomes a sound one.
LEMMA PassBecomes ==
    ASSUME PassesSound, NEW p \in Passes, NEW q \in PassRecord, Sound(q),
           pass' = [pass EXCEPT ![p] = q]
    PROVE  PassesSound'
    BY DEF PassesSound, Sound

\* What is remembered of the other passes does not matter.
LEMMA FlagsSound ==
    ASSUME NEW q \in PassRecord, Sound(q), NEW a \in BOOLEAN, NEW u \in BOOLEAN
    PROVE  LET new == [q EXCEPT !.alone = a, !.unchanged = u]
           IN  new \in PassRecord /\ Sound(new)
<1> DEFINE new == [q EXCEPT !.alone = a, !.unchanged = u]
<1>1. new \in PassRecord
    BY DEF PassRecord
<1>2. new.found = q.found /\ new.old = q.old /\ new.env = q.env
    BY DEF PassRecord
<1> HIDE DEF new
<1>3. Sound(new)
    BY <1>2 DEF Sound
<1> QED
    BY <1>1, <1>3 DEF new

\* A pass that begins has paired nothing yet.
LEMMA BeginSound ==
    ASSUME Inv, NEW p \in Passes, NEW c, NEW images \in Images(c), NEW phase \in Phases,
           Begin(p, images, phase)
    PROVE  PassesSound'
<1>1. images \subseteq Universe /\ EnvsOf(images) \subseteq Environments
    BY Listing DEF Inv
<1> DEFINE alone == \A x \in Passes \ {p} : ~Busy(x)
           new == [Idle(phase) EXCEPT !.images = images, !.todo = EnvsOf(images), !.alone = alone,
                                      !.unchanged = alone /\ settled = {images}]
           other(x) == [pass[x] EXCEPT !.alone = FALSE, !.unchanged = FALSE]
<1>2. pass' = [x \in Passes |-> IF x = p THEN new ELSE other(x)]
    BY DEF Begin
<1>3. new \in PassRecord /\ Sound(new)
    <2> DEFINE listed == [Idle(phase) EXCEPT !.images = images, !.todo = EnvsOf(images)]
    <2>1. Idle(phase) \in PassRecord /\ Sound(Idle(phase))
        BY IdleSound
    <2>2. listed \in PassRecord /\ Sound(listed)
        <3>1. listed \in PassRecord
            BY <1>1, <2>1 DEF PassRecord
        <3>2. /\ listed.found = Idle(phase).found /\ listed.old = Idle(phase).old
              /\ listed.env = Idle(phase).env
            BY <2>1 DEF PassRecord
        <3> HIDE DEF listed
        <3> QED
            BY <2>1, <3>1, <3>2 DEF Sound
    <2>3. new = [listed EXCEPT !.alone = alone, !.unchanged = alone /\ settled = {images}]
        OBVIOUS
    <2>4. alone \in BOOLEAN /\ (alone /\ settled = {images}) \in BOOLEAN
        OBVIOUS
    <2> HIDE DEF new, listed, alone
    <2> QED
        BY <2>2, <2>3, <2>4, FlagsSound
<1>4. ASSUME NEW x \in Passes PROVE other(x) \in PassRecord /\ Sound(other(x))
    BY <1>4, FlagsSound DEF Inv, PassesSound
<1> HIDE DEF new, other
<1>5. pass' \in [Passes -> PassRecord] /\ \A x \in Passes : Sound(pass'[x])
    BY <1>2, <1>3, <1>4
<1> QED
    BY <1>5 DEF PassesSound, Sound

\* A pass that pairs a hash with a revision of the same hash stays sound.
LEMMA KeepSound ==
    ASSUME PassesSound, NEW p \in Passes, NEW env \in Environments, NEW rev \in Environments,
           HashOvverideDefinition(rev) = HashOvverideDefinition(env),
           Keep(p, env, rev)
    PROVE  PassesSound'
<1> DEFINE h == HashOvverideDefinition(env)
           left == pass[p].todo \ {env}
           q == [pass[p] EXCEPT !.phase = Comparing(left), !.todo = left, !.env = {}, !.old = {},
                                !.found[h] = rev]
<1>1. pass' = [pass EXCEPT ![p] = q]
    BY DEF Keep, PassesSound
<1>2. pass[p] \in PassRecord /\ Sound(pass[p]) /\ h \in Hashes /\ Comparing(left) \in Phases
      /\ rev \in Revisions
    BY DEF PassesSound, Hashes, Comparing, Phases, Revisions
<1>3. q \in PassRecord /\ q.old = {} /\ q.found = [pass[p].found EXCEPT ![h] = rev]
    BY <1>2 DEF PassRecord
<1>4. \A x \in Hashes : Runs(q.found[x], x)
    BY <1>2, <1>3 DEF Sound, Runs, PassRecord
<1>5. Sound(q)
    BY <1>3, <1>4 DEF Sound
<1> HIDE DEF q
<1> QED
    BY <1>1, <1>3, <1>5, PassBecomes

\* A pass that is over is sound ...
LEMMA FinishSound ==
    ASSUME PassesSound, NEW p \in Passes, Finish(p) PROVE PassesSound'
<1>1. (IF p = Loop THEN "idle" ELSE "over") \in Phases
    BY DEF Phases
<1> QED
    BY <1>1, IdleSound, PassBecomes DEF Finish

\* ... those that a restart ends are ...
LEMMA RestartSound == ASSUME PassesSound, Restart PROVE PassesSound'
    BY IdleSound DEF Restart, PassesSound, Sound, Phases

\* ... and those that fail.
LEMMA FailSound ==
    ASSUME PassesSound, NEW p \in Passes, Fail(p) PROVE PassesSound'
<1>1. (IF p = Loop THEN "list" ELSE "failed") \in Phases
    BY DEF Phases
<1>2. CASE p = Loop /\ ~done
    BY <1>2, RestartSound DEF Fail
<1>3. CASE ~(p = Loop /\ ~done)
    BY <1>1, <1>3, IdleSound, PassBecomes DEF Fail
<1> QED
    BY <1>2, <1>3

\* A time to live changes no revision.
LEMMA ExpiredSound == ASSUME RedisSound, NEW keys, Expired(keys) PROVE RedisSound'
    BY DEF RedisSound, Expired, Runs

-----------------------------------------------------------------------------
(* The steps of the database and of Redis *)

\* The revision of a row that is registered like the environment runs what its hash
\* stands for.
LEMMA ReuseSound ==
    ASSUME Inv, NEW p \in Passes, Reuse(p) PROVE PassesSound'
<1>1. PICK env \in First(pass[p].todo) :
        \E row \in GetDefinition(env) : UpToDate(env, row) /\ Keep(p, env, row.rev)
    BY DEF Reuse
<1>2. PICK row \in GetDefinition(env) : UpToDate(env, row) /\ Keep(p, env, row.rev)
    BY <1>1
<1>3. env \in Environments
    BY DEF First, Inv, PassesSound, PassRecord
<1>4. row.rev \in Environments /\ row.register = HashRegisterDefinition(row.rev)
    BY DEF GetDefinition, Inv, RowsSound, Holds, Row
<1>5. HashOvverideDefinition(row.rev) = HashOvverideDefinition(env)
    BY <1>2, <1>3, <1>4, RegisteredAlike DEF UpToDate
<1> QED
    BY <1>2, <1>3, <1>4, <1>5, KeepSound DEF Inv

\* The row that will be replaced is of the family and schema of the environment.
LEMMA RegisterSound ==
    ASSUME Inv, NEW p \in Passes, Register(p) PROVE PassesSound'
<1>1. PICK env \in First(pass[p].todo) :
        \E old \in {{row.register} : row \in {r \in GetDefinition(env) : ~UpToDate(env, r)}}
                   \cup (IF GetDefinition(env) = {} THEN {{}} ELSE {}) :
           pass' = [pass EXCEPT ![p] = [@ EXCEPT !.phase = "save", !.env = {env}, !.old = old]]
    BY DEF Register
<1>2. PICK old \in {{row.register} : row \in {r \in GetDefinition(env) : ~UpToDate(env, r)}}
                   \cup (IF GetDefinition(env) = {} THEN {{}} ELSE {}) :
        pass' = [pass EXCEPT ![p] = [@ EXCEPT !.phase = "save", !.env = {env}, !.old = old]]
    BY <1>1
<1>3. env \in Environments
    BY DEF First, Inv, PassesSound, PassRecord
<1>4. /\ old \subseteq Registers
      /\ \A register \in old : \E e \in Environments :
            /\ HashRegisterDefinition(e) = register
            /\ e.family = env.family /\ e.schema = env.schema
    BY DEF GetDefinition, Inv, RowsSound, Holds, Row
<1> DEFINE q == [pass[p] EXCEPT !.phase = "save", !.env = {env}, !.old = old]
<1>5. pass[p] \in PassRecord /\ Sound(pass[p])
    BY DEF Inv, PassesSound
<1>6. q \in PassRecord
    BY <1>3, <1>4, <1>5 DEF PassRecord, Phases
<1>7. q.found = pass[p].found /\ q.env = {env} /\ q.old = old
    BY <1>5 DEF PassRecord
<1>8. pass' = [pass EXCEPT ![p] = q]
    BY <1>2
<1> HIDE DEF q
<1>9. Sound(q)
    BY <1>4, <1>5, <1>7 DEF Sound
<1> QED
    BY <1>6, <1>8, <1>9, PassBecomes DEF Inv

\* A row that is inserted holds a revision of its own family.
LEMMA InsertSound ==
    ASSUME RowsSound, NEW env \in Environments, InsertDefinition(env) PROVE RowsSound'
<1> DEFINE row == [family |-> env.family, schema |-> env.schema,
                   register |-> HashRegisterDefinition(env),
                   override |-> HashOvverideDefinition(env), rev |-> env]
<1>1. row \in Row /\ Holds(row)
    BY DEF Row, Holds, Registers, Hashes
<1>2. rows' = rows \cup {row}
    BY DEF InsertDefinition
<1> HIDE DEF row
<1> QED
    BY <1>1, <1>2 DEF RowsSound

\* The row that is touched has the family of the environment that replaces it.
LEMMA RefreshSound ==
    ASSUME RowsSound, NEW env \in Environments, NEW old,
           \A register \in old :
              \E e \in Environments : /\ HashRegisterDefinition(e) = register
                                     /\ e.family = env.family /\ e.schema = env.schema,
           RefreshTag(env, old)
    PROVE  RowsSound'
<1> DEFINE new(row) == IF row \in Touched(old)
                       THEN [row EXCEPT !.register = HashRegisterDefinition(env),
                                        !.override = HashOvverideDefinition(env), !.rev = env]
                       ELSE row
<1>1. rows' = {new(row) : row \in rows}
    BY DEF RefreshTag
<1>2. ASSUME NEW row \in rows PROVE new(row) \in Row /\ Holds(new(row))
    <2>1. row \in Row /\ Holds(row)
        BY <1>2 DEF RowsSound
    <2>2. CASE row \in Touched(old)
        <3>1. PICK e \in Environments :
                /\ HashRegisterDefinition(e) = row.register
                /\ e.family = env.family /\ e.schema = env.schema
            BY <2>2 DEF Touched
        <3>2. row.family = env.family /\ row.schema = env.schema
            BY <2>1, <3>1, RegisteredAlike DEF Holds, Row, HashRegisterDefinition
        <3>3. new(row) \in Row
            BY <2>1, <2>2 DEF Row, Registers, Hashes
        <3>4. /\ new(row).register = HashRegisterDefinition(env) /\ new(row).rev = env
              /\ new(row).family = row.family /\ new(row).schema = row.schema
            BY <2>1, <2>2 DEF Row
        <3> QED
            BY <3>2, <3>3, <3>4 DEF Holds
    <2>3. CASE row \notin Touched(old)
        BY <2>1, <2>3
    <2> QED
        BY <2>2, <2>3
<1> HIDE DEF new
<1> QED
    BY <1>1, <1>2 DEF RowsSound

\* A revision that is saved is paired with its own hash, and put into a row of its
\* family.
LEMMA SaveSound ==
    ASSUME Inv, NEW p \in Passes, Save(p) PROVE PassesSound' /\ RowsSound'
<1>1. PICK env \in pass[p].env :
        /\ IF pass[p].old = {} THEN InsertDefinition(env) ELSE RefreshTag(env, pass[p].old)
        /\ Keep(p, env, env)
    BY DEF Save
<1>2. pass[p] \in PassRecord /\ Sound(pass[p])
    BY DEF Inv, PassesSound
<1>3. env \in Environments
    BY <1>2 DEF PassRecord
<1>4. PassesSound'
    BY <1>1, <1>3, KeepSound DEF Inv
<1>5. CASE pass[p].old = {}
    BY <1>1, <1>3, <1>4, <1>5, InsertSound DEF Inv
<1>6. CASE pass[p].old # {}
    BY <1>1, <1>2, <1>3, <1>4, <1>6, RefreshSound DEF Inv, Sound
<1> QED
    BY <1>4, <1>5, <1>6

\* What is written was paired before.
LEMMA WriteSound ==
    ASSUME Inv, NEW p \in Passes, NEW h \in Hashes, Write(p, h)
    PROVE  PassesSound' /\ RedisSound'
<1>1. pass[p] \in PassRecord /\ Sound(pass[p])
    BY DEF Inv, PassesSound
<1>2. pass[p].found[h] \in Revisions /\ Runs(pass[p].found[h], h)
    BY <1>1 DEF PassRecord, Sound
<1>3. RedisSound'
    BY <1>2 DEF Write, Written, Inv, RedisSound, Runs
<1>4. CASE Finish(p)
    BY <1>3, <1>4, FinishSound DEF Inv
<1>5. CASE pass' = [pass EXCEPT ![p] = [@ EXCEPT !.found[h] = NoRevision]]
    <2> DEFINE q == [pass[p] EXCEPT !.found[h] = NoRevision]
    <2>1. q \in PassRecord
        BY <1>1 DEF PassRecord, Revisions
    <2>2. /\ q.old = pass[p].old /\ q.env = pass[p].env
          /\ q.found = [pass[p].found EXCEPT ![h] = NoRevision]
        BY <1>1 DEF PassRecord
    <2>3. \A x \in Hashes : Runs(q.found[x], x)
        BY <1>1, <2>2 DEF Sound, Runs, PassRecord
    <2>4. pass' = [pass EXCEPT ![p] = q]
        BY <1>5
    <2> HIDE DEF q
    <2>5. Sound(q)
        BY <1>1, <2>2, <2>3 DEF Sound
    <2> QED
        BY <1>3, <2>1, <2>4, <2>5, PassBecomes DEF Inv
<1> QED
    BY <1>3, <1>4, <1>5 DEF Write

\* A pass goes on, with keys that do not matter here.
LEMMA PhaseSound ==
    ASSUME PassesSound, NEW p \in Passes, NEW phase \in Phases, NEW keys \in SUBSET Hashes,
           pass' = [pass EXCEPT ![p] = [@ EXCEPT !.phase = phase, !.keys = keys]]
    PROVE  PassesSound'
<1> DEFINE q == [pass[p] EXCEPT !.phase = phase, !.keys = keys]
<1>1. pass[p] \in PassRecord /\ Sound(pass[p])
    BY DEF PassesSound
<1>2. q \in PassRecord
    BY <1>1 DEF PassRecord
<1>3. q.found = pass[p].found /\ q.old = pass[p].old /\ q.env = pass[p].env
    BY <1>1 DEF PassRecord
<1> HIDE DEF q
<1>4. Sound(q)
    BY <1>1, <1>3 DEF Sound
<1> QED
    BY <1>2, <1>4, PassBecomes DEF q

\* What does not change stays sound.
LEMMA Unchanged ==
    /\ PassesSound /\ UNCHANGED pass => PassesSound'
    /\ RowsSound /\ UNCHANGED rows => RowsSound'
    /\ RedisSound /\ UNCHANGED redis => RedisSound'
    /\ RouterSound /\ UNCHANGED router => RouterSound'
    BY DEF PassesSound, RowsSound, RedisSound, RouterSound, redis, router

\* No step pairs a hash with a revision of another.
LEMMA InvNext == Inv /\ [Next]_vars => Inv'
<1> SUFFICES ASSUME Inv, [Next]_vars PROVE Inv'
    OBVIOUS
<1>0. PassesSound /\ RowsSound /\ RedisSound /\ RouterSound /\ published \in Listings
    BY DEF Inv
<1>1. CASE ListForRefresh
    <2>1. PICK images \in Images(conf) : Begin(Loop, images, Comparing(EnvsOf(images)))
        BY <1>1 DEF ListForRefresh
    <2>2. Comparing(EnvsOf(images)) \in Phases /\ Loop \in Passes
        BY DEF Comparing, Phases, Passes
    <2> QED
        BY <1>0, <1>1, <2>1, <2>2, BeginSound, Unchanged DEF ListForRefresh, Inv
<1>2. CASE ListForUpdate
    <2>1. PICK images \in Images(conf) : Begin(Loop, images, "keys")
        BY <1>2 DEF ListForUpdate
    <2>2. "keys" \in Phases /\ Loop \in Passes
        BY DEF Phases, Passes
    <2> QED
        BY <1>0, <1>2, <2>1, <2>2, BeginSound, Unchanged DEF ListForUpdate, Inv
<1>3. CASE Wake
    <2>1. Loop \in Passes /\ pass[Loop] \in PassRecord /\ Sound(pass[Loop])
        BY <1>0 DEF Passes, PassesSound
    <2> DEFINE q == [pass[Loop] EXCEPT !.phase = "list"]
    <2>2. q \in PassRecord
        BY <2>1 DEF PassRecord, Phases
    <2>3. q.found = pass[Loop].found /\ q.old = pass[Loop].old /\ q.env = pass[Loop].env
        BY <2>1 DEF PassRecord
    <2>4. pass' = [pass EXCEPT ![Loop] = q]
        BY <1>3 DEF Wake
    <2> HIDE DEF q
    <2>5. Sound(q)
        BY <2>1, <2>3 DEF Sound
    <2>6. PassesSound'
        BY <1>0, <2>1, <2>2, <2>4, <2>5, PassBecomes
    <2> QED
        BY <1>0, <1>3, <2>6, Unchanged DEF Wake, Inv
<1>4. ASSUME NEW p \in Passes, RefreshDefinitions(p) PROVE Inv'
    <2>1. PICK c \in Configurations \cup {conf} : \E images \in Images(c) : Begin(p, images, "keys")
        BY <1>4 DEF RefreshDefinitions
    <2>2. PICK images \in Images(c) : Begin(p, images, "keys")
        BY <2>1
    <2>3. "keys" \in Phases
        BY DEF Phases
    <2> QED
        BY <1>0, <1>4, <2>2, <2>3, BeginSound, Unchanged DEF RefreshDefinitions, Inv
<1>5. ASSUME NEW p \in Passes, Pass(p) PROVE Inv'
    <2>1. CASE ReadKeys(p)
        <3>1. Visible \in SUBSET Hashes /\ "expire" \in Phases
            BY <1>0 DEF Visible, RedisSound, Phases
        <3> QED
            BY <1>0, <2>1, <3>1, PhaseSound, Unchanged DEF ReadKeys, Inv
    <2>2. CASE ExpireAll(p)
        <3>1. Comparing(pass[p].todo) \in Phases /\ {} \in SUBSET Hashes
            BY DEF Comparing, Phases
        <3> QED
            BY <1>0, <2>2, <3>1, PhaseSound, ExpiredSound, Unchanged DEF ExpireAll, Inv
    <2>3. CASE Reuse(p)
        BY <1>0, <2>3, ReuseSound, Unchanged DEF Reuse, Inv
    <2>4. CASE Register(p)
        BY <1>0, <2>4, RegisterSound, Unchanged DEF Register, Inv
    <2>5. CASE Save(p)
        BY <1>0, <2>5, SaveSound, Unchanged DEF Save, Inv
    <2>6. CASE SaveConflicts(p)
        BY <1>0, <2>6, FailSound, Unchanged DEF SaveConflicts, Inv
    <2>7. CASE WriteNothing(p)
        BY <1>0, <2>7, FinishSound, Unchanged DEF WriteNothing, Inv
    <2>8. ASSUME NEW h \in Hashes, Write(p, h) PROVE Inv'
        BY <1>0, <2>8, WriteSound, Unchanged DEF Write, Inv
    <2> QED
        BY <1>5, <2>1, <2>2, <2>3, <2>4, <2>5, <2>6, <2>7, <2>8 DEF Pass
<1>6. ASSUME NEW p \in Passes, PassFails(p) PROVE Inv'
    <2>1. RedisSound'
        BY <1>0, <1>6, ExpiredSound, Unchanged DEF PassFails
    <2> QED
        BY <1>0, <1>6, <2>1, FailSound, Unchanged DEF PassFails, Inv
<1>7. ASSUME NEW h \in Hashes, ExpireKey(h) PROVE Inv'
    <2>1. RedisSound'
        BY <1>0, <1>7 DEF ExpireKey, RedisSound, NoRecord, Revisions, Runs
    <2> QED
        BY <1>0, <1>7, <2>1, Unchanged DEF ExpireKey, Inv
<1>8. ASSUME NEW r \in Routers, RouterReady(r) \/ Scan(r) PROVE Inv'
    BY <1>0, <1>8, Unchanged DEF RouterReady, Scan, RouterSound, Inv
<1>9. ASSUME NEW r \in Routers, ActualizeDefinitionsMap(r) PROVE Inv'
    <2>1. RouterSound'
        BY <1>0, <1>9 DEF ActualizeDefinitionsMap, RouterSound, RedisSound, Revisions, Runs
    <2> QED
        BY <1>0, <1>9, <2>1, Unchanged DEF ActualizeDefinitionsMap, Inv
<1>10. CASE Publish
    <2>1. published' \in Listings
        BY <1>0, <1>10, CatalogueAssumption DEF Publish, CatalogueAssumption
    <2> QED
        BY <1>0, <1>10, <2>1, Unchanged DEF Publish, Inv
<1>11. CASE ServiceCrash
    BY <1>0, <1>11, RestartSound, Unchanged DEF ServiceCrash, Inv
<1>12. CASE UNCHANGED vars
    BY <1>0, <1>12, Unchanged DEF vars, redis, router, Inv
<1> QED
    BY <1>1, <1>2, <1>3, <1>4, <1>5, <1>6, <1>7, <1>8, <1>9, <1>10, <1>11, <1>12 DEF Next

\* Wherever a hash is paired with a revision, that revision runs the containers the
\* hash stands for: rows that are found by family and schema, reused and replaced by
\* overlapping passes, never make it to Redis or to a router under another hash
\* (definitions.go:57, definitionmap.go:18).
THEOREM HashedRevisions == Spec => []RevisionsRunTheirHash
<1>1. Init => Inv
    BY InvInit
<1>2. Inv /\ [Next]_vars => Inv'
    BY InvNext
<1>3. Inv => RevisionsRunTheirHash
    BY InvImplies
<1> QED
    BY <1>1, <1>2, <1>3, PTL DEF Spec

-----------------------------------------------------------------------------
(* What a step does to the passes *)

\* No other pass changes.
Others(p) == \A q \in Passes \ {p} : pass'[q] = pass[q]

\* It has the same images, and is as alone as before.
SameWork(p) ==
    /\ pass'[p].images = pass[p].images
    /\ pass'[p].alone = pass[p].alone /\ pass'[p].unchanged = pass[p].unchanged

\* It has got no further through its list.
SameList(p) ==
    /\ SameWork(p)
    /\ pass'[p].todo = pass[p].todo /\ pass'[p].env = pass[p].env /\ pass'[p].old = pass[p].old

\* It has its list, and the others are not alone any more.
Begins(p, images, phase) ==
    LET alone == \A q \in Passes \ {p} : ~Busy(q)
    IN  /\ phase \in {"keys", "compare", "write"}
        /\ phase # "keys" => phase = Comparing(EnvsOf(images))
        /\ images \subseteq Universe /\ EnvsOf(images) \subseteq Environments
        /\ pass'[p].phase = phase /\ pass'[p].images = images /\ pass'[p].todo = EnvsOf(images)
        /\ pass'[p].env = {} /\ pass'[p].found = NoDefinitions
        /\ pass'[p].alone = alone /\ pass'[p].unchanged = (alone /\ settled = {images})
        /\ \A q \in Passes \ {p} :
              /\ pass'[q].phase = pass[q].phase /\ pass'[q].images = pass[q].images
              /\ pass'[q].todo = pass[q].todo /\ pass'[q].env = pass[q].env
              /\ pass'[q].old = pass[q].old /\ pass'[q].found = pass[q].found
              /\ ~pass'[q].alone /\ ~pass'[q].unchanged
        /\ settled' = IF alone THEN settled \cap {images} ELSE {}

\* It is over, and has nothing left.
Ends(p) ==
    /\ pass'[p].phase \notin {"keys", "expire", "compare", "save", "write"}
    /\ pass'[p].images = {} /\ pass'[p].todo = {} /\ pass'[p].env = {}
    /\ ~pass'[p].alone /\ ~pass'[p].unchanged

\* An environment is done with.
Keeps(p, env) ==
    /\ Others(p) /\ SameWork(p)
    /\ env \in pass[p].todo
    /\ pass'[p].phase = Comparing(pass[p].todo \ {env})
    /\ pass'[p].todo = pass[p].todo \ {env} /\ pass'[p].env = {}
    /\ \E rev \in Environments :
          pass'[p].found = [pass[p].found EXCEPT ![HashOvverideDefinition(env)] = rev]

\* What a pass has left to do, wherever it is.
Consistent(q) ==
    /\ q.todo \subseteq EnvsOf(q.images)
    /\ q.env \subseteq First(q.todo)
    /\ q.phase = "write" => q.todo = {}
    /\ q.phase \in {"keys", "expire"} => q.todo = EnvsOf(q.images)
    /\ q.phase = "save" => \E env \in Environments : q.env = {env}

Checked == \A p \in Passes : Consistent(pass[p])

\* A pass that has its list begins, and disturbs the others.
LEMMA BeginEffect ==
    ASSUME Inv, NEW p \in Passes, NEW c, NEW images \in Images(c),
           NEW phase \in {"keys", "compare", "write"},
           phase # "keys" => phase = Comparing(EnvsOf(images)),
           Begin(p, images, phase)
    PROVE  Begins(p, images, phase)
<1>1. images \subseteq Universe /\ EnvsOf(images) \subseteq Environments
    BY Listing DEF Inv
<1>2. ASSUME NEW q \in Passes \ {p}
      PROVE  /\ pass'[q].phase = pass[q].phase /\ pass'[q].images = pass[q].images
             /\ pass'[q].todo = pass[q].todo /\ pass'[q].env = pass[q].env
             /\ pass'[q].old = pass[q].old /\ pass'[q].found = pass[q].found
             /\ ~pass'[q].alone /\ ~pass'[q].unchanged
    <2>1. pass[q] \in PassRecord
        BY DEF Inv, PassesSound
    <2>2. pass'[q] = [pass[q] EXCEPT !.alone = FALSE, !.unchanged = FALSE]
        BY DEF Begin
    <2> QED
        BY <2>1, <2>2 DEF PassRecord
<1>3. LET alone == \A q \in Passes \ {p} : ~Busy(q)
      IN  /\ pass'[p] = [Idle(phase) EXCEPT !.images = images, !.todo = EnvsOf(images),
                                           !.alone = alone, !.unchanged = alone /\ settled = {images}]
          /\ settled' = IF alone THEN settled \cap {images} ELSE {}
    BY DEF Begin
<1>4. /\ pass'[p].phase = phase /\ pass'[p].images = images /\ pass'[p].todo = EnvsOf(images)
      /\ pass'[p].env = {} /\ pass'[p].found = NoDefinitions
      /\ pass'[p].alone = (\A q \in Passes \ {p} : ~Busy(q))
      /\ pass'[p].unchanged = ((\A q \in Passes \ {p} : ~Busy(q)) /\ settled = {images})
    BY <1>3, Zenon DEF Idle
<1> QED
    BY <1>1, <1>2, <1>3, <1>4 DEF Begins

\* A pass that is idle again is over.
LEMMA IdleEnds ==
    ASSUME NEW p \in Passes, NEW phase \in {"boot", "list", "idle", "over", "failed"},
           pass'[p] = Idle(phase)
    PROVE  Ends(p)
    BY DEF Ends, Idle

\* After its last write the pass is over, and remembered if it ran alone.
LEMMA FinishEffect ==
    ASSUME Inv, NEW p \in Passes, Finish(p)
    PROVE  /\ Ends(p) /\ Others(p)
           /\ settled' = IF pass[p].alone THEN {pass[p].images} ELSE settled
<1>1. pass' = [pass EXCEPT ![p] = Idle(IF p = Loop THEN "idle" ELSE "over")]
    BY DEF Finish
<1>2. pass'[p] = Idle(IF p = Loop THEN "idle" ELSE "over") /\ Others(p)
    BY <1>1 DEF Inv, PassesSound, Others
<1> QED
    BY <1>2, IdleEnds DEF Finish


\* The pass p goes on to another phase with what it had.
Moves(p, phase) ==
    /\ Others(p) /\ SameList(p)
    /\ pass'[p].phase = phase /\ pass'[p].found = pass[p].found

\* It is about to register an environment.
Registering(p, env, old) ==
    /\ Others(p) /\ SameWork(p)
    /\ env \in First(pass[p].todo)
    /\ old \in {{row.register} : row \in {r \in GetDefinition(env) : ~UpToDate(env, r)}}
               \cup (IF GetDefinition(env) = {} THEN {{}} ELSE {})
    /\ pass'[p].phase = "save" /\ pass'[p].todo = pass[p].todo
    /\ pass'[p].env = {env} /\ pass'[p].old = old /\ pass'[p].found = pass[p].found

\* One of its definitions is written.
Wrote(p, h) ==
    /\ Others(p) /\ SameList(p)
    /\ pass'[p].phase = pass[p].phase
    /\ pass'[p].found = [pass[p].found EXCEPT ![h] = NoRevision]

\* When a pass fails it is over; if it was the first of the process, all are.
LEMMA FailEffect ==
    ASSUME Inv, NEW p \in Passes, Fail(p)
    PROVE  /\ Ends(p) /\ due' = {}
           /\ \A q \in Passes : Ends(q) \/ pass'[q] = pass[q]
<1>1. ASSUME p = Loop, ~done
      PROVE  /\ pass'[Loop] = Idle("boot") /\ due' = {}
             /\ \A q \in Passes \ {Loop} : pass'[q] = Idle("failed") \/ pass'[q] = pass[q]
    BY <1>1 DEF Fail, Restart, Passes
<1>2. ASSUME ~(p = Loop /\ ~done)
      PROVE  /\ pass' = [pass EXCEPT ![p] = Idle(IF p = Loop THEN "list" ELSE "failed")]
             /\ due' = {}
    BY <1>2 DEF Fail
<1>3. ASSUME ~(p = Loop /\ ~done)
      PROVE  pass'[p] = Idle(IF p = Loop THEN "list" ELSE "failed") /\ Others(p)
    BY <1>2, <1>3 DEF Inv, PassesSound, Others
<1> QED
    BY <1>1, <1>2, <1>3, IdleEnds DEF Others

\* When the process restarts every pass that was under way is over.
LEMMA RestartEffect ==
    ASSUME Inv, Restart
    PROVE  due' = {} /\ \A q \in Passes : Ends(q) \/ pass'[q] = pass[q]
<1>1. ASSUME NEW q \in Passes PROVE Ends(q) \/ pass'[q] = pass[q]
    BY IdleEnds DEF Restart
<1> QED
    BY <1>1 DEF Restart

\* ExpireAll changes nothing but where the pass is, and the keys it holds.
LEMMA MoveEffect ==
    ASSUME Inv, NEW p \in Passes, NEW phase \in Phases, NEW keys \in SUBSET Hashes,
           pass' = [pass EXCEPT ![p] = [@ EXCEPT !.phase = phase, !.keys = keys]]
    PROVE  Moves(p, phase)
<1>1. pass[p] \in PassRecord /\ pass'[p] = [pass[p] EXCEPT !.phase = phase, !.keys = keys]
    BY DEF Inv, PassesSound
<1>2. pass'[p].phase = phase
    BY <1>1 DEF PassRecord
<1>3. SameWork(p)
    BY <1>1 DEF PassRecord, SameWork
<1>4. /\ pass'[p].todo = pass[p].todo /\ pass'[p].env = pass[p].env
      /\ pass'[p].old = pass[p].old /\ pass'[p].found = pass[p].found
    BY <1>1 DEF PassRecord
<1> QED
    BY <1>2, <1>3, <1>4 DEF Moves, SameList, Others, Inv, PassesSound

\* A pass that knows a definition is done with its environment.
LEMMA KeepEffect ==
    ASSUME Inv, NEW p \in Passes, NEW env \in pass[p].todo, NEW rev \in Environments,
           Keep(p, env, rev)
    PROVE  Keeps(p, env)
<1> DEFINE left == pass[p].todo \ {env}
           h == HashOvverideDefinition(env)
<1>1. /\ pass[p] \in PassRecord
      /\ pass'[p] = [pass[p] EXCEPT !.phase = Comparing(left), !.todo = left, !.env = {}, !.old = {},
                                    !.found[h] = rev]
      /\ Others(p)
    BY DEF Inv, PassesSound, Keep, Others
<1>2. /\ SameWork(p) /\ pass'[p].phase = Comparing(left) /\ pass'[p].todo = left
      /\ pass'[p].env = {} /\ pass'[p].found = [pass[p].found EXCEPT ![h] = rev]
    BY <1>1 DEF PassRecord, SameWork
<1> QED
    BY <1>1, <1>2 DEF Keeps

\* An environment whose row is up to date is done with.
LEMMA ReuseEffect ==
    ASSUME Inv, NEW p \in Passes, Reuse(p)
    PROVE  \E env \in pass[p].todo : Keeps(p, env) /\ \E row \in GetDefinition(env) : UpToDate(env, row)
<1>1. PICK env \in First(pass[p].todo) :
        \E row \in GetDefinition(env) : UpToDate(env, row) /\ Keep(p, env, row.rev)
    BY DEF Reuse
<1>2. PICK row \in GetDefinition(env) : UpToDate(env, row) /\ Keep(p, env, row.rev)
    BY <1>1
<1>3. env \in pass[p].todo /\ row.rev \in Environments
    BY <1>2 DEF First, GetDefinition, Inv, RowsSound, Row
<1> QED
    BY <1>2, <1>3, KeepEffect

\* Of an environment that is registered the pass keeps the row it replaces.
LEMMA RegisterEffect ==
    ASSUME Inv, NEW p \in Passes, Register(p)
    PROVE  \E env \in First(pass[p].todo) : \E old \in SUBSET Registers : Registering(p, env, old)
<1>1. PICK env \in First(pass[p].todo) :
        \E old \in {{row.register} : row \in {r \in GetDefinition(env) : ~UpToDate(env, r)}}
                   \cup (IF GetDefinition(env) = {} THEN {{}} ELSE {}) :
           pass' = [pass EXCEPT ![p] = [@ EXCEPT !.phase = "save", !.env = {env}, !.old = old]]
    BY DEF Register
<1>2. PICK old \in {{row.register} : row \in {r \in GetDefinition(env) : ~UpToDate(env, r)}}
                   \cup (IF GetDefinition(env) = {} THEN {{}} ELSE {}) :
        pass' = [pass EXCEPT ![p] = [@ EXCEPT !.phase = "save", !.env = {env}, !.old = old]]
    BY <1>1
<1>3. pass[p] \in PassRecord /\ Others(p)
      /\ pass'[p] = [pass[p] EXCEPT !.phase = "save", !.env = {env}, !.old = old]
    BY <1>2 DEF Inv, PassesSound, Others
<1>4. old \in SUBSET Registers
    BY DEF GetDefinition, Inv, RowsSound, Row
<1>5. /\ SameWork(p) /\ pass'[p].phase = "save" /\ pass'[p].todo = pass[p].todo
      /\ pass'[p].env = {env} /\ pass'[p].old = old /\ pass'[p].found = pass[p].found
    BY <1>3 DEF PassRecord, SameWork
<1>6. Registering(p, env, old)
    BY <1>3, <1>5 DEF Registering
<1> QED
    BY <1>4, <1>6

\* A revision that is saved replaces the row that was read, or is inserted.
LEMMA SaveEffect ==
    ASSUME Inv, Checked, NEW p \in Passes, Save(p)
    PROVE  \E env \in pass[p].env :
              /\ Keeps(p, env) /\ ~Conflict(env, pass[p].old)
              /\ IF pass[p].old = {} THEN InsertDefinition(env) ELSE RefreshTag(env, pass[p].old)
<1>1. PICK env \in pass[p].env :
        /\ ~Conflict(env, pass[p].old)
        /\ IF pass[p].old = {} THEN InsertDefinition(env) ELSE RefreshTag(env, pass[p].old)
        /\ Keep(p, env, env)
    BY DEF Save
<1>2. env \in Environments /\ env \in pass[p].todo
    BY DEF Inv, PassesSound, PassRecord, Checked, Consistent, First
<1> QED
    BY <1>1, <1>2, KeepEffect

\* A write leaves the pass with one definition less, or is its last.
LEMMA WriteEffect ==
    ASSUME Inv, NEW p \in Passes, NEW h \in Hashes, Write(p, h)
    PROVE  \/ Wrote(p, h) /\ UNCHANGED settled
           \/ /\ Ends(p) /\ Others(p)
              /\ settled' = IF pass[p].alone THEN {pass[p].images} ELSE settled
              /\ \A other \in Hashes \ {h} : pass[p].found[other] = NoRevision
<1>1. CASE Finish(p) /\ \A other \in Hashes \ {h} : pass[p].found[other] = NoRevision
    BY <1>1, FinishEffect
<1>2. CASE pass' = [pass EXCEPT ![p] = [@ EXCEPT !.found[h] = NoRevision]] /\ UNCHANGED settled
    <2>1. /\ pass[p] \in PassRecord /\ Others(p)
          /\ pass'[p] = [pass[p] EXCEPT !.found[h] = NoRevision]
        BY <1>2 DEF Inv, PassesSound, Others
    <2>2. /\ SameList(p) /\ pass'[p].phase = pass[p].phase
          /\ pass'[p].found = [pass[p].found EXCEPT ![h] = NoRevision]
        BY <2>1 DEF PassRecord, SameList, SameWork
    <2> QED
        BY <1>2, <2>1, <2>2 DEF Wrote
<1> QED
    BY <1>1, <1>2 DEF Write

-----------------------------------------------------------------------------
(* What a pass has left to do *)

\* A pass that is done with an environment: the rest is as it was.
LEMMA KeepsChecked ==
    ASSUME Inv, Checked, NEW p \in Passes, NEW env, Keeps(p, env)
    PROVE  Checked'
<1>1. Consistent(pass'[p])
    BY DEF Keeps, SameWork, Checked, Consistent, Comparing, First
<1>2. \A q \in Passes : Consistent(pass'[q])
    BY <1>1 DEF Keeps, Others, Checked
<1> QED
    BY <1>2 DEF Checked, Consistent

\* A pass that is over has nothing left to do.
LEMMA EndsChecked ==
    ASSUME Checked, \A q \in Passes : Ends(q) \/ pass'[q] = pass[q]
    PROVE  Checked'
<1>1. ASSUME NEW q \in Passes PROVE Consistent(pass'[q])
    <2>1. CASE Ends(q)
        BY <2>1 DEF Ends, Consistent, EnvsOf
    <2>2. CASE pass'[q] = pass[q]
        BY <2>2 DEF Checked
    <2> QED
        BY <1>1, <2>1, <2>2
<1> QED
    BY <1>1 DEF Checked, Consistent

\* A list that was just read is complete.
LEMMA BeginsChecked ==
    ASSUME Checked, NEW p \in Passes, NEW images, NEW phase, Begins(p, images, phase)
    PROVE  Checked'
<1>1. Consistent(pass'[p])
    BY DEF Begins, Consistent, Comparing
<1>2. ASSUME NEW q \in Passes \ {p} PROVE Consistent(pass'[q])
    BY DEF Begins, Consistent, Checked
<1> QED
    BY <1>1, <1>2 DEF Checked, Consistent

\* ExpireAll leaves the list as it was.
LEMMA MovesChecked ==
    ASSUME Checked, NEW p \in Passes, NEW phase, Moves(p, phase),
           \/ phase = "expire" /\ pass[p].phase = "keys"
           \/ phase = Comparing(pass[p].todo)
           \/ phase = "list"
    PROVE  Checked'
<1>1. Consistent(pass'[p])
    BY DEF Moves, SameList, SameWork, Checked, Consistent, Comparing
<1>2. \A q \in Passes : Consistent(pass'[q])
    BY <1>1 DEF Moves, Others, Checked
<1> QED
    BY <1>2 DEF Checked, Consistent

\* What is registered is the first of the list.
LEMMA RegisteringChecked ==
    ASSUME Inv, Checked, NEW p \in Passes, NEW env, NEW old, Registering(p, env, old)
    PROVE  Checked'
<1>1. env \in Environments /\ {env} \subseteq First(pass[p].todo)
    BY DEF Registering, First, Inv, PassesSound, PassRecord
<1>2. Consistent(pass'[p])
    BY <1>1 DEF Registering, SameWork, Checked, Consistent
<1>3. \A q \in Passes : Consistent(pass'[q])
    BY <1>2 DEF Registering, Others, Checked
<1> QED
    BY <1>3 DEF Checked, Consistent

\* A pass that writes has been through its list.
LEMMA WroteChecked ==
    ASSUME Checked, NEW p \in Passes, NEW h, Wrote(p, h)
    PROVE  Checked'
<1>1. Consistent(pass'[p])
    BY DEF Wrote, SameList, SameWork, Checked, Consistent
<1>2. \A q \in Passes : Consistent(pass'[q])
    BY <1>1 DEF Wrote, Others, Checked
<1> QED
    BY <1>2 DEF Checked, Consistent

\* No step of a pass leaves it inconsistent.
LEMMA PassChecked ==
    ASSUME Inv, Checked, NEW p \in Passes, Pass(p)
    PROVE  Checked'
<1>1. CASE ReadKeys(p)
    <2>1. Visible \in SUBSET Hashes /\ "expire" \in Phases
        BY DEF Inv, Visible, RedisSound, Phases
    <2>2. Moves(p, "expire")
        BY <1>1, <2>1, MoveEffect DEF ReadKeys
    <2> QED
        BY <1>1, <2>2, MovesChecked DEF ReadKeys
<1>2. CASE ExpireAll(p)
    <2>1. Comparing(pass[p].todo) \in Phases
        BY DEF Comparing, Phases
    <2>2. Moves(p, Comparing(pass[p].todo))
        BY <1>2, <2>1, MoveEffect DEF ExpireAll
    <2> QED
        BY <2>2, MovesChecked
<1>3. CASE Reuse(p)
    BY <1>3, ReuseEffect, KeepsChecked
<1>4. CASE Register(p)
    BY <1>4, RegisterEffect, RegisteringChecked
<1>5. CASE Save(p)
    BY <1>5, SaveEffect, KeepsChecked
<1>6. CASE SaveConflicts(p)
    BY <1>6, FailEffect, EndsChecked DEF SaveConflicts
<1>7. CASE WriteNothing(p)
    BY <1>7, FinishEffect, EndsChecked DEF WriteNothing, Others
<1>8. ASSUME NEW h \in Hashes, Write(p, h) PROVE Checked'
    <2>1. CASE Wrote(p, h)
        BY <2>1, WroteChecked
    <2>2. CASE Ends(p) /\ Others(p)
        BY <2>2, EndsChecked DEF Others
    <2> QED
        BY <1>8, <2>1, <2>2, WriteEffect
<1> QED
    BY <1>1, <1>2, <1>3, <1>4, <1>5, <1>6, <1>7, <1>8 DEF Pass

\* environmentRefresh begins a pass, and all of its definitions are due.
LEMMA ForRefresh ==
    ASSUME Inv, ListForRefresh
    PROVE  \E images \in Images(conf) :
              /\ Begins(Loop, images, Comparing(EnvsOf(images)))
              /\ due' = due \cup HashesOf(images)
<1>1. PICK images \in Images(conf) :
        Begin(Loop, images, Comparing(EnvsOf(images))) /\ due' = due \cup HashesOf(images)
    BY DEF ListForRefresh
<1>2. Comparing(EnvsOf(images)) \in {"keys", "compare", "write"} /\ Loop \in Passes
    BY DEF Comparing, Passes
<1> QED
    BY <1>1, <1>2, BeginEffect

\* environmentUpdate begins a pass with ExpireAll.
LEMMA ForUpdate ==
    ASSUME Inv, ListForUpdate
    PROVE  \E images \in Images(conf) : Begins(Loop, images, "keys")
    BY BeginEffect DEF ListForUpdate, Passes

\* RefreshDefinitions does, with the configuration it then keeps.
LEMMA ForRequest ==
    ASSUME Inv, NEW p \in Passes, RefreshDefinitions(p)
    PROVE  \E c \in Configurations \cup {conf} :
              conf' = c /\ \E images \in Images(c) : Begins(p, images, "keys")
<1>1. PICK c \in Configurations \cup {conf} :
        conf' = c /\ \E images \in Images(c) : Begin(p, images, "keys")
    BY DEF RefreshDefinitions
<1>2. ASSUME NEW images \in Images(c), Begin(p, images, "keys") PROVE Begins(p, images, "keys")
    BY <1>2, BeginEffect
<1> QED
    BY <1>1, <1>2

\* The loop wakes up to list images, with nothing else changed.
LEMMA WakeEffect ==
    ASSUME Inv, Wake
    PROVE  Moves(Loop, "list")
<1>1. /\ Loop \in Passes /\ pass[Loop] \in PassRecord
      /\ pass'[Loop] = [pass[Loop] EXCEPT !.phase = "list"] /\ Others(Loop)
    BY DEF Passes, Wake, Inv, PassesSound, Others
<1>2. SameList(Loop) /\ pass'[Loop].phase = "list" /\ pass'[Loop].found = pass[Loop].found
    BY <1>1 DEF PassRecord, SameList, SameWork
<1> QED
    BY <1>1, <1>2 DEF Moves

\* No step leaves a pass inconsistent.
LEMMA CheckedNext ==
    ASSUME Inv, Checked, [Next]_vars
    PROVE  Checked'
<1>1. CASE ListForRefresh
    BY <1>1, ForRefresh, BeginsChecked DEF Passes
<1>2. CASE ListForUpdate
    BY <1>2, ForUpdate, BeginsChecked DEF Passes
<1>3. CASE Wake
    BY <1>3, WakeEffect, MovesChecked DEF Passes
<1>4. ASSUME NEW p \in Passes, RefreshDefinitions(p) PROVE Checked'
    BY <1>4, ForRequest, BeginsChecked
<1>5. ASSUME NEW p \in Passes, Pass(p) PROVE Checked'
    BY <1>5, PassChecked
<1>6. ASSUME NEW p \in Passes, PassFails(p) PROVE Checked'
    BY <1>6, FailEffect, EndsChecked DEF PassFails
<1>7. CASE ServiceCrash
    BY <1>7, RestartEffect, EndsChecked DEF ServiceCrash
<1>8. ASSUME UNCHANGED pass PROVE Checked'
    BY <1>8 DEF Checked, Consistent
<1> QED
    BY <1>1, <1>2, <1>3, <1>4, <1>5, <1>6, <1>7, <1>8
       DEF Next, vars, ExpireKey, RouterReady, Scan, ActualizeDefinitionsMap, Publish

\* At the start no pass has anything to do.
LEMMA CheckedInit == Init => Checked
    BY DEF Init, Checked, Consistent, Idle

-----------------------------------------------------------------------------
(* Types *)

\* The state that is not of the passes, the tables or the definitions.
Scalars ==
    /\ conf \in Configurations \cup {Configured}
    /\ done \in BOOLEAN
    /\ ready \subseteq Routers
    /\ scanned \in [Routers -> SUBSET SUBSET Hashes]
    /\ due \subseteq Hashes
    /\ quota \in Nat

\* The small state is of its type at the start ...
LEMMA ScalarsInit == Init => Scalars
<1> SUFFICES ASSUME Init PROVE Scalars
    OBVIOUS
<1>1. quota \in Nat
    BY CatalogueAssumption DEF CatalogueAssumption, Init
<1>2. scanned \in [Routers -> SUBSET SUBSET Hashes]
    BY DEF Init
<1> QED
    BY <1>1, <1>2 DEF Init, Scalars

\* The hashes of images are hashes.
LEMMA HashesListed ==
    ASSUME NEW images, EnvsOf(images) \subseteq Environments
    PROVE  HashesOf(images) \subseteq Hashes
    BY DEF HashesOf, Hashes

\* A failure keeps the configuration or goes back to the first one.
LEMMA FailScalars ==
    ASSUME Scalars, NEW p \in Passes, Fail(p)
    PROVE  conf' \in Configurations \cup {Configured} /\ done' \in BOOLEAN /\ due' = {}
    BY DEF Scalars, Fail, Restart

\* ... those of a pass among them.
LEMMA PassScalars ==
    ASSUME Inv, Scalars, NEW p \in Passes, Pass(p)
    PROVE  Scalars'
<1>1. CASE ReadKeys(p) \/ Reuse(p) \/ Register(p) \/ Save(p)
    BY <1>1 DEF Scalars, ReadKeys, Reuse, Register, Save, router, history
<1>2. CASE ExpireAll(p)
    <2>1. HashesOf(pass[p].images) \subseteq Hashes
        BY DEF Inv, PassesSound, PassRecord, HashesOf, Hashes, EnvsOf, Environments
    <2> QED
        BY <1>2, <2>1 DEF Scalars, ExpireAll, router
<1>3. CASE SaveConflicts(p)
    BY <1>3, FailScalars DEF Scalars, SaveConflicts, router
<1>4. CASE WriteNothing(p)
    BY <1>4 DEF Scalars, WriteNothing, Finish, router
<1>5. ASSUME NEW h \in Hashes, Write(p, h) PROVE Scalars'
    BY <1>5 DEF Scalars, Write, Finish, router
<1> QED
    BY <1>1, <1>2, <1>3, <1>4, <1>5 DEF Pass

\* ... and after every step ...
LEMMA ScalarsNext ==
    ASSUME Inv, Scalars, [Next]_vars
    PROVE  Scalars'
<1>0. Disturb => quota' \in Nat
    BY DEF Disturb, Scalars
<1>1. CASE ListForRefresh
    <2>1. PICK images \in Images(conf) : Listed(conf, images) /\ due' = due \cup HashesOf(images)
        BY <1>1 DEF ListForRefresh
    <2>2. HashesOf(images) \subseteq Hashes
        BY Listing, HashesListed DEF Inv
    <2>3. quota' \in Nat
        BY <1>0, <2>1 DEF Listed, Scalars
    <2> QED
        BY <1>1, <2>1, <2>2, <2>3 DEF Scalars, ListForRefresh, router
<1>2. CASE ListForUpdate
    <2>1. quota' \in Nat
        BY <1>0, <1>2 DEF ListForUpdate, Listed, Scalars
    <2> QED
        BY <1>2, <2>1 DEF Scalars, ListForUpdate, router
<1>3. CASE Wake
    BY <1>3 DEF Wake, Scalars, router, history
<1>4. ASSUME NEW p \in Passes, RefreshDefinitions(p) PROVE Scalars'
    BY <1>0, <1>4 DEF RefreshDefinitions, Scalars, router
<1>5. ASSUME NEW p \in Passes, Pass(p) PROVE Scalars'
    BY <1>5, PassScalars
<1>6. ASSUME NEW p \in Passes, PassFails(p) PROVE Scalars'
    BY <1>0, <1>6, FailScalars DEF PassFails, Scalars, router
<1>7. ASSUME NEW h \in Hashes, ExpireKey(h) PROVE Scalars'
    BY <1>7 DEF ExpireKey, Scalars, router, history
<1>8. ASSUME NEW r \in Routers, RouterReady(r) PROVE Scalars'
    BY <1>8 DEF RouterReady, Scalars, history
<1>9. ASSUME NEW r \in Routers, Scan(r) PROVE Scalars'
    BY <1>9 DEF Scan, Scalars, history, Inv, RedisSound
<1>10. ASSUME NEW r \in Routers, ActualizeDefinitionsMap(r) PROVE Scalars'
    BY <1>10 DEF ActualizeDefinitionsMap, Scalars, history
<1>11. CASE Publish
    BY <1>0, <1>11 DEF Publish, Scalars, router, history
<1>12. CASE ServiceCrash
    BY <1>0, <1>12 DEF ServiceCrash, Restart, Scalars, router
<1>13. CASE UNCHANGED vars
    BY <1>13 DEF vars, Scalars
<1> QED
    BY <1>1, <1>2, <1>3, <1>4, <1>5, <1>6, <1>7, <1>8, <1>9, <1>10, <1>11, <1>12, <1>13 DEF Next

\* Together these are the types of the state.
LEMMA TypesHold == Inv /\ Checked /\ Scalars => TypeOK
<1> SUFFICES ASSUME Inv, Checked, Scalars PROVE TypeOK
    OBVIOUS
<1>1. ASSUME NEW p \in Passes
      PROVE  /\ DOMAIN pass[p] = DOMAIN Idle("idle")
             /\ pass[p].phase \in Phases
             /\ pass[p].images \subseteq Universe /\ pass[p].todo \subseteq EnvsOf(pass[p].images)
             /\ pass[p].env \subseteq First(pass[p].todo)
             /\ pass[p].phase = "write" => pass[p].todo = {}
             /\ pass[p].found \in [Hashes -> Revisions]
             /\ pass[p].keys \subseteq Hashes
    <2>1. pass[p] \in PassRecord /\ Consistent(pass[p])
        BY DEF Inv, PassesSound, Checked
    <2>2. DOMAIN pass[p] = DOMAIN Idle("idle")
        BY <2>1 DEF PassRecord, Idle
    <2> QED
        BY <2>1, <2>2 DEF PassRecord, Consistent
<1>2. /\ published \in Listings /\ store \in [Hashes -> [rev : Revisions, ttl : BOOLEAN]]
      /\ members \subseteq Hashes /\ known \in [Routers -> [Hashes -> Revisions]]
    BY DEF Inv, RedisSound, RouterSound
<1> QED
    BY <1>1, <1>2 DEF Scalars, TypeOK

\* The state of the service, of Redis and of the routers is of its type; of the images
\* it has listed a pass is at the first that is left, and has none left when it writes.
THEOREM TypesCorrect == Spec => []TypeOK
<1>1. Init => Inv /\ Checked /\ Scalars
    BY InvInit, CheckedInit, ScalarsInit
<1>2. Inv /\ Checked /\ Scalars /\ [Next]_vars => (Inv /\ Checked /\ Scalars)'
    BY InvNext, CheckedNext, ScalarsNext
<1>3. Inv /\ Checked /\ Scalars => TypeOK
    BY TypesHold
<1> QED
    BY <1>1, <1>2, <1>3, PTL DEF Spec

-----------------------------------------------------------------------------
(* What is due is there or will be written *)

\* The definition of a hash is in Redis, for good.
Safe(h) == h \in Visible /\ ~store[h].ttl

\* The pass has found it, or still has to look for it.
Pending(p, h) ==
    /\ pass[p].phase \in {"compare", "save", "write"}
    /\ \/ pass[p].found[h] # NoRevision
       \/ \E e \in pass[p].todo : HashOvverideDefinition(e) = h

\* What is due is in Redis, or some pass will put it there.
DueDone == \A h \in due : Safe(h) \/ \E p \in Passes : Pending(p, h)

\* A pass that begins takes nothing from what others have to write, and has its own
\* list to write unless it expires keys first.
LEMMA BeginsPending ==
    ASSUME Inv, NEW p \in Passes, NEW images, NEW phase, Begins(p, images, phase),
           pass[p].phase \in {"boot", "list", "idle"}
    PROVE  /\ \A q \in Passes, h \in Hashes : Pending(q, h) => Pending(q, h)'
           /\ phase # "keys" => \A h \in HashesOf(images) : Pending(p, h)'
<1>1. ASSUME NEW q \in Passes, NEW h \in Hashes, Pending(q, h) PROVE Pending(q, h)'
    <2>1. q # p
        BY <1>1 DEF Pending
    <2> QED
        BY <1>1, <2>1 DEF Pending, Begins
<1>2. ASSUME phase # "keys", NEW h \in HashesOf(images) PROVE Pending(p, h)'
    <2>1. \E e \in EnvsOf(images) : HashOvverideDefinition(e) = h
        BY DEF HashesOf
    <2> QED
        BY <1>2, <2>1 DEF Pending, Begins
<1> QED
    BY <1>1, <1>2

\* What the pass is done with is found.
LEMMA KeepsPending ==
    ASSUME Inv, NEW p \in Passes, NEW env, Keeps(p, env), pass[p].phase \in {"compare", "save"},
           NEW q \in Passes, NEW h \in Hashes, Pending(q, h)
    PROVE  Pending(q, h)'
<1>1. CASE q # p
    BY <1>1 DEF Pending, Keeps, Others
<1>2. CASE q = p
    <2>1. pass'[p].phase \in {"compare", "save", "write"}
        BY DEF Keeps, Comparing
    <2>2. PICK rev \in Environments :
            pass'[p].found = [pass[p].found EXCEPT ![HashOvverideDefinition(env)] = rev]
        BY DEF Keeps
    <2>3. rev # NoRevision
        BY RevisionAssumption
    <2>4. pass[p].found \in [Hashes -> Revisions]
        BY DEF Inv, PassesSound, PassRecord
    <2>5. CASE h = HashOvverideDefinition(env)
        <3>1. pass'[p].found[h] # NoRevision
            BY <2>2, <2>3, <2>4, <2>5
        <3> QED
            BY <1>2, <2>1, <3>1 DEF Pending
    <2>6. CASE h # HashOvverideDefinition(env) /\ pass[p].found[h] # NoRevision
        <3>1. pass'[p].found[h] # NoRevision
            BY <2>2, <2>4, <2>6
        <3> QED
            BY <1>2, <2>1, <3>1 DEF Pending
    <2>7. CASE h # HashOvverideDefinition(env) /\ pass[p].found[h] = NoRevision
        <3>1. PICK e \in pass[p].todo : HashOvverideDefinition(e) = h
            BY <1>2, <2>7 DEF Pending
        <3>2. e \in pass'[p].todo
            BY <2>7, <3>1 DEF Keeps
        <3> QED
            BY <1>2, <2>1, <3>1, <3>2 DEF Pending
    <2> QED
        BY <2>5, <2>6, <2>7
<1> QED
    BY <1>1, <1>2

\* What a pass writes is there for good, and so is what was there before; what it has
\* not written yet is still pending.
LEMMA WriteDue ==
    ASSUME Inv, Checked, DueDone, NEW p \in Passes, NEW h \in Hashes, Write(p, h), due \subseteq Hashes
    PROVE  DueDone'
<1>1. /\ pass[p] \in PassRecord /\ pass[p].phase = "write" /\ pass[p].todo = {}
      /\ pass[p].found[h] # NoRevision
    BY DEF Write, Inv, PassesSound, Checked, Consistent
<1>2. /\ store' = [store EXCEPT ![h] = Written(pass[p].found[h])] /\ members' = members \cup {h}
      /\ due' = due
    BY DEF Write
<1>3. store \in [Hashes -> [rev : Revisions, ttl : BOOLEAN]] /\ members \subseteq Hashes
    BY DEF Inv, RedisSound
<1>4. Safe(h)'
    <2>1. store'[h] = Written(pass[p].found[h]) /\ h \in members'
        BY <1>2, <1>3
    <2>2. store'[h].rev = pass[p].found[h] /\ ~store'[h].ttl
        BY <2>1 DEF Written
    <2> QED
        BY <1>1, <2>1, <2>2 DEF Safe, Visible
<1>5. ASSUME NEW x \in Hashes, x # h, Safe(x) PROVE Safe(x)'
    BY <1>2, <1>3, <1>5 DEF Safe, Visible
<1>6. ASSUME NEW x \in Hashes, x # h, NEW q \in Passes, Pending(q, x) PROVE Pending(q, x)'
    <2>1. CASE Wrote(p, h)
        <3>1. CASE q # p
            BY <1>6, <2>1, <3>1 DEF Pending, Wrote, Others
        <3>2. CASE q = p
            BY <1>1, <1>6, <2>1, <3>2 DEF Pending, Wrote, SameList, PassRecord
        <3> QED
            BY <3>1, <3>2
    <2>2. CASE Ends(p) /\ Others(p) /\ \A other \in Hashes \ {h} : pass[p].found[other] = NoRevision
        <3>1. q # p
            BY <1>1, <1>6, <2>2 DEF Pending
        <3> QED
            BY <1>6, <2>2, <3>1 DEF Pending, Others
    <2> QED
        BY <2>1, <2>2, WriteEffect
<1>7. ASSUME NEW x \in due PROVE Safe(x)' \/ \E q \in Passes : Pending(q, x)'
    BY <1>4, <1>5, <1>6, <1>7 DEF DueDone
<1> QED
    BY <1>2, <1>7 DEF DueDone

\* Nothing that is there or pending is lost.
LEMMA StaysDue ==
    ASSUME DueDone, due \subseteq Hashes, UNCHANGED <<redis, due>>,
           \A q \in Passes, h \in Hashes : Pending(q, h) => Pending(q, h)'
    PROVE  DueDone'
<1>1. \A h \in Hashes : Safe(h) => Safe(h)'
    BY DEF Safe, Visible, redis
<1> QED
    BY <1>1 DEF DueDone

\* A pass that is not looking for definitions yet has none pending.
LEMMA MovesPending ==
    ASSUME NEW p \in Passes, NEW phase, Moves(p, phase),
           pass[p].phase \notin {"compare", "save", "write"},
           NEW q \in Passes, NEW h \in Hashes, Pending(q, h)
    PROVE  Pending(q, h)'
    BY DEF Moves, Others, Pending

\* No step of a pass loses a definition that is due.
LEMMA PassDue ==
    ASSUME Inv, Checked, Scalars, DueDone, NEW p \in Passes, Pass(p)
    PROVE  DueDone'
<1>0. due \subseteq Hashes
    BY DEF Scalars
<1>1. CASE ReadKeys(p)
    <2>1. Visible \in SUBSET Hashes /\ "expire" \in Phases
        BY DEF Inv, Visible, RedisSound, Phases
    <2>2. Moves(p, "expire")
        BY <1>1, <2>1, MoveEffect DEF ReadKeys
    <2>3. \A q \in Passes, h \in Hashes : Pending(q, h) => Pending(q, h)'
        BY <1>1, <2>2, MovesPending DEF ReadKeys
    <2> QED
        BY <1>0, <1>1, <2>3, StaysDue DEF ReadKeys, history
<1>2. CASE ExpireAll(p)
    <2>1. Comparing(pass[p].todo) \in Phases
        BY DEF Comparing, Phases
    <2>2. Moves(p, Comparing(pass[p].todo)) /\ due' = HashesOf(pass[p].images)
        BY <1>2, <2>1, MoveEffect DEF ExpireAll
    <2>3. pass[p].todo = EnvsOf(pass[p].images)
        BY <1>2 DEF ExpireAll, Checked, Consistent
    <2>4. ASSUME NEW h \in due' PROVE Pending(p, h)'
        <3>1. \E e \in pass[p].todo : HashOvverideDefinition(e) = h
            BY <2>2, <2>3 DEF HashesOf
        <3> QED
            BY <2>2, <3>1 DEF Moves, SameList, Pending, Comparing
    <2> QED
        BY <2>4 DEF DueDone
<1>3. CASE Reuse(p)
    <2>1. PICK env \in pass[p].todo : Keeps(p, env)
        BY <1>3, ReuseEffect
    <2>2. \A q \in Passes, h \in Hashes : Pending(q, h) => Pending(q, h)'
        BY <1>3, <2>1, KeepsPending DEF Reuse
    <2> QED
        BY <1>0, <1>3, <2>2, StaysDue DEF Reuse, history
<1>4. CASE Register(p)
    <2>1. \E env, old : Registering(p, env, old)
        BY <1>4, RegisterEffect
    <2>2. \A q \in Passes, h \in Hashes : Pending(q, h) => Pending(q, h)'
        BY <2>1 DEF Registering, Others, Pending
    <2> QED
        BY <1>0, <1>4, <2>2, StaysDue DEF Register, history
<1>5. CASE Save(p)
    <2>1. PICK env \in pass[p].env : Keeps(p, env)
        BY <1>5, SaveEffect
    <2>2. \A q \in Passes, h \in Hashes : Pending(q, h) => Pending(q, h)'
        BY <1>5, <2>1, KeepsPending DEF Save
    <2> QED
        BY <1>0, <1>5, <2>2, StaysDue DEF Save, history
<1>6. CASE SaveConflicts(p)
    <2>1. due' = {}
        BY <1>6, FailEffect DEF SaveConflicts
    <2> QED
        BY <2>1 DEF DueDone
<1>7. CASE WriteNothing(p)
    <2>1. Others(p)
        BY <1>7, FinishEffect DEF WriteNothing
    <2>2. pass[p].todo = {} /\ \A h \in Hashes : pass[p].found[h] = NoRevision
        BY <1>7 DEF WriteNothing, Checked, Consistent, NoDefinitions
    <2>3. \A q \in Passes, h \in Hashes : Pending(q, h) => Pending(q, h)'
        BY <2>1, <2>2 DEF Others, Pending
    <2> QED
        BY <1>0, <1>7, <2>3, StaysDue DEF WriteNothing
<1>8. ASSUME NEW h \in Hashes, Write(p, h) PROVE DueDone'
    BY <1>0, <1>8, WriteDue
<1> QED
    BY <1>1, <1>2, <1>3, <1>4, <1>5, <1>6, <1>7, <1>8 DEF Pass

\* Nor does any other step.
LEMMA DueNext ==
    ASSUME Inv, Checked, Scalars, DueDone, [Next]_vars
    PROVE  DueDone'
<1>0. due \subseteq Hashes
    BY DEF Scalars
<1>1. CASE ListForRefresh
    <2>1. PICK images \in Images(conf) :
            /\ Begins(Loop, images, Comparing(EnvsOf(images)))
            /\ due' = due \cup HashesOf(images)
        BY <1>1, ForRefresh
    <2>2. Loop \in Passes /\ pass[Loop].phase = "boot" /\ UNCHANGED redis
        BY <1>1 DEF ListForRefresh, Passes
    <2>3. \A q \in Passes, h \in Hashes : Pending(q, h) => Pending(q, h)'
        BY <2>1, <2>2, BeginsPending
    <2>4. Comparing(EnvsOf(images)) # "keys"
        BY DEF Comparing
    <2>5. \A h \in HashesOf(images) : Pending(Loop, h)'
        BY <2>1, <2>2, <2>4, BeginsPending
    <2>6. \A h \in Hashes : Safe(h) => Safe(h)'
        BY <2>2 DEF Safe, Visible, redis
    <2> QED
        BY <1>0, <2>1, <2>2, <2>3, <2>5, <2>6 DEF DueDone
<1>2. CASE ListForUpdate
    <2>1. PICK images \in Images(conf) : Begins(Loop, images, "keys")
        BY <1>2, ForUpdate
    <2>2. Loop \in Passes /\ pass[Loop].phase = "list" /\ UNCHANGED <<redis, due>>
        BY <1>2 DEF ListForUpdate, Passes
    <2>3. \A q \in Passes, h \in Hashes : Pending(q, h) => Pending(q, h)'
        BY <2>1, <2>2, BeginsPending
    <2> QED
        BY <1>0, <2>2, <2>3, StaysDue
<1>3. CASE Wake
    <2>1. Moves(Loop, "list")
        BY <1>3, WakeEffect
    <2>2. \A q \in Passes, h \in Hashes : Pending(q, h) => Pending(q, h)'
        BY <1>3, <2>1, MovesPending DEF Wake, Passes
    <2> QED
        BY <1>0, <1>3, <2>2, StaysDue DEF Wake, history
<1>4. ASSUME NEW p \in Passes, RefreshDefinitions(p) PROVE DueDone'
    <2>1. \E images : Begins(p, images, "keys")
        BY <1>4, ForRequest
    <2>2. pass[p].phase = "idle" /\ UNCHANGED <<redis, due>>
        BY <1>4 DEF RefreshDefinitions
    <2>3. \A q \in Passes, h \in Hashes : Pending(q, h) => Pending(q, h)'
        BY <2>1, <2>2, BeginsPending
    <2> QED
        BY <1>0, <2>2, <2>3, StaysDue
<1>5. ASSUME NEW p \in Passes, Pass(p) PROVE DueDone'
    BY <1>5, PassDue
<1>6. ASSUME NEW p \in Passes, PassFails(p) PROVE DueDone'
    <2>1. due' = {}
        BY <1>6, FailEffect DEF PassFails
    <2> QED
        BY <2>1 DEF DueDone
<1>7. CASE ServiceCrash
    <2>1. due' = {}
        BY <1>7, RestartEffect DEF ServiceCrash
    <2> QED
        BY <2>1 DEF DueDone
<1>8. ASSUME NEW h \in Hashes, ExpireKey(h) PROVE DueDone'
    <2>1. /\ store[h].ttl /\ store' = [store EXCEPT ![h] = NoRecord]
          /\ UNCHANGED <<pass, members, due>>
        BY <1>8 DEF ExpireKey, history
    <2>2. \A x \in Hashes : Safe(x) => Safe(x)'
        BY <2>1 DEF Safe, Visible, Inv, RedisSound
    <2>3. \A q \in Passes, x \in Hashes : Pending(q, x) => Pending(q, x)'
        BY <2>1 DEF Pending
    <2> QED
        BY <1>0, <2>1, <2>2, <2>3 DEF DueDone
<1>9. ASSUME UNCHANGED <<pass, redis, due>> PROVE DueDone'
    BY <1>9 DEF DueDone, Pending, Safe, Visible, redis
<1> QED
    BY <1>1, <1>2, <1>3, <1>4, <1>5, <1>6, <1>7, <1>8, <1>9
       DEF Next, vars, RouterReady, Scan, ActualizeDefinitionsMap, Publish, redis, history

\* However passes of the loop and of refreshes overlap, and whatever fails or restarts,
\* a definition that a pass had to write, and that no other pass has taken out of the
\* set since, is there to be read and has no time to live once all passes are over
\* (definitionmap.go:30, definitions.go:47).
THEOREM WrittenStays == Spec => []WrittenDefinitionsStay
<1> DEFINE Everything == Inv /\ Checked /\ Scalars /\ DueDone
<1>1. Init => Everything
    BY InvInit, CheckedInit, ScalarsInit DEF Init, DueDone
<1>2. Everything /\ [Next]_vars => Everything'
    BY InvNext, CheckedNext, ScalarsNext, DueNext
<1>3. Everything => WrittenDefinitionsStay
    BY DEF DueDone, Pending, Busy, Safe, WrittenDefinitionsStay
<1> HIDE DEF Everything
<1> QED
    BY <1>1, <1>2, <1>3, PTL DEF Spec

-----------------------------------------------------------------------------
(* Passes that run alone *)

\* No two environments of the images have one family and schema: each has a row of its own.
Distinct(images) ==
    \A d, e \in EnvsOf(images) : d.family = e.family /\ d.schema = e.schema => d = e

\* Of the images a listing keeps, no two generate one family and schema: the twins that
\* do are where the dedicated image has taken the place of the other.
LEMMA ListedDistinct ==
    ASSUME OnlyTwinsShareFamilies, NEW listed \in Listings, NEW some \in SUBSET listed
    PROVE  Distinct(preferAutoUpdateRepositories(some))
<1> DEFINE kept == preferAutoUpdateRepositories(some)
<1>1. SUFFICES ASSUME NEW i \in kept, NEW j \in kept, NEW d \in ImageEnvs[i], NEW e \in ImageEnvs[j],
                      d.family = e.family, d.schema = e.schema
               PROVE  d = e
    BY DEF Distinct, EnvsOf
<1>2. i \in some /\ j \in some
    BY DEF preferAutoUpdateRepositories
<1>3. ~Twin(i, j) /\ ~Twin(j, i)
    BY <1>2 DEF Twin, preferAutoUpdateRepositories
<1> QED
    BY <1>1, <1>2, <1>3 DEF OnlyTwinsShareFamilies

\* So does everything ListImages may return.
LEMMA ImagesDistinct ==
    ASSUME OnlyTwinsShareFamilies, published \in Listings, NEW c, NEW images \in Images(c)
    PROVE  Distinct(images)
<1>1. \E some \in SUBSET published : images = preferAutoUpdateRepositories(some)
    BY DEF Images, ListImages, ListImagesWithoutPublic
<1> QED
    BY <1>1, ListedDistinct

\* The environment has a row that is up to date.
Registered(e) == \E row \in GetDefinition(e) : UpToDate(e, row)
AllRegistered(images) == \A e \in EnvsOf(images) : Registered(e)

\* A pass that is alone is the only one under way.
Solo == \A p \in Passes :
    /\ pass[p].unchanged => pass[p].alone
    /\ pass[p].alone => Busy(p) /\ \A q \in Passes \ {p} : ~Busy(q)

\* What a pass has done that runs alone, and what it may still find.
Advanced(p) ==
    /\ Distinct(pass[p].images)
    /\ pass[p].alone =>
          \A e \in EnvsOf(pass[p].images) \ pass[p].todo : Registered(e)
    /\ pass[p].unchanged => AllRegistered(pass[p].images)
    /\ pass[p].phase = "save" =>
          /\ \A e \in pass[p].env : HashRegisterDefinition(e) \notin pass[p].old
          /\ pass[p].alone /\ pass[p].old # {} => Touched(pass[p].old) # {}
          /\ pass[p].unchanged => pass[p].old # {}

\* The images of a pass that ran alone stay registered while no other pass runs, and the
\* one that runs is over the same images.
Settled ==
    \A images \in settled :
        /\ settled = {images}
        /\ AllRegistered(images)
        /\ \A p \in Passes : Busy(p) => pass[p].unchanged /\ pass[p].images = images

Alone == Solo /\ Settled /\ \A p \in Passes : Advanced(p)

\* An update that finds the images of the one before registers nothing.
LEMMA SaveIsBlocked ==
    ASSUME Inv, Checked, Alone, NEW p \in Passes, pass[p].unchanged, Save(p)
    PROVE  FALSE
<1>1. PICK env \in pass[p].env : ~Conflict(env, pass[p].old) /\ pass[p].phase = "save"
    BY DEF Save
<1>2. env \in EnvsOf(pass[p].images)
    BY DEF Checked, Consistent, First
<1>3. Registered(env)
    BY <1>2 DEF Alone, Advanced, AllRegistered
<1>4. PICK row \in rows : row.register = HashRegisterDefinition(env)
    BY <1>3 DEF Registered, GetDefinition, UpToDate
<1>5. /\ HashRegisterDefinition(env) \notin pass[p].old
      /\ Touched(pass[p].old) # {}
    BY <1>1 DEF Alone, Solo, Advanced
<1>6. row \notin Touched(pass[p].old)
    BY <1>4, <1>5 DEF Touched
<1> QED
    BY <1>1, <1>4, <1>5, <1>6 DEF Conflict

\* A row that is inserted makes its environment registered, and no other less so.
LEMMA InsertRegisters ==
    ASSUME NEW env, InsertDefinition(env)
    PROVE  Registered(env)' /\ \A e : Registered(e) => Registered(e)'
<1> DEFINE row == [family |-> env.family, schema |-> env.schema,
                   register |-> HashRegisterDefinition(env),
                   override |-> HashOvverideDefinition(env), rev |-> env]
<1>1. rows' = rows \cup {row}
    BY DEF InsertDefinition
<1>2. row.family = env.family /\ row.schema = env.schema /\ row.register = HashRegisterDefinition(env)
    OBVIOUS
<1> HIDE DEF row
<1>3. Registered(env)'
    BY <1>1, <1>2 DEF Registered, GetDefinition, UpToDate
<1>4. ASSUME NEW e, Registered(e) PROVE Registered(e)'
    BY <1>1, <1>4 DEF Registered, GetDefinition, UpToDate
<1> QED
    BY <1>3, <1>4

\* A row that is replaced is of the family and schema of what replaces it.
LEMMA TouchedAlike ==
    ASSUME Inv, NEW p \in Passes, NEW env \in pass[p].env, NEW row \in Touched(pass[p].old)
    PROVE  row.family = env.family /\ row.schema = env.schema
<1>1. pass[p] \in PassRecord /\ Sound(pass[p]) /\ row \in Row /\ Holds(row)
    BY DEF Inv, PassesSound, RowsSound, Touched
<1>2. PICK e \in Environments :
        /\ HashRegisterDefinition(e) = row.register
        /\ e.family = env.family /\ e.schema = env.schema
    BY <1>1 DEF Sound, Touched
<1>3. e.family = row.rev.family /\ e.schema = row.rev.schema
    BY <1>1, <1>2, RegisteredAlike DEF Holds, Row, HashRegisterDefinition
<1> QED
    BY <1>1, <1>2, <1>3 DEF Holds

\* A row that is replaced makes its environment registered, and only those of its
\* family and schema less so.
LEMMA RefreshRegisters ==
    ASSUME Inv, NEW p \in Passes, NEW env \in pass[p].env, Touched(pass[p].old) # {},
           RefreshTag(env, pass[p].old)
    PROVE  /\ Registered(env)'
           /\ \A e : Registered(e) /\ (e.family # env.family \/ e.schema # env.schema) => Registered(e)'
<1> DEFINE new(row) == IF row \in Touched(pass[p].old)
                       THEN [row EXCEPT !.register = HashRegisterDefinition(env),
                                        !.override = HashOvverideDefinition(env), !.rev = env]
                       ELSE row
<1>1. rows' = {new(row) : row \in rows}
    BY DEF RefreshTag
<1>2. ASSUME NEW row \in Touched(pass[p].old)
      PROVE  /\ new(row).register = HashRegisterDefinition(env)
             /\ new(row).family = env.family /\ new(row).schema = env.schema
    <2>1. row \in Row
        BY DEF Touched, Inv, RowsSound
    <2>2. row.family = env.family /\ row.schema = env.schema
        BY TouchedAlike
    <2> QED
        BY <2>1, <2>2 DEF Row
<1>3. \A row \in rows : row \notin Touched(pass[p].old) => new(row) = row
    OBVIOUS
<1> HIDE DEF new
<1>4. Registered(env)'
    <2>1. PICK row \in rows : row \in Touched(pass[p].old)
        BY DEF Touched
    <2> QED
        BY <1>1, <1>2, <2>1 DEF Registered, GetDefinition, UpToDate
<1>5. ASSUME NEW e, Registered(e), e.family # env.family \/ e.schema # env.schema
      PROVE  Registered(e)'
    <2>1. PICK row \in rows : row.family = e.family /\ row.schema = e.schema /\ UpToDate(e, row)
        BY <1>5 DEF Registered, GetDefinition
    <2>2. row \notin Touched(pass[p].old)
        BY <1>5, <2>1, TouchedAlike
    <2>3. row \in rows'
        BY <1>1, <1>3, <2>1, <2>2
    <2> QED
        BY <2>1, <2>3 DEF Registered, GetDefinition, UpToDate
<1> QED
    BY <1>4, <1>5

\* Nothing changes for a pass whose list and rows stay.
LEMMA AdvancedStays ==
    ASSUME NEW q \in Passes, Advanced(q), pass'[q] = pass[q], UNCHANGED rows
    PROVE  Advanced(q)'
    BY DEF Advanced, Registered, AllRegistered, GetDefinition, UpToDate, Touched

\* A pass that others do not leave alone.
LEMMA AdvancedDisturbed ==
    ASSUME NEW q \in Passes, Advanced(q),
           pass'[q].images = pass[q].images, pass'[q].phase = pass[q].phase,
           pass'[q].env = pass[q].env, pass'[q].old = pass[q].old,
           ~pass'[q].alone, ~pass'[q].unchanged
    PROVE  Advanced(q)'
    BY DEF Advanced, Distinct

\* Of a pass that is over nothing is known.
LEMMA AdvancedEnds ==
    ASSUME NEW q \in Passes, Ends(q)
    PROVE  Advanced(q)'
    BY DEF Advanced, Ends, Distinct, EnvsOf

\* A pass that begins alone after one that ran alone over the same images finds all of
\* them registered.
LEMMA BeginsAlone ==
    ASSUME Inv, Alone, NEW p \in Passes, NEW images, NEW phase, Begins(p, images, phase),
           ~Busy(p), Distinct(images), UNCHANGED rows
    PROVE  Alone'
<1> DEFINE alone == \A q \in Passes \ {p} : ~Busy(q)
<1>1. /\ pass'[p].alone = alone /\ pass'[p].unchanged = (alone /\ settled = {images})
      /\ settled' = IF alone THEN settled \cap {images} ELSE {}
      /\ pass'[p].images = images /\ pass'[p].todo = EnvsOf(images) /\ Busy(p)'
      /\ pass'[p].phase # "save"
    BY DEF Begins, Busy
<1>2. \A q \in Passes \ {p} : Busy(q)' = Busy(q)
    BY DEF Begins, Busy
<1>3. Solo'
    <2>1. \A q \in Passes \ {p} : ~pass'[q].alone /\ ~pass'[q].unchanged
        BY DEF Begins
    <2> QED
        BY <1>1, <1>2, <2>1 DEF Solo
<1>4. ASSUME NEW I \in settled'
      PROVE  /\ settled' = {I} /\ AllRegistered(I)'
             /\ \A q \in Passes : Busy(q)' => pass'[q].unchanged /\ pass'[q].images = I
    <2>1. alone /\ I = images /\ I \in settled /\ settled' = {I}
        BY <1>1, <1>4
    <2>2. settled = {images} /\ AllRegistered(I)
        BY <2>1 DEF Alone, Settled
    <2>3. pass'[p].unchanged /\ \A q \in Passes \ {p} : ~Busy(q)'
        BY <1>1, <1>2, <2>1, <2>2
    <2>4. AllRegistered(I)'
        BY <2>2 DEF AllRegistered, Registered, GetDefinition, UpToDate
    <2> QED
        BY <1>1, <2>1, <2>3, <2>4
<1>5. Settled'
    BY <1>4 DEF Settled
<1>6. Advanced(p)'
    <2>1. pass'[p].unchanged => AllRegistered(images)
        BY <1>1 DEF Alone, Settled
    <2>2. AllRegistered(images) => AllRegistered(images)'
        BY DEF AllRegistered, Registered, GetDefinition, UpToDate
    <2> QED
        BY <1>1, <2>1, <2>2 DEF Advanced, Distinct
<1>7. ASSUME NEW q \in Passes \ {p} PROVE Advanced(q)'
    <2>1. Advanced(q)
        BY DEF Alone
    <2> QED
        BY <2>1, AdvancedDisturbed DEF Begins
<1> QED
    BY <1>3, <1>5, <1>6, <1>7 DEF Alone

\* Some passes are over, without a trace.
LEMMA EndsAlone ==
    ASSUME Alone, \A q \in Passes : Ends(q) \/ pass'[q] = pass[q], UNCHANGED <<rows, settled>>
    PROVE  Alone'
<1>1. \A q \in Passes : Ends(q) => ~Busy(q)' /\ ~pass'[q].alone /\ ~pass'[q].unchanged
    BY DEF Ends, Busy
<1>2. \A q \in Passes : Busy(q)' => Busy(q) /\ pass'[q] = pass[q]
    BY <1>1 DEF Busy
<1>3. Solo'
    <2>1. ASSUME NEW q \in Passes, pass'[q].alone \/ pass'[q].unchanged
          PROVE  pass'[q] = pass[q]
        BY <1>1, <2>1
    <2> QED
        BY <1>2, <2>1 DEF Alone, Solo, Busy
<1>4. Settled'
    BY <1>2 DEF Alone, Settled, AllRegistered, Registered, GetDefinition, UpToDate
<1>5. ASSUME NEW q \in Passes PROVE Advanced(q)'
    BY AdvancedEnds, AdvancedStays DEF Alone
<1> QED
    BY <1>3, <1>4, <1>5 DEF Alone

\* The pass is over and is the one that ran last.
LEMMA FinishAlone ==
    ASSUME Checked, Alone, NEW p \in Passes, pass[p].phase = "write", Ends(p), Others(p),
           settled' = IF pass[p].alone THEN {pass[p].images} ELSE settled, UNCHANGED rows
    PROVE  Alone'
<1>1. CASE pass[p].alone
    <2>1. ~Busy(p)' /\ ~pass'[p].alone /\ ~pass'[p].unchanged
        BY DEF Ends, Busy
    <2>2. \A q \in Passes : ~Busy(q)'
        BY <1>1, <2>1 DEF Alone, Solo, Busy, Others
    <2>3. Solo'
        BY <2>1, <1>1 DEF Alone, Solo, Others
    <2>4. PICK images : images = pass[p].images
        OBVIOUS
    <2>5. AllRegistered(images)'
        <3>1. pass[p].todo = {}
            BY DEF Checked, Consistent
        <3>2. AllRegistered(images)
            BY <1>1, <2>4, <3>1 DEF Alone, Advanced, AllRegistered
        <3> QED
            BY <3>2 DEF AllRegistered, Registered, GetDefinition, UpToDate
    <2>6. Settled'
        BY <1>1, <2>2, <2>4, <2>5 DEF Settled
    <2>7. \A q \in Passes : Advanced(q)'
        BY AdvancedEnds, AdvancedStays DEF Alone, Others
    <2> QED
        BY <2>3, <2>6, <2>7 DEF Alone
<1>2. CASE ~pass[p].alone
    BY <1>2, EndsAlone DEF Others
<1> QED
    BY <1>1, <1>2

\* The pass goes on with the same list.
LEMMA StillAlone ==
    ASSUME Alone, NEW p \in Passes, Others(p), SameWork(p), Busy(p), Busy(p)',
           UNCHANGED <<rows, settled>>, Advanced(p)'
    PROVE  Alone'
<1>1. Solo'
    BY DEF Alone, Solo, Others, SameWork, Busy
<1>2. Settled'
    BY DEF Alone, Settled, Others, SameWork, Busy, AllRegistered, Registered, GetDefinition, UpToDate
<1>3. \A q \in Passes : Advanced(q)'
    BY AdvancedStays DEF Alone, Others
<1> QED
    BY <1>1, <1>2, <1>3 DEF Alone

\* ExpireAll registers nothing.
LEMMA MovesAlone ==
    ASSUME Alone, NEW p \in Passes, NEW phase \in {"expire", "compare", "write"}, Moves(p, phase),
           Busy(p), UNCHANGED <<rows, settled>>
    PROVE  Alone'
<1>1. Advanced(p)'
    BY DEF Alone, Advanced, Moves, SameList, SameWork, Distinct, AllRegistered, Registered,
        GetDefinition, UpToDate
<1>2. Busy(p)'
    BY DEF Moves, Busy
<1> QED
    BY <1>1, <1>2, StillAlone DEF Moves, SameList

\* An environment whose row is up to date is registered.
LEMMA ReuseAlone ==
    ASSUME Inv, Alone, NEW p \in Passes, Reuse(p)
    PROVE  Alone'
<1>1. PICK env \in pass[p].todo : Keeps(p, env) /\ Registered(env)
    BY ReuseEffect DEF Registered
<1>2. Busy(p) /\ Busy(p)' /\ UNCHANGED <<rows, settled>> /\ pass'[p].phase # "save"
    BY <1>1 DEF Reuse, Busy, Keeps, Comparing, history
<1>3. Advanced(p)'
    <2>1. \A e : Registered(e) => Registered(e)'
        BY <1>2 DEF Registered, GetDefinition, UpToDate
    <2> QED
        BY <1>1, <1>2, <2>1 DEF Alone, Advanced, Keeps, SameWork, Distinct, AllRegistered
<1> QED
    BY <1>1, <1>2, <1>3, StillAlone DEF Keeps

\* A pass that finds a row of another definition can still replace it if it runs alone,
\* for nobody else touches rows.
LEMMA RegisterAlone ==
    ASSUME Inv, Checked, Alone, NEW p \in Passes, Register(p)
    PROVE  Alone'
<1>1. PICK env \in First(pass[p].todo) : \E old \in SUBSET Registers : Registering(p, env, old)
    BY RegisterEffect
<1>2. PICK old \in SUBSET Registers : Registering(p, env, old)
    BY <1>1
<1>3. Busy(p) /\ Busy(p)' /\ UNCHANGED <<rows, settled>>
    BY <1>2 DEF Register, Registering, Busy, history
<1>4. /\ HashRegisterDefinition(env) \notin old
      /\ old # {} => Touched(old)' # {}
      /\ old = {} => GetDefinition(env) = {}
    BY <1>2, <1>3 DEF Registering, UpToDate, Touched, GetDefinition
<1>5. pass[p].unchanged => old # {}
    <2>1. env \in EnvsOf(pass[p].images)
        BY DEF First, Checked, Consistent
    <2> QED
        BY <1>4, <2>1 DEF Alone, Advanced, AllRegistered, Registered
<1>6. Advanced(p)'
    <2>1. \A e : Registered(e) => Registered(e)'
        BY <1>3 DEF Registered, GetDefinition, UpToDate
    <2>2. /\ SameWork(p) /\ pass'[p].todo = pass[p].todo /\ pass'[p].env = {env} /\ pass'[p].old = old
        BY <1>2 DEF Registering
    <2> QED
        BY <1>4, <1>5, <2>1, <2>2 DEF Alone, Advanced, SameWork, Distinct, AllRegistered
<1> QED
    BY <1>2, <1>3, <1>6, StillAlone DEF Registering

\* A pass that runs alone has registered one more environment when it saves, and lost
\* none.
LEMMA SaveAlone ==
    ASSUME Inv, Checked, Alone, NEW p \in Passes, Save(p)
    PROVE  Alone'
<1>1. PICK env \in pass[p].env :
        /\ Keeps(p, env) /\ ~Conflict(env, pass[p].old)
        /\ IF pass[p].old = {} THEN InsertDefinition(env) ELSE RefreshTag(env, pass[p].old)
    BY SaveEffect
<1>2. /\ Busy(p) /\ Busy(p)' /\ settled' = settled /\ pass'[p].phase # "save" /\ pass[p].phase = "save"
      /\ pass'[p].todo = pass[p].todo \ {env}
    BY <1>1 DEF Save, Busy, Keeps, Comparing, history
<1>3. ~pass[p].unchanged
    BY SaveIsBlocked
<1>4. settled = {}
    BY <1>2, <1>3 DEF Alone, Settled
<1>5. \A q \in Passes \ {p} : ~pass[q].alone /\ ~pass[q].unchanged
    BY <1>2 DEF Alone, Solo
<1>6. Solo'
    BY <1>1, <1>2 DEF Alone, Solo, Keeps, Others, SameWork, Busy
<1>7. Settled'
    BY <1>2, <1>4 DEF Settled
<1>8. ASSUME NEW q \in Passes \ {p} PROVE Advanced(q)'
    <2>1. Advanced(q) /\ pass'[q] = pass[q]
        BY <1>1 DEF Alone, Keeps, Others
    <2> QED
        BY <1>5, <2>1, AdvancedDisturbed
<1>9. ASSUME pass[p].alone, NEW e \in EnvsOf(pass[p].images) \ pass'[p].todo
      PROVE  Registered(e)'
    <2>1. /\ Registered(env)'
          /\ Registered(e) /\ (e.family # env.family \/ e.schema # env.schema) => Registered(e)'
        <3>1. CASE pass[p].old = {}
            BY <1>1, <3>1, InsertRegisters
        <3>2. CASE pass[p].old # {}
            <4>1. Touched(pass[p].old) # {}
                BY <1>2, <1>9, <3>2 DEF Alone, Advanced
            <4> QED
                BY <1>1, <3>2, <4>1, RefreshRegisters
        <3> QED
            BY <3>1, <3>2
    <2>2. env \in EnvsOf(pass[p].images)
        BY DEF Checked, Consistent, First
    <2>3. CASE e = env
        BY <2>1, <2>3
    <2>4. CASE e # env
        <3>1. Registered(e)
            BY <1>2, <1>9, <2>4 DEF Alone, Advanced
        <3>2. e.family # env.family \/ e.schema # env.schema
            BY <2>2, <2>4 DEF Alone, Advanced, Distinct
        <3> QED
            BY <2>1, <3>1, <3>2
    <2> QED
        BY <2>3, <2>4
<1>10. Advanced(p)'
    <2>1. SameWork(p) /\ Distinct(pass[p].images)
        BY <1>1 DEF Keeps, Alone, Advanced
    <2> QED
        BY <1>2, <1>3, <1>9, <2>1 DEF Advanced, SameWork, Distinct
<1> QED
    BY <1>6, <1>7, <1>8, <1>10 DEF Alone

\* No step of a pass breaks what is known of those that run alone.
LEMMA PassAlone ==
    ASSUME Inv, Checked, Alone, NEW p \in Passes, Pass(p)
    PROVE  Alone'
<1>1. CASE ReadKeys(p)
    <2>1. Visible \in SUBSET Hashes /\ "expire" \in Phases
        BY DEF Inv, Visible, RedisSound, Phases
    <2>2. Moves(p, "expire")
        BY <1>1, <2>1, MoveEffect DEF ReadKeys
    <2> QED
        BY <1>1, <2>2, MovesAlone DEF ReadKeys, Busy, history
<1>2. CASE ExpireAll(p)
    <2>1. /\ Comparing(pass[p].todo) \in Phases
          /\ Comparing(pass[p].todo) \in {"expire", "compare", "write"}
        BY DEF Comparing, Phases
    <2>2. Moves(p, Comparing(pass[p].todo)) /\ Busy(p) /\ UNCHANGED <<rows, settled>>
        BY <1>2, <2>1, MoveEffect DEF ExpireAll, Busy
    <2> QED
        BY <2>1, <2>2, MovesAlone
<1>3. CASE Reuse(p)
    BY <1>3, ReuseAlone
<1>4. CASE Register(p)
    BY <1>4, RegisterAlone
<1>5. CASE Save(p)
    BY <1>5, SaveAlone
<1>6. CASE SaveConflicts(p)
    BY <1>6, FailEffect, EndsAlone DEF SaveConflicts
<1>7. CASE WriteNothing(p)
    BY <1>7, FinishEffect, FinishAlone DEF WriteNothing
<1>8. ASSUME NEW h \in Hashes, Write(p, h) PROVE Alone'
    <2>1. UNCHANGED rows /\ pass[p].phase = "write"
        BY <1>8 DEF Write
    <2>2. CASE Wrote(p, h) /\ UNCHANGED settled
        <3>1. Advanced(p)'
            BY <2>1, <2>2 DEF Alone, Advanced, Wrote, SameList, SameWork, Distinct,
                AllRegistered, Registered, GetDefinition, UpToDate
        <3>2. Busy(p) /\ Busy(p)'
            BY <2>1, <2>2 DEF Wrote, Busy
        <3> QED
            BY <2>1, <2>2, <3>1, <3>2, StillAlone DEF Wrote, SameList
    <2>3. CASE /\ Ends(p) /\ Others(p)
               /\ settled' = IF pass[p].alone THEN {pass[p].images} ELSE settled
        BY <2>1, <2>3, FinishAlone
    <2> QED
        BY <1>8, <2>2, <2>3, WriteEffect
<1> QED
    BY <1>1, <1>2, <1>3, <1>4, <1>5, <1>6, <1>7, <1>8 DEF Pass

\* Nor does any other step.
LEMMA AloneNext ==
    ASSUME OnlyTwinsShareFamilies, Inv, Checked, Scalars, Alone, [Next]_vars
    PROVE  Alone'
<1>0. \A c \in Configurations \cup {conf} : \A images \in Images(c) : Distinct(images)
    BY ImagesDistinct DEF Inv
<1>1. CASE ListForRefresh
    <2>1. PICK images \in Images(conf) : Begins(Loop, images, Comparing(EnvsOf(images)))
        BY <1>1, ForRefresh
    <2>2. Loop \in Passes /\ ~Busy(Loop) /\ UNCHANGED rows /\ Distinct(images)
        BY <1>0, <1>1 DEF ListForRefresh, Passes, Busy
    <2> QED
        BY <2>1, <2>2, BeginsAlone
<1>2. CASE ListForUpdate
    <2>1. PICK images \in Images(conf) : Begins(Loop, images, "keys")
        BY <1>2, ForUpdate
    <2>2. Loop \in Passes /\ ~Busy(Loop) /\ UNCHANGED rows /\ Distinct(images)
        BY <1>0, <1>2 DEF ListForUpdate, Passes, Busy
    <2> QED
        BY <2>1, <2>2, BeginsAlone
<1>3. CASE Wake
    <2>1. Moves(Loop, "list") /\ Loop \in Passes /\ ~Busy(Loop) /\ UNCHANGED <<rows, settled>>
        BY <1>3, WakeEffect DEF Wake, Passes, Busy, history
    <2>2. ~pass[Loop].alone /\ ~pass[Loop].unchanged
        BY <2>1 DEF Alone, Solo
    <2>3. \A q \in Passes : Busy(q)' = Busy(q)
        BY <2>1 DEF Moves, Others, Busy
    <2>4. Solo'
        BY <2>1, <2>2, <2>3 DEF Alone, Solo, Moves, Others, SameList, SameWork
    <2>5. Settled'
        BY <2>1, <2>3 DEF Alone, Settled, Moves, Others, SameList, SameWork,
            AllRegistered, Registered, GetDefinition, UpToDate
    <2>6. Advanced(Loop)'
        BY <2>1, <2>2 DEF Alone, Advanced, Moves, SameList, SameWork, Distinct
    <2>7. ASSUME NEW q \in Passes \ {Loop} PROVE Advanced(q)'
        BY <2>1, AdvancedStays DEF Alone, Moves, Others
    <2> QED
        BY <2>4, <2>5, <2>6, <2>7 DEF Alone
<1>4. ASSUME NEW p \in Passes, RefreshDefinitions(p) PROVE Alone'
    <2>1. PICK c \in Configurations \cup {conf} : \E images \in Images(c) : Begins(p, images, "keys")
        BY <1>4, ForRequest
    <2>2. PICK images \in Images(c) : Begins(p, images, "keys")
        BY <2>1
    <2>3. ~Busy(p) /\ UNCHANGED rows /\ Distinct(images)
        BY <1>0, <1>4 DEF RefreshDefinitions, Busy
    <2> QED
        BY <2>2, <2>3, BeginsAlone
<1>5. ASSUME NEW p \in Passes, Pass(p) PROVE Alone'
    BY <1>5, PassAlone
<1>6. ASSUME NEW p \in Passes, PassFails(p) PROVE Alone'
    BY <1>6, FailEffect, EndsAlone DEF PassFails
<1>7. CASE ServiceCrash
    BY <1>7, RestartEffect, EndsAlone DEF ServiceCrash
<1>8. ASSUME UNCHANGED <<pass, rows, settled>> PROVE Alone'
    BY <1>8 DEF Alone, Solo, Settled, Advanced, Busy, Distinct, AllRegistered, Registered, GetDefinition,
        UpToDate, Touched
<1> QED
    BY <1>1, <1>2, <1>3, <1>4, <1>5, <1>6, <1>7, <1>8
       DEF Next, vars, ExpireKey, RouterReady, Scan, ActualizeDefinitionsMap, Publish, history

\* At the start nothing has run.
LEMMA AloneInit == Init => Alone
<1> SUFFICES ASSUME Init PROVE Alone
    OBVIOUS
<1>1. \A p \in Passes : /\ pass[p].images = {} /\ ~pass[p].alone /\ ~pass[p].unchanged
                        /\ pass[p].phase \in {"boot", "idle"}
    BY DEF Init, Idle
<1> QED
    BY <1>1 DEF Init, Alone, Solo, Settled, Advanced, Distinct, EnvsOf

\* The row that is replaced and the one that is up to date are two rows of one family
\* and schema.
LEMMA AloneRegistersNothing ==
    ASSUME Inv, Checked, Alone PROVE UnchangedImagesAreNotRegistered
<1> SUFFICES ASSUME NEW p \in Passes, pass[p].unchanged, pass[p].phase = "save" PROVE Doubled
    BY DEF UnchangedImagesAreNotRegistered
<1>1. PICK env \in Environments : pass[p].env = {env}
    BY DEF Checked, Consistent
<1>2. env \in EnvsOf(pass[p].images)
    BY <1>1 DEF Checked, Consistent, First
<1>3. PICK row \in rows : row.family = env.family /\ row.schema = env.schema
                          /\ row.register = HashRegisterDefinition(env)
    BY <1>2 DEF Alone, Advanced, AllRegistered, Registered, GetDefinition, UpToDate
<1>4. /\ HashRegisterDefinition(env) \notin pass[p].old /\ Touched(pass[p].old) # {}
    BY <1>1 DEF Alone, Solo, Advanced
<1>5. PICK other \in rows : other \in Touched(pass[p].old)
    BY <1>4 DEF Touched
<1>6. other # row
    BY <1>3, <1>4, <1>5 DEF Touched
<1>7. other.family = env.family /\ other.schema = env.schema
    BY <1>1, <1>5, TouchedAlike
<1> QED
    BY <1>3, <1>5, <1>6, <1>7 DEF Doubled

\* An update that runs alone and finds the images of the one before, which ran alone as
\* well, registers nothing, unless two passes have doubled a row before
\* (definitions.go:57, images.go:335).
THEOREM UnchangedNotRegistered ==
    ASSUME OnlyTwinsShareFamilies PROVE Spec => []UnchangedImagesAreNotRegistered
<1> DEFINE Everything == Inv /\ Checked /\ Scalars /\ Alone
<1>1. Init => Everything
    BY InvInit, CheckedInit, ScalarsInit, AloneInit
<1>2. Everything /\ [Next]_vars => Everything'
    BY InvNext, CheckedNext, ScalarsNext, AloneNext
<1>3. Everything => UnchangedImagesAreNotRegistered
    BY AloneRegistersNothing
<1> HIDE DEF Everything
<1> QED
    BY <1>1, <1>2, <1>3, PTL DEF Spec

-----------------------------------------------------------------------------
(* What a request starts *)

\* What the table of repositories says: the dedicated ones are of the three browsers
\* that have one on linux, under names of their own.
LEMMA RepositoriesAre ==
    ASSUME NEW r \in Repositories
    PROVE  /\ r.dedicated => r.platform = "linux" /\ r.browser \in {"chrome", "edge", "firefox"}
           /\ r.name \in {"chrome", "edge", "firefox"} => r.platform = "linux" /\ r.browser = r.name
           /\ r.browser # ""
           /\ \A s \in Repositories : r.dedicated /\ s.name = r.name => s = r
<1>1. DOMAIN RepositoryTable = 1 .. 14
    BY DEF RepositoryTable
<1>2. ASSUME NEW n \in 1 .. 14
      PROVE  LET t == RepositoryTable[n] IN
             /\ t.dedicated => t.platform = "linux" /\ t.browser \in {"chrome", "edge", "firefox"}
             /\ t.name \in {"chrome", "edge", "firefox"} => t.platform = "linux" /\ t.browser = t.name
             /\ t.browser # ""
    <2>1. /\ RepositoryTable[n].dedicated => n \in {2, 8, 10}
          /\ RepositoryTable[n].name \in {"chrome", "edge", "firefox"} => n \in {1, 7, 9}
        BY DEF RepositoryTable, Repository
    <2>2. /\ n \in {1, 2, 7, 8, 9, 10} => RepositoryTable[n].platform = "linux"
          /\ n \in {2, 8, 10} => RepositoryTable[n].browser \in {"chrome", "edge", "firefox"}
          /\ n \in {1, 7, 9} => RepositoryTable[n].browser = RepositoryTable[n].name
        BY DEF RepositoryTable, Repository
    <2>3. RepositoryTable[n].browser \in {"chrome", "chromium", "edge", "firefox", "playwright"}
        BY DEF RepositoryTable, Repository
    <2> QED
        BY <2>1, <2>2, <2>3
<1>3. ASSUME NEW n \in 1 .. 14
      PROVE  LET name == RepositoryTable[n].name IN
             /\ name = "chrome-auto-update" => n = 2
             /\ name = "edge-auto-update" => n = 8
             /\ name = "firefox-auto-update" => n = 10
             /\ RepositoryTable[n].dedicated =>
                   name \in {"chrome-auto-update", "edge-auto-update", "firefox-auto-update"}
    BY DEF RepositoryTable, Repository
<1>4. PICK n \in 1 .. 14 : r = RepositoryTable[n]
    BY <1>1 DEF Repositories
<1>5. ASSUME NEW s \in Repositories, r.dedicated, s.name = r.name PROVE s = r
    <2>1. PICK m \in 1 .. 14 : s = RepositoryTable[m]
        BY <1>1 DEF Repositories
    <2> QED
        BY <1>3, <1>4, <1>5, <2>1
<1> QED
    BY <1>2, <1>4, <1>5

\* The capabilities an environment is built from are of the request's type.
LEMMA CompletedType ==
    ASSUME NEW request \in AnyCapabilities, NEW image
    PROVE  LET caps == CompletedCaps(request, image)
           IN  /\ EnvironmentType(caps) = EnvironmentType(request)
               /\ caps.mitm = request.mitm /\ caps.maven = request.maven
               /\ EnvironmentType(request) # "cypress" => caps = request
    BY DEF CompletedCaps, EnvironmentType, AnyCapabilities

\* What a builder builds.
LEMMA Builds ==
    ASSUME NEW image, NEW caps, NEW limit, NEW env \in BuildEnv(image, caps, limit)
    PROVE  /\ env.family = buildTaskDefinitionFamily(caps)
           /\ env.schema = Schema(EnvironmentType(caps),
                                  caps.mitm /\ EnvironmentType(caps) = "linux", caps.maven)
           /\ env.type = EnvironmentType(caps) /\ env.image = image
    BY DEF BuildEnv

\* An environment that is started was built for the image that was asked for, or for
\* that of the browser's own repository.
LEMMA StartedFor ==
    ASSUME NEW request \in AnyCapabilities, NEW definitions,
           NEW env \in BuildEnvForTaskDefinitionOverride(Candidates(request), definitions)
    PROVE  \E image \in buildImageFromCaps(request) :
              LET caps == CompletedCaps(request, image)
                  limit == InstanceLimit[EnvironmentType(caps)]
              IN  \/ env \in BuildEnv(image, caps, limit)
                  \/ /\ image.repository.dedicated
                     /\ \E r \in RepositoriesNamed(image.repository.browser) :
                           env \in BuildEnv([image EXCEPT !.repository = r], caps, limit)
                     /\ \E preferred \in BuildEnv(image, caps, limit) :
                           FindRevision(definitions, HashOvverideDefinition(preferred)) = NoRevision
<1>1. PICK candidate \in Candidates(request) :
        env \in selectAutoUpdateEnvironment(candidate, definitions)
    BY DEF BuildEnvForTaskDefinitionOverride
<1>2. PICK image \in buildImageFromCaps(request) :
        LET caps == CompletedCaps(request, image)
            limit == InstanceLimit[EnvironmentType(caps)]
            shared == {[image EXCEPT !.repository = r] :
                          r \in RepositoriesNamed(image.repository.browser)}
        IN  candidate \in {[preferred |-> e,
                            fallback |-> IF image.tag \in AutoUpdateTags /\ image.repository.dedicated
                                         THEN UNION {BuildEnv(i, caps, limit) : i \in shared} ELSE {}] :
                           e \in BuildEnv(image, caps, limit)}
    BY <1>1 DEF Candidates
<1> DEFINE caps == CompletedCaps(request, image)
           limit == InstanceLimit[EnvironmentType(caps)]
           shared == {[image EXCEPT !.repository = r] :
                         r \in RepositoriesNamed(image.repository.browser)}
<1> HIDE DEF caps, limit
<1>3. PICK e \in BuildEnv(image, caps, limit) :
        candidate = [preferred |-> e,
                     fallback |-> IF image.tag \in AutoUpdateTags /\ image.repository.dedicated
                                  THEN UNION {BuildEnv(i, caps, limit) : i \in shared} ELSE {}]
    BY <1>2, Zenon DEF caps, limit
<1>4. /\ candidate.preferred \in BuildEnv(image, caps, limit)
      /\ candidate.fallback = IF image.tag \in AutoUpdateTags /\ image.repository.dedicated
                              THEN UNION {BuildEnv(i, caps, limit) : i \in shared} ELSE {}
    BY <1>3
<1>5. \/ env = candidate.preferred
      \/ /\ env \in candidate.fallback
         /\ FindRevision(definitions, HashOvverideDefinition(candidate.preferred)) = NoRevision
    BY <1>1 DEF selectAutoUpdateEnvironment
<1>6. CASE env = candidate.preferred
    BY <1>4, <1>6 DEF caps, limit
<1>7. CASE /\ env \in candidate.fallback
           /\ FindRevision(definitions, HashOvverideDefinition(candidate.preferred)) = NoRevision
    <2>1. image.repository.dedicated /\ \E i \in shared : env \in BuildEnv(i, caps, limit)
        BY <1>4, <1>7
    <2>2. \E r \in RepositoriesNamed(image.repository.browser) :
             env \in BuildEnv([image EXCEPT !.repository = r], caps, limit)
        BY <2>1
    <2> QED
        BY <1>4, <1>7, <2>1, <2>2 DEF caps, limit
<1> QED
    BY <1>5, <1>6, <1>7

\* An image a request is for is in a supported repository, or nobody's but its own.
LEMMA AskedFor ==
    ASSUME NEW request, NEW image \in buildImageFromCaps(request)
    PROVE  /\ image.repository \in Repositories \/ ~image.repository.dedicated
           /\ image = [repository |-> image.repository, tag |-> image.tag, registry |-> NoRegistry]
<1>1. \E names, tag : /\ image \in Asked(names, tag)
                       /\ \A r \in names : r \in Repositories \/ ~r.dedicated
    <2>1. \A name : RepositoriesNamed(name) \subseteq Repositories
        BY DEF RepositoriesNamed
    <2>2. \A name, browser, platform : ~Repository(name, browser, platform, FALSE).dedicated
        BY DEF Repository
    <2> HIDE DEF Repositories
    <2> QED
        <3>1. CASE EnvironmentType(request) = "linux"
            BY <2>1, <3>1 DEF buildImageFromCaps
        <3>2. CASE EnvironmentType(request) = "windows"
            BY <2>1, <3>2 DEF buildImageFromCaps
        <3>3. CASE EnvironmentType(request) = "cypress"
            BY <2>1, <3>3 DEF buildImageFromCaps
        <3>4. CASE EnvironmentType(request) = "playwright"
            BY <2>1, <3>4 DEF buildImageFromCaps
        <3>5. CASE EnvironmentType(request) = "generic"
            BY <2>2, <3>5 DEF buildImageFromCaps
        <3>6. CASE EnvironmentType(request) \notin
                     {"linux", "windows", "cypress", "playwright", "generic"}
            BY <3>6 DEF buildImageFromCaps
        <3> QED
            BY <3>1, <3>2, <3>3, <3>4, <3>5, <3>6
<1> QED
    BY <1>1 DEF Asked

\* The hash a revision is looked up by tells what it runs.
LEMMA HashTells ==
    ASSUME NEW rev, NEW env, HashOvverideDefinition(rev) = HashOvverideDefinition(env)
    PROVE  /\ rev.schema = env.schema /\ rev.family = env.family
           /\ rev.image.repository = env.image.repository /\ rev.image.tag = env.image.tag
    BY DEF HashOvverideDefinition, NameTag

\* What a router finds under a hash runs what the hash stands for.
LEMMA FoundRevision ==
    ASSUME Inv, NEW r \in Routers, NEW env, GetFamilyRevision(env, known[r]) # NoRevision
    PROVE  /\ HashOvverideDefinition(env) \in Hashes
           /\ HashOvverideDefinition(GetFamilyRevision(env, known[r])) = HashOvverideDefinition(env)
           /\ known[r][HashOvverideDefinition(env)] # NoRevision
    BY DEF GetFamilyRevision, FindRevision, Inv, RouterSound, Runs

\* A router starts what was asked for.
LEMMA StartsTheRequest ==
    ASSUME Inv, NEW r \in Routers, NEW request \in Requests, NEW env \in Started(r, request),
           GetFamilyRevision(env, known[r]) # NoRevision
    PROVE  RunsTheRequest(request, GetFamilyRevision(env, known[r]))
<1> DEFINE rev == GetFamilyRevision(env, known[r])
<1>1. request \in AnyCapabilities
    BY CatalogueAssumption DEF CatalogueAssumption
<1>2. env \in BuildEnvForTaskDefinitionOverride(Candidates(request), known[r])
    BY DEF Started, Asking
<1>3. PICK image \in buildImageFromCaps(request) :
        LET caps == CompletedCaps(request, image)
            limit == InstanceLimit[EnvironmentType(caps)]
        IN  \/ env \in BuildEnv(image, caps, limit)
            \/ /\ image.repository.dedicated
               /\ \E s \in RepositoriesNamed(image.repository.browser) :
                     env \in BuildEnv([image EXCEPT !.repository = s], caps, limit)
    BY <1>1, <1>2, StartedFor
<1> DEFINE caps == CompletedCaps(request, image)
           limit == InstanceLimit[EnvironmentType(caps)]
<1>4. /\ EnvironmentType(caps) = EnvironmentType(request)
      /\ caps.mitm = request.mitm /\ caps.maven = request.maven
    BY <1>1, CompletedType
<1> HIDE DEF caps, limit
<1>5. ASSUME NEW i, env \in BuildEnv(i, caps, limit)
      PROVE  /\ env.image = i
             /\ env.schema = Schema(EnvironmentType(request),
                                    request.mitm /\ EnvironmentType(request) = "linux", request.maven)
    BY <1>4, <1>5, Builds
<1>6. /\ rev.schema = env.schema
      /\ rev.image.repository = env.image.repository /\ rev.image.tag = env.image.tag
    BY FoundRevision, HashTells
<1>7. CASE env \in BuildEnv(image, caps, limit)
    BY <1>5, <1>6, <1>7 DEF RunsTheRequest
<1>8. CASE /\ image.repository.dedicated
           /\ \E s \in RepositoriesNamed(image.repository.browser) :
                 env \in BuildEnv([image EXCEPT !.repository = s], caps, limit)
    <2>1. PICK s \in RepositoriesNamed(image.repository.browser) :
            env \in BuildEnv([image EXCEPT !.repository = s], caps, limit)
        BY <1>8
    <2>2. image.repository \in Repositories /\ s \in Repositories /\ s.name = image.repository.browser
        BY <1>8, AskedFor DEF RepositoriesNamed
    <2>3. s.browser = image.repository.browser /\ s.platform = image.repository.platform
        BY <1>8, <2>2, RepositoriesAre
    <2>4. env.image.tag = image.tag /\ env.image.repository = s
        BY <1>5, <2>1, AskedFor
    <2> QED
        BY <1>5, <1>6, <2>1, <2>3, <2>4 DEF RunsTheRequest
<1> QED
    BY <1>3, <1>7, <1>8 DEF caps, limit

\* The family of a dedicated image names its browser and its version.
LEMMA DedicatedFamily ==
    ASSUME NEW e \in Environments, e.image.repository.dedicated
    PROVE  /\ e.image \in Universe /\ e.type = "linux"
           /\ e.family = Family("linux", remapName(e.image.repository.browser),
                                Dashed[Lower[e.image.tag]])
<1>1. PICK i \in Universe : \E caps \in MockCapabilities(i) : e \in BuildEnv(i, caps, NoLimit)
    BY DEF Environments, ImageEnvs, EnvsOfImage
<1>2. PICK caps \in MockCapabilities(i) : e \in BuildEnv(i, caps, NoLimit)
    BY <1>1
<1>3. e.image = i /\ e.type = EnvironmentType(caps) /\ e.family = buildTaskDefinitionFamily(caps)
    BY <1>2, Builds
<1>4. i.repository \in Repositories /\ i.tag \in Tags
    BY CatalogueAssumption DEF CatalogueAssumption
<1>5. i.repository.platform = "linux" /\ i.repository.browser \in {"chrome", "edge", "firefox"}
    BY <1>3, <1>4, RepositoriesAre
<1>6. /\ caps.platform = "linux" /\ caps.browser = i.repository.browser /\ caps.version = i.tag
    <2> DEFINE plain == Capabilities(i.repository.platform, i.repository.browser, i.tag)
    <2>1. caps \in {plain, [plain EXCEPT !.mitm = TRUE]}
        BY <1>5 DEF MockCapabilities
    <2> QED
        <3>1. /\ plain.platform = "linux" /\ plain.browser = i.repository.browser
              /\ plain.version = i.tag
            BY <1>5 DEF Capabilities
        <3>2. CASE caps = plain
            BY <3>1, <3>2
        <3>3. CASE caps = [plain EXCEPT !.mitm = TRUE]
            BY <3>1, <3>3 DEF Capabilities
        <3> QED
            BY <2>1, <3>2, <3>3
<1>7. i.tag # NoVersion
    BY <1>4, EnvironmentAssumption DEF EnvironmentAssumption
<1> QED
    BY <1>3, <1>5, <1>6, <1>7 DEF EnvironmentType, buildTaskDefinitionFamily, remapVersion

\* No browser that is asked for by name is nameless.
LEMMA NamedBrowser ==
    ASSUME NEW name \in {"chrome", "edge", "firefox"}
    PROVE  remapName(name) # ""
    BY RepositoriesAre DEF remapName

\* Whoever asks for the family of a dedicated image asks for that image.
LEMMA AskedForDedicated ==
    ASSUME DedicatedAreNamed, DedicatedAreTagged,
           NEW e \in Environments, e.image.repository.dedicated,
           NEW request \in Requests, NEW image \in buildImageFromCaps(request),
           e.family = buildTaskDefinitionFamily(CompletedCaps(request, image))
    PROVE  /\ NameTag(image) = NameTag(e.image) /\ EnvironmentType(request) = "linux"
<1> DEFINE caps == CompletedCaps(request, image)
           x == e.image
<1>1. request \in AnyCapabilities /\ request.version \in Tags \cup {NoVersion}
    BY CatalogueAssumption DEF CatalogueAssumption, AnyCapabilities
<1>2. /\ x \in Universe
      /\ e.family = Family("linux", remapName(x.repository.browser), Dashed[Lower[x.tag]])
    BY DedicatedFamily
<1>3. x.repository \in Repositories
    BY <1>2, CatalogueAssumption DEF CatalogueAssumption
<1>4. remapName(x.repository.browser) # ""
    BY <1>3, RepositoriesAre, NamedBrowser
<1>5. EnvironmentType(request) = "linux" /\ caps = request
    <2>1. buildTaskDefinitionFamily(caps).platform = EnvironmentType(caps)
        BY DEF buildTaskDefinitionFamily, Family
    <2>2. e.family.platform = "linux"
        BY <1>2 DEF Family
    <2> QED
        BY <1>1, <2>1, <2>2, CompletedType
<1>6. /\ remapName(x.repository.browser) = remapName(request.browser)
      /\ Dashed[Lower[x.tag]] = Dashed[remapVersion(request.version)]
    <2>1. Family("linux", remapName(x.repository.browser), Dashed[Lower[x.tag]])
              = IF request.browser # ""
                THEN Family("linux", remapName(request.browser), Dashed[remapVersion(request.version)])
                ELSE Family("linux", "", NoVersion)
        BY <1>2, <1>5, Zenon DEF buildTaskDefinitionFamily
    <2> QED
        BY <1>4, <2>1 DEF Family
<1>7. remapVersion(request.version) = x.tag /\ x.tag \in AutoUpdateTags
    BY <1>1, <1>2, <1>6 DEF DedicatedAreTagged
<1>8. /\ image.tag = x.tag
      /\ image.repository \in RepositoriesNamed(remapName(request.browser) \o "-auto-update")
    BY <1>5, <1>7 DEF buildImageFromCaps, Asked
<1>9. x.repository.name = remapName(request.browser) \o "-auto-update"
    BY <1>3, <1>6 DEF DedicatedAreNamed
<1>10. image.repository = x.repository
    <2>1. image.repository \in Repositories /\ image.repository.name = x.repository.name
        BY <1>8, <1>9 DEF RepositoriesNamed
    <2> QED
        BY <1>3, <2>1, RepositoriesAre
<1> QED
    BY <1>5, <1>8, <1>10 DEF NameTag

\* A router starts the dedicated image whenever it knows that it has one.
LEMMA StartsTheDedicated ==
    ASSUME DedicatedAreNamed, DedicatedAreTagged,
           Inv, NEW r \in Routers, NEW request \in Requests, NEW env \in Started(r, request),
           GetFamilyRevision(env, known[r]) # NoRevision,
           NEW h \in Hashes, known[r][h] # NoRevision, h.image.repository.dedicated,
           h.family = env.family, h.schema = env.schema
    PROVE  GetFamilyRevision(env, known[r]).image.repository.dedicated
<1>1. request \in AnyCapabilities
    BY CatalogueAssumption DEF CatalogueAssumption
<1>2. env \in BuildEnvForTaskDefinitionOverride(Candidates(request), known[r])
    BY DEF Started, Asking
<1>3. PICK image \in buildImageFromCaps(request) :
        LET caps == CompletedCaps(request, image)
            limit == InstanceLimit[EnvironmentType(caps)]
        IN  \/ env \in BuildEnv(image, caps, limit)
            \/ /\ image.repository.dedicated
               /\ \E s \in RepositoriesNamed(image.repository.browser) :
                     env \in BuildEnv([image EXCEPT !.repository = s], caps, limit)
               /\ \E preferred \in BuildEnv(image, caps, limit) :
                     FindRevision(known[r], HashOvverideDefinition(preferred)) = NoRevision
    BY <1>1, <1>2, StartedFor
<1> DEFINE caps == CompletedCaps(request, image)
           limit == InstanceLimit[EnvironmentType(caps)]
<1>4. PICK e \in Environments : h = HashOvverideDefinition(e)
    BY DEF Hashes
<1>5. /\ e.image.repository.dedicated /\ e.family = env.family /\ e.schema = env.schema
      /\ h = [family |-> e.family, schema |-> e.schema, type |-> e.type, image |-> NameTag(e.image)]
    BY <1>4 DEF HashOvverideDefinition, NameTag
<1> HIDE DEF caps, limit
<1>6. ASSUME NEW i, NEW built \in BuildEnv(i, caps, limit)
      PROVE  /\ built.image = i /\ built.family = buildTaskDefinitionFamily(caps)
             /\ built.schema = Schema(EnvironmentType(caps),
                                      caps.mitm /\ EnvironmentType(caps) = "linux", caps.maven)
             /\ built.type = EnvironmentType(caps)
    BY Builds
<1>7. \E i : env \in BuildEnv(i, caps, limit)
    BY <1>3 DEF caps, limit
<1>8. env.family = buildTaskDefinitionFamily(caps)
    BY <1>6, <1>7
<1>9. NameTag(image) = NameTag(e.image) /\ EnvironmentType(request) = "linux"
    BY <1>5, <1>8, AskedForDedicated DEF caps
<1>10. EnvironmentType(caps) = "linux" /\ e.type = "linux"
    BY <1>1, <1>5, <1>9, CompletedType, DedicatedFamily DEF caps
<1>11. image.repository.dedicated
    BY <1>5, <1>9 DEF NameTag
<1>12. CASE env \in BuildEnv(image, caps, limit)
    <2>1. env.image = image
        BY <1>6, <1>12
    <2> QED
        BY <1>11, <2>1, FoundRevision, HashTells
<1>13. ASSUME NEW preferred \in BuildEnv(image, caps, limit),
              FindRevision(known[r], HashOvverideDefinition(preferred)) = NoRevision
       PROVE  FALSE
    <2>1. HashOvverideDefinition(preferred) = h
        <3>1. preferred.family = e.family /\ preferred.type = e.type /\ preferred.image = image
            BY <1>5, <1>6, <1>8, <1>10
        <3>2. preferred.schema = e.schema
            BY <1>5, <1>6, <1>7
        <3> QED
            BY <1>5, <1>9, <3>1, <3>2 DEF HashOvverideDefinition
    <2>2. DOMAIN known[r] = Hashes
        BY DEF Inv, RouterSound
    <2> QED
        BY <1>13, <2>1, <2>2 DEF FindRevision
<1> QED
    BY <1>3, <1>12, <1>13 DEF caps, limit

\* A router that starts a task for a request starts a revision with the browser,
\* version and containers that were asked for, of the dedicated repository whenever it
\* knows that it has one (builder.go:77, environment.go:71).
THEOREM StartsWhatWasAskedFor ==
    ASSUME DedicatedAreNamed, DedicatedAreTagged
    PROVE  Spec => []StartRunsWhatWasAskedFor
<1>1. Init => Inv
    BY InvInit
<1>2. Inv /\ [Next]_vars => Inv'
    BY InvNext
<1>3. Inv => StartRunsWhatWasAskedFor
    BY StartsTheRequest, StartsTheDedicated DEF StartRunsWhatWasAskedFor
<1> QED
    BY <1>1, <1>2, <1>3, PTL DEF Spec

-----------------------------------------------------------------------------
(* Resources *)

\* The containers whose resources are reserved are those that were counted.
LEMMA SidecarsOfSchema ==
    ASSUME NEW type \in Types, NEW mitm \in BOOLEAN, NEW maven \in BOOLEAN
    PROVE  /\ Sidecars(type, "maven" \in Schema(type, mitm, maven)) = Sidecars(type, maven)
           /\ SidecarCpu(Sidecars(type, maven)) \in Nat
           /\ SidecarMemory(Sidecars(type, maven)) \in Nat
<1>1. CASE type = "generic"
    BY <1>1 DEF Sidecars, GenericSidecars, Schema, Fixed, Res, NoContainer, SidecarCpu, SidecarMemory
<1>2. CASE type # "generic"
    BY <1>2 DEF Sidecars, LinuxSidecars, PlaywrightSidecars, WindowsSidecars, CypressSidecars,
        Types, Fixed, Res, NoContainer, SidecarCpu, SidecarMemory
<1> QED
    BY <1>1, <1>2

\* A request, or one completed with the browser and version of its image.
Completed(request, browser, version) ==
    {request, [request EXCEPT !.browser = browser, !.version = version]}

\* An environment that is built within the limit of its instances fits them.
LEMMA BuiltFits ==
    ASSUME NEW image, NEW request \in AnyCapabilities, NEW browser, NEW version,
           NEW caps, caps \in Completed(request, browser, version),
           NEW cpu \in Nat, NEW memory \in Nat,
           NEW env \in BuildEnv(image, caps, [cpu |-> cpu, memory |-> memory])
    PROVE  /\ env.type = EnvironmentType(caps) /\ env.type \in Types
           /\ GetAllocationResources(env).cpu <= cpu
           /\ GetAllocationResources(env).memory <= memory - getMemoryDeviation(memory)
           /\ GetAllocationResources(env).cpu \in Nat
           /\ GetAllocationResources(env).memory \in Nat
<1> DEFINE limit == [cpu |-> cpu, memory |-> memory]
           type == EnvironmentType(caps)
           mitm == caps.mitm /\ type = "linux"
           built == [caps EXCEPT !.mitm = mitm]
           sidecars == Sidecars(type, caps.maven)
           minCpu == MinimumCpu(mitm)
           minMemory == MinimumMemory(type, mitm)
           cpuLeft == cpu - SidecarCpu(sidecars)
           memoryLeft == memory - SidecarMemory(sidecars) - getMemoryDeviation(memory)
<1>1. PICK res \in CalculatedResources(type, [caps EXCEPT !.mitm = @ /\ type = "linux"], limit) :
        /\ type \in Types
        /\ env.type = type /\ env.res = res
        /\ env.schema = Schema(type, mitm, caps.maven)
    BY DEF BuildEnv
<1>2. /\ caps.maven \in BOOLEAN /\ mitm \in BOOLEAN /\ caps.cpu \in Demand /\ caps.memory \in Demand
      /\ built.maven = caps.maven /\ built.mitm = mitm
      /\ built.cpu = caps.cpu /\ built.memory = caps.memory
    BY DEF AnyCapabilities, Completed
<1>3. /\ SidecarCpu(sidecars) \in Nat /\ SidecarMemory(sidecars) \in Nat
      /\ Sidecars(env.type, "maven" \in env.schema) = sidecars
    BY <1>1, <1>2, SidecarsOfSchema
<1>4. minCpu \in [Scaled -> Nat] /\ minMemory \in [Scaled -> Nat]
    BY DEF MinimumCpu, MinimumMemory, Scaled
<1>5. getMemoryDeviation(memory) \in Nat
    BY 28 * memory + 163840 \in Nat, CeilDivBound DEF getMemoryDeviation
<1>6. limit # NoLimit /\ limit.cpu = cpu /\ limit.memory = memory
    BY EnvironmentAssumption DEF EnvironmentAssumption
<1>7. /\ MinimumFits(minCpu, cpuLeft) /\ MinimumFits(minMemory, memoryLeft)
      /\ res = [cpu |-> Granted(caps.cpu, minCpu, cpuLeft),
                memory |-> Granted(caps.memory, minMemory, memoryLeft)]
    <2>1. res \in CalculatedResources(type, built, limit)
        BY <1>1
    <2> HIDE DEF built, limit
    <2> QED
        BY <1>2, <1>6, <2>1 DEF CalculatedResources
<1>8. cpuLeft \in Int /\ memoryLeft \in Int
    BY <1>3, <1>5
<1>9. /\ res.cpu \in [Scaled -> Nat] /\ Total(res.cpu) <= cpuLeft
      /\ res.memory \in [Scaled -> Nat] /\ Total(res.memory) <= memoryLeft
    <2> HIDE DEF minCpu, minMemory, cpuLeft, memoryLeft
    <2> QED
        BY <1>2, <1>4, <1>7, <1>8, GrantFits
<1>10. Total(res.cpu) \in Nat /\ Total(res.memory) \in Nat
    BY <1>9 DEF Total, Scaled
<1>11. /\ GetAllocationResources(env).cpu = Total(res.cpu) + SidecarCpu(sidecars)
       /\ GetAllocationResources(env).memory = Total(res.memory) + SidecarMemory(sidecars)
    BY <1>1, <1>3 DEF GetAllocationResources, Res
<1> HIDE DEF sidecars
<1> QED
    BY <1>1, <1>3, <1>5, <1>9, <1>10, <1>11

\* What a router may build for a request is built within the limit of its instances.
LEMMA CandidatesBuilt ==
    ASSUME NEW request \in AnyCapabilities, NEW candidate \in Candidates(request),
           NEW env \in {candidate.preferred} \cup candidate.fallback
    PROVE  \E image, browser, version :
              \E caps \in Completed(request, browser, version) :
                 env \in BuildEnv(image, caps, InstanceLimit[EnvironmentType(caps)])
<1>1. PICK image \in buildImageFromCaps(request) :
        LET caps == CompletedCaps(request, image)
            limit == InstanceLimit[EnvironmentType(caps)]
            shared == {[image EXCEPT !.repository = r] :
                          r \in RepositoriesNamed(image.repository.browser)}
        IN  candidate \in {[preferred |-> e,
                            fallback |-> IF image.tag \in AutoUpdateTags /\ image.repository.dedicated
                                         THEN UNION {BuildEnv(i, caps, limit) : i \in shared} ELSE {}] :
                           e \in BuildEnv(image, caps, limit)}
    BY DEF Candidates
<1> DEFINE caps == CompletedCaps(request, image)
           limit == InstanceLimit[EnvironmentType(caps)]
<1>2. \E i : env \in BuildEnv(i, caps, limit)
    <2>1. CASE env = candidate.preferred
        BY <1>1, <2>1
    <2>2. CASE env \in candidate.fallback
        BY <1>1, <2>2
    <2> QED
        BY <2>1, <2>2
<1>3. \E browser, version :
        caps \in Completed(request, browser, version)
    BY DEF CompletedCaps, Completed
<1> HIDE DEF caps
<1> QED
    BY <1>2, <1>3

\* What a router starts for a request fits, limit or no limit.
LEMMA RequestsFit ==
    ASSUME NEW r \in Routers, NEW request \in Requests, NEW env \in Started(r, request),
           InstanceLimit[env.type] # NoLimit
    PROVE  LET limit == InstanceLimit[env.type]
               reserved == GetAllocationResources(env)
           IN  /\ reserved.cpu <= limit.cpu
               /\ 1000 * (limit.memory - reserved.memory) >= 28 * limit.memory + 163840
<1>1. request \in AnyCapabilities
    BY CatalogueAssumption DEF CatalogueAssumption
<1>2. PICK candidate \in Candidates(request) : env \in {candidate.preferred} \cup candidate.fallback
    BY DEF Started, Asking, BuildEnvForTaskDefinitionOverride, selectAutoUpdateEnvironment
<1>3. PICK image, browser, version :
        \E caps \in Completed(request, browser, version) :
           env \in BuildEnv(image, caps, InstanceLimit[EnvironmentType(caps)])
    BY <1>1, <1>2, CandidatesBuilt
<1>4. PICK caps \in Completed(request, browser, version) :
        env \in BuildEnv(image, caps, InstanceLimit[EnvironmentType(caps)])
    BY <1>3
<1>5. env.type = EnvironmentType(caps) /\ env.type \in Types
    BY <1>4 DEF BuildEnv
<1>6. PICK cpu \in Nat, memory \in Nat : InstanceLimit[env.type] = [cpu |-> cpu, memory |-> memory]
    BY <1>5, EnvironmentAssumption DEF EnvironmentAssumption
<1>6a. env \in BuildEnv(image, caps, [cpu |-> cpu, memory |-> memory])
    BY <1>4, <1>5, <1>6
<1>7. /\ GetAllocationResources(env).cpu <= cpu
      /\ GetAllocationResources(env).memory <= memory - getMemoryDeviation(memory)
      /\ GetAllocationResources(env).memory \in Nat
    BY <1>1, <1>4, <1>6a, BuiltFits
<1>8. /\ getMemoryDeviation(memory) \in Nat
      /\ 1000 * getMemoryDeviation(memory) >= 28 * memory + 163840
    BY 28 * memory + 163840 \in Nat, CeilDivBound DEF getMemoryDeviation
<1> QED
    BY <1>6, <1>7, <1>8

\* A task that is accepted fits an empty instance of the smallest type of its capacity
\* provider, whatever is asked for and however big the instances are
\* (container.go:139).
THEOREM AcceptedTasksFit == Spec => []AcceptedTaskFitsAnyInstance
<1>1. AcceptedTaskFitsAnyInstance
    BY RequestsFit DEF AcceptedTaskFitsAnyInstance
<1> QED
    BY <1>1, PTL
=============================================================================
