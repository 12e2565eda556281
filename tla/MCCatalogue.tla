---------------------------- MODULE MCCatalogue ----------------------------
(* A playwright image that moves to another registry, and an auto-update     *)
(* image of chrome that gets a dedicated repository.                        *)
EXTENDS Catalogue, Functions, TLC

CONSTANTS ecrPublic, ecrPrivate, loop, post, r1

MCTags == {"latest", "1.0", "1-0", "2-auto-update"}
MCAutoUpdateTags == {"2-auto-update"}
MCLower == [t \in Tags |-> t]
MCDashed == [t \in Tags |-> IF t = "1.0" THEN "1-0" ELSE t]
Num(n) == [number |-> TRUE, value |-> n]
Word(n) == [number |-> FALSE, value |-> n]
MCParts == [t \in Tags |-> CASE t = "latest" -> <<Word(1)>>
                             [] t = "1.0" -> <<Num(1), Num(0)>>
                             [] t = "1-0" -> <<Word(3)>>
                             [] t = "2-auto-update" -> <<Word(2)>>]
MCRegistries == {ecrPublic, ecrPrivate}
MCPublic == {ecrPublic}

MCInstanceLimit == [t \in Types |->
    CASE t = "windows" -> NoLimit
      [] t = "generic" -> [cpu |-> 2048, memory |-> 4096]
      [] OTHER -> [cpu |-> 2500, memory |-> 4200]]

Img(name, tag, registry) ==
    [repository |-> CHOOSE r \in Repositories : r.name = name, tag |-> tag, registry |-> registry]

Playwright(tag, registry) == Img("playwright", tag, registry)
Shared == Img("chrome", "2-auto-update", ecrPublic)
Dedicated == Img("chrome-auto-update", "2-auto-update", ecrPublic)

MCUniverse == {Playwright("1.0", ecrPublic), Playwright("1.0", ecrPrivate),
               Playwright("1-0", ecrPrivate), Shared, Dedicated}
Moved == {Playwright("1.0", ecrPublic)} :> {{Playwright("1.0", ecrPrivate)}, {Playwright("1-0", ecrPrivate)}}
Split == {Shared} :> {{Shared, Dedicated}}
MCChanges == Moved @@ Split @@ [l \in UNION (Range(Moved) \cup Range(Split)) |-> {}]
MCListings == DOMAIN MCChanges
MCDisturbances ==
    [l \in MCListings |-> IF l \in DOMAIN Moved THEN 2 ELSE IF l \in DOMAIN Split THEN 1 ELSE 0]
MCConfigured == [registries |-> MCRegistries, excluded |-> {}]
MCConfigurations == {[registries |-> MCRegistries, excluded |-> {NameTag(Dedicated), NameTag(Playwright("1-0", ecrPrivate))}]}

Scale(main, mitm) == [main |-> main, mitm |-> mitm]
For(platform, browser, version) == Capabilities(platform, browser, version)
MCRequests ==
    {[For("linux", "chrome", "2-auto-update") EXCEPT !.mitm = m, !.cpu = c, !.memory = d] :
        m \in BOOLEAN, c \in {Scale(0, 0), Scale(1100, 600), Scale(4000, 3000)},
        d \in {Scale(0, 0), Scale(2500, 900)}}
    \cup {[For("playwright", "webkit", "1.0") EXCEPT !.cpu = Scale(8000, 0)],
          For("any", "microsoftedge", NoVersion),
          [For("generic", "", NoVersion) EXCEPT !.image = [name |-> "maven", tag |-> "latest"],
                 !.maven = TRUE, !.memory = Scale(9000, 0)],
          [For("cypress", "", NoVersion) EXCEPT !.image = [name |-> "cypress-edge", tag |-> "latest"]]}

ASSUME PublishedAssumption == OnlyTwinsShareFamilies /\ DedicatedAreNamed /\ DedicatedAreTagged
=============================================================================
