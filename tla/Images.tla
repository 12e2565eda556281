-------------------------------- MODULE Images --------------------------------
(***************************************************************************)
(* The images sessions run on: the repositories that are supported, which     *)
(* images a listing of the registries returns and in which order they are     *)
(* processed, and the image a tag is found in.  A tag is a member of a set,   *)
(* with what the code looks at in it.                                         *)
(***************************************************************************)
EXTENDS Integers, Sequences, FiniteSets, FiniteSetsExt

CONSTANTS Tags,            \* image tags, and versions asked for
          Latest,          \* the tag "latest"
          AutoUpdateTags,  \* tags that end in "-auto-update"
          Lower,           \* each tag in lower case
          Dashed,          \* each tag with dashes for dots
          Parts,           \* each tag split at the dots: numbers and words
          Registries,      \* registries with images
          Public,          \* those of them read through the public gallery
          NoRegistry       \* the registry of an image a request asks for

ASSUME TagsAssumption ==
    /\ Latest \in Tags
    /\ AutoUpdateTags \subseteq Tags
    /\ Lower \in [Tags -> Tags]
    /\ DOMAIN Dashed = Tags
    /\ Parts \in [Tags -> Seq([number : BOOLEAN, value : Nat])]
    /\ Public \subseteq Registries
    /\ NoRegistry \notin Registries

Repository(name, browser, platform, dedicated) ==
    [name |-> name, browser |-> browser, platform |-> platform, dedicated |-> dedicated]

\* The supported repositories in the order of their names, with GetBrowserName
\* and GetPlatform of each; a dedicated one is named for the auto-update suffix.
RepositoryTable ==
    << Repository("chrome", "chrome", "linux", FALSE),
       Repository("chrome-auto-update", "chrome", "linux", TRUE),
       Repository("cypress-chrome", "chrome", "cypress", FALSE),
       Repository("cypress-chromium", "chromium", "cypress", FALSE),
       Repository("cypress-edge", "edge", "cypress", FALSE),
       Repository("cypress-firefox", "firefox", "cypress", FALSE),
       Repository("edge", "edge", "linux", FALSE),
       Repository("edge-auto-update", "edge", "linux", TRUE),
       Repository("firefox", "firefox", "linux", FALSE),
       Repository("firefox-auto-update", "firefox", "linux", TRUE),
       Repository("playwright", "playwright", "playwright", FALSE),
       Repository("windows-chrome", "chrome", "windows", FALSE),
       Repository("windows-edge", "edge", "windows", FALSE),
       Repository("windows-firefox", "firefox", "windows", FALSE) >>

Repositories == {RepositoryTable[n] : n \in DOMAIN RepositoryTable}

NameOrder(repository) == CHOOSE n \in DOMAIN RepositoryTable : RepositoryTable[n] = repository

RepositoriesNamed(name) == {r \in Repositories : r.name = name}   \* empty: not supported

Image == [repository : Repositories, tag : Tags, registry : Registries \cup {NoRegistry}]

\* Image.String: the name and the tag, whatever the registry.
NameTag(image) == [repository |-> image.repository, tag |-> image.tag]

\* Image.GetUrl
Url(image) == image

-----------------------------------------------------------------------------
(* Listing *)

\* A plausible bug: both images are kept.
PreferNothing(images) == images

\* An auto-update image of a dedicated repository takes the place of the image
\* with the same tag in the repository named for the browser alone: both would
\* be registered under the same family.
preferAutoUpdateRepositories(images) ==
    LET Replaced(i) == \E j \in images :
            /\ j.tag \in AutoUpdateTags /\ j.repository.dedicated
            /\ j.repository.browser = i.repository.browser
            /\ j.repository.platform = i.repository.platform
            /\ j.tag = i.tag
    IN  {i \in images : ~(i.repository.name = i.repository.browser /\ Replaced(i))}

\* A configuration names registries with their repositories, and the images that
\* are excluded (as name:tag).
ListImages(conf, published) ==
    preferAutoUpdateRepositories(
        {i \in published : i.registry \in conf.registries /\ NameTag(i) \notin conf.excluded})

\* The gallery's answer is decoded without a look at its status: an error is
\* taken for a repository without tags.
ListImagesWithoutPublic(conf, published) ==
    ListImages(conf, {i \in published : i.registry \notin Public})

\* The parts decide at the first place where they are not the same number.
Decisive(a, b) ==
    {n \in DOMAIN Parts[a] \cap DOMAIN Parts[b] :
        ~(Parts[a][n].number /\ Parts[b][n].number /\ Parts[a][n] = Parts[b][n])}

Sign(positive) == IF positive THEN 1 ELSE -1    \* boolToInt

\* Newest release first: latest, then words, then numbers from high to low.
CompareTags(a, b) ==
    IF a = b THEN 0
    ELSE IF a = Latest THEN -1
    ELSE IF b = Latest THEN 1
    ELSE IF Decisive(a, b) = {} THEN Sign(Len(Parts[b]) > Len(Parts[a]))
    ELSE LET n == Min(Decisive(a, b))
             p == Parts[a][n]
             q == Parts[b][n]
         IN  CASE ~p.number /\ ~q.number -> Sign(p.value > q.value)
               [] ~p.number /\ q.number  -> -1
               [] p.number /\ ~q.number  -> 1
               [] OTHER                  -> Sign(p.value < q.value)

imageComparator(a, b) ==
    IF a.repository # b.repository
    THEN Sign(NameOrder(a.repository) > NameOrder(b.repository))
    ELSE CompareTags(a.tag, b.tag)

\* a is sorted before b.  The comparator says of two words with the same beginning
\* that each comes first; the order is open then, as for equal names and tags.
Before(a, b) == imageComparator(a, b) < 0 /\ imageComparator(b, a) > 0
=============================================================================
