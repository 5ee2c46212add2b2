------------------------------- MODULE Mirror -------------------------------
(***************************************************************************)
(* voidweb's cache of the web client (cmd/voidweb/sync.go).  The archive   *)
(* is a list of scrapes, 1 the newest, one more on a sibling branch; each  *)
(* captured the start page, the boot file of its own build and a chunk all *)
(* builds share, or missed some of them.  syncAssets brings one build onto *)
(* disk and marks it; while it is served, requests for missing files heal  *)
(* them from the archive.  The process may crash at any step and be        *)
(* started again with another pin (-at); every download may fail.          *)
(***************************************************************************)
EXTENDS Integers, Sequences, FiniteSets

CONSTANTS
  Builds,        \* the scrapes of the channel branch
  Readers,       \* concurrent requests
  MaxStarts,     \* how often the process is started
  Unknown, Nowhere, Later   \* donors[name]: no entry, "-", "!<time>"

ASSUME MirrorAssumption ==
  /\ Builds \in Nat \ {0} /\ MaxStarts \in Nat
  /\ Cardinality({Unknown, Nowhere, Later}) = 3
  /\ \A b \in 1..(Builds + 1) : b \notin {Unknown, Nowhere, Later}

VARIABLES
  holds, hasPage,   \* the archive: the files of each scrape, the scrapes with a page
  page,             \* index.html: whose it is (0 = none), and whether it is whole
  file,             \* assets/: "none", "torn" or "whole"
  synced, swept,   \* synced-* and swept-*
  donors,           \* donors.json
  phase, pin, build,   \* the process, its pin and the build it serves
  todo, rest,       \* candidates to go, and entries or missing names to go
  reading, healLock, \* the requests, and assetHandler.mu
  starts, wiped, unlucky   \* bound; a crash behind RemoveAll; failed fetches

mirrorVars == <<holds, hasPage, page, file, synced, swept, donors, phase, pin,
                build, todo, rest, reading, healLock, starts, wiped, unlucky>>

archive == <<holds, hasPage>>
cache == <<page, file, synced, swept, donors>>

Scrapes == 1..Builds
Sibling == Builds + 1
Chunk0  == 0               \* the file name all builds share; b is build b's boot file
Names   == 0..Builds
PageEntry == Builds + 1    \* index.html as an entry of a tarball

NoRead == [at |-> "idle", name |-> 0, queue |-> <<>>, sibling |-> FALSE]

MirrorInit ==
  /\ holds \in [1..Sibling -> SUBSET Names]
  /\ \A b \in Scrapes : holds[b] \subseteq {Chunk0, b}
  /\ holds[Sibling] \subseteq {Chunk0}
  /\ hasPage \in SUBSET Scrapes
  /\ page = [of |-> 0, whole |-> TRUE] /\ file = [n \in Names |-> "none"]
  /\ synced = {} /\ swept = {} /\ donors = [n \in Names |-> Unknown]
  /\ phase = "off" /\ pin = 1 /\ build = 0 /\ todo = <<>> /\ rest = {}
  /\ reading = [r \in Readers |-> NoRead] /\ healLock = {}
  /\ starts = 0 /\ wiped = FALSE /\ unlucky = {}

\* resolveCommit: the scrapes up to the pin, newest first.
Candidates == [i \in 1..(Builds - pin + 1) |-> pin + i - 1]

Start(p) ==
  /\ phase = "off" /\ starts < MaxStarts /\ starts' = starts + 1
  /\ pin' = p /\ phase' = "check"
  /\ UNCHANGED <<archive, cache, build, todo, rest, reading, healLock, wiped, unlucky>>

\* What the page and its boot file name and the disk does not have.
Missing ==
  IF file[page.of] = "none" THEN {page.of} ELSE {n \in {Chunk0} : file[n] = "none"}

\* syncAssets: a marked build is served when it is a candidate or when the
\* archive does not answer; its first start sweeps the neighbours.
CheckMarker ==
  /\ phase = "check"
  /\ \/ /\ synced = {} \/ page.of = 0
        /\ phase' = "resolve" /\ UNCHANGED <<build, todo, rest>>
     \/ /\ page.of # 0
        /\ \E m \in synced :
             \/ phase' = "serve" /\ build' = m /\ UNCHANGED <<todo, rest>>
             \/ /\ m >= pin /\ m \notin swept
                /\ phase' = "sweep" /\ build' = m /\ todo' = Candidates /\ rest' = Missing
             \/ m < pin /\ phase' = "resolve" /\ UNCHANGED <<build, todo, rest>>
  /\ UNCHANGED <<archive, cache, pin, reading, healLock, starts, wiped, unlucky>>

\* The candidates, or an exit when the archive does not answer.
Resolve ==
  /\ phase = "resolve"
  /\ \/ phase' = "try" /\ todo' = Candidates
     \/ phase' = "off" /\ UNCHANGED todo
  /\ UNCHANGED <<archive, cache, pin, build, rest, reading, healLock, starts, wiped, unlucky>>

\* A candidate that is marked is served; otherwise the assets are removed.
TryNext ==
  /\ phase = "try"
  /\ IF todo = <<>> THEN phase' = "off" /\ UNCHANGED <<build, file>>
     ELSE IF Head(todo) \in synced
     THEN phase' = "serve" /\ build' = Head(todo) /\ UNCHANGED file
     ELSE phase' = "unmark" /\ file' = [n \in Names |-> "none"] /\ UNCHANGED build
  /\ UNCHANGED <<archive, page, synced, swept, donors, pin, todo, rest, reading,
                 healLock, starts, wiped, unlucky>>

Entries(b) == holds[b] \cup (IF b \in hasPage THEN {PageEntry} ELSE {})

\* The markers go after the assets; then the tarball is read.
DropMarkers ==
  /\ phase = "unmark" /\ phase' = "extract"
  /\ synced' = {} /\ rest' = Entries(Head(todo)) /\ wiped' = FALSE
  /\ UNCHANGED <<archive, page, file, swept, donors, pin, build, todo, reading,
                 healLock, starts, unlucky>>

PutEntry(e, whole) ==
  IF e = PageEntry
  THEN page' = [of |-> Head(todo), whole |-> whole] /\ UNCHANGED file
  ELSE file' = [file EXCEPT ![e] = IF whole THEN "whole" ELSE "torn"] /\ UNCHANGED page

ExtractEntry ==
  /\ phase = "extract"
  /\ \E e \in rest : PutEntry(e, TRUE) /\ rest' = rest \ {e}
  /\ UNCHANGED <<archive, synced, swept, donors, phase, pin, build, todo, reading,
                 healLock, starts, wiped, unlucky>>

\* The download breaks, perhaps inside an entry, or held nothing: walk back.
ExtractFails ==
  /\ phase = "extract" /\ phase' = "try" /\ todo' = Tail(todo) /\ rest' = {}
  /\ UNCHANGED <<page, file>> \/ \E e \in rest : PutEntry(e, FALSE)
  /\ UNCHANGED <<archive, synced, swept, donors, pin, build, reading, healLock,
                 starts, wiped, unlucky>>

\* bootCriticalMissing: the boot file the page names must be on disk; a torn
\* page may name none.  Then the build is marked and its gaps are swept.
Accept ==
  /\ phase = "extract" /\ rest = {} /\ Entries(Head(todo)) # {}
  /\ \/ /\ page.of # 0 /\ (file[page.of] # "none" \/ ~page.whole)
        /\ phase' = "sweep" /\ synced' = synced \cup {Head(todo)}
        /\ build' = Head(todo) /\ todo' = Candidates /\ rest' = Missing
     \/ /\ page.of = 0 \/ file[page.of] = "none"
        /\ phase' = "try" /\ todo' = Tail(todo) /\ UNCHANGED <<synced, build, rest>>
  /\ UNCHANGED <<archive, page, file, swept, donors, pin, reading, healLock, starts,
                 wiped, unlucky>>

\* sweepTarball: the missing names the neighbour captured, until its tarball
\* ends or breaks inside one of them.
SweepTarball ==
  /\ phase = "sweep" /\ todo # <<>> /\ rest # {}
  /\ \E got \in SUBSET (rest \cap holds[Head(todo)]) :
       /\ rest' = rest \ got
       /\ \E cut \in {{}} \cup {{n} : n \in (rest \cap holds[Head(todo)]) \ got} :
            file' = [n \in Names |-> IF n \in got THEN "whole"
                                     ELSE IF n \in cut THEN "torn" ELSE file[n]]
  /\ todo' = Tail(todo)
  /\ UNCHANGED <<archive, page, synced, swept, donors, phase, pin, build, reading,
                 healLock, starts, wiped, unlucky>>

SweepEnds ==
  /\ phase = "sweep" /\ (todo = <<>> \/ rest = {}) /\ phase' = "serve"
  /\ swept' = swept \cup {build} /\ todo' = <<>> /\ rest' = {}
  /\ UNCHANGED <<archive, page, file, synced, donors, pin, build, reading, healLock,
                 starts, wiped, unlucky>>
-----------------------------------------------------------------------------
\* Everything the requests leave alone.
Steady == UNCHANGED <<archive, page, synced, swept, phase, pin, build, todo, rest,
                      starts, wiped>>

To(r, at) == reading' = [reading EXCEPT ![r].at = at]
Stub(r)   == reading' = [reading EXCEPT ![r] = NoRead] /\ healLock' = {}

\* ServeHTTP: a file that is there is served, another one is healed.
ServeHTTP(r, n) ==
  /\ phase = "serve" /\ reading[r] = NoRead
  /\ reading' = [reading EXCEPT ![r] =
       [NoRead EXCEPT !.at = IF file[n] = "none" THEN "heal" ELSE "read", !.name = n]]
  /\ Steady /\ UNCHANGED <<file, donors, healLock, unlucky>>

\* http.ServeFile, or the patched bundle: the answer is out.
ServeFile(r) ==
  /\ reading[r].at = "read" /\ reading' = [reading EXCEPT ![r] = NoRead]
  /\ Steady /\ UNCHANGED <<file, donors, healLock, unlucky>>

\* The verdict on record: a donor is tried, a failed lookup is left alone
\* until it has expired, nowhere is final.
Consult(r, n) ==
  \/ donors[n] \in {Nowhere, Later} /\ Stub(r) /\ UNCHANGED donors
  \/ /\ donors[n] = Later /\ donors' = [donors EXCEPT ![n] = Unknown]
     /\ To(r, "probe") /\ healLock' = {r}
  \/ donors[n] = Unknown /\ To(r, "probe") /\ healLock' = {r} /\ UNCHANGED donors
  \/ /\ donors[n] \notin {Unknown, Nowhere, Later}
     /\ reading' = [reading EXCEPT ![r].at = "recall", ![r].queue = <<donors[n]>>]
     /\ healLock' = {r} /\ UNCHANGED donors

\* Mutant: the disk is not looked at again under the lock.
HealUnchecked(r) ==
  /\ reading[r].at = "heal" /\ healLock = {}
  /\ Consult(r, reading[r].name)
  /\ Steady /\ UNCHANGED <<file, unlucky>>

\* heal: under the lock the disk is looked at again.
Heal(r) ==
  /\ reading[r].at = "heal" /\ healLock = {}
  /\ IF file[reading[r].name] # "none"
     THEN To(r, "read") /\ UNCHANGED <<donors, healLock>>
     ELSE Consult(r, reading[r].name)
  /\ Steady /\ UNCHANGED <<file, unlucky>>

\* findDonors: the scrapes of a branch at which the name came or went, in order.
Turns(n) == {b \in Scrapes : (n \in holds[b]) # (b < Builds /\ n \in holds[b + 1])}
findDonors(n) ==
  {q \in [1..Cardinality(Turns(n)) -> Turns(n)] : \A i, j \in DOMAIN q : i < j => q[i] < q[j]}

Verdict(r, v) ==
  /\ donors' = [donors EXCEPT ![reading[r].name] = v] /\ Stub(r)

\* The donors of the next branch; a lookup that fails ends the heal.
Probe(r) ==
  /\ reading[r].at = "probe"
  /\ LET n == reading[r].name
         next(queue) == /\ reading' = [reading EXCEPT ![r].at = "fetch", ![r].queue = queue,
                                                      ![r].sibling = TRUE]
                        /\ UNCHANGED <<donors, healLock>>
     IN  \/ Verdict(r, Later)
         \/ ~reading[r].sibling /\ \E queue \in findDonors(n) : next(queue)
         \/ /\ reading[r].sibling
            /\ IF n \in holds[Sibling]
               THEN /\ reading' = [reading EXCEPT ![r].at = "last", ![r].queue = <<Sibling>>]
                    /\ UNCHANGED <<donors, healLock>>
               ELSE Verdict(r, Nowhere)
  /\ Steady /\ UNCHANGED <<file, unlucky>>

Fetching == {"recall", "fetch", "last"}

\* fetchRaw: the bytes are written over what is there, in more than one step.
FetchRaw(r) ==
  /\ reading[r].at \in Fetching /\ reading[r].queue # <<>>
  /\ reading[r].name \in holds[Head(reading[r].queue)]
  /\ file' = [file EXCEPT ![reading[r].name] = "torn"]
  /\ To(r, "write")
  /\ Steady /\ UNCHANGED <<donors, healLock, unlucky>>

\* The file is complete and its donor on record.
Written(r) ==
  /\ reading[r].at = "write"
  /\ file' = [file EXCEPT ![reading[r].name] = "whole"]
  /\ donors' = [donors EXCEPT ![reading[r].name] = Head(reading[r].queue)]
  /\ To(r, "read") /\ healLock' = {}
  /\ Steady /\ UNCHANGED unlucky

\* The scrape does not have the file, or the download or the write failed.
FetchFails(r) ==
  /\ reading[r].at \in Fetching /\ reading[r].queue # <<>>
  /\ reading' = [reading EXCEPT ![r].queue = Tail(@)]
  /\ LET had == {reading[r].name} \cap holds[Head(reading[r].queue)]
     IN  /\ unlucky' = unlucky \cup had
         /\ UNCHANGED file \/ \E n \in had : file' = [file EXCEPT ![n] = "torn"]
  /\ Steady /\ UNCHANGED <<donors, healLock>>

\* No donor left: on to the next branch, or to the verdict.
Exhausted(r) ==
  /\ reading[r].at \in Fetching /\ reading[r].queue = <<>>
  /\ IF reading[r].at = "last" THEN Verdict(r, Nowhere)
     ELSE To(r, "probe") /\ UNCHANGED <<donors, healLock>>
  /\ Steady /\ UNCHANGED <<file, unlucky>>

\* The process ends wherever it is; the disk stays as it is.
Crash ==
  /\ phase # "off" /\ phase' = "off"
  /\ wiped' = (wiped \/ (phase = "unmark" /\ synced # {}))
  /\ reading' = [r \in Readers |-> NoRead] /\ healLock' = {} /\ todo' = <<>> /\ rest' = {}
  /\ UNCHANGED <<archive, cache, pin, build, starts, unlucky>>

MirrorNext ==
  \/ \E p \in Scrapes : Start(p)
  \/ CheckMarker \/ Resolve \/ TryNext \/ DropMarkers
  \/ ExtractEntry \/ ExtractFails \/ Accept \/ SweepTarball \/ SweepEnds
  \/ \E r \in Readers :
       \/ \E n \in {Chunk0, build} : ServeHTTP(r, n)
       \/ ServeFile(r) \/ Heal(r) \/ Probe(r) \/ FetchRaw(r) \/ Written(r)
       \/ FetchFails(r) \/ Exhausted(r)
  \/ Crash

MirrorSpec == MirrorInit /\ [][MirrorNext]_mirrorVars
-----------------------------------------------------------------------------
\* A marker has its build behind it: the page and the boot file of the marked
\* scrape are on disk in full, whatever broke or crashed on the way to it
\* (syncAssets).  Two windows are left: a crash between the removal of the
\* assets and that of the markers, and a page that was torn.
MarkerBacked ==
  \A m \in synced :
    \/ page.of = m /\ file[m] = "whole"
    \/ phase = "unmark" \/ wiped \/ ~page.whole

\* The verdict "nowhere" is final, so it must be earned: no scrape of any
\* branch has the file (heal), or a download of it failed on the way.
VerdictEarned ==
  \A n \in Names : donors[n] = Nowhere =>
    n \in unlucky \/ \A b \in 1..Sibling : n \notin holds[b]

\* A file that is complete stays so while it is served: of two requests that
\* missed it, the second finds it under the lock and does not write it again.
WholeStays ==
  [][\A n \in Names : phase = "serve" /\ phase' = "serve" /\ file[n] = "whole"
       => file'[n] = "whole"]_mirrorVars

\* The cache says of itself what is true: markers are backed, verdicts are
\* earned, and what is whole stays whole under requests (syncAssets, heal).
CacheHonest ==
  [](MarkerBacked /\ VerdictEarned) /\ WholeStays

=============================================================================
