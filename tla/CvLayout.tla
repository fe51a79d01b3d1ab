------------------------------ MODULE CvLayout ------------------------------
(***************************************************************************)
(* The directory tree that cosmovisor reads,                               *)
(*    cosmovisor/upgrades/<name>/{bin/<daemon>, lib/*, upgrade-info.json}  *)
(*    cosmovisor/current, cosmovisor/genesis         links to an upgrade   *)
(* and the one job that writes it, create_cv_upgrade of bin/cvutils.py,    *)
(* one action per write.  The job can stop between any two of its writes:  *)
(* the container is killed, the disk is full, a download fails.  The tree  *)
(* lives on a volume and outlives the job; the next run of the job finds   *)
(* it as the last one left it.  Only links stand where current and genesis *)
(* are: nothing here makes the directories that link_cv_current and        *)
(* link_cv_genesis would remove in their place.                            *)
(***************************************************************************)
EXTENDS Versions

CONSTANTS
    Names,       \* the upgrade names
    Libs,        \* the library files a version may list
    Urls,        \* what files are downloaded from
    Heights,     \* the heights a version may have, 0 for a missing one
    Requests,    \* the versions the job is asked to install
    LinkModes,   \* and its linkCurrent: FALSE when images are built, else TRUE
    Bin,         \* the daemon's file, bin/<daemon_name>
    InImage,     \* the link target /opt/cosmovisor/upgrades/<ImageGenesis>
    Image,         \* /opt/cosmovisor/upgrades of the chain specific images
    ImageInfo,     \* their upgrade-info.json files
    ImageGenesis   \* and where their genesis link points to, Nil: no image

FileNames == Libs \union {Bin}

\* What a file of an upgrade was downloaded from, and whether all of it is there.
Content == [url : Urls, whole : BOOLEAN]

\* An upgrade-info.json: the height it records, and whether all of it is there.
UpgradeInfo == [height : Heights \union {1}, whole : BOOLEAN]

Version ==
    [ name       : Names,
      binary_url : Urls \union {Nil},
      libraries  : Seq([file : Libs, url : Urls]),
      height     : Heights \union {Nil} ]

ASSUME LayoutAssumption ==
    /\ Bin \notin Libs
    /\ Heights \subseteq Nat
    /\ Nil \notin Names /\ Nil \notin Urls /\ Nil \notin Heights
    /\ Nil \notin Content /\ Nil \notin UpgradeInfo
    /\ InImage \notin Names /\ InImage # Nil
    /\ Requests \subseteq Version /\ Nil \notin Requests
    /\ LinkModes \subseteq BOOLEAN

ASSUME ImageAssumption ==
    /\ Image \in [Names -> [FileNames -> Content \union {Nil}]]
    /\ ImageInfo \in [Names -> UpgradeInfo \union {Nil}]
    /\ ImageGenesis \in Names \union {Nil}
    /\ ImageGenesis # Nil => Image[ImageGenesis][Bin] # Nil

VARIABLES
    file,      \* file[n][f]: the content of file f of upgrade n, Nil: no file
    info,      \* info[n]: upgrade-info.json of upgrade n
    current,   \* where cosmovisor/current points to, Nil: no link
    genesis,   \* where cosmovisor/genesis points to
    opt,       \* whether the container has an /opt/cosmovisor
    pc,        \* the write the job is about to do, "idle": no job
    job,       \* the version being installed
    link,      \* linkCurrent
    next,      \* the index in Files(job) of the next download
    result,    \* how the last job ended
    was        \* history: what current was when the job started

layout == <<file, info, current, genesis>>
request == <<job, link, was>>
control == <<pc, job, link, next, result, was>>
vars == <<file, info, current, genesis, opt, pc, job, link, next, result, was>>

\* The downloads of a version in the order the job does them: the binary if
\* there is a URL for it, then the libraries.
Files(v) ==
    (IF v.binary_url # Nil THEN <<[file |-> Bin, url |-> v.binary_url]>> ELSE <<>>)
    \o v.libraries

\* The height create_upgrade_info records.  Its "genesis" argument is
\* os.path.exists(True), a test of file descriptor 1, so a version without a
\* "height" key gets height 1 whatever the tree holds.
InfoHeight(v) == IF v.height = Nil THEN 1 ELSE v.height

\* os.path.exists follows the link.
GenesisExists == genesis \in Names \/ (genesis = InImage /\ opt)

Init ==
    /\ file = [n \in Names |-> [f \in FileNames |-> Nil]]
    /\ info = [n \in Names |-> Nil]
    /\ current = Nil
    /\ genesis = Nil
    /\ opt = (ImageGenesis # Nil)
    /\ pc = "idle"
    /\ job = Nil
    /\ link = FALSE
    /\ next = 1
    /\ result = "none"
    /\ was = Nil

-----------------------------------------------------------------------------
(* create_cv_upgrade *)

\* A slip: the old link is removed before the files are there.
unlink_first(v, linkCurrent) ==
    /\ pc = "idle"
    /\ pc' = "fetch"
    /\ job' = v
    /\ link' = linkCurrent
    /\ next' = 1
    /\ result' = "none"
    /\ was' = current
    /\ current' = Nil
    /\ UNCHANGED <<file, info, genesis, opt>>

create_cv_upgrade(v, linkCurrent) ==
    /\ pc = "idle"
    /\ pc' = "fetch"
    /\ job' = v
    /\ link' = linkCurrent
    /\ next' = 1
    /\ result' = "none"
    /\ was' = current
    /\ UNCHANGED <<layout, opt>>

Ends(outcome) ==
    /\ pc' = "idle"
    /\ result' = outcome
    /\ UNCHANGED <<request, next, opt>>

\* A slip: the file after an existing one is skipped with it.
SkipTwo ==
    /\ pc = "fetch"
    /\ next <= Len(Files(job))
    /\ file[job.name][Files(job)[next].file] # Nil
    /\ next' = next + 2
    /\ UNCHANGED <<layout, opt, pc, request, result>>

\* download_file returns at once when the file exists, whatever it holds.
SkipExisting ==
    /\ pc = "fetch"
    /\ next <= Len(Files(job))
    /\ file[job.name][Files(job)[next].file] # Nil
    /\ next' = next + 1
    /\ UNCHANGED <<layout, opt, pc, request, result>>

\* A slip: a failed download is logged and passed over.
FailurePassedOver ==
    /\ pc = "fetch"
    /\ next <= Len(Files(job))
    /\ file[job.name][Files(job)[next].file] = Nil
    /\ next' = next + 1
    /\ UNCHANGED <<layout, opt, pc, request, result>>

\* The answer is not 200, the image cannot be copied, or no member of the
\* archive matches: an exception of requests or of the chmod that follows.
FetchFails ==
    /\ pc = "fetch"
    /\ next <= Len(Files(job))
    /\ file[job.name][Files(job)[next].file] = Nil
    /\ Ends("raised")
    /\ UNCHANGED layout

\* The file is created under its final name and filled there.
BeginWrite ==
    /\ pc = "fetch"
    /\ next <= Len(Files(job))
    /\ LET f == Files(job)[next]
       IN  /\ file[job.name][f.file] = Nil
           /\ file' = [file EXCEPT ![job.name][f.file] = [url |-> f.url, whole |-> FALSE]]
    /\ pc' = "write"
    /\ UNCHANGED <<info, current, genesis, opt, request, next, result>>

\* A slip: every file comes from the version's first URL.
FinishFromFirst ==
    /\ pc = "write"
    /\ file' = [file EXCEPT ![job.name][Files(job)[next].file] =
                   [url |-> Files(job)[1].url, whole |-> TRUE]]
    /\ next' = next + 1
    /\ pc' = "fetch"
    /\ UNCHANGED <<info, current, genesis, opt, request, result>>

FinishWrite ==
    /\ pc = "write"
    /\ file' = [file EXCEPT ![job.name][Files(job)[next].file] =
                   [url |-> Files(job)[next].url, whole |-> TRUE]]
    /\ next' = next + 1
    /\ pc' = "fetch"
    /\ UNCHANGED <<info, current, genesis, opt, request, result>>

\* A full disk, a damaged archive: what was written stays.
WriteFails ==
    /\ pc = "write"
    /\ Ends("raised")
    /\ UNCHANGED layout

\* A slip: the last library is not waited for.
FetchedButOne == pc = "fetch" /\ next >= Len(Files(job))

Fetched == pc = "fetch" /\ next > Len(Files(job))

RaiseNotFound ==
    /\ Fetched
    /\ file[job.name][Bin] = Nil
    /\ Ends("raised")
    /\ UNCHANGED layout

\* Slips: the test for the binary is gone; an existing file is written again.
InfoUntested ==
    /\ Fetched
    /\ pc' = "unlink"
    /\ UNCHANGED <<layout, opt, request, next, result>>

InfoRewritten ==
    /\ Fetched
    /\ file[job.name][Bin] # Nil
    /\ info' = [info EXCEPT ![job.name] = [height |-> InfoHeight(job), whole |-> FALSE]]
    /\ pc' = "dump"
    /\ UNCHANGED <<file, current, genesis, opt, request, next, result>>

\* open(..., 'w') empties the file, json.dump fills it.
create_upgrade_info ==
    /\ Fetched
    /\ file[job.name][Bin] # Nil
    /\ IF InfoHeight(job) >= 1 /\ info[job.name] = Nil
       THEN /\ info' = [info EXCEPT ![job.name] = [height |-> InfoHeight(job), whole |-> FALSE]]
            /\ pc' = "dump"
       ELSE /\ info' = info
            /\ pc' = "unlink"
    /\ UNCHANGED <<file, current, genesis, opt, request, next, result>>

DumpInfo ==
    /\ pc = "dump"
    /\ info' = [info EXCEPT ![job.name].whole = TRUE]
    /\ pc' = "unlink"
    /\ UNCHANGED <<file, current, genesis, opt, request, next, result>>

DumpFails ==
    /\ pc = "dump"
    /\ Ends("raised")
    /\ UNCHANGED layout

\* A slip: linkCurrent is not looked at.
link_always ==
    /\ pc = "unlink"
    /\ current' = Nil
    /\ pc' = "symlink"
    /\ UNCHANGED <<file, info, genesis, opt, request, next, result>>

\* link_cv_current: the old link goes first, the new one is made after it.
link_cv_current ==
    /\ pc = "unlink"
    /\ current' = IF link THEN Nil ELSE current
    /\ pc' = IF link THEN "symlink" ELSE "genesis"
    /\ UNCHANGED <<file, info, genesis, opt, request, next, result>>

SymlinkCurrent ==
    /\ pc = "symlink"
    /\ current' = job.name
    /\ pc' = "genesis"
    /\ UNCHANGED <<file, info, genesis, opt, request, next, result>>

\* A slip: every version becomes the genesis one.
genesis_relinked ==
    /\ pc = "genesis"
    /\ genesis' = job.name
    /\ Ends("ok")
    /\ UNCHANGED <<file, info, current>>

\* link_cv_genesis is called when the link leads nowhere: a dangling link goes
\* first.
link_cv_genesis ==
    /\ pc = "genesis"
    /\ IF GenesisExists
       THEN /\ genesis' = genesis
            /\ Ends("ok")
       ELSE /\ genesis' = Nil
            /\ pc' = "genlink"
            /\ UNCHANGED <<opt, request, next, result>>
    /\ UNCHANGED <<file, info, current>>

SymlinkGenesis ==
    /\ pc = "genlink"
    /\ genesis' = job.name
    /\ Ends("ok")
    /\ UNCHANGED <<file, info, current>>

\* The container is killed between two writes of the job.
Crash ==
    /\ pc # "idle"
    /\ Ends("crashed")
    /\ UNCHANGED layout

-----------------------------------------------------------------------------
(* rsync_cosmovisor: copies what the image holds over the tree, before the  *)
(* job.  Its exit status is not looked at, so any of the files may have     *)
(* been copied; rsync puts each file in place as a whole and copies         *)
(* the genesis link as it is, pointing into the image.                      *)

\* The files of the image: of which upgrade, and which.
InfoFile == "upgrade-info.json"

ImageFiles ==
    {p \in Names \X FileNames : Image[p[1]][p[2]] # Nil}
      \union {p \in Names \X {InfoFile} : ImageInfo[p[1]] # Nil}

\* A slip: rsync --ignore-existing.
rsync_missing(copied, linkCopied) ==
    /\ pc = "idle"
    /\ opt
    /\ file' = [n \in Names |-> [f \in FileNames |->
                  IF <<n, f>> \in copied /\ file[n][f] = Nil THEN Image[n][f] ELSE file[n][f]]]
    /\ genesis' = IF linkCopied THEN InImage ELSE genesis
    /\ UNCHANGED <<info, current, opt, control>>

rsync_cosmovisor(copied, linkCopied) ==
    /\ pc = "idle"
    /\ opt
    /\ file' = [n \in Names |-> [f \in FileNames |->
                  IF <<n, f>> \in copied /\ Image[n][f] # Nil THEN Image[n][f] ELSE file[n][f]]]
    /\ info' = [n \in Names |->
                  IF <<n, InfoFile>> \in copied /\ ImageInfo[n] # Nil
                  THEN ImageInfo[n] ELSE info[n]]
    /\ genesis' = IF linkCopied THEN InImage ELSE genesis
    /\ UNCHANGED <<current, opt, control>>

\* The volume is mounted in a container of the other kind of image, the
\* chain's own or the generic one.
NewContainer ==
    /\ pc = "idle"
    /\ ImageGenesis # Nil
    /\ opt' = ~opt
    /\ UNCHANGED <<layout, control>>

-----------------------------------------------------------------------------

\* What the job does of itself, and what can go wrong with a write.
Work ==
    \/ SkipExisting \/ BeginWrite \/ FinishWrite \/ RaiseNotFound
    \/ create_upgrade_info \/ DumpInfo
    \/ link_cv_current \/ SymlinkCurrent \/ link_cv_genesis \/ SymlinkGenesis

Failure == FetchFails \/ WriteFails \/ DumpFails

Step == Work \/ Failure

Start == \E v \in Requests, linkCurrent \in LinkModes : create_cv_upgrade(v, linkCurrent)

Rsync == \E copied \in SUBSET ImageFiles, linkCopied \in BOOLEAN :
            rsync_cosmovisor(copied, linkCopied)

Next == Start \/ Step \/ Crash \/ Rsync \/ NewContainer

Spec == Init /\ [][Next]_vars

-----------------------------------------------------------------------------
(* Properties *)

\* Every variable has its type.
TypeOK ==
    /\ file \in [Names -> [FileNames -> Content \union {Nil}]]
    /\ info \in [Names -> UpgradeInfo \union {Nil}]
    /\ current \in Names \union {Nil}
    /\ genesis \in Names \union {Nil, InImage}
    /\ opt \in BOOLEAN
    /\ opt => ImageGenesis # Nil
    /\ pc \in {"idle", "fetch", "write", "dump", "unlink", "symlink", "genesis", "genlink"}
    /\ job \in Requests \union {Nil}
    /\ link \in BOOLEAN
    /\ next \in Nat
    /\ job # Nil => next \in 1 .. Len(Files(job)) + 1
    /\ pc = "write" => next <= Len(Files(job))
    /\ pc = "dump" => info[job.name] # Nil
    /\ pc # "idle" => job # Nil
    /\ result \in {"none", "ok", "raised", "crashed"}
    /\ was \in Names \union {Nil}

\* Neither link ever leads to an upgrade without a binary: create_cv_upgrade
\* links after the existence check (cvutils.py:168) and no job removes a file.
LinksResolve ==
    /\ current # Nil => file[current][Bin] # Nil
    /\ genesis \in Names => file[genesis][Bin] # Nil
    /\ genesis = InImage => ImageGenesis # Nil

\* The files of the requested version that are there.
Present(v) == \A k \in DOMAIN Files(v) : file[v.name][Files(v)[k].file] # Nil

\* What the job has done when it is at pc; the part of the inductive invariant
\* that relates the control state to the tree.  In words: the files before
\* next are there; past the existence check the binary is; current is
\* untouched up to the unlink, then missing, then the new version.
JobProgress ==
    /\ pc # "idle" =>
          /\ result = "none"
          /\ \A k \in 1 .. next - 1 : file[job.name][Files(job)[k].file] # Nil
    /\ pc = "write" => file[job.name][Files(job)[next].file] # Nil
    /\ pc \in {"dump", "unlink", "symlink", "genesis", "genlink"} =>
          /\ next = Len(Files(job)) + 1
          /\ file[job.name][Bin] # Nil
          /\ InfoHeight(job) >= 1 => info[job.name] # Nil
    /\ pc \in {"fetch", "write", "dump", "unlink"} => current = was
    /\ pc = "symlink" => current = Nil /\ link
    /\ pc \in {"genesis", "genlink"} => current = IF link THEN job.name ELSE was
    /\ pc = "genlink" => genesis = Nil
    /\ result # "none" => job # Nil

\* When the job has returned, every file the version lists is there, current
\* leads to the version if asked to, genesis leads somewhere and a version
\* with a height has its upgrade-info.json: all of what cvutils.py:140-176 is
\* for, whatever earlier jobs left behind and whatever is copied afterwards.
InstallDone ==
    pc = "idle" /\ result = "ok" =>
       /\ Present(job)
       /\ file[job.name][Bin] # Nil
       /\ link => current = job.name
       /\ genesis # Nil
       /\ InfoHeight(job) >= 1 => info[job.name] # Nil

\* A version that cannot be had does not take away the one that runs: when the
\* job raises, current is what it was, and when it is killed, current is what
\* it was, is the new version, or is missing (cvutils.py:204-209).
FailureKeepsCurrent ==
    /\ pc = "idle" /\ result = "raised" => current = was
    /\ pc = "idle" /\ result = "crashed" => current \in {was, job.name, Nil}

\* If no two requests and no image name different URLs for one file, then the
\* file that is there is the one asked for, although download_file only looks
\* at its name (cvutils.py:228).
OneUrlPerFile ==
    /\ \A v, w \in Requests : \A i \in DOMAIN Files(v), j \in DOMAIN Files(w) :
          v.name = w.name /\ Files(v)[i].file = Files(w)[j].file
             => Files(v)[i].url = Files(w)[j].url
    /\ \A v \in Requests : \A i \in DOMAIN Files(v) :
          LET c == Image[v.name][Files(v)[i].file] IN c # Nil => c.url = Files(v)[i].url

FilesAsRequested ==
    OneUrlPerFile =>
       (pc = "idle" /\ result = "ok" =>
           \A k \in DOMAIN Files(job) :
              file[job.name][Files(job)[k].file].url = Files(job)[k].url)

\* The height in an upgrade-info.json is never changed by a later job, only by
\* the image's copy of the file (cvutils.py:186).
InfoKept ==
    [][\A n \in Names :
          info[n] # Nil /\ info'[n] # info[n] =>
             info'[n] # Nil /\ (info'[n].height = info[n].height \/ info'[n] = ImageInfo[n])]_vars

\* The genesis link keeps its target as long as the target exists: a later
\* version never becomes the genesis one (cvutils.py:173).
GenesisKept ==
    [][GenesisExists /\ genesis' # genesis => genesis' = InImage]_vars

\* The job implements an installation (cvutils.py:140-221): every one of its
\* writes is a step of Installation or changes nothing there.  Between the
\* unlink and the symlink the old version counts as the active one (a kill
\* there loses it), and a genesis link that leads nowhere as none.
installedBar == {n \in Names : file[n][Bin] # Nil}
activeBar    == IF pc = "symlink" THEN was ELSE current
baseBar      == IF GenesisExists THEN genesis ELSE Nil
wantBar      == IF job = Nil THEN Nil ELSE [name |-> job.name, link |-> link]
statusBar    == IF pc = "idle" THEN result ELSE "busy"

Abstract ==
    INSTANCE Installation WITH
        Provided <- {n \in Names : Image[n][Bin] # Nil},
        installed <- installedBar, active <- activeBar, base <- baseBar,
        want <- wantBar, status <- statusBar

ImplementsInstallation == Abstract!Spec

\* cvutils.py:169, "Successfully added binary": a job that has returned has the
\* whole binary in place.  An earlier job killed while it wrote the file
\* breaks it: the rest is never downloaded.
AddedBinaryWhole ==
    pc = "idle" /\ result = "ok" => file[job.name][Bin].whole

=============================================================================
