---- MODULE DatasetSync ----
(***************************************************************************)
(* The way of the price files from the server to the application.  The     *)
(* server updates its files and packs them, now and then, into a bundle    *)
(* with a tag of its content; the application downloads the bundle when    *)
(* the tag is not its own and unpacks it file by file over its files, or,  *)
(* while there is no bundle, fetches the files that a list of the server   *)
(* shows as newer.  Runs of the application read the files meanwhile, and  *)
(* move one that they cannot read out of the way.  A machine that fetches  *)
(* prices itself may upload its files to the server.                       *)
(***************************************************************************)
EXTENDS Integers

CONSTANTS
  Files,
  MaxVersion  \* bound: versions of a file

\* Where a refresh may be, besides at a file that it is writing.
PullPlaces == {"rest", "list", "asked", "unpack"}

ASSUME DatasetAssumption ==
  Files # {} /\ Files \cap PullPlaces = {} /\ MaxVersion \in Nat

NoTag == -1

VARIABLES
  server,   \* version of each file at the server
  bundle,   \* the versions in the bundle, <<>> before there is one
  meta,     \* the versions that the tag on file stands for
  packing,  \* the bundle is replaced and its tag not yet
  local,    \* version of each file of the application, None if it is not there
  torn,     \* the files that are not whole
  etag,     \* the tag that the application has noted
  pull,     \* the refresh: where it is, its tag, what it got, files to come
  back,     \* whether the upload has put an older file in place
  moved     \* files moved away while they were being unpacked

dataVars == <<server, bundle, meta, packing, local, torn, etag, pull, back,
              moved>>

AtRest == [pc |-> "rest", tag |-> <<>>, got |-> <<>>, left |-> {}]

DatasetInit ==
  /\ server = [f \in Files |-> 0]
  /\ bundle = <<>> /\ meta = <<>> /\ packing = FALSE
  /\ local = [f \in Files |-> NoTag]
  /\ back = FALSE
  /\ torn = {}
  /\ etag = <<>>
  /\ pull = AtRest
  /\ moved = {}

---------------------------------------------------------------------------
(* The server: a job or an upload replaces a file at once.                  *)
Updates(f) ==
  /\ server[f] < MaxVersion
  /\ server' = [server EXCEPT ![f] = @ + 1]
  /\ UNCHANGED <<bundle, meta, packing, local, torn, etag, pull, back, moved>>

(* A machine with files of its own sends the server those that are newer    *)
(* than in a list it asked for, or all if it cannot have the list, with some *)
(* tries each; the server may have got newer ones by then.  The server      *)
(* empties its cache at the end.  Bound: one older file.                    *)
Uploads(f, version) ==
  /\ ~back
  /\ server' = [server EXCEPT ![f] = version]
  /\ back' = (version < server[f])
  /\ UNCHANGED <<bundle, meta, packing, local, torn, etag, pull, moved>>

(* The bundle takes the place of the old one, and then the tag.             *)
BundlePacked ==
  /\ ~packing
  /\ bundle' = server /\ packing' = TRUE
  /\ UNCHANGED <<server, meta, local, torn, etag, pull, back, moved>>

BundleTagged ==
  /\ packing
  /\ meta' = bundle /\ packing' = FALSE
  /\ UNCHANGED <<server, bundle, local, torn, etag, pull, back, moved>>

ServerDies ==
  /\ packing
  /\ packing' = FALSE
  /\ UNCHANGED <<server, bundle, meta, local, torn, etag, pull, back, moved>>

---------------------------------------------------------------------------
(* One refresh at a time: nothing to do, no bundle, or a bundle to come.    *)
PullAsks ==
  /\ pull.pc = "rest"
  /\ IF bundle = <<>> \/ meta = <<>>
     THEN pull' = [pc |-> "list", tag |-> <<>>, got |-> server, left |-> Files]
     ELSE /\ meta # etag
          /\ pull' = [AtRest EXCEPT !.pc = "asked", !.tag = meta]
  /\ UNCHANGED <<server, bundle, meta, packing, local, torn, etag, back, moved>>

PullDownloads ==
  /\ pull.pc = "asked"
  /\ pull' = [pull EXCEPT !.pc = "unpack", !.got = bundle, !.left = Files]
  /\ UNCHANGED <<server, bundle, meta, packing, local, torn, etag, back, moved>>

(* A file is unpacked in its place: it is not whole until it is written.    *)
PullOpens(f) ==
  /\ pull.pc = "unpack"
  /\ f \in pull.left
  /\ pull' = [pull EXCEPT !.pc = f]
  /\ torn' = torn \cup {f}
  /\ UNCHANGED <<server, bundle, meta, packing, local, etag, back, moved>>

(* If it was moved away in between, what was written is there and not here. *)
PullWrites(f) ==
  /\ pull.pc = f
  /\ pull' = [pull EXCEPT !.pc = "unpack", !.left = @ \ {f}]
  /\ IF f \in torn
     THEN /\ local' = [local EXCEPT ![f] = pull.got[f]]
          /\ moved' = moved \ {f}
     ELSE /\ moved' = moved \cup {f}
          /\ UNCHANGED local
  /\ torn' = torn \ {f}
  /\ UNCHANGED <<server, bundle, meta, packing, etag, back>>

(* The tag is the one that the server has by then. *)
PullTagsCurrent ==
  /\ pull.pc = "unpack" /\ pull.left = {}
  /\ etag' = meta
  /\ pull' = AtRest
  /\ UNCHANGED <<server, bundle, meta, packing, local, torn, back, moved>>

(* The tag is noted when all is unpacked.                                   *)
PullTags ==
  /\ pull.pc = "unpack" /\ pull.left = {}
  /\ etag' = pull.tag
  /\ pull' = AtRest
  /\ UNCHANGED <<server, bundle, meta, packing, local, torn, back, moved>>

(* A file of the list whose local one is older, missing or torn is fetched  *)
(* whole, or not at all.                                                    *)
OlderFile(f) == f \in torn \/ local[f] < pull.got[f]

PullFetches(f) ==
  /\ pull.pc = "list"
  /\ f \in pull.left
  /\ pull' = [pull EXCEPT !.left = @ \ {f}]
  /\ \/ /\ OlderFile(f)
        /\ local' = [local EXCEPT ![f] = server[f]]
        /\ torn' = torn \ {f}
        /\ moved' = moved \ {f}
     \/ UNCHANGED <<local, torn, moved>>
  /\ UNCHANGED <<server, bundle, meta, packing, etag, back>>

PullListed ==
  /\ pull.pc = "list" /\ pull.left = {}
  /\ pull' = AtRest
  /\ UNCHANGED <<server, bundle, meta, packing, local, torn, etag, back, moved>>

(* The connection, the disk or the program fails: a file stays torn.        *)
DatasetPullFails ==
  /\ pull.pc # "rest"
  /\ pull' = AtRest
  /\ UNCHANGED <<server, bundle, meta, packing, local, torn, etag, back, moved>>

(* A run loads the files without regard to a refresh; one that is torn is   *)
(* moved away, if the system lets it.                                       *)
LoadsFile(f) ==
  /\ f \in torn
  /\ local' = [local EXCEPT ![f] = NoTag]
  /\ torn' = torn \ {f}
  /\ UNCHANGED <<server, bundle, meta, packing, etag, pull, back, moved>>

DatasetNext ==
  \/ BundlePacked \/ BundleTagged \/ ServerDies
  \/ PullAsks \/ PullDownloads \/ PullTags \/ PullListed \/ DatasetPullFails
  \/ \E f \in Files, version \in 0..MaxVersion : Uploads(f, version)
  \/ \E f \in Files : Updates(f)
                      \/ PullOpens(f) \/ PullWrites(f)
                      \/ PullFetches(f) \/ LoadsFile(f)

DatasetSpec == DatasetInit /\ [][DatasetNext]_dataVars

---------------------------------------------------------------------------
(* When the tag that the application has noted is that of the server, so    *)
(* that nothing more is downloaded, its files are whole and as new as those *)
(* of the bundle: through refreshes that stop anywhere, bundles replaced    *)
(* during a download, and crashes of the server between bundle and tag.     *)
(* Except for a file that a run moved away while it was unpacked; and after *)
(* an upload that compared too early and put an older file in the place of  *)
(* a newer one, as the tag of an earlier content then comes back.           *)
TagCovers ==
  pull.pc = "rest" /\ etag # <<>> /\ etag = meta /\ ~back =>
    \A f \in Files : \/ f \notin torn /\ local[f] >= etag[f]
                     \/ f \in moved
====
