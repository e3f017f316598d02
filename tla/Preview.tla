---- MODULE Preview ----
(***************************************************************************)
(* The preview of the next day: built by the server from its dataset and   *)
(* the latest snapshot of the user, merged into that snapshot's row, and   *)
(* pulled by the local application as the list of what to buy.  The daily  *)
(* job, the user's button and the pull of a row without a preview build    *)
(* it, each in a session of its own; a new snapshot comes without one.     *)
(* The web page polls the row with a tag that a new row and a heartbeat    *)
(* change.  A preview is the generation of the dataset it was built from;  *)
(* of the refreshes of the data, only some are followed by new previews.   *)
(***************************************************************************)
EXTENDS Integers

CONSTANTS
  MaxData,  \* bound: generations of the dataset
  MaxRows   \* bound: snapshots pushed

VARIABLES
  data,        \* the generation of the dataset, from 1
  announced,   \* the last generation that previews were to be built for
  duePreview,  \* the daily job has new data and has not built yet
  row,         \* the latest snapshot: its number, its preview (0 without one)
  build,       \* the builders at work: the data they built from, their row
  failed,      \* the job could not build or commit the announced data
  lateRows,    \* the last preview written was built before that generation
  web,         \* the row as the web page shows it
  tagged,      \* the tag of the page is the current one
  cached       \* the preview in the application's file, 0 without one

previewVars == <<data, announced, duePreview, row, build, failed, lateRows, web,
                 tagged, cached>>

Builders == {"job", "button", "pull"}
Resting == [pc |-> "rest", data |-> 0, row |-> 0]

PreviewInit ==
  /\ data = 1 /\ announced = 1
  /\ duePreview = FALSE
  /\ row = [id |-> 0, prev |-> 0]
  /\ build = [b \in Builders |-> Resting]
  /\ failed = FALSE /\ lateRows = FALSE
  /\ web = [id |-> 0, prev |-> 0]
  /\ tagged = FALSE
  /\ cached = 0

---------------------------------------------------------------------------
(* A job that refreshes the data, and the previews when it is done.         *)
DataRefreshes ==
  /\ data < MaxData
  /\ ~duePreview
  /\ build["job"] = Resting
  /\ data' = data + 1
  /\ announced' = data'
  /\ duePreview' = TRUE
  /\ UNCHANGED <<row, build, failed, lateRows, web, tagged, cached>>

(* The data are replaced and no preview is built: the weekly fundamentals   *)
(* of US stocks, files that a user has sent, an order to load them again.   *)
DataReplaced ==
  /\ data < MaxData
  /\ data' = data + 1
  /\ UNCHANGED <<announced, duePreview, row, build, failed, lateRows, web,
                 tagged, cached>>

(* The job skips the user whose row has a preview already. *)
BuildsMissing(b) ==
  /\ b \in {"job", "button"}
  /\ build[b] = Resting
  /\ b = "job" => duePreview
  /\ duePreview' = (duePreview /\ b # "job")
  /\ IF row.id = 0 \/ row.prev # 0 THEN UNCHANGED build
     ELSE build' = [build EXCEPT ![b] = [pc |-> "built", data |-> data, row |-> 0]]
  /\ UNCHANGED <<data, announced, row, failed, lateRows, web, tagged, cached>>

(* A builder reads the latest snapshot and the data; without a snapshot the *)
(* job skips the user, and the button and the pull answer unavailable.      *)
Builds(b) ==
  /\ b \in {"job", "button"}
  /\ build[b] = Resting
  /\ b = "job" => duePreview
  /\ duePreview' = (duePreview /\ b # "job")
  /\ IF row.id = 0 THEN UNCHANGED build
     ELSE build' = [build EXCEPT ![b] = [pc |-> "built", data |-> data, row |-> 0]]
  /\ UNCHANGED <<data, announced, row, failed, lateRows, web, tagged, cached>>

(* It reads the latest snapshot again, which may be a newer one.            *)
ReadsRow(b) ==
  /\ build[b].pc = "built"
  /\ build' = [build EXCEPT ![b].pc = "merging", ![b].row = row.id]
  /\ UNCHANGED <<data, announced, duePreview, row, failed, lateRows, web,
                 tagged, cached>>

(* It commits the row with the preview; a row that is no longer the latest  *)
(* is read by nobody.                                                       *)
WritesRow(b) ==
  IF build[b].row = row.id
  THEN /\ row' = [row EXCEPT !.prev = build[b].data]
       /\ lateRows' = (build[b].data < announced)
  ELSE UNCHANGED <<row, lateRows>>

Merges(b) ==
  /\ b \in {"job", "button"}
  /\ build[b].pc = "merging"
  /\ WritesRow(b)
  /\ build' = [build EXCEPT ![b] = Resting]
  /\ failed' = (failed /\ b # "job")
  /\ UNCHANGED <<data, announced, duePreview, web, tagged, cached>>

(* The job logs the error of a user and goes on with the next one.          *)
JobFails ==
  /\ build["job"].pc \in {"built", "merging"}
  /\ build' = [build EXCEPT !["job"] = Resting]
  /\ failed' = TRUE
  /\ UNCHANGED <<data, announced, duePreview, row, lateRows, web, tagged, cached>>

---------------------------------------------------------------------------
(* The cycle pulls: a row without a preview gets one that the server builds *)
(* now; a row with one is only answered.                                    *)
PullBuilds ==
  /\ build["pull"] = Resting
  /\ row.id # 0 /\ row.prev = 0
  /\ build' = [build EXCEPT !["pull"] =
                  [pc |-> "merging", data |-> data, row |-> row.id]]
  /\ UNCHANGED <<data, announced, duePreview, row, failed, lateRows, web,
                 tagged, cached>>

(* The preview is merged, also for a client that has given up.              *)
PullMerges ==
  /\ build["pull"].pc = "merging"
  /\ WritesRow("pull")
  /\ build' = [build EXCEPT !["pull"] = Resting]
  /\ cached' \in {cached, build["pull"].data}
  /\ UNCHANGED <<data, announced, duePreview, failed, web, tagged>>

(* The build raises: the server answers that there is none, and the file is *)
(* not used.                                                                *)
PullFails ==
  /\ build["pull"].pc = "merging"
  /\ build' = [build EXCEPT !["pull"] = Resting]
  /\ UNCHANGED <<data, announced, duePreview, row, failed, lateRows, web,
                 tagged, cached>>

(* The client is answered with the preview of the row and keeps it in its   *)
(* file, for a cycle that cannot reach the server; the file is void after a *)
(* day.                                                                     *)
PullAnswers ==
  /\ row.prev # 0
  /\ cached' = row.prev
  /\ UNCHANGED <<data, announced, duePreview, row, build, failed, lateRows,
                 web, tagged>>

CachedVoid ==
  /\ cached' = 0
  /\ UNCHANGED <<data, announced, duePreview, row, build, failed, lateRows,
                 web, tagged>>

---------------------------------------------------------------------------
(* A snapshot is pushed: a new row without a preview, and a new tag.        *)
RowArrives ==
  /\ row.id < MaxRows
  /\ row' = [id |-> row.id + 1, prev |-> 0]
  /\ tagged' = FALSE
  /\ UNCHANGED <<data, announced, duePreview, build, failed, lateRows, web,
                 cached>>

Heartbeats ==
  /\ tagged' = FALSE
  /\ UNCHANGED <<data, announced, duePreview, row, build, failed, lateRows,
                 web, cached>>

(* The page is answered "not modified" while its tag is the current one.    *)
WebPolls ==
  /\ web' = IF tagged THEN web ELSE row
  /\ tagged' = TRUE
  /\ UNCHANGED <<data, announced, duePreview, row, build, failed, lateRows,
                 cached>>

PreviewNext ==
  \/ DataRefreshes \/ DataReplaced \/ JobFails
  \/ \E b \in Builders : Builds(b) \/ ReadsRow(b) \/ Merges(b)
  \/ PullBuilds \/ PullMerges \/ PullFails
  \/ PullAnswers \/ CachedVoid
  \/ RowArrives \/ Heartbeats \/ WebPolls

PreviewSpec == PreviewInit /\ [][PreviewNext]_previewVars

---------------------------------------------------------------------------
(* With no builder at work, the preview in the latest row is of the data    *)
(* that the last such refresh left, or of newer ones, however builders,     *)
(* snapshots, pulls and silent replacements overlapped: except after a job  *)
(* that failed, or a builder that was at work during that refresh and wrote *)
(* last.  Data that were replaced without a word are in the preview only    *)
(* once something else has it built again.  And a page whose tag is the     *)
(* current one shows the latest row, although a preview merged into it does *)
(* not change the tag.                                                      *)
PreviewCurrent ==
  /\ (row.prev # 0 /\ ~duePreview /\ \A b \in Builders : build[b] = Resting)
       => row.prev >= announced \/ failed \/ lateRows
  /\ tagged => web.id = row.id

====
